---------------------------- MODULE OrderedQueue ----------------------------
(***************************************************************************)
(* tools::OrderedQueue (sp_vision_25/tools/thread_pool.hpp): detector      *)
(* threads enqueue frames out of order, consumers dequeue them in the      *)
(* order of their ids.                                                     *)
(*                                                                         *)
(* Every method holds the mutex from its first to its last line, so each   *)
(* call is one step; a dequeue that finds nothing is split by the wait,    *)
(* which gives the mutex back until a notification wakes the consumer.     *)
(* A frame is its id: the queue never looks at anything else.              *)
(***************************************************************************)
EXTENDS Integers, Sequences

CONSTANTS
  N,              \* frame ids are 1 .. N
  Consumers       \* threads that call dequeue

ASSUME QueueAssumption == N \in Nat /\ Consumers # {}

VARIABLES
  current,        \* current_id_
  main,           \* main_queue_
  buffer,         \* the keys of buffer_
  pc,             \* where each consumer is
  submitted,      \* history: ids ever enqueued
  delivered       \* history: the last id dequeued

vars == <<current, main, buffer, pc, submitted, delivered>>

(* "calling": about to take the mutex in dequeue, or awake in its wait;    *)
(* "waiting": asleep on cond_var_;  "holding": has a frame.                *)
Places == {"calling", "waiting", "holding"}

TypeOK ==
  /\ current \in 1 .. N + 1
  /\ main \in Seq(1 .. N)
  /\ buffer \in SUBSET (1 .. N)
  /\ pc \in [Consumers -> Places]
  /\ submitted \in SUBSET (1 .. N)
  /\ delivered \in 0 .. N

Init ==
  /\ current = 1
  /\ main = <<>>
  /\ buffer = {}
  /\ pc = [c \in Consumers |-> "calling"]
  /\ submitted = {}
  /\ delivered = 0

----------------------------------------------------------------------------
\* Mutant: the run is one frame too long.
IdsOneMore(first, last) == [i \in 1 .. last - first + 2 |-> first + i - 1]

\* The ids first, first + 1, ..., last as a sequence.
Ids(first, last) == [i \in 1 .. last - first + 1 |-> first + i - 1]

\* Mutant: one buffered frame is released per call.
RunEndsOneOnly(id, next) ==
  next = IF id + 1 \in buffer THEN id + 2 ELSE id + 1

(* The drain loop stops at next: everything between is buffered, next is   *)
(* not.                                                                    *)
RunEnds(id, next) ==
  /\ id + 1 .. next - 1 \subseteq buffer
  /\ next \notin buffer

\* Mutant: the wakeup is sent when the queue holds one frame exactly.
NotifyOnExactlyOne ==
  IF Len(main') = 1 /\ \E c \in Consumers : pc[c] = "waiting"
  THEN \E c \in Consumers :
         /\ pc[c] = "waiting"
         /\ pc' = [pc EXCEPT ![c] = "calling"]
  ELSE UNCHANGED pc

\* cond_var_.notify_one(): one of the sleepers wakes, if there is one.
NotifyOne ==
  IF \E c \in Consumers : pc[c] = "waiting"
  THEN \E c \in Consumers :
         /\ pc[c] = "waiting"
         /\ pc' = [pc EXCEPT ![c] = "calling"]
  ELSE UNCHANGED pc

\* enqueue, "small id": the frame was released before and is dropped.
EnqueueSmall(id) ==
  /\ id < current
  /\ UNCHANGED <<current, main, buffer, pc>>

\* enqueue of the frame everybody waits for: it and the run behind it go.
EnqueueCurrent(id) ==
  /\ id = current
  /\ \E next \in id + 1 .. N + 1 :
       /\ RunEnds(id, next)
       /\ main' = main \o Ids(id, next - 1)
       /\ buffer' = buffer \ (id .. next - 1)
       /\ current' = next
  /\ NotifyOne

\* Mutant: a frame released before is buffered too.
EnqueueNotCurrent(id) ==
  /\ id # current
  /\ buffer' = buffer \cup {id}
  /\ UNCHANGED <<current, main, pc>>

\* Mutant: a frame ahead of its turn does not wait for it.
EnqueueUnordered(id) ==
  /\ id > current
  /\ main' = Append(main, id)
  /\ UNCHANGED <<current, buffer, pc>>

\* enqueue of a frame that is ahead of its turn.
EnqueueAhead(id) ==
  /\ id > current
  /\ buffer' = buffer \cup {id}
  /\ UNCHANGED <<current, main, pc>>

Enqueue(id) ==
  /\ EnqueueSmall(id) \/ EnqueueCurrent(id) \/ EnqueueAhead(id)
  /\ submitted' = submitted \cup {id}
  /\ UNCHANGED delivered

\* dequeue or try_dequeue with a frame ready.
Dequeue(c) ==
  /\ pc[c] = "calling"
  /\ main # <<>>
  /\ main' = Tail(main)
  /\ delivered' = Head(main)
  /\ pc' = [pc EXCEPT ![c] = "holding"]
  /\ UNCHANGED <<current, buffer, submitted>>

\* dequeue with nothing ready: the wait.
Sleep(c) ==
  /\ pc[c] = "calling"
  /\ main = <<>>
  /\ pc' = [pc EXCEPT ![c] = "waiting"]
  /\ UNCHANGED <<current, main, buffer, submitted, delivered>>

\* The consumer is done with its frame and comes back for another.
Return(c) ==
  /\ pc[c] = "holding"
  /\ pc' = [pc EXCEPT ![c] = "calling"]
  /\ UNCHANGED <<current, main, buffer, submitted, delivered>>

Consume(c) == Dequeue(c) \/ Sleep(c) \/ Return(c)

Next == (\E id \in 1 .. N : Enqueue(id)) \/ (\E c \in Consumers : Consume(c))

Spec == Init /\ [][Next]_vars

\* Every consumer thread keeps running; nobody has to submit anything.
FairSpec == Spec /\ \A c \in Consumers : WF_vars(Consume(c))

----------------------------------------------------------------------------
(* Nothing is lost, doubled or overtaken: the frames in the main queue are *)
(* the run from the last delivered to the one waited for, and every other  *)
(* submitted frame is in the buffer (lines 65-87).                         *)
QueueIsTheRun ==
  /\ main = Ids(delivered + 1, current - 1)
  /\ submitted = (1 .. current - 1) \cup buffer
  /\ \A id \in buffer : id > current

(* One notification for a whole run is enough to keep someone awake while  *)
(* a frame is ready (lines 82-84, 94).                                     *)
SomeoneIsAwake ==
  main # <<>> => \E c \in Consumers : pc[c] # "waiting"

(* A frame whose predecessors were all submitted is not held back,         *)
(* whichever came last: it came out, or frames up to it are ready and not  *)
(* all consumers sleep (lines 70-84, 94).                                  *)
FrameIsServed ==
  \A id \in 1 .. N :
    1 .. id \subseteq submitted /\ delivered < id
      => /\ main # <<>>
         /\ id < current
         /\ \E c \in Consumers : pc[c] # "waiting"

(* A frame comes out once all the frames up to it were submitted, however  *)
(* late the missing one came (lines 70-84).                                *)
RunsAreDelivered ==
  \A id \in 1 .. N : (1 .. id \subseteq submitted) ~> (delivered >= id)

(* The queue implements the order it promises.                             *)
Order == INSTANCE FrameOrder WITH N <- N, submitted <- submitted, delivered <- delivered
OrderSpec == Order!Spec
=============================================================================
