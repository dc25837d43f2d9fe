---------------------------- MODULE QueueProofs ----------------------------
(* The two queues of sp_vision_25.  The ordered queue keeps its order, its *)
(* consumers do not sleep on a frame, and it implements FrameOrder, for    *)
(* any number of frames and of consumers.  The queue of attitudes has the  *)
(* samples around a new image, for any capacity, threads and images.       *)
EXTENDS OrderedQueue, ImuQueue, SequenceTheorems, TLAPS

----------------------------------------------------------------------------
(* The ordered queue: runs of ids.                                         *)

\* A run is a sequence, one id per place.
LEMMA IdsType ==
  ASSUME NEW lo \in Nat \ {0}, NEW hi \in Nat, lo <= hi + 1, hi <= N
  PROVE  /\ Ids(lo, hi) \in Seq(1 .. N)
         /\ Len(Ids(lo, hi)) = hi - lo + 1
         /\ \A i \in 1 .. hi - lo + 1 : Ids(lo, hi)[i] = lo + i - 1
<1>1. hi - lo + 1 \in Nat
  OBVIOUS
<1>2. Ids(lo, hi) \in [1 .. hi - lo + 1 -> 1 .. N]
  BY QueueAssumption DEF Ids
<1>3. Ids(lo, hi) \in Seq(1 .. N)
  BY <1>1, <1>2, SeqDef
<1>4. Len(Ids(lo, hi)) = hi - lo + 1
  BY <1>1, <1>3, LenProperties DEF Ids
<1> QED
  BY <1>3, <1>4 DEF Ids

\* Two adjacent runs make one.
LEMMA IdsConcat ==
  ASSUME NEW lo \in Nat \ {0}, NEW hi \in Nat, NEW top \in Nat,
         lo <= hi + 1, hi <= top, top <= N
  PROVE  Ids(lo, hi) \o Ids(hi + 1, top) = Ids(lo, top)
<1> DEFINE s == Ids(lo, hi)  t == Ids(hi + 1, top)  u == Ids(lo, top)
<1> USE QueueAssumption
<1>0. /\ hi <= N /\ lo <= top + 1 /\ hi + 1 \in Nat \ {0} /\ hi + 1 <= top + 1
      /\ top - (hi + 1) + 1 = top - hi
  OBVIOUS
<1>1. /\ s \in Seq(1 .. N) /\ Len(s) = hi - lo + 1
      /\ \A i \in 1 .. hi - lo + 1 : s[i] = lo + i - 1
  BY <1>0, IdsType
<1>2. /\ t \in Seq(1 .. N) /\ Len(t) = top - hi
      /\ \A i \in 1 .. top - hi : t[i] = hi + i
  <2>1. /\ t \in Seq(1 .. N) /\ Len(t) = top - (hi + 1) + 1
        /\ \A i \in 1 .. top - (hi + 1) + 1 : t[i] = hi + 1 + i - 1
    BY <1>0, IdsType
  <2> QED
    BY <1>0, <2>1
<1>3. /\ u \in Seq(1 .. N) /\ Len(u) = top - lo + 1
      /\ \A i \in 1 .. top - lo + 1 : u[i] = lo + i - 1
  BY <1>0, IdsType
<1> HIDE DEF s, t, u
<1>4. s \o t \in Seq(1 .. N) /\ Len(s \o t) = top - lo + 1
  <2>1. s \o t \in Seq(1 .. N) /\ Len(s \o t) = Len(s) + Len(t)
    BY <1>1, <1>2, ConcatProperties
  <2> QED
    BY <1>1, <1>2, <2>1
<1>5. ASSUME NEW i \in 1 .. top - lo + 1
      PROVE  (s \o t)[i] = u[i]
  <2>1. (s \o t)[i] = IF i <= Len(s) THEN s[i] ELSE t[i - Len(s)]
    <3>1. \A j \in 1 .. Len(s) + Len(t) :
            (s \o t)[j] = IF j <= Len(s) THEN s[j] ELSE t[j - Len(s)]
      BY <1>1, <1>2, ConcatProperties
    <3>2. Len(s) + Len(t) = top - lo + 1
      BY <1>1, <1>2
    <3> QED
      BY <3>1, <3>2
  <2>2. CASE i <= hi - lo + 1
    BY <1>1, <1>3, <2>1, <2>2
  <2>3. CASE i > hi - lo + 1
    <3>1. i - (hi - lo + 1) \in 1 .. top - hi
      BY <2>3
    <3>2. t[i - (hi - lo + 1)] = hi + (i - (hi - lo + 1))
      BY <1>2, <3>1
    <3>3. Len(s) = hi - lo + 1 /\ ~(i <= hi - lo + 1)
      BY <1>1, <2>3
    <3>4. (s \o t)[i] = t[i - (hi - lo + 1)]
      BY <2>1, <3>3
    <3>5. hi + (i - (hi - lo + 1)) = lo + i - 1
      OBVIOUS
    <3> QED
      BY <1>3, <3>2, <3>4, <3>5
  <2>4. i <= hi - lo + 1 \/ i > hi - lo + 1
    OBVIOUS
  <2> QED
    BY <2>2, <2>3, <2>4
<1> QED
  BY <1>3, <1>4, <1>5, SeqEqual DEF s, t, u

\* The first id of a run, and the run behind it.
LEMMA IdsPop ==
  ASSUME NEW lo \in Nat \ {0}, NEW hi \in Nat, lo <= hi + 1, hi <= N,
         Ids(lo, hi) # <<>>
  PROVE  /\ lo <= hi
         /\ Head(Ids(lo, hi)) = lo
         /\ Tail(Ids(lo, hi)) = Ids(lo + 1, hi)
<1> DEFINE s == Ids(lo, hi)  t == Ids(lo + 1, hi)
<1>1. /\ s \in Seq(1 .. N) /\ Len(s) = hi - lo + 1
      /\ \A i \in 1 .. hi - lo + 1 : s[i] = lo + i - 1
  BY IdsType
<1>2. lo <= hi
  BY <1>1, EmptySeq
<1>3. /\ t \in Seq(1 .. N) /\ Len(t) = hi - lo
      /\ \A i \in 1 .. hi - lo : t[i] = lo + i
  <2>1. lo + 1 \in Nat \ {0} /\ lo + 1 <= hi + 1 /\ hi - (lo + 1) + 1 = hi - lo
    BY <1>2
  <2>2. /\ t \in Seq(1 .. N) /\ Len(t) = hi - (lo + 1) + 1
        /\ \A i \in 1 .. hi - (lo + 1) + 1 : t[i] = lo + 1 + i - 1
    BY <2>1, IdsType
  <2> QED
    BY <2>1, <2>2
<1> HIDE DEF s, t
<1>4. /\ Head(s) = s[1]
      /\ Tail(s) \in Seq(1 .. N) /\ Len(Tail(s)) = Len(s) - 1
      /\ \A i \in 1 .. Len(Tail(s)) : Tail(s)[i] = s[i + 1]
  BY <1>1, <1>2, HeadTailProperties, EmptySeq
<1>5. \A i \in 1 .. Len(Tail(s)) : Tail(s)[i] = t[i]
  BY <1>1, <1>3, <1>4
<1>6. Tail(s) = t
  BY <1>1, <1>3, <1>4, <1>5, SeqEqual
<1> QED
  BY <1>1, <1>2, <1>4, <1>6 DEF s, t

----------------------------------------------------------------------------
(* The inductive invariant: the queue is the run that has not come out.    *)

IInv ==
  /\ TypeOK
  /\ delivered < current
  /\ QueueIsTheRun
  /\ SomeoneIsAwake

\* An empty queue is the empty run.
LEMMA InitInv == Init => IInv
<1> SUFFICES ASSUME Init PROVE IInv
  OBVIOUS
<1> USE QueueAssumption
<1>1. Ids(1, 0) = <<>>
  <2>1. Ids(1, 0) \in Seq(1 .. N) /\ Len(Ids(1, 0)) = 0
    BY IdsType
  <2> QED
    BY <2>1, EmptySeq
<1>2. TypeOK
  BY DEF Init, TypeOK, Places
<1>3. delivered < current /\ QueueIsTheRun /\ SomeoneIsAwake
  BY <1>1 DEF Init, QueueIsTheRun, SomeoneIsAwake
<1> QED
  BY <1>2, <1>3 DEF IInv

\* A notification keeps the consumers' places well typed.
LEMMA NotifyType ==
  ASSUME TypeOK, NotifyOne
  PROVE  pc' \in [Consumers -> Places]
  BY DEF TypeOK, NotifyOne, Places

\* After a notification not everybody sleeps.
LEMMA NotifyWakes ==
  ASSUME TypeOK, NotifyOne
  PROVE  \E c \in Consumers : pc'[c] # "waiting"
<1>1. CASE \E c \in Consumers : pc[c] = "waiting"
  <2>1. PICK c \in Consumers : pc' = [pc EXCEPT ![c] = "calling"]
    BY <1>1 DEF NotifyOne
  <2>2. pc'[c] = "calling"
    BY <2>1 DEF TypeOK
  <2> QED
    BY <2>2
<1>2. CASE ~\E c \in Consumers : pc[c] = "waiting"
  <2>1. pc' = pc
    BY <1>2 DEF NotifyOne
  <2> QED
    BY <1>2, <2>1, QueueAssumption
<1> QED
  BY <1>1, <1>2

\* A submitted frame leaves the run a run.
LEMMA EnqueueInv ==
  ASSUME IInv, NEW id \in 1 .. N, Enqueue(id)
  PROVE  IInv'
<1> USE QueueAssumption DEF IInv
<1>1. submitted' = submitted \cup {id} /\ delivered' = delivered
  BY DEF Enqueue
<1>2. CASE EnqueueSmall(id)
  BY <1>1, <1>2 DEF EnqueueSmall, TypeOK, QueueIsTheRun, SomeoneIsAwake
<1>3. CASE EnqueueAhead(id)
  BY <1>1, <1>3 DEF EnqueueAhead, TypeOK, QueueIsTheRun, SomeoneIsAwake
<1>4. CASE EnqueueCurrent(id)
  <2>1. PICK next \in id + 1 .. N + 1 :
          /\ id + 1 .. next - 1 \subseteq buffer
          /\ next \notin buffer
          /\ main' = main \o Ids(id, next - 1)
          /\ buffer' = buffer \ (id .. next - 1)
          /\ current' = next
    BY <1>4 DEF EnqueueCurrent, RunEnds
  <2>2. id = current /\ NotifyOne
    BY <1>4 DEF EnqueueCurrent
  <2>3. /\ delivered + 1 \in Nat \ {0} /\ current - 1 \in Nat /\ next - 1 \in Nat
        /\ delivered + 1 <= current - 1 + 1 /\ current - 1 <= next - 1
        /\ next - 1 <= N /\ current - 1 + 1 = id
        /\ delivered + 1 <= next - 1 + 1
    BY <2>1, <2>2 DEF TypeOK
  <2>4. main' = Ids(delivered + 1, next - 1)
    <3>1. Ids(delivered + 1, current - 1) \o Ids(current - 1 + 1, next - 1)
            = Ids(delivered + 1, next - 1)
      BY <2>3, IdsConcat
    <3> QED
      BY <2>1, <2>3, <3>1 DEF QueueIsTheRun
  <2>5. main' \in Seq(1 .. N)
    BY <2>3, <2>4, IdsType
  <2>6. submitted' = (1 .. next - 1) \cup buffer'
    BY <1>1, <2>1, <2>2, <2>3 DEF QueueIsTheRun, TypeOK
  <2>7. \A b \in buffer' : b > next
    BY <2>1, <2>2 DEF QueueIsTheRun, TypeOK
  <2>8. TypeOK'
    BY <1>1, <2>1, <2>2, <2>5, NotifyType DEF TypeOK
  <2>9. delivered' < current' /\ QueueIsTheRun'
    BY <1>1, <2>1, <2>3, <2>4, <2>6, <2>7 DEF QueueIsTheRun, TypeOK
  <2>10. SomeoneIsAwake'
    BY <2>2, NotifyWakes DEF SomeoneIsAwake
  <2> QED
    BY <2>8, <2>9, <2>10
<1> QED
  BY <1>2, <1>3, <1>4 DEF Enqueue

\* What a dequeue takes is the next frame.
LEMMA DequeueTakesNext ==
  ASSUME IInv, NEW c \in Consumers, Dequeue(c)
  PROVE  /\ delivered + 1 < current
         /\ delivered' = delivered + 1
         /\ main' = Ids(delivered + 2, current - 1)
         /\ main' \in Seq(1 .. N)
<1> USE QueueAssumption DEF IInv
<1>1. /\ delivered + 1 \in Nat \ {0} /\ current - 1 \in Nat
      /\ delivered + 1 <= current - 1 + 1 /\ current - 1 <= N
      /\ delivered + 1 + 1 = delivered + 2
  BY DEF TypeOK
<1>2. main = Ids(delivered + 1, current - 1) /\ main # <<>>
  BY DEF Dequeue, QueueIsTheRun
<1>3. /\ delivered + 1 <= current - 1
      /\ Head(main) = delivered + 1
      /\ Tail(main) = Ids(delivered + 1 + 1, current - 1)
  BY <1>1, <1>2, IdsPop
<1>4. Ids(delivered + 2, current - 1) \in Seq(1 .. N)
  <2>1. delivered + 2 \in Nat \ {0} /\ delivered + 2 <= current - 1 + 1
    BY <1>1, <1>3
  <2> QED
    BY <1>1, <2>1, IdsType
<1>5. main' = Tail(main) /\ delivered' = Head(main)
  BY DEF Dequeue
<1>6. delivered + 1 < current
  BY <1>3 DEF TypeOK
<1> QED
  BY <1>1, <1>3, <1>4, <1>5, <1>6

\* A consumer's step leaves the run a run.
LEMMA ConsumeInv ==
  ASSUME IInv, NEW c \in Consumers, Consume(c)
  PROVE  IInv'
<1> USE DEF IInv
<1>1. CASE Dequeue(c)
  <2>1. pc' \in [Consumers -> Places]
    BY <1>1 DEF Dequeue, TypeOK, Places
  <2>2. TypeOK'
    BY <1>1, <2>1, DequeueTakesNext, QueueAssumption DEF Dequeue, TypeOK
  <2>3. delivered' + 1 = delivered + 2
    BY <1>1, DequeueTakesNext DEF TypeOK
  <2>4. QueueIsTheRun'
    BY <1>1, <2>3, DequeueTakesNext DEF Dequeue, QueueIsTheRun
  <2>5. SomeoneIsAwake'
    <3>1. pc'[c] = "holding"
      BY <1>1 DEF Dequeue, TypeOK
    <3> QED
      BY <3>1 DEF SomeoneIsAwake
  <2> QED
    BY <1>1, <2>2, <2>4, <2>5, DequeueTakesNext DEF Dequeue
<1>2. CASE Sleep(c)
  BY <1>2 DEF Sleep, TypeOK, Places, QueueIsTheRun, SomeoneIsAwake
<1>3. CASE Return(c)
  <2>1. pc'[c] = "calling"
    BY <1>3 DEF Return, TypeOK
  <2> QED
    BY <1>3, <2>1 DEF Return, TypeOK, Places, QueueIsTheRun, SomeoneIsAwake
<1> QED
  BY <1>1, <1>2, <1>3 DEF Consume

\* Every step preserves the invariant.
LEMMA NextInv == IInv /\ [Next]_vars => IInv'
<1>1. ASSUME IInv, UNCHANGED vars PROVE IInv'
  BY <1>1 DEF vars, IInv, TypeOK, QueueIsTheRun, SomeoneIsAwake
<1> QED
  BY <1>1, EnqueueInv, ConsumeInv DEF Next

LEMMA Invariance == Spec => []IInv
  BY InitInv, NextInv, PTL DEF Spec

----------------------------------------------------------------------------
(* The results.                                                            *)

\* The queue's state is well typed (lines 116-118).
THEOREM TypeCorrect == Spec => []TypeOK
<1>1. IInv => TypeOK
  BY DEF IInv
<1> QED
  BY <1>1, Invariance, PTL

(* No frame is lost, doubled or overtaken inside the queue (lines 61-111). *)
THEOREM NothingLost == Spec => []QueueIsTheRun
<1>1. IInv => QueueIsTheRun
  BY DEF IInv
<1> QED
  BY <1>1, Invariance, PTL

(* One notification for a whole run of frames is enough: while a frame is  *)
(* ready, not all consumers sleep (lines 82-84, 94).                       *)
THEOREM NoWakeupLost == Spec => []SomeoneIsAwake
<1>1. IInv => SomeoneIsAwake
  BY DEF IInv
<1> QED
  BY <1>1, Invariance, PTL

(* No frame waits in the buffer once it is complete with those before it,  *)
(* whichever came last (lines 70-84).                                      *)
THEOREM CompleteRunsAreServed == Spec => []FrameIsServed
<1>1. IInv => FrameIsServed
  <2> SUFFICES ASSUME IInv, NEW id \in 1 .. N,
                      1 .. id \subseteq submitted, delivered < id
               PROVE  main # <<>> /\ id < current
    BY DEF IInv, SomeoneIsAwake, FrameIsServed
  <2> USE QueueAssumption DEF IInv, TypeOK
  <2>1. current \notin submitted
    BY DEF QueueIsTheRun
  <2>2. id < current
    BY <2>1
  <2>3. /\ delivered + 1 \in Nat \ {0} /\ current - 1 \in Nat
        /\ delivered + 1 <= current - 1 + 1 /\ current - 1 <= N
        /\ current - 1 - (delivered + 1) + 1 > 0
    BY <2>2
  <2>4. Len(main) > 0
    BY <2>3, IdsType DEF QueueIsTheRun
  <2> QED
    BY <2>2, <2>4
<1> QED
  BY <1>1, Invariance, PTL

(* The queue implements FrameOrder: frames come out in the order of their  *)
(* ids, each once (lines 61-111).                                          *)
THEOREM ImplementsOrder == Spec => OrderSpec
<1>1. Init => Order!Init
  BY DEF Init, Order!Init
<1>2. IInv /\ [Next]_vars => [Order!Next]_<<submitted, delivered>>
  <2> SUFFICES ASSUME IInv, [Next]_vars
               PROVE  [Order!Next]_<<submitted, delivered>>
    OBVIOUS
  <2>1. ASSUME NEW id \in 1 .. N, Enqueue(id)
        PROVE  Order!Next
    BY <2>1 DEF Enqueue, Order!Next, Order!Submit
  <2>2. ASSUME NEW c \in Consumers, Dequeue(c)
        PROVE  Order!Next
    <3>1. delivered + 1 < current /\ delivered' = delivered + 1
      BY <2>2, DequeueTakesNext
    <3>2. delivered + 1 \in submitted
      BY <3>1 DEF IInv, QueueIsTheRun, TypeOK
    <3> QED
      BY <2>2, <3>1, <3>2 DEF Dequeue, Order!Next, Order!Deliver
  <2>3. ASSUME NEW c \in Consumers, Sleep(c) \/ Return(c)
        PROVE  UNCHANGED <<submitted, delivered>>
    BY <2>3 DEF Sleep, Return
  <2>4. CASE UNCHANGED vars
    BY <2>4 DEF vars
  <2> QED
    BY <2>1, <2>2, <2>3, <2>4 DEF Next, Consume
<1> QED
  BY <1>1, <1>2, Invariance, PTL DEF Spec, OrderSpec, Order!Spec

----------------------------------------------------------------------------
(* The queue of attitudes: the inductive invariant.                        *)

(* The sample the last call ended with stays first in the queue, so what   *)
(* the next call starts from is older than an image newer than it.         *)
MarkInv ==
  \A m \in mark :
    /\ at = "look" => queue # <<>> /\ Head(queue) = m
    /\ at = "pop" /\ m < image => queue # <<>> /\ Head(queue) < image
    /\ at = "front" /\ m < image => a < image

ImuInv == ImuTypeOK /\ MarkInv

\* Nothing was read yet.
LEMMA ImuInitInv == ImuInit => ImuInv
  BY ImuAssumption DEF ImuInit, ImuInv, ImuTypeOK, MarkInv, Idle, Samples

\* A push adds at the end of the queue, or nothing.
LEMMA PushedFacts ==
  ASSUME queue \in Seq(Samples), Len(queue) <= Capacity, NEW s \in Samples
  PROVE  /\ Pushed(s) \in Seq(Samples)
         /\ Len(Pushed(s)) <= Capacity
         /\ queue # <<>> => Pushed(s) # <<>> /\ Head(Pushed(s)) = Head(queue)
<1>1. CASE Len(queue) >= Capacity
  BY <1>1 DEF Pushed
<1>2. CASE ~(Len(queue) >= Capacity)
  <2>1. Pushed(s) = Append(queue, s) /\ Len(queue) + 1 <= Capacity
    BY <1>2, ImuAssumption DEF Pushed
  <2>2. /\ Append(queue, s) \in Seq(Samples)
        /\ Len(Append(queue, s)) = Len(queue) + 1
        /\ Append(queue, s) # <<>>
    BY AppendProperties
  <2>3. queue # <<>> => Head(Append(queue, s)) = Head(queue)
    BY HeadTailAppend
  <2> QED
    BY <2>1, <2>2, <2>3
<1> QED
  BY <1>1, <1>2

\* Popping takes the first sample and leaves samples.
LEMMA PoppedFacts ==
  ASSUME queue \in Seq(Samples), Len(queue) <= Capacity, queue # <<>>
  PROVE  /\ Head(queue) \in Samples
         /\ Tail(queue) \in Seq(Samples)
         /\ Len(Tail(queue)) <= Capacity
  BY HeadTailProperties, LenProperties, ImuAssumption

\* The types: one step per action.
LEMMA ImuTypeStep == ImuTypeOK /\ [ImuNext]_imuVars => ImuTypeOK'
<1> SUFFICES ASSUME ImuTypeOK, [ImuNext]_imuVars PROVE ImuTypeOK'
  OBVIOUS
<1>1. CASE ImageDue
  BY <1>1, ImuAssumption DEF ImageDue, reader, ImuTypeOK, Samples
<1>2. CASE Grab
  BY <1>2, ImuAssumption DEF Grab, reader, ImuTypeOK, Samples
<1>3. CASE Silence
  BY <1>3 DEF Silence, camera, reader, ImuTypeOK
<1>4. ASSUME NEW t \in Threads, Stamp(t)
      PROVE  ImuTypeOK'
  <2>1. due \in Samples
    BY ImuAssumption DEF ImuTypeOK, Samples
  <2>2. holds' \in [Threads -> {Idle} \cup Samples]
    BY <1>4, <2>1 DEF Stamp, ImuTypeOK
  <2> QED
    BY <1>4, <2>2 DEF Stamp, camera, reader, ImuTypeOK
<1>5. ASSUME NEW t \in Threads, Push(t)
      PROVE  ImuTypeOK'
  <2>1. holds[t] \in Samples
    BY <1>5 DEF Push, ImuTypeOK
  <2>2. queue' \in Seq(Samples) /\ Len(queue') <= Capacity
    BY <1>5, <2>1, PushedFacts DEF Push, ImuTypeOK
  <2>3. holds' \in [Threads -> {Idle} \cup Samples]
    BY <1>5 DEF Push, ImuTypeOK
  <2> QED
    BY <1>5, <2>2, <2>3 DEF Push, camera, reader, ImuTypeOK
<1>6. CASE Look
  BY <1>6, ImuAssumption DEF Look, camera, ImuTypeOK
<1>7. CASE Pop
  <2>1. a' \in Samples /\ queue' \in Seq(Samples) /\ Len(queue') <= Capacity
    BY <1>7, PoppedFacts DEF Pop, ImuTypeOK
  <2> QED
    BY <1>7, <2>1 DEF Pop, camera, ImuTypeOK
<1>8. CASE Front
  <2>1. Head(queue) \in Samples
    BY <1>8, PoppedFacts DEF Front, ImuTypeOK
  <2> QED
    BY <1>8, <2>1 DEF Front, FrontStays, camera, ImuTypeOK
<1>9. CASE UNCHANGED imuVars
  BY <1>9 DEF imuVars, ImuTypeOK
<1> QED
  BY <1>1, <1>2, <1>3, <1>4, <1>5, <1>6, <1>7, <1>8, <1>9 DEF ImuNext, Reads

\* The mark: only the loop reads, and a push does not change what is first.
LEMMA MarkStep == ImuInv /\ [ImuNext]_imuVars => MarkInv'
<1> SUFFICES ASSUME ImuInv, [ImuNext]_imuVars PROVE MarkInv'
  OBVIOUS
<1> USE DEF ImuInv
<1>1. CASE ImageDue \/ Grab \/ Silence \/ \E t \in Threads : Stamp(t)
  BY <1>1 DEF ImageDue, Grab, Silence, Stamp, camera, reader, MarkInv
<1>2. ASSUME NEW t \in Threads, Push(t)
      PROVE  MarkInv'
  <2>1. holds[t] \in Samples
    BY <1>2 DEF Push, ImuTypeOK
  <2>2. queue # <<>> => queue' # <<>> /\ Head(queue') = Head(queue)
    BY <1>2, <2>1, PushedFacts DEF Push, ImuTypeOK
  <2> QED
    BY <1>2, <2>2 DEF Push, reader, MarkInv
<1>3. CASE Look
  BY <1>3 DEF Look, MarkInv
<1>4. CASE Pop
  BY <1>4 DEF Pop, MarkInv
<1>5. CASE Front
  <2> DEFINE b == Head(queue)
  <2>1. CASE Answers(b)
    BY <1>5, <2>1 DEF Front, FrontStays, MarkInv
  <2>2. CASE ~Answers(b)
    <3>1. b \in Samples /\ a \in Samples /\ image \in Int
      BY <1>5, PoppedFacts, ImuAssumption DEF Front, ImuTypeOK
    <3>2. b < image
      BY <2>2, <3>1, ImuAssumption DEF Answers, TooLate, Between, Samples
    <3>3. at' = "pop" /\ queue' = queue /\ image' = image /\ mark' = mark
      BY <1>5, <2>2 DEF Front, FrontStays
    <3> QED
      BY <1>5, <3>2, <3>3 DEF Front, MarkInv
  <2> QED
    BY <2>1, <2>2
<1>6. CASE UNCHANGED imuVars
  BY <1>6 DEF imuVars, MarkInv
<1> QED
  BY <1>1, <1>2, <1>3, <1>4, <1>5, <1>6 DEF ImuNext, Reads

\* The invariant holds in every reachable state.
LEMMA ImuInvariance == ImuSpec => []ImuInv
<1>1. ImuInv /\ [ImuNext]_imuVars => ImuInv'
  BY ImuTypeStep, MarkStep DEF ImuInv
<1> QED
  BY <1>1, ImuInitInv, PTL DEF ImuSpec

----------------------------------------------------------------------------
(* The queue of attitudes: the results.                                    *)

(* The queue never holds more than its capacity, and nothing but samples   *)
(* (thread_safe_queue.hpp:43-52).                                          *)
THEOREM ImuTypeCorrect == ImuSpec => []ImuTypeOK
<1>1. ImuInv => ImuTypeOK
  BY DEF ImuInv
<1> QED
  BY <1>1, ImuInvariance, PTL

(* The samples an answer is interpolated between lie around its image, if  *)
(* the image is newer than the sample the last call ended with             *)
(* (gimbal_ros.cpp:90-107), whatever the callbacks swapped or lost.        *)
THEOREM AttitudeOfNewImage == ImuSpec => AttitudeIsAround
<1>1. ImuInv /\ [ImuNext]_imuVars
        => [at = "front" /\ at' = "look" /\ (\E b \in mark : b < image)
              => \A b \in mark' : Between(b)]_imuVars
  <2> SUFFICES ASSUME ImuInv, ImuNext, at = "front", at' = "look",
                      \E m \in mark : m < image
               PROVE  \A b \in mark' : Between(b)
    OBVIOUS
  <2> USE DEF ImuInv
  <2>1. a < image
    BY DEF MarkInv
  <2>2. Front
    BY DEF ImuNext, ImageDue, Grab, Silence, Stamp, Push, Reads, Look, Pop, reader
  <2>3. /\ Answers(Head(queue)) /\ mark' = {Head(queue)}
    BY <2>2 DEF Front
  <2>4. ~TooLate
    BY <2>1, ImuAssumption DEF TooLate, ImuTypeOK, Samples
  <2> QED
    BY <2>3, <2>4 DEF Answers
<1> QED
  BY <1>1, ImuInvariance, PTL DEF ImuSpec, AttitudeIsAround
=============================================================================
