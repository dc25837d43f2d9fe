----------------------------- MODULE FrameOrder -----------------------------
(* What the ordered frame queue of sp_vision_25/tools/thread_pool.hpp      *)
(* promises: detector threads submit frames in any order, and the frames   *)
(* come out in the order of their ids, each exactly once, a frame never    *)
(* before all the frames ahead of it.                                      *)
EXTENDS Integers

CONSTANT N          \* frame ids are 1 .. N

VARIABLES
  submitted,        \* ids handed to the queue
  delivered         \* frames 1 .. delivered have come out

Init == submitted = {} /\ delivered = 0

Submit(id) == submitted' = submitted \cup {id} /\ UNCHANGED delivered

Deliver ==
  /\ delivered + 1 \in submitted
  /\ delivered' = delivered + 1
  /\ UNCHANGED submitted

Next == Deliver \/ \E id \in 1 .. N : Submit(id)

Spec == Init /\ [][Next]_<<submitted, delivered>>
=============================================================================
