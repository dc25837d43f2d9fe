--------------------------- MODULE TrackerProofs ---------------------------
(* What the proofs about the programs that use the tracker need to know of *)
(* its operators.                                                          *)
EXTENDS Tracker, TLAPS

\* A newly constructed tracker is well formed.
LEMMA FreshType == FreshTracker \in Trackers
  BY DEF FreshTracker, Trackers, States

\* The record updates the tracker makes are well typed.
LEMMA UpdateTypes ==
  ASSUME NEW t \in Trackers, NEW a \in States, NEW n \in Nat
  PROVE  /\ [t EXCEPT !.st = a] \in Trackers
         /\ [t EXCEPT !.nis = n] \in Trackers
         /\ [t EXCEPT !.detect = n, !.st = a] \in Trackers
         /\ [t EXCEPT !.st = a, !.detect = n] \in Trackers
         /\ [t EXCEPT !.temp = n, !.st = a] \in Trackers
         /\ [t EXCEPT !.bad = n, !.st = a] \in Trackers
  BY DEF Trackers, States

\* A step of the state machine keeps the tracker well formed.
LEMMA StateMachineType ==
  ASSUME NEW t \in Trackers, NEW found \in BOOLEAN
  PROVE  StateMachine(t, found, 200) \in Trackers
<1> DEFINE counted  == IF t.detect + 1 >= MinDetect THEN "tracking" ELSE "detecting"
           switched == IF t.temp + 1 > 200 THEN "lost" ELSE "switching"
           coasted  == IF t.temp + 1 > MaxTempLost[t.target]
                       THEN "lost" ELSE "temp_lost"
<1>1. /\ t.detect + 1 \in Nat /\ t.temp + 1 \in Nat
      /\ counted \in States /\ switched \in States /\ coasted \in States
  BY DEF Trackers, States
<1>2. /\ [t EXCEPT !.detect = t.detect + 1, !.st = counted] \in Trackers
      /\ [t EXCEPT !.temp = t.temp + 1, !.st = switched] \in Trackers
      /\ [t EXCEPT !.temp = t.temp + 1, !.st = coasted] \in Trackers
  BY <1>1, UpdateTypes
<1> HIDE DEF counted, switched, coasted
<1>8. /\ [t EXCEPT !.st = "lost", !.detect = 0] \in Trackers
      /\ [t EXCEPT !.st = "detecting"] \in Trackers
      /\ [t EXCEPT !.st = "tracking"] \in Trackers
  BY DEF Trackers, States
<1>3. CASE t.st = "lost"
  BY <1>3 DEF StateMachine, Trackers, States
<1>4. CASE t.st = "detecting"
  <2>1. StateMachine(t, found, 200) =
          IF ~found THEN [t EXCEPT !.st = "lost", !.detect = 0]
          ELSE [t EXCEPT !.detect = t.detect + 1, !.st = counted]
    BY <1>4 DEF StateMachine, counted
  <2> QED
    BY <1>2, <1>8, <2>1, Zenon
<1>5. CASE t.st = "tracking"
  BY <1>5 DEF StateMachine, Trackers, States
<1>6. CASE t.st = "switching"
  <2>1. StateMachine(t, found, 200) =
          IF found THEN [t EXCEPT !.st = "detecting"]
          ELSE [t EXCEPT !.temp = t.temp + 1, !.st = switched]
    BY <1>6 DEF StateMachine, switched
  <2> QED
    BY <1>2, <1>8, <2>1, Zenon
<1>7. CASE t.st = "temp_lost"
  <2>1. StateMachine(t, found, 200) =
          IF found THEN [t EXCEPT !.st = "tracking"]
          ELSE [t EXCEPT !.temp = t.temp + 1, !.st = coasted]
    BY <1>7 DEF StateMachine, coasted
  <2> QED
    BY <1>2, <1>8, <2>1, Zenon
<1> QED
  BY <1>3, <1>4, <1>5, <1>6, <1>7 DEF Trackers, States

\* A set or updated target keeps the tracker well formed.
LEMMA SeenType ==
  ASSUME NEW t \in Trackers, NEW armors \in SUBSET Kinds,
         NEW s \in SetTarget(t, armors) \cup UpdateTarget(t, armors)
  PROVE  /\ s.trk \in Trackers
         /\ s.found \in BOOLEAN
<1>1. CASE s \in SetTarget(t, armors)
  <2>1. CASE armors = {}
    <3>1. s = [trk |-> t, found |-> FALSE]
      BY <1>1, <2>1 DEF SetTarget
    <3> QED
      BY <3>1
  <2>2. CASE armors # {}
    <3>1. PICK a \in Kinds :
            s = [trk   |-> [t EXCEPT !.target = a, !.bad = 0, !.nis = 0],
                 found |-> TRUE]
      BY <1>1, <2>2 DEF SetTarget, Front
    <3> QED
      BY <3>1 DEF Trackers
  <2> QED
    BY <2>1, <2>2
<1>2. CASE s \in UpdateTarget(t, armors)
  <2>1. CASE t.target \in armors
    <3>1. PICK n \in NisAfter(t.nis) :
            s = [trk |-> [t EXCEPT !.nis = n], found |-> TRUE]
      BY <1>2, <2>1 DEF UpdateTarget
    <3>2. n \in Nat
      BY DEF NisAfter, Trackers
    <3>3. [t EXCEPT !.nis = n] \in Trackers
      BY <3>2, UpdateTypes DEF States
    <3> QED
      BY <3>1, <3>3, Zenon
  <2>2. CASE t.target \notin armors
    <3>1. s = [trk |-> t, found |-> FALSE]
      BY <1>2, <2>2 DEF UpdateTarget
    <3> QED
      BY <3>1
  <2> QED
    BY <2>1, <2>2
<1> QED
  BY <1>1, <1>2

\* Whatever a frame shows, the tracker record stays well formed.
LEMMA TrackType ==
  ASSUME NEW t0 \in Trackers, NEW armors \in SUBSET Kinds, NEW gap \in BOOLEAN,
         NEW t \in Track(t0, armors, gap)
  PROVE  t \in Trackers
<1> DEFINE start == Expire(t0, gap)
           seenS == IF start.st = "lost" THEN SetTarget(start, armors)
                                         ELSE UpdateTarget(start, armors)
<1>1. start \in Trackers
  BY DEF Expire, Trackers, States
<1>2. PICK s \in seenS, raw \in BOOLEAN :
        t = BadConverge(Diverge(StateMachine(s.trk, s.found, 200), raw))
  BY DEF Track
<1>3. s.trk \in Trackers /\ s.found \in BOOLEAN
  BY <1>1, SeenType
<1>4. StateMachine(s.trk, s.found, 200) \in Trackers
  BY <1>3, StateMachineType
<1>5. ASSUME NEW u \in Trackers
      PROVE  Diverge(u, raw) \in Trackers
  <2> DEFINE after == IF u.bad + 1 >= DivergedBadFrames THEN "lost" ELSE u.st
  <2>1. after \in States /\ u.bad + 1 \in Nat
    BY DEF Trackers, States
  <2>2. [u EXCEPT !.bad = u.bad + 1, !.st = after] \in Trackers
    BY <2>1, UpdateTypes
  <2>3. [u EXCEPT !.bad = 0] \in Trackers
    BY DEF Trackers
  <2> QED
    BY <2>2, <2>3 DEF Diverge
<1>6. Diverge(StateMachine(s.trk, s.found, 200), raw) \in Trackers
  BY <1>4, <1>5
<1> QED
  BY <1>2, <1>6 DEF BadConverge, Trackers, States

\* A lost tracker stays lost on a frame without armours.
LEMMA LostNeedsArmor ==
  ASSUME NEW t0 \in Trackers, NEW gap \in BOOLEAN, t0.st = "lost",
         NEW t \in Track(t0, {}, gap)
  PROVE  t.st = "lost"
<1>1. Expire(t0, gap) = t0
  BY DEF Expire
<1>2. SetTarget(t0, {}) = {[trk |-> t0, found |-> FALSE]}
  BY DEF SetTarget
<1>3. StateMachine(t0, FALSE, 200) = t0
  BY DEF StateMachine
<1>4. PICK s \in SetTarget(t0, {}), raw \in BOOLEAN :
        t = BadConverge(Diverge(StateMachine(s.trk, s.found, 200), raw))
  BY <1>1 DEF Track
<1>5. s.trk = t0 /\ s.found = FALSE
  BY <1>2
<1>6. t = BadConverge(Diverge(t0, raw))
  BY <1>3, <1>4, <1>5
<1> QED
  BY <1>6 DEF BadConverge, Diverge, Trackers
============================================================================
