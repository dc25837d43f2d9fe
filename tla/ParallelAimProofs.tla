------------------------- MODULE ParallelAimProofs -------------------------
(* The safety properties of the parallel aim program, for every value of   *)
(* its constants and every interleaving of its three threads.              *)
EXTENDS ParallelAim, TrackerProofs

----------------------------------------------------------------------------
(* The inductive invariant.                                                *)

(* The request is up until the front worker begins a frame after the turn. *)
(* From then on the frames it drops are counted, its new tracker stays     *)
(* lost and so do their results; only the frame that was under way at the  *)
(* turn can still lock, and it is published once.                          *)
TurnInv ==
  /\ req <=> begun = 0
  /\ begun \in 1 .. DropFrames =>
       drop = DropFrames - begun /\ trk.st = "lost" /\ ~result.locked
  /\ begun = 0 /\ working => stale = 0
  /\ OneStaleLock

(* The cooldown runs exactly since the controller saw a lock or turned,    *)
(* and a handoff that is pending is over before it is.                     *)
CooldownInv ==
  /\ quiet <= Cooldown => coolLeft = Cooldown - quiet
  /\ quiet > Cooldown => coolLeft <= 0
  /\ waiting => waitLeft <= coolLeft

(* A command that fires has raised the hold's flag, which is up only until *)
(* another branch sends; and as long as the handoff is pending the last    *)
(* command was the back camera's.                                          *)
HoldInv ==
  /\ out.fire => last
  /\ last => out.src = "front"
  /\ waiting => out.src \in {"wait", "back"}

IInv == TypeOK /\ TurnInv /\ CooldownInv /\ HoldInv

\* The commands the controller sends.
Commands == [fire : BOOLEAN, src : Sources]

\* The controller's other variables at an iteration's end are in their ranges.
LEMMA TimerTypes ==
  ASSUME TypeOK, NEW dt \in Steps
  PROVE  /\ Elapse(waitLeft, dt) \in -1 .. Handoff
         /\ Elapse(coolLeft, dt) \in -1 .. Cooldown
         /\ Rest(dt) \in 0 .. Cooldown + 1
  BY ParallelAssumption DEF TypeOK, Steps, Elapse, Rest

\* A command record is a command.
LEMMA CommandType ==
  ASSUME NEW f \in BOOLEAN, NEW s \in Sources
  PROVE  [fire |-> f, src |-> s] \in Commands
  BY DEF Commands

\* The workers' empty result and the controller's empty snapshot.
LEMMA EmptyTypes ==
  /\ NoResult \in Results
  /\ NoSnap \in [read : BOOLEAN, front : Results, back : BOOLEAN]
  /\ ~NoResult.locked /\ ~NoSnap.read
<1>1. NoResult \in [locked : BOOLEAN, fire : BOOLEAN]
  BY DEF NoResult
<1>2. ~NoResult.fire /\ ~NoResult.locked
  BY DEF NoResult
<1>3. NoResult \in Results
  BY <1>1, <1>2 DEF Results
<1> QED
  BY <1>2, <1>3 DEF NoSnap

\* The initial state satisfies the invariant.
LEMMA InitInv == Init => IInv
<1> SUFFICES ASSUME Init PROVE IInv
  OBVIOUS
<1> USE ParallelAssumption
<1>1. out \in Commands /\ ~out.fire /\ out.src = "none"
  BY CommandType DEF Init, Sources
<1>2. /\ drop \in 0 .. DropFrames /\ begun \in 0 .. DropFrames + 1
      /\ waitLeft \in -1 .. Handoff /\ coolLeft \in -1 .. Cooldown
      /\ quiet \in 0 .. Cooldown + 1 /\ rested \in 0 .. Cooldown + 1
      /\ stale \in 0 .. 2
  BY DEF Init
<1>3. TypeOK
  BY <1>1, <1>2, FreshType, EmptyTypes DEF Init, TypeOK, Commands
<1>4. TurnInv /\ CooldownInv /\ HoldInv
  BY <1>1 DEF Init, TurnInv, OneStaleLock, CooldownInv, HoldInv
<1> QED
  BY <1>3, <1>4 DEF IInv

----------------------------------------------------------------------------
(* One lemma per thread.                                                   *)

\* A frame of the front worker preserves the invariant.
LEMMA WorkInv == IInv /\ Work => IInv'
<1> SUFFICES ASSUME IInv, Work PROVE IInv'
  OBVIOUS
<1> USE ParallelAssumption DEF IInv
<1>1. PICK armors \in SUBSET Kinds, gap \in BOOLEAN :
        \E t \in Track(StartingTracker,
                       IF FramesToDrop > 0 THEN {} ELSE armors, gap) :
          /\ trk' = t
          /\ \E fire \in BOOLEAN :
               /\ fire => t.st # "lost"
               /\ result' = [locked |-> t.st # "lost", fire |-> fire]
  BY DEF Work
<1> DEFINE looked == IF FramesToDrop > 0 THEN {} ELSE armors
<1>2. PICK fire \in BOOLEAN :
        /\ trk' \in Track(StartingTracker, looked, gap)
        /\ fire => trk'.st # "lost"
        /\ result' = [locked |-> trk'.st # "lost", fire |-> fire]
  BY <1>1
<1>3. /\ ~working /\ working' = TRUE /\ req' = FALSE /\ drop' = DropLeft
      /\ begun' = IF begun <= DropFrames THEN begun + 1 ELSE begun
      /\ UNCHANGED <<front, back, stale, controller>>
  BY DEF Work
<1>4. StartingTracker \in Trackers
  BY FreshType DEF StartingTracker, TypeOK
<1>5. looked \in SUBSET Kinds
  OBVIOUS
<1>6. trk' \in Trackers
  BY <1>2, <1>4, <1>5, TrackType
<1>7. result' \in Results /\ (result'.locked <=> trk'.st # "lost")
  <2>1. result' \in [locked : BOOLEAN, fire : BOOLEAN]
    BY <1>2
  <2>2. /\ result'.fire = fire
        /\ result'.locked <=> trk'.st # "lost"
    BY <1>2
  <2> QED
    BY <1>2, <2>1, <2>2 DEF Results
<1>8. drop' \in 0 .. DropFrames /\ begun' \in 0 .. DropFrames + 1
  BY <1>3 DEF DropLeft, FramesToDrop, TypeOK
<1>9. TypeOK'
  BY <1>3, <1>6, <1>7, <1>8 DEF controller, TypeOK
<1>10. ASSUME begun < DropFrames PROVE trk'.st = "lost"
  (* Either the tracker is new or it has been lost since the turn; and the *)
  (* frame's armours are dropped.                                          *)
  <2>1. StartingTracker.st = "lost" /\ FramesToDrop > 0
    BY <1>10 DEF StartingTracker, FramesToDrop, FreshTracker, TurnInv, TypeOK
  <2>2. trk' \in Track(StartingTracker, {}, gap)
    BY <1>2, <2>1
  <2> QED
    BY <1>4, <2>1, <2>2, LostNeedsArmor
<1>11. TurnInv'
  BY <1>3, <1>7, <1>10
     DEF TurnInv, OneStaleLock, DropLeft, FramesToDrop, TypeOK
<1>12. CooldownInv' /\ HoldInv'
  BY <1>3 DEF controller, CooldownInv, HoldInv
<1> QED
  BY <1>9, <1>11, <1>12

\* Publishing a result preserves the invariant.
LEMMA PublishInv == IInv /\ Publish => IInv'
<1> SUFFICES ASSUME IInv, Publish PROVE IInv'
  OBVIOUS
<1> USE ParallelAssumption, EmptyTypes DEF IInv
<1>1. /\ working /\ working' = FALSE /\ front' = result /\ result' = NoResult
      /\ stale' = IF result.locked /\ begun <= DropFrames /\ stale < 2
                  THEN stale + 1 ELSE stale
      /\ UNCHANGED <<trk, drop, back, req, begun, controller>>
  BY DEF Publish
<1>2. stale' \in 0 .. 2
  BY <1>1 DEF TypeOK
<1>3. TypeOK'
  BY <1>1, <1>2 DEF controller, TypeOK
<1>4. TurnInv'
  BY <1>1 DEF TurnInv, OneStaleLock, TypeOK
<1>5. CooldownInv' /\ HoldInv'
  BY <1>1 DEF controller, CooldownInv, HoldInv
<1> QED
  BY <1>3, <1>4, <1>5

\* The back worker and the controller's reading disturb nothing.
LEMMA ReadInv == IInv /\ (PublishBack \/ Read) => IInv'
<1> SUFFICES ASSUME IInv, PublishBack \/ Read PROVE IInv'
  OBVIOUS
<1> USE DEF IInv
<1>1. CASE PublishBack
  BY <1>1 DEF PublishBack, worker, controller, TypeOK, TurnInv, OneStaleLock,
              CooldownInv, HoldInv
<1>2. CASE Read
  <2>1. snap' \in [read : BOOLEAN, front : Results, back : BOOLEAN]
    BY <1>2 DEF Read, TypeOK
  <2> QED
    BY <1>2, <2>1 DEF Read, worker, TypeOK, TurnInv, OneStaleLock, CooldownInv,
                      HoldInv
<1> QED
  BY <1>1, <1>2

\* What the controller's decision does to its own state.
LEMMA DecideInv ==
  ASSUME IInv, NEW dt \in Steps, UNCHANGED worker, UNCHANGED back, snap' = NoSnap,
         snap \in [read : BOOLEAN, front : Results, back : BOOLEAN],
         SendFront(dt) \/ Repeat(dt) \/ Turn(dt) \/ Hold(dt)
  PROVE  IInv'
<1> USE ParallelAssumption DEF IInv
<1>1. CASE SendFront(dt)
  <2>1. snap.front.fire \in BOOLEAN
    BY DEF Results
  <2>2. out' \in Commands /\ out'.src = "front"
    BY <1>1, <2>1, CommandType DEF SendFront, Sources
  <2>3. /\ waitLeft' \in -1 .. Handoff /\ coolLeft' \in -1 .. Cooldown
        /\ quiet' \in 0 .. Cooldown + 1 /\ waiting' \in BOOLEAN /\ last' \in BOOLEAN
    <3>1. /\ waitLeft' = Elapse(waitLeft, dt) /\ coolLeft' = Cooldown /\ quiet' = 0
          /\ waiting' = FALSE /\ last' = TRUE
      BY <1>1 DEF SendFront, LastAfterLock
    <3>2. Elapse(waitLeft, dt) \in -1 .. Handoff
      BY TimerTypes
    <3>3. /\ waitLeft' \in -1 .. Handoff /\ coolLeft' \in -1 .. Cooldown
          /\ quiet' \in 0 .. Cooldown + 1
      BY <3>1, <3>2
    <3> QED
      BY <3>1, <3>3
  <2>4. TypeOK'
    BY <1>1, <2>2, <2>3, EmptyTypes DEF SendFront, worker, TypeOK, Commands
  <2>5. TurnInv'
    BY <1>1 DEF SendFront, worker, TurnInv, OneStaleLock
  <2>6. CooldownInv' /\ HoldInv'
    BY <1>1, <2>2 DEF SendFront, LastAfterLock, CooldownInv, HoldInv
  <2> QED
    BY <2>4, <2>5, <2>6
<1>2. CASE Repeat(dt) \/ Hold(dt)
  <2>1. /\ waitLeft' = Elapse(waitLeft, dt) /\ coolLeft' = Elapse(coolLeft, dt)
        /\ quiet' = Rest(dt) /\ UNCHANGED <<waiting, req, rested, begun, stale>>
    BY <1>2 DEF Repeat, Hold, Pass
  <2>2. /\ waitLeft' \in -1 .. Handoff /\ coolLeft' \in -1 .. Cooldown
        /\ quiet' \in 0 .. Cooldown + 1
    BY <2>1, TimerTypes
  <2>3. out' \in Commands /\ last' \in BOOLEAN /\ HoldInv'
    <3>1. CASE Repeat(dt)
      <4>1. out' \in Commands /\ ~out'.fire /\ out'.src = "wait"
        BY <3>1, CommandType DEF Repeat, Sources
      <4> QED
        BY <2>1, <3>1, <4>1 DEF Repeat, Pending, HoldInv, TypeOK
    <3>2. CASE Hold(dt) /\ last
      <4>1. out' \in Commands /\ ~out'.fire /\ out'.src = "hold"
        <5>1. out' = [fire |-> FALSE, src |-> "hold"]
          BY <3>2 DEF Hold
        <5> QED
          BY <5>1, CommandType DEF Sources
      <4> QED
        BY <2>1, <3>2, <4>1 DEF Hold, HoldInv
    <3>3. CASE Hold(dt) /\ ~last
      BY <2>1, <3>3 DEF Hold, HoldInv, TypeOK, Commands
    <3> QED
      BY <1>2, <3>1, <3>2, <3>3
  <2>4. TypeOK'
    BY <2>1, <2>2, <2>3, EmptyTypes DEF worker, TypeOK, Commands
  <2>5. TurnInv'
    BY <2>1 DEF worker, TurnInv, OneStaleLock
  <2>6. CooldownInv'
    BY <2>1 DEF CooldownInv, Elapse, Rest, Steps, TypeOK
  <2> QED
    BY <2>3, <2>4, <2>5, <2>6
<1>3. CASE Turn(dt)
  <2>1. out' \in Commands /\ ~out'.fire /\ out'.src = "back"
    BY <1>3, CommandType DEF Turn, Sources
  <2>2. /\ waitLeft' \in -1 .. Handoff /\ coolLeft' \in -1 .. Cooldown
        /\ quiet' \in 0 .. Cooldown + 1 /\ waiting' \in BOOLEAN /\ last' \in BOOLEAN
        /\ begun' \in 0 .. DropFrames + 1 /\ stale' \in 0 .. 2
        /\ rested' \in 0 .. Cooldown + 1
    <3>0. rested' \in 0 .. Cooldown + 1
      BY <1>3, TimerTypes DEF Turn
    <3>1. /\ waitLeft' = Handoff /\ coolLeft' = Cooldown /\ quiet' = 0
          /\ waiting' = TRUE /\ last' = FALSE /\ begun' = 0 /\ stale' = 0
      BY <1>3 DEF Turn, LastAfterTurn
    <3>2. /\ waitLeft' \in -1 .. Handoff /\ coolLeft' \in -1 .. Cooldown
          /\ quiet' \in 0 .. Cooldown + 1
          /\ begun' \in 0 .. DropFrames + 1 /\ stale' \in 0 .. 2
      BY <3>1
    <3> QED
      BY <3>0, <3>1, <3>2
  <2>3. TypeOK'
    BY <1>3, <2>1, <2>2, EmptyTypes DEF Turn, worker, TypeOK, Commands
  <2>4. TurnInv'
    BY <1>3 DEF Turn, TurnInv, OneStaleLock
  <2>5. CooldownInv' /\ HoldInv'
    BY <1>3, <2>1 DEF Turn, LastAfterTurn, CooldownInv, HoldInv
  <2> QED
    BY <2>3, <2>4, <2>5
<1> QED
  BY <1>1, <1>2, <1>3

\* Every step preserves the invariant.
LEMMA NextInv == IInv /\ [Next]_vars => IInv'
<1> SUFFICES ASSUME IInv, [Next]_vars PROVE IInv'
  OBVIOUS
<1>1. ASSUME NEW dt \in Steps, Act(dt) PROVE IInv'
  <2>1. snap \in [read : BOOLEAN, front : Results, back : BOOLEAN]
    BY DEF IInv, TypeOK
  <2> QED
    BY <1>1, <2>1, DecideInv DEF Act
<1>2. CASE UNCHANGED vars
  BY <1>2 DEF vars, IInv, TypeOK, TurnInv, OneStaleLock, CooldownInv, HoldInv
<1> QED
  BY <1>1, <1>2, WorkInv, PublishInv, ReadInv DEF Next

\* The inductive invariant holds in every reachable state.
LEMMA Invariance == Spec => []IInv
  BY InitInv, NextInv, PTL DEF Spec

----------------------------------------------------------------------------
(* The results.                                                            *)

(* The workers' results, the deadlines and the dropped frames never leave  *)
(* their ranges (lines 77-90, 134, 245-250).                               *)
THEOREM TypeCorrect == Spec => []TypeOK
<1>1. IInv => TypeOK
  BY DEF IInv
<1> QED
  BY <1>1, Invariance, PTL

(* However the threads interleave, a turn leaves at most one lock on the   *)
(* old target to be published (lines 143-156, 313).                        *)
THEOREM AtMostOneStaleLock == Spec => []OneStaleLock
<1>1. IInv => OneStaleLock
  BY DEF IInv, TurnInv
<1> QED
  BY <1>1, Invariance, PTL

(* The first iteration that sees the front lost sends or has sent a        *)
(* command that does not fire (lines 299-321).                             *)
THEOREM FireEndsWithLock == Spec => LossEndsFire
<1>1. ASSUME IInv, Next, snap.read, ~snap'.read, ~snap.front.locked
      PROVE  ~out'.fire
  <2>1. PICK dt \in Steps : Act(dt)
    BY <1>1 DEF Next, Work, Publish, PublishBack, Read, controller
  <2>2. CASE SendFront(dt)
    BY <1>1, <2>2 DEF SendFront
  <2>3. CASE Repeat(dt) \/ Turn(dt)
    BY <2>3 DEF Repeat, Turn
  <2>4. CASE Hold(dt)
    BY <1>1, <2>4 DEF Hold, IInv, HoldInv
  <2> QED
    BY <2>1, <2>2, <2>3, <2>4 DEF Act
<1>2. IInv /\ [Next]_vars
        => [snap.read /\ ~snap'.read /\ ~snap.front.locked => ~out'.fire]_vars
  BY <1>1
<1> QED
  BY <1>2, Invariance, PTL DEF Spec, LossEndsFire

(* Turns keep the cooldown from each other and from the last lock the      *)
(* controller saw (lines 284, 303, 311).                                   *)
THEOREM TurnsKeepCooldown == Spec => TurnsAreSpaced
<1>1. IInv => \A dt \in Steps :
                req' /\ Act(dt) /\ Turn(dt) => quiet + dt > Cooldown
  BY ParallelAssumption
     DEF IInv, Turn, MayTurn, Elapse, CooldownInv, Steps, TypeOK
<1> QED
  BY <1>1, Invariance, PTL DEF Spec, TurnsAreSpaced

(* A rested gimbal is turned as soon as the front is read as lost and an   *)
(* enemy as seen behind, pending handoff or not (lines 299-316).           *)
THEOREM DueTurnsHappen == Spec => TurnsWhenDue
<1>1. IInv => \A dt \in Steps \ {0} :
                Act(dt) /\ snap.back /\ ~snap.front.locked /\ quiet + dt > Cooldown
                  => out'.src = "back"
  <2> SUFFICES ASSUME IInv, NEW dt \in Steps \ {0}, Act(dt), snap.back,
                      ~snap.front.locked, quiet + dt > Cooldown
               PROVE  out'.src = "back"
    OBVIOUS
  <2> USE ParallelAssumption DEF IInv
  <2>1. ~Pending(dt) /\ MayTurn(dt)
    <3>1. dt \in Nat \ {0} /\ quiet \in Nat /\ coolLeft \in Int /\ waitLeft \in Int
      BY DEF Steps, TypeOK
    <3>2. coolLeft - dt < 0
      BY <3>1 DEF CooldownInv
    <3>3. Elapse(coolLeft, dt) < 0
      BY <3>1, <3>2 DEF Elapse
    <3>4. ~Pending(dt)
      BY <3>1, <3>2 DEF CooldownInv, Elapse, Pending
    <3> QED
      BY <3>3, <3>4 DEF MayTurn
  <2>2. ~(SendFront(dt) \/ Repeat(dt) \/ Hold(dt))
    BY <2>1 DEF SendFront, Repeat, Hold
  <2> QED
    BY <2>2 DEF Act, Turn
<1> QED
  BY <1>1, Invariance, PTL DEF Spec, TurnsWhenDue

(* The old front angle is not sent again after a turn before the front is  *)
(* locked anew (lines 307, 314, 317).                                      *)
THEOREM TurnIsNotUndone == Spec => HoldNeverUndoesTurn
<1>1. ASSUME IInv, Next, out.src \in {"wait", "back"}
      PROVE  out'.src # "hold"
  <2>1. ~last
    BY <1>1 DEF IInv, HoldInv
  <2>2. ASSUME NEW dt \in Steps, Act(dt)
        PROVE  out'.src # "hold"
    <3>1. CASE Hold(dt)
      BY <1>1, <2>1, <3>1 DEF Hold
    <3>2. CASE SendFront(dt) \/ Repeat(dt) \/ Turn(dt)
      BY <3>2 DEF SendFront, Repeat, Turn
    <3> QED
      BY <2>2, <3>1, <3>2 DEF Act
  <2> QED
    BY <1>1, <2>2 DEF Next, Work, Publish, PublishBack, Read, controller
<1>2. IInv /\ [Next]_vars
        => [out.src \in {"wait", "back"} => out'.src # "hold"]_vars
  BY <1>1
<1> QED
  BY <1>2, Invariance, PTL DEF Spec, HoldNeverUndoesTurn

(* The controller implements the handoff between two cameras, though it    *)
(* goes by what the workers published some time ago: only the back camera  *)
(* turns, and only a rested gimbal, only the front fires, and a hold       *)
(* follows a front command (lines 271-320).                                *)
THEOREM ImplementsHandoff == Spec => HandoffSpec
<1>1. Init => Cameras!Init
  BY DEF Init, Cameras!Init, By
<1>2. IInv /\ [Next]_vars => [Cameras!Next]_(Cameras!vars)
  <2> SUFFICES ASSUME IInv, [Next]_vars
               PROVE  Cameras!Next \/ UNCHANGED Cameras!vars
    OBVIOUS
  <2> USE ParallelAssumption DEF IInv, By
  <2>1. CASE Work \/ Publish \/ PublishBack \/ Read
    BY <2>1 DEF Work, Publish, PublishBack, Read, controller, Cameras!vars
  <2>2. ASSUME NEW dt \in Steps, Act(dt), SendFront(dt)
        PROVE  Cameras!Next
    <3>1. snap.front.fire \in BOOLEAN
      BY DEF TypeOK, Results
    <3>2. /\ quiet' = 0 /\ rested' = rested
          /\ out' = [fire |-> snap.front.fire, src |-> "front"]
      BY <2>2 DEF SendFront
    <3> QED
      BY <3>1, <3>2 DEF Cameras!Next, Cameras!Locked, Cameras!Aim
  <2>3. ASSUME NEW dt \in Steps, Act(dt), Repeat(dt) \/ Hold(dt)
        PROVE  Cameras!Next
    <3>1. /\ quiet' = Cameras!Rest(dt) /\ rested' = rested
          /\ dt \in Cameras!Steps
      BY <2>3 DEF Repeat, Hold, Pass, Rest, Steps, Cameras!Rest, Cameras!Steps
    <3>2. CASE Repeat(dt)
      (* The back camera had the gimbal and keeps it. *)
      <4>1. out.src \in {"wait", "back"} /\ out.fire = FALSE
        BY <3>2 DEF Repeat, Pending, HoldInv, TypeOK
      <4>2. out' = [fire |-> FALSE, src |-> "wait"]
        BY <3>2 DEF Repeat
      <4>3. Cameras!Silent
        BY <4>1, <4>2 DEF Cameras!Silent
      <4> QED
        BY <3>1, <4>3 DEF Cameras!Next, Cameras!Lost
    <3>3. CASE Hold(dt)
      <4>1. Cameras!Hold \/ Cameras!Silent
        BY <3>3 DEF Hold, HoldInv, Cameras!Hold, Cameras!Silent
      <4> QED
        BY <3>1, <4>1 DEF Cameras!Next, Cameras!Lost
    <3> QED
      BY <2>3, <3>2, <3>3
  <2>4. ASSUME NEW dt \in Steps, Act(dt), Turn(dt)
        PROVE  Cameras!Next
    <3>0. quiet + dt > Cooldown /\ dt \in Cameras!Steps
      BY <2>4 DEF Turn, MayTurn, Elapse, Steps, CooldownInv, TypeOK, Cameras!Steps
    <3>1. rested' = Cameras!Rest(dt) /\ rested' > Cooldown
      BY <2>4, <3>0 DEF Turn, Rest, Steps, TypeOK, Cameras!Rest
    <3>2. quiet' = 0 /\ out' = [fire |-> FALSE, src |-> "back"]
      BY <2>4 DEF Turn
    <3> QED
      BY <3>0, <3>1, <3>2 DEF Cameras!Next, Cameras!Turn
  <2>5. CASE UNCHANGED vars
    BY <2>5 DEF vars, Cameras!vars
  <2> QED
    BY <2>1, <2>2, <2>3, <2>4, <2>5 DEF Next, Act
<1> QED
  BY <1>1, <1>2, Invariance, PTL DEF Spec, HandoffSpec, Cameras!Spec
============================================================================
