------------------------ MODULE DualCameraAimProofs ------------------------
(* The safety properties of the dual-camera loop, for every value of its   *)
(* constants.                                                              *)
EXTENDS DualCameraAim, TrackerProofs

----------------------------------------------------------------------------
(* The inductive invariant.                                                *)

(* The frames still to be dropped are those that have not gone by since    *)
(* the turn, and the front cannot be locked before they have.              *)
ClearInv ==
  /\ clear = IF turned <= ClearFrames THEN ClearFrames - turned ELSE 0
  /\ NoLockBeforeCleared

(* The cooldown runs exactly since the front was locked or the gimbal      *)
(* turned, and is over when the gimbal has rested.                         *)
CooldownInv ==
  /\ quiet <= Cooldown => coolLeft = Cooldown - quiet
  /\ quiet > Cooldown => coolLeft <= 0

\* A handoff that is pending is over before the cooldown is.
WaitInv == waiting => waitLeft <= coolLeft

(* The hold's flag is up as long as the last command was given on a target *)
(* in view, which is still locked; the other branches but the blind one    *)
(* never fire; the flag is only up under a command of the front camera.    *)
OutInv ==
  /\ out.src = "seen" => seen /\ trk.st # "lost"
  /\ out.src \in {"none", "hold", "back"} => ~out.fire
  /\ seen => out.src \in {"seen", "blind"}
  /\ trk.st # "lost" => ~waiting

\* While the hold's flag is up, the angle it would send is one of the aimer's.
AngleInv == HoldWasAimed /\ (seen => held \in Angles)

IInv == TypeOK /\ ClearInv /\ CooldownInv /\ WaitInv /\ OutInv /\ AngleInv

\* Elapse and Count stay within their bounds.
LEMMA CounterTypes ==
  ASSUME NEW n \in Int, NEW d \in 0 .. 1, NEW bound \in Nat
  PROVE  /\ n \in -1 .. bound => Elapse(n, d) \in -1 .. bound
         /\ n \in 0 .. bound => Count(n, d, bound) \in 0 .. bound
  BY DEF Elapse, Count

\* The commands the loop sends.
Commands == [fire : BOOLEAN, yaw : Angles \cup {Zero}, src : Sources]

\* A command record is a command.
LEMMA CommandType ==
  ASSUME NEW f \in BOOLEAN, NEW y \in Angles \cup {Zero}, NEW s \in Sources
  PROVE  [fire |-> f, yaw |-> y, src |-> s] \in Commands
  BY DEF Commands

\* The initial state satisfies the invariant.
LEMMA InitInv == Init => IInv
<1> SUFFICES ASSUME Init PROVE IInv
  OBVIOUS
<1>1. FreshTracker \in Trackers
  BY DEF FreshTracker, Trackers, States
<1>4. out \in Commands
  BY CommandType DEF Init, Sources
<1>5. /\ waitLeft \in -1 .. Handoff /\ coolLeft \in -1 .. Cooldown
      /\ clear \in 0 .. ClearFrames
      /\ quiet \in 0 .. Cooldown + 1 /\ turned \in 0 .. ClearFrames + 1
      /\ rested \in 0 .. Cooldown + 1
  BY LoopAssumption DEF Init
<1>6. /\ view \in SUBSET Kinds /\ behind \in BOOLEAN /\ waiting \in BOOLEAN
      /\ seen \in BOOLEAN /\ held \in Angles \cup {Zero} /\ trk \in Trackers
  BY <1>1 DEF Init
<1>2. TypeOK
  BY <1>4, <1>5, <1>6 DEF TypeOK, Commands
<1>3. ClearInv /\ CooldownInv /\ WaitInv /\ OutInv /\ AngleInv
  BY LoopAssumption
     DEF Init, ClearInv, NoLockBeforeCleared, CooldownInv, WaitInv, OutInv, AngleInv,
         HoldWasAimed, FreshTracker
<1> QED
  BY <1>2, <1>3 DEF IInv

(* The facts every iteration shares: the new tracker is well formed, it    *)
(* can only be locked if it was before or armours are looked at.           *)
LEMMA PerceiveFacts ==
  ASSUME TypeOK, NEW dt \in Steps, NEW gap \in BOOLEAN,
         NEW t \in Track(trk, FrontArmors, gap)
  PROVE  /\ t \in Trackers
         /\ trk.st = "lost" /\ clear > 0 => t.st = "lost"
         /\ ClearLeft \in 0 .. ClearFrames
         /\ Elapse(waitLeft, dt) \in -1 .. Handoff
         /\ Elapse(coolLeft, dt) \in -1 .. Cooldown
         /\ Count(quiet, dt, Cooldown + 1) \in 0 .. Cooldown + 1
         /\ Count(turned, 1, ClearFrames + 1) \in 0 .. ClearFrames + 1
<1>1. FrontArmors \in SUBSET Kinds
  BY DEF TypeOK, FrontArmors
<1>2. t \in Trackers
  BY <1>1, TrackType DEF TypeOK
<1>3. trk.st = "lost" /\ clear > 0 => t.st = "lost"
  BY LostNeedsArmor DEF TypeOK, FrontArmors
<1>4. ClearLeft \in 0 .. ClearFrames
  BY LoopAssumption DEF TypeOK, ClearLeft
<1>5. /\ Elapse(waitLeft, dt) \in -1 .. Handoff
      /\ Elapse(coolLeft, dt) \in -1 .. Cooldown
      /\ Count(quiet, dt, Cooldown + 1) \in 0 .. Cooldown + 1
      /\ Count(turned, 1, ClearFrames + 1) \in 0 .. ClearFrames + 1
  BY LoopAssumption DEF Steps, TypeOK, Elapse, Count
<1> QED
  BY <1>2, <1>3, <1>4, <1>5

\* What NoCommand does to the command and the hold.
LEMMA NoCommandFacts ==
  ASSUME TypeOK, NoCommand
  PROVE  /\ out' \in Commands
         /\ seen' \in BOOLEAN
         /\ held' \in Angles \cup {Zero}
         /\ \/ ~seen' /\ out'.src = "hold" /\ ~out'.fire /\ seen
            \/ out' = out /\ seen' = seen /\ ~(seen /\ ~waiting' /\ clear' = 0)
<1>1. CASE seen /\ ~waiting' /\ clear' = 0
  <2>1. /\ out' = [fire |-> FALSE, yaw |-> held, src |-> "hold"]
        /\ seen' = FALSE
        /\ held' = held
    BY <1>1 DEF NoCommand
  <2>2. out' \in Commands
    BY <2>1, CommandType DEF TypeOK, Sources
  <2>3. out'.src = "hold" /\ ~out'.fire
    BY <2>1
  <2> QED
    BY <1>1, <2>1, <2>2, <2>3 DEF TypeOK
<1>2. CASE ~(seen /\ ~waiting' /\ clear' = 0)
  BY <1>2 DEF NoCommand, TypeOK, Commands
<1> QED
  BY <1>1, <1>2

\* The hold sends the angle that is kept for it.
LEMMA NoCommandAngle == ASSUME AngleInv, NoCommand PROVE AngleInv'
<1>1. CASE seen /\ ~waiting' /\ clear' = 0
  <2>1. out'.yaw = held /\ held \in Angles /\ seen' = FALSE
    BY <1>1 DEF NoCommand, AngleInv
  <2> QED
    BY <2>1 DEF AngleInv, HoldWasAimed
<1>2. CASE ~(seen /\ ~waiting' /\ clear' = 0)
  BY <1>2 DEF NoCommand, AngleInv, HoldWasAimed
<1> QED
  BY <1>1, <1>2

\* The scene's moves disturb nothing the invariant speaks of.
LEMMA LookInv == IInv /\ Look => IInv'
  BY DEF IInv, Look, timers, TypeOK, ClearInv, NoLockBeforeCleared, CooldownInv,
         WaitInv, OutInv, AngleInv, HoldWasAimed

\* An iteration that has the front locked preserves the invariant.
LEMMA FrontLockedInv ==
  ASSUME IInv, NEW dt \in Steps, NEW gap \in BOOLEAN,
         NEW t \in Track(trk, FrontArmors, gap), FrontLocked(t, gap, dt)
  PROVE  IInv'
<1> USE LoopAssumption DEF IInv
<1>1. /\ trk' = t /\ t.st # "lost"
      /\ waiting' = FALSE /\ waitLeft' = Elapse(waitLeft, dt)
      /\ coolLeft' = Cooldown /\ clear' = ClearLeft /\ quiet' = 0
      /\ turned' = Count(turned, 1, ClearFrames + 1)
      /\ view' = view /\ behind' = behind /\ rested' = rested
  BY DEF FrontLocked, Perceive, env
<1>2. \/ \E yaw \in Angles, fire \in BOOLEAN :
           \/ /\ out' = [fire |-> fire, yaw |-> yaw, src |-> "seen"]
              /\ seen' = TRUE
              /\ held' = yaw
           \/ /\ out' = [fire |-> fire, yaw |-> yaw, src |-> "blind"]
              /\ UNCHANGED <<seen, held>>
      \/ NoCommand
  BY DEF FrontLocked
<1>3. /\ out' \in Commands /\ seen' \in BOOLEAN /\ held' \in Angles \cup {Zero}
      /\ OutInv'
  <2>1. CASE NoCommand
    <3>1. /\ out' \in Commands /\ seen' \in BOOLEAN /\ held' \in Angles \cup {Zero}
          /\ \/ ~seen' /\ out'.src = "hold" /\ ~out'.fire /\ seen
             \/ out' = out /\ seen' = seen /\ ~(seen /\ ~waiting' /\ clear' = 0)
      BY <2>1, NoCommandFacts
    <3> QED
      BY <1>1, <3>1 DEF OutInv
  <2>2. ASSUME NEW yaw \in Angles, NEW fire \in BOOLEAN,
               out' = [fire |-> fire, yaw |-> yaw, src |-> "seen"],
               seen' = TRUE, held' = yaw
        PROVE  /\ out' \in Commands /\ seen' \in BOOLEAN
               /\ held' \in Angles \cup {Zero} /\ OutInv'
    <3>1. out' \in Commands
      BY <2>2, CommandType DEF Sources
    <3>2. out'.src = "seen"
      BY <2>2
    <3> QED
      BY <1>1, <2>2, <3>1, <3>2 DEF OutInv
  <2>3. ASSUME NEW yaw \in Angles, NEW fire \in BOOLEAN,
               out' = [fire |-> fire, yaw |-> yaw, src |-> "blind"],
               UNCHANGED <<seen, held>>
        PROVE  /\ out' \in Commands /\ seen' \in BOOLEAN
               /\ held' \in Angles \cup {Zero} /\ OutInv'
    <3>1. out' \in Commands
      BY <2>3, CommandType DEF Sources
    <3>2. out'.src = "blind"
      BY <2>3
    <3> QED
      BY <1>1, <2>3, <3>1, <3>2 DEF OutInv, TypeOK
  <2> QED
    BY <1>2, <2>1, <2>2, <2>3
<1>4. TypeOK'
  <2>1. /\ trk' \in Trackers /\ clear' \in 0 .. ClearFrames
        /\ waitLeft' \in -1 .. Handoff
        /\ turned' \in 0 .. ClearFrames + 1
    BY <1>1, PerceiveFacts
  <2>2. coolLeft' \in -1 .. Cooldown /\ quiet' \in 0 .. Cooldown + 1
    BY <1>1
  <2>3. /\ view' \in SUBSET Kinds /\ behind' \in BOOLEAN /\ waiting' \in BOOLEAN
        /\ rested' \in 0 .. Cooldown + 1
    BY <1>1 DEF TypeOK
  <2> QED
    BY <1>3, <2>1, <2>2, <2>3 DEF TypeOK, Commands
<1>5. ClearInv'
  BY <1>1, PerceiveFacts
     DEF ClearInv, NoLockBeforeCleared, ClearLeft, Count, TypeOK
<1>6. CooldownInv' /\ WaitInv'
  BY <1>1 DEF CooldownInv, WaitInv
<1>7. AngleInv'
  <2>1. ASSUME NEW yaw \in Angles, NEW fire \in BOOLEAN,
               \/ /\ out' = [fire |-> fire, yaw |-> yaw, src |-> "seen"]
                  /\ seen' = TRUE
                  /\ held' = yaw
               \/ /\ out' = [fire |-> fire, yaw |-> yaw, src |-> "blind"]
                  /\ UNCHANGED <<seen, held>>
        PROVE  AngleInv'
    BY <2>1 DEF AngleInv, HoldWasAimed
  <2> QED
    BY <1>2, <2>1, NoCommandAngle
<1> QED
  BY <1>3, <1>4, <1>5, <1>6, <1>7

\* An iteration without a front target or a turn preserves the invariant.
LEMMA FrontLostInv ==
  ASSUME IInv, NEW dt \in Steps, NEW gap \in BOOLEAN,
         NEW t \in Track(trk, FrontArmors, gap), FrontLost(t, gap, dt)
  PROVE  IInv'
<1> USE LoopAssumption DEF IInv
<1>1. /\ trk' = t /\ t.st = "lost" /\ waiting' = waiting
      /\ waitLeft' = Elapse(waitLeft, dt) /\ coolLeft' = Elapse(coolLeft, dt)
      /\ clear' = ClearLeft /\ quiet' = Count(quiet, dt, Cooldown + 1)
      /\ turned' = Count(turned, 1, ClearFrames + 1)
      /\ view' = view /\ behind' = behind /\ rested' = rested
      /\ NoCommand
  BY DEF FrontLost, Perceive, env
<1>2. /\ out' \in Commands /\ seen' \in BOOLEAN /\ held' \in Angles \cup {Zero}
      /\ \/ ~seen' /\ out'.src = "hold" /\ ~out'.fire /\ seen
         \/ out' = out /\ seen' = seen /\ ~(seen /\ ~waiting' /\ clear' = 0)
  BY <1>1, NoCommandFacts
<1>3. TypeOK'
  <2>1. /\ trk' \in Trackers /\ clear' \in 0 .. ClearFrames
        /\ waitLeft' \in -1 .. Handoff /\ coolLeft' \in -1 .. Cooldown
        /\ quiet' \in 0 .. Cooldown + 1 /\ turned' \in 0 .. ClearFrames + 1
    BY <1>1, PerceiveFacts
  <2>2. /\ view' \in SUBSET Kinds /\ behind' \in BOOLEAN /\ waiting' \in BOOLEAN
        /\ rested' \in 0 .. Cooldown + 1
    BY <1>1 DEF TypeOK
  <2> QED
    BY <1>2, <2>1, <2>2 DEF TypeOK, Commands
<1>4. ClearInv'
  BY <1>1 DEF ClearInv, NoLockBeforeCleared, ClearLeft, Count, TypeOK
<1>5. CooldownInv' /\ WaitInv'
  <2>1. CooldownInv'
    BY <1>1 DEF Steps, CooldownInv, Elapse, Count, TypeOK
  <2>2. WaitInv'
    BY <1>1 DEF Steps, WaitInv, Elapse, TypeOK
  <2> QED
    BY <2>1, <2>2
<1>6. OutInv'
  (* If the last command was given on a visible target, it was still       *)
  (* locked, so nothing is waited for or dropped and the hold is sent.     *)
  <2>1. out.src = "seen" => ~waiting' /\ clear' = 0 /\ seen
    BY <1>1 DEF OutInv, ClearInv, NoLockBeforeCleared, ClearLeft, TypeOK
  <2> QED
    BY <1>1, <1>2, <2>1 DEF OutInv
<1> QED
  BY <1>1, <1>3, <1>4, <1>5, <1>6, NoCommandAngle

\* A turn of the gimbal preserves the invariant.
LEMMA BackTurnInv ==
  ASSUME IInv, NEW dt \in Steps, NEW gap \in BOOLEAN,
         NEW t \in Track(trk, FrontArmors, gap), BackTurn(t, gap, dt)
  PROVE  IInv'
<1> USE LoopAssumption DEF IInv
<1>1. /\ trk' = FreshTracker /\ clear' = ClearFrames /\ seen' = FALSE
      /\ held' = Zero /\ waiting' = TRUE /\ waitLeft' = Handoff
      /\ coolLeft' = Cooldown /\ quiet' = 0 /\ turned' = 0
      /\ view' = view /\ behind' = behind
      /\ rested' = Count(quiet, dt, Cooldown + 1)
  BY DEF BackTurn, ForgetFront, Perceive, env
<1>2. PICK yaw \in Angles : out' = [fire |-> FALSE, yaw |-> yaw, src |-> "back"]
  BY DEF BackTurn
<1>3. out' \in Commands /\ out'.src = "back" /\ ~out'.fire
  BY <1>2, CommandType DEF Sources
<1>4. trk' \in Trackers /\ trk'.st = "lost"
  BY <1>1 DEF FreshTracker, Trackers, States
<1>5. TypeOK'
  <2>1. /\ waitLeft' \in -1 .. Handoff /\ coolLeft' \in -1 .. Cooldown
        /\ clear' \in 0 .. ClearFrames
        /\ quiet' \in 0 .. Cooldown + 1 /\ turned' \in 0 .. ClearFrames + 1
        /\ rested' \in 0 .. Cooldown + 1
    BY <1>1, PerceiveFacts
  <2>2. /\ view' \in SUBSET Kinds /\ behind' \in BOOLEAN /\ waiting' \in BOOLEAN
        /\ seen' \in BOOLEAN /\ held' \in Angles \cup {Zero}
    BY <1>1 DEF TypeOK
  <2> QED
    BY <1>3, <1>4, <2>1, <2>2 DEF TypeOK, Commands
<1>6. ClearInv' /\ CooldownInv' /\ WaitInv'
  BY <1>1, <1>4 DEF ClearInv, NoLockBeforeCleared, CooldownInv, WaitInv
<1>7. OutInv'
  BY <1>1, <1>3, <1>4 DEF OutInv
<1>8. AngleInv'
  BY <1>1, <1>3 DEF AngleInv, HoldWasAimed
<1> QED
  BY <1>5, <1>6, <1>7, <1>8

\* Every step preserves the invariant.
LEMMA NextInv == IInv /\ [Next]_vars => IInv'
<1> SUFFICES ASSUME IInv, [Next]_vars PROVE IInv'
  OBVIOUS
<1>1. CASE Look
  BY <1>1, LookInv
<1>2. ASSUME NEW dt \in Steps, Iterate(dt) PROVE IInv'
  BY <1>2, FrontLockedInv, FrontLostInv, BackTurnInv DEF Iterate
<1>3. CASE UNCHANGED vars
  BY <1>3 DEF vars, IInv, TypeOK, ClearInv, NoLockBeforeCleared, CooldownInv, WaitInv,
              OutInv, AngleInv, HoldWasAimed
<1> QED
  BY <1>1, <1>2, <1>3 DEF Next

\* The inductive invariant holds in every reachable state.
LEMMA Invariance == Spec => []IInv
  BY InitInv, NextInv, PTL DEF Spec

----------------------------------------------------------------------------
(* The results.                                                            *)

(* The tracker, the deadlines and the counters of the loop never leave     *)
(* their ranges (lines 122-138).                                           *)
THEOREM TypeCorrect == Spec => []TypeOK
<1>1. IInv => TypeOK
  BY DEF IInv
<1> QED
  BY <1>1, Invariance, PTL

(* When the tracker is lost, a fire command given on a visible target has  *)
(* been replaced (lines 262-279).                                          *)
THEOREM FireReleased == Spec => []VisibleFireIsReleased
<1>1. IInv => VisibleFireIsReleased
  BY DEF IInv, TypeOK, OutInv, VisibleFireIsReleased, Sources
<1> QED
  BY <1>1, Invariance, PTL

(* No lock on the frames the loop drops after a turn (lines 140-146, 172-  *)
(* 175).                                                                   *)
THEOREM DroppedFramesNeverLock == Spec => []NoLockBeforeCleared
<1>1. IInv => NoLockBeforeCleared
  BY DEF IInv, ClearInv
<1> QED
  BY <1>1, Invariance, PTL

(* The hold never sends the angle a turn reset (lines 140-146, 264-277).   *)
THEOREM HoldSendsAnAim == Spec => []HoldWasAimed
<1>1. IInv => HoldWasAimed
  BY DEF IInv, AngleInv
<1> QED
  BY <1>1, Invariance, PTL

(* Turns keep the cooldown between them and from the last lock (lines 220, *)
(* 228, 242).                                                              *)
THEOREM TurnsKeepCooldown == Spec => TurnsAreSpaced
<1>1. IInv => \A dt \in Steps : turned' = 0 /\ Iterate(dt) => quiet + dt > Cooldown
  <2> SUFFICES ASSUME IInv, NEW dt \in Steps, Iterate(dt), turned' = 0
               PROVE  quiet + dt > Cooldown
    OBVIOUS
  <2> USE LoopAssumption DEF IInv, Steps
  <2>0. PICK gap \in BOOLEAN : \E t \in Track(trk, FrontArmors, gap) :
          FrontLocked(t, gap, dt) \/ FrontLost(t, gap, dt) \/ BackTurn(t, gap, dt)
    BY DEF Iterate
  <2>1. PICK t \in Track(trk, FrontArmors, gap) :
          FrontLocked(t, gap, dt) \/ FrontLost(t, gap, dt) \/ BackTurn(t, gap, dt)
    BY <2>0
  <2>2. ASSUME FrontLocked(t, gap, dt) \/ FrontLost(t, gap, dt)
        PROVE  FALSE
    <3>1. turned' = Count(turned, 1, ClearFrames + 1)
      BY <2>2 DEF FrontLocked, FrontLost
    <3> QED
      BY <3>1 DEF Count, TypeOK
  <2>3. CASE BackTurn(t, gap, dt)
    <3>1. Elapse(coolLeft, dt) < 0
      BY <2>3 DEF BackTurn, BackMaySpeak
    <3> QED
      BY <3>1 DEF CooldownInv, Elapse, TypeOK
  <2> QED
    BY <2>1, <2>2, <2>3
<1> QED
  BY <1>1, Invariance, PTL DEF Spec, TurnsAreSpaced

(* A rested gimbal is turned as soon as the front is lost and an enemy     *)
(* behind: no handoff, answered or not, is in the way (lines 224-248).     *)
THEOREM DueTurnsHappen == Spec => TurnsWhenDue
<1>1. IInv => \A dt \in Steps \ {0} :
                Iterate(dt) /\ behind /\ trk'.st = "lost" /\ quiet + dt > Cooldown
                  => out'.src = "back"
  <2> SUFFICES ASSUME IInv, NEW dt \in Steps \ {0}, Iterate(dt), behind,
                      trk'.st = "lost", quiet + dt > Cooldown
               PROVE  out'.src = "back"
    OBVIOUS
  <2> USE LoopAssumption DEF IInv
  <2>1. BackMaySpeak(dt)
    <3>1. dt \in Nat \ {0} /\ quiet \in Nat /\ coolLeft \in Int /\ waitLeft \in Int
      BY DEF Steps, TypeOK
    <3>2. coolLeft - dt < 0
      BY <3>1 DEF CooldownInv
    <3>3. Elapse(coolLeft, dt) < 0
      BY <3>1, <3>2 DEF Elapse
    <3>4. ~(waiting /\ Elapse(waitLeft, dt) > 0)
      BY <3>1, <3>2 DEF WaitInv, Elapse
    <3> QED
      BY <3>3, <3>4 DEF BackMaySpeak
  <2>2. ASSUME NEW gap \in BOOLEAN, NEW t \in Track(trk, FrontArmors, gap),
               FrontLocked(t, gap, dt) \/ FrontLost(t, gap, dt)
        PROVE  FALSE
    BY <2>1, <2>2 DEF FrontLocked, FrontLost
  <2>3. ASSUME NEW gap \in BOOLEAN, NEW t \in Track(trk, FrontArmors, gap),
               BackTurn(t, gap, dt)
        PROVE  out'.src = "back"
    BY <2>3 DEF BackTurn
  <2> QED
    BY <2>2, <2>3 DEF Iterate
<1> QED
  BY <1>1, Invariance, PTL DEF Spec, TurnsWhenDue

(* After a turn the old front angle is never resent (lines 140-146, 270-   *)
(* 278).                                                                   *)
THEOREM TurnIsNotUndone == Spec => HoldNeverUndoesTurn
<1>1. IInv /\ [Next]_vars => [out.src = "back" => out'.src # "hold"]_vars
  <2> SUFFICES ASSUME IInv, Next, out.src = "back"
               PROVE  out'.src # "hold"
    BY DEF vars
  <2> USE DEF IInv
  <2>1. ~seen
    BY DEF OutInv
  <2>2. CASE Look
    BY <2>2 DEF Look
  <2>3. CASE NoCommand
    BY <2>1, <2>3 DEF NoCommand
  <2>4. ASSUME NEW dt \in Steps, NEW gap \in BOOLEAN,
               NEW t \in Track(trk, FrontArmors, gap), FrontLocked(t, gap, dt)
        PROVE  out'.src # "hold"
    BY <2>3, <2>4 DEF FrontLocked
  <2>5. ASSUME NEW dt \in Steps, NEW gap \in BOOLEAN,
               NEW t \in Track(trk, FrontArmors, gap), BackTurn(t, gap, dt)
        PROVE  out'.src # "hold"
    BY <2>5 DEF BackTurn
  <2>6. ASSUME NEW dt \in Steps, NEW gap \in BOOLEAN,
               NEW t \in Track(trk, FrontArmors, gap), FrontLost(t, gap, dt)
        PROVE  out'.src # "hold"
    BY <2>3, <2>6 DEF FrontLost
  <2> QED
    BY <2>2, <2>4, <2>5, <2>6 DEF Next, Iterate
<1> QED
  BY <1>1, Invariance, PTL DEF Spec, HoldNeverUndoesTurn

(* The loop implements the handoff between two cameras: only the back      *)
(* camera turns, and only a rested gimbal, only the front fires, and a     *)
(* hold follows a front command (lines 156-297).                           *)
THEOREM ImplementsHandoff == Spec => HandoffSpec
<1>1. Init => Cameras!Init
  BY DEF Init, Cameras!Init, By
<1>2. IInv /\ [Next]_vars => [Cameras!Next]_(Cameras!vars)
  <2> SUFFICES ASSUME IInv, [Next]_vars
               PROVE  Cameras!Next \/ UNCHANGED Cameras!vars
    OBVIOUS
  <2> USE LoopAssumption DEF IInv, By
  <2>1. CASE Look
    BY <2>1 DEF Look, timers, Cameras!vars
  <2>2. ASSUME NoCommand
        PROVE  Cameras!Hold \/ Cameras!Silent
    BY <2>2 DEF NoCommand, OutInv, Cameras!Hold, Cameras!Silent
  <2>3. ASSUME NEW dt \in Steps, NEW gap \in BOOLEAN,
               NEW t \in Track(trk, FrontArmors, gap), FrontLocked(t, gap, dt)
        PROVE  Cameras!Next
    <3>1. quiet' = 0 /\ rested' = rested
      BY <2>3 DEF FrontLocked
    <3>2. CASE NoCommand
      BY <2>2, <3>1, <3>2 DEF Cameras!Next, Cameras!Locked
    <3>3. ASSUME NEW yaw \in Angles, NEW fire \in BOOLEAN,
                 \/ out' = [fire |-> fire, yaw |-> yaw, src |-> "seen"]
                 \/ out' = [fire |-> fire, yaw |-> yaw, src |-> "blind"]
          PROVE  Cameras!Next
      BY <3>1, <3>3 DEF Cameras!Next, Cameras!Locked, Cameras!Aim
    <3> QED
      BY <2>3, <3>2, <3>3 DEF FrontLocked
  <2>4. ASSUME NEW dt \in Steps, NEW gap \in BOOLEAN,
               NEW t \in Track(trk, FrontArmors, gap), FrontLost(t, gap, dt)
        PROVE  Cameras!Next
    <3>1. quiet' = Cameras!Rest(dt) /\ rested' = rested
      BY <2>4 DEF FrontLost, Count, Steps, TypeOK, Cameras!Rest
    <3>2. NoCommand /\ dt \in Cameras!Steps
      BY <2>4 DEF FrontLost, Steps, Cameras!Steps
    <3> QED
      BY <2>2, <3>1, <3>2 DEF Cameras!Next, Cameras!Lost
  <2>5. ASSUME NEW dt \in Steps, NEW gap \in BOOLEAN,
               NEW t \in Track(trk, FrontArmors, gap), BackTurn(t, gap, dt)
        PROVE  Cameras!Next
    <3>0. quiet + dt > Cooldown /\ dt \in Cameras!Steps
      BY <2>5 DEF BackTurn, BackMaySpeak, Elapse, Steps, CooldownInv, TypeOK,
                  Cameras!Steps
    <3>1. rested' = Cameras!Rest(dt) /\ rested' > Cooldown
      BY <2>5, <3>0 DEF BackTurn, Count, Steps, TypeOK, Cameras!Rest
    <3>2. PICK yaw \in Angles : out' = [fire |-> FALSE, yaw |-> yaw, src |-> "back"]
      BY <2>5 DEF BackTurn
    <3>3. quiet' = 0
      BY <2>5 DEF BackTurn
    <3> QED
      BY <3>0, <3>1, <3>2, <3>3 DEF Cameras!Next, Cameras!Turn
  <2>6. CASE UNCHANGED vars
    BY <2>6 DEF vars, Cameras!vars
  <2> QED
    BY <2>1, <2>3, <2>4, <2>5, <2>6 DEF Next, Iterate
<1> QED
  BY <1>1, <1>2, Invariance, PTL DEF Spec, HandoffSpec, Cameras!Spec
============================================================================
