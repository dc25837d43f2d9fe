--------------------------- MODULE DualCameraAim ---------------------------
(***************************************************************************)
(* The deployed auto-aim program, sp_vision_25/src/sentry_dual_cameras_ros *)
(* .cpp: one loop that tracks with the front camera and, when the front    *)
(* has been lost long enough, lets the back camera turn the gimbal around. *)
(*                                                                         *)
(* What the loop sends is latched: the serial bridge keeps repeating the   *)
(* last gimbal angle and the last fire flag to the controller board, so    *)
(* "out" is what the robot does until the loop sends again.                *)
(*                                                                         *)
(* Time is counted in ticks.  A deadline is kept as the ticks left to it,  *)
(* saturated one tick after it passed: "now < until" is left > 0, "now >   *)
(* until" is left < 0.                                                     *)
(***************************************************************************)
EXTENDS Tracker

CONSTANTS
  Angles,       \* gimbal angles the aimer and the back camera can ask for
  Zero,         \* the angle 0.0 the loop's variables are reset to
  Handoff,      \* BACK_TO_FRONT_HANDOFF_MS
  Cooldown,     \* BACK_CAM_COOLDOWN_MS
  ClearFrames   \* CLEAR_FRONT_ARMOR_FRAMES_AFTER_BACK

ASSUME LoopAssumption ==
  /\ Handoff \in Nat \ {0}
  /\ Cooldown \in Nat
  /\ Handoff <= Cooldown
  /\ ClearFrames \in Nat

VARIABLES
  view,       \* environment: kinds in the newest front image
  behind,     \* environment: an enemy is in the newest back image
  trk,        \* *tracker
  waiting,    \* waiting_front_lock
  waitLeft,   \* ticks to waiting_front_lock_until
  coolLeft,   \* ticks to back_cam_cooldown_until
  clear,      \* clear_front_armor_frames
  seen,       \* last_frame_front_detected_target
  held,       \* last_sent_yaw (and pitch)
  out,        \* the last command sent, and which branch sent it
  quiet,      \* history: ticks since the front was locked or the gimbal turned
  rested,     \* history: what quiet had come to at the last turn
  turned      \* history: frames processed since the gimbal turned

env    == <<view, behind>>
timers == <<waitLeft, coolLeft, quiet>>
vars   == <<view, behind, trk, waiting, waitLeft, coolLeft, clear, seen, held,
            out, quiet, rested, turned>>

Sources == {"none", "seen", "blind", "hold", "back"}

TypeOK ==
  /\ view \in SUBSET Kinds
  /\ behind \in BOOLEAN
  /\ trk \in Trackers
  /\ waiting \in BOOLEAN
  /\ waitLeft \in -1 .. Handoff
  /\ coolLeft \in -1 .. Cooldown
  /\ clear \in 0 .. ClearFrames
  /\ seen \in BOOLEAN
  /\ held \in Angles \cup {Zero}
  /\ out \in [fire : BOOLEAN, yaw : Angles \cup {Zero}, src : Sources]
  /\ quiet \in 0 .. Cooldown + 1
  /\ rested \in 0 .. Cooldown + 1
  /\ turned \in 0 .. ClearFrames + 1

Init ==
  /\ view = {}
  /\ behind = FALSE
  /\ trk = FreshTracker
  /\ waiting = FALSE
  /\ waitLeft = 0
  /\ coolLeft = 0
  /\ clear = 0
  /\ seen = FALSE
  /\ held = Zero
  /\ out = [fire |-> FALSE, yaw |-> Zero, src |-> "none"]
  /\ quiet = Cooldown + 1
  /\ rested = Cooldown + 1
  /\ turned = ClearFrames + 1

----------------------------------------------------------------------------
(* The scene moves; the camera threads put the newest image in their slot. *)
Look ==
  /\ \E v \in SUBSET Kinds, b \in BOOLEAN :
       /\ v # view \/ b # behind
       /\ view' = v
       /\ behind' = b
  /\ UNCHANGED <<trk, waiting, clear, seen, held, out, rested, turned, timers>>

\* dt ticks nearer to a deadline, saturated.
Elapse(left, dt) == IF left - dt < -1 THEN -1 ELSE left - dt

\* A history counter that stops at its bound.
Count(n, d, bound) == IF n + d > bound THEN bound ELSE n + d

\* Mutant: the counter is looked at after it was decremented.
FrontArmorsOneShort == IF clear > 1 THEN {} ELSE view

\* The armours of this frame: none while the frames after a turn are dropped.
FrontArmors == IF clear > 0 THEN {} ELSE view

\* Mutant: the counter is decremented without looking.
ClearLeftUnguarded == clear - 1

\* Frames still to drop after this one.
ClearLeft == IF clear > 0 THEN clear - 1 ELSE 0

(* What every iteration begins with: a front frame goes through the        *)
(* tracker.  A frame can only be late if time has passed.                  *)
Perceive(t, gap, dt) ==
  /\ gap => dt > 0
  /\ t \in Track(trk, FrontArmors, gap)
  /\ UNCHANGED env

\* Mutant: only the handoff keeps the back camera silent.
BackMaySpeakHot(dt) == ~(waiting /\ Elapse(waitLeft, dt) > 0)

\* Mutant: a pending handoff has no deadline.
BackMaySpeakForeverWaiting(dt) == ~waiting /\ Elapse(coolLeft, dt) < 0

\* No handoff is pending and the cooldown is over: the back camera may speak.
BackMaySpeak(dt) ==
  /\ ~(waiting /\ Elapse(waitLeft, dt) > 0)
  /\ Elapse(coolLeft, dt) < 0

\* Mutant: the hold resends the whole last command.
NoCommandKeepsFire ==
  IF seen /\ ~waiting' /\ clear' = 0
  THEN /\ out' = [fire |-> out.fire, yaw |-> held, src |-> "hold"]
       /\ seen' = FALSE
       /\ UNCHANGED held
  ELSE UNCHANGED <<out, seen, held>>

(* No command in this frame: the one-shot hold of the last front angle if  *)
(* its flag is up, else nothing is sent.                                   *)
NoCommand ==
  IF seen /\ ~waiting' /\ clear' = 0
  THEN /\ out' = [fire |-> FALSE, yaw |-> held, src |-> "hold"]
       /\ seen' = FALSE
       /\ UNCHANGED held
  ELSE UNCHANGED <<out, seen, held>>

\* Mutant: the angle is reset, but the hold's flag stays up.
ForgetAngle ==
  /\ trk' = FreshTracker
  /\ clear' = ClearFrames
  /\ held' = Zero
  /\ UNCHANGED seen

\* clear_front_target_cache().
ForgetFront ==
  /\ trk' = FreshTracker
  /\ clear' = ClearFrames
  /\ seen' = FALSE
  /\ held' = Zero

(* The front is locked: aim, and fire if the shooter agrees.  The four-    *)
(* argument shooter.shoot never sees the tracker's state.                  *)
FrontLocked(t, gap, dt) ==
  /\ Perceive(t, gap, dt)
  /\ t.st # "lost"
  /\ trk' = t
  /\ waiting' = FALSE
  /\ waitLeft' = Elapse(waitLeft, dt)
  /\ coolLeft' = Cooldown
  /\ clear' = ClearLeft
  /\ quiet' = 0
  /\ UNCHANGED rested
  /\ turned' = Count(turned, 1, ClearFrames + 1)
  /\ \/ \E yaw \in Angles, fire \in BOOLEAN :       \* command.control
          IF FrontArmors # {}
          THEN /\ out' = [fire |-> fire, yaw |-> yaw, src |-> "seen"]
               /\ seen' = TRUE
               /\ held' = yaw
          ELSE /\ out' = [fire |-> fire, yaw |-> yaw, src |-> "blind"]
               /\ UNCHANGED <<seen, held>>
     \/ NoCommand                                   \* no aim point, no trajectory

\* The front is lost and the back camera may not speak, or sees nobody.
FrontLost(t, gap, dt) ==
  /\ Perceive(t, gap, dt)
  /\ t.st = "lost"
  /\ BackMaySpeak(dt) => ~behind
  /\ trk' = t
  /\ UNCHANGED waiting
  /\ waitLeft' = Elapse(waitLeft, dt)
  /\ coolLeft' = Elapse(coolLeft, dt)
  /\ clear' = ClearLeft
  /\ quiet' = Count(quiet, dt, Cooldown + 1)
  /\ UNCHANGED rested
  /\ turned' = Count(turned, 1, ClearFrames + 1)
  /\ NoCommand

(* The front is lost and the back camera sees an enemy: turn the gimbal to *)
(* it, forget the front target and drop the armours of the next frames.    *)
BackTurn(t, gap, dt) ==
  /\ Perceive(t, gap, dt)
  /\ t.st = "lost"
  /\ BackMaySpeak(dt)
  /\ behind
  /\ \E yaw \in Angles : out' = [fire |-> FALSE, yaw |-> yaw, src |-> "back"]
  /\ waiting' = TRUE
  /\ waitLeft' = Handoff
  /\ coolLeft' = Cooldown
  /\ ForgetFront
  /\ quiet' = 0
  /\ rested' = Count(quiet, dt, Cooldown + 1)
  /\ turned' = 0

\* One iteration of the loop that takes dt ticks.
Iterate(dt) ==
  \E gap \in BOOLEAN :
    \E t \in Track(trk, FrontArmors, gap) :
      FrontLocked(t, gap, dt) \/ FrontLost(t, gap, dt) \/ BackTurn(t, gap, dt)

\* Ticks an iteration can take: a longer one finds every deadline passed, too.
Steps == 0 .. Cooldown + 1

Next == Look \/ \E dt \in Steps : Iterate(dt)

Spec == Init /\ [][Next]_vars

\* The loop never blocks for good and the clock runs.
Fairness == WF_vars(\E dt \in Steps \ {0} : Iterate(dt))

FairSpec == Spec /\ Fairness

----------------------------------------------------------------------------
(* A fire command given on a target in view does not outlive the target:   *)
(* whatever way the tracker is lost, the same iteration replaces it by a   *)
(* command that does not fire (lines 262-279).  Only a command given while *)
(* the tracker coasts without a detection can stay on.                     *)
VisibleFireIsReleased == trk.st = "lost" /\ out.fire => out.src = "blind"

(* After a turn the front cannot lock on any of the frames whose armours   *)
(* the loop promised to drop (lines 146, 172-175): the new tracker sees no *)
(* armour before ClearFrames frames have gone by.                          *)
NoLockBeforeCleared == trk.st # "lost" => turned > ClearFrames

(* The back camera turns the gimbal only when the front has been unlocked  *)
(* and the gimbal unturned for longer than the cooldown, the turning       *)
(* iteration's own ticks included (lines 220, 228, 242).                   *)
TurnsAreSpaced ==
  [][\A dt \in Steps : turned' = 0 /\ Iterate(dt) => quiet + dt > Cooldown]_vars

(* What is safe about BackTakesOver, and the converse of TurnsAreSpaced:   *)
(* with the front lost and an enemy behind, an iteration that takes time   *)
(* turns a rested gimbal.  A handoff that is pending never keeps it from   *)
(* doing so (lines 224-248).                                               *)
TurnsWhenDue ==
  [][\A dt \in Steps \ {0} :
       Iterate(dt) /\ behind /\ trk'.st = "lost" /\ quiet + dt > Cooldown
         => out'.src = "back"]_vars

(* The hold of an old front angle never undoes a turn: after a turn the    *)
(* next command is a new aim or another turn (lines 140-146, 270-278).     *)
HoldNeverUndoesTurn == [][out.src = "back" => out'.src # "hold"]_vars

(* The hold sends an angle the aimer asked for, never the 0.0 a turn left  *)
(* in its place, which would swing the gimbal round (lines 140-146, 264-   *)
(* 277): whatever lies between the turn and the hold.                      *)
HoldWasAimed == out.src = "hold" => out.yaw \in Angles

(* The loop implements the handoff between two cameras, which the parallel *)
(* program implements in its own way (lines 156-297).                      *)
By == IF out.src \in {"seen", "blind"} THEN "front" ELSE out.src
Cameras == INSTANCE CameraHandoff
             WITH Cooldown <- Cooldown, by <- By, fire <- out.fire,
                  quiet <- quiet, rested <- rested
HandoffSpec == Cameras!Spec

(* When the front stays empty and an enemy stays behind, the back camera   *)
(* takes over again and again: a handoff that the front never answers      *)
(* expires (lines 224-248).                                                *)
BackTakesOver ==
  <>[](view = {} /\ behind) => []<>(out.src = "back" /\ turned = 0)

(* configs/demo.yaml:52 says of tracking_only_fire "whether firing is only *)
(* allowed in the tracking state", and sets it.                            *)
FireOnlyWhileTracking ==
  [][~out.fire /\ out'.fire => trk'.st = "tracking"]_vars

(* The comment at line 276, "the first frame after the target is lost:     *)
(* hold the last frame's angle": a loss during fire sends the hold, unless *)
(* the back camera has a command of its own on that frame.                 *)
LossIsHeld ==
  [][trk.st # "lost" /\ trk'.st = "lost" /\ out.fire
       => out'.src \in {"hold", "back"}]_vars
============================================================================
