----------------------------- MODULE ParallelAim -----------------------------
(***************************************************************************)
(* The parallel auto-aim program, sp_vision_25/src/sentry_dual_sn_ros.cpp: *)
(* a worker that tracks in the front images, a worker that looks for       *)
(* enemies in the back images and a controller that decides every          *)
(* millisecond which of the two steers the gimbal.  They share the         *)
(* workers' last results under one mutex, and a flag by which the          *)
(* controller asks the front worker to forget its target.                  *)
(*                                                                         *)
(* The images are the environment's: a worker may see anything in one.     *)
(* The steps are the points where a thread touches what is shared; a tick  *)
(* is counted as in DualCameraAim.  Angles are left out.                   *)
(***************************************************************************)
EXTENDS Tracker

CONSTANTS
  Handoff,      \* wait_until: 800 ms
  Cooldown,     \* cooldown_until: 2000 ms
  DropFrames    \* DROP_FRAMES_AFTER_BACK

ASSUME ParallelAssumption ==
  /\ Handoff \in Nat \ {0}
  /\ Cooldown \in Nat
  /\ Handoff <= Cooldown
  /\ DropFrames \in Nat

VARIABLES
  trk,        \* front worker: *tracker
  drop,       \* front worker: drop_frames
  result,     \* front worker: locked and cmd.shoot of the frame at hand
  working,    \* front worker: a result is about to be published
  front,      \* front_locked and front_cmd.shoot
  back,       \* back_has_target
  req,        \* req_clear_front
  snap,       \* controller: the results it read, between reading and acting
  waiting,    \* controller: waiting_front_lock
  waitLeft,   \* controller: ticks to wait_until
  coolLeft,   \* controller: ticks to cooldown_until
  last,       \* controller: last_front_detected
  out,        \* the last command sent, and which branch sent it
  quiet,      \* history: ticks since the controller saw a lock or turned
  rested,     \* history: what quiet had come to at the last turn
  begun,      \* history: frames the front worker has begun since the turn
  stale       \* history: locks published since the turn for frames it voids

worker     == <<trk, drop, result, working, front>>
controller == <<snap, waiting, waitLeft, coolLeft, last, out, quiet, rested>>
vars == <<trk, drop, result, working, front, back, req, snap, waiting, waitLeft,
          coolLeft, last, out, quiet, rested, begun, stale>>

Results == {r \in [locked : BOOLEAN, fire : BOOLEAN] : r.fire => r.locked}
NoResult == [locked |-> FALSE, fire |-> FALSE]
NoSnap == [read |-> FALSE, front |-> NoResult, back |-> FALSE]
Sources == {"none", "front", "wait", "back", "hold"}

TypeOK ==
  /\ trk \in Trackers
  /\ drop \in 0 .. DropFrames
  /\ result \in Results
  /\ working \in BOOLEAN
  /\ front \in Results
  /\ back \in BOOLEAN
  /\ req \in BOOLEAN
  /\ snap \in [read : BOOLEAN, front : Results, back : BOOLEAN]
  /\ waiting \in BOOLEAN
  /\ waitLeft \in -1 .. Handoff
  /\ coolLeft \in -1 .. Cooldown
  /\ last \in BOOLEAN
  /\ out \in [fire : BOOLEAN, src : Sources]
  /\ quiet \in 0 .. Cooldown + 1
  /\ rested \in 0 .. Cooldown + 1
  /\ begun \in 0 .. DropFrames + 1
  /\ stale \in 0 .. 2

Init ==
  /\ trk = FreshTracker
  /\ drop = 0
  /\ result = NoResult
  /\ working = FALSE
  /\ front = NoResult
  /\ back = FALSE
  /\ req = FALSE
  /\ snap = NoSnap
  /\ waiting = FALSE
  /\ waitLeft = 0
  /\ coolLeft = 0
  /\ last = FALSE
  /\ out = [fire |-> FALSE, src |-> "none"]
  /\ quiet = Cooldown + 1
  /\ rested = Cooldown + 1
  /\ begun = DropFrames + 1
  /\ stale = 0

----------------------------------------------------------------------------
(* The front worker.                                                       *)

\* Mutant: a tracker is made anew, but the frames after it are not dropped.
FramesToDropNone == drop

\* Frames to drop once the request was seen.
FramesToDrop == IF req THEN DropFrames ELSE drop

\* Mutant: the counter is lowered on every frame.
DropLeftUnguarded == FramesToDrop - 1

\* drop_frames after a frame.
DropLeft == IF FramesToDrop > 0 THEN FramesToDrop - 1 ELSE FramesToDrop

\* Mutant: the frames are dropped, but the tracker is kept.
StartingTrackerKept == trk

\* The tracker a frame meets: a new one if the controller asked for it.
StartingTracker == IF req THEN FreshTracker ELSE trk

(* One frame: the request is taken, the frame tracked (or its armours      *)
(* dropped), aimed at and judged by the shooter if it is locked.           *)
Work ==
  /\ ~working
  /\ \E armors \in SUBSET Kinds, gap \in BOOLEAN :
       \E t \in Track(StartingTracker, IF FramesToDrop > 0 THEN {} ELSE armors,
                      gap) :
         /\ trk' = t
         /\ \E fire \in BOOLEAN :
              /\ fire => t.st # "lost"
              /\ result' = [locked |-> t.st # "lost", fire |-> fire]
  /\ drop' = DropLeft
  /\ req' = FALSE
  /\ working' = TRUE
  /\ begun' = IF begun <= DropFrames THEN begun + 1 ELSE begun
  /\ UNCHANGED <<front, back, stale, controller>>

\* The result of the frame replaces the one before.
Publish ==
  /\ working
  /\ front' = result
  /\ result' = NoResult
  /\ working' = FALSE
  /\ stale' = IF result.locked /\ begun <= DropFrames /\ stale < 2
              THEN stale + 1 ELSE stale
  /\ UNCHANGED <<trk, drop, back, req, begun, controller>>

----------------------------------------------------------------------------
\* The back worker publishes what it saw in its image.
PublishBack ==
  /\ back' \in BOOLEAN
  /\ UNCHANGED <<worker, req, begun, stale, controller>>

----------------------------------------------------------------------------
(* The controller.                                                         *)

\* dt ticks nearer to a deadline, saturated.
Elapse(left, dt) == IF left - dt < -1 THEN -1 ELSE left - dt

\* Ticks since the last lock or turn, saturated.
Rest(dt) == IF quiet + dt > Cooldown THEN Cooldown + 1 ELSE quiet + dt

\* Ticks an iteration can take: a longer one finds every deadline passed, too.
Steps == 0 .. Cooldown + 1

\* It copies the workers' results.
Read ==
  /\ ~snap.read
  /\ snap' = [read |-> TRUE, front |-> front, back |-> back]
  /\ UNCHANGED <<worker, back, req, waiting, waitLeft, coolLeft, last, out, quiet,
                 rested, begun, stale>>

\* Mutant: a frame that fires does not raise the hold's flag.
LastAfterLockCautious == ~snap.front.fire

\* last_front_detected after a lock was sent.
LastAfterLock == TRUE

\* The front is locked: its command is sent.
SendFront(dt) ==
  /\ snap.front.locked
  /\ waiting' = FALSE
  /\ waitLeft' = Elapse(waitLeft, dt)
  /\ coolLeft' = Cooldown
  /\ out' = [fire |-> snap.front.fire, src |-> "front"]
  /\ last' = LastAfterLock
  /\ quiet' = 0
  /\ UNCHANGED <<req, rested, begun, stale>>

\* A handoff is pending.
Pending(dt) == waiting /\ Elapse(waitLeft, dt) > 0

\* The back camera sees an enemy and may turn the gimbal.
MayTurn(dt) == ~Pending(dt) /\ Elapse(coolLeft, dt) < 0 /\ snap.back

\* The time of an iteration that neither follows a lock nor turns.
Pass(dt) ==
  /\ ~snap.front.locked
  /\ waitLeft' = Elapse(waitLeft, dt)
  /\ coolLeft' = Elapse(coolLeft, dt)
  /\ quiet' = Rest(dt)
  /\ UNCHANGED <<waiting, req, rested, begun, stale>>

\* While the handoff is pending the back camera's angle is repeated.
Repeat(dt) ==
  /\ Pending(dt)
  /\ Pass(dt)
  /\ out' = [fire |-> FALSE, src |-> "wait"]
  /\ UNCHANGED last

\* Mutant: the hold's flag survives the turn.
LastAfterTurnKept == last

\* last_front_detected after a turn.
LastAfterTurn == FALSE

\* Turn to the enemy behind and ask the front worker to forget its target.
Turn(dt) ==
  /\ ~snap.front.locked
  /\ MayTurn(dt)
  /\ out' = [fire |-> FALSE, src |-> "back"]
  /\ waiting' = TRUE
  /\ waitLeft' = Handoff
  /\ coolLeft' = Cooldown
  /\ req' = TRUE
  /\ last' = LastAfterTurn
  /\ quiet' = 0
  /\ rested' = Rest(dt)
  /\ begun' = 0
  /\ stale' = 0

\* The last front angle is held once; then the gimbal is left alone.
Hold(dt) ==
  /\ ~Pending(dt) /\ ~MayTurn(dt)
  /\ Pass(dt)
  /\ IF last THEN out' = [fire |-> FALSE, src |-> "hold"] ELSE UNCHANGED out
  /\ last' = FALSE

\* It decides by what it read, dt ticks after the iteration before.
Act(dt) ==
  /\ snap.read
  /\ SendFront(dt) \/ Repeat(dt) \/ Turn(dt) \/ Hold(dt)
  /\ snap' = NoSnap
  /\ UNCHANGED <<worker, back>>

Next ==
  \/ Work \/ Publish \/ PublishBack
  \/ Read \/ \E dt \in Steps : Act(dt)

Spec == Init /\ [][Next]_vars

----------------------------------------------------------------------------
(* Fire lasts no longer than the controller sees the front locked: the     *)
(* first iteration that sees it lost sends a command that does not fire    *)
(* (lines 299-321), whichever branch it takes.                             *)
LossEndsFire == [][snap.read /\ ~snap'.read /\ ~snap.front.locked => ~out'.fire]_vars

(* The gimbal is turned back only after more than the cooldown since the   *)
(* controller last saw a lock or turned (lines 284, 303, 311).             *)
TurnsAreSpaced ==
  [][\A dt \in Steps : req' /\ Act(dt) /\ Turn(dt) => quiet + dt > Cooldown]_vars

(* The converse: with the front lost and an enemy behind in what it has    *)
(* read, an iteration that takes time turns a rested gimbal; the           *)
(* repetition of a pending handoff never comes before it (lines 299-316).  *)
TurnsWhenDue ==
  [][\A dt \in Steps \ {0} :
       Act(dt) /\ snap.back /\ ~snap.front.locked /\ quiet + dt > Cooldown
         => out'.src = "back"]_vars

(* A turn voids the DropFrames frames after it, and the front worker's     *)
(* target with them.  It does not stop the frame the worker has begun,     *)
(* whose lock is still published and followed; but that one only (lines    *)
(* 143-156, 185-187, 313).                                                 *)
OneStaleLock == stale <= 1

(* The hold of an old front angle never follows a turn or its repetition   *)
(* without a new lock between (lines 301, 307, 314, 317).                  *)
HoldNeverUndoesTurn == [][out.src \in {"wait", "back"} => out'.src # "hold"]_vars

(* The controller implements the handoff between two cameras, although the *)
(* results it goes by are the workers' and may be late (lines 271-320).    *)
By == IF out.src \in {"wait", "back"} THEN "back" ELSE out.src
Cameras == INSTANCE CameraHandoff
             WITH Cooldown <- Cooldown, by <- By, fire <- out.fire,
                  quiet <- quiet, rested <- rested
HandoffSpec == Cameras!Spec
=============================================================================
