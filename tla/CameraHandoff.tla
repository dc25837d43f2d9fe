--------------------------- MODULE CameraHandoff ---------------------------
(* What the two-camera aim programs of sp_vision_25 (src/                  *)
(* sentry_dual_cameras_ros.cpp, src/sentry_dual_sn_ros.cpp) both promise   *)
(* of the gimbal they hand from the front camera to the back one: the back *)
(* camera turns it only after the front was unlocked and the gimbal        *)
(* unturned for longer than the cooldown; a hold follows a command of the  *)
(* front camera and nothing else; only the front camera fires.             *)
EXTENDS Integers

CONSTANT Cooldown   \* ticks the gimbal belongs to whoever had it last

VARIABLES
  by,               \* who gave the last command
  fire,             \* it fires
  quiet,            \* ticks since the front was locked or the gimbal turned
  rested            \* what quiet had come to at the last turn

vars == <<by, fire, quiet, rested>>

\* More ticks than these make no difference.
Steps == 0 .. Cooldown + 1

Rest(dt) == IF quiet + dt > Cooldown THEN Cooldown + 1 ELSE quiet + dt

Init ==
  /\ by = "none" /\ fire = FALSE
  /\ quiet = Cooldown + 1 /\ rested = Cooldown + 1

\* The front camera aims, and may fire.
Aim == by' = "front" /\ fire' \in BOOLEAN

\* The last angle of the front camera is sent again, without fire.
Hold == by = "front" /\ by' = "hold" /\ fire' = FALSE

\* Nothing new is sent.
Silent == UNCHANGED <<by, fire>>

\* The front camera has its target.
Locked ==
  /\ quiet' = 0 /\ UNCHANGED rested
  /\ Aim \/ Hold \/ Silent

\* The front camera has none, and dt ticks go by.
Lost(dt) ==
  /\ quiet' = Rest(dt) /\ UNCHANGED rested
  /\ Hold \/ Silent

\* The back camera turns the gimbal, which has rested for longer than the
\* cooldown, the dt ticks up to the turn included.
Turn(dt) ==
  /\ rested' = Rest(dt) /\ rested' > Cooldown
  /\ by' = "back" /\ fire' = FALSE
  /\ quiet' = 0

Next == Locked \/ \E dt \in Steps : Lost(dt) \/ Turn(dt)

Spec == Init /\ [][Next]_vars
=============================================================================
