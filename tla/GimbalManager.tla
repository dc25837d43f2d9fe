---------------------------- MODULE GimbalManager ----------------------------
(***************************************************************************)
(* The way of an angle from a decision to the command structure:           *)
(* GimbalROS::send of the aim programs and the behaviour tree's gimbal     *)
(* nodes publish on cmd_gimbal, the gimbal manager                         *)
(* (standard_robot_pp_ros2/src/gimbal_manager.cpp) turns each axis to an   *)
(* angle or sweeps it, and publishes both axes every 10 ms for the bridge. *)
(* The fire flag of a decision goes to the bridge directly and is left out.*)
(*                                                                         *)
(* Angles are integers; velocities are angles per timer period, and the    *)
(* timer may be late by whole periods.  A subscription keeps the last      *)
(* Depth messages (10 in the code); between the manager and the bridge one *)
(* message shows as much, the bridge only ever keeps the last.             *)
(***************************************************************************)
EXTENDS Integers, Sequences

CONSTANTS
  Axes,           \* pitch and yaw
  Messages,       \* what is published on cmd_gimbal
  Circle,         \* the width of a range that is all the way round
  Deltas,         \* periods of 10 ms from one run of the timer to the next
  Depth           \* bound: messages waiting on cmd_gimbal

Absolute == [type : {"absolute"}, pos : Int, vel : {0}, lo : {0}, hi : {0}]
Velocity == [type : {"velocity"}, pos : {0}, vel : Int, lo : Int, hi : Int]

\* PublishGimbalVelocity publishes no empty range.
ASSUME ManagerAssumption ==
  /\ \A m \in Messages :
       /\ m \in [Axes -> Absolute \cup Velocity]
       /\ \A x \in Axes : m[x] \in Velocity => m[x].lo < m[x].hi
  /\ Circle \in Nat \ {0}
  /\ Deltas \subseteq Nat \ {0} /\ Deltas # {}
  /\ Depth \in Nat \ {0}

VARIABLES
  calm,           \* environment: from here on nothing is decided or crashes
  up,             \* the manager runs (its launch file respawns it)
  inbox,          \* messages waiting for gimbalCmdCallback
  started,        \* last_update is set
  last,           \* last_msg
  pos,            \* state_.pitch, state_.yaw
  ctrl,           \* state_.pitch_ctrl, state_.yaw_ctrl
  joints,         \* what is on its way to the bridge: no or one pair of angles
  angle,          \* the angles in the command of the bridge; at first whatever was there
  latest          \* history: no or the last message the manager was there for

manager == <<started, last, pos, ctrl>>
bridge  == <<joints, angle>>
vars    == <<calm, up, inbox, started, last, pos, ctrl, joints, angle, latest>>

\* What the manager is constructed with.
NoMessage == [x \in Axes |->
                [type |-> "absolute", pos |-> 0, vel |-> 0, lo |-> 0, hi |-> 0]]
Zero      == [x \in Axes |-> 0]
Still     == [x \in Axes |->
                [mode |-> "position", vel |-> 0, lo |-> 0, hi |-> 0]]

Angles   == [Axes -> Int]
Controls == [mode : {"position", "velocity"}, vel : Int, lo : Int, hi : Int]

TypeOK ==
  /\ calm \in BOOLEAN /\ up \in BOOLEAN /\ started \in BOOLEAN
  /\ inbox \in Seq(Messages) /\ Len(inbox) <= Depth
  /\ last \in Messages \cup {NoMessage}
  /\ pos \in Angles /\ angle \in Angles
  /\ ctrl \in [Axes -> Controls]
  /\ \A a \in joints : a \in Angles /\ joints = {a}
  /\ \A m \in latest : m \in Messages /\ latest = {m}

Init ==
  /\ calm = FALSE /\ up = TRUE
  /\ inbox = <<>>
  /\ started = FALSE /\ last = NoMessage /\ pos = Zero /\ ctrl = Still
  /\ joints = {} /\ angle = Zero
  /\ latest = {}

----------------------------------------------------------------------------
(* Who publishes.                                                          *)

\* Mutant: nothing bounds the queue.
QueuedAll(s, m) == Append(s, m)

\* The subscription's queue keeps the last Depth messages.
Queued(s, m) == IF Len(s) < Depth THEN Append(s, m) ELSE Append(Tail(s), m)

Publish(m) ==
  /\ inbox' = IF up THEN Queued(inbox, m) ELSE inbox
  /\ latest' = IF up THEN {m} ELSE latest

(* GimbalROS::send, PublishGimbalAbsolute and PublishGimbalVelocity: any   *)
(* of them at any moment, the aim programs and the tree know nothing of    *)
(* each other.                                                             *)
PublishCmd(m) ==
  /\ ~calm
  /\ Publish(m)
  /\ UNCHANGED <<calm, up, manager, bridge>>

----------------------------------------------------------------------------
(* gimbalCmdCallback                                                       *)

\* Mutant: the message is not remembered.
ForgetMessage(m) == NoMessage

\* last_msg once a message was taken over.
Remember(m) == m

\* Mutant: an axis that gets an angle goes on sweeping.
KeepMode(x, c) ==
  IF c.type = "absolute" THEN ctrl[x]
  ELSE [mode |-> "velocity", vel |-> c.vel, lo |-> c.lo, hi |-> c.hi]

\* An axis goes to an angle, and keeps the rest of its control; or it sweeps.
Control(x, c) ==
  IF c.type = "absolute" THEN [ctrl[x] EXCEPT !.mode = "position"]
  ELSE [mode |-> "velocity", vel |-> c.vel, lo |-> c.lo, hi |-> c.hi]

\* The duplicate filter.
Repeated(m) == m = last

\* A message equal to the last one changes nothing.
GimbalCmd ==
  /\ up /\ inbox # <<>>
  /\ inbox' = Tail(inbox)
  /\ LET m == Head(inbox) IN
     IF Repeated(m)
     THEN UNCHANGED <<last, pos, ctrl>>
     ELSE /\ last' = Remember(m)
          /\ pos' = [x \in Axes |->
                       IF m[x].type = "absolute" THEN m[x].pos ELSE pos[x]]
          /\ ctrl' = [x \in Axes |-> Control(x, m[x])]
  /\ UNCHANGED <<calm, up, started, bridge, latest>>

----------------------------------------------------------------------------
(* The timer.                                                              *)

\* is_continuous
Continuous(c) == c.hi - c.lo = Circle

\* Mutant: fmod's sign is not looked at.
WrapFmod(p, c) ==
  LET r == c.hi - c.lo
      f == IF p >= c.lo THEN (p - c.lo) % r ELSE -((c.lo - p) % r)
  IN  c.lo + f

\* fmod takes the sign of what is divided; a negative rest goes up by a range.
Wrap(p, c) ==
  LET r == c.hi - c.lo
      f == IF p >= c.lo THEN (p - c.lo) % r ELSE -((c.lo - p) % r)
  IN  IF f < 0 THEN c.lo + f + r ELSE c.lo + f

\* updateAxisPosition: the angle it returns for an axis that would be at p.
Moved(p, c) ==
  IF Continuous(c) THEN Wrap(p, c)
  ELSE IF p > c.hi THEN c.hi ELSE IF p < c.lo THEN c.lo ELSE p

\* Mutant: the sweep only turns round at its upper end.
TurnAtTop(p, c) ==
  IF ~Continuous(c) /\ p > c.hi THEN [c EXCEPT !.vel = - c.vel] ELSE c

\* ... and the control it leaves: a sweep turns round when it leaves its range.
Turned(p, c) ==
  IF ~Continuous(c) /\ (p > c.hi \/ p < c.lo)
  THEN [c EXCEPT !.vel = - c.vel] ELSE c

Sweeping(x) == ctrl[x].mode = "velocity"

Reach(x, d) == pos[x] + ctrl[x].vel * d

\* The first run only takes the time.
FirstTick ==
  /\ up /\ ~started
  /\ started' = TRUE
  /\ UNCHANGED <<calm, up, inbox, last, pos, ctrl, bridge, latest>>

\* updateState and publishJointState
Tick(d) ==
  /\ up /\ started
  /\ pos' = [x \in Axes |->
               IF Sweeping(x) THEN Moved(Reach(x, d), ctrl[x]) ELSE pos[x]]
  /\ ctrl' = [x \in Axes |->
               IF Sweeping(x) THEN Turned(Reach(x, d), ctrl[x]) ELSE ctrl[x]]
  /\ joints' = {pos'}
  /\ UNCHANGED <<calm, up, inbox, started, last, angle, latest>>

----------------------------------------------------------------------------
(* cmdGimbalJointCallback of the bridge                                    *)

CmdGimbalJoint ==
  /\ \E a \in joints : angle' = a
  /\ joints' = {}
  /\ UNCHANGED <<calm, up, inbox, manager, latest>>

----------------------------------------------------------------------------
(* The manager's process ends, and is started again.                       *)

Crash ==
  /\ up /\ ~calm
  /\ up' = FALSE
  /\ inbox' = <<>>
  /\ latest' = {}
  /\ UNCHANGED <<calm, manager, bridge>>

Respawn ==
  /\ ~up
  /\ up' = TRUE
  /\ started' = FALSE /\ last' = NoMessage /\ pos' = Zero /\ ctrl' = Still
  /\ UNCHANGED <<calm, inbox, bridge, latest>>

Settle ==
  /\ up /\ ~calm
  /\ calm' = TRUE
  /\ UNCHANGED <<up, inbox, manager, bridge, latest>>

----------------------------------------------------------------------------
Next ==
  \/ \E m \in Messages : PublishCmd(m)
  \/ GimbalCmd
  \/ FirstTick
  \/ \E d \in Deltas : Tick(d)
  \/ CmdGimbalJoint
  \/ Crash \/ Respawn \/ Settle

Spec == Init /\ [][Next]_vars

(* The executors serve their callbacks and the timer keeps running.        *)
Fairness ==
  /\ WF_vars(GimbalCmd)
  /\ WF_vars(FirstTick)
  /\ WF_vars(\E d \in Deltas : Tick(d))
  /\ WF_vars(CmdGimbalJoint)

FairSpec == Spec /\ Fairness

----------------------------------------------------------------------------
\* The axis does what it was told: it is at the angle, or it sweeps in the
\* range and at the speed it was given, either way.
Obeys(x, c) ==
  IF c.type = "absolute"
  THEN ctrl[x].mode = "position" /\ pos[x] = c.pos
  ELSE /\ ctrl[x].mode = "velocity"
       /\ ctrl[x].lo = c.lo /\ ctrl[x].hi = c.hi
       /\ ctrl[x].vel \in {c.vel, - c.vel}

(* Ignoring a message equal to the last one loses nothing (lines 49-54):   *)
(* whatever the timer did since, both axes still do what it says.          *)
AxisObeysLast == \A x \in Axes : Obeys(x, last[x])

(* A manager that has served its queue obeys the newest decision there was *)
(* since it was started, although the queue has dropped messages, the      *)
(* filter has ignored some and a sweep has moved the axes in between       *)
(* (lines 28-30, 45-83).                                                   *)
NewestIsObeyed ==
  inbox = <<>> => \A m \in latest : \A x \in Axes : Obeys(x, m[x])

(* Once an axis is inside the range it sweeps, only a message takes it out *)
(* (lines 96-116): not a wrap below zero, nor a late timer.                *)
SweepStaysInRange ==
  [][\A x \in Axes :
       Sweeping(x) /\ pos[x] \in ctrl[x].lo .. ctrl[x].hi /\ last' = last /\ up'
         => pos'[x] \in ctrl[x].lo .. ctrl[x].hi]_vars

(* What is safe about SweepReachesBothEnds: once inside its range a sweep  *)
(* only turns round at the end it was going to (lines 106-115).            *)
SweepTurnsAhead ==
  [][\A x \in Axes :
       (/\ Sweeping(x) /\ pos[x] \in ctrl[x].lo .. ctrl[x].hi
        /\ last' = last /\ up' /\ ctrl'[x] # ctrl[x])
         => pos'[x] = IF ctrl[x].vel > 0 THEN ctrl[x].hi ELSE ctrl[x].lo]_vars

(* When nothing more is decided, the bridge comes to hold the last angle,  *)
(* though messages are dropped and ignored on the way (lines 45-125).      *)
LastDecisionWins ==
  [](calm => <>[](\A m \in latest : \A x \in Axes :
                    m[x].type = "absolute" => angle[x] = m[x].pos))

(* A sweep goes to both its ends again and again, from wherever the axis   *)
(* was when it began.                                                      *)
SweepReachesBothEnds ==
  \A m \in Messages : \A x \in Axes :
    m[x].type = "velocity" /\ m[x].vel # 0 /\ ~Continuous(m[x]) =>
      (<>[](calm /\ latest = {m})
         => []<>(pos[x] = m[x].lo) /\ []<>(pos[x] = m[x].hi))
=============================================================================
