------------------------ MODULE GimbalManagerProofs ------------------------
(* Safety of the gimbal manager, for any messages whose ranges are not     *)
(* empty, any queue and any lateness of the timer: what it ignores is what *)
(* it already does, the newest decision is never lost on the way, and a    *)
(* sweep does not leave its range.                                         *)
EXTENDS GimbalManager, SequenceTheorems, TLAPS

----------------------------------------------------------------------------
(* The arithmetic of a sweep.                                              *)

\* One run of the timer, from anywhere, ends inside the range.
LEMMA MovedInRange ==
  ASSUME NEW p \in Int, NEW c \in Controls, c.lo < c.hi
  PROVE  Moved(p, c) \in c.lo .. c.hi
<1> DEFINE r == c.hi - c.lo
<1>1. c.lo \in Int /\ c.hi \in Int /\ r \in Int /\ r > 0
  BY DEF Controls
<1>2. ASSUME NEW a \in Nat PROVE a % r \in 0 .. r - 1
  BY <1>1
<1>3. CASE Continuous(c)
  <2>1. Moved(p, c) = Wrap(p, c)
    BY <1>3 DEF Moved
  <2>2. CASE p >= c.lo
    <3>1. p - c.lo \in Nat
      BY <1>1, <2>2
    <3>2. (p - c.lo) % r \in 0 .. r - 1
      BY <3>1, <1>2
    <3> QED
      BY <1>1, <2>1, <2>2, <3>2 DEF Wrap
  <2>3. CASE ~(p >= c.lo)
    <3>1. c.lo - p \in Nat
      BY <1>1, <2>3
    <3>2. (c.lo - p) % r \in 0 .. r - 1
      BY <3>1, <1>2
    <3> QED
      BY <1>1, <2>1, <2>3, <3>2 DEF Wrap
  <2> QED
    BY <2>2, <2>3
<1>4. CASE ~Continuous(c)
  BY <1>1, <1>4 DEF Moved
<1> QED
  BY <1>3, <1>4

\* ... and leaves the range and the speed, but for the direction.
LEMMA TurnedKeepsRange ==
  ASSUME NEW p \in Int, NEW c \in Controls
  PROVE  /\ Turned(p, c) \in Controls
         /\ Turned(p, c).mode = c.mode
         /\ Turned(p, c).lo = c.lo /\ Turned(p, c).hi = c.hi
         /\ Turned(p, c).vel \in {c.vel, - c.vel}
<1>1. CASE Turned(p, c) = c
  BY <1>1
<1>2. CASE Turned(p, c) = [c EXCEPT !.vel = - c.vel]
  BY <1>2 DEF Controls
<1> QED
  BY <1>1, <1>2 DEF Turned

----------------------------------------------------------------------------
(* The inductive invariant: types, the agreement of an axis with the last  *)
(* message, and where the newest decision is until it is the last message. *)

\* The newest decision is at the end of the queue, or was served last; there
\* is none for a manager that is down.
NewestIsLast ==
  /\ \A m \in latest : IF inbox = <<>> THEN last = m ELSE inbox[Len(inbox)] = m
  /\ up \/ latest = {}

IInv == TypeOK /\ AxisObeysLast /\ NewestIsLast

\* What a message gives an axis.
LEMMA AxisOfMessage ==
  ASSUME NEW m \in Messages \cup {NoMessage}, NEW x \in Axes
  PROVE  /\ m[x].pos \in Int /\ m[x].vel \in Int
         /\ m[x].lo \in Int /\ m[x].hi \in Int
         /\ m[x].type # "absolute" =>
              m[x].type = "velocity" /\ m[x].lo < m[x].hi
<1>1. CASE m = NoMessage
  BY <1>1 DEF NoMessage
<1>2. CASE m \in Messages
  <2>1. m[x] \in Absolute \cup Velocity
    BY <1>2, ManagerAssumption
  <2>2. CASE m[x] \in Absolute
    BY <2>2 DEF Absolute
  <2>3. CASE m[x] \in Velocity
    BY <2>3, <1>2, ManagerAssumption DEF Velocity
  <2> QED
    BY <2>1, <2>2, <2>3
<1> QED
  BY <1>1, <1>2

\* A message put into a queue is its last.
LEMMA AppendLast ==
  ASSUME NEW s \in Seq(Messages), NEW m \in Messages
  PROVE  /\ Append(s, m) \in Seq(Messages)
         /\ Len(Append(s, m)) = Len(s) + 1
         /\ Append(s, m) # <<>>
         /\ Append(s, m)[Len(Append(s, m))] = m
<1>1. /\ Append(s, m) \in Seq(Messages) /\ Len(s) \in Nat
      /\ Len(Append(s, m)) = Len(s) + 1 /\ Append(s, m)[Len(s) + 1] = m
  OBVIOUS
<1>2. Append(s, m) # <<>>
  BY <1>1
<1> QED
  BY <1>1, <1>2

\* A queue's last message stays its last until it is its first.
LEMMA TailLast ==
  ASSUME NEW s \in Seq(Messages), s # <<>>
  PROVE  /\ Tail(s) \in Seq(Messages) /\ Len(Tail(s)) = Len(s) - 1
         /\ IF Tail(s) = <<>> THEN Head(s) = s[Len(s)]
            ELSE Tail(s)[Len(Tail(s))] = s[Len(s)]
<1>1. /\ Len(s) \in Nat \ {0} /\ Head(s) = s[1]
      /\ Tail(s) \in Seq(Messages) /\ Len(Tail(s)) = Len(s) - 1
  OBVIOUS
<1>2. CASE Tail(s) = <<>>
  <2>1. Len(Tail(s)) = 0
    BY <1>1, <1>2, EmptySeq
  <2>2. Len(s) - 1 = 0
    BY <1>1, <2>1, Zenon
  <2>3. Len(s) = 1
    <3> DEFINE n == Len(s)
    <3>1. n \in Nat /\ n - 1 = 0
      BY <1>1, <2>2, Zenon
    <3> HIDE DEF n
    <3>2. n = 1
      BY <3>1
    <3> QED
      BY <3>2 DEF n
  <2> QED
    BY <1>1, <1>2, <2>3, Zenon
<1>3. CASE Tail(s) # <<>>
  <2>1. Len(Tail(s)) \in 1 .. Len(s) - 1
    BY <1>1, <1>3
  <2>2. \A i \in 1 .. Len(s) - 1 : Tail(s)[i] = s[i + 1]
    OBVIOUS
  <2> QED
    BY <1>1, <1>3, <2>1, <2>2
<1> QED
  BY <1>1, <1>2, <1>3

\* A message that comes into the queue is its last, whatever it has to drop.
LEMMA QueueBounded ==
  ASSUME NEW s \in Seq(Messages), Len(s) <= Depth, NEW m \in Messages
  PROVE  /\ Queued(s, m) \in Seq(Messages) /\ Len(Queued(s, m)) <= Depth
         /\ Queued(s, m) # <<>> /\ Queued(s, m)[Len(Queued(s, m))] = m
<1> USE ManagerAssumption
<1>1. CASE Len(s) < Depth
  <2>1. Queued(s, m) = Append(s, m)
    BY <1>1 DEF Queued
  <2>2. Len(s) + 1 <= Depth
    BY <1>1
  <2> QED
    BY <2>1, <2>2, AppendLast
<1>2. CASE ~(Len(s) < Depth)
  <2>1. Len(s) \in Nat /\ Len(s) = Depth
    BY <1>2
  <2>2. s # <<>>
    BY <2>1
  <2>3. Tail(s) \in Seq(Messages) /\ Len(Tail(s)) = Len(s) - 1
    BY <2>2, TailLast
  <2>4. Queued(s, m) = Append(Tail(s), m)
    BY <1>2 DEF Queued
  <2>5. Len(Append(Tail(s), m)) <= Depth
    BY <2>1, <2>3, AppendLast
  <2> QED
    BY <2>3, <2>4, <2>5, AppendLast
<1> QED
  BY <1>1, <1>2

LEMMA InitIInv == Init => IInv
<1> SUFFICES ASSUME Init PROVE IInv
  OBVIOUS
<1> USE DEF Init
<1>1. inbox \in Seq(Messages) /\ Len(inbox) <= Depth
  BY ManagerAssumption
<1>2. pos \in Angles /\ angle \in Angles /\ ctrl \in [Axes -> Controls]
  BY DEF Zero, Still, Angles, Controls
<1>3. TypeOK
  BY <1>1, <1>2 DEF TypeOK
<1>4. AxisObeysLast
  BY DEF AxisObeysLast, Obeys, NoMessage, Still, Zero
<1>5. NewestIsLast
  BY DEF NewestIsLast
<1> QED
  BY <1>3, <1>4, <1>5 DEF IInv

\* What only moves messages and angles about leaves the agreement alone.
LEMMA AgreementRests ==
  ASSUME AxisObeysLast, UNCHANGED <<last, pos, ctrl>>
  PROVE  AxisObeysLast'
BY DEF AxisObeysLast, Obeys

LEMMA CmdStep == ASSUME IInv, GimbalCmd PROVE IInv'
<1> USE DEF IInv, GimbalCmd
<1> DEFINE m == Head(inbox)
<1>1. m \in Messages /\ Tail(inbox) \in Seq(Messages) /\ Len(Tail(inbox)) <= Depth
  <2>1. inbox \in Seq(Messages) /\ Len(inbox) <= Depth /\ inbox # <<>>
    BY DEF TypeOK
  <2>2. Len(Tail(inbox)) = Len(inbox) - 1 /\ Len(inbox) \in Nat
    BY <2>1
  <2> QED
    BY <2>1, <2>2, ManagerAssumption
<1>2. NewestIsLast'
  (* The last message of the queue is behind its head, or is its head. *)
  <2> SUFFICES ASSUME NEW n \in latest
               PROVE  IF inbox' = <<>> THEN last' = n ELSE inbox'[Len(inbox')] = n
    BY DEF NewestIsLast
  <2>1. /\ inbox \in Seq(Messages) /\ inbox # <<>> /\ inbox' = Tail(inbox)
        /\ inbox[Len(inbox)] = n
    BY DEF TypeOK, NewestIsLast
  <2>2. last' = m
    BY DEF Remember, Repeated
  <2> QED
    BY <2>1, <2>2, TailLast
<1>3. CASE m = last
  <2>1. UNCHANGED <<last, pos, ctrl>>
    BY <1>3 DEF Repeated
  <2>2. TypeOK'
    BY <1>1, <2>1 DEF TypeOK, bridge
  <2> QED
    BY <1>2, <2>1, <2>2, AgreementRests
<1>4. CASE m # last
  <2>1. /\ last' = m
        /\ pos' = [x \in Axes |->
                     IF m[x].type = "absolute" THEN m[x].pos ELSE pos[x]]
        /\ ctrl' = [x \in Axes |-> Control(x, m[x])]
    BY <1>4 DEF Remember, Repeated
  <2>2. pos' \in Angles
    <3>1. \A x \in Axes : m[x].pos \in Int /\ pos[x] \in Int
      BY <1>1, AxisOfMessage DEF TypeOK, Angles
    <3> QED
      BY <2>1, <3>1 DEF Angles
  <2>3. \A x \in Axes :
          /\ ctrl'[x] \in Controls
          /\ m[x].type = "absolute" => ctrl'[x].mode = "position"
          /\ m[x].type # "absolute" =>
               /\ ctrl'[x].mode = "velocity" /\ ctrl'[x].vel = m[x].vel
               /\ ctrl'[x].lo = m[x].lo /\ ctrl'[x].hi = m[x].hi
    <3> TAKE x \in Axes
    <3>1. ctrl'[x] = Control(x, m[x]) /\ ctrl[x] \in Controls
      BY <2>1 DEF TypeOK
    <3>2. CASE m[x].type = "absolute"
      BY <3>1, <3>2 DEF Control, Controls
    <3>3. CASE m[x].type # "absolute"
      BY <3>1, <3>3, <1>1, AxisOfMessage DEF Control, Controls
    <3> QED
      BY <3>2, <3>3
  <2>4. ctrl' \in [Axes -> Controls]
    BY <2>1, <2>3
  <2>5. TypeOK'
    BY <1>1, <2>1, <2>2, <2>4 DEF TypeOK, bridge
  <2>6. AxisObeysLast'
    BY <2>1, <2>3 DEF AxisObeysLast, Obeys
  <2> QED
    BY <1>2, <2>5, <2>6
<1> QED
  BY <1>3, <1>4

\* An axis sweeps in the range of the last message, which is not empty.
LEMMA SweepHasRange ==
  ASSUME IInv, NEW x \in Axes, Sweeping(x)
  PROVE  /\ ctrl[x] \in Controls /\ ctrl[x].lo < ctrl[x].hi
         /\ last[x].type # "absolute"
<1>1. ctrl[x] \in Controls /\ last \in Messages \cup {NoMessage}
  BY DEF IInv, TypeOK
<1>2. last[x].type # "absolute"
  BY DEF IInv, AxisObeysLast, Obeys, Sweeping
<1>3. last[x].lo < last[x].hi
  BY <1>1, <1>2, AxisOfMessage
<1> QED
  BY <1>1, <1>2, <1>3 DEF IInv, AxisObeysLast, Obeys

LEMMA TickStep ==
  ASSUME IInv, NEW d \in Deltas, Tick(d) PROVE IInv'
<1> USE DEF Tick
<1>1. \A x \in Axes : ctrl[x] \in Controls /\ pos[x] \in Int /\ Reach(x, d) \in Int
  BY ManagerAssumption DEF IInv, TypeOK, Controls, Angles, Reach
<1>2. ASSUME NEW x \in Axes, Sweeping(x)
      PROVE  /\ pos'[x] \in Int /\ ctrl'[x] \in Controls
             /\ ctrl'[x].mode = ctrl[x].mode
             /\ ctrl'[x].lo = ctrl[x].lo /\ ctrl'[x].hi = ctrl[x].hi
             /\ ctrl'[x].vel \in {ctrl[x].vel, - ctrl[x].vel}
  <2>1. pos'[x] = Moved(Reach(x, d), ctrl[x]) /\ ctrl'[x] = Turned(Reach(x, d), ctrl[x])
    BY <1>2
  <2>2. Moved(Reach(x, d), ctrl[x]) \in ctrl[x].lo .. ctrl[x].hi
    BY <1>1, <1>2, SweepHasRange, MovedInRange
  <2>3. ctrl[x].lo \in Int /\ ctrl[x].hi \in Int
    BY <1>1 DEF Controls
  <2> QED
    BY <1>1, <2>1, <2>2, <2>3, TurnedKeepsRange
<1>3. ASSUME NEW x \in Axes, ~Sweeping(x)
      PROVE  pos'[x] = pos[x] /\ ctrl'[x] = ctrl[x]
  BY <1>3
<1>4. pos' \in Angles
  BY <1>1, <1>2, <1>3 DEF Angles
<1>5. ctrl' \in [Axes -> Controls]
  BY <1>1, <1>2, <1>3
<1>6. TypeOK'
  BY <1>4, <1>5 DEF IInv, TypeOK
<1>7. AxisObeysLast'
  <2> SUFFICES ASSUME NEW x \in Axes
               PROVE  IF last[x].type = "absolute"
                      THEN ctrl'[x].mode = "position" /\ pos'[x] = last[x].pos
                      ELSE /\ ctrl'[x].mode = "velocity"
                           /\ ctrl'[x].lo = last[x].lo /\ ctrl'[x].hi = last[x].hi
                           /\ ctrl'[x].vel \in {last[x].vel, - last[x].vel}
    BY DEF AxisObeysLast, Obeys
  <2>1. CASE Sweeping(x)
    <3>1. last[x].type # "absolute"
      BY <2>1, SweepHasRange
    <3>2. last[x].vel \in Int
      BY AxisOfMessage DEF IInv, TypeOK
    <3> QED
      BY <1>2, <2>1, <3>1, <3>2 DEF IInv, AxisObeysLast, Obeys
  <2>2. CASE ~Sweeping(x)
    <3>1. last[x].type = "absolute"
      BY <2>2 DEF IInv, AxisObeysLast, Obeys, Sweeping
    <3> QED
      BY <1>3, <2>2, <3>1 DEF IInv, AxisObeysLast, Obeys
  <2> QED
    BY <2>1, <2>2
<1>8. NewestIsLast'
  BY DEF IInv, NewestIsLast
<1> QED
  BY <1>6, <1>7, <1>8 DEF IInv

LEMMA StepIInv == IInv /\ [Next]_vars => IInv'
<1> SUFFICES ASSUME IInv, [Next]_vars PROVE IInv'
  OBVIOUS
<1> USE DEF IInv
<1>1. ASSUME NEW m \in Messages, PublishCmd(m) PROVE IInv'
  <2>1. UNCHANGED <<last, pos, ctrl, started, joints, angle, calm, up>>
    BY <1>1 DEF PublishCmd, manager, bridge
  <2>2. inbox' \in Seq(Messages) /\ Len(inbox') <= Depth
    BY <1>1, QueueBounded DEF PublishCmd, Publish, TypeOK
  <2>3. latest' = latest \/ latest' = {m}
    BY <1>1 DEF PublishCmd, Publish
  <2>4. TypeOK'
    BY <2>1, <2>2, <2>3 DEF TypeOK
  <2>5. NewestIsLast'
    <3>1. CASE up
      <4>1. inbox' = Queued(inbox, m) /\ latest' = {m}
        BY <1>1, <3>1 DEF PublishCmd, Publish
      <4>2. inbox' # <<>> /\ inbox'[Len(inbox')] = m
        BY <4>1, QueueBounded DEF TypeOK
      <4> QED
        BY <2>1, <3>1, <4>1, <4>2 DEF NewestIsLast
    <3>2. CASE ~up
      <4>1. inbox' = inbox /\ latest' = latest
        BY <1>1, <3>2 DEF PublishCmd, Publish
      <4> QED
        BY <2>1, <4>1 DEF NewestIsLast
    <3> QED
      BY <3>1, <3>2
  <2> QED
    BY <2>1, <2>4, <2>5, AgreementRests
<1>2. CASE GimbalCmd
  BY <1>2, CmdStep
<1>3. CASE FirstTick \/ CmdGimbalJoint \/ Settle \/ UNCHANGED vars
  <2>1. UNCHANGED <<last, pos, ctrl, inbox, latest>> /\ started' \in BOOLEAN
    BY <1>3 DEF FirstTick, CmdGimbalJoint, Settle, vars, manager, TypeOK
  <2>2. calm' \in BOOLEAN /\ up' \in BOOLEAN
    BY <1>3 DEF FirstTick, CmdGimbalJoint, Settle, vars, TypeOK
  <2>3. angle' \in Angles /\ \A a \in joints' : a \in Angles /\ joints' = {a}
    BY <1>3 DEF FirstTick, CmdGimbalJoint, Settle, vars, bridge, TypeOK
  <2>4. TypeOK'
    BY <2>1, <2>2, <2>3 DEF TypeOK
  <2>5. up' = up
    BY <1>3 DEF FirstTick, CmdGimbalJoint, Settle, vars
  <2>6. NewestIsLast'
    BY <2>1, <2>5 DEF NewestIsLast
  <2> QED
    BY <2>1, <2>4, <2>6, AgreementRests
<1>4. ASSUME NEW d \in Deltas, Tick(d) PROVE IInv'
  BY <1>4, TickStep
<1>5. CASE Crash
  <2>1. UNCHANGED <<last, pos, ctrl, started, joints, angle, calm>>
    BY <1>5 DEF Crash, manager, bridge
  <2>2. inbox' \in Seq(Messages) /\ Len(inbox') <= Depth /\ latest' = {} /\ ~up'
    BY <1>5, ManagerAssumption DEF Crash
  <2>3. TypeOK'
    BY <1>5, <2>1, <2>2 DEF TypeOK, Crash
  <2>4. NewestIsLast'
    BY <2>2 DEF NewestIsLast
  <2> QED
    BY <2>1, <2>3, <2>4, AgreementRests
<1>6. CASE Respawn
  <2>1. pos' \in Angles /\ ctrl' \in [Axes -> Controls]
    BY <1>6 DEF Respawn, Zero, Still, Angles, Controls
  <2>2. TypeOK'
    BY <1>6, <2>1 DEF Respawn, TypeOK, bridge
  <2>3. AxisObeysLast'
    BY <1>6 DEF Respawn, AxisObeysLast, Obeys, NoMessage, Still, Zero
  <2>4. NewestIsLast'
    BY <1>6 DEF Respawn, NewestIsLast
  <2> QED
    BY <2>2, <2>3, <2>4
<1> QED
  BY <1>1, <1>2, <1>3, <1>4, <1>5, <1>6 DEF Next

----------------------------------------------------------------------------
(* What the manager ignores is what it already does.                       *)
THEOREM Inductive == Spec => []IInv
<1>1. Init => IInv
  BY InitIInv
<1>2. IInv /\ [Next]_vars => IInv'
  BY StepIInv
<1> QED
  BY <1>1, <1>2, PTL DEF Spec

\* Types of the manager's state, its queue and the bridge's command.
THEOREM TypeCorrect == Spec => []TypeOK
<1>1. IInv => TypeOK
  BY DEF IInv
<1> QED
  BY <1>1, Inductive, PTL

\* Lines 49-54: an axis always does what the last message said.
THEOREM LastIsObeyed == Spec => []AxisObeysLast
<1>1. IInv => AxisObeysLast
  BY DEF IInv
<1> QED
  BY <1>1, Inductive, PTL

\* Lines 28-30, 45-83: with its queue served the manager does what the newest
\* decision says, whatever the queue dropped and the filter ignored.
THEOREM NewestDecisionIsObeyed == Spec => []NewestIsObeyed
<1>1. IInv => NewestIsObeyed
  BY DEF IInv, AxisObeysLast, NewestIsLast, NewestIsObeyed
<1> QED
  BY <1>1, Inductive, PTL

\* Lines 96-116: only a message takes a sweep out of its range.
THEOREM SweepsStayInside == Spec => SweepStaysInRange
<1>1. ASSUME IInv, Next, last' = last, up',
             NEW x \in Axes, Sweeping(x), pos[x] \in ctrl[x].lo .. ctrl[x].hi
      PROVE  pos'[x] \in ctrl[x].lo .. ctrl[x].hi
  <2>1. CASE pos' = pos
    BY <1>1, <2>1
  <2>2. ASSUME NEW d \in Deltas, Tick(d)
        PROVE  pos'[x] \in ctrl[x].lo .. ctrl[x].hi
    <3>1. Reach(x, d) \in Int
      BY <1>1, ManagerAssumption DEF IInv, TypeOK, Controls, Angles, Reach
    <3>2. Moved(Reach(x, d), ctrl[x]) \in ctrl[x].lo .. ctrl[x].hi
      BY <1>1, <3>1, SweepHasRange, MovedInRange
    <3> QED
      BY <1>1, <2>2, <3>2 DEF Tick
  <2>3. CASE Respawn
    <3>1. last[x].type = "absolute"
      BY <1>1, <2>3 DEF Respawn, NoMessage
    <3> QED
      BY <1>1, <3>1, SweepHasRange
  <2>4. CASE GimbalCmd
    <3>1. pos' = pos
      BY <1>1, <2>4 DEF GimbalCmd, Remember, Repeated
    <3> QED
      BY <2>1, <3>1
  <2>5. CASE \/ \E m \in Messages : PublishCmd(m)
             \/ FirstTick \/ CmdGimbalJoint \/ Crash \/ Settle
    <3>1. pos' = pos
      BY <2>5 DEF PublishCmd, FirstTick, CmdGimbalJoint, Crash, Settle, manager
    <3> QED
      BY <2>1, <3>1
  <2> QED
    BY <1>1, <2>2, <2>3, <2>4, <2>5 DEF Next
<1>2. IInv /\ [Next]_vars =>
        [\A x \in Axes :
           Sweeping(x) /\ pos[x] \in ctrl[x].lo .. ctrl[x].hi /\ last' = last /\ up'
             => pos'[x] \in ctrl[x].lo .. ctrl[x].hi]_vars
  BY <1>1
<1> QED
  BY <1>2, Inductive, PTL DEF Spec, SweepStaysInRange

\* A way and its speed have the same direction.
LEMMA WayAhead ==
  ASSUME NEW v \in Int, NEW d \in Nat \ {0}
  PROVE  /\ v * d \in Int
         /\ v > 0 => v * d > 0
         /\ v <= 0 => v * d <= 0
  OBVIOUS

\* Lines 106-115: inside its range a sweep turns round ahead of it only.
THEOREM SweepsTurnAhead == Spec => SweepTurnsAhead
<1>1. ASSUME IInv, Next, last' = last, up', NEW x \in Axes, Sweeping(x),
             pos[x] \in ctrl[x].lo .. ctrl[x].hi, ctrl'[x] # ctrl[x]
      PROVE  pos'[x] = IF ctrl[x].vel > 0 THEN ctrl[x].hi ELSE ctrl[x].lo
  <2>1. ASSUME NEW d \in Deltas, Tick(d)
        PROVE  pos'[x] = IF ctrl[x].vel > 0 THEN ctrl[x].hi ELSE ctrl[x].lo
    <3> DEFINE p == Reach(x, d)
               c == ctrl[x]
    <3>1. /\ d \in Nat \ {0} /\ pos[x] \in Int
          /\ c.vel \in Int /\ c.lo \in Int /\ c.hi \in Int
      BY <1>1, ManagerAssumption DEF IInv, TypeOK, Controls, Angles
    <3>2. ctrl'[x] = Turned(p, c) /\ pos'[x] = Moved(p, c)
      BY <1>1, <2>1 DEF Tick
    <3>3. ~Continuous(c) /\ (p > c.hi \/ p < c.lo)
      BY <1>1, <3>2 DEF Turned
    <3>4. p = pos[x] + c.vel * d
      BY DEF Reach
    <3>5. c.lo < c.hi
      BY <1>1, SweepHasRange
    <3>6. /\ c.vel * d \in Int
          /\ c.vel > 0 => c.vel * d > 0
          /\ c.vel <= 0 => c.vel * d <= 0
      BY <3>1, WayAhead
    <3>7. IF c.vel > 0 THEN p > c.hi ELSE p < c.lo /\ ~(p > c.hi)
      BY <1>1, <3>1, <3>3, <3>4, <3>5, <3>6
    <3> QED
      BY <3>2, <3>3, <3>7 DEF Moved
  <2>2. CASE Respawn
    <3>1. last[x].type = "absolute"
      BY <1>1, <2>2 DEF Respawn, NoMessage
    <3> QED
      BY <1>1, <3>1, SweepHasRange
  <2>3. CASE GimbalCmd
    BY <1>1, <2>3 DEF GimbalCmd, Remember, Repeated
  <2>4. CASE \/ \E m \in Messages : PublishCmd(m)
             \/ FirstTick \/ CmdGimbalJoint \/ Crash \/ Settle
    BY <1>1, <2>4 DEF PublishCmd, FirstTick, CmdGimbalJoint, Crash, Settle, manager
  <2> QED
    BY <1>1, <2>1, <2>2, <2>3, <2>4 DEF Next
<1>2. IInv /\ [Next]_vars =>
        [\A x \in Axes :
           (/\ Sweeping(x) /\ pos[x] \in ctrl[x].lo .. ctrl[x].hi
            /\ last' = last /\ up' /\ ctrl'[x] # ctrl[x])
             => pos'[x] = IF ctrl[x].vel > 0 THEN ctrl[x].hi ELSE ctrl[x].lo]_vars
  BY <1>1
<1> QED
  BY <1>2, Inductive, PTL DEF Spec, SweepTurnsAhead
=============================================================================
