-------------------------- MODULE SentryTreeProofs --------------------------
(* Safety of the decision tree, for any hit points and any amounts.        *)
EXTENDS SentryTree, TLAPS

----------------------------------------------------------------------------
(* The inductive invariant.                                                *)

\* A branch left running was not passed by, and the stop is no decision.
RunInv ==
  /\ running # 0 => pc <= running
  /\ stage # "none" => pc = 0 /\ running = 0

\* How long it can still stand: a chain of preemptions goes up the list.
StillInv ==
  /\ spinning => still = 0
  /\ running # 0 /\ ~spinning => still <= 12 - running

\* Where the whole ticks of weak readings have brought the retreat.
WeakInv ==
  /\ pc > Retreat => weak = -1
  /\ weak >= 1 => running \in {0, Retreat}
  /\ weak = 2 => running = Retreat \/ goal = "supply"
  /\ weak = 3 => goal = "supply"

\* A stop waits for the next look at the game, with the attack forgotten.
StopInv ==
  /\ stopped => pc = 0
  /\ stopped /\ stage = "none" => ~attack.started

\* Below the pursuit the attack is over, or an enemy has just been seen.
AttackInv == pc > Pursue /\ attack.started /\ ~CanLeave => sighted

\* The largest amount is the last, and the next is no smaller.
AmountInv ==
  /\ asked = exchange.last
  /\ exchange.last <= Amount(exchange.index)
  /\ ~known => exchange = NoExchange

IInv == TypeOK /\ RunInv /\ StillInv /\ WeakInv /\ StopInv /\ AttackInv /\ AmountInv

----------------------------------------------------------------------------
(* The operators.                                                          *)

\* An amount is within its bounds, and the next one is no smaller.
LEMMA AmountFacts ==
  ASSUME NEW i \in Nat
  PROVE  /\ Amount(i) \in 0 .. Max
         /\ Amount(i) <= Amount(i + 1)
         /\ i >= MaxVisits => Amount(i) = Max
<1>1. i * Step \in Nat /\ (i + 1) * Step = i * Step + Step
  BY SentryAssumption
<1>2. i >= MaxVisits => i * Step >= MaxVisits * Step
  BY SentryAssumption
<1>3. MaxVisits * Step \in Nat
  BY SentryAssumption
<1>4. Amount(i) \in 0 .. Max /\ Amount(i) <= Amount(i + 1)
  BY <1>1, SentryAssumption DEF Amount
<1>5. i >= MaxVisits => Amount(i) = Max
  BY <1>1, <1>2, <1>3, SentryAssumption DEF Amount
<1> QED
  BY <1>4, <1>5

\* What a visit to the zone makes of the exchange's memory.
LEMMA VisitFacts ==
  ASSUME exchange \in [done : BOOLEAN, index : 0 .. MaxVisits, last : 0 .. Max],
         exchange.last <= Amount(exchange.index)
  PROVE  /\ VisitAmount \in [done : BOOLEAN, index : 0 .. MaxVisits, last : 0 .. Max]
         /\ VisitAmount.last >= exchange.last
         /\ VisitAmount.last <= Amount(VisitAmount.index)
<1>1. exchange.index \in Nat /\ exchange.index <= MaxVisits
  BY SentryAssumption
<1>2. /\ Amount(exchange.index) \in 0 .. Max
      /\ Amount(exchange.index) <= Amount(exchange.index + 1)
  BY <1>1, AmountFacts
<1>3. CASE exchange.done
  BY <1>3 DEF VisitAmount
<1>4. CASE ~exchange.done
  <2> DEFINE next == IF exchange.index < MaxVisits THEN exchange.index + 1
                                                   ELSE MaxVisits
  <2>1. VisitAmount = [done |-> TRUE, last |-> Amount(exchange.index),
                       index |-> next]
    BY <1>4 DEF VisitAmount
  <2>2. next \in 0 .. MaxVisits
    BY <1>1, SentryAssumption
  <2>3. Amount(exchange.index) <= Amount(next)
    <3>1. CASE exchange.index < MaxVisits
      BY <3>1, <1>2
    <3>2. CASE ~(exchange.index < MaxVisits)
      <4>1. exchange.index = MaxVisits
        BY <3>2, <1>1, SentryAssumption
      <4> QED
        BY <3>2, <4>1, <1>2
    <3> QED
      BY <3>1, <3>2
  <2> HIDE DEF next
  <2> QED
    BY <2>1, <2>2, <2>3, <1>2
<1> QED
  BY <1>3, <1>4

----------------------------------------------------------------------------
(* How a branch moves the tree, whatever it is about.                      *)

\* Respawn succeeds at once and whatever ran is halted.
Respawned ==
  /\ pc = Respawn
  /\ running' = 0 /\ spinning' = (spinning /\ running = 0)
  /\ pc' = 0 /\ weak' = 0 /\ still' = 0
  /\ UNCHANGED goal

\* The branch failed; at the retreat, because a reading overruled it.
Passed ==
  /\ pc # Rest
  /\ pc' = pc + 1
  /\ weak' \in {-1, weak} /\ (pc = Retreat => weak' = -1)
  /\ UNCHANGED <<running, goal, spinning, still>>

\* The branch is left running; before the retreat, a reading overruled it.
Started ==
  /\ pc # Respawn
  /\ running' = pc /\ spinning' = SpinAfterStart
  /\ pc' = 0
  /\ \/ weak' = 0
     \/ pc >= Retreat /\ weak' = IF weak < 3 THEN weak + 1 ELSE 3
  /\ still' = IF spinning' THEN 0 ELSE still + 1
  /\ UNCHANGED goal

Moves ==
  /\ pc \in Branches /\ running # pc
  /\ UNCHANGED <<stage, known, stopped, sighted>>
  /\ Passed \/ Started \/ Respawned

LEMMA DecideMoves ==
  ASSUME TypeOK, Decide
  PROVE  Moves
<1> USE SentryAssumption
    DEF Branches, Respawn, Heal, Exchange, Retreat, Rearm, Engage, Pursue,
        Evade, Defend, Withdraw, Patrol, Rest, Passed, Started, Fail,
        LeaveRunning, EndTick
<1>1. CASE TryRespawn
  <2>1. Respawned \/ Passed
    BY <1>1 DEF TryRespawn, Respawned
  <2>2. running # pc
    BY <1>1 DEF TryRespawn, TypeOK
  <2> QED
    BY <1>1, <2>1, <2>2 DEF TryRespawn, Moves
<1>2. CASE TryHeal
  <2>1. Passed \/ Started
    BY <1>2 DEF TryHeal
  <2> QED
    BY <1>2, <2>1 DEF TryHeal, Moves
<1>3. CASE TryExchange
  <2>1. Passed \/ Started
    BY <1>3 DEF TryExchange
  <2> QED
    BY <1>3, <2>1 DEF TryExchange, Moves
<1>4. CASE TryRetreat
  <2>1. PICK h \in Hps, zone \in BOOLEAN :
          IF ~AtLeast(121, h) /\ ~zone THEN LeaveRunning(Retreat, FALSE)
                                       ELSE Fail(zone \/ h > 120)
    BY <1>4 DEF TryRetreat
  <2>2. CASE ~AtLeast(121, h) /\ ~zone
    <3>1. Started
      BY <1>4, <2>1, <2>2 DEF TryRetreat
    <3> QED
      BY <1>4, <3>1 DEF TryRetreat, Moves
  <2>3. CASE ~(~AtLeast(121, h) /\ ~zone)
    <3>1. zone \/ h > 120
      BY <2>3 DEF AtLeast
    <3>2. Passed
      BY <1>4, <2>1, <2>3, <3>1 DEF TryRetreat
    <3> QED
      BY <1>4, <3>2 DEF TryRetreat, Moves
  <2> QED
    BY <2>2, <2>3
<1>5. CASE TryRearm
  <2>1. Passed \/ Started
    BY <1>5 DEF TryRearm
  <2> QED
    BY <1>5, <2>1 DEF TryRearm, Moves
<1>6. CASE TryEngage
  <2>1. Passed \/ Started
    BY <1>6 DEF TryEngage
  <2> QED
    BY <1>6, <2>1 DEF TryEngage, Moves
<1>7. CASE TryPursue
  <2>1. Passed \/ Started
    BY <1>7 DEF TryPursue
  <2> QED
    BY <1>7, <2>1 DEF TryPursue, Moves
<1>8. CASE TryEvade
  <2>1. Passed \/ Started
    BY <1>8 DEF TryEvade
  <2> QED
    BY <1>8, <2>1 DEF TryEvade, Moves
<1>9. CASE TryDefend
  <2>1. Passed \/ Started
    BY <1>9 DEF TryDefend
  <2> QED
    BY <1>9, <2>1 DEF TryDefend, Moves
<1>10. CASE TryWithdraw
  <2>1. Passed \/ Started
    BY <1>10 DEF TryWithdraw
  <2> QED
    BY <1>10, <2>1 DEF TryWithdraw, Moves
<1>11. CASE TryPatrol
  <2>1. Passed \/ Started
    BY <1>11 DEF TryPatrol
  <2> QED
    BY <1>11, <2>1 DEF TryPatrol, Moves
<1>12. CASE TryRest
  <2>1. Passed \/ Started
    BY <1>12 DEF TryRest
  <2> QED
    BY <1>12, <2>1 DEF TryRest, Moves
<1> QED
  BY <1>1, <1>2, <1>3, <1>4, <1>5, <1>6, <1>7, <1>8, <1>9, <1>10, <1>11, <1>12
     DEF Decide

\* What a branch does to the attack.
AttackMove == attack' = attack \/ attack' = NoAttack \/ attack' = StartAttack \/ attack' = NoteLeave

LEMMA DecideAttack ==
  ASSUME Decide
  PROVE  /\ AttackMove
         /\ pc > Pursue => attack' = attack \/ attack' = NoteLeave
         /\ pc = Pursue => attack' = attack
<1> DEFINE Low == pc \in {Respawn, Heal, Exchange, Retreat, Rearm, Engage}
<1>0. Low => pc \in 1 .. 6
  BY DEF Respawn, Heal, Exchange, Retreat, Rearm, Engage
<1> HIDE DEF Low
<1> USE DEF AttackMove
<1>1. CASE TryRespawn
  <2>1. AttackMove /\ Low
    BY <1>1 DEF TryRespawn, Low
  <2> QED
    BY <1>0, <2>1 DEF Pursue
<1>2. CASE TryHeal
  <2>1. AttackMove /\ Low
    BY <1>2 DEF TryHeal, Low
  <2> QED
    BY <1>0, <2>1 DEF Pursue
<1>3. CASE TryExchange
  <2>1. AttackMove /\ Low
    BY <1>3 DEF TryExchange, Low
  <2> QED
    BY <1>0, <2>1 DEF Pursue
<1>4. CASE TryRetreat
  <2>1. AttackMove /\ Low
    BY <1>4 DEF TryRetreat, Low
  <2> QED
    BY <1>0, <2>1 DEF Pursue
<1>5. CASE TryRearm
  <2>1. AttackMove /\ Low
    BY <1>5 DEF TryRearm, Low
  <2> QED
    BY <1>0, <2>1 DEF Pursue
<1>6. CASE TryEngage
  <2>1. AttackMove /\ Low
    BY <1>6 DEF TryEngage, Low
  <2> QED
    BY <1>0, <2>1 DEF Pursue
<1>7. CASE TryPursue
  <2>1. attack' = attack
    BY <1>7 DEF TryPursue
  <2> QED
    BY <2>1
<1>8. CASE TryEvade
  <2>1. attack' = attack
    BY <1>8 DEF TryEvade
  <2> QED
    BY <2>1
<1>9. CASE TryDefend
  <2>1. attack' = NoteLeave /\ pc = Defend
    BY <1>9 DEF TryDefend
  <2> QED
    BY <2>1 DEF Defend, Pursue
<1>10. CASE TryWithdraw
  <2>1. attack' = NoteLeave /\ pc = Withdraw
    BY <1>10 DEF TryWithdraw
  <2> QED
    BY <2>1 DEF Withdraw, Pursue
<1>11. CASE TryPatrol
  <2>1. attack' = attack
    BY <1>11 DEF TryPatrol
  <2> QED
    BY <2>1
<1>12. CASE TryRest
  <2>1. attack' = attack
    BY <1>12 DEF TryRest
  <2> QED
    BY <2>1
<1> QED
  BY <1>1, <1>2, <1>3, <1>4, <1>5, <1>6, <1>7, <1>8, <1>9, <1>10, <1>11, <1>12 DEF Decide

\* What a branch does to the command and to the amounts.
Ordered ==
  /\ known /\ exchange' = VisitAmount
  /\ out' = [respawn |-> FALSE, allowance |-> VisitAmount.last, posture |-> Move]
  /\ asked' = IF asked < VisitAmount.last THEN VisitAmount.last ELSE asked

Commanded ==
  \/ out' = out
  \/ out' \in {Posture(Move), Posture(Guard), Posture(Assault)}
  \/ out' = [respawn |-> TRUE, allowance |-> 0, posture |-> Move]

NotOrdered ==
  /\ exchange' = exchange \/ (known /\ exchange' = LeaveZone)
  /\ asked' = asked
  /\ Commanded

LEMMA DecideAmount ==
  ASSUME Decide
  PROVE  Ordered \/ NotOrdered
<1> USE DEF Ordered, NotOrdered, Commanded
<1>1. CASE TryRespawn
  BY <1>1 DEF TryRespawn
<1>2. CASE TryHeal
  BY <1>2 DEF TryHeal
<1>3. CASE TryExchange
  BY <1>3 DEF TryExchange
<1>4. CASE TryRetreat
  BY <1>4 DEF TryRetreat
<1>5. CASE TryRearm
  BY <1>5 DEF TryRearm
<1>6. CASE TryEngage
  BY <1>6 DEF TryEngage
<1>7. CASE TryPursue
  BY <1>7 DEF TryPursue
<1>8. CASE TryEvade
  BY <1>8 DEF TryEvade
<1>9. CASE TryDefend
  BY <1>9 DEF TryDefend
<1>10. CASE TryWithdraw
  BY <1>10 DEF TryWithdraw
<1>11. CASE TryPatrol
  BY <1>11 DEF TryPatrol
<1>12. CASE TryRest
  BY <1>12 DEF TryRest
<1> QED
  BY <1>1, <1>2, <1>3, <1>4, <1>5, <1>6, <1>7, <1>8, <1>9, <1>10, <1>11, <1>12 DEF Decide

----------------------------------------------------------------------------
(* Where the tick is, the counters and the goal.                           *)

MoveType ==
  /\ pc \in 0 .. 12 /\ running \in {0} \cup 2 .. 12
  /\ stage \in {"none", "spin", "twist"}
  /\ goal \in {"none", "supply", "front"}
  /\ spinning \in BOOLEAN
  /\ weak \in -1 .. 3 /\ still \in 0 .. 11

MoveInv == MoveType /\ RunInv /\ StillInv /\ WeakInv

LEMMA MoveStep ==
  ASSUME TypeOK, MoveInv, [Next]_vars
  PROVE  MoveInv'
<1> USE DEF MoveInv, MoveType, RunInv, StillInv, WeakInv, Retreat
<1>1. CASE Decide
  <2>1. Moves
    BY <1>1, DecideMoves
  <2>2. CASE Passed
    BY <2>1, <2>2 DEF Moves, Passed, Branches, Respawn, Rest
  <2>3. CASE Started
    <3>1. pc \in 2 .. 12 /\ running # pc /\ stage' = stage /\ stage = "none"
      BY <2>1, <2>3 DEF Moves, Started, Branches, Respawn, Rest
    <3>2. CASE running = 0
      <4>1. spinning' = TRUE /\ still' = 0
        BY <2>3, <3>2 DEF Started, SpinAfterStart
      <4> QED
        BY <2>3, <3>1, <3>2, <4>1 DEF Started
    <3>3. CASE running # 0
      <4>1. spinning' = FALSE /\ still' = still + 1
        BY <2>3, <3>3 DEF Started, SpinAfterStart
      <4>2. still <= 12 - running /\ pc < running
        BY <3>1, <3>3
      <4>3. still' <= 12 - pc /\ still' \in 0 .. 11
        BY <3>1, <4>1, <4>2
      <4>4. /\ running' = pc /\ pc' = 0 /\ goal' = goal
            /\ weak' = 0 \/ (pc >= Retreat /\ weak' = IF weak < 3 THEN weak + 1 ELSE 3)
        BY <2>3 DEF Started
      <4>5. WeakInv' /\ weak' \in -1 .. 3
        BY <3>1, <3>3, <4>2, <4>4
      <4>6. RunInv' /\ StillInv'
        BY <3>1, <4>1, <4>3, <4>4
      <4>7. goal' \in {"none", "supply", "front"} /\ stage' \in {"none", "spin", "twist"}
        BY <3>1, <4>4
      <4>8. pc' \in 0 .. 12 /\ running' \in {0} \cup 2 .. 12 /\ still' \in 0 .. 11
        BY <3>1, <4>3, <4>4
      <4>9. spinning' \in BOOLEAN
        BY <4>1
      <4> QED
        BY <4>5, <4>6, <4>7, <4>8, <4>9
    <3> QED
      BY <3>2, <3>3
  <2>4. CASE Respawned
    <3>1. spinning' \in BOOLEAN
      BY <2>4 DEF Respawned
    <3>2. /\ pc = 1 /\ pc' = 0 /\ running' = 0 /\ weak' = 0 /\ still' = 0
          /\ goal' = goal /\ stage' = stage /\ stage = "none"
      BY <2>1, <2>4 DEF Moves, Respawned, Respawn
    <3>3. RunInv' /\ StillInv' /\ WeakInv'
      BY <3>2
    <3>4. goal' \in {"none", "supply", "front"} /\ stage' \in {"none", "spin", "twist"}
      BY <3>2
    <3>5. pc' \in 0 .. 12 /\ running' \in {0} \cup 2 .. 12 /\ still' \in 0 .. 11
          /\ weak' \in -1 .. 3
      BY <3>2
    <3> QED
      BY <3>1, <3>3, <3>4, <3>5
  <2> QED
    BY <2>1, <2>2, <2>3, <2>4 DEF Moves
<1>2. CASE CheckGame
  <2>1. CASE GameOn
    BY <2>1 DEF GameOn, Respawn
  <2>2. CASE GameOff
    <3>1. /\ pc' = 0 /\ running' = 0 /\ weak' = 0 /\ still' = 0
          /\ goal' = goal /\ stage' = "spin" /\ spinning' = FALSE
      BY <2>2 DEF GameOff
    <3>2. RunInv' /\ StillInv' /\ WeakInv'
      BY <3>1
    <3>3. /\ goal' \in {"none", "supply", "front"} /\ stage' \in {"none", "spin", "twist"}
          /\ spinning' \in BOOLEAN
      BY <3>1
    <3>4. /\ pc' \in 0 .. 12 /\ running' \in {0} \cup 2 .. 12
          /\ still' \in 0 .. 11 /\ weak' \in -1 .. 3
      BY <3>1
    <3> QED
      BY <3>2, <3>3, <3>4
  <2>3. CASE StopMoving
    BY <2>3 DEF StopMoving, histories
  <2>4. CASE ForgetAttack
    BY <2>4 DEF ForgetAttack, histories
  <2> QED
    BY <1>2, <2>1, <2>2, <2>3, <2>4 DEF CheckGame
<1>3. CASE Abort
  <2>1. spinning' \in BOOLEAN
    BY <1>3 DEF Abort
  <2>2. /\ pc' = 0 /\ running' = 0 /\ weak' = 0 /\ still' = 0
        /\ goal' = goal /\ stage' = stage /\ stage = "none"
    BY <1>3 DEF Abort, Evade
  <2>3. RunInv' /\ StillInv' /\ WeakInv'
    BY <2>2
  <2>4. goal' \in {"none", "supply", "front"} /\ stage' \in {"none", "spin", "twist"}
    BY <2>2
  <2>5. /\ pc' \in 0 .. 12 /\ running' \in {0} \cup 2 .. 12
        /\ still' \in 0 .. 11 /\ weak' \in -1 .. 3
    BY <2>2
  <2> QED
    BY <2>1, <2>3, <2>4, <2>5
<1>4. CASE Callback
  BY <1>4 DEF Callback, StatusArrives, EnemySeen, TimePasses, histories
<1>5. ASSUME NEW b \in Branches, Resume(b) PROVE MoveInv'
  <2>1. /\ b \in 2 .. 12 /\ pc = b /\ running = b /\ running' = 0
        /\ pc' = 0 /\ stage' = stage /\ stage = "none" /\ spinning' = spinning
    BY <1>5 DEF Resume, EndTick, Branches, Respawn, Rest
  <2>2. goal' \in {goal, "supply", "front"} /\ (b = Retreat => goal' = "supply")
    BY <1>5 DEF Resume, GoalOf, Rearm, Withdraw, Engage, Pursue, Evade, Patrol, Rest
  <2>3. weak' = IF weak < 3 THEN weak + 1 ELSE 3
    BY <1>5 DEF Resume, EndTick
  <2>4. still' = IF spinning THEN 0 ELSE still + 1
    BY <1>5, <2>1 DEF Resume, EndTick
  <2>5. still' \in 0 .. 11 /\ (spinning => still' = 0)
    BY <2>1, <2>4
  <2>6. weak >= 1 => b = Retreat
    BY <2>1
  <2> QED
    BY <2>1, <2>2, <2>3, <2>5, <2>6
<1>6. CASE UNCHANGED vars
  BY <1>6 DEF vars
<1> QED
  BY <1>1, <1>2, <1>3, <1>4, <1>5, <1>6 DEF Next

----------------------------------------------------------------------------
(* The attack.                                                             *)

AttackType == attack \in Attacks /\ stopped \in BOOLEAN /\ sighted \in BOOLEAN

LEMMA AttackMoveType ==
  ASSUME attack \in Attacks, AttackMove
  PROVE  attack' \in Attacks
<1>1. NoAttack \in Attacks
  BY DEF NoAttack, Attacks
<1>2. StartAttack \in Attacks
  BY DEF StartAttack, Attacks
<1>3. NoteLeave \in Attacks
  BY DEF NoteLeave, Attacks
<1> QED
  BY <1>1, <1>2, <1>3 DEF AttackMove

\* Noting that the attack may end neither opens nor ends it.
LEMMA NoteLeaveFacts ==
  ASSUME attack \in Attacks, attack' = attack \/ attack' = NoteLeave
  PROVE  attack'.started = attack.started /\ (CanLeave' <=> CanLeave)
BY DEF NoteLeave, CanLeave, Attacks

LEMMA AttackStep ==
  ASSUME TypeOK, MoveInv, StopInv, AttackInv, [Next]_vars
  PROVE  AttackType' /\ StopInv' /\ AttackInv'
<1>0. attack \in Attacks /\ stopped \in BOOLEAN /\ sighted \in BOOLEAN /\ pc \in 0 .. 12
  BY DEF TypeOK, Rest
<1> USE DEF AttackType, StopInv
<1>1. CASE Decide
  <2>1. Moves
    BY <1>1, DecideMoves
  <2>2. AttackMove /\ attack' \in Attacks
    BY <1>0, <1>1, DecideAttack, AttackMoveType
  <2>3. pc # 0 /\ stopped' = stopped /\ sighted' = sighted
    BY <2>1 DEF Moves, Branches, Respawn, Rest
  <2>4. StopInv'
    BY <2>3
  <2>5. AttackInv'
    <3>1. pc' = 0 \/ pc' = pc + 1
      BY <2>1 DEF Moves, Passed, Started, Respawned
    <3>2. CASE pc > Pursue
      <4>1. attack'.started = attack.started /\ (CanLeave' <=> CanLeave)
        BY <1>0, <1>1, <3>2, DecideAttack, NoteLeaveFacts
      <4> QED
        BY <2>3, <3>2, <4>1 DEF AttackInv
    <3>3. CASE pc = Pursue
      <4>1. TryPursue
        BY <1>1, <3>3 DEF Decide, TryRespawn, TryHeal, TryExchange, TryRetreat,
           TryRearm, TryEngage, TryEvade, TryDefend, TryWithdraw, TryPatrol,
           TryRest, Respawn, Heal, Exchange, Retreat, Rearm, Engage, Pursue,
           Evade, Defend, Withdraw, Patrol, Rest
      <4>2. attack' = attack
        BY <4>1 DEF TryPursue
      <4>3. CASE KeepAttack
        <5>1. pc' = 0
          BY <4>1, <4>3 DEF TryPursue, LeaveRunning, EndTick
        <5> QED
          BY <5>1 DEF AttackInv, Pursue
      <4>4. CASE ~KeepAttack
        BY <4>2, <4>4 DEF AttackInv, KeepAttack, CanLeave
      <4> QED
        BY <4>3, <4>4
    <3>4. CASE pc < Pursue
      BY <1>0, <3>1, <3>4 DEF AttackInv, Pursue
    <3> QED
      BY <1>0, <3>2, <3>3, <3>4 DEF Pursue
  <2> QED
    BY <1>0, <2>2, <2>3, <2>4, <2>5
<1>2. CASE CheckGame
  <2>0. NoAttack \in Attacks /\ ~NoAttack.started
    BY DEF NoAttack, Attacks
  <2>1. pc = 0 /\ pc' \in {0, 1}
    BY <1>2 DEF CheckGame, GameOn, GameOff, StopMoving, ForgetAttack, Respawn
  <2>2. AttackInv'
    BY <2>1 DEF AttackInv, Pursue
  <2>3. CASE GameOn
    BY <1>0, <2>2, <2>3 DEF GameOn
  <2>4. CASE GameOff
    BY <1>0, <2>2, <2>4 DEF GameOff
  <2>5. CASE StopMoving
    BY <1>0, <2>2, <2>5 DEF StopMoving, histories
  <2>6. CASE ForgetAttack
    BY <1>0, <2>0, <2>2, <2>6 DEF ForgetAttack, histories
  <2> QED
    BY <1>2, <2>3, <2>4, <2>5, <2>6 DEF CheckGame
<1>3. CASE Abort \/ \E b \in Branches : Resume(b)
  <2>1. /\ pc # 0 /\ pc' = 0
        /\ attack' = attack /\ stopped' = stopped /\ sighted' = sighted
    <3>1. CASE Abort
      BY <3>1 DEF Abort, Evade
    <3>2. ASSUME NEW b \in Branches, Resume(b)
          PROVE  /\ pc # 0 /\ pc' = 0
                 /\ attack' = attack /\ stopped' = stopped /\ sighted' = sighted
      BY <3>2 DEF Resume, EndTick, Branches, Respawn, Rest
    <3> QED
      BY <1>3, <3>1, <3>2
  <2> QED
    BY <1>0, <2>1 DEF AttackInv, Pursue
<1>4. CASE StatusArrives
  BY <1>0, <1>4 DEF StatusArrives, histories, AttackInv, CanLeave
<1>5. CASE EnemySeen
  <2>1. attack' \in Attacks /\ attack'.started = attack.started
    BY <1>0, <1>5 DEF EnemySeen, Attacks
  <2> QED
    BY <1>0, <1>5, <2>1 DEF EnemySeen, AttackInv
<1>6. CASE TimePasses
  <2>1. /\ attack' \in Attacks /\ attack'.started = attack.started
        /\ CanLeave => CanLeave'
    BY <1>0, <1>6 DEF TimePasses, Attacks, CanLeave
  <2> QED
    BY <1>0, <1>6, <2>1 DEF TimePasses, AttackInv, histories
<1>7. CASE UNCHANGED vars
  BY <1>0, <1>7 DEF vars, AttackInv, CanLeave
<1> QED
  BY <1>1, <1>2, <1>3, <1>4, <1>5, <1>6, <1>7 DEF Next, Callback

\* No branch touches the blackboard.
LEMMA DecideKnown ==
  ASSUME Decide
  PROVE  known' = known
<1>1. CASE TryRespawn
  BY <1>1 DEF TryRespawn
<1>2. CASE TryHeal
  BY <1>2 DEF TryHeal
<1>3. CASE TryExchange
  BY <1>3 DEF TryExchange
<1>4. CASE TryRetreat
  BY <1>4 DEF TryRetreat
<1>5. CASE TryRearm
  BY <1>5 DEF TryRearm
<1>6. CASE TryEngage
  BY <1>6 DEF TryEngage
<1>7. CASE TryPursue
  BY <1>7 DEF TryPursue
<1>8. CASE TryEvade
  BY <1>8 DEF TryEvade
<1>9. CASE TryDefend
  BY <1>9 DEF TryDefend
<1>10. CASE TryWithdraw
  BY <1>10 DEF TryWithdraw
<1>11. CASE TryPatrol
  BY <1>11 DEF TryPatrol
<1>12. CASE TryRest
  BY <1>12 DEF TryRest
<1> QED
  BY <1>1, <1>2, <1>3, <1>4, <1>5, <1>6, <1>7, <1>8, <1>9, <1>10, <1>11, <1>12 DEF Decide

----------------------------------------------------------------------------
(* The amounts and the command.                                            *)

ExchangeType == exchange \in [done : BOOLEAN, index : 0 .. MaxVisits, last : 0 .. Max]

CommandType == out \in [respawn : BOOLEAN, allowance : 0 .. Max, posture : 0 .. Move]

AmountType ==
  /\ ExchangeType /\ CommandType
  /\ asked \in 0 .. Max /\ known \in BOOLEAN

\* The memory of a tree that has just been made.
LEMMA NoExchangeFacts ==
  /\ NoExchange \in [done : BOOLEAN, index : 0 .. MaxVisits, last : 0 .. Max]
  /\ NoExchange.last = 0 /\ NoExchange.last <= Amount(NoExchange.index)
<1>1. NoExchange = [done |-> FALSE, index |-> 0, last |-> 0]
  BY DEF NoExchange
<1>2. Amount(0) \in 0 .. Max
  BY AmountFacts
<1> QED
  BY <1>1, <1>2, SentryAssumption

LEMMA AmountStep ==
  ASSUME AmountType, AmountInv, [Next]_vars
  PROVE  /\ AmountType' /\ AmountInv'
         /\ out' # out /\ out'.allowance # 0 => out'.allowance >= asked
<1> USE DEF AmountType
<1>a. exchange.index \in Nat /\ asked \in Nat /\ exchange.last \in 0 .. Max
  BY SentryAssumption DEF ExchangeType
<1>b. Amount(exchange.index) \in 0 .. Max
  BY <1>a, AmountFacts
<1>c. \A p \in 0 .. Move : /\ Posture(p) \in [respawn : BOOLEAN, allowance : 0 .. Max, posture : 0 .. Move]
                           /\ Posture(p).allowance = 0
  BY SentryAssumption DEF Posture, Move
<1>1. CASE Decide /\ Ordered
  <2> DEFINE v == VisitAmount
  <2>1. /\ v \in [done : BOOLEAN, index : 0 .. MaxVisits, last : 0 .. Max]
        /\ v.last >= exchange.last /\ v.last <= Amount(v.index)
    BY VisitFacts DEF ExchangeType, AmountInv
  <2>2. known /\ exchange' = v
    BY <1>1 DEF Ordered
  <2>3. out' = [respawn |-> FALSE, allowance |-> v.last, posture |-> Move]
    BY <1>1 DEF Ordered
  <2>4. asked' = IF asked < v.last THEN v.last ELSE asked
    BY <1>1 DEF Ordered
  <2>5. known' = known
    BY <1>1, DecideKnown
  <2> HIDE DEF v
  <2>6. v.last \in 0 .. Max /\ v.last >= asked
    BY <2>1 DEF AmountInv
  <2>7. asked' = v.last
    BY <1>a, <2>4, <2>6
  <2>8. out'.allowance = v.last /\ CommandType'
    BY <2>3, <2>6 DEF CommandType, Move
  <2>9. ExchangeType'
    BY <2>1, <2>2 DEF ExchangeType
  <2>10. AmountInv'
    BY <2>1, <2>2, <2>5, <2>7 DEF AmountInv, Amount
  <2> QED
    BY <2>2, <2>5, <2>6, <2>7, <2>8, <2>9, <2>10
<1>2. CASE Decide /\ NotOrdered
  <2>1. known' = known /\ asked' = asked
    BY <1>2, DecideKnown DEF NotOrdered
  <2>2. /\ exchange'.last = exchange.last /\ exchange'.index = exchange.index
        /\ ExchangeType'
        /\ ~known => exchange' = exchange
    BY <1>2 DEF NotOrdered, LeaveZone, ExchangeType
  <2>3. AmountInv'
    BY <2>1, <2>2 DEF AmountInv, Amount
  <2>4. /\ CommandType'
        /\ out' # out => out'.allowance = 0
    <3>1. Commanded
      BY <1>2 DEF NotOrdered
    <3>2. CASE out' = out
      BY <3>2 DEF CommandType
    <3>3. CASE out' \in {Posture(Move), Posture(Guard), Posture(Assault)}
      <4>1. {Move, Guard, Assault} \subseteq 0 .. Move
        BY DEF Move, Guard, Assault
      <4>2. PICK p \in 0 .. Move : out' = Posture(p)
        BY <3>3, <4>1
      <4> QED
        BY <1>c, <4>2 DEF CommandType, Move
    <3>4. CASE out' = [respawn |-> TRUE, allowance |-> 0, posture |-> Move]
      <4>1. 0 \in 0 .. Max /\ Move \in 0 .. Move
        BY SentryAssumption DEF Move
      <4> QED
        BY <3>4, <4>1 DEF CommandType, Move
    <3> QED
      BY <3>1, <3>2, <3>3, <3>4 DEF Commanded
  <2> QED
    BY <2>1, <2>2, <2>3, <2>4
<1>3. CASE Abort
  <2>1. /\ ~known /\ known' = known /\ asked' = asked /\ out' = out
        /\ exchange' = NoExchange
    BY <1>3 DEF Abort
  <2>2. exchange = NoExchange
    BY <2>1 DEF AmountInv
  <2> QED
    BY <2>1, <2>2 DEF ExchangeType, CommandType, AmountInv, Amount
<1>4. CASE CheckGame
  <2>1. known' = known /\ asked' = asked /\ exchange' = exchange
    BY <1>4 DEF CheckGame, GameOn, GameOff, StopMoving, ForgetAttack, histories
  <2>2. out' = out \/ out' = Posture(Move)
    BY <1>4 DEF CheckGame, GameOn, GameOff, StopMoving, ForgetAttack
  <2>3. CommandType' /\ (out' # out => out'.allowance = 0)
    BY <1>c, <2>2 DEF CommandType, Move
  <2> QED
    BY <2>1, <2>3 DEF ExchangeType, AmountInv, Amount
<1>5. CASE Callback \/ UNCHANGED vars
  <2>1. /\ asked' = asked /\ out' = out /\ exchange' = exchange
        /\ known' \in BOOLEAN /\ (known => known')
    BY <1>5 DEF Callback, StatusArrives, EnemySeen, TimePasses, histories, vars
  <2> QED
    BY <2>1 DEF ExchangeType, CommandType, AmountInv, Amount
<1>6. ASSUME NEW b \in Branches, Resume(b)
      PROVE  /\ AmountType' /\ AmountInv'
             /\ out' # out /\ out'.allowance # 0 => out'.allowance >= asked
  <2>1. /\ asked' = asked /\ out' = out /\ exchange' = exchange /\ known' = known
    BY <1>6 DEF Resume
  <2> QED
    BY <2>1 DEF ExchangeType, CommandType, AmountInv, Amount
<1> QED
  BY <1>1, <1>2, <1>3, <1>4, <1>5, <1>6, DecideAmount DEF Next

----------------------------------------------------------------------------
(* The theorems.                                                           *)

\* The types are those of the three parts.
LEMMA Types == TypeOK <=> MoveType /\ AttackType /\ AmountType
<1>1. Rest = 12 /\ Heal = 2
  BY DEF Rest, Heal
<1> QED
  BY <1>1 DEF TypeOK, MoveType, AttackType, AmountType, ExchangeType, CommandType

LEMMA InitIInv == Init => IInv
<1> SUFFICES ASSUME Init PROVE IInv
  OBVIOUS
<1>1. MoveType /\ RunInv /\ StillInv /\ WeakInv
  <2>1. /\ pc = 0 /\ running = 0 /\ weak = 0 /\ still = 0
        /\ stage = "none" /\ goal = "none"
    BY DEF Init
  <2>2. spinning \in BOOLEAN
    BY DEF Init
  <2>3. goal \in {"none", "supply", "front"} /\ stage \in {"none", "spin", "twist"}
    BY <2>1
  <2>4. /\ pc \in 0 .. 12 /\ running \in {0} \cup 2 .. 12
        /\ still \in 0 .. 11 /\ weak \in -1 .. 3
    BY <2>1
  <2>5. RunInv /\ StillInv /\ WeakInv
    BY <2>1 DEF RunInv, StillInv, WeakInv, Retreat
  <2> QED
    BY <2>2, <2>3, <2>4, <2>5 DEF MoveType
<1>2. AttackType
  BY DEF Init, AttackType, NoAttack, Attacks
<1>3. StopInv /\ AttackInv
  BY DEF Init, StopInv, AttackInv, Pursue
<1>4. exchange = NoExchange /\ asked = 0 /\ known = FALSE
  BY DEF Init
<1>5. ExchangeType /\ AmountInv
  BY <1>4, NoExchangeFacts DEF ExchangeType, AmountInv
<1>6. CommandType
  BY SentryAssumption DEF Init, CommandType, Move
<1>7. asked \in 0 .. Max
  BY <1>4, SentryAssumption
<1>8. known \in BOOLEAN
  BY <1>4
<1> QED
  BY <1>1, <1>2, <1>3, <1>5, <1>6, <1>7, <1>8, Types DEF IInv, AmountType

LEMMA StepIInv == IInv /\ [Next]_vars => IInv'
<1> SUFFICES ASSUME IInv, [Next]_vars PROVE IInv'
  OBVIOUS
<1>1. /\ TypeOK /\ MoveInv /\ AmountType
      /\ StopInv /\ AttackInv /\ AmountInv
  BY Types DEF IInv, MoveInv
<1>2. MoveInv'
  BY <1>1, MoveStep
<1>3. AttackType' /\ StopInv' /\ AttackInv'
  BY <1>1, AttackStep
<1>4. AmountType' /\ AmountInv'
  BY <1>1, AmountStep
<1>5. TypeOK'
  <2>1. Rest = 12 /\ Heal = 2
    BY DEF Rest, Heal
  <2> QED
    BY <1>2, <1>3, <1>4, <2>1
       DEF TypeOK, MoveInv, MoveType, AttackType, AmountType, ExchangeType, CommandType
<1> QED
  BY <1>2, <1>3, <1>4, <1>5 DEF IInv, MoveInv

THEOREM Inductive == Spec => []IInv
BY InitIInv, StepIInv, PTL DEF Spec

(* Every variable of the tree keeps its range (rmuc_2026.xml).             *)
THEOREM TypeCorrect == Spec => []TypeOK
<1>1. IInv => TypeOK
  BY DEF IInv
<1> QED
  BY <1>1, Inductive, PTL

(* Three weak ticks bring the goal home, whatever ran (lines 53-132).      *)
THEOREM RetreatIsPrompt == Spec => []RetreatWithinThree
<1>1. IInv => RetreatWithinThree
  BY DEF IInv, WeakInv, RetreatWithinThree
<1> QED
  BY <1>1, Inductive, PTL

(* The spin left at zero by switching branches ends after eleven ticks     *)
(* (bt_topic_pub_action_node.hpp:237-244).                                 *)
THEOREM StandstillEnds == Spec => []StandstillIsShort
<1>1. IInv => StandstillIsShort
  BY Types DEF IInv, StillInv, StandstillIsShort, MoveType
<1> QED
  BY <1>1, Inductive, PTL

(* A stop of the game that a tick noticed ends the attack (lines 12-31).   *)
THEOREM AttackIsForgotten == Spec => AttackForgotten
<1>1. IInv /\ [Next]_vars
        => [pc = 0 /\ pc' = Respawn /\ stopped => ~attack.started]_vars
  <2> SUFFICES ASSUME IInv, Next, pc = 0, pc' = Respawn, stopped
               PROVE  ~attack.started
    OBVIOUS
  <2>1. CASE Decide
    <3>1. TypeOK
      BY DEF IInv
    <3> QED
      BY <2>1, <3>1, DecideMoves DEF Moves, Branches, Respawn, Rest
  <2>2. CASE Abort \/ Callback
    BY <2>2 DEF Abort, Evade, Callback, StatusArrives, EnemySeen, TimePasses, Respawn
  <2>3. ASSUME NEW b \in Branches, Resume(b) PROVE FALSE
    BY <2>3 DEF Resume, Branches, Respawn, Rest
  <2>4. CASE CheckGame
    <3>1. stage = "none"
      BY <2>4 DEF CheckGame, GameOn, GameOff, StopMoving, ForgetAttack, Respawn
    <3> QED
      BY <3>1 DEF IInv, StopInv
  <2> QED
    BY <2>1, <2>2, <2>3, <2>4 DEF Next
<1> QED
  BY <1>1, Inductive, PTL DEF Spec, AttackForgotten

(* No branch below the pursuit starts under an open attack, unless an      *)
(* enemy was seen while the tick was under way (lines 173-394).            *)
THEOREM AttackKept == Spec => AttackIsKept
<1>1. IInv /\ [Next]_vars
        => [running' > Pursue /\ running' # running /\ attack.started /\ ~CanLeave
              => sighted]_vars
  <2> SUFFICES ASSUME IInv, Next, running' > Pursue, running' # running,
                      attack.started, ~CanLeave
               PROVE  sighted
    OBVIOUS
  <2>1. CASE Decide
    <3>1. TypeOK
      BY DEF IInv
    <3>2. Moves
      BY <2>1, <3>1, DecideMoves
    <3>3. running' = running \/ running' = 0 \/ running' = pc
      BY <3>2 DEF Moves, Passed, Started, Respawned
    <3>4. pc > Pursue
      BY <3>3 DEF Pursue
    <3> QED
      BY <3>4 DEF IInv, AttackInv
  <2>2. CASE Abort \/ Callback \/ CheckGame
    <3>1. running' = running \/ running' = 0
      BY <2>2 DEF Abort, Callback, StatusArrives, EnemySeen, TimePasses,
         CheckGame, GameOn, GameOff, StopMoving, ForgetAttack
    <3> QED
      BY <3>1 DEF Pursue
  <2>3. ASSUME NEW b \in Branches, Resume(b) PROVE FALSE
    BY <2>3 DEF Resume, Pursue
  <2> QED
    BY <2>1, <2>2, <2>3 DEF Next
<1> QED
  BY <1>1, Inductive, PTL DEF Spec, AttackIsKept

(* No amount is smaller than one asked for before, however many trees were *)
(* aborted in between (exchange_projectile_once.cpp:200-217).              *)
THEOREM AmountsOnlyGrow == Spec => AmountsGrow
<1>1. IInv /\ [Next]_vars
        => [out' # out /\ out'.allowance # 0 => out'.allowance >= asked]_vars
  <2> SUFFICES ASSUME IInv, [Next]_vars
               PROVE  out' # out /\ out'.allowance # 0 => out'.allowance >= asked
    OBVIOUS
  <2>1. AmountType /\ AmountInv
    BY Types DEF IInv
  <2> QED
    BY <2>1, AmountStep
<1> QED
  BY <1>1, Inductive, PTL DEF Spec, AmountsGrow
=============================================================================
