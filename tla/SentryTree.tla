----------------------------- MODULE SentryTree -----------------------------
(***************************************************************************)
(* The decision tree of the sentry, behavior_trees/rmuc_2026.xml, with the *)
(* plugins it is made of and the server that ticks it five times a second. *)
(*                                                                         *)
(* A tick is a run of steps: the game is checked, then the twelve branches *)
(* are tried in order of priority, each on its own step, because executor  *)
(* threads write the blackboard and the attack state while the tree thread *)
(* is under way.  What a branch reads of the blackboard is therefore new   *)
(* at every branch.  The branches are sequences with memory: the one that  *)
(* was left running is resumed after its conditions, not at them.          *)
(*                                                                         *)
(* Instants are reduced to what the attack state asks of them: an enemy    *)
(* seen recently, seen a while ago or not for a minute, and whether the    *)
(* attack began three minutes ago.  A goal is the supply zone or the front *)
(* (which a map command may move).  The loss of hit points over three      *)
(* seconds is a free condition.                                            *)
(***************************************************************************)
EXTENDS Integers

CONSTANTS
  Hps,            \* current_hp
  Base, Step,     \* base_exchange, increment_step
  Max,            \* max_exchange
  MaxVisits       \* bound of exchange_index_: from it on the amount is Max

ASSUME SentryAssumption ==
  /\ Hps \subseteq Nat
  /\ Base \in Nat \ {0} /\ Step \in Nat /\ Max \in Nat /\ MaxVisits \in Nat
  /\ Base <= Max /\ Base + MaxVisits * Step >= Max

VARIABLES
  pc,             \* 0: the game is checked; else the branch to try
  stage,          \* what check_game_start's inner sequence waits for
  running,        \* the branch left running, 0 if none
  attack,         \* IsAttackState's shared state
  exchange,       \* ExchangeProjectileOnce: done this visit, index, amount
  known,          \* a RobotStatus is on the blackboard
  out,            \* the sentry command the bridge keeps sending
  goal,           \* the last navigation goal
  spinning,       \* the last spin speed is not zero
  stopped,        \* history: the game was off since the last decision
  sighted,        \* history: an enemy message since the tick began
  weak,           \* history: whole ticks of readings that call for retreat
  still,          \* history: ticks in a row that ended without spin
  asked           \* history: the largest amount asked for

histories == <<stopped, sighted, weak, still, asked>>
vars == <<pc, stage, running, attack, exchange, known, out, goal, spinning,
          stopped, sighted, weak, still, asked>>

(* The branches, in the order they are tried. *)
Respawn == 1
Heal == 2
Exchange == 3
Retreat == 4
Rearm == 5
Engage == 6
Pursue == 7
Evade == 8
Defend == 9
Withdraw == 10
Patrol == 11
Rest == 12

Branches == Respawn .. Rest

\* The navigation goal a branch ends with.
GoalOf(b) ==
  CASE b \in {Retreat, Rearm, Withdraw} -> "supply"
    [] b \in {Engage, Pursue, Evade, Patrol, Rest} -> "front"
    [] OTHER -> goal

Move == 3
Guard == 2
Assault == 1

(* A SetSentryCmd that names a posture: the fields it does not name are    *)
(* false and zero.                                                         *)
Posture(p) == [respawn |-> FALSE, allowance |-> 0, posture |-> p]

NoAttack == [received |-> FALSE, started |-> FALSE, finished |-> FALSE,
             since |-> "long", old |-> TRUE]

NoExchange == [done |-> FALSE, index |-> 0, last |-> 0]

Attacks == [received : BOOLEAN, started : BOOLEAN, finished : BOOLEAN,
            since : {"recent", "gone", "long"}, old : BOOLEAN]

TypeOK ==
  /\ pc \in 0 .. Rest
  /\ stage \in {"none", "spin", "twist"}
  /\ running \in {0} \cup Heal .. Rest
  /\ attack \in Attacks
  /\ exchange \in [done : BOOLEAN, index : 0 .. MaxVisits, last : 0 .. Max]
  /\ known \in BOOLEAN
  /\ out \in [respawn : BOOLEAN, allowance : 0 .. Max, posture : 0 .. Move]
  /\ goal \in {"none", "supply", "front"}
  /\ spinning \in BOOLEAN
  /\ stopped \in BOOLEAN /\ sighted \in BOOLEAN
  /\ weak \in -1 .. 3
  /\ still \in 0 .. 11
  /\ asked \in 0 .. Max

Init ==
  /\ pc = 0 /\ stage = "none" /\ running = 0
  /\ attack = NoAttack
  /\ exchange = NoExchange
  /\ known = FALSE
  /\ out = [respawn |-> FALSE, allowance |-> 0, posture |-> 0]
  /\ goal = "none"
  /\ spinning = FALSE
  /\ stopped = FALSE /\ sighted = FALSE
  /\ weak = 0 /\ still = 0 /\ asked = 0

----------------------------------------------------------------------------
(* The callbacks of the executor and the passing of time.                  *)

StatusArrives ==
  /\ ~known
  /\ known' = TRUE
  /\ UNCHANGED <<pc, stage, running, attack, exchange, out, goal, spinning,
                 histories>>

\* gimbalCmdCallback: any gimbal command counts as an enemy seen.
EnemySeen ==
  /\ attack' = [attack EXCEPT !.received = TRUE, !.since = "recent"]
  /\ sighted' = TRUE
  /\ UNCHANGED <<pc, stage, running, exchange, known, out, goal, spinning,
                 stopped, weak, still, asked>>

TimePasses ==
  /\ \/ /\ attack.since = "recent"
        /\ attack' = [attack EXCEPT !.since = "gone"]
     \/ /\ attack.since = "gone"
        /\ attack' = [attack EXCEPT !.since = "long"]
     \/ /\ ~attack.old
        /\ attack' = [attack EXCEPT !.old = TRUE]
  /\ UNCHANGED <<pc, stage, running, exchange, known, out, goal, spinning,
                 histories>>

----------------------------------------------------------------------------
(* check_game_start: when the game is off, spin and speed are set to zero  *)
(* and the attack is forgotten, one tick after another; the game is not    *)
(* looked at again in between.                                             *)

GameOn ==
  /\ pc = 0 /\ stage = "none"
  /\ pc' = Respawn
  /\ stopped' = FALSE /\ sighted' = FALSE
  /\ UNCHANGED <<stage, running, attack, exchange, known, out, goal, spinning,
                 weak, still, asked>>

\* Whatever ran is halted.
GameOff ==
  /\ pc = 0 /\ stage = "none"
  /\ stage' = "spin"
  /\ running' = 0 /\ spinning' = FALSE
  /\ stopped' = TRUE
  /\ weak' = 0 /\ still' = 0
  /\ UNCHANGED <<pc, attack, exchange, known, out, goal, sighted, asked>>

\* Mutant: the game is looked at again at every tick.
StopAgain ==
  /\ pc = 0 /\ stage = "spin"
  /\ stage' \in {"twist", "none"}
  /\ UNCHANGED <<pc, running, attack, exchange, known, out, goal, spinning,
                 histories>>

StopMoving ==
  /\ pc = 0 /\ stage = "spin"
  /\ stage' = "twist"
  /\ UNCHANGED <<pc, running, attack, exchange, known, out, goal, spinning,
                 histories>>

ForgetAttack ==
  /\ pc = 0 /\ stage = "twist"
  /\ stage' = "none"
  /\ out' = Posture(Move)
  /\ attack' = NoAttack
  /\ UNCHANGED <<pc, running, exchange, known, goal, spinning, histories>>

CheckGame == GameOn \/ GameOff \/ StopMoving \/ ForgetAttack

----------------------------------------------------------------------------
(* How a branch ends its step.                                             *)

\* It failed: the next one is tried.
Fail(overruled) ==
  /\ pc' = pc + 1
  /\ weak' = IF overruled THEN -1 ELSE weak
  /\ UNCHANGED <<running, goal, spinning, still>>

\* The tick is over; weak readings that something overruled start again.
EndTick(overruled) ==
  /\ pc' = 0
  /\ weak' = IF overruled THEN 0 ELSE IF weak < 3 THEN weak + 1 ELSE 3
  /\ still' = IF spinning' THEN 0 ELSE still + 1

\* Mutant: a branch is halted whenever a new one starts, itself included.
SpinLost == FALSE

(* PublishSpinSpeed publishes the speed and is left running; a branch that *)
(* was running is halted after that, and halting its PublishSpinSpeed      *)
(* publishes zero.                                                         *)
SpinAfterStart == running = 0

LeaveRunning(b, overruled) ==
  /\ pc = b
  /\ running' = b
  /\ spinning' = SpinAfterStart
  /\ EndTick(overruled)
  /\ UNCHANGED goal

(* The branch left running goes on after its spin speed, its conditions    *)
(* not looked at: it publishes its goal, if it has one, and succeeds.      *)
Resume(b) ==
  /\ pc = b /\ running = b
  /\ running' = 0
  /\ goal' = GoalOf(b)
  /\ UNCHANGED <<stage, attack, exchange, known, out, spinning, stopped,
                 sighted, asked>>
  /\ EndTick(FALSE)

----------------------------------------------------------------------------
(* The conditions.                                                         *)

\* Mutant: off by one.
AtLeastAlmost(min, h) == known /\ h >= min - 1

\* IsStatusOK with a bound on the hit points alone: no status is not OK.
AtLeast(min, h) == known /\ h >= min

\* isEnemyRecentLocked
EnemyRecent == attack.received /\ attack.since = "recent"

\* canLeaveAttackLocked
CanLeave ==
  /\ attack.started /\ attack.received
  /\ attack.since = "long" /\ attack.old

\* Mode enemy_visible.
StartAttack ==
  IF ~attack.started \/ attack.finished
  THEN [attack EXCEPT !.started = TRUE, !.finished = FALSE, !.old = FALSE]
  ELSE attack

\* Mode can_leave.
NoteLeave == IF CanLeave THEN [attack EXCEPT !.finished = TRUE] ELSE attack

\* Mode keep_attack, and a mutant that forgets who was seen a while ago.
KeepAttackRecent == attack.started /\ attack.since = "recent"

KeepAttack == attack.started /\ ~CanLeave

\* Mutant: the amount is not clamped.
AmountUnclamped(i) == Base + i * Step

\* The amount of a visit.
Amount(i) == IF Base + i * Step > Max THEN Max ELSE Base + i * Step

----------------------------------------------------------------------------
(* The branches.                                                           *)

\* 1: dead and a free respawn is on offer.  SetSentryCmd succeeds at once.
TryRespawn ==
  /\ pc = Respawn
  /\ \E h \in Hps, free \in BOOLEAN :
       IF known /\ h = 0 /\ free
       THEN /\ out' = [respawn |-> TRUE, allowance |-> 0, posture |-> Move]
            /\ running' = 0
            /\ spinning' = (spinning /\ running = 0)
            /\ pc' = 0 /\ weak' = 0 /\ still' = 0
            /\ UNCHANGED goal
       ELSE Fail(FALSE) /\ UNCHANGED out
  /\ UNCHANGED <<stage, attack, exchange, known, stopped, sighted, asked>>

\* 2: in the supply zone and not well.
TryHeal ==
  /\ pc = Heal /\ running # Heal
  /\ \E h \in Hps, zone \in BOOLEAN :
       IF zone /\ ~AtLeast(360, h)
       THEN LeaveRunning(Heal, TRUE) /\ attack' = NoAttack
       ELSE Fail(zone) /\ UNCHANGED attack
  /\ UNCHANGED <<stage, exchange, known, out, stopped, sighted, asked>>

\* Mutant: after the last amount the first one comes again.
VisitAmountCycling ==
  IF exchange.done THEN exchange
  ELSE [done |-> TRUE, last |-> Amount(exchange.index),
        index |-> IF exchange.index < MaxVisits THEN exchange.index + 1 ELSE 0]

\* What ExchangeProjectileOnce does when it is asked for an amount.
VisitAmount ==
  IF exchange.done THEN exchange
  ELSE [done |-> TRUE, last |-> Amount(exchange.index),
        index |-> IF exchange.index < MaxVisits THEN exchange.index + 1
                                                ELSE MaxVisits]

LeaveZone == [exchange EXCEPT !.done = FALSE]

\* 3: in the supply zone and short of projectiles: one amount a visit.
TryExchange ==
  /\ pc = Exchange /\ running # Exchange
  /\ \E zone, short, rich \in BOOLEAN :
       IF known /\ zone /\ short /\ rich
       THEN /\ exchange' = VisitAmount
            /\ out' = [respawn |-> FALSE, allowance |-> VisitAmount.last,
                       posture |-> Move]
            /\ asked' = IF asked < VisitAmount.last THEN VisitAmount.last
                                                    ELSE asked
            /\ LeaveRunning(Exchange, TRUE)
       ELSE /\ exchange' = IF known /\ ~zone THEN LeaveZone ELSE exchange
            /\ Fail(zone)
            /\ UNCHANGED <<out, asked>>
  /\ UNCHANGED <<stage, attack, known, stopped, sighted>>

\* 4: few hit points and not in the supply zone.
TryRetreat ==
  /\ pc = Retreat /\ running # Retreat
  /\ \E h \in Hps, zone \in BOOLEAN :
       IF ~AtLeast(121, h) /\ ~zone
       THEN /\ LeaveRunning(Retreat, FALSE)
            /\ attack' = NoAttack /\ out' = Posture(Move)
       ELSE Fail(zone \/ h > 120) /\ UNCHANGED <<attack, out>>
  /\ UNCHANGED <<stage, exchange, known, stopped, sighted, asked>>

\* 5: few projectiles, gold to buy some, and not in the supply zone.
TryRearm ==
  /\ pc = Rearm /\ running # Rearm
  /\ \/ /\ known
        /\ LeaveRunning(Rearm, FALSE)
        /\ attack' = NoAttack /\ out' = Posture(Move)
     \/ Fail(FALSE) /\ UNCHANGED <<attack, out>>
  /\ UNCHANGED <<stage, exchange, known, stopped, sighted, asked>>

\* 6: an enemy is seen.
TryEngage ==
  /\ pc = Engage /\ running # Engage
  /\ IF EnemyRecent
     THEN /\ LeaveRunning(Engage, FALSE)
          /\ attack' = StartAttack /\ out' = Posture(Assault)
     ELSE Fail(FALSE) /\ UNCHANGED <<attack, out>>
  /\ UNCHANGED <<stage, exchange, known, stopped, sighted, asked>>

\* 7: the attack is not over.
TryPursue ==
  /\ pc = Pursue /\ running # Pursue
  /\ IF KeepAttack
     THEN LeaveRunning(Pursue, FALSE) /\ out' = Posture(Assault)
     ELSE Fail(FALSE) /\ UNCHANGED out
  /\ UNCHANGED <<stage, attack, exchange, known, stopped, sighted, asked>>

\* 8: hit points were lost.  Without a RobotStatus the condition throws.
TryEvade ==
  /\ pc = Evade /\ running # Evade
  /\ known
  /\ LeaveRunning(Evade, FALSE) \/ Fail(FALSE)
  /\ UNCHANGED <<stage, attack, exchange, known, out, stopped, sighted, asked>>

(* The throw ends the tree; the client asks for a new one.  The attack     *)
(* state is static and outlives it.                                        *)
Abort ==
  /\ pc = Evade /\ running # Evade
  /\ ~known
  /\ running' = 0 /\ spinning' \in {FALSE, spinning}
  /\ exchange' = NoExchange
  /\ pc' = 0 /\ weak' = 0 /\ still' = 0
  /\ UNCHANGED <<stage, attack, known, out, goal, stopped, sighted, asked>>

\* 9: the attack is over and hit points are left.
TryDefend ==
  /\ pc = Defend /\ running # Defend
  /\ attack' = NoteLeave
  /\ \E h \in Hps :
       IF CanLeave /\ AtLeast(201, h)
       THEN LeaveRunning(Defend, FALSE) /\ out' = Posture(Guard)
       ELSE Fail(FALSE) /\ UNCHANGED out
  /\ UNCHANGED <<stage, exchange, known, stopped, sighted, asked>>

\* 10: the attack is over and few hit points are left.
TryWithdraw ==
  /\ pc = Withdraw /\ running # Withdraw
  /\ attack' = NoteLeave
  /\ \E h \in Hps :
       IF CanLeave /\ ~AtLeast(200, h)
       THEN LeaveRunning(Withdraw, FALSE) /\ out' = Posture(Move)
       ELSE Fail(FALSE) /\ UNCHANGED out
  /\ UNCHANGED <<stage, exchange, known, stopped, sighted, asked>>

\* 11: hit points, heat and projectiles are all right.
TryPatrol ==
  /\ pc = Patrol /\ running # Patrol
  /\ \/ /\ known
        /\ LeaveRunning(Patrol, FALSE) /\ out' = Posture(Move)
     \/ Fail(FALSE) /\ UNCHANGED out
  /\ UNCHANGED <<stage, attack, exchange, known, stopped, sighted, asked>>

\* 12: what is left.
TryRest ==
  /\ pc = Rest /\ running # Rest
  /\ LeaveRunning(Rest, FALSE)
  /\ out' = Posture(Move)
  /\ UNCHANGED <<stage, attack, exchange, known, stopped, sighted, asked>>

Decide ==
  \/ TryRespawn \/ TryHeal \/ TryExchange \/ TryRetreat \/ TryRearm
  \/ TryEngage \/ TryPursue \/ TryEvade \/ TryDefend \/ TryWithdraw
  \/ TryPatrol \/ TryRest

Callback == StatusArrives \/ EnemySeen \/ TimePasses

Next ==
  \/ CheckGame \/ Decide \/ Abort \/ Callback
  \/ \E b \in Branches : Resume(b)

Spec == Init /\ [][Next]_vars

----------------------------------------------------------------------------
(* Three ticks whose every reading says few hit points and no supply zone  *)
(* are enough to have the supply zone as the goal, whatever was under way: *)
(* a resumed branch costs a tick, the halted one does not (lines 53-132).  *)
RetreatWithinThree == weak = 3 => goal = "supply"

(* Switching branches leaves the spin at zero until the next fresh start;  *)
(* a chain of ever more urgent branches ends after eleven ticks (the       *)
(* priorities of lines 42-396, onHalted).                                  *)
StandstillIsShort ==
  /\ still <= 11
  /\ running # 0 /\ ~spinning => still <= 12 - running

(* Nothing of an attack survives a stop of the game that a tick noticed:   *)
(* the first decision after it starts from no attack (lines 12-31).        *)
AttackForgotten == [][pc = 0 /\ pc' = Respawn /\ stopped => ~attack.started]_vars

(* Unless an enemy was seen while this very tick was under way, no branch  *)
(* below the pursuit is started while the attack is on (lines 173-394).    *)
AttackIsKept ==
  [][running' > Pursue /\ running' # running /\ attack.started /\ ~CanLeave
       => sighted]_vars

(* Amounts asked for are never smaller than one asked for before, although *)
(* the counter goes with a tree that is made anew before the first         *)
(* RobotStatus (exchange_projectile_once.cpp:200-217).                     *)
AmountsGrow ==
  [][out' # out /\ out'.allowance # 0 => out'.allowance >= asked]_vars

(* What standard_robot_pp_ros2.cpp:1015 asks of the field: it only grows.  *)
AllowanceOnlyGrows == [][out'.allowance >= out.allowance]_vars
=============================================================================
