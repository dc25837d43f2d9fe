------------------------------ MODULE Tracker ------------------------------
(***************************************************************************)
(* The armour tracker of sp_vision_25 (tasks/auto_aim/tracker.cpp) as      *)
(* operators on a tracker record: what one camera frame does to it.  The   *)
(* main loops that own a tracker instantiate these operators.              *)
(*                                                                         *)
(* A frame is the set of armour kinds (name and size) the detector reports *)
(* in it.  Positions, the Kalman filter and image order are abstracted to  *)
(* the outcomes the control flow branches on: is the target's own kind in  *)
(* the frame, is the filter's radius out of range, how many of the last    *)
(* updates failed the chi-square test.                                     *)
(***************************************************************************)
EXTENDS Integers

CONSTANTS
  Kinds,              \* armour kinds the detector can report
  Prio,               \* Prio[k]: priority of kind k, smaller is more urgent
  NoKind,             \* the target of a tracker that never had one
  MinDetect,          \* min_detect_count_
  MaxTempLost,        \* MaxTempLost[k]: frames a target of kind k may be lost
  DivergedBadFrames,  \* kDivergedBadFrames
  NisLimit            \* failed tests in the window that mean bad convergence

ASSUME TrackerAssumption ==
  /\ Prio \in [Kinds -> Nat]
  /\ NoKind \notin Kinds
  /\ MinDetect \in Nat \ {0}
  /\ MaxTempLost \in [Kinds -> Nat]
  /\ DivergedBadFrames \in Nat \ {0}
  /\ NisLimit \in Nat \ {0}

States == {"lost", "detecting", "tracking", "temp_lost", "switching"}

(* st: state_;  detect, temp: detect_count_, temp_lost_count_;             *)
(* target: name and size of target_;  bad: its diverged_bad_streak_;       *)
(* nis: the failures among its recent_nis_failures.                        *)
Trackers == [st     : States,
             detect : Nat,
             temp   : Nat,
             target : Kinds \cup {NoKind},
             bad    : Nat,
             nis    : Nat]

\* A newly constructed tracker.
FreshTracker == [st     |-> "lost",
                 detect |-> 0,
                 temp   |-> 0,
                 target |-> NoKind,
                 bad    |-> 0,
                 nis    |-> 0]

----------------------------------------------------------------------------
\* The kinds that can stand first once the frame is sorted by priority.
Front(armors) == {a \in armors : \A b \in armors : Prio[a] <= Prio[b]}

\* A frame that comes too late drops whatever was tracked.
Expire(t, gap) ==
  IF gap /\ t.st # "lost" THEN [t EXCEPT !.st = "lost"] ELSE t

\* A new target, with a filter that has no history.
SetTarget(t, armors) ==
  IF armors = {}
  THEN {[trk |-> t, found |-> FALSE]}
  ELSE {[trk   |-> [t EXCEPT !.target = a, !.bad = 0, !.nis = 0],
         found |-> TRUE] : a \in Front(armors)}

\* One more test enters the window and an old one may leave it.
NisAfter(n) == {m \in {n - 1, n, n + 1} : m >= 0}

\* The target is updated from an armour of its own kind, if there is one.
UpdateTarget(t, armors) ==
  IF t.target \in armors
  THEN {[trk |-> [t EXCEPT !.nis = n], found |-> TRUE] : n \in NisAfter(t.nis)}
  ELSE {[trk |-> t, found |-> FALSE]}

\* state_machine(found).  SwitchBudget is the literal bound of "switching".
StateMachine(t, found, SwitchBudget) ==
  CASE t.st = "lost" ->
         IF found THEN [t EXCEPT !.st = "detecting", !.detect = 1] ELSE t
    [] t.st = "detecting" ->
         IF ~found THEN [t EXCEPT !.st = "lost", !.detect = 0]
         ELSE [t EXCEPT !.detect = t.detect + 1,
                        !.st = IF t.detect + 1 >= MinDetect
                               THEN "tracking" ELSE "detecting"]
    [] t.st = "tracking" ->
         IF found THEN t ELSE [t EXCEPT !.st = "temp_lost", !.temp = 1]
    [] t.st = "switching" ->
         IF found THEN [t EXCEPT !.st = "detecting"]
         ELSE [t EXCEPT !.temp = t.temp + 1,
                        !.st = IF t.temp + 1 > SwitchBudget
                               THEN "lost" ELSE "switching"]
    [] t.st = "temp_lost" ->
         IF found THEN [t EXCEPT !.st = "tracking"]
         ELSE [t EXCEPT !.temp = t.temp + 1,
                        !.st = IF t.temp + 1 > MaxTempLost[t.target]
                               THEN "lost" ELSE "temp_lost"]

\* Target::diverged() with its streak, and the tracker's answer to it.
Diverge(t, raw) ==
  IF t.st = "lost" THEN t
  ELSE IF ~raw THEN [t EXCEPT !.bad = 0]
  ELSE [t EXCEPT !.bad = t.bad + 1,
                 !.st = IF t.bad + 1 >= DivergedBadFrames THEN "lost" ELSE t.st]

\* The chi-square window rejects the target.
BadConverge(t) == IF t.nis >= NisLimit THEN [t EXCEPT !.st = "lost"] ELSE t

(* Tracker::track(armors, t): every tracker a frame can lead to.  "gap"    *)
(* says that the frame comes more than 0.1 s after the previous one.  The  *)
(* loops receive a target exactly when the result is not "lost".           *)
Track(t, armors, gap) ==
  LET start == Expire(t, gap)
      seen  == IF start.st = "lost" THEN SetTarget(start, armors)
                                    ELSE UpdateTarget(start, armors)
  IN {BadConverge(Diverge(StateMachine(s.trk, s.found, 200), raw)) :
        s \in seen, raw \in BOOLEAN}
============================================================================
