------------------------- MODULE SerialBridgeProofs -------------------------
(* Safety of the serial link, for any angles and any pace of the sentry    *)
(* command: no thread reaches a missing port unless the flag was left up   *)
(* by chance, and the sentry command keeps its distance.                   *)
EXTENDS SerialBridge, TLAPS

----------------------------------------------------------------------------
(* The inductive invariant.                                                *)

\* The port object is missing exactly until the protect thread made it.
PortInv == protect = "init" <=> port = "null"

\* Until then a flag that started down keeps both threads at their tops.
StartInv ==
  protect = "init" /\ ~garbage => ~usbOk /\ send = "check" /\ receive = "check"

\* As many sleeps as packets lie behind the last sentry command.
PaceInv ==
  /\ send \in {"failed", "sleep"} => spacing >= counter
  /\ send \in {"check", "crc", "copy", "put"} => spacing >= counter + 1
  /\ send = "sentry" => spacing >= Every /\ counter = 0

\* The board is only left alone while it is connected; the port is closed
\* before it is opened again, and nobody else opens it.
RepairInv ==
  /\ calm => plugged
  /\ protect = "open" => port = "closed"

IInv ==
  TypeOK /\ PortInv /\ StartInv /\ OnlyGarbageCrashes /\ PaceInv /\ RepairInv

\* What the steps of the environment and of the other threads leave alone.
SendRests == UNCHANGED <<send, counter, spacing>>

----------------------------------------------------------------------------
LEMMA InitIInv == Init => IInv
<1> SUFFICES ASSUME Init PROVE IInv
  OBVIOUS
<1> USE BridgeAssumption DEF Init
<1>1. TypeOK
  <2>1. wire \in [data : Commands, crc : Commands]
    OBVIOUS
  <2>2. 0 \in 0 .. Every - 1 /\ Every \in 0 .. Every
    OBVIOUS
  <2> QED
    BY <2>1, <2>2 DEF TypeOK, Ports
<1>2. PortInv /\ StartInv /\ OnlyGarbageCrashes
  BY DEF PortInv, StartInv, OnlyGarbageCrashes
<1>3. PaceInv
  BY DEF PaceInv
<1>4. RepairInv
  BY DEF RepairInv
<1> QED
  BY <1>1, <1>2, <1>3, <1>4 DEF IInv

\* The pace only depends on what the send thread owns.
LEMMA PaceRests == PaceInv /\ SendRests => PaceInv'
  BY DEF PaceInv, SendRests

\* Every step keeps the types.
LEMMA TypeStep == TypeOK /\ [Next]_vars => TypeOK'
<1> SUFFICES ASSUME TypeOK, [Next]_vars PROVE TypeOK'
  OBVIOUS
<1> USE BridgeAssumption DEF TypeOK, Ports
<1>1. CASE Unplug \/ Plug \/ Settle
  <2>1. CASE Unplug
    BY <2>1 DEF Unplug, data, history
  <2>2. CASE Plug
    BY <2>2 DEF Plug, data, history
  <2>3. CASE Settle
    BY <2>3 DEF Settle, data, history
  <2> QED
    BY <1>1, <2>1, <2>2, <2>3
<1>2. CASE Command
  <2>1. cmd' \in Commands
    BY <1>2 DEF Command, Commands
  <2> QED
    BY <1>2, <2>1 DEF Command, env, history
<1>3. CASE Protect
  <2>1. CASE InitPort
    BY <2>1 DEF InitPort, env, data, history
  <2>2. CASE OpenFirst
    BY <2>2 DEF OpenFirst, env, data, history
  <2>3. CASE ForceFlag
    BY <2>3 DEF ForceFlag, env, data, history
  <2>4. CASE Look
    BY <2>4 DEF Look, env, data, history
  <2>5. CASE Close
    BY <2>5 DEF Close, env, data, history
  <2>6. CASE Open
    BY <2>6 DEF Open, env, data, history
  <2>7. CASE Mark
    BY <2>7 DEF Mark, env, data, history
  <2> QED
    BY <1>3, <2>1, <2>2, <2>3, <2>4, <2>5, <2>6, <2>7 DEF Protect
<1>4. CASE Send
  <2>1. CASE SendCheck
    BY <2>1 DEF SendCheck, env, data, history
  <2>2. CASE AppendCrc
    BY <2>2 DEF AppendCrc, env, history
  <2>3. CASE Copy
    BY <2>3 DEF Copy, env, history
  <2>4. CASE Put
    <3>1. board' \in Commands
      BY <2>4 DEF Put
    <3>2. counter' \in 0 .. Every - 1 /\ send' \in {"sentry", "sleep"}
      BY <2>4 DEF Put, Due
    <3> QED
      BY <2>4, <3>1, <3>2 DEF Put, env, history
  <2>5. CASE PutSentry
    BY <2>5 DEF PutSentry, env, history
  <2>6. CASE SendFails
    BY <2>6 DEF SendFails, env, data, history
  <2>7. CASE SendCatch
    BY <2>7 DEF SendCatch, env, data, history
  <2>8. CASE SendSleep
    BY <2>8 DEF SendSleep, env, history
  <2> QED
    BY <1>4, <2>1, <2>2, <2>3, <2>4, <2>5, <2>6, <2>7, <2>8 DEF Send
<1>5. CASE Receive
  <2>1. CASE ReceiveCheck
    BY <2>1 DEF ReceiveCheck, env, data, history
  <2>2. CASE ReceiveFrame
    BY <2>2 DEF ReceiveFrame, env, data, history
  <2>3. CASE ReceiveFails
    BY <2>3 DEF ReceiveFails, env, data, history
  <2>4. CASE ReceiveCatch
    BY <2>4 DEF ReceiveCatch, env, data, history
  <2> QED
    BY <1>5, <2>1, <2>2, <2>3, <2>4 DEF Receive
<1>6. CASE Crash
  BY <1>6 DEF Crash, env, data
<1>7. CASE UNCHANGED vars
  BY <1>7 DEF vars
<1> QED
  BY <1>1, <1>2, <1>3, <1>4, <1>5, <1>6, <1>7 DEF Next

\* Every step keeps the port, the threads' start and the cause of a crash.
LEMMA StartStep ==
  TypeOK /\ PortInv /\ StartInv /\ OnlyGarbageCrashes /\ [Next]_vars
    => PortInv' /\ StartInv' /\ OnlyGarbageCrashes'
<1> SUFFICES ASSUME TypeOK, PortInv, StartInv, OnlyGarbageCrashes, [Next]_vars
             PROVE  PortInv' /\ StartInv' /\ OnlyGarbageCrashes'
  OBVIOUS
<1> USE DEF PortInv, StartInv, OnlyGarbageCrashes
<1>1. CASE Unplug \/ Plug \/ Settle \/ Command
  BY <1>1 DEF Unplug, Plug, Settle, Command, data, history, env
<1>2. CASE Protect
  BY <1>2 DEF Protect, InitPort, OpenFirst, ForceFlag, Look, Close, Open, Mark,
              env, data, history
<1>3. CASE Send
  BY <1>3 DEF Send, SendCheck, AppendCrc, Copy, Put, PutSentry, SendFails,
              SendCatch, SendSleep, Works, Throws, env, data, history
<1>4. CASE Receive
  BY <1>4 DEF Receive, ReceiveCheck, ReceiveFrame, ReceiveFails, ReceiveCatch, Works,
              Throws, env, data, history
<1>5. CASE Crash
  <2>1. port = "null" /\ protect = "init"
    BY <1>5 DEF Crash, Crashes
  <2>2. garbage = TRUE
    BY <1>5, <2>1 DEF Crash, TypeOK
  <2> QED
    BY <1>5, <2>2 DEF Crash, env
<1>6. CASE UNCHANGED vars
  BY <1>6 DEF vars
<1> QED
  BY <1>1, <1>2, <1>3, <1>4, <1>5, <1>6 DEF Next

\* Every step keeps the pace.
LEMMA PaceStep == TypeOK /\ PaceInv /\ [Next]_vars => PaceInv'
<1> SUFFICES ASSUME TypeOK, PaceInv, [Next]_vars PROVE PaceInv'
  OBVIOUS
<1>1. CASE Unplug \/ Plug \/ Settle \/ Command
  BY <1>1, PaceRests DEF Unplug, Plug, Settle, Command, data, SendRests
<1>2. CASE Protect
  BY <1>2, PaceRests DEF Protect, InitPort, OpenFirst, ForceFlag, Look, Close, Open,
                         Mark, data, SendRests
<1>3. CASE Send
  <2> USE BridgeAssumption DEF TypeOK, PaceInv
  <2>1. CASE SendCheck \/ AppendCrc \/ Copy
    BY <2>1 DEF SendCheck, AppendCrc, Copy, data
  <2>2. CASE Put
    BY <2>2 DEF Put, Due
  <2>3. CASE PutSentry
    BY <2>3 DEF PutSentry
  <2>4. CASE SendFails \/ SendCatch
    BY <2>4 DEF SendFails, SendCatch, data
  <2>5. CASE SendSleep
    BY <2>5 DEF SendSleep
  <2> QED
    BY <1>3, <2>1, <2>2, <2>3, <2>4, <2>5 DEF Send
<1>4. CASE Receive
  BY <1>4, PaceRests DEF Receive, ReceiveCheck, ReceiveFrame, ReceiveFails,
                         ReceiveCatch, data, SendRests
<1>5. CASE Crash
  BY <1>5, PaceRests DEF Crash, data, SendRests
<1>6. CASE UNCHANGED vars
  BY <1>6, PaceRests DEF vars, SendRests
<1> QED
  BY <1>1, <1>2, <1>3, <1>4, <1>5, <1>6 DEF Next

\* Every step keeps the port as a repair needs it.
LEMMA RepairStep == RepairInv /\ [Next]_vars => RepairInv'
<1> SUFFICES ASSUME RepairInv, [Next]_vars PROVE RepairInv'
  OBVIOUS
<1> USE DEF RepairInv
<1>1. CASE Unplug \/ Plug \/ Settle \/ Command
  BY <1>1 DEF Unplug, Plug, Settle, Command, env
<1>2. CASE Protect
  BY <1>2 DEF Protect, InitPort, OpenFirst, ForceFlag, Look, Close, Open, Mark, env
<1>3. CASE Send
  BY <1>3 DEF Send, SendCheck, AppendCrc, Copy, Put, PutSentry, SendFails,
              SendCatch, SendSleep, env
<1>4. CASE Receive
  BY <1>4 DEF Receive, ReceiveCheck, ReceiveFrame, ReceiveFails, ReceiveCatch, env
<1>5. CASE Crash
  BY <1>5 DEF Crash, env
<1>6. CASE UNCHANGED vars
  BY <1>6 DEF vars
<1> QED
  BY <1>1, <1>2, <1>3, <1>4, <1>5, <1>6 DEF Next

\* The invariant holds in every reachable state.
LEMMA Invariance == Spec => []IInv
<1>1. IInv /\ [Next]_vars => IInv'
  BY TypeStep, StartStep, PaceStep, RepairStep DEF IInv
<1> QED
  BY InitIInv, <1>1, PTL DEF Spec

----------------------------------------------------------------------------
(* Every variable keeps its type.                                          *)
THEOREM TypeCorrect == Spec => []TypeOK
<1>1. IInv => TypeOK
  BY DEF IInv
<1> QED
  BY Invariance, <1>1, PTL

(* The send and receive threads, started before the port exists, reach the *)
(* null port only with an uninitialised flag that happened to be up        *)
(* (standard_robot_pp_ros2.cpp:56-58, 234).                                *)
THEOREM CrashNeedsGarbage == Spec => []OnlyGarbageCrashes
<1>1. IInv => OnlyGarbageCrashes
  BY DEF IInv
<1> QED
  BY Invariance, <1>1, PTL

(* At least Every sleeps of 5 ms lie between two sentry commands, whatever *)
(* fails or reconnects in between (lines 829-845).                         *)
THEOREM SentryKeepsPace == Spec => SentryIsPaced
<1>1. IInv /\ [Next]_vars
        => [spacing' = 0 /\ spacing # 0 => spacing >= Every]_vars
  <2> SUFFICES ASSUME IInv, Next, spacing' = 0, spacing # 0
               PROVE  spacing >= Every
    BY DEF vars
  <2> USE BridgeAssumption DEF IInv, TypeOK
  <2>1. CASE PutSentry
    BY <2>1 DEF PutSentry, PaceInv
  <2>2. CASE SendSleep
    BY <2>2 DEF SendSleep
  <2>3. CASE SendCheck \/ AppendCrc \/ Copy \/ Put \/ SendFails \/ SendCatch
    BY <2>3 DEF SendCheck, AppendCrc, Copy, Put, SendFails, SendCatch, data
  <2>4. CASE Unplug \/ Plug \/ Settle \/ Command \/ Crash
    BY <2>4 DEF Unplug, Plug, Settle, Command, Crash, data
  <2>5. CASE Protect
    BY <2>5 DEF Protect, InitPort, OpenFirst, ForceFlag, Look, Close, Open, Mark, data
  <2>6. CASE Receive
    BY <2>6 DEF Receive, ReceiveCheck, ReceiveFrame, ReceiveFails, ReceiveCatch, data
  <2> QED
    BY <2>1, <2>2, <2>3, <2>4, <2>5, <2>6 DEF Next, Send
<1> QED
  BY Invariance, <1>1, PTL DEF Spec, SentryIsPaced

(* Once the board stays connected every opening of the port succeeds, and  *)
(* a link that is up throws nothing new and is only lost to an exception   *)
(* that was pending before, which is then used up (lines 227-272, 422-424, *)
(* 840-842).                                                               *)
THEOREM OnlyPendingExceptionsUndoRepair == Spec => RepairLasts
<1> DEFINE Opens   == calm /\ protect \in {"first", "open"} /\ protect' # protect
           Kept    == LinkUp' /\ Pending' <= Pending
           Settled == Kept \/ Pending' < Pending
<1>1. ASSUME IInv, Next, Opens PROVE Kept
  (* Only the protect thread moves on, and its port opens. *)
  <2>1. plugged
    BY <1>1 DEF IInv, RepairInv
  <2>2. CASE OpenFirst
    BY <1>1, <2>1, <2>2 DEF OpenFirst, env, LinkUp, Pending
  <2>3. CASE Open
    BY <1>1, <2>1, <2>3 DEF Open, env, LinkUp, Pending, IInv, RepairInv
  <2>4. CASE InitPort \/ ForceFlag \/ Look \/ Close \/ Mark
    BY <1>1, <2>4 DEF InitPort, ForceFlag, Look, Close, Mark
  <2>5. CASE Unplug \/ Plug \/ Settle \/ Command \/ Crash
    BY <1>1, <2>5 DEF Unplug, Plug, Settle, Command, Crash
  <2>6. CASE Send
    BY <1>1, <2>6 DEF Send, SendCheck, AppendCrc, Copy, Put, PutSentry, SendFails,
                      SendCatch, SendSleep
  <2>7. CASE Receive
    BY <1>1, <2>7 DEF Receive, ReceiveCheck, ReceiveFrame, ReceiveFails,
                      ReceiveCatch
  <2> QED
    BY <1>1, <2>2, <2>3, <2>4, <2>5, <2>6, <2>7 DEF Next, Protect
<1>2. ASSUME IInv, [Next]_vars, LinkUp PROVE Settled
  <2>1. CASE Unplug \/ Plug \/ Settle \/ Command \/ Crash
    (* Nothing disturbs the port any more. *)
    BY <1>2, <2>1 DEF Unplug, Plug, Settle, Command, Crash, Crashes, env, LinkUp,
                      Pending
  <2>2. CASE Protect
    <3>1. LinkUp'
      BY <1>2, <2>2 DEF Protect, InitPort, OpenFirst, ForceFlag, Look, Close, Open,
                        Mark, env, LinkUp
    <3>2. send' = send /\ receive' = receive
      BY <2>2 DEF Protect, InitPort, OpenFirst, ForceFlag, Look, Close, Open, Mark
    <3> QED
      BY <3>1, <3>2 DEF Pending
  <2>3. CASE SendCatch \/ ReceiveCatch
    (* One exception fewer. *)
    BY <2>3 DEF SendCatch, ReceiveCatch, Pending
  <2>4. CASE Send /\ ~SendCatch
    <3>1. LinkUp'
      <4>1. UNCHANGED <<calm, port, usbOk, protect>>
        BY <2>4 DEF Send, SendCheck, AppendCrc, Copy, Put, PutSentry, SendFails,
                    SendSleep, env
      <4> QED
        BY <1>2, <4>1 DEF LinkUp
    <3>2. ~SendFails
      (* A thread that fails now would need another port. *)
      BY <1>2 DEF SendFails, Throws, LinkUp
    <3>3. send' # "failed" /\ receive' = receive
      BY <2>4, <3>2 DEF Send, SendCheck, AppendCrc, Copy, Put, PutSentry, SendCatch,
                        SendSleep
    <3> QED
      BY <3>1, <3>3 DEF Pending
  <2>5. CASE Receive /\ ~ReceiveCatch
    <3>1. LinkUp'
      <4>1. UNCHANGED <<calm, port, usbOk, protect>>
        BY <2>5 DEF Receive, ReceiveCheck, ReceiveFrame, ReceiveFails, env
      <4> QED
        BY <1>2, <4>1 DEF LinkUp
    <3>2. ~ReceiveFails
      BY <1>2 DEF ReceiveFails, Throws, LinkUp
    <3>3. receive' # "failed" /\ send' = send
      BY <2>5, <3>2 DEF Receive, ReceiveCheck, ReceiveFrame, ReceiveCatch
    <3> QED
      BY <3>1, <3>3 DEF Pending
  <2>6. CASE UNCHANGED vars
    BY <1>2, <2>6 DEF vars, LinkUp, Pending
  <2> QED
    BY <1>2, <2>1, <2>2, <2>3, <2>4, <2>5, <2>6 DEF Next
<1>3. IInv /\ [Next]_vars => [LinkUp \/ Opens => Settled]_vars
  BY <1>1, <1>2
<1>4. Spec => [][LinkUp \/ Opens => Settled]_vars
  BY Invariance, <1>3, PTL DEF Spec
<1> QED
  BY <1>4 DEF RepairLasts
=============================================================================
