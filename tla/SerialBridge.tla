---------------------------- MODULE SerialBridge ----------------------------
(***************************************************************************)
(* The link to the controller board, standard_robot_pp_ros2/src/           *)
(* standard_robot_pp_ros2.cpp: a thread that keeps the serial port open, a *)
(* thread that receives, a thread that sends the latest command every 5 ms *)
(* and the executor's callbacks that change the command, sharing one flag, *)
(* one port and one command structure without a lock.                      *)
(*                                                                         *)
(* The command structure is reduced to two fields two callbacks write, the *)
(* gimbal angle and the fire flag; its CRC16 to the contents it was        *)
(* computed over, so a packet passes the board's check exactly when it is  *)
(* what the checksum was computed for.  Incoming frames are reduced to     *)
(* whether their handler throws.                                           *)
(*                                                                         *)
(* Sleeps are not measured: a thread may wake at any time after it went to *)
(* sleep, so every interleaving the real periods allow is included.  A     *)
(* throw and the catch that lowers the flag are two steps: the protect     *)
(* thread may open the port and raise the flag in between.                 *)
(***************************************************************************)
EXTENDS Integers

CONSTANTS
  Angles,         \* gimbal angles
  Every           \* sentry_send_counter's limit: 7

ASSUME BridgeAssumption == Every \in Nat \ {0}

VARIABLES
  plugged,        \* environment: the board is connected
  calm,           \* environment: from here on no unplugging, bad frame, command
  port,           \* serial_driver_->port()
  usbOk,          \* is_usb_ok_
  cmd,            \* send_robot_cmd_data_, without its checksum
  crc,            \* the contents its checksum was computed over
  wire,           \* send_data: the packet copied out
  counter,        \* sentry_send_counter
  protect,        \* where serialPortProtect is
  send,           \* where sendData is
  receive,        \* where receiveData is
  board,          \* the last command the board accepted
  spacing,        \* history: 5 ms sleeps since the last sentry packet
  garbage,        \* history: the value is_usb_ok_ was left with
  crashed         \* the process is gone

env     == <<plugged, calm>>
data    == <<cmd, crc, wire, counter, board, spacing>>
history == <<garbage, crashed>>
vars    == <<plugged, calm, port, usbOk, cmd, crc, wire, counter, protect, send,
             receive, board, spacing, garbage, crashed>>

Commands == [angle : Angles, fire : BOOLEAN]

\* No object, no descriptor, a working descriptor, one whose device went away.
Ports == {"null", "closed", "live", "stale"}

TypeOK ==
  /\ plugged \in BOOLEAN /\ calm \in BOOLEAN
  /\ port \in Ports /\ usbOk \in BOOLEAN
  /\ cmd \in Commands
  /\ crc \in Commands
  /\ wire \in [data : Commands, crc : Commands]
  /\ counter \in 0 .. Every - 1
  /\ protect \in {"init", "first", "force", "sleep", "close", "open", "mark"}
  /\ send \in {"check", "crc", "copy", "put", "sentry", "failed", "sleep"}
  /\ receive \in {"check", "read", "failed"}
  /\ board \in Commands
  /\ spacing \in 0 .. Every
  /\ garbage \in BOOLEAN /\ crashed \in BOOLEAN

(* The constructor initialises neither the flag nor the command: both are  *)
(* what the memory held.  Nothing has been sent yet.                       *)
Init ==
  /\ plugged \in BOOLEAN
  /\ calm = FALSE
  /\ port = "null"
  /\ usbOk \in BOOLEAN
  /\ cmd \in Commands
  /\ crc = cmd
  /\ wire = [data |-> cmd, crc |-> cmd]
  /\ counter = 0
  /\ protect = "init"
  /\ send = "check"
  /\ receive = "check"
  /\ board = cmd
  /\ spacing = Every
  /\ garbage = usbOk
  /\ crashed = FALSE

----------------------------------------------------------------------------
(* The environment.                                                        *)

Unplug ==
  /\ plugged /\ ~calm
  /\ plugged' = FALSE
  /\ port' = IF port = "live" THEN "stale" ELSE port
  /\ UNCHANGED <<calm, usbOk, protect, send, receive, data, history>>

Plug ==
  /\ ~plugged
  /\ plugged' = TRUE
  /\ UNCHANGED <<calm, port, usbOk, protect, send, receive, data, history>>

Settle ==
  /\ plugged /\ ~calm /\ ~crashed
  /\ calm' = TRUE
  /\ UNCHANGED <<plugged, port, usbOk, protect, send, receive, data,
                 history>>

\* cmdGimbalJointCallback, cmdShootCallback: one field each, at any moment.
Command ==
  /\ ~calm
  /\ \/ \E a \in Angles : cmd' = [cmd EXCEPT !.angle = a]
     \/ \E f \in BOOLEAN : cmd' = [cmd EXCEPT !.fire = f]
  /\ UNCHANGED <<env, port, usbOk, crc, wire, counter, protect, send, receive,
                 board, spacing, history>>

----------------------------------------------------------------------------
(* What a send or a receive on the port can come to.                       *)

\* There is no port object: the process dereferences a null pointer.
Crashes == port = "null"

Works == port = "live"

\* A closed port or one whose device went away: the exception is caught.
Throws == port \in {"closed", "stale"}

----------------------------------------------------------------------------
(* serialPortProtect                                                       *)

\* Mutant: the flag is raised before there is a port.
InitPortFlagFirst ==
  /\ protect = "init"
  /\ usbOk' = TRUE
  /\ protect' = "first"
  /\ UNCHANGED <<env, port, send, receive, data, history>>

InitPort ==
  /\ protect = "init"
  /\ port' = "closed"
  /\ protect' = "first"
  /\ UNCHANGED <<env, usbOk, send, receive, data, history>>

OpenFirst ==
  /\ protect = "first"
  /\ port' = IF plugged THEN "live" ELSE "closed"
  /\ usbOk' = plugged
  /\ protect' = "force"
  /\ UNCHANGED <<env, send, receive, data, history>>

\* Whatever the first open said.
ForceFlag ==
  /\ protect = "force"
  /\ usbOk' = TRUE
  /\ protect' = "sleep"
  /\ UNCHANGED <<env, port, send, receive, data, history>>

\* The flag is read; nothing to do, or the port is to be opened again.
Look ==
  /\ protect = "sleep"
  /\ protect' = IF usbOk THEN "sleep" ELSE "close"
  /\ UNCHANGED <<env, port, usbOk, send, receive, data, history>>

\* Mutant: a port that is open is not closed before it is opened.
CloseNothing ==
  /\ protect = "close"
  /\ protect' = "open"
  /\ UNCHANGED <<env, port, usbOk, send, receive, data, history>>

Close ==
  /\ protect = "close"
  /\ port' = "closed"
  /\ protect' = "open"
  /\ UNCHANGED <<env, usbOk, send, receive, data, history>>

\* Opening an absent device, or a port that is open, throws.
Open ==
  /\ protect = "open"
  /\ IF plugged /\ port = "closed"
     THEN /\ port' = "live"
          /\ protect' = "mark"
          /\ UNCHANGED usbOk
     ELSE /\ usbOk' = FALSE
          /\ protect' = "sleep"
          /\ UNCHANGED port
  /\ UNCHANGED <<env, send, receive, data, history>>

Mark ==
  /\ protect = "mark"
  /\ usbOk' = TRUE
  /\ protect' = "sleep"
  /\ UNCHANGED <<env, port, send, receive, data, history>>

Protect == InitPort \/ OpenFirst \/ ForceFlag \/ Look \/ Close \/ Open \/ Mark

----------------------------------------------------------------------------
(* sendData                                                                *)

\* The top of the loop: with the flag down the thread sleeps and looks again.
SendCheck ==
  /\ send = "check"
  /\ send' = IF usbOk THEN "crc" ELSE "check"
  /\ UNCHANGED <<env, port, usbOk, protect, receive, data, history>>

AppendCrc ==
  /\ send = "crc"
  /\ crc' = cmd
  /\ send' = "copy"
  /\ UNCHANGED <<env, port, usbOk, cmd, wire, counter, protect, receive,
                 board, spacing, history>>

Copy ==
  /\ send = "copy"
  /\ wire' = [data |-> cmd, crc |-> crc]
  /\ send' = "put"
  /\ UNCHANGED <<env, port, usbOk, cmd, crc, counter, protect, receive,
                 board, spacing, history>>

\* Mutant: the counter is compared before it is increased.
DueLate == counter >= Every

\* Mutant: the sentry command goes with every packet.
DueAlways == TRUE

\* It is the sentry command's turn.
Due == counter + 1 >= Every

\* The packet goes out; the board takes it if the checksum is its contents'.
Put ==
  /\ send = "put"
  /\ Works
  /\ board' = IF wire.crc = wire.data THEN wire.data ELSE board
  /\ IF Due
     THEN send' = "sentry" /\ counter' = 0
     ELSE send' = "sleep" /\ counter' = counter + 1
  /\ UNCHANGED <<env, port, usbOk, cmd, crc, wire, protect, receive,
                 spacing, history>>

PutSentry ==
  /\ send = "sentry"
  /\ Works
  /\ spacing' = 0
  /\ send' = "sleep"
  /\ UNCHANGED <<env, port, usbOk, cmd, crc, wire, counter, protect, receive,
                 board, history>>

\* Either send throws; the exception is on its way to the catch.
SendFails ==
  /\ send \in {"put", "sentry"}
  /\ Throws
  /\ send' = "failed"
  /\ UNCHANGED <<env, port, usbOk, protect, receive, data, history>>

\* The catch lowers the flag, whatever became of the port meanwhile.
SendCatch ==
  /\ send = "failed"
  /\ usbOk' = FALSE
  /\ send' = "sleep"
  /\ UNCHANGED <<env, port, protect, receive, data, history>>

SendSleep ==
  /\ send = "sleep"
  /\ spacing' = IF spacing < Every THEN spacing + 1 ELSE Every
  /\ send' = "check"
  /\ UNCHANGED <<env, port, usbOk, cmd, crc, wire, counter, protect, receive,
                 board, history>>

Crash ==
  /\ send \in {"put", "sentry"} \/ receive = "read"
  /\ Crashes
  /\ crashed' = TRUE
  /\ UNCHANGED <<env, port, usbOk, protect, send, receive, data, garbage>>

Send ==
  \/ SendCheck \/ AppendCrc \/ Copy \/ Put \/ PutSentry
  \/ SendFails \/ SendCatch \/ SendSleep

----------------------------------------------------------------------------
(* receiveData                                                             *)

ReceiveCheck ==
  /\ receive = "check"
  /\ receive' = IF usbOk THEN "read" ELSE "check"
  /\ UNCHANGED <<env, port, usbOk, protect, send, data, history>>

\* A frame is read and handled, or fails a check and is skipped.
ReceiveFrame ==
  /\ receive = "read"
  /\ Works
  /\ receive' = "check"
  /\ UNCHANGED <<env, port, usbOk, protect, send, data, history>>

(* The read throws, or the handler of a frame that passed every check: an  *)
(* unknown model number, or a service call from inside the node.           *)
ReceiveFails ==
  /\ receive = "read"
  /\ Throws \/ (Works /\ ~calm)
  /\ receive' = "failed"
  /\ UNCHANGED <<env, port, usbOk, protect, send, data, history>>

\* As in the send thread, the flag may have been raised since.
ReceiveCatch ==
  /\ receive = "failed"
  /\ usbOk' = FALSE
  /\ receive' = "check"
  /\ UNCHANGED <<env, port, protect, send, data, history>>

Receive == ReceiveCheck \/ ReceiveFrame \/ ReceiveFails \/ ReceiveCatch

----------------------------------------------------------------------------
Next ==
  \/ Unplug \/ Plug \/ Settle
  \/ ~crashed /\ (Command \/ Protect \/ Send \/ Receive \/ Crash)

Spec == Init /\ [][Next]_vars

(* The two threads that never block keep running.  Nothing is assumed of   *)
(* the receive thread: it may be blocked in a read for good.               *)
Fairness ==
  /\ WF_vars(~crashed /\ Protect)
  /\ WF_vars(~crashed /\ Send)

FairSpec == Spec /\ Fairness

----------------------------------------------------------------------------
(* The comment at lines 829-830: a sentry command at most every Every-th   *)
(* cycle of 5 ms, also across failures and reconnections.                  *)
SentryIsPaced == [][spacing' = 0 /\ spacing # 0 => spacing >= Every]_vars

(* The send and receive threads start without waiting for the protect      *)
(* thread (lines 56-58, 234); only an uninitialised flag that happens to   *)
(* be up (line 56 of the header) can take them to a port that is not there.*)
OnlyGarbageCrashes == crashed => garbage

\* The catch comes after the repair: it takes down a link that works.
Late == usbOk /\ port = "live"

(* When the board stays connected and frames and commands stop causing     *)
(* trouble, the three threads stop tearing the link down for each other    *)
(* and the board comes to hold the last command (lines 227-272, 806-846).  *)
(* The one way to keep tearing it down is that both threads, in turns,     *)
(* keep an exception of the old port until after the new one is up.        *)
LinkConverges ==
  \/ [](calm => <>[](crashed \/ (usbOk /\ port = "live" /\ board = cmd)))
  \/ /\ []<><<Late /\ SendCatch>>_vars
     /\ []<><<Late /\ ReceiveCatch>>_vars

\* The port works, the flag is up or about to be raised, the board stays.
LinkUp ==
  /\ calm /\ port = "live"
  /\ protect \in {"force", "mark"} \/ (protect = "sleep" /\ usbOk)

\* Exceptions thrown and not caught yet.
Pending ==
  (IF send = "failed" THEN 1 ELSE 0) + (IF receive = "failed" THEN 1 ELSE 0)

(* What is safe about LinkConverges: once the board stays connected, every *)
(* attempt to open the port succeeds (lines 236-246, 251-264), and a link  *)
(* that is up throws nothing new and is only lost to an exception that was *)
(* pending before, which is then used up (lines 424, 842).  So a repair    *)
(* that is made while none is pending is final.                            *)
RepairLasts ==
  [][LinkUp \/ (calm /\ protect \in {"first", "open"} /\ protect' # protect)
       => (LinkUp' /\ Pending' <= Pending) \/ Pending' < Pending]_vars
=============================================================================
