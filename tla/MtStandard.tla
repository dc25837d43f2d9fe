----------------------------- MODULE MtStandard -----------------------------
(***************************************************************************)
(* The multithreaded standard program, sp_vision_25/src/mt_standard.cpp: a *)
(* thread that hands camera frames to the detector while the mode is       *)
(* auto_aim, the main loop that follows the board's mode and either tracks *)
(* detected frames or aims at the buff by itself, and CommandGener, whose  *)
(* thread sends an aim command every 2 ms as long as the last tracked      *)
(* frame is younger than 0.2 s.  Both senders write to the same board.     *)
(*                                                                         *)
(* A frame is its age in ticks, of which Fresh are the 0.2 s; older frames *)
(* are all of age Fresh.  What is seen in a frame, and the shots, are left *)
(* out.  The IMU is taken to deliver, so imu_at returns.                   *)
(***************************************************************************)
EXTENDS Naturals, Sequences

CONSTANTS
  Fresh,          \* ticks in 0.2 s
  Soft,           \* the detector's queue is trimmed at this length: 10
  Full            \* the capacity of the detector's queue: 16

ASSUME MtAssumption ==
  /\ Fresh \in Nat \ {0}
  /\ Soft \in Nat \ {0} /\ Full \in Nat /\ Soft <= Full

VARIABLES
  want,           \* cboard.mode, written by the CAN thread
  exit,           \* exiter.exit()
  camera,         \* the camera's queue: no or one frame
  mode,           \* mode, written by the main loop
  detect,         \* where the detect thread is
  image,          \* the frame it holds
  queue,          \* the detector's queue_
  main,           \* where the main loop is
  frame,          \* the frame it holds
  latest,         \* latest_ of CommandGener: no or one frame
  gen,            \* where CommandGener's thread is
  board,          \* who sent the board's last command
  left            \* history: ticks since mode left auto_aim, at most Fresh

environment == <<want, exit>>
detector    == <<detect, image>>
loop        == <<mode, main, frame, left>>
commands    == <<latest, gen, board>>
vars        == <<want, exit, camera, mode, detect, image, queue, main, frame,
                 latest, gen, board, left>>

\* The two buff modes are one, and so are the modes nothing is done in.
Modes == {"idle", "auto_aim", "buff"}
Ages  == 0 .. Fresh

TypeOK ==
  /\ want \in Modes /\ mode \in Modes /\ exit \in BOOLEAN
  /\ \A a \in camera : a \in Ages /\ camera = {a}
  /\ detect \in {"check", "read", "size", "drop", "push", "ended"}
  /\ image \in Ages /\ frame \in Ages /\ left \in Ages
  /\ queue \in Seq(Ages) /\ Len(queue) <= Full
  /\ main \in {"top", "pop", "track", "read", "send", "join", "ended"}
  /\ \A a \in latest : a \in Ages /\ latest = {a}
  /\ gen \in {"look", "send"}
  /\ board \in {"nobody", "aim", "buff"}

Init ==
  /\ want = "idle" /\ exit = FALSE /\ camera = {}
  /\ mode = "idle" /\ main = "top" /\ frame = Fresh /\ left = Fresh
  /\ detect = "check" /\ image = Fresh /\ queue = <<>>
  /\ latest = {} /\ gen = "look" /\ board = "nobody"

----------------------------------------------------------------------------
(* The operator's mode, the interrupt, the camera and time.                *)

SwitchMode(m) ==
  /\ want' = m
  /\ UNCHANGED <<exit, camera, detector, queue, loop, commands>>

Interrupt ==
  /\ ~exit
  /\ exit' = TRUE
  /\ UNCHANGED <<want, camera, detector, queue, loop, commands>>

\* The camera's queue holds one frame; a newer one is dropped while it does.
Expose ==
  /\ camera = {}
  /\ camera' = {0}
  /\ UNCHANGED <<environment, detector, queue, loop, commands>>

Older(a) == IF a < Fresh THEN a + 1 ELSE a

\* Frames waiting for somebody get older.
Waiting(s) == { Older(a) : a \in s }

Tick ==
  /\ camera' = Waiting(camera)
  /\ image' = Older(image) /\ frame' = Older(frame)
  /\ queue' = [i \in DOMAIN queue |-> Older(queue[i])]
  /\ latest' = Waiting(latest)
  /\ left' = IF mode = "auto_aim" THEN 0 ELSE Older(left)
  /\ UNCHANGED <<environment, detect, mode, main, gen, board>>

----------------------------------------------------------------------------
(* The detect thread: its loop and MultiThreadDetector::push.              *)

\* Mutant: the thread looks at the board's mode itself.
SeenByBoard == want

\* The mode the detect thread goes by.
SeenByDetect == mode

\* Mutant: the thread is stopped by the main loop's end.
EndsAfterMain == main = "ended"

\* The thread looks at exiter itself.
DetectEnds == exit

DetectCheck ==
  /\ detect = "check"
  /\ detect' = IF DetectEnds THEN "ended"
               ELSE IF SeenByDetect = "auto_aim" THEN "read" ELSE "check"
  /\ UNCHANGED <<environment, camera, image, queue, loop, commands>>

DetectRead ==
  /\ detect = "read"
  /\ \E a \in camera : image' = a
  /\ camera' = {}
  /\ detect' = "size"
  /\ UNCHANGED <<environment, queue, loop, commands>>

\* Mutant: the queue is trimmed a frame late.
LongBy1 == Len(queue) > Soft

\* The queue is as long as it may get.
Long == Len(queue) >= Soft

\* size(), try_pop() and push() take the queue's lock one after the other.
DetectSize ==
  /\ detect = "size"
  /\ detect' = IF Long THEN "drop" ELSE "push"
  /\ UNCHANGED <<environment, camera, image, queue, loop, commands>>

DetectDrop ==
  /\ detect = "drop"
  /\ queue' = IF queue = <<>> THEN queue ELSE Tail(queue)
  /\ detect' = "push"
  /\ UNCHANGED <<environment, camera, image, loop, commands>>

\* Mutant: the new frame is put before those that wait.
QueuedFirst == <<image>> \o queue

\* The new frame is put behind those that wait.
Queued == Append(queue, image)

\* Nothing is put into a full queue.
DetectPush ==
  /\ detect = "push"
  /\ queue' = IF Len(queue) >= Full THEN queue ELSE Queued
  /\ detect' = "check"
  /\ UNCHANGED <<environment, camera, image, loop, commands>>

Detect == DetectCheck \/ DetectRead \/ DetectSize \/ DetectDrop \/ DetectPush

----------------------------------------------------------------------------
(* The main loop.                                                          *)

\* The mode is taken over from the board, and decides what the round does.
MainTop ==
  /\ main = "top" /\ ~exit
  /\ mode' = want
  /\ main' = CASE want = "auto_aim" -> "pop"
               [] want = "buff"     -> "read"
               [] want = "idle"     -> "top"
  /\ left' = IF mode = "auto_aim" \/ want = "auto_aim" THEN 0 ELSE left
  /\ UNCHANGED <<environment, camera, detector, queue, frame, commands>>

\* debug_pop waits for a frame,
MainPop ==
  /\ main = "pop"
  /\ queue # <<>>
  /\ frame' = Head(queue) /\ queue' = Tail(queue)
  /\ main' = "track"
  /\ UNCHANGED <<environment, camera, detector, mode, left, commands>>

\* Mutant: inputs are kept until they are taken.
InputsOnce == latest \cup {frame}

\* A new input replaces the last one.
Inputs == {frame}

\* which is tracked and handed to CommandGener with its time.
MainTrack ==
  /\ main = "track"
  /\ latest' = Inputs
  /\ main' = "top"
  /\ UNCHANGED <<environment, camera, detector, queue, mode, frame, left, gen, board>>

\* The buff is aimed at from a frame of the main loop's own.
MainRead ==
  /\ main = "read"
  /\ camera # {}
  /\ camera' = {}
  /\ main' = "send"
  /\ UNCHANGED <<environment, detector, queue, mode, frame, left, commands>>

\* Mutant: no buff command is sent while the board's last one is an aim.
SendsSeldom == board # "aim"

\* A buff command is sent whatever was seen.
SendsBuff == TRUE

MainSend ==
  /\ main = "send"
  /\ board' = IF SendsBuff THEN "buff" ELSE board
  /\ main' = "top"
  /\ UNCHANGED <<environment, camera, detector, queue, mode, frame, left, latest, gen>>

MainLeave ==
  /\ main = "top" /\ exit
  /\ main' = "join"
  /\ UNCHANGED <<environment, camera, detector, queue, mode, frame, left, commands>>

MainJoin ==
  /\ main = "join" /\ detect = "ended"
  /\ main' = "ended"
  /\ UNCHANGED <<environment, camera, detector, queue, mode, frame, left, commands>>

Main == MainTop \/ MainPop \/ MainTrack \/ MainRead \/ MainSend \/ MainLeave
          \/ MainJoin

----------------------------------------------------------------------------
(* CommandGener's thread.                                                  *)

\* Mutant: an input is good until the next one.
GoodForLong(a) == a \in Ages

\* An input is good while it is younger than 0.2 s.
Good(a) == a < Fresh

GenTake ==
  /\ gen = "look" /\ main # "ended"
  /\ \E a \in latest : Good(a)
  /\ gen' = "send"
  /\ UNCHANGED <<environment, camera, detector, queue, loop, latest, board>>

GenSend ==
  /\ gen = "send"
  /\ board' = "aim"
  /\ gen' = "look"
  /\ UNCHANGED <<environment, camera, detector, queue, loop, latest>>

Gen == GenTake \/ GenSend

----------------------------------------------------------------------------
Next ==
  \/ \E m \in Modes : SwitchMode(m)
  \/ Interrupt \/ Expose \/ Tick
  \/ Detect \/ Main \/ Gen

Spec == Init /\ [][Next]_vars

\* The three threads run, the camera delivers and time passes.
Fairness ==
  /\ WF_vars(Detect) /\ WF_vars(Main) /\ WF_vars(Gen)
  /\ WF_vars(Expose) /\ WF_vars(Tick)

FairSpec == Spec /\ Fairness

----------------------------------------------------------------------------
(* The detector's queue never gets to its capacity, where it would drop    *)
(* the newest frame: push drops the oldest first, although it looks at the *)
(* length and drops in two steps that the main loop's pop may come between.*)
NewestIsQueued == Len(queue) <= Soft

(* Once the main loop left auto_aim 0.2 s ago, no input is turned into an  *)
(* aim command any more (line 44 of commandgener.cpp), whatever is     *)
(* left in the camera, the detector and latest_.                           *)
AimEndsWithMode == [][gen = "look" /\ gen' = "send" => left < Fresh]_vars

(* The tracker is given the frames in the order they were taken, and none  *)
(* of them later than a newer one, across the camera's slot, the detect    *)
(* thread, the trimming of its queue and every change of mode (lines 28-37 *)
(* and 103-111 of mt_detector.cpp): a frame out of order would take the    *)
(* filter back in time.                                                    *)
FramesStayInOrder == [][main = "pop" /\ main' = "track" => frame' <= frame]_vars

(* The main loop does not get stuck waiting for a frame when the mode      *)
(* changes: the detect thread goes by the mode the loop itself set and     *)
(* goes on feeding it (lines 61-74, 77, 86 of mt_standard.cpp).            *)
LoopGoesRound == []<>(main = "top" \/ exit)

(* When the operator stays in a buff mode, the board comes to follow the   *)
(* buff commands only: CommandGener's last inputs run out.                 *)
BuffTakesOver == <>[](want = "buff" /\ ~exit) => <>[](board = "buff")

(* An interrupt ends the program, unless it came between the main loop's   *)
(* look at exiter and its debug_pop and the detect thread saw it first:    *)
(* then the loop waits for a frame nobody will push.                       *)
ExitEndsOrHangs ==
  exit ~> \/ main = "ended"
          \/ main = "pop" /\ queue = <<>> /\ detect = "ended"
=============================================================================
