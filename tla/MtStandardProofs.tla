-------------------------- MODULE MtStandardProofs --------------------------
(* Safety of the multithreaded standard program, for any lengths of the    *)
(* detector's queue and any time an input is good for: the newest frame is *)
(* always queued, frames reach the tracker in order, and aiming ends 0.2 s *)
(* after the main loop left auto_aim.                                      *)
EXTENDS MtStandard, SequenceTheorems, TLAPS

----------------------------------------------------------------------------
(* The inductive invariant.  NewestIsQueued does not speak of the frame    *)
(* the detect thread is about to push, nor of the mode the main loop is in *)
(* while it waits for a frame and tracks it.                               *)

\* Between its trimming and its push the detect thread has room.
RoomForPush == detect = "push" => Len(queue) < Soft

\* The main loop only pops and tracks in auto_aim, which then is not left.
TracksInMode ==
  /\ main \in {"pop", "track"} => mode = "auto_aim"
  /\ mode = "auto_aim" => left = 0

\* The last input is at least as old as the end of auto_aim.
InputIsOlder == \A a \in latest : a >= left

IInv == TypeOK /\ NewestIsQueued /\ RoomForPush /\ TracksInMode /\ InputIsOlder

----------------------------------------------------------------------------
(* Ages and queues.                                                        *)

LEMMA OlderIsAge ==
  ASSUME NEW a \in Ages
  PROVE  Older(a) \in Ages /\ Older(a) >= a
BY MtAssumption DEF Older, Ages

LEMMA OlderIsMonotone ==
  ASSUME NEW a \in Ages, NEW b \in Ages, a >= b
  PROVE  Older(a) >= Older(b)
BY MtAssumption DEF Older, Ages

\* Frames that wait stay no or one frame.
LEMMA WaitingIsOne ==
  ASSUME NEW s, \A a \in s : a \in Ages /\ s = {a}
  PROVE  \A a \in Waiting(s) : a \in Ages /\ Waiting(s) = {a}
<1> SUFFICES ASSUME NEW b \in Waiting(s)
             PROVE  b \in Ages /\ Waiting(s) = {b}
  OBVIOUS
<1>1. PICK a \in s : b = Older(a)
  BY DEF Waiting
<1>2. a \in Ages /\ s = {a}
  BY <1>1
<1>3. Waiting(s) = {Older(a)}
  BY <1>2 DEF Waiting
<1> QED
  BY <1>1, <1>2, <1>3, OlderIsAge

LEMMA TailShortens ==
  ASSUME NEW s \in Seq(Ages), s # <<>>
  PROVE  Tail(s) \in Seq(Ages) /\ Len(Tail(s)) = Len(s) - 1 /\ Head(s) \in Ages
OBVIOUS

\* The queue's frames get older in their places.
LEMMA QueueAges ==
  ASSUME NEW s \in Seq(Ages)
  PROVE  LET o == [i \in DOMAIN s |-> Older(s[i])]
         IN  o \in Seq(Ages) /\ Len(o) = Len(s)
<1> DEFINE o == [i \in DOMAIN s |-> Older(s[i])]
<1>1. Len(s) \in Nat /\ DOMAIN s = 1 .. Len(s)
  OBVIOUS
<1>2. ASSUME NEW i \in 1 .. Len(s) PROVE Older(s[i]) \in Ages
  <2>1. s[i] \in Ages
    BY <1>1, <1>2
  <2> QED
    BY <2>1, OlderIsAge
<1>3. o \in [1 .. Len(s) -> Ages]
  BY <1>1, <1>2
<1>4. o \in Seq(Ages)
  BY <1>1, <1>3
<1> HIDE DEF o
<1>5. Len(o) = Len(s)
  BY <1>1, <1>3, <1>4
<1> QED
  BY <1>4, <1>5 DEF o

----------------------------------------------------------------------------
(* Preservation.                                                           *)

LEMMA InitIInv == Init => IInv
<1> SUFFICES ASSUME Init PROVE IInv
  OBVIOUS
<1> USE DEF Init
<1>1. Fresh \in Ages
  BY MtAssumption DEF Ages
<1>2. queue \in Seq(Ages) /\ Len(queue) = 0
  OBVIOUS
<1>3. TypeOK
  <2>1. /\ want \in Modes /\ mode \in Modes /\ exit \in BOOLEAN
        /\ camera = {} /\ latest = {}
    BY DEF Modes
  <2>2. image \in Ages /\ frame \in Ages /\ left \in Ages
    BY <1>1
  <2>3. detect = "check" /\ main = "top" /\ gen = "look" /\ board = "nobody"
    OBVIOUS
  <2>4. Len(queue) <= Full
    BY <1>2, MtAssumption
  <2> HIDE DEF Init
  <2> QED
    BY <1>2, <2>1, <2>2, <2>3, <2>4 DEF TypeOK
<1>4. NewestIsQueued /\ RoomForPush
  BY <1>2, MtAssumption DEF NewestIsQueued, RoomForPush
<1>5. TracksInMode /\ InputIsOlder
  BY DEF TracksInMode, InputIsOlder
<1> QED
  BY <1>3, <1>4, <1>5 DEF IInv

\* The operator, the interrupt and the camera.
LEMMA EnvironmentIInv ==
  ASSUME IInv, (\E m \in Modes : SwitchMode(m)) \/ Interrupt \/ Expose
  PROVE  IInv'
<1> USE DEF detector, loop, commands, environment
<1>1. UNCHANGED <<detect, image, queue, mode, main, frame, left, latest, gen, board>>
  BY DEF SwitchMode, Interrupt, Expose
<1>2. NewestIsQueued' /\ RoomForPush' /\ TracksInMode' /\ InputIsOlder'
  BY <1>1 DEF IInv, NewestIsQueued, RoomForPush, TracksInMode, InputIsOlder
<1>3. want' \in Modes /\ exit' \in BOOLEAN
  BY DEF IInv, TypeOK, SwitchMode, Interrupt, Expose
<1>4. \A a \in camera' : a \in Ages /\ camera' = {a}
  <2>1. CASE camera' = camera
    BY <2>1 DEF IInv, TypeOK
  <2>2. CASE camera' = {0}
    BY <2>2, MtAssumption DEF Ages
  <2> QED
    BY <2>1, <2>2 DEF SwitchMode, Interrupt, Expose
<1>5. TypeOK'
  BY <1>1, <1>3, <1>4 DEF IInv, TypeOK
<1> QED
  BY <1>2, <1>5 DEF IInv

LEMMA TickIInv == ASSUME IInv, Tick PROVE IInv'
<1> USE DEF IInv, Tick
<1>1. UNCHANGED <<want, exit, detect, mode, main, gen, board>>
  BY DEF environment
<1>2. image' \in Ages /\ frame' \in Ages
  BY OlderIsAge DEF TypeOK
<1>3. left' \in Ages
  BY OlderIsAge, MtAssumption DEF TypeOK, Ages
<1>4. queue' \in Seq(Ages) /\ Len(queue') = Len(queue)
  BY QueueAges DEF TypeOK
<1>5. \A a \in camera' : a \in Ages /\ camera' = {a}
  BY WaitingIsOne DEF TypeOK
<1>6. \A a \in latest' : a \in Ages /\ latest' = {a}
  BY WaitingIsOne DEF TypeOK
<1>7. TypeOK'
  BY <1>1, <1>2, <1>3, <1>4, <1>5, <1>6 DEF TypeOK
<1>8. NewestIsQueued' /\ RoomForPush'
  BY <1>1, <1>4 DEF NewestIsQueued, RoomForPush
<1>9. TracksInMode'
  BY <1>1 DEF TracksInMode
<1>10. InputIsOlder'
  <2> SUFFICES ASSUME NEW b \in latest' PROVE b >= left'
    BY DEF InputIsOlder
  <2>1. PICK a \in latest : b = Older(a)
    BY DEF Waiting
  <2>2. a \in Ages /\ left \in Ages /\ a >= left
    BY <2>1 DEF TypeOK, InputIsOlder
  <2>3. CASE mode = "auto_aim"
    <3>1. left' = 0 /\ b \in Ages
      BY <2>1, <2>2, <2>3, OlderIsAge
    <3> QED
      BY <3>1 DEF Ages
  <2>4. CASE mode # "auto_aim"
    BY <2>1, <2>2, <2>4, OlderIsMonotone
  <2> QED
    BY <2>3, <2>4
<1> QED
  BY <1>7, <1>8, <1>9, <1>10

\* The detect thread.
LEMMA DetectIInv == ASSUME IInv, Detect PROVE IInv'
<1> USE DEF IInv, environment, loop, commands
<1>1. UNCHANGED <<want, exit, mode, main, frame, left, latest, gen, board>>
  BY DEF Detect, DetectCheck, DetectRead, DetectSize, DetectDrop, DetectPush
<1>2. TracksInMode' /\ InputIsOlder'
  BY <1>1 DEF TracksInMode, InputIsOlder
<1>3. CASE DetectCheck
  <2>1. /\ detect' \in {"ended", "read", "check"}
        /\ UNCHANGED <<camera, image, queue>>
    BY <1>3 DEF DetectCheck
  <2> QED
    BY <1>1, <1>2, <2>1 DEF TypeOK, NewestIsQueued, RoomForPush
<1>4. CASE DetectRead
  <2>1. image' \in Ages /\ camera' = {} /\ detect' = "size" /\ queue' = queue
    BY <1>4 DEF DetectRead, TypeOK
  <2> QED
    BY <1>1, <1>2, <2>1 DEF TypeOK, NewestIsQueued, RoomForPush
<1>5. CASE DetectSize
  <2>1. /\ detect' \in {"drop", "push"}
        /\ detect' = "push" => ~(Len(queue) >= Soft)
        /\ UNCHANGED <<camera, image, queue>>
    BY <1>5 DEF DetectSize, Long
  <2>2. Len(queue) \in Nat
    BY DEF TypeOK
  <2>3. RoomForPush'
    BY <2>1, <2>2, MtAssumption DEF RoomForPush
  <2> QED
    BY <1>1, <1>2, <2>1, <2>3 DEF TypeOK, NewestIsQueued
<1>6. CASE DetectDrop
  <2>1. detect' = "push" /\ UNCHANGED <<camera, image>>
    BY <1>6 DEF DetectDrop
  <2>2. queue' \in Seq(Ages) /\ Len(queue') < Soft /\ Len(queue') <= Full
    <3>1. CASE queue = <<>>
      BY <1>6, <3>1, MtAssumption DEF DetectDrop, TypeOK
    <3>2. CASE queue # <<>>
      <4>1. queue' = Tail(queue)
        BY <1>6, <3>2 DEF DetectDrop
      <4> QED
        BY <3>2, <4>1, TailShortens, MtAssumption DEF TypeOK, NewestIsQueued
    <3> QED
      BY <3>1, <3>2
  <2>3. NewestIsQueued' /\ RoomForPush'
    BY <2>2, MtAssumption DEF NewestIsQueued, RoomForPush
  <2> QED
    BY <1>1, <1>2, <2>1, <2>2, <2>3 DEF TypeOK
<1>7. CASE DetectPush
  <2>1. /\ detect = "push" /\ detect' = "check" /\ UNCHANGED <<camera, image>>
    BY <1>7 DEF DetectPush
  <2>2. queue \in Seq(Ages) /\ Len(queue) < Soft /\ image \in Ages
    BY <2>1 DEF TypeOK, RoomForPush
  <2>3. queue' = Append(queue, image)
    BY <1>7, <2>2, MtAssumption DEF DetectPush, Queued
  <2>4. queue' \in Seq(Ages) /\ Len(queue') <= Soft /\ Len(queue') <= Full
    BY <2>2, <2>3, MtAssumption
  <2> QED
    BY <1>1, <1>2, <2>1, <2>4 DEF TypeOK, NewestIsQueued, RoomForPush
<1> QED
  BY <1>3, <1>4, <1>5, <1>6, <1>7 DEF Detect

\* The main loop.
LEMMA MainIInv == ASSUME IInv, Main PROVE IInv'
<1> USE DEF IInv, environment, detector, commands
<1>1. UNCHANGED <<want, exit, detect, image, gen>>
  BY DEF Main, MainTop, MainPop, MainTrack, MainRead, MainSend, MainLeave, MainJoin
<1>2. CASE MainTop
  <2>1. /\ mode' = want /\ want \in Modes
        /\ UNCHANGED <<camera, queue, frame, latest, board>>
    BY <1>2 DEF MainTop, TypeOK
  <2>2. main' = CASE want = "auto_aim" -> "pop"
                  [] want = "buff"     -> "read"
                  [] want = "idle"     -> "top"
    BY <1>2 DEF MainTop
  <2>3. /\ main' \in {"top", "pop", "read"}
        /\ main' \in {"pop", "track"} => mode' = "auto_aim"
    BY <2>1, <2>2 DEF Modes
  <2>4. left' = IF mode = "auto_aim" \/ want = "auto_aim" THEN 0 ELSE left
    BY <1>2 DEF MainTop
  <2>5. left' \in Ages /\ (mode' = "auto_aim" => left' = 0)
    BY <2>1, <2>4, MtAssumption DEF TypeOK, Ages
  <2>6. TypeOK'
    BY <1>1, <2>1, <2>3, <2>5 DEF TypeOK
  <2>7. TracksInMode'
    BY <2>3, <2>5 DEF TracksInMode
  <2>8. InputIsOlder'
    <3> SUFFICES ASSUME NEW a \in latest PROVE a >= left'
      BY <2>1 DEF InputIsOlder
    <3>1. a >= left /\ a \in Ages
      BY DEF InputIsOlder, TypeOK
    <3> QED
      BY <2>4, <3>1 DEF Ages
  <2> QED
    BY <1>1, <2>1, <2>6, <2>7, <2>8 DEF NewestIsQueued, RoomForPush
<1>3. CASE MainPop
  <2>1. /\ main = "pop" /\ main' = "track" /\ queue # <<>>
        /\ frame' = Head(queue) /\ queue' = Tail(queue)
        /\ UNCHANGED <<camera, mode, left, latest, board>>
    BY <1>3 DEF MainPop
  <2>2. /\ queue' \in Seq(Ages) /\ frame' \in Ages
        /\ Len(queue') = Len(queue) - 1 /\ Len(queue) \in Nat
    BY <2>1, TailShortens DEF TypeOK
  <2>3. TypeOK'
    BY <1>1, <2>1, <2>2, MtAssumption DEF TypeOK
  <2>4. NewestIsQueued' /\ RoomForPush'
    BY <1>1, <2>2, MtAssumption DEF NewestIsQueued, RoomForPush
  <2> QED
    BY <2>1, <2>3, <2>4 DEF TracksInMode, InputIsOlder
<1>4. CASE MainTrack
  <2>1. /\ main = "track" /\ main' = "top" /\ latest' = {frame}
        /\ UNCHANGED <<camera, queue, mode, frame, left, board>>
    BY <1>4 DEF MainTrack, Inputs
  <2>2. left = 0 /\ frame \in Ages
    BY <2>1 DEF TracksInMode, TypeOK
  <2>3. InputIsOlder'
    BY <2>1, <2>2 DEF InputIsOlder, Ages
  <2>4. TypeOK'
    BY <1>1, <2>1, <2>2 DEF TypeOK
  <2>5. TracksInMode'
    BY <2>1 DEF TracksInMode
  <2> QED
    BY <1>1, <2>1, <2>3, <2>4, <2>5 DEF NewestIsQueued, RoomForPush
<1>5. CASE MainRead \/ MainSend \/ MainLeave \/ MainJoin
  <2>1. /\ main' \in {"top", "send", "join", "ended"}
        /\ UNCHANGED <<queue, mode, frame, left, latest>>
    BY <1>5 DEF MainRead, MainSend, MainLeave, MainJoin
  <2>2. camera' \in {camera, {}}
    BY <1>5 DEF MainRead, MainSend, MainLeave, MainJoin
  <2>3. board' \in {board, "buff"}
    BY <1>5 DEF MainRead, MainSend, MainLeave, MainJoin
  <2>4. TypeOK'
    BY <1>1, <2>1, <2>2, <2>3 DEF TypeOK
  <2> QED
    BY <1>1, <2>1, <2>4
       DEF NewestIsQueued, RoomForPush, TracksInMode, InputIsOlder
<1> QED
  BY <1>2, <1>3, <1>4, <1>5 DEF Main

\* CommandGener, and nothing at all.
LEMMA GenIInv == ASSUME IInv, Gen \/ UNCHANGED vars PROVE IInv'
<1>1. /\ UNCHANGED <<want, exit, camera, mode, detect, image, queue>>
      /\ UNCHANGED <<main, frame, left, latest>>
  BY DEF Gen, GenTake, GenSend, vars, environment, detector, loop
<1>2. gen' \in {gen, "send", "look"} /\ board' \in {board, "aim"}
  BY DEF Gen, GenTake, GenSend, vars
<1>3. TypeOK'
  BY <1>1, <1>2 DEF IInv, TypeOK
<1> QED
  BY <1>1, <1>3
     DEF IInv, NewestIsQueued, RoomForPush, TracksInMode, InputIsOlder

LEMMA NextIInv == IInv /\ [Next]_vars => IInv'
BY EnvironmentIInv, TickIInv, DetectIInv, MainIInv, GenIInv DEF Next

----------------------------------------------------------------------------
(* The order of the frames, an invariant of its own that stands on the     *)
(* types above.  FramesStayInOrder only speaks of the head of the queue    *)
(* and the frame before it; what comes to be the head is one of the        *)
(* camera's frames, which has to be the newest all the way.                *)

\* A frame of age a is newer than all that were queued.
Newest(a) == a <= frame /\ \A i \in DOMAIN queue : a <= queue[i]

\* The detect thread holds a frame it has not queued.
Holding == detect \in {"size", "drop", "push"}

InOrder ==
  /\ \A i, j \in DOMAIN queue : i <= j => queue[j] <= queue[i]
  /\ \A i \in DOMAIN queue : queue[i] <= frame
  /\ Holding => Newest(image)
  /\ \A a \in camera : Newest(a) /\ (Holding => a <= image)

\* The frames that stay when the first is taken away.
LEMMA TailFrames ==
  ASSUME NEW s \in Seq(Ages), s # <<>>
  PROVE  /\ 1 \in DOMAIN s /\ Head(s) = s[1]
         /\ \A i \in DOMAIN Tail(s) :
              i + 1 \in DOMAIN s /\ Tail(s)[i] = s[i + 1] /\ i \in Nat
<1>1. Len(s) \in Nat \ {0} /\ DOMAIN s = 1 .. Len(s)
  OBVIOUS
<1>2. DOMAIN Tail(s) = 1 .. Len(s) - 1 /\ Head(s) = s[1]
  OBVIOUS
<1>3. \A i \in 1 .. Len(s) - 1 : Tail(s)[i] = s[i + 1]
  OBVIOUS
<1> QED
  BY <1>1, <1>2, <1>3

\* The frames of a queue one was put into.
LEMMA AppendFrames ==
  ASSUME NEW s \in Seq(Ages), NEW a \in Ages
  PROVE  \A i \in DOMAIN Append(s, a) :
           /\ i \in Nat
           /\ \/ i \in DOMAIN s /\ i <= Len(s) /\ Append(s, a)[i] = s[i]
              \/ i = Len(s) + 1 /\ Append(s, a)[i] = a
OBVIOUS

\* Taking the first frame away, by the main loop or to make room, keeps the
\* others in order behind it.
LEMMA OrderOfTail ==
  ASSUME TypeOK, InOrder, queue # <<>>, queue' = Tail(queue)
  PROVE  /\ \A i, j \in DOMAIN queue' : i <= j => queue'[j] <= queue'[i]
         /\ \A i \in DOMAIN queue' : queue'[i] <= queue[1]
         /\ \A i \in DOMAIN queue' : queue'[i] <= frame
         /\ \A a : Newest(a) => /\ a <= queue[1] /\ a <= frame
                                /\ \A i \in DOMAIN queue' : a <= queue'[i]
<1>1. /\ 1 \in DOMAIN queue
      /\ \A i \in DOMAIN queue' :
           i + 1 \in DOMAIN queue /\ queue'[i] = queue[i + 1] /\ i \in Nat
  BY TailFrames DEF TypeOK
<1>2. \A i, j \in DOMAIN queue' : i <= j => queue'[j] <= queue'[i]
  <2> SUFFICES ASSUME NEW i \in DOMAIN queue', NEW j \in DOMAIN queue', i <= j
               PROVE  queue'[j] <= queue'[i]
    OBVIOUS
  <2>1. i \in Nat /\ j \in Nat
    BY <1>1
  <2>2. i + 1 <= j + 1
    BY <2>1
  <2> QED
    BY <1>1, <2>2 DEF InOrder
<1>3. \A i \in DOMAIN queue' : queue'[i] <= queue[1]
  <2> SUFFICES ASSUME NEW i \in DOMAIN queue' PROVE queue'[i] <= queue[1]
    OBVIOUS
  <2>1. i \in Nat
    BY <1>1
  <2>2. 1 <= i + 1
    BY <2>1
  <2> QED
    BY <1>1, <2>2 DEF InOrder
<1>4. \A i \in DOMAIN queue' : queue'[i] <= frame
  BY <1>1 DEF InOrder
<1>5. ASSUME NEW a, Newest(a)
      PROVE  a <= queue[1] /\ a <= frame /\ \A i \in DOMAIN queue' : a <= queue'[i]
  BY <1>1, <1>5 DEF Newest
<1> QED
  BY <1>2, <1>3, <1>4, <1>5

\* Time goes by for all frames alike.
LEMMA TickOrder == ASSUME TypeOK, InOrder, Tick PROVE InOrder'
<1> USE DEF TypeOK
<1>1. /\ detect' = detect /\ camera' = Waiting(camera)
      /\ image' = Older(image) /\ frame' = Older(frame)
      /\ queue' = [i \in DOMAIN queue |-> Older(queue[i])]
  BY DEF Tick
<1>2. /\ DOMAIN queue' = DOMAIN queue
      /\ \A i \in DOMAIN queue : queue'[i] = Older(queue[i]) /\ queue[i] \in Ages
  BY <1>1
<1>3. ASSUME NEW a \in Ages, Newest(a)
      PROVE  /\ Older(a) <= frame'
             /\ \A i \in DOMAIN queue' : Older(a) <= queue'[i]
  <2>1. a <= frame /\ frame \in Ages
    BY <1>3 DEF Newest
  <2>2. Older(a) <= Older(frame)
    BY <2>1, OlderIsMonotone DEF Ages
  <2>3. ASSUME NEW i \in DOMAIN queue' PROVE Older(a) <= queue'[i]
    <3>1. a <= queue[i] /\ queue[i] \in Ages /\ queue'[i] = Older(queue[i])
      BY <1>2, <1>3, <2>3 DEF Newest
    <3> QED
      BY <3>1, OlderIsMonotone DEF Ages
  <2> QED
    BY <1>1, <2>2, <2>3
<1>4. \A i, j \in DOMAIN queue' : i <= j => queue'[j] <= queue'[i]
  <2> SUFFICES ASSUME NEW i \in DOMAIN queue, NEW j \in DOMAIN queue, i <= j
               PROVE  Older(queue[j]) <= Older(queue[i])
    BY <1>2
  <2>1. queue[j] <= queue[i] /\ queue[i] \in Ages /\ queue[j] \in Ages
    BY <1>2 DEF InOrder
  <2> QED
    BY <2>1, OlderIsMonotone DEF Ages
<1>5. \A i \in DOMAIN queue' : queue'[i] <= frame'
  <2> SUFFICES ASSUME NEW i \in DOMAIN queue PROVE Older(queue[i]) <= Older(frame)
    BY <1>1, <1>2
  <2>1. queue[i] <= frame /\ queue[i] \in Ages /\ frame \in Ages
    BY <1>2 DEF InOrder
  <2> QED
    BY <2>1, OlderIsMonotone DEF Ages
<1>6. Holding' => Newest(image)'
  <2> SUFFICES ASSUME Holding' PROVE Newest(image)'
    OBVIOUS
  <2>1. Newest(image) /\ image \in Ages
    BY <1>1 DEF Holding, InOrder
  <2> QED
    BY <1>1, <1>3, <2>1 DEF Newest
<1>7. ASSUME NEW b \in camera'
      PROVE  Newest(b)' /\ (Holding' => b <= image')
  <2>1. PICK a \in camera : b = Older(a)
    BY <1>1, <1>7 DEF Waiting
  <2>2. a \in Ages /\ Newest(a) /\ (Holding => a <= image)
    BY <2>1 DEF InOrder
  <2>3. Newest(b)'
    BY <1>3, <2>1, <2>2 DEF Newest
  <2>4. ASSUME Holding' PROVE b <= image'
    <3>1. a <= image /\ image \in Ages
      BY <1>1, <2>2, <2>4 DEF Holding
    <3> QED
      BY <1>1, <2>1, <2>2, <3>1, OlderIsMonotone DEF Ages
  <2> QED
    BY <2>3, <2>4
<1> QED
  BY <1>4, <1>5, <1>6, <1>7 DEF InOrder

\* Nothing is newer than a frame just taken.
LEMMA ExposeOrder == ASSUME TypeOK, InOrder, Expose PROVE InOrder'
<1>1. camera' = {0} /\ UNCHANGED <<detect, image, queue, frame>>
  BY DEF Expose, detector, loop
<1>2. \A a \in Ages : 0 <= a
  BY DEF Ages
<1>3. \A i \in DOMAIN queue : queue[i] \in Ages
  BY DEF TypeOK
<1>4. Newest(0)' /\ 0 <= image'
  BY <1>1, <1>2, <1>3 DEF Newest, TypeOK
<1> QED
  BY <1>1, <1>4 DEF InOrder, Holding, Newest

\* What reads the camera, and what does not touch the frames.
LEMMA OtherOrder ==
  ASSUME TypeOK, InOrder, UNCHANGED <<queue, frame>>,
         \/ camera' \in {camera, {}} /\ image' = image /\ (Holding' => Holding)
         \/ DetectRead
  PROVE  InOrder'
<1>1. \A a : Newest(a) => Newest(a)'
  BY DEF Newest
<1>2. CASE camera' \in {camera, {}} /\ image' = image /\ (Holding' => Holding)
  BY <1>1, <1>2 DEF InOrder
<1>3. CASE DetectRead
  <2>1. image' \in camera /\ camera' = {}
    BY <1>3 DEF DetectRead
  <2> QED
    BY <1>1, <2>1 DEF InOrder
<1> QED
  BY <1>2, <1>3

\* The frame that is put behind the queue is newer than those in it.
LEMMA PushOrder == ASSUME TypeOK, InOrder, DetectPush PROVE InOrder'
<1>1. /\ detect = "push" /\ detect' = "check"
      /\ UNCHANGED <<camera, image, frame>>
      /\ queue' = queue \/ queue' = Append(queue, image)
  BY DEF DetectPush, Queued, loop
<1>2. Newest(image) /\ ~Holding' /\ Holding
  BY <1>1 DEF InOrder, Holding
<1>3. CASE queue' = queue
  BY <1>1, <1>2, <1>3 DEF InOrder, Newest
<1>4. CASE queue' = Append(queue, image)
  <2>1. \A i \in DOMAIN queue' :
          /\ i \in Nat
          /\ \/ i \in DOMAIN queue /\ i <= Len(queue) /\ queue'[i] = queue[i]
             \/ i = Len(queue) + 1 /\ queue'[i] = image
    BY <1>4, AppendFrames DEF TypeOK
  <2>2. /\ Len(queue) \in Nat /\ image \in Ages
        /\ \A i \in DOMAIN queue : queue[i] \in Ages
    BY DEF TypeOK
  <2>3. \A i, j \in DOMAIN queue' : i <= j => queue'[j] <= queue'[i]
    <3> SUFFICES ASSUME NEW i \in DOMAIN queue', NEW j \in DOMAIN queue', i <= j
                 PROVE  queue'[j] <= queue'[i]
      OBVIOUS
    <3>1. CASE j \in DOMAIN queue /\ queue'[j] = queue[j] /\ j <= Len(queue)
      <4>1. i \in DOMAIN queue /\ queue'[i] = queue[i]
        BY <2>1, <2>2, <3>1
      <4> QED
        BY <3>1, <4>1 DEF InOrder
    <3>2. CASE queue'[j] = image
      <4>1. CASE queue'[i] = image
        BY <2>2, <3>2, <4>1 DEF Ages
      <4>2. CASE i \in DOMAIN queue /\ queue'[i] = queue[i]
        BY <1>2, <3>2, <4>2 DEF Newest
      <4> QED
        BY <2>1, <4>1, <4>2
    <3> QED
      BY <2>1, <3>1, <3>2
  <2>4. \A i \in DOMAIN queue' : queue'[i] <= frame'
    BY <1>1, <1>2, <2>1 DEF InOrder, Newest
  <2>5. ASSUME NEW a \in camera' PROVE Newest(a)'
    <3>1. Newest(a) /\ a <= image
      BY <1>1, <1>2, <2>5 DEF InOrder
    <3> QED
      BY <1>1, <2>1, <3>1 DEF Newest
  <2> QED
    BY <1>2, <2>3, <2>4, <2>5 DEF InOrder
<1> QED
  BY <1>1, <1>3, <1>4

\* The oldest frame is dropped, or goes to the tracker.
LEMMA TakeOrder == ASSUME TypeOK, InOrder, DetectDrop \/ MainPop PROVE InOrder'
<1>1. /\ UNCHANGED <<camera, image>>
      /\ Holding' <=> Holding
  BY DEF DetectDrop, MainPop, detector, Holding
<1>2. CASE DetectDrop /\ queue = <<>>
  BY <1>1, <1>2 DEF DetectDrop, loop, InOrder, Newest
<1>3. CASE DetectDrop /\ queue # <<>>
  <2>1. queue' = Tail(queue) /\ frame' = frame
    BY <1>3 DEF DetectDrop, loop
  <2>2. \A a : Newest(a) => Newest(a)'
    BY <1>3, <2>1, OrderOfTail DEF Newest
  <2> QED
    BY <1>1, <1>3, <2>1, <2>2, OrderOfTail DEF InOrder
<1>4. CASE MainPop
  <2>1. queue # <<>> /\ queue' = Tail(queue) /\ frame' = Head(queue)
    BY <1>4 DEF MainPop
  <2>2. frame' = queue[1]
    BY <2>1, TailFrames DEF TypeOK
  <2>3. \A a : Newest(a) => Newest(a)'
    BY <2>1, <2>2, OrderOfTail DEF Newest
  <2> QED
    BY <1>1, <2>1, <2>2, <2>3, OrderOfTail DEF InOrder
<1> QED
  BY <1>2, <1>3, <1>4

LEMMA NextOrder == TypeOK /\ InOrder /\ [Next]_vars => InOrder'
<1> SUFFICES ASSUME TypeOK, InOrder, [Next]_vars PROVE InOrder'
  OBVIOUS
<1>1. CASE (\E m \in Modes : SwitchMode(m)) \/ Interrupt \/ Gen \/ UNCHANGED vars
  <2>1. UNCHANGED <<camera, detect, image, queue, frame>>
    BY <1>1 DEF SwitchMode, Interrupt, Gen, GenTake, GenSend, vars, detector, loop
  <2> QED
    BY <2>1, OtherOrder DEF Holding
<1>2. CASE DetectCheck \/ DetectSize
  <2>1. /\ UNCHANGED <<camera, image, queue, frame>>
        /\ Holding' => Holding
    BY <1>2 DEF DetectCheck, DetectSize, loop, Holding
  <2> QED
    BY <2>1, OtherOrder
<1>3. CASE DetectRead
  <2>1. UNCHANGED <<queue, frame>>
    BY <1>3 DEF DetectRead, loop
  <2> QED
    BY <1>3, <2>1, OtherOrder
<1>4. CASE MainTop \/ MainTrack \/ MainRead \/ MainSend \/ MainLeave \/ MainJoin
  <2>1. /\ UNCHANGED <<detect, image, queue, frame>>
        /\ camera' \in {camera, {}}
    BY <1>4 DEF MainTop, MainTrack, MainRead, MainSend, MainLeave, MainJoin, detector
  <2> QED
    BY <2>1, OtherOrder DEF Holding
<1> QED
  BY <1>1, <1>2, <1>3, <1>4, TickOrder, ExposeOrder, PushOrder, TakeOrder
     DEF Next, Detect, Main

LEMMA InitOrder == Init => InOrder
<1> SUFFICES ASSUME Init PROVE InOrder
  OBVIOUS
<1>1. DOMAIN queue = {} /\ ~Holding /\ camera = {}
  BY DEF Init, Holding
<1> QED
  BY <1>1 DEF InOrder

----------------------------------------------------------------------------
(* The theorems.                                                           *)

\* The invariant above holds in every state: the detect thread pushes into
\* room, and the input CommandGener may take is as old as the mode's end.
THEOREM Inductive == Spec => []IInv
<1>1. Init => IInv
  BY InitIInv
<1>2. IInv /\ [Next]_vars => IInv'
  BY NextIInv
<1> QED
  BY <1>1, <1>2, PTL DEF Spec

\* Types: the camera and CommandGener hold one frame at most, the detector's
\* queue stays within its capacity.
THEOREM TypeCorrect == Spec => []TypeOK
<1>1. IInv => TypeOK
  BY DEF IInv
<1> QED
  BY <1>1, Inductive, PTL

\* Trimming the detector's queue in two steps (lines 31-33 of
\* mt_detector.cpp) still leaves room for the newest frame.
THEOREM NewestFrameIsQueued == Spec => []NewestIsQueued
<1>1. IInv => NewestIsQueued
  BY DEF IInv
<1> QED
  BY <1>1, Inductive, PTL

\* No aim command is begun 0.2 s after the main loop left auto_aim, whatever
\* the camera, the detector and CommandGener still hold.
THEOREM AimingEnds == Spec => AimEndsWithMode
<1>1. ASSUME IInv, [Next]_vars, gen = "look", gen' = "send"
      PROVE  left < Fresh
  <2>1. CASE GenTake
    <3>1. PICK a \in latest : a < Fresh
      BY <2>1 DEF GenTake, Good
    <3>2. a >= left /\ a \in Ages /\ left \in Ages
      BY <1>1 DEF IInv, InputIsOlder, TypeOK
    <3> QED
      BY <3>1, <3>2, MtAssumption DEF Ages
  <2>2. CASE UNCHANGED gen
    BY <1>1, <2>2
  <2>3. GenTake \/ GenSend \/ UNCHANGED gen
    BY <1>1 DEF Next, SwitchMode, Interrupt, Expose, Tick, Detect, DetectCheck,
         DetectRead, DetectSize, DetectDrop, DetectPush, Main, MainTop, MainPop,
         MainTrack, MainRead, MainSend, MainLeave, MainJoin, Gen, commands, vars
  <2> QED
    BY <1>1, <2>1, <2>2, <2>3 DEF GenSend
<1>2. IInv /\ [Next]_vars => [gen = "look" /\ gen' = "send" => left < Fresh]_vars
  BY <1>1
<1> QED
  BY <1>2, Inductive, PTL DEF Spec, AimEndsWithMode

\* Frames reach the tracker in the order they were taken: neither the
\* trimming of the queue, nor the camera's one slot, nor a frame the detect
\* thread still holds from before a change of mode puts them out of order.
THEOREM FramesKeepOrder == Spec => FramesStayInOrder
<1>1. Init => InOrder
  BY InitOrder
<1>2. Spec => []InOrder
  BY <1>1, NextOrder, TypeCorrect, PTL DEF Spec
<1>3. ASSUME TypeOK, InOrder, [Next]_vars, main = "pop", main' = "track"
      PROVE  frame' <= frame
  <2>1. CASE MainPop
    <3>1. frame' = queue[1] /\ 1 \in DOMAIN queue
      BY <2>1, <1>3, TailFrames DEF MainPop, TypeOK
    <3> QED
      BY <1>3, <3>1 DEF InOrder
  <2>2. CASE ~MainPop
    <3>1. UNCHANGED main \/ MainTop \/ MainTrack \/ MainRead \/ MainSend
            \/ MainLeave \/ MainJoin
      BY <1>3, <2>2 DEF Next, SwitchMode, Interrupt, Expose, Tick, Detect, DetectCheck,
           DetectRead, DetectSize, DetectDrop, DetectPush, Main, Gen, GenTake, GenSend,
           loop, vars
    <3> QED
      BY <1>3, <3>1 DEF MainTop, MainTrack, MainRead, MainSend, MainLeave, MainJoin
  <2> QED
    BY <2>1, <2>2
<1>4. TypeOK /\ InOrder /\ [Next]_vars
        => [main = "pop" /\ main' = "track" => frame' <= frame]_vars
  BY <1>3
<1> QED
  BY <1>2, <1>4, TypeCorrect, PTL DEF Spec, FramesStayInOrder
=============================================================================
