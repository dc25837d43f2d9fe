------------------------------ MODULE ImuQueue ------------------------------
(***************************************************************************)
(* The queue of attitudes in GimbalROS (sp_vision_25/io/ros2/gimbal_ros.cpp*)
(* lines 51-57, 90-107), filled by the IMU callback on the executor's two  *)
(* threads and emptied by q(t), which the aim loop                         *)
(* (sp_vision_25/src/sentry_dual_cameras_ros.cpp lines 39-80, 156-165)     *)
(* calls with the time of the newest front image, new or not.              *)
(*                                                                         *)
(* An image is its number.  Instants are only compared with those of       *)
(* images, so a sample of the IMU is the number of images due before it;   *)
(* an image is due IMU_DELAY before it is taken, which is when q looks.    *)
(* No sample has the very time of an image.                                *)
(*                                                                         *)
(* The names of the state machine carry an Imu, so that it can stand in    *)
(* one module with another one.                                            *)
(***************************************************************************)
EXTENDS Integers, Sequences

CONSTANTS
  Capacity,       \* the length of the queue: 1000
  Threads,        \* the executor's threads
  MaxImages       \* bound: images the camera delivers before it stops

ASSUME ImuAssumption == Capacity \in Nat \ {0} /\ MaxImages \in Nat

VARIABLES
  imu,            \* environment: the IMU delivers
  due,            \* images due so far
  slot,           \* latest_frame_, 0 while it is empty
  holds,          \* the sample a thread has stamped and not pushed yet
  queue,          \* queue_
  at,             \* where the aim loop is
  image,          \* frame_start - IMU_DELAY
  a,              \* t_a
  mark            \* history: no sample, or the t_b the last call ended with

camera  == <<due, slot>>
reader  == <<at, image, a, mark>>
imuVars == <<imu, due, slot, holds, queue, at, image, a, mark>>

Idle    == -1
Samples == 0 .. MaxImages

ImuTypeOK ==
  /\ imu \in BOOLEAN
  /\ due \in 0 .. MaxImages /\ slot \in 0 .. due
  /\ holds \in [Threads -> {Idle} \cup Samples]
  /\ queue \in Seq(Samples) /\ Len(queue) <= Capacity
  /\ at \in {"look", "pop", "front"}
  /\ image \in 0 .. slot
  /\ a \in Samples
  /\ \A b \in mark : b \in Samples /\ mark = {b}

ImuInit ==
  /\ imu = TRUE
  /\ due = 0 /\ slot = 0
  /\ holds = [t \in Threads |-> Idle]
  /\ queue = <<>>
  /\ at = "look" /\ image = 0 /\ a = 0
  /\ mark = {}

----------------------------------------------------------------------------
(* The camera, which may stop at any time, and its grab_loop.              *)

ImageDue ==
  /\ slot = due /\ due < MaxImages
  /\ due' = due + 1
  /\ UNCHANGED <<imu, slot, holds, queue, reader>>

Grab ==
  /\ slot < due
  /\ slot' = due
  /\ UNCHANGED <<imu, due, holds, queue, reader>>

----------------------------------------------------------------------------
(* The IMU, which may fall silent and come back, and imu_callback: the     *)
(* callback group is reentrant, so both threads may be in it, and push in  *)
(* another order than they took the time.                                  *)

Silence ==
  /\ imu' = ~imu
  /\ UNCHANGED <<camera, holds, queue, reader>>

Stamp(t) ==
  /\ imu /\ holds[t] = Idle
  /\ holds' = [holds EXCEPT ![t] = due]
  /\ UNCHANGED <<imu, camera, queue, reader>>

\* Mutant: nothing bounds the queue.
PushedAll(s) == Append(queue, s)

\* A full queue takes no newer sample.
Pushed(s) == IF Len(queue) >= Capacity THEN queue ELSE Append(queue, s)

Push(t) ==
  /\ holds[t] # Idle
  /\ queue' = Pushed(holds[t])
  /\ holds' = [holds EXCEPT ![t] = Idle]
  /\ UNCHANGED <<imu, camera, reader>>

----------------------------------------------------------------------------
(* The aim loop.                                                           *)

\* get_latest: the newest image, whether it was read before or not.
Look ==
  /\ at = "look"
  /\ slot # 0
  /\ image' = slot
  /\ at' = "pop"
  /\ UNCHANGED <<imu, camera, holds, queue, a, mark>>

\* q: the oldest sample is taken out, however long it takes to come.
Pop ==
  /\ at = "pop"
  /\ queue # <<>>
  /\ a' = Head(queue) /\ queue' = Tail(queue)
  /\ at' = "front"
  /\ UNCHANGED <<imu, camera, holds, image, mark>>

\* Mutant: the second sample is taken out, too.
BothTaken == Tail(queue)

\* The second sample stays, and is the next call's first.
FrontStays == queue

\* Mutant: a sample younger than the image is skipped like an older one.
NeverTooLate == FALSE

\* The image is older than what is left.
TooLate == image <= a

\* The image lies between the two samples.
Between(b) == a < image /\ image <= b

Answers(b) == TooLate \/ Between(b)

\* The second sample is looked at.  The call returns, or tries the next two.
Front ==
  /\ at = "front"
  /\ queue # <<>>
  /\ queue' = FrontStays
  /\ LET b == Head(queue) IN
     IF Answers(b)
     THEN at' = "look" /\ mark' = {b}
     ELSE at' = "pop"  /\ UNCHANGED mark
  /\ UNCHANGED <<imu, camera, holds, image, a>>

Reads == Look \/ Pop \/ Front

----------------------------------------------------------------------------
ImuNext ==
  \/ ImageDue \/ Grab \/ Silence
  \/ \E t \in Threads : Stamp(t) \/ Push(t)
  \/ Reads

ImuSpec == ImuInit /\ [][ImuNext]_imuVars

(* The executor serves the IMU and the loop runs; no image has to come.    *)
ImuFairness ==
  /\ \A t \in Threads : WF_imuVars(Stamp(t)) /\ WF_imuVars(Push(t))
  /\ WF_imuVars(Reads)

ImuFairSpec == ImuSpec /\ ImuFairness

----------------------------------------------------------------------------
(* A call for an image newer than the sample the last call ended with is   *)
(* answered by samples on both sides of it, although samples come in       *)
(* swapped, or are lost to a full queue (lines 92-106 of gimbal_ros.cpp).  *)
(* Only an image that was read before, or samples used up on one, leave    *)
(* nothing but younger samples to extrapolate from.                        *)
AttitudeIsAround ==
  [][at = "front" /\ at' = "look" /\ (\E b \in mark : b < image)
       => \A b \in mark' : Between(b)]_imuVars

(* While the IMU delivers, q returns: the loop goes round, whatever the    *)
(* camera does, however old its image, and however full the queue was.     *)
LoopGoesOn == <>[](imu /\ slot # 0) => []<>(at = "look")
=============================================================================
