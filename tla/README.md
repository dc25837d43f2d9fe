# A TLA+ development of lf_sentry

The repository is the software of an autonomous sentry robot (RoboMaster): a
vision program that finds and aims at enemy armour (`sp_vision_25`), the bridge
to the controller board (`standard_robot_pp_ros2`), a behaviour tree
(`pb2025_sentry_behavior`), navigation, simulation and tools. This directory
models the parts where control flow, time and threads decide what the robot
does, model-checks them with TLC and proves their safety with TLAPS.

## Inventory

| Part | State | Operations | Hard behaviour | What makes it correct |
|---|---|---|---|---|
| Armour tracker, `sp_vision_25/tasks/auto_aim/tracker.cpp` | tracking state, two counters, target, filter health | `track` (two overloads), `state_machine`, `set_target`, `update_target` | six ways to lose a target in one call; counters that outlive a target | a loss is always reported in the same call |
| Dual-camera aim loop, `sp_vision_25/src/sentry_dual_cameras_ros.cpp` | tracker, two deadlines, dropped-frame counter, hold flag and angle | one loop iteration | stale frames after a turn, latched fire, handoff between two cameras | fire ends with the target, turns are spaced and not undone, the back camera is never silenced for good |
| `GimbalROS` and the IMU queue, `io/ros2/gimbal_ros.cpp`, `tools/thread_safe_queue.hpp` | bounded queue of samples, gimbal state | IMU callback, `q(t)`, `send` | blocking read, samples consumed by reading | a frame meets the samples around its time; no IMU, no wrong angle |
| Gimbal manager, `standard_robot_pp_ros2/src/gimbal_manager.cpp` | last message, axis modes and positions | command callback, 10 ms timer, restart | duplicate filter against a state that has moved on, sweeps that wrap or turn round | the last command wins, sweeps stay in range |
| Serial bridge, `standard_robot_pp_ros2/src/standard_robot_pp_ros2.cpp` | port, `is_usb_ok_`, command structures, counter | protect, receive and send threads; subscriptions; referee hooks | three threads and callbacks without a lock, unplugging, exceptions | the link comes back, the board gets the last command, the sentry command is paced |
| Bag recorder, `tools/rosbag2_composable_recorder` | `isRecording_` | two services | called from the receive thread, no retry | a match is recorded |
| Parallel aim program, `sp_vision_25/src/sentry_dual_sn_ros.cpp` | image slots, shared results, request flag | front worker, back worker, controller | swapped images, a clear request that races a frame | as for the aim loop |
| Direct-serial programs, `src/sentry_dual_sn.cpp`, `tools/aim_guard.cpp`, `io/gimbal/gimbal.cpp` | command guard, reconnect state | loop, read thread | stale commands, reconnection | no command from a lost target |
| Ordered frame queue, thread pool, `tools/thread_pool.hpp` | current id, main queue, buffer; tasks | `enqueue`, `dequeue`, `try_dequeue` | out-of-order detectors, one wakeup for many frames, missing ids | order, no loss, no lost wakeup |
| Detection pipeline, `tests/camera_thread_test.cpp`, `async_detect_worker.hpp` | detector slots, queues | submit, detect, collect | unsynchronised slots, captured references | one task per detector, no stale result |
| Omnidirectional perception, `tasks/omniperception` | detection queue, camera counter | `decide`, `perceptron` threads | priority switches of a tracker in progress | a switch ends in a lock or a loss |
| Behaviour tree, `pb2025_sentry_behavior` (the tree `behavior_trees/rmuc_2026.xml`, its plugins, the server that ticks it) | the branch left running, the static attack state, the exchange counter, the last commands | ticks, halts, callbacks between two branches, abort | branches resumed after their conditions, halts that publish, state read twice in a tick, state that outlives the tree | retreat in time, short standstill, no attack after a stop, amounts that grow |
| Multithreaded standard program, `sp_vision_25/src/mt_standard.cpp`, `tasks/auto_aim/multithread` | the mode, the detector's queue, the generator's last input | detect thread, main loop, command generator | a mode read by two threads, a wait that only another thread ends, two senders | no thread waits for good, only the chosen mode's commands after a change |
| Aimer, shooter, solver, Kalman filter, buff aiming, navigation | numeric | - | numeric | outside the models; their outcomes are choices of the models |
| Simulator, descriptions, launch files, interfaces, vendored packages | - | - | - | data or third-party code |

How they interact: the camera threads fill a slot each; the aim loop takes the
newest front image, asks `GimbalROS::q` for the gimbal's attitude at that time,
runs detector, tracker, aimer and shooter, and sends an angle and a fire flag.
The angle goes through the gimbal manager (a 10 ms timer), the flag straight to
the bridge's subscription; both land in one structure that the bridge's send
thread repeats to the board every 5 ms. **The bridge latches**: what the loop
sent last is what the robot keeps doing. IMU frames come back through the
bridge's receive thread, so a stalled link also stalls the loop. The behaviour
tree takes every gimbal command as the sight of an enemy, publishes goals and spin
speeds, and sends the sentry command, which the bridge latches in the same way.

## Modules

| Module | Models |
|---|---|
| `Tracker` | the tracker as operators on a record: every tracker one frame can lead to |
| `DualCameraAim` | the aim loop over `Tracker`; implements `CameraHandoff` |
| `MCDualCameraAim` | a small instance of it |
| `TrackerProofs` | lemmas about the tracker's operators |
| `DualCameraAimProofs` | theorems about the aim loop |
| `CameraHandoff` | what both aim programs promise of the gimbal they hand between two cameras |
| `ParallelAim` | the threaded aim program over `Tracker`: two workers and the controller; implements `CameraHandoff` |
| `MCParallelAim` | a small instance of it |
| `ParallelAimProofs` | its theorems |
| `ImuQueue` | the attitudes' queue of `GimbalROS`, its callback and `q(t)`, as the aim loop calls it |
| `GimbalManager` | the way of an angle through the gimbal manager to the bridge |
| `MCGimbalManager` | a small instance of it |
| `GimbalManagerProofs` | its theorems |
| `SentryTree` | the decision tree and its plugins, ticked by the server |
| `SentryTreeProofs` | its theorems |
| `MtStandard` | the multithreaded standard program: detect thread, main loop, command generator |
| `MtStandardProofs` | its theorems |
| `CameraStream` | the threaded program's image slot, by itself |
| `FrameOrder` | what an ordered frame queue promises |
| `OrderedQueue` | `tools::OrderedQueue` with its wait and its notification; implements `FrameOrder` |
| `QueueProofs` | the theorems about both queues, `OrderedQueue` and `ImuQueue` |
| `SerialBridge` | the serial bridge's threads, callbacks, port and cable |
| `SerialBridgeProofs` | its theorems |

### Tracker and DualCameraAim

A frame is the set of enemy armour kinds (name and size) detected in it. The
filter is reduced to what the code branches on: whether its radius is out of
range (a free choice in each frame, counted in `bad` as the code's streak) and
how many recent updates failed the chi-square test (`nis`, which moves by at
most one per update, as a window does). `Track` composes the lines of
`Tracker::track` in their order: expiry, `set_target` or `update_target`, state
machine, divergence, bad convergence. Among armours of equal priority the image
order is a free choice.

An iteration of the loop is one action: nothing else touches its variables.
`FrontLocked`, `FrontLost` and `BackTurn` are its three branches, each with
the sending part that follows. `NoCommand` is the shared end in which no command
was produced: the one-shot hold, or silence. The scene (`view`, `behind`) changes
only in `Look`, so an iteration may see the same image again, as `get_latest`
allows. A deadline is kept as the ticks left to it, clipped one tick past zero,
which keeps both comparisons the code makes (`now < until`, `now > until`).
`out` is the latched command with the branch that sent it: `seen` (locked, armour
in view), `blind` (locked, no armour in view), `hold`, `back`. `quiet` and `turned`
are history variables: ticks since the last lock or turn, frames since the last
turn; `rested`, here and in `ParallelAim`, is what `quiet` had come to at the last
turn, which makes the rest before a turn visible to `CameraHandoff`.

Decisions of the aimer, the shooter and the decider are free choices: any angle,
any fire decision the shooter can make for a locked target, an aim that fails.

### ParallelAim and CameraStream

The steps are the points where a thread touches what is shared. A frame of the
front worker is two steps: `Work` from the exchange of `req_clear_front` to the
verdict, all on the worker's own state, and `Publish` under the mutex. The controller
is `Read` under the mutex and `Act`, which reads nothing shared and writes the request;
`Act` is `SendFront`, `Repeat`, `Turn` or `Hold`, the branches of its cascade. The
time of the iteration is taken before the reading; as the deadlines belong to
the controller alone, the ticks are counted in `Act`. `begun` and `stale` are history
variables: the frames begun since the turn, and the locks published for frames
begun no later than the last one to be dropped. A worker sees anything in its
image: which image of the stream it is belongs to `CameraStream`, where an
image is its number, a timestamp the number of the image it was taken with.

### CameraHandoff

`CameraHandoff` is what a reader should expect of either aim program, in one page:
who gave the last command (`by`), whether it fires, and how long the gimbal has been
at rest, now and at the last turn (`quiet`, `rested`). Only the front camera fires; a hold follows a command of the front camera
and fires nothing; the back camera turns a rested gimbal only. In the loop `seen` and
`blind` commands are the front's; in the parallel program `back` and its repetition
`wait` are the back's, so a repetition is a stutter.

### OrderedQueue

All methods hold the mutex throughout, so each is one step; `dequeue` on an empty
queue is split where the wait gives the mutex away. A woken consumer takes the
mutex again in competition with callers, and may find the queue empty (`Sleep`
again). At least one consumer is assumed, without whom nothing is ever dequeued. Ids may be enqueued repeatedly and in any order, or never.

### SerialBridge

Each thread has a program counter whose values are the points between accesses to
what the threads share: the flag, the port, the command. The command is two fields
written by two callbacks; its checksum is the contents it was computed over, so a
callback between `AppendCrc` and `Copy` makes a packet the board discards. The
port is missing, closed, live, or open on a device that went away. The flag and
the command start with arbitrary values, as the code leaves them uninitialised.
A frame that passes its checks may still make its handler throw (`ReceiveFails`
on a live port).

A throw (`SendFails`, `ReceiveFails`) and the catch that lowers the flag
(`SendCatch`, `ReceiveCatch`) are two steps, with a log call between them: an
exception thrown while the protect thread has the port closed may be caught after
it has opened the port again and raised the flag. Then the flag of a link that
works is lowered and the port is closed and opened once more, under the other
threads.

### ImuQueue

`q` compares times of samples with the time of an image and with nothing else, so a
sample is the number of images that were due before it, and time needs no clock
and no bound; the names of the state machine carry a prefix (`ImuSpec`, `ImuTypeOK`), as
`QueueProofs` extends both queues; the camera delivers `MaxImages` images and then none, as a dead camera
does. `pop` and `front` are one step each and wait for a sample; the callback is
two, the stamp and the push, on two threads, because its callback group is
reentrant. `mark` is a history variable, the second sample of the last call. An
image asked for a second time always lies before `mark`: its attitude is
extrapolated, and each such call uses up a sample.

### GimbalManager

Angles are integers and velocities are angles per timer period, which may be
several (`Deltas`) when the timer is late; a range as wide as `Circle` is the code's
`is_continuous`. `fmod` is written out with the sign of its dividend. A message that
sends an axis to an angle has no velocity here: the code's filter also compares
that velocity, and a message that differs in it alone sets the same angle again.
Between the manager and the bridge one pair of angles is kept, as the bridge only
keeps the last. The fire flag, which goes to the bridge directly, is left out.

### SentryTree

A tick is the check of the game and then one step per branch, because the
blackboard and the attack state are written by executor threads while the tree is
ticked; what a branch reads of the blackboard is a free choice at its step. The
sequences have memory: the branch left running is resumed at its navigation goal
(`Resume`), its conditions not looked at. `LeaveRunning` has the order of the code:
the new branch publishes its spin speed, then the halted one publishes zero. `CanLeave`
and `EnemyRecent` reduce the instants of the attack state to what its conditions
ask. `~known` is a blackboard without a `RobotStatus`: `IsStatusOK` then fails, which
an `Inverter` makes a success, and `IsHpDecreased` throws, which ends the tree (`Abort`).
The index of the exchange saturates at `MaxVisits`, from which the amount is `Max`
anyway (assumed). Goals are the supply zone or the front, which a map command may
move. The client's cancelling is left out.

### MtStandard

A frame is its age in ticks, saturated where it is too old to be used. The detector's
`size`, `try_pop` and `push` are three steps, as they lock one after the other;
`CommandGener` is two, the look under its lock and the sending after it. The
camera's own queue keeps its one frame until it is read and drops newer ones, as
the camera drivers do. Both threads read the camera, and the model lets them.
`left` is a history variable, the ticks since the main loop left auto_aim. The
buff's aiming and what is seen in a frame are left out, and the IMU is taken to
deliver.

## Runs

| Run | Properties | States | Bounds |
|---|---|---|---|
| `aim` | `TypeOK`, `VisibleFireIsReleased`, `NoLockBeforeCleared`, `HoldWasAimed`, `HandoffSpec`, `BackTakesOver` | 45 560 | two kinds with different priority and patience, one angle, deadlines of 1 and 2 ticks, 2 dropped frames, 2 bad frames to divergence, all tracker limits reached |
| `aim_tracking_only` | `FireOnlyWhileTracking` (violated) | - | as `aim` |
| `aim_loss` | `LossIsHeld` (violated) | - | as `aim` |
| `queue` | `TypeOK`, `QueueIsTheRun`, `SomeoneIsAwake`, `OrderSpec`, `RunsAreDelivered` | 1 910 | 6 frames, 3 consumers |
| `bridge` | `TypeOK`, `OnlyGarbageCrashes`, `SentryIsPaced`, `LinkConverges` | 376 232 | one angle, both fire flags, the real period of 7 |
| `parallel` | `TypeOK`, `OneStaleLock`, `LossEndsFire`, `HandoffSpec` | 92 022 | one kind, deadlines of 1 and 2 ticks, 2 dropped frames, tracking from the second frame |
| `imu` | `ImuTypeOK`, `AttitudeIsAround`, `LoopGoesOn` | 479 238 | queue of 3, two threads, 4 images |
| `gimbal` | `TypeOK`, `NewestIsObeyed`, `SweepStaysInRange`, `LastDecisionWins`, `SweepReachesBothEnds` | 78 218 | three messages (two pairs of angles, one pair of sweeps of which one bounces and one wraps), timer late by up to one period, queue of 2 |
| `mt` | `TypeOK`, `NewestIsQueued`, `AimEndsWithMode`, `FramesStayInOrder`, `LoopGoesRound`, `BuffTakesOver`, `ExitEndsOrHangs` | 156 522 | queue of 3, trimmed at 2, an input good for 2 ticks |
| `sentry` | `TypeOK`, `RetreatWithinThree`, `StandstillIsShort`, `AttackForgotten`, `AttackIsKept`, `AmountsGrow` | 272 393 | hit points on both sides of every bound of the tree, three visits to the largest amount |
| `sentry_allowance` | `AllowanceOnlyGrows` (violated) | - | as `sentry` |
| `camera_swap` | `ImageHasItsTime` (violated) | - | 3 images |

Why the bounds are enough. The loop's control flow compares its counters only with
their limits, so limits at which every branch is taken (a target that is lost
after one or two frames, a cooldown longer than the handoff, a kind that is more
patient than the other) show every order of events; an iteration takes any number of
ticks up to one that passes every deadline; angles are never compared, so one
stands for all (the reset angle is a second value). Two dropped frames let a frame
that was under way at the turn, a first and a last dropped frame and a live one
differ. The safety properties are
also proved for every value. Six frames and three consumers allow gaps, runs of
several lengths, duplicates, and two sleepers next to one awake thread. The
bridge's commands need only two distinguishable values. A queue of 3 samples can be
full and can drop a sample between two images, and 4 images allow one that is read
again, one that is skipped and two in a row. The manager's sweep starts outside and
inside its range and passes zero. A trimmed queue of 2 below a capacity of 3 has the
order of 10 below 16: the capacity is only reached when the trimming is late. The
hit points of `sentry` are 0 and the two sides of 120/121, 200/201 and 360 that
its branches ask for (199 and 200, as 201 is asked for by one branch and 200 by
another).

What they show:

- `VisibleFireIsReleased`: a loss in the frame in which the target was still in
  view (divergence, bad convergence) or of a target seen until then replaces the
  fire command in the same iteration. Only a command given while the tracker
  coasts can stay latched.
- `NoLockBeforeCleared`: the new tracker after a turn sees none of the dropped
  frames, counted in processed frames.
- `HoldWasAimed`: the 0.0 that a turn leaves in the place of the held angle is never
  sent, although the hold's flag, the angle and the counters that delay a hold are
  separate variables.
- `HandoffSpec`: the loop and the threaded program, which share no code here, hand the
  gimbal over by the same rules. Two consequences are stated and proved by themselves:
  `TurnsAreSpaced` (the back camera turns the gimbal only when more than the cooldown
  has gone by since the last lock and the last turn, the ticks of the iteration itself
  included) and `HoldNeverUndoesTurn` (after a turn the next command is a new aim or
  another turn, never the old angle).
- `BackTakesOver`: an unanswered handoff expires.
- `QueueIsTheRun`, `OrderSpec`, `SomeoneIsAwake`, `RunsAreDelivered`: order,
  completeness and wakeups of the queue. From the first and the third follows, by
  proof, `FrameIsServed`, what is safe about `RunsAreDelivered`: a frame all of whose
  predecessors were submitted is delivered, or it is in the main queue and a consumer
  is awake.
- `OneStaleLock`, `LossEndsFire` of `parallel`: the controller's
  request is not waited for, so a frame under way at the turn still publishes its
  lock, which the controller follows; but it is one frame, whatever the number of
  dropped frames. In the threaded program, unlike in the loop, no way of losing the
  target leaves a fire command latched: every lock that is sent raises the flag.
- `OnlyGarbageCrashes`, `SentryIsPaced`: see the comments in `SerialBridge`.
- `LinkConverges`: once cable, frames and commands are quiet, the link comes up for
  good, unless the send and the receive thread, in turns and for ever, catch an
  exception of the old port after the new one is up. Without that exception TLC finds
  exactly this cycle: the receive thread's late catch has the port closed while the send
  thread is between its check of the flag and its send, whose late catch has it closed
  while the receive thread reads, and so on. Either thread alone does not keep it up.
  The cycle needs a stall of about a second each time round (one thread stays for the
  protect thread's sleep between two neighbouring steps of a 5 ms cycle, or of a catch),
  so in practice a late catch costs one more repair. It is stated as an exception and
  not ruled out by an assumption, as nothing in the code excludes it.

- `AttitudeIsAround`: as long as an image is newer than what the last call ended
  with, its attitude is interpolated between samples on both sides, whatever was
  swapped or dropped. Everything else (an image read twice, two images between two
  samples, samples used up on an old image) is extrapolated backwards.
- `LoopGoesOn`: only a silent IMU stops the loop inside `q`; then it stays there, with
  the bridge repeating its last command.
- `LastDecisionWins`: ignoring a repeated message is right although the state moves on
  by itself (`AxisObeysLast`, the invariant behind it, is proved), and a restart of the manager loses no decision that
  was made after it. A decision made before is lost, and until the next the gimbal is
  commanded to (0, 0).
- `NewestIsObeyed`: what is safe about `LastDecisionWins`, with sweeps: once the queue is
  empty both axes do what the newest message says, dropped and ignored ones included.
- `SweepStaysInRange`, `SweepReachesBothEnds`: for a sweep that begins outside its
  range too.
- `RetreatWithinThree`: whatever branch was left running and whatever the readings
  were before, three ticks of low hit points outside the supply zone set the goal.
- `StandstillIsShort`: every switch of branches costs a moment without spin; the
  priorities bound a chain of them.
- `AttackForgotten`, `AttackIsKept`, `AmountsGrow`: state that is kept outside the
  tree's nodes, or in them, agrees with what the tree does, but for an enemy message
  that comes between two branches of one tick.
- `LoopGoesRound`: the detect thread must go by the main loop's mode; with the board's
  own, the loop could wait for a frame for good.
- `AimEndsWithMode`, `BuffTakesOver`: commands of both senders are interleaved after a
  change of mode, but only until the last input is too old.
- `FramesStayInOrder`: the camera's slot, the frame the detect thread keeps across a
  change of mode and the trimmed queue deliver no older frame after a newer one.
- `ExitEndsOrHangs`: the one way in which an interrupt does not end the program is
  the main loop between its check of `exiter` and `debug_pop` with an empty queue.

Four runs show that a documented statement does not hold:

- `tracking_only_fire` is documented in `sp_vision_25/configs/demo.yaml` as
  "whether firing is only allowed in the tracking state". The loop calls the
  shooter's overload that supplies the literal `"tracking"`, so it fires in
  `detecting` and `temp_lost` too.
- "The first frame after the target is lost: hold the last frame's angle"
  (comment in the loop). The flag behind it is one-shot and is also consumed by an
  aim failure while still locked; a frame that aims without a detection does not
  raise it again, so a later loss can send nothing and leave the fire flag latched.
  The run's trace is that: two aims at a target in view without fire, a frame in view
  whose aim fails (the hold is sent, the flag is down, the track goes on), a frame
  without detection that fires (`blind`), and the loss, which sends nothing. A
  command of the back camera on the loss frame is allowed: it does not fire.
- "copyTo replaced by swap, for images without a copy" (comment in the parallel
  program's `get_latest`). The swap puts the worker's previous image into the slot
  under the newest timestamp, and a second fetch before the next grab returns it.
- "This value has to grow monotonically" (comment in the bridge, of the projectile
  allowance in the sentry command). The tree's `SetSentryCmd` sends every field, the
  allowance as zero, so the next posture command takes it back.

## Fairness

- `DualCameraAim`: weak fairness of an iteration that takes at least one tick: the
  loop runs freely and time passes. It assumes that `GimbalROS::q` returns, which
  `LoopGoesOn` of `ImuQueue` derives from IMU samples arriving. `BackTakesOver` assumes moreover that the scene
  settles (front empty, enemy behind).
- `OrderedQueue`: each consumer thread keeps running. Nobody has to enqueue;
  `RunsAreDelivered` is conditional on the frames having been submitted.
- `SerialBridge`: the protect and send threads keep running (they never block for
  good). The receive thread gets no fairness: it may stay blocked in a read, and its
  catch may come at any time or never.
  `LinkConverges` starts at `calm`, from which the cable stays in, no handler throws
  and no command arrives; without that the callbacks could spoil every checksum
  and the cable could be pulled for ever.
- `ImuQueue`: the executor serves both threads and the loop runs. The camera need not
  deliver, and the IMU may stop; `LoopGoesOn` assumes that from some time on it does not.
- `GimbalManager`: callbacks are served and the timer runs, in the manager while it is
  up and in the bridge. It need not be respawned: `calm`, from which
  `LastDecisionWins` counts, begins while it is up.
- `MtStandard`: the three threads run, the camera delivers and time passes. Nobody has
  to switch a mode or to interrupt.
- `SentryTree` has no liveness property: its bounds in ticks (three, eleven) are safety.

The serial bridge's run does not check for deadlock: a crashed process has no steps
when the cable is plugged in.

## Proofs

All proofs are checked by TLAPS for every value of the constants that the named
assumptions admit (`TrackerAssumption`, `LoopAssumption`, `QueueAssumption`,
`BridgeAssumption`, `ParallelAssumption`, `ManagerAssumption`, `SentryAssumption`,
`MtAssumption`, `ImuAssumption`).

- **Aim loop.** The inductive invariant is `TypeOK` with five parts. `ClearInv`
  ties the dropped-frame counter to the frames since the turn and says the tracker
  is lost while frames are dropped: `NoLockBeforeCleared` alone is not inductive
  because it does not say how many frames are left. `CooldownInv` ties the ticks
  left of the cooldown to `quiet`; `WaitInv` says that a pending handoff is over before
  the cooldown is, which gives `DueTurnsHappen`, what is safe about `BackTakesOver`: a
  turn that is due by the cooldown happens, and the wait for the front's answer never
  decides anything (`LoopAssumption`: 800 ms and 2000 ms in the code). `OutInv` ties the hold flag to the source of
  the latched command: a fire given on a visible target has its flag up, so
  the loss finds it and sends the hold; and while the flag is up the last command
  was the front camera's. `AngleInv` says that the angle kept for the hold is then one
  of the aimer's. From them follow `TypeCorrect`, `FireReleased`,
  `DroppedFramesNeverLock`, `HoldSendsAnAim`, `TurnsKeepCooldown` and
  `TurnIsNotUndone`, and `ImplementsHandoff`: under the invariant an iteration maps to
  `Locked`, `Lost` or `Turn` of `CameraHandoff`, by its branch, and `Look` to a stutter.
- **Parallel program.** `TurnInv` follows a turn through the workers: the request is
  up exactly until a frame is begun; from then on the frames to drop are those not
  begun yet, and tracker and result stay lost; before it, the one frame under way is
  published at most once. `OneStaleLock` alone is not inductive, since it says
  nothing of the frame under way. `HoldInv` says that a command that fires has raised
  the hold's flag, that the flag is up only after a command of the front camera, and
  that while a handoff is pending the last command was the back camera's. From
  them follow `AtMostOneStaleLock`, `FireEndsWithLock` and `TurnIsNotUndone`; from
  `CooldownInv`, as in the loop, `TurnsKeepCooldown` and `DueTurnsHappen`. `ImplementsHandoff` needs all
  three: the workers' steps are stutters of `CameraHandoff`, and so is the repetition
  of the back camera's angle, because of the last part of `HoldInv`.
- **Ordered queue.** `QueueIsTheRun` and `SomeoneIsAwake` with the types are inductive,
  given lemmas on runs of ids (their type, and that adjacent runs concatenate to one)
  and on the notification: it wakes a consumer whenever it finds one asleep
  (`NotifyWakes`), so an enqueue that releases frames leaves one awake, and a consumer
  that takes the last frame may sleep. From them follow `NothingLost`, `NoWakeupLost` (for
  any number of consumers but none) and `CompleteRunsAreServed`: the id waited for was
  not submitted, so it lies behind every complete run. A dequeue
  then takes `delivered + 1`, which is what `ImplementsOrder` needs: every step of
  the queue is a `Submit`, a `Deliver` or a stutter of `FrameOrder`.
- **Attitudes' queue.** `MarkInv` follows the second sample of the last call, which
  `front` left in the queue: it stays the first until the next `pop`, whatever the
  callbacks push, so a newer image starts from a sample older than itself and waits for
  one that is not. `AttitudeOfNewImage` follows for any capacity (`ImuAssumption`), any
  number of threads and any number of images.
- **Serial bridge.** The invariant says that the port is missing exactly while the
  protect thread is at its start, that until then a flag that began low keeps both
  other threads at their tops, and that as many sleeps as packets lie behind the
  last sentry command. From it follow `CrashNeedsGarbage` and `SentryKeepsPace`. Its
  last part, `RepairInv` (the port is closed before it is opened again, and nobody else
  opens it), gives `OnlyPendingExceptionsUndoRepair`, what is safe about `LinkConverges`:
  once the board stays connected every opening of the port succeeds, and a link that is up
  throws nothing new and goes down only by the catch of an exception that was pending,
  of which there is then one fewer. A repair made while none is pending is final; one made
  while some is may be followed by another.
- **Gimbal manager.** `AxisObeysLast` with the types is inductive, and so is
  `NewestIsLast`: the newest decision is the last message of the queue, or the last
  served when the queue is empty (`QueueBounded`, `TailLast`: neither the drop of an old
  message nor a callback moves the end of a queue). Together they give
  `NewestDecisionIsObeyed`. A run of the timer
  keeps `AxisObeysLast` because of two lemmas on the arithmetic of a sweep: it ends inside the
  range from anywhere (`MovedInRange`), and it only changes the direction. What is safe about
  `SweepReachesBothEnds` is `SweepsTurnAhead`: inside the range it turns only at the end
  it was going to, because a way has the sign of its speed (`WayAhead`).
- **Sentry tree.** The properties speak of ends of ticks, the invariant of every step
  within one. `RunInv`: a branch left running has not been passed by. `WeakInv`: after a
  whole tick of weak readings nothing but the retreat is left running, after two it
  runs or has set its goal. `StillInv`: how long a branch may have gone without spin
  depends on its place in the list, as only a more urgent one can halt it.
  `StopInv` and `AttackInv`: the attack is forgotten when a stop ends, and below the
  pursuit it is over or an enemy was just seen. `AmountInv`: the largest amount is the
  last, and the next is no smaller. From them follow the theorems, one per property.
- **Multithreaded program.** `NewestIsQueued` needs `RoomForPush`: between trimming and
  push the queue can only get shorter. `AimEndsWithMode` needs `InputIsOlder` (the
  generator's input is at least as old as the end of the mode) and `TracksInMode`
  (the main loop holds a frame only in the mode). `FramesStayInOrder` needs `InOrder`,
  an invariant of the whole way: the camera's frame is newer than the detect thread's,
  that one than all in the queue, these in order among themselves and newer than the
  main loop's. It stands on the types alone and is proved apart.

`OrderedQueue` implements `FrameOrder` through
`INSTANCE FrameOrder WITH N <- N, submitted <- submitted, delivered <- delivered`: the
run `queue` checks `OrderSpec`, and `ImplementsOrder` proves it. Both aim programs
implement `CameraHandoff` through
`INSTANCE CameraHandoff WITH Cooldown <- Cooldown, by <- By, fire <- out.fire, quiet <- quiet, rested <- rested`,
each with its own `By`.

Only model-checked: the liveness properties (`BackTakesOver`, `RunsAreDelivered`,
`LinkConverges`, `LoopGoesOn`, `LastDecisionWins`, `SweepReachesBothEnds`,
`LoopGoesRound`, `BuffTakesOver`, `ExitEndsOrHangs`), which need fairness and `ENABLED`.
What is safe about five of them is stated beside them and proved: `FrameIsServed` for
`RunsAreDelivered`, `NewestIsObeyed` for `LastDecisionWins`, `TurnsWhenDue` for
`BackTakesOver`, `RepairLasts` for `LinkConverges`, `SweepTurnsAhead` for
`SweepReachesBothEnds`. Every invariant, every action property and
every refinement the passing runs check is stated by a theorem.

## Not modelled

- The numeric parts (Kalman filter, trajectories, solver, networks, buff fitting,
  planners, navigation) are free choices of the models: their results steer the
  control flow, and what they compute is arithmetic on reals out of TLC's reach.
- Vendored packages, camera SDKs (whose headers are the longest files of the
  repository), `matplotlibcpp.h`, the vendored serial library, data, simulator and
  launch files have no model. They and the numeric code are most of the lines of the
  repository, so the share that is modelled is small and stays so: the models are
  about the robot's own threads, callbacks and decisions.
- Of the bridge: its shutdown, the referee hooks and the contents of the telemetry. The
  hooks are off in the shipped configuration. Of the recorder: everything; its two
  services keep one flag, and its caller is the hooks.
- Of the tree: the nodes and trees other than `rmuc_2026.xml`'s, the client's
  cancelling, and the navigation stack behind the goals. `AmountsGrow` covers a tree that
  is lost before the first `RobotStatus` and made anew; a restart of the behaviour server's
  process, which begins the exchange counter at zero in the middle of a match, is not
  modelled, and nothing in the code would keep the amounts growing across it.
- Of `thread_pool.hpp`: the pool, which only the test programs use, and `get_size`, which
  reads without the mutex and changes nothing.
- The omnidirectional perception and the tracker's second overload, the direct-serial
  programs with their guard and reconnecting gimbal, and the asynchronous detection
  worker: see the plan.
- Torn reads of a single `double` or `bool`.

Seen on the way, and without a property because the code makes no promise that they
would break: a respawn once confirmed stays confirmed at the bridge until another
`SetSentryCmd`, and healing and evading send none; a goal is not cancelled when the
game stops or the robot heals ("wait where it is" in the tree's comment on healing);
the exchange and the respawn send posture 0, which the bridge turns into moving;
comments on the spin speed of two branches (14 and 7 rad/s) are not what the branches
set (8 and 14); a repeated pitch command restarts a yaw sweep in its first direction;
once frames stop, `CommandGener` falls silent and the board keeps the last
command, fire included; `stop_` and `exit_` are plain `bool`s shared by threads.

## Plan

What is left, in this order:

1. `RefereeHooks` and `BagRecorder`: game stage changes, the service calls from
   the receive thread, the recorder's two services (which can refuse a stop that
   follows an immediate start). Property: a match that was counted down is recorded
   until it is over.
2. `ParallelAim` composed with `CameraStream` and `ImuQueue`, so that a frame is an
   image of the stream; the controller's liveness.
3. `TrackerOmni`: the second overload of `track` with the detection queue and
   the state `switching`, added to `Tracker`'s operators.
4. `FireControl`, `GimbalLink`: the direct-serial program, its guard, its
   reconnecting read thread.
5. `CommandPath`: `GimbalManager` composed with the fire flag and `SerialBridge`'s
   command structure; the pair the board executes is at most one timer period apart.
6. Proofs: a lemma on `Track` that says which trackers a visible target can be lost
   from; that the board only ever accepts a command the structure really held; what is
   safe about `LoopGoesOn` and `LoopGoesRound` (who can still end the wait).
