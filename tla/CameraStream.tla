---------------------------- MODULE CameraStream ----------------------------
(* The camera stream of the parallel aim program,                          *)
(* sp_vision_25/src/sentry_dual_sn_ros.cpp lines 30-72: a grabbing thread  *)
(* and one worker hand images over in a slot, by swapping.  An image is    *)
(* the number of its exposure, 0 no image; a timestamp is the number of    *)
(* the image it belongs to.                                                *)
EXTENDS Naturals

CONSTANT MaxImages      \* bound: images the camera delivers

VARIABLES
  slot,     \* latest_frame_.img
  stamp,    \* latest_frame_.timestamp
  grabbed,  \* images read from the camera
  held,     \* the worker's img, kept from one call to the next
  got       \* the timestamp the last call gave, 0 if it returned false

vars == <<slot, stamp, grabbed, held, got>>

Init == slot = 0 /\ stamp = 0 /\ grabbed = 0 /\ held = 0 /\ got = 0

\* grab_loop() reads an image and puts it into the slot, with its time.
Grab ==
  /\ grabbed < MaxImages
  /\ grabbed' = grabbed + 1
  /\ slot' = grabbed'
  /\ stamp' = grabbed'
  /\ UNCHANGED <<held, got>>

\* get_latest() finds an empty slot.
GetNothing ==
  /\ slot = 0
  /\ got' = 0
  /\ UNCHANGED <<slot, stamp, grabbed, held>>

\* get_latest() swaps the worker's image for the slot's and copies the time.
GetLatest ==
  /\ slot # 0
  /\ held' = slot
  /\ slot' = held
  /\ got' = stamp
  /\ UNCHANGED <<stamp, grabbed>>

Next == Grab \/ GetNothing \/ GetLatest

Spec == Init /\ [][Next]_vars

(* What a call hands out is an image with its own time, as it would if the *)
(* slot were copied: lines 48-50 present the swap as the same without the  *)
(* copy.                                                                   *)
ImageHasItsTime == got # 0 => held = got
=============================================================================
