-------------------------- MODULE MCGimbalManager --------------------------
(* The gimbal manager with two pairs of angles, one of them where it       *)
(* starts, the other outside the ranges of the one pair of sweeps, of      *)
(* which the pitch turns round at its ends and the yaw goes round.         *)
EXTENDS GimbalManager

To(a) == [type |-> "absolute", pos |-> a, vel |-> 0, lo |-> 0, hi |-> 0]
Sweep(v, l, h) == [type |-> "velocity", pos |-> 0, vel |-> v, lo |-> l, hi |-> h]

MCAxes == {"pitch", "yaw"}
MCMessages == { [pitch |-> To(0), yaw |-> To(0)],
                [pitch |-> To(2), yaw |-> To(3)],
                [pitch |-> Sweep(1, -1, 1), yaw |-> Sweep(-1, -2, 2)] }
=============================================================================
