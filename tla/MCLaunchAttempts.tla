-------------------------- MODULE MCLaunchAttempts --------------------------
(* An instance of LaunchAttempts for TLC: two Issues of one parent. *)
EXTENDS LaunchAttempts

CONSTANTS i1, i2
=============================================================================
