---------------------------- MODULE MCMountedVolume ----------------------------
(* A few controllers that open one store. *)
EXTENDS MountedVolume

CONSTANTS a, b, c
=============================================================================
