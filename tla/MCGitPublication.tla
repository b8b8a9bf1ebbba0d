-------------------------- MODULE MCGitPublication --------------------------
(* Small instances of GitPublication for TLC. *)
EXTENDS GitPublication
=============================================================================
