---------------------------- MODULE MCWorkspace ----------------------------
(* Workspace with a named row for TLC. *)
EXTENDS Workspace

CONSTANT r1
=============================================================================
