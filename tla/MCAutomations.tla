--------------------------- MODULE MCAutomations ---------------------------
(* Two server processes and one automation of each kind, for TLC.          *)
EXTENDS Automations

CONSTANTS p1, p2, s1, c1

MCListed == <<s1, c1>>
MCCompletionOnly == <<c1>>
=============================================================================
