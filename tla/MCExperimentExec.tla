-------------------------- MODULE MCExperimentExec --------------------------
(* Small instances of the two-store experiment execution for TLC. *)
EXTENDS ExperimentExec, TLC

CONSTANTS j1, j2, w1, w2, e1, e2, s1, s2, d1, d2, local

MCDeviceOf == [w \in Workers |-> local]
MCMaxRunning == [w \in Workers |-> 2]
OneDataset == [s \in Specs |-> d1]
TwoDatasets == [s \in Specs |-> IF s = s1 THEN d1 ELSE d2]

Symmetry == Permutations(Workers)
=============================================================================
