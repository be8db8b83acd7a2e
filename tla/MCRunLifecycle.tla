--------------------------- MODULE MCRunLifecycle ---------------------------
(* Small instances of the run lifecycle for TLC.  The plan keeps one stage of *)
(* each leg: what the legs share (export) and what only one of them has.      *)
EXTENDS RunLifecycle, TLC

CONSTANTS srv, cli

ThreeStages == <<"rank", "revise", "export">>
OneStage == <<"export">>

\* Bounds on the environment: total events in all, each of those kinds at most
\* once, resumes twice.
AtMost(total, kinds) ==
    [e \in Events |-> CASE e = "any" -> total
                        [] e = "resume" -> 2
                        [] e \in kinds -> 1
                        [] OTHER -> 0]

Anything  == AtMost(3, Events)
Takeovers == AtMost(3, {"limited", "crash", "stall", "progress"})
Cancels   == AtMost(2, {"cancel"})
Resumes   == AtMost(3, {"feedback"})
=============================================================================
