--------------------------- MODULE MCAgentSession ---------------------------
(* The agent session with the tools of its calls chosen for TLC.           *)
EXTENDS AgentSession

CONSTANTS e1, r1

MCTool == [c \in {e1, r1} |-> IF c = e1 THEN "search_sources" ELSE "query_run_events"]
=============================================================================
