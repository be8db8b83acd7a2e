-------------------------- MODULE MCConversations --------------------------
(* One conversation with its approvers as model values for TLC.            *)
EXTENDS Conversations

CONSTANT a1
=============================================================================
