------------------------ MODULE MCInvocationApprovals ------------------------
(* Small instances of InvocationApprovals for TLC. *)
EXTENDS InvocationApprovals

CONSTANTS web, other, bot, a1, a2
=============================================================================
