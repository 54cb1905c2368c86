--------------------------- MODULE MCFairLimiter ---------------------------
(* Two calls without priority, of two bytes, and one with it, of one byte. *)
EXTENDS FairLimiter, TLC

CONSTANTS bulk1, bulk2, urgent

MCRequests == {bulk1, bulk2, urgent}
MCSize     == (bulk1 :> 2) @@ (bulk2 :> 2) @@ (urgent :> 1)
MCPriority == {urgent}
=============================================================================
