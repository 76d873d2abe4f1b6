----------------------------- MODULE MCGrantVault -----------------------------
(* A small instance of the vault for TLC: three grants over a cap of two. *)
EXTENDS GrantVaultRefinement

\* One model call, exhausted by its response, and a wall clock that ends before
\* the time-to-live: each way to lose authority comes before and after the
\* others.  MCGateway has grants of several calls.
MCBudgets == { [maxModelCalls |-> 1, maxTotalTokens |-> 1, maxWallClockMs |-> 1] }

=============================================================================
