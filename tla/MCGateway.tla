------------------------------ MODULE MCGateway ------------------------------
(* Small instances of the gateway for TLC. *)
EXTENDS Gateway, TLC

\* One or two model calls and two tokens: requests compete for the last call,
\* and one response can exhaust the grant while another is in flight.
MCBudgets == { [maxModelCalls |-> n, maxTotalTokens |-> 2, maxWallClockMs |-> 9]
                 : n \in 1 .. 2 }

CallSymmetry == Permutations(Calls)

=============================================================================
