---------------------------- MODULE GrantLifecycle ----------------------------
(***************************************************************************)
(* What a capability promises, whoever keeps it: it is issued once with a  *)
(* finite credit of model calls, spends the credit one call at a time, and *)
(* ends once.  Nothing revives it or adds to its credit.                   *)
(***************************************************************************)
EXTENDS Integers

CONSTANTS
    Grants,   \* names of grants
    Credits   \* credits a grant may be issued with

VARIABLES
    phase,    \* grant -> "unissued", "live" or "over"
    credit    \* grant -> model calls it may still make

lifecycleVars == <<phase, credit>>

Init ==
    /\ phase = [g \in Grants |-> "unissued"]
    /\ credit = [g \in Grants |-> 0]

Issue(g, n) ==
    /\ phase[g] = "unissued"
    /\ phase' = [phase EXCEPT ![g] = "live"]
    /\ credit' = [credit EXCEPT ![g] = n]

Spend(g) ==
    /\ phase[g] = "live"
    /\ credit[g] > 0
    /\ credit' = [credit EXCEPT ![g] = @ - 1]
    /\ UNCHANGED phase

\* Some live grants end together (a listing may find several overdue).
End(S) ==
    /\ \A g \in S : phase[g] = "live"
    /\ phase' = [g \in Grants |-> IF g \in S THEN "over" ELSE phase[g]]
    /\ credit' = [g \in Grants |-> IF g \in S THEN 0 ELSE credit[g]]

Next ==
    \/ \E g \in Grants, n \in Credits : Issue(g, n)
    \/ \E g \in Grants : Spend(g)
    \/ \E S \in SUBSET Grants : End(S)

Spec == Init /\ [][Next]_lifecycleVars

=============================================================================
