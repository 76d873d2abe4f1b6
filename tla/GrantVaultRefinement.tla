------------------------- MODULE GrantVaultRefinement -------------------------
(***************************************************************************)
(* The vault keeps the promise of GrantLifecycle.  A grant that was minted *)
(* and is no longer retained is over: eviction forgets it, which changes   *)
(* nothing for its holder.                                                 *)
(***************************************************************************)
EXTENDS GrantVault

PhaseOf(g) ==
    IF g \in DOMAIN grants
    THEN IF grants[g].status = "active" THEN "live" ELSE "over"
    ELSE IF g <= minted THEN "over" ELSE "unissued"

CreditOf(g) ==
    IF g \in DOMAIN grants /\ grants[g].status = "active"
    THEN grants[g].budget.maxModelCalls - grants[g].modelCalls ELSE 0

Lifecycle == INSTANCE GrantLifecycle WITH
    Grants  <- GrantIds,
    Credits <- {budget.maxModelCalls : budget \in Budgets},
    phase   <- [g \in GrantIds |-> PhaseOf(g)],
    credit  <- [g \in GrantIds |-> CreditOf(g)]

\* Every behaviour of the vault (grants.ts) is a behaviour of the abstract
\* capability: issued once, spent one call at a time, ended once, for good.
ImplementsLifecycle == Lifecycle!Spec

=============================================================================
