------------------------------ MODULE GrantVault ------------------------------
(***************************************************************************)
(* The capability vault of the Warden broker (warden/grants.ts): it mints  *)
(* one grant per Run, answers every egress request from the Runtime, meters*)
(* model calls and tokens, and ends grants by revocation, by the end of    *)
(* the Run, by exhaustion or by time.                                      *)
(*                                                                         *)
(* Every method of the class is synchronous, so each is one action.  What  *)
(* interleaves is the order in which the broker's clients call them: the   *)
(* gateway (authorize, recordTokenUsage), the control server (mint, get,   *)
(* list, revoke, close) and the clock.                                     *)
(*                                                                         *)
(* A grant is named by the position of its mint: ids and tokens are fresh  *)
(* random values, and the one thing the code compares them by besides      *)
(* equality is issuedAt, whose order is the order of the mints as long as  *)
(* the broker's clock does not go back.  The destination half of the       *)
(* policy (host, port, method, address) is abstracted to whether a scope   *)
(* of the grant covers the request.                                        *)
(***************************************************************************)
EXTENDS Integers, FiniteSets

CONSTANTS
    Budgets,           \* budgets the baseline policy may hold when a Run starts
    TtlMs,             \* grantTtlMs: a grant expires this long after its mint
    MaxRetainedGrants, \* finished grants are dropped past this many
    Charges,           \* token counts one model response may be charged
    MaxMints,          \* bound: Runs of one broker lifetime
    MaxClock,          \* bound: last instant of the clock
    MaxTokens,         \* bound: tokens metered on one grant
    MaxNetworkCalls    \* bound: network calls metered on one grant

ASSUME BudgetsAssumption ==
    Budgets \subseteq [maxModelCalls : Nat, maxTotalTokens : Nat,
                       maxWallClockMs : Nat]
ASSUME BoundsAssumption ==
    /\ TtlMs \in Nat /\ MaxRetainedGrants \in Nat /\ Charges \subseteq Nat
    /\ MaxMints \in Nat /\ MaxClock \in Nat
    /\ MaxTokens \in Nat /\ MaxNetworkCalls \in Nat

VARIABLES
    now,         \* Date.now() of the broker
    minted,      \* how many grants were ever minted (none is named twice)
    grants,      \* Map: id -> Grant, for the grants still retained
    byTokenHash, \* the ids whose token hash resolves
    liveTokens,  \* the ids whose raw token is still held
    registered   \* the ids whose raw token the redactor scrubs from output

vars == <<now, minted, grants, byTokenHash, liveTokens, registered>>

-----------------------------------------------------------------------------
Statuses == {"active", "expired", "exhausted", "revoked", "closed"}
Planes   == {"model", "network"}

Grant == [status : Statuses, budget : Budgets, issuedAt : Nat,
          modelCalls : Nat, networkCalls : Nat, totalTokens : Nat]

Requests == [plane : Planes, covered : BOOLEAN]

NoToken == 0                      \* a missing or unknown credential
GrantIds == 1 .. MaxMints

ExpiresAt(grant) == grant.issuedAt + TtlMs

\* Lazy expiry: only an active grant that is read at or past its deadline.
ExpireIfDue(grant, at) ==
    IF grant.status = "active" /\ at >= ExpiresAt(grant)
    THEN [grant EXCEPT !.status = "expired"] ELSE grant

\* Mutants of Allows: one call too many; exhaustion not looked at; deadline
\* not looked at.
MutantAllowsOneMore(grant, request, nowMs) ==
    /\ grant.status \notin {"revoked", "closed", "exhausted"}
    /\ nowMs < ExpiresAt(grant)
    /\ request.covered
    /\ request.plane = "model" => grant.modelCalls <= grant.budget.maxModelCalls

MutantAllowsExhausted(grant, request, nowMs) ==
    /\ grant.status \notin {"revoked", "closed"}
    /\ nowMs < ExpiresAt(grant)
    /\ nowMs - grant.issuedAt < grant.budget.maxWallClockMs
    /\ request.covered
    /\ request.plane = "model" =>
          /\ grant.modelCalls < grant.budget.maxModelCalls
          /\ grant.totalTokens < grant.budget.maxTotalTokens

MutantAllowsOverdue(grant, request, nowMs) ==
    /\ grant.status \notin {"revoked", "closed", "exhausted"}
    /\ request.covered
    /\ request.plane = "model" => grant.modelCalls < grant.budget.maxModelCalls

(***************************************************************************)
(* The policy decision for a retained grant, without the code of a refusal.*)
(* There is no test for the status "expired": the deadline is compared     *)
(* with the caller's nowMs instead.                                        *)
(***************************************************************************)
Allows(grant, request, nowMs) ==
    /\ grant.status \notin {"revoked", "closed", "exhausted"}
    /\ nowMs < ExpiresAt(grant)
    /\ nowMs - grant.issuedAt < grant.budget.maxWallClockMs
    /\ request.covered
    /\ request.plane = "model" =>
          /\ grant.modelCalls < grant.budget.maxModelCalls
          /\ grant.totalTokens < grant.budget.maxTotalTokens

\* Mutants of Reserve: a model call counted twice; a model call not counted.
MutantReserveTwice(grant, plane) ==
    IF plane = "model" THEN [grant EXCEPT !.modelCalls = @ + 2]
                       ELSE [grant EXCEPT !.networkCalls = @ + 1]

MutantReserveNetworkOnly(grant, plane) ==
    IF plane = "model" THEN grant ELSE [grant EXCEPT !.networkCalls = @ + 1]

\* One call is reserved at the moment it is allowed, before it is made.
Reserve(grant, plane) ==
    IF plane = "model" THEN [grant EXCEPT !.modelCalls = @ + 1]
                       ELSE [grant EXCEPT !.networkCalls = @ + 1]

\* The grants evictClosed may drop, and those it does drop: the oldest ones,
\* and no more of them than the map is over its cap.
Evictable(gs) == {g \in DOMAIN gs : gs[g].status \in {"closed", "expired"}}

\* Mutant of Evicted: the newest finished grants go first.
MutantEvictedNewest(gs) ==
    {g \in Evictable(gs) :
        Cardinality({h \in Evictable(gs) : h > g})
            < Cardinality(DOMAIN gs) - MaxRetainedGrants}

Evicted(gs) ==
    {g \in Evictable(gs) :
        Cardinality({h \in Evictable(gs) : h < g})
            < Cardinality(DOMAIN gs) - MaxRetainedGrants}

-----------------------------------------------------------------------------
Init ==
    /\ now = 0
    /\ minted = 0
    /\ grants = [g \in {} |-> g]
    /\ byTokenHash = {}
    /\ liveTokens = {}
    /\ registered = {}

Tick ==
    /\ now < MaxClock
    /\ now' = now + 1
    /\ UNCHANGED <<minted, grants, byTokenHash, liveTokens, registered>>

\* Mutant of Mint: an evicted grant stays in the token index.
MutantMintKeepsHash(budget) ==
    LET id    == minted + 1
        fresh == [status |-> "active", budget |-> budget, issuedAt |-> now,
                  modelCalls |-> 0, networkCalls |-> 0, totalTokens |-> 0]
        all   == [g \in DOMAIN grants \cup {id} |->
                     IF g = id THEN fresh ELSE grants[g]]
        gone  == Evicted(all)
    IN  /\ minted < MaxMints
        /\ now + TtlMs <= MaxClock
        /\ minted' = id
        /\ grants' = [g \in DOMAIN all \ gone |-> all[g]]
        /\ byTokenHash' = byTokenHash \cup {id}
        /\ liveTokens' = (liveTokens \cup {id}) \ gone
        /\ registered' = registered \cup {id}
        /\ UNCHANGED now

Mint(budget) ==
    LET id    == minted + 1
        fresh == [status |-> "active", budget |-> budget, issuedAt |-> now,
                  modelCalls |-> 0, networkCalls |-> 0, totalTokens |-> 0]
        all   == [g \in DOMAIN grants \cup {id} |->
                     IF g = id THEN fresh ELSE grants[g]]
        gone  == Evicted(all)
    IN  /\ minted < MaxMints
        /\ now + TtlMs <= MaxClock     \* bound: the clock reaches its deadline
        /\ minted' = id
        /\ grants' = [g \in DOMAIN all \ gone |-> all[g]]
        /\ byTokenHash' = (byTokenHash \cup {id}) \ gone
        /\ liveTokens' = (liveTokens \cup {id}) \ gone
        /\ registered' = registered \cup {id}
        /\ UNCHANGED now

(***************************************************************************)
(* authorize: the caller read Date.now() as nowMs before the vault reads   *)
(* its own clock, and the millisecond may turn in between (late = 1).      *)
(***************************************************************************)
Authorize(token, request, late) ==
    LET at       == now + late
        snapshot == ExpireIfDue(grants[token], at)
    IN  /\ at <= MaxClock
        /\ now' = at
        /\ IF token \in byTokenHash /\ token \in DOMAIN grants
           THEN /\ request.plane = "network" =>
                       grants[token].networkCalls < MaxNetworkCalls
                /\ grants' = [grants EXCEPT ![token] =
                       IF Allows(snapshot, request, now)
                       THEN Reserve(snapshot, request.plane) ELSE snapshot]
           ELSE UNCHANGED grants
        /\ UNCHANGED <<minted, byTokenHash, liveTokens, registered>>

\* Mutant of RecordTokenUsage: an ended grant is not metered any more.
MutantRecordLiveOnly(g, tokens) ==
    /\ g \in DOMAIN grants
    /\ grants[g].totalTokens + tokens <= MaxTokens
    /\ grants' = [grants EXCEPT ![g].totalTokens =
                     IF grants[g].status = "active" THEN @ + tokens ELSE @]
    /\ UNCHANGED <<now, minted, byTokenHash, liveTokens, registered>>

\* The tokens of one finished model response: never refused, whatever the
\* status of the grant, and only an active grant is exhausted by them.
RecordTokenUsage(g, tokens) ==
    /\ g \in DOMAIN grants
    /\ grants[g].totalTokens + tokens <= MaxTokens
    /\ LET total == grants[g].totalTokens + tokens
       IN  grants' = [grants EXCEPT
               ![g].totalTokens = total,
               ![g].status = IF /\ @ = "active"
                                /\ total >= grants[g].budget.maxTotalTokens
                             THEN "exhausted" ELSE @]
    /\ UNCHANGED <<now, minted, byTokenHash, liveTokens, registered>>

Revoke(g) ==
    /\ g \in DOMAIN grants
    /\ grants' = [grants EXCEPT ![g].status =
                     IF @ \in {"active", "exhausted"} THEN "revoked" ELSE @]
    /\ UNCHANGED <<now, minted, byTokenHash, liveTokens, registered>>

\* Mutant of Close: the raw token is no longer scrubbed but still held.
MutantCloseKeepsToken(g) ==
    /\ g \in DOMAIN grants
    /\ grants' = [grants EXCEPT ![g].status =
                     IF @ = "active" THEN "closed" ELSE @]
    /\ registered' = registered \ (liveTokens \cap {g})
    /\ UNCHANGED <<now, minted, byTokenHash, liveTokens>>

\* The Run is over: an active grant is closed, and whatever ended the grant
\* before, its raw token is dropped and no longer scrubbed.
Close(g) ==
    /\ g \in DOMAIN grants
    /\ grants' = [grants EXCEPT ![g].status =
                     IF @ = "active" THEN "closed" ELSE @]
    /\ liveTokens' = liveTokens \ {g}
    /\ registered' = registered \ (liveTokens \cap {g})
    /\ UNCHANGED <<now, minted, byTokenHash>>

\* get(id) and list(): reading a grant is what expires it.
Get(g) ==
    /\ g \in DOMAIN grants
    /\ grants' = [grants EXCEPT ![g] = ExpireIfDue(@, now)]
    /\ UNCHANGED <<now, minted, byTokenHash, liveTokens, registered>>

List ==
    /\ grants' = [g \in DOMAIN grants |-> ExpireIfDue(grants[g], now)]
    /\ UNCHANGED <<now, minted, byTokenHash, liveTokens, registered>>

Next ==
    \/ Tick
    \/ \E budget \in Budgets : Mint(budget)
    \/ \E token \in GrantIds \cup {NoToken}, request \in Requests, late \in 0 .. 1 :
          Authorize(token, request, late)
    \/ \E g \in GrantIds, tokens \in Charges : RecordTokenUsage(g, tokens)
    \/ \E g \in GrantIds : Revoke(g)
    \/ \E g \in GrantIds : Close(g)
    \/ \E g \in GrantIds : Get(g)
    \/ List

Spec == Init /\ [][Next]_vars

\* Time passes; nothing obliges anyone to look at a grant.
FairSpec == Spec /\ WF_vars(Tick)

-----------------------------------------------------------------------------
TypeOK ==
    /\ now \in Nat
    /\ minted \in Nat
    /\ DOMAIN grants \subseteq 1 .. minted
    /\ grants \in [DOMAIN grants -> Grant]
    /\ byTokenHash = DOMAIN grants
    /\ liveTokens \subseteq DOMAIN grants
    /\ registered \subseteq 1 .. minted

\* However calls, responses, revocations and re-reads interleave, the Runtime
\* is never allowed more model calls than its grant was minted with (the call
\* is reserved inside authorize, grants.ts:143-147).
CallBudgetHolds ==
    \A g \in DOMAIN grants :
        grants[g].modelCalls <= grants[g].budget.maxModelCalls

\* As long as a grant can still authorize a call, its raw token is scrubbed
\* from everything the Runtime prints; so is every raw token the vault holds.
UsableTokenIsRedacted ==
    /\ \A g \in DOMAIN grants : grants[g].status = "active" => g \in registered
    /\ liveTokens \subseteq registered

\* A call of either plane is metered only on a grant that was active before
\* the step, before its deadline and within its wall-clock budget; a model
\* call also only below the token budget.  In particular exhaustion by tokens
\* ends the network plane too, and nothing revives an ended grant.
OnlyLiveGrantsSpend ==
    [][\A g \in DOMAIN grants \cap DOMAIN grants' :
         LET before == grants[g] after == grants'[g]
         IN  after.modelCalls + after.networkCalls
               > before.modelCalls + before.networkCalls
             => /\ before.status = "active"
                /\ now < ExpiresAt(before)
                /\ now < before.issuedAt + before.budget.maxWallClockMs
                /\ after.modelCalls > before.modelCalls =>
                      before.totalTokens < before.budget.maxTotalTokens]_vars

\* What eviction may do (grants.ts:66-70): it drops finished grants only, the
\* oldest first, no more than needed, and a mint that leaves the map over its
\* cap has left no finished grant in it.
EvictionKeepsEvidence ==
    [][LET gone == DOMAIN grants \ DOMAIN grants'
           over == Cardinality(DOMAIN grants') > MaxRetainedGrants
       IN  /\ \A g \in gone : grants[g].status \in {"closed", "expired"}
           /\ \A g \in gone, h \in Evictable(grants') : g < h
           /\ gone # {} => Cardinality(DOMAIN grants') >= MaxRetainedGrants
           /\ (minted' # minted /\ over) => Evictable(grants') = {}]_vars

CanSpend(g) ==
    /\ g \in DOMAIN grants
    /\ \E request \in Requests : Allows(grants[g], request, now)

\* The time-to-live needs nobody's help: every grant comes to a point after
\* which it never again authorizes anything, even if no one reads, closes or
\* revokes it.
AuthorityExpires ==
    \A g \in GrantIds : (g \in DOMAIN grants) ~> [](~CanSpend(g))

=============================================================================
