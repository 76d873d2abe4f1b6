--------------------------- MODULE GrantVaultProofs ---------------------------
(***************************************************************************)
(* Machine-checked proofs about the vault, for every value of its          *)
(* constants.                                                              *)
(***************************************************************************)
EXTENDS GrantVaultRefinement, FiniteSetTheorems, TLAPS

USE DEF GrantIds, NoToken

-----------------------------------------------------------------------------
(* What the helpers of the vault return. *)

\* Reading a grant, reserving a call on it or leaving it alone yields a grant.
LEMMA ExpireIfDueType ==
    ASSUME NEW grant \in Grant, NEW at \in Nat
    PROVE  /\ ExpireIfDue(grant, at) \in Grant
           /\ ExpireIfDue(grant, at).budget = grant.budget
           /\ ExpireIfDue(grant, at).issuedAt = grant.issuedAt
           /\ ExpireIfDue(grant, at).modelCalls = grant.modelCalls
           /\ ExpireIfDue(grant, at).networkCalls = grant.networkCalls
           /\ ExpireIfDue(grant, at).totalTokens = grant.totalTokens
           /\ ExpireIfDue(grant, at).status \in {grant.status, "expired"}
           /\ ExpireIfDue(grant, at).status # grant.status =>
                 grant.status = "active"
    BY DEF ExpireIfDue, Grant, Statuses

\* A reservation only counts one call up.
LEMMA ReserveType ==
    ASSUME NEW grant \in Grant, NEW plane \in Planes
    PROVE  /\ Reserve(grant, plane) \in Grant
           /\ Reserve(grant, plane).budget = grant.budget
           /\ Reserve(grant, plane).issuedAt = grant.issuedAt
           /\ Reserve(grant, plane).status = grant.status
           /\ Reserve(grant, plane).totalTokens = grant.totalTokens
           /\ plane = "model" =>
                 /\ Reserve(grant, plane).modelCalls = grant.modelCalls + 1
                 /\ Reserve(grant, plane).networkCalls = grant.networkCalls
           /\ plane # "model" =>
                 /\ Reserve(grant, plane).modelCalls = grant.modelCalls
                 /\ Reserve(grant, plane).networkCalls = grant.networkCalls + 1
    BY DEF Reserve, Grant, Planes

(***************************************************************************)
(* What authorize leaves in the map, seen as one grant: either the grant   *)
(* as read, or that with one more call, and then the policy allowed it.    *)
(***************************************************************************)
AuthorizedGrant(grant, request, at) ==
    LET snapshot == ExpireIfDue(grant, at)
    IN  IF Allows(snapshot, request, now)
        THEN Reserve(snapshot, request.plane) ELSE snapshot

LEMMA AuthorizedGrantType ==
    ASSUME NEW grant \in Grant, NEW request \in Requests, NEW at \in Nat
    PROVE  AuthorizedGrant(grant, request, at) \in Grant
    BY ExpireIfDueType, ReserveType DEF AuthorizedGrant, Requests

\* Authorize changes at most the presented grant, into AuthorizedGrant.
LEMMA AuthorizeEffect ==
    ASSUME TypeOK, NEW token \in GrantIds \cup {NoToken},
           NEW request \in Requests, NEW late \in 0 .. 1,
           Authorize(token, request, late)
    PROVE  /\ now' = now + late
           /\ DOMAIN grants' = DOMAIN grants
           /\ \A g \in DOMAIN grants :
                 grants'[g] = IF g = token
                              THEN AuthorizedGrant(grants[g], request, now + late)
                              ELSE grants[g]
           /\ grants' \in [DOMAIN grants -> Grant]
           /\ UNCHANGED <<minted, byTokenHash, liveTokens, registered>>
  <1>1. now + late \in Nat
    BY DEF TypeOK
  <1>2. CASE token \in DOMAIN grants
    <2>1. grants' = [grants EXCEPT
                 ![token] = AuthorizedGrant(grants[token], request, now + late)]
      BY <1>2 DEF Authorize, AuthorizedGrant, TypeOK
    <2>2. AuthorizedGrant(grants[token], request, now + late) \in Grant
      BY <1>1, <1>2, AuthorizedGrantType DEF TypeOK
    <2>3. QED
      BY <2>1, <2>2 DEF Authorize, TypeOK
  <1>3. CASE token \notin DOMAIN grants
    BY <1>3 DEF Authorize, TypeOK
  <1>4. QED
    BY <1>2, <1>3

-----------------------------------------------------------------------------
(* Type correctness *)

LEMMA MintEffect ==
    ASSUME TypeOK, NEW budget \in Budgets, Mint(budget)
    PROVE  /\ DOMAIN grants' \subseteq DOMAIN grants \cup {minted + 1}
           /\ DOMAIN grants \ DOMAIN grants' \subseteq
                 {g \in DOMAIN grants : grants[g].status \in {"closed", "expired"}}
           /\ minted + 1 \in DOMAIN grants'
           /\ grants'[minted + 1] =
                 [status |-> "active", budget |-> budget, issuedAt |-> now,
                  modelCalls |-> 0, networkCalls |-> 0, totalTokens |-> 0]
           /\ \A g \in DOMAIN grants' \ {minted + 1} : grants'[g] = grants[g]
           /\ grants' \in [DOMAIN grants' -> Grant]
           /\ byTokenHash' = DOMAIN grants'
           /\ liveTokens' = (liveTokens \cup {minted + 1}) \cap DOMAIN grants'
  <1> DEFINE id    == minted + 1
             fresh == [status |-> "active", budget |-> budget, issuedAt |-> now,
                       modelCalls |-> 0, networkCalls |-> 0, totalTokens |-> 0]
             all   == [g \in DOMAIN grants \cup {id} |->
                          IF g = id THEN fresh ELSE grants[g]]
  <1>1. fresh \in Grant
    BY DEF Grant, Statuses, TypeOK
  <1>2. id \notin DOMAIN grants
    BY DEF TypeOK
  <1>3. all \in [DOMAIN grants \cup {id} -> Grant]
    BY <1>1 DEF TypeOK
  <1>4. all[id] = fresh /\ \A g \in DOMAIN grants : all[g] = grants[g]
    BY <1>2
  <1>5. Evicted(all) \subseteq
           {g \in DOMAIN grants : grants[g].status \in {"closed", "expired"}}
    BY <1>2, <1>3, <1>4 DEF Evicted, Evictable
  <1>6. /\ grants' = [g \in DOMAIN all \ Evicted(all) |-> all[g]]
        /\ byTokenHash' = (byTokenHash \cup {id}) \ Evicted(all)
        /\ liveTokens' = (liveTokens \cup {id}) \ Evicted(all)
    BY DEF Mint
  <1> HIDE DEF all
  <1>7. id \notin Evicted(all)
    BY <1>2, <1>5
  <1>8. DOMAIN grants' = (DOMAIN grants \cup {id}) \ Evicted(all)
    BY <1>3, <1>6
  <1>9. \A g \in DOMAIN grants' : grants'[g] = all[g]
    BY <1>6
  <1>10. QED
    BY <1>3, <1>4, <1>5, <1>6, <1>7, <1>8, <1>9, <1>2 DEF TypeOK

\* Metering tokens, none included, leaves a well-formed vault.
LEMMA RecordType ==
    ASSUME TypeOK, NEW g, NEW tokens \in Nat, RecordTokenUsage(g, tokens)
    PROVE  TypeOK'
  <1> DEFINE total == grants[g].totalTokens + tokens
  <1>1. PICK status \in Statuses :
           grants' = [grants EXCEPT ![g] = [@ EXCEPT !.totalTokens = total,
                                                     !.status = status]]
    BY DEF RecordTokenUsage, TypeOK, Grant, Statuses
  <1>2. total \in Nat
    BY DEF RecordTokenUsage, TypeOK, Grant
  <1>3. [grants[g] EXCEPT !.totalTokens = total, !.status = status] \in Grant
    BY <1>2 DEF RecordTokenUsage, TypeOK, Grant
  <1>4. grants' \in [DOMAIN grants -> Grant]
    BY <1>1, <1>3 DEF RecordTokenUsage, TypeOK
  <1>5. QED
    BY <1>4 DEF RecordTokenUsage, TypeOK

LEMMA TypeOKStep == TypeOK /\ [Next]_vars => TypeOK'
  <1> SUFFICES ASSUME TypeOK, [Next]_vars PROVE TypeOK'
    OBVIOUS
  <1> USE BoundsAssumption
  <1>1. CASE Tick
    BY <1>1 DEF Tick, TypeOK
  <1>2. ASSUME NEW budget \in Budgets, Mint(budget) PROVE TypeOK'
    <2>1. now' = now /\ minted' = minted + 1 /\ registered' = registered \cup {minted + 1}
      BY <1>2 DEF Mint
    <2>2. /\ DOMAIN grants' \subseteq DOMAIN grants \cup {minted + 1}
          /\ grants' \in [DOMAIN grants' -> Grant]
          /\ byTokenHash' = DOMAIN grants'
          /\ liveTokens' \subseteq DOMAIN grants'
      BY <1>2, MintEffect
    <2>3. QED
      BY <2>1, <2>2 DEF TypeOK
  <1>3. ASSUME NEW token \in GrantIds \cup {NoToken}, NEW request \in Requests,
               NEW late \in 0 .. 1, Authorize(token, request, late)
        PROVE  TypeOK'
    BY <1>3, AuthorizeEffect DEF TypeOK
  <1>4. ASSUME NEW g \in GrantIds, NEW tokens \in Charges, RecordTokenUsage(g, tokens)
        PROVE  TypeOK'
    BY <1>4, RecordType
  <1>5. ASSUME NEW g \in GrantIds, Revoke(g) PROVE TypeOK'
    <2>1. grants' \in [DOMAIN grants -> Grant]
      BY <1>5 DEF Revoke, TypeOK, Grant, Statuses
    <2>2. QED
      BY <1>5, <2>1 DEF Revoke, TypeOK
  <1>6. ASSUME NEW g \in GrantIds, Close(g) PROVE TypeOK'
    <2>1. grants' \in [DOMAIN grants -> Grant]
      BY <1>6 DEF Close, TypeOK, Grant, Statuses
    <2>2. QED
      BY <1>6, <2>1 DEF Close, TypeOK
  <1>7. ASSUME NEW g \in GrantIds, Get(g) PROVE TypeOK'
    <2>1. grants' \in [DOMAIN grants -> Grant]
      BY <1>7, ExpireIfDueType DEF Get, TypeOK
    <2>2. QED
      BY <1>7, <2>1 DEF Get, TypeOK
  <1>8. CASE List
    <2>1. grants' \in [DOMAIN grants -> Grant]
      BY <1>8, ExpireIfDueType DEF List, TypeOK
    <2>2. QED
      BY <1>8, <2>1 DEF List, TypeOK
  <1>9. CASE UNCHANGED vars
    BY <1>9 DEF vars, TypeOK
  <1>10. QED
    BY <1>1, <1>2, <1>3, <1>4, <1>5, <1>6, <1>7, <1>8, <1>9 DEF Next

\* The state of the vault stays well formed: retained grants are minted ones,
\* the token index covers exactly the retained grants, raw tokens are held for
\* retained grants only.
THEOREM TypeCorrect == Spec => []TypeOK
  <1>1. Init => TypeOK
    BY DEF Init, TypeOK, Grant
  <1>2. QED
    BY <1>1, TypeOKStep, PTL DEF Spec

-----------------------------------------------------------------------------
(***************************************************************************)
(* The call budget and the liveness of whoever spends.                     *)
(*                                                                         *)
(* Neither follows from the types.  The policy does not look for the       *)
(* status "expired", so that an expired grant spends nothing rests on its  *)
(* deadline having passed and on the clock not going back.                 *)
(***************************************************************************)
ExpiredIsPast ==
    \A g \in DOMAIN grants :
        grants[g].status = "expired" => now >= ExpiresAt(grants[g])

BudgetInv == TypeOK /\ CallBudgetHolds /\ ExpiredIsPast

\* A call metered between two versions of one grant, with the instant at
\* which the policy looked.
Metered(before, after, at) ==
    /\ before.status = "active"
    /\ at < ExpiresAt(before)
    /\ at < before.issuedAt + before.budget.maxWallClockMs
    /\ \/ /\ after.modelCalls = before.modelCalls + 1
          /\ after.networkCalls = before.networkCalls
          /\ before.modelCalls < before.budget.maxModelCalls
          /\ before.totalTokens < before.budget.maxTotalTokens
       \/ /\ after.modelCalls = before.modelCalls
          /\ after.networkCalls = before.networkCalls + 1

\* What one step may make of a grant that is retained before and after it.
Successor(before, after, at) ==
    /\ after.budget = before.budget
    /\ after.issuedAt = before.issuedAt
    /\ after.status = "active" => before.status = "active"
    /\ after.status = "expired" =>
          before.status = "expired" \/ now' >= ExpiresAt(before)
    /\ \/ /\ after.modelCalls = before.modelCalls
          /\ after.networkCalls = before.networkCalls
       \/ Metered(before, after, at)

\* The heart of the argument: authorize meters a call only on a live grant.
LEMMA AuthorizedGrantSuccessor ==
    ASSUME NEW grant \in Grant, NEW request \in Requests, NEW late \in 0 .. 1,
           now \in Nat, now' = now + late,
           grant.status = "expired" => now >= ExpiresAt(grant)
    PROVE  Successor(grant, AuthorizedGrant(grant, request, now + late), now)
  <1> DEFINE at       == now + late
             snapshot == ExpireIfDue(grant, at)
  <1>1. at \in Nat /\ at >= now
    OBVIOUS
  <1>2. /\ snapshot.status = "expired" => grant.status = "expired" \/ at >= ExpiresAt(grant)
        /\ snapshot.status = "active" => grant.status = "active"
    BY DEF ExpireIfDue, Grant
  <1>3. CASE ~Allows(snapshot, request, now)
    BY <1>1, <1>2, <1>3, ExpireIfDueType DEF AuthorizedGrant, Successor
  <1>4. CASE Allows(snapshot, request, now)
    <2>1. /\ now < ExpiresAt(grant)
          /\ now - grant.issuedAt < grant.budget.maxWallClockMs
          /\ request.plane = "model" =>
                /\ grant.modelCalls < grant.budget.maxModelCalls
                /\ grant.totalTokens < grant.budget.maxTotalTokens
          /\ snapshot.status \notin {"revoked", "closed", "exhausted"}
      BY <1>1, <1>4, ExpireIfDueType DEF Allows, ExpiresAt
    <2>2. grant.status = "active"
      BY <1>1, <2>1, ExpireIfDueType, BoundsAssumption DEF Grant, Statuses, ExpiresAt
    <2>3. request.plane \in Planes /\ snapshot \in Grant
      BY <1>1, ExpireIfDueType DEF Requests
    <2>4. AuthorizedGrant(grant, request, at) = Reserve(snapshot, request.plane)
      BY <1>4 DEF AuthorizedGrant
    <2>5. now < grant.issuedAt + grant.budget.maxWallClockMs
      BY <2>1, BudgetsAssumption DEF Grant
    <2> DEFINE after == AuthorizedGrant(grant, request, at)
    <2>6. /\ after.budget = grant.budget
          /\ after.issuedAt = grant.issuedAt
          /\ after.status = snapshot.status
      BY <1>1, <2>3, <2>4, ExpireIfDueType, ReserveType
    <2>7. /\ snapshot.modelCalls = grant.modelCalls
          /\ snapshot.networkCalls = grant.networkCalls
      BY <1>1, ExpireIfDueType
    <2> HIDE DEF snapshot
    <2>8. /\ request.plane = "model" =>
                /\ after.modelCalls = grant.modelCalls + 1
                /\ after.networkCalls = grant.networkCalls
          /\ request.plane # "model" =>
                /\ after.modelCalls = grant.modelCalls
                /\ after.networkCalls = grant.networkCalls + 1
      BY <2>3, <2>4, <2>7, ReserveType
    <2> HIDE DEF after
    <2>9. Metered(grant, after, now)
      BY <2>1, <2>2, <2>5, <2>8 DEF Metered
    <2>10. Successor(grant, after, now)
      BY <1>2, <2>6, <2>9 DEF Successor
    <2>11. QED
      BY <2>10 DEF after
  <1>5. QED
    BY <1>3, <1>4

(***************************************************************************)
(* Every step, seen from one retained grant: it is new, or its successor.  *)
(***************************************************************************)
VaultEffect ==
    /\ now' \in Nat /\ now' >= now
    /\ \A g \in DOMAIN grants' \ DOMAIN grants :
          grants'[g].modelCalls = 0 /\ grants'[g].status = "active"
    /\ \A g \in DOMAIN grants \cap DOMAIN grants' :
          Successor(grants[g], grants'[g], now)

LEMMA StepEffect ==
    ASSUME TypeOK, ExpiredIsPast, [Next]_vars
    PROVE  VaultEffect
  <1> USE DEF VaultEffect
  <1>0. \A g \in DOMAIN grants : Successor(grants[g], grants[g], now)
    BY DEF Successor
  <1>1. CASE Tick
    BY <1>0, <1>1 DEF Tick, TypeOK
  <1>2. ASSUME NEW budget \in Budgets, Mint(budget) PROVE VaultEffect
    <2>1. /\ DOMAIN grants' \subseteq DOMAIN grants \cup {minted + 1}
          /\ grants'[minted + 1] =
                [status |-> "active", budget |-> budget, issuedAt |-> now,
                 modelCalls |-> 0, networkCalls |-> 0, totalTokens |-> 0]
          /\ \A g \in DOMAIN grants' \ {minted + 1} : grants'[g] = grants[g]
      BY <1>2, MintEffect
    <2>2. minted + 1 \notin DOMAIN grants /\ now' = now
      BY <1>2 DEF TypeOK, Mint
    <2>3. QED
      BY <1>0, <2>1, <2>2 DEF TypeOK
  <1>3. ASSUME NEW token \in GrantIds \cup {NoToken}, NEW request \in Requests,
               NEW late \in 0 .. 1, Authorize(token, request, late)
        PROVE  VaultEffect
    <2>1. /\ now' = now + late
          /\ DOMAIN grants' = DOMAIN grants
          /\ \A g \in DOMAIN grants :
                grants'[g] = IF g = token
                             THEN AuthorizedGrant(grants[g], request, now + late)
                             ELSE grants[g]
      BY <1>3, AuthorizeEffect
    <2>2. ASSUME NEW g \in DOMAIN grants
          PROVE  Successor(grants[g], grants'[g], now)
      BY <1>0, <2>1, <2>2, AuthorizedGrantSuccessor DEF TypeOK, ExpiredIsPast
    <2>3. QED
      BY <2>1, <2>2 DEF TypeOK
  <1>4. ASSUME NEW g \in GrantIds, NEW tokens \in Charges, RecordTokenUsage(g, tokens)
        PROVE  VaultEffect
    BY <1>0, <1>4 DEF RecordTokenUsage, Successor, TypeOK, Grant
  <1>5. ASSUME NEW g \in GrantIds, Revoke(g) PROVE VaultEffect
    BY <1>0, <1>5 DEF Revoke, Successor, TypeOK, Grant
  <1>6. ASSUME NEW g \in GrantIds, Close(g) PROVE VaultEffect
    BY <1>0, <1>6 DEF Close, Successor, TypeOK, Grant
  <1>7. ASSUME NEW g \in GrantIds, Get(g) PROVE VaultEffect
    BY <1>0, <1>7 DEF Get, ExpireIfDue, Successor, TypeOK, Grant
  <1>8. CASE List
    BY <1>8 DEF List, ExpireIfDue, Successor, TypeOK, Grant
  <1>9. CASE UNCHANGED vars
    BY <1>0, <1>9 DEF vars, TypeOK
  <1>10. QED
    BY <1>1, <1>2, <1>3, <1>4, <1>5, <1>6, <1>7, <1>8, <1>9 DEF Next

\* Steps of that kind keep the invariant, whoever takes them.
LEMMA BudgetInvByEffect ==
    ASSUME BudgetInv, TypeOK', VaultEffect
    PROVE  BudgetInv'
  <1>1. TypeOK /\ TypeOK'
    BY DEF BudgetInv
  <1>2. /\ now' \in Nat /\ now' >= now
        /\ \A g \in DOMAIN grants' \ DOMAIN grants :
              grants'[g].modelCalls = 0 /\ grants'[g].status = "active"
        /\ \A g \in DOMAIN grants \cap DOMAIN grants' :
              Successor(grants[g], grants'[g], now)
    BY DEF VaultEffect
  <1>3. CallBudgetHolds'
    <2> SUFFICES ASSUME NEW g \in DOMAIN grants'
                 PROVE  grants'[g].modelCalls <= grants'[g].budget.maxModelCalls
      BY DEF CallBudgetHolds
    <2>1. grants'[g].budget.maxModelCalls \in Nat
      BY <1>1, BudgetsAssumption DEF TypeOK, Grant
    <2>2. CASE g \notin DOMAIN grants
      BY <1>2, <2>1, <2>2
    <2>3. CASE g \in DOMAIN grants
      <3>1. grants[g].modelCalls <= grants[g].budget.maxModelCalls
        BY <2>3 DEF BudgetInv, CallBudgetHolds
      <3>2. Successor(grants[g], grants'[g], now)
        BY <1>2, <2>3
      <3>3. grants[g].modelCalls \in Nat
        BY <1>1, <2>3 DEF TypeOK, Grant
      <3>4. QED
        BY <2>1, <3>1, <3>2, <3>3 DEF Successor, Metered
    <2>4. QED
      BY <2>2, <2>3
  <1>4. ExpiredIsPast'
    <2> SUFFICES ASSUME NEW g \in DOMAIN grants', grants'[g].status = "expired"
                 PROVE  now' >= ExpiresAt(grants'[g])
      BY DEF ExpiredIsPast, ExpiresAt
    <2>1. g \in DOMAIN grants /\ Successor(grants[g], grants'[g], now)
      BY <1>2
    <2>2. grants'[g].issuedAt = grants[g].issuedAt /\ grants[g].issuedAt \in Nat
      BY <1>1, <2>1 DEF Successor, TypeOK, Grant
    <2>3. grants[g].status = "expired" => now >= grants[g].issuedAt + TtlMs
      BY <2>1 DEF BudgetInv, ExpiredIsPast, ExpiresAt
    <2>4. QED
      BY <1>1, <1>2, <2>1, <2>2, <2>3, BoundsAssumption
      DEF Successor, ExpiresAt, TypeOK
  <1>5. QED
    BY <1>1, <1>3, <1>4 DEF BudgetInv

LEMMA BudgetInvStep == BudgetInv /\ [Next]_vars => BudgetInv'
  BY TypeOKStep, StepEffect, BudgetInvByEffect DEF BudgetInv

LEMMA BudgetInvInit == Init => BudgetInv
  BY DEF Init, BudgetInv, TypeOK, Grant, CallBudgetHolds, ExpiredIsPast

\* No order of calls, responses, revocations, re-reads and mints lets a grant
\* be metered for more model calls than its budget allows.
THEOREM CallBudget == Spec => []CallBudgetHolds
  <1>1. BudgetInv => CallBudgetHolds
    BY DEF BudgetInv
  <1>2. QED
    BY <1>1, BudgetInvInit, BudgetInvStep, PTL DEF Spec

\* A call is metered only on a grant that is active, before its deadline and
\* within its wall clock; a model call only below the token budget.
THEOREM OnlyLiveSpend == Spec => OnlyLiveGrantsSpend
  <1> DEFINE Live ==
        \A g \in DOMAIN grants \cap DOMAIN grants' :
         LET before == grants[g] after == grants'[g]
         IN  after.modelCalls + after.networkCalls
               > before.modelCalls + before.networkCalls
             => /\ before.status = "active"
                /\ now < ExpiresAt(before)
                /\ now < before.issuedAt + before.budget.maxWallClockMs
                /\ after.modelCalls > before.modelCalls =>
                      before.totalTokens < before.budget.maxTotalTokens
  <1>1. BudgetInv /\ [Next]_vars => Live
    <2> SUFFICES ASSUME BudgetInv, [Next]_vars,
                        NEW g \in DOMAIN grants \cap DOMAIN grants'
                 PROVE  LET before == grants[g] after == grants'[g]
                        IN  after.modelCalls + after.networkCalls
                              > before.modelCalls + before.networkCalls
                            => /\ before.status = "active"
                               /\ now < ExpiresAt(before)
                               /\ now < before.issuedAt + before.budget.maxWallClockMs
                               /\ after.modelCalls > before.modelCalls =>
                                     before.totalTokens < before.budget.maxTotalTokens
      OBVIOUS
    <2>1. Successor(grants[g], grants'[g], now)
      BY StepEffect DEF BudgetInv, VaultEffect
    <2>2. grants[g].modelCalls \in Nat /\ grants[g].networkCalls \in Nat
      BY DEF BudgetInv, TypeOK, Grant
    <2>3. QED
      BY <2>1, <2>2 DEF Successor, Metered
  <1>2. QED
    BY <1>1, BudgetInvInit, BudgetInvStep, PTL DEF Spec, OnlyLiveGrantsSpend

-----------------------------------------------------------------------------
(* Redaction *)

LEMMA RedactionStep ==
    ASSUME BudgetInv, UsableTokenIsRedacted, [Next]_vars
    PROVE  UsableTokenIsRedacted'
  <1>1. \A g \in DOMAIN grants \cap DOMAIN grants' :
           grants'[g].status = "active" => grants[g].status = "active"
    BY StepEffect DEF BudgetInv, VaultEffect, Successor
  <1>2. ASSUME NEW budget \in Budgets, Mint(budget) PROVE UsableTokenIsRedacted'
    <2>1. /\ registered' = registered \cup {minted + 1}
          /\ DOMAIN grants' \subseteq DOMAIN grants \cup {minted + 1}
          /\ liveTokens' \subseteq liveTokens \cup {minted + 1}
      BY <1>2, MintEffect DEF Mint, BudgetInv
    <2>2. QED
      BY <1>1, <2>1 DEF UsableTokenIsRedacted
  <1>3. ASSUME NEW g \in GrantIds, Close(g) PROVE UsableTokenIsRedacted'
    <2>1. /\ DOMAIN grants' = DOMAIN grants
          /\ grants'[g].status # "active"
          /\ liveTokens' = liveTokens \ {g}
          /\ registered \ {g} \subseteq registered'
      BY <1>3 DEF Close, BudgetInv, TypeOK, Grant
    <2>2. QED
      BY <1>1, <2>1 DEF UsableTokenIsRedacted
  <1>4. CASE /\ DOMAIN grants' = DOMAIN grants
             /\ UNCHANGED <<liveTokens, registered>>
    BY <1>1, <1>4 DEF UsableTokenIsRedacted
  <1>5. ASSUME NEW token \in GrantIds \cup {NoToken}, NEW request \in Requests,
               NEW late \in 0 .. 1, Authorize(token, request, late)
        PROVE  UsableTokenIsRedacted'
    BY <1>4, <1>5, AuthorizeEffect DEF BudgetInv
  <1>6. CASE Tick \/ List \/ UNCHANGED vars
    BY <1>4, <1>6 DEF Tick, List, vars
  <1>7. ASSUME NEW g \in GrantIds,
               \/ \E tokens \in Charges : RecordTokenUsage(g, tokens)
               \/ Revoke(g) \/ Get(g)
        PROVE  UsableTokenIsRedacted'
    BY <1>4, <1>7 DEF RecordTokenUsage, Revoke, Get
  <1>8. QED
    BY <1>2, <1>3, <1>5, <1>6, <1>7 DEF Next

\* A grant that can authorize is one whose raw token the redactor scrubs, and
\* no raw token is held that it does not scrub.
THEOREM Redaction == Spec => []UsableTokenIsRedacted
  <1>1. Init => UsableTokenIsRedacted
    BY DEF Init, UsableTokenIsRedacted
  <1>2. BudgetInv /\ UsableTokenIsRedacted /\ [Next]_vars => UsableTokenIsRedacted'
    BY RedactionStep
  <1>3. QED
    BY <1>1, <1>2, BudgetInvInit, BudgetInvStep, PTL DEF Spec

-----------------------------------------------------------------------------
(* Eviction *)

\* How many members of a set of ids are older than an id.
Rank(E, g) == Cardinality({h \in E : h < g})

\* Older ids have smaller ranks, so that no two share one, and all of them
\* together take every rank there is.
LEMMA Ranks ==
    ASSUME NEW E \in SUBSET Nat, IsFiniteSet(E)
    PROVE  /\ \A g \in E : Rank(E, g) \in 0 .. Cardinality(E) - 1
           /\ \A g, h \in E : g < h => Rank(E, g) < Rank(E, h)
           /\ \A r \in 0 .. Cardinality(E) - 1 : \E g \in E : Rank(E, g) = r
  <1> DEFINE Older(g) == {h \in E : h < g}
  <1>0. Cardinality(E) \in Nat
    BY FS_CardinalityType
  <1>1. \A g \in E : IsFiniteSet(Older(g)) /\ Cardinality(Older(g)) \in Nat
    BY FS_Subset, FS_CardinalityType
  <1>2. \A g \in E : Cardinality(Older(g)) < Cardinality(E)
    <2> SUFFICES ASSUME NEW g \in E
                 PROVE  Cardinality(Older(g)) < Cardinality(E)
      OBVIOUS
    <2>1. Older(g) \in SUBSET E /\ Older(g) # E
      OBVIOUS
    <2> HIDE DEF Older
    <2>2. QED
      BY <1>0, <1>1, <2>1, FS_Subset
  <1>3. \A g, h \in E : g < h => Cardinality(Older(g)) < Cardinality(Older(h))
    <2> SUFFICES ASSUME NEW g \in E, NEW h \in E, g < h
                 PROVE  Cardinality(Older(g)) < Cardinality(Older(h))
      OBVIOUS
    <2>1. Older(g) \in SUBSET Older(h)
      <3>1. \A x \in E : x < g => x < h
        OBVIOUS
      <3>2. QED
        BY <3>1
    <2>3. g \in Older(h) /\ g \notin Older(g)
      OBVIOUS
    <2> HIDE DEF Older
    <2>2. QED
      BY <1>1, <2>1, <2>3, FS_Subset
  <1>4. \A r \in 0 .. Cardinality(E) - 1 : \E g \in E : Cardinality(Older(g)) = r
    <2> DEFINE ranks == 0 .. Cardinality(E) - 1
               f     == [g \in E |-> Cardinality(Older(g))]
    <2>1. IsFiniteSet(ranks) /\ Cardinality(ranks) = Cardinality(E)
      <3>1. 0 \in Int /\ Cardinality(E) - 1 \in Int
        BY <1>0
      <3>2. IsFiniteSet(ranks) /\ Cardinality(ranks) =
               IF 0 > Cardinality(E) - 1 THEN 0 ELSE (Cardinality(E) - 1) - 0 + 1
        BY <3>1, FS_Interval
      <3>3. QED
        BY <1>0, <3>2
    <2>2. f \in [E -> ranks]
      BY <1>0, <1>1, <1>2
    <2>3. \A g, h \in E : f[g] = f[h] => g = h
      <3> SUFFICES ASSUME NEW g \in E, NEW h \in E, g # h
                   PROVE  Cardinality(Older(g)) # Cardinality(Older(h))
        OBVIOUS
      <3>1. g < h \/ h < g
        OBVIOUS
      <3> HIDE DEF Older
      <3>2. QED
        BY <1>1, <1>3, <3>1
    <2> HIDE DEF ranks
    <2>4. f \in Injection(E, ranks)
      BY <2>2, <2>3 DEF Injection, IsInjective
    <2>5. f \in Surjection(E, ranks)
      BY <2>1, <2>4, FS_Injection
    <2>6. QED
      BY <2>5 DEF Surjection, ranks
  <1>5. \A g : Rank(E, g) = Cardinality(Older(g))
    BY DEF Rank
  <1> HIDE DEF Older
  <1>6. \A g \in E : Rank(E, g) \in 0 .. Cardinality(E) - 1
    BY <1>0, <1>1, <1>2, <1>5
  <1>7. QED
    BY <1>3, <1>4, <1>5, <1>6

\* The k oldest of a set of ids are k, or all of them.
LEMMA OldestCount ==
    ASSUME NEW E \in SUBSET Nat, IsFiniteSet(E), NEW k \in Nat,
           NEW S, S = {g \in E : Rank(E, g) < k}
    PROVE  /\ IsFiniteSet(S)
           /\ Cardinality(S) <= k
           /\ Cardinality(S) < k => S = E
  <1> DEFINE ranks == 0 .. k - 1
             f     == [g \in S |-> Rank(E, g)]
  <1>0. Cardinality(E) \in Nat
    BY FS_CardinalityType
  <1>1. IsFiniteSet(ranks) /\ Cardinality(ranks) = k
    BY FS_Interval
  <1>2. /\ \A g \in E : Rank(E, g) \in 0 .. Cardinality(E) - 1
        /\ \A g, h \in E : g < h => Rank(E, g) < Rank(E, h)
        /\ \A r \in 0 .. Cardinality(E) - 1 : \E g \in E : Rank(E, g) = r
    BY Ranks
  <1>3. f \in [S -> ranks]
    <2>1. \A g \in S : Rank(E, g) \in Nat /\ Rank(E, g) < k
      BY <1>0, <1>2
    <2>2. \A g \in S : Rank(E, g) \in ranks
      BY <2>1
    <2> HIDE DEF ranks
    <2>3. QED
      BY <2>2
  <1>4. \A g, h \in S : f[g] = f[h] => g = h
    <2> SUFFICES ASSUME NEW g \in S, NEW h \in S, g # h
                 PROVE  Rank(E, g) # Rank(E, h)
      OBVIOUS
    <2>1. g < h \/ h < g
      OBVIOUS
    <2>2. QED
      BY <1>0, <1>2, <2>1
  <1> HIDE DEF ranks
  <1>5. f \in Injection(S, ranks)
    BY <1>3, <1>4 DEF Injection, IsInjective
  <1>6. /\ IsFiniteSet(S) /\ Cardinality(S) <= Cardinality(ranks)
        /\ f \in Surjection(S, ranks) => Cardinality(S) = Cardinality(ranks)
    BY <1>1, <1>5, FS_Injection
  <1>7. CASE k > Cardinality(E)
    <2>1. \A g \in E : Rank(E, g) < k
      BY <1>0, <1>2, <1>7
    <2>2. S = E
      BY <2>1
    <2>3. QED
      BY <1>1, <1>6, <2>2
  <1>8. CASE k <= Cardinality(E)
    <2>1. \A r \in ranks : \E g \in S : f[g] = r
      BY <1>0, <1>2, <1>8 DEF ranks
    <2>2. f \in Surjection(S, ranks)
      BY <1>3, <2>1 DEF Surjection
    <2>3. QED
      BY <1>1, <1>6, <2>2
  <1>9. QED
    BY <1>0, <1>7, <1>8

\* What a mint evicts: the oldest finished grants, as many as the map is over
\* its cap, or all there are.
LEMMA EvictedEffect ==
    ASSUME NEW gs, IsFiniteSet(DOMAIN gs), DOMAIN gs \in SUBSET Nat,
           NEW kept, kept = DOMAIN gs \ Evicted(gs)
    PROVE  /\ \A g \in Evicted(gs), h \in Evictable(gs) \ Evicted(gs) : g < h
           /\ Evicted(gs) # {} => Cardinality(kept) >= MaxRetainedGrants
           /\ Cardinality(kept) > MaxRetainedGrants => Evicted(gs) = Evictable(gs)
  <1> DEFINE E == Evictable(gs)
             k == Cardinality(DOMAIN gs) - MaxRetainedGrants
  <1>1. /\ E \in SUBSET Nat /\ E \subseteq DOMAIN gs
        /\ IsFiniteSet(E)
        /\ Evicted(gs) = {g \in E : Rank(E, g) < k}
    BY FS_Subset DEF Evictable, Evicted, Rank
  <1>2. /\ Cardinality(DOMAIN gs) \in Nat /\ Cardinality(E) \in Nat /\ k \in Int
        /\ MaxRetainedGrants \in Nat
    BY <1>1, FS_CardinalityType, BoundsAssumption
  <1> HIDE DEF E
  <1>3. \A g \in E : Rank(E, g) \in Nat
    BY <1>1, <1>2, Ranks
  <1>4. \A g \in Evicted(gs), h \in E \ Evicted(gs) : g < h
    <2> SUFFICES ASSUME NEW g \in E, NEW h \in E, Rank(E, g) < k, ~(Rank(E, h) < k)
                 PROVE  g < h
      BY <1>1
    <2>1. g \in Nat /\ h \in Nat /\ g # h
      BY <1>1
    <2>2. h < g => Rank(E, h) < Rank(E, g)
      BY <1>1, Ranks
    <2>3. QED
      BY <1>2, <1>3, <2>1, <2>2
  <1>5. CASE k <= 0
    <2>1. Evicted(gs) = {}
      <3>1. \A g \in E : ~(Rank(E, g) < k)
        BY <1>2, <1>3, <1>5
      <3>2. QED
        BY <1>1, <3>1
    <2>2. Cardinality(kept) = Cardinality(DOMAIN gs)
      BY <2>1
    <2>3. QED
      BY <1>2, <1>4, <1>5, <2>1, <2>2 DEF E
  <1>6. CASE k > 0
    <2> DEFINE S == Evicted(gs)
    <2>1. k \in Nat
      BY <1>2, <1>6
    <2> HIDE DEF k
    <2>2. IsFiniteSet(S) /\ Cardinality(S) <= k /\ (Cardinality(S) < k => S = E)
      BY <1>1, <2>1, OldestCount
    <2>3. Cardinality(S) \in Nat /\ S \cap DOMAIN gs = S /\ DOMAIN gs \cap S = S
      BY <1>1, <2>2, FS_CardinalityType
    <2>4. kept = DOMAIN gs \ S
      OBVIOUS
    <2> HIDE DEF S
    <2>5. Cardinality(kept) = Cardinality(DOMAIN gs) - Cardinality(S)
      <3>1. Cardinality(DOMAIN gs \ S)
               = Cardinality(DOMAIN gs) - Cardinality(DOMAIN gs \cap S)
        BY FS_Difference
      <3>2. DOMAIN gs \cap S = S
        BY <2>3
      <3>3. QED
        BY <2>4, <3>1, <3>2
    <2>6. /\ Cardinality(kept) >= MaxRetainedGrants
          /\ Cardinality(kept) > MaxRetainedGrants => S = E
      BY <1>2, <2>2, <2>3, <2>5 DEF k
    <2>7. QED
      BY <1>4, <2>6 DEF E, S
  <1>7. QED
    BY <1>2, <1>5, <1>6

\* Eviction drops finished grants only, the oldest first and no more than it
\* must; a mint that leaves the map over its cap leaves no finished grant in it.
THEOREM EvictionKeeps == Spec => EvictionKeepsEvidence
  <1> DEFINE Keeps ==
        LET gone == DOMAIN grants \ DOMAIN grants'
            over == Cardinality(DOMAIN grants') > MaxRetainedGrants
        IN  /\ \A g \in gone : grants[g].status \in {"closed", "expired"}
            /\ \A g \in gone, h \in Evictable(grants') : g < h
            /\ gone # {} => Cardinality(DOMAIN grants') >= MaxRetainedGrants
            /\ (minted' # minted /\ over) => Evictable(grants') = {}
  <1>1. ASSUME TypeOK, NEW budget \in Budgets, Mint(budget) PROVE Keeps
    <2> DEFINE id    == minted + 1
               fresh == [status |-> "active", budget |-> budget, issuedAt |-> now,
                         modelCalls |-> 0, networkCalls |-> 0, totalTokens |-> 0]
               all   == [g \in DOMAIN grants \cup {id} |->
                            IF g = id THEN fresh ELSE grants[g]]
    <2>1. id \notin DOMAIN grants /\ id \in Nat /\ minted \in Nat
      BY <1>1 DEF TypeOK
    <2>2. /\ DOMAIN all = DOMAIN grants \cup {id}
          /\ all[id].status = "active"
          /\ \A g \in DOMAIN grants : all[g] = grants[g]
      BY <2>1
    <2>3. grants' = [g \in DOMAIN all \ Evicted(all) |-> all[g]]
      BY <1>1 DEF Mint
    <2> HIDE DEF all
    <2>4. Evicted(all) \subseteq Evictable(all) /\ Evictable(all) \subseteq DOMAIN grants
      BY <2>2 DEF Evicted, Evictable
    <2>5. /\ DOMAIN grants' = DOMAIN all \ Evicted(all)
          /\ \A g \in DOMAIN grants' : grants'[g] = all[g]
      BY <2>3
    <2>6. IsFiniteSet(DOMAIN all) /\ DOMAIN all \in SUBSET Nat
      <3>1. DOMAIN all \in SUBSET (1 .. id) /\ DOMAIN all \in SUBSET Nat
        BY <1>1, <2>1, <2>2 DEF TypeOK
      <3>2. IsFiniteSet(1 .. id)
        BY <2>1, FS_Interval
      <3>3. QED
        BY <3>1, <3>2, FS_Subset
    <2>7. Evictable(grants') = Evictable(all) \ Evicted(all)
      BY <2>5 DEF Evictable
    <2>8. DOMAIN grants \ DOMAIN grants' = Evicted(all)
      BY <2>2, <2>4, <2>5
    <2>9. \A g \in Evicted(all) : grants[g].status \in {"closed", "expired"}
      BY <2>2, <2>4 DEF Evictable
    <2>10. QED
      BY <2>5, <2>6, <2>7, <2>8, <2>9, EvictedEffect
  <1>2. ASSUME DOMAIN grants' = DOMAIN grants, minted' = minted PROVE Keeps
    BY <1>2
  <1>3. TypeOK /\ [Next]_vars => Keeps
    <2> SUFFICES ASSUME TypeOK, [Next]_vars PROVE Keeps
      OBVIOUS
    <2>1. ASSUME NEW token \in GrantIds \cup {NoToken}, NEW request \in Requests,
                 NEW late \in 0 .. 1, Authorize(token, request, late)
          PROVE  Keeps
      BY <1>2, <2>1, AuthorizeEffect
    <2>2. CASE Tick \/ List \/ UNCHANGED vars
      BY <1>2, <2>2 DEF Tick, List, vars
    <2>3. ASSUME NEW g \in GrantIds,
                 \/ \E tokens \in Charges : RecordTokenUsage(g, tokens)
                 \/ Revoke(g) \/ Close(g) \/ Get(g)
          PROVE  Keeps
      BY <1>2, <2>3 DEF RecordTokenUsage, Revoke, Close, Get
    <2>4. QED
      BY <1>1, <2>1, <2>2, <2>3 DEF Next
  <1>4. Init => TypeOK
    BY DEF Init, TypeOK, Grant
  <1>5. QED
    BY <1>3, <1>4, TypeOKStep, PTL DEF Spec, EvictionKeepsEvidence

-----------------------------------------------------------------------------
(* The vault implements the abstract capability. *)

phaseBar  == [g \in GrantIds |-> PhaseOf(g)]
creditBar == [g \in GrantIds |-> CreditOf(g)]

\* A step that mints nothing, meters no model call on a grant it leaves active
\* and revives none is an end of some live grants (or of none).
LEMMA EndingStep ==
    ASSUME BudgetInv, DOMAIN grants' = DOMAIN grants, minted' = minted,
           \A g \in DOMAIN grants :
              /\ grants'[g].budget = grants[g].budget
              /\ grants'[g].status = "active" =>
                    /\ grants[g].status = "active"
                    /\ grants'[g].modelCalls = grants[g].modelCalls
    PROVE  Lifecycle!Next
  <1> DEFINE S == {g \in GrantIds : PhaseOf(g) = "live" /\ PhaseOf(g)' # "live"}
  <1>1. \A g \in S : phaseBar[g] = "live"
    BY DEF phaseBar
  <1>2. \A g \in GrantIds : PhaseOf(g)' = IF g \in S THEN "over" ELSE PhaseOf(g)
    BY DEF PhaseOf
  <1>3. \A g \in GrantIds : CreditOf(g)' = IF g \in S THEN 0 ELSE CreditOf(g)
    BY DEF PhaseOf, CreditOf
  <1> HIDE DEF S
  <1>4. phaseBar' = [g \in GrantIds |-> IF g \in S THEN "over" ELSE phaseBar[g]]
    BY <1>2 DEF phaseBar
  <1>5. creditBar' = [g \in GrantIds |-> IF g \in S THEN 0 ELSE creditBar[g]]
    BY <1>3 DEF creditBar
  <1>6. S \in SUBSET GrantIds
    BY DEF S
  <1>7. QED
    BY <1>1, <1>4, <1>5, <1>6 DEF Lifecycle!Next, Lifecycle!End, phaseBar, creditBar

LEMMA MintIssues ==
    ASSUME BudgetInv, NEW budget \in Budgets, Mint(budget)
    PROVE  Lifecycle!Next
  <1>0. PICK id \in GrantIds : id = minted + 1
    BY BoundsAssumption DEF Mint, BudgetInv, TypeOK
  <1>1. /\ minted \in Nat /\ minted' = id /\ id \notin DOMAIN grants
        /\ \A g \in DOMAIN grants : g <= minted
    BY <1>0 DEF Mint, BudgetInv, TypeOK
  <1>2. /\ DOMAIN grants' \subseteq DOMAIN grants \cup {id}
        /\ DOMAIN grants \ DOMAIN grants' \subseteq
              {g \in DOMAIN grants : grants[g].status \in {"closed", "expired"}}
        /\ id \in DOMAIN grants'
        /\ grants'[id] =
              [status |-> "active", budget |-> budget, issuedAt |-> now,
               modelCalls |-> 0, networkCalls |-> 0, totalTokens |-> 0]
        /\ \A g \in DOMAIN grants' \ {id} : grants'[g] = grants[g]
    BY <1>0, MintEffect DEF BudgetInv
  <1>3. PhaseOf(id) = "unissued" /\ PhaseOf(id)' = "live"
    BY <1>0, <1>1, <1>2 DEF PhaseOf
  <1>4. budget.maxModelCalls \in Nat
    BY BudgetsAssumption
  <1>5. CreditOf(id)' = budget.maxModelCalls
    BY <1>1, <1>2, <1>4 DEF CreditOf
  <1>6. ASSUME NEW g \in GrantIds, g # id
        PROVE  PhaseOf(g)' = PhaseOf(g) /\ CreditOf(g)' = CreditOf(g)
    <2>1. (g <= minted') <=> (g <= minted)
      BY <1>0, <1>1, <1>6
    <2>2. CASE g \in DOMAIN grants'
      BY <1>2, <1>6, <2>1, <2>2 DEF PhaseOf, CreditOf
    <2>3. CASE g \notin DOMAIN grants'
      <3>1. g \in DOMAIN grants => g <= minted /\ grants[g].status # "active"
        BY <1>1, <1>2, <2>3
      <3>2. QED
        BY <2>1, <2>3, <3>1 DEF PhaseOf, CreditOf
    <2>4. QED
      BY <2>2, <2>3
  <1>7. phaseBar' = [phaseBar EXCEPT ![id] = "live"]
    BY <1>1, <1>3, <1>6 DEF phaseBar
  <1>8. creditBar' = [creditBar EXCEPT ![id] = budget.maxModelCalls]
    BY <1>1, <1>5, <1>6 DEF creditBar
  <1>9. phaseBar[id] = "unissued"
    BY <1>1, <1>3 DEF phaseBar
  <1>10. Lifecycle!Issue(id, budget.maxModelCalls)
    BY <1>7, <1>8, <1>9 DEF Lifecycle!Issue, phaseBar, creditBar
  <1>11. QED
    BY <1>10 DEF Lifecycle!Next

LEMMA AuthorizeSpendsOrEnds ==
    ASSUME BudgetInv, NEW token \in GrantIds \cup {NoToken},
           NEW request \in Requests, NEW late \in 0 .. 1,
           Authorize(token, request, late)
    PROVE  Lifecycle!Next
  <1>1. /\ DOMAIN grants' = DOMAIN grants /\ minted' = minted
        /\ \A g \in DOMAIN grants \ {token} : grants'[g] = grants[g]
    BY AuthorizeEffect DEF BudgetInv
  <1>2. \A g \in DOMAIN grants : Successor(grants[g], grants'[g], now)
    BY <1>1, StepEffect DEF BudgetInv, VaultEffect, Next
  <1>3. CASE \A g \in DOMAIN grants :
                grants'[g].status = "active" =>
                   grants'[g].modelCalls = grants[g].modelCalls
    BY <1>1, <1>2, <1>3, EndingStep DEF Successor
  <1>4. CASE /\ token \in DOMAIN grants
             /\ grants'[token].status = "active"
             /\ grants'[token].modelCalls # grants[token].modelCalls
    <2>1. /\ grants[token].status = "active"
          /\ grants'[token].budget = grants[token].budget
          /\ grants'[token].modelCalls = grants[token].modelCalls + 1
          /\ grants[token].modelCalls < grants[token].budget.maxModelCalls
      BY <1>2, <1>4 DEF Successor, Metered
    <2>2. /\ grants[token].modelCalls \in Nat
          /\ grants[token].budget.maxModelCalls \in Nat
          /\ token \in GrantIds
      BY <1>4, BudgetsAssumption DEF BudgetInv, TypeOK, Grant
    <2>3. /\ PhaseOf(token) = "live"
          /\ CreditOf(token) > 0
          /\ CreditOf(token)' = CreditOf(token) - 1
      BY <1>1, <1>4, <2>1, <2>2 DEF PhaseOf, CreditOf
    <2>4. \A g \in GrantIds : PhaseOf(g)' = PhaseOf(g)
      BY <1>1, <1>4, <2>1 DEF PhaseOf
    <2>5. \A g \in GrantIds \ {token} : CreditOf(g)' = CreditOf(g)
      BY <1>1 DEF CreditOf
    <2>6. phaseBar' = phaseBar
      BY <2>4 DEF phaseBar
    <2>7. creditBar' = [creditBar EXCEPT ![token] = @ - 1]
      BY <2>2, <2>3, <2>5 DEF creditBar
    <2>8. phaseBar[token] = "live" /\ creditBar[token] > 0
      BY <2>2, <2>3 DEF phaseBar, creditBar
    <2>9. QED
      BY <2>2, <2>6, <2>7, <2>8 DEF Lifecycle!Next, Lifecycle!Spend, phaseBar, creditBar
  <1>5. QED
    BY <1>1, <1>3, <1>4

\* The vault is a capability: whatever happens to a grant in the vault is an
\* issue, a spend or an end of the abstract one, or nothing to its holder.
THEOREM Implements == Spec => ImplementsLifecycle
  <1>1. Init => Lifecycle!Init
    BY DEF Init, Lifecycle!Init, PhaseOf, CreditOf
  <1>2. BudgetInv /\ [Next]_vars => [Lifecycle!Next]_(Lifecycle!lifecycleVars)
    <2> SUFFICES ASSUME BudgetInv, [Next]_vars
                 PROVE  Lifecycle!Next \/ UNCHANGED Lifecycle!lifecycleVars
      OBVIOUS
    <2>1. CASE \E budget \in Budgets : Mint(budget)
      BY <2>1, MintIssues
    <2>2. CASE \E token \in GrantIds \cup {NoToken}, request \in Requests,
                  late \in 0 .. 1 : Authorize(token, request, late)
      BY <2>2, AuthorizeSpendsOrEnds
    <2>3. CASE /\ DOMAIN grants' = DOMAIN grants
               /\ minted' = minted
               /\ \A g \in DOMAIN grants :
                     grants'[g].modelCalls = grants[g].modelCalls
      <3>1. \A g \in DOMAIN grants : Successor(grants[g], grants'[g], now)
        BY <2>3, StepEffect DEF BudgetInv, VaultEffect
      <3>2. QED
        BY <2>3, <3>1, EndingStep DEF Successor
    <2>4. CASE Tick \/ UNCHANGED vars
      BY <2>3, <2>4 DEF Tick, vars
    <2>5. CASE \E g \in GrantIds, tokens \in Charges : RecordTokenUsage(g, tokens)
      BY <2>3, <2>5 DEF RecordTokenUsage, BudgetInv, TypeOK, Grant
    <2>6. CASE \E g \in GrantIds : Revoke(g) \/ Close(g)
      BY <2>3, <2>6 DEF Revoke, Close, BudgetInv, TypeOK, Grant
    <2>7. CASE (\E g \in GrantIds : Get(g)) \/ List
      <3>1. /\ DOMAIN grants' = DOMAIN grants
            /\ minted' = minted
            /\ \A g \in DOMAIN grants :
                  grants'[g] \in {grants[g], ExpireIfDue(grants[g], now)}
        BY <2>7 DEF Get, List, BudgetInv, TypeOK
      <3>2. \A g \in DOMAIN grants :
               ExpireIfDue(grants[g], now).modelCalls = grants[g].modelCalls
        BY ExpireIfDueType DEF BudgetInv, TypeOK
      <3>3. QED
        BY <2>3, <3>1, <3>2
    <2>8. QED
      BY <2>1, <2>2, <2>4, <2>5, <2>6, <2>7 DEF Next
  <1>3. QED
    BY <1>1, <1>2, BudgetInvInit, BudgetInvStep, PTL
    DEF Spec, ImplementsLifecycle, Lifecycle!Spec

=============================================================================
