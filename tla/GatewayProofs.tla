----------------------------- MODULE GatewayProofs -----------------------------
(***************************************************************************)
(* Machine-checked proofs about the egress gateway, for every set of calls *)
(* and every value of the other constants: what it sends stays within what *)
(* the vault reserved, and, as long as no tunnel is opened, a revocation   *)
(* finds every call there is to tear down.                                 *)
(***************************************************************************)
EXTENDS Gateway, GrantVaultProofs

USE DEF GrantIds, NoToken

-----------------------------------------------------------------------------
(***************************************************************************)
(* The inductive invariant.  A call under way belongs to a grant that was  *)
(* minted, only the network plane waits for DNS, and a response comes over *)
(* a socket.                                                               *)
(***************************************************************************)
UnderWay(record) == record.stage \notin {"idle", "refused"}

AnsweredOK(record) ==
    record.response # "none" =>
        record.stage \in {"streaming", "broken", "failed", "closed"}

CallsAreAccountable ==
    \A c \in Calls :
        /\ calls[c].grant <= minted
        /\ calls[c].stage # "idle" => calls[c].kind \in Kinds
        /\ UnderWay(calls[c]) => calls[c].grant \in GrantIds
        /\ calls[c].stage = "resolving" => calls[c].kind # "model"
        /\ AnsweredOK(calls[c])

\* The model calls of a grant that were sent to the provider.
Sent(g) == {c \in Calls : /\ calls[c].kind = "model"
                          /\ calls[c].grant = g
                          /\ ReachedUpstream(c)}

\* Whatever was sent had been reserved.
SentWasReserved ==
    \A g \in DOMAIN grants :
        /\ IsFiniteSet(Sent(g))
        /\ Cardinality(Sent(g)) <= grants[g].modelCalls

GatewayInv ==
    /\ BudgetInv
    /\ minted <= MaxMints
    /\ calls \in [Calls -> CallRecord]
    /\ liveByGrant \in [GrantIds -> Calls \cup {NoCall}]
    /\ CallsAreAccountable
    /\ SentWasReserved

-----------------------------------------------------------------------------
(***************************************************************************)
(* The invariant of the map of live calls, when no tunnel is opened.  Every*)
(* call with a socket is in a Set until its 'close'; under a grant that can*)
(* still be revoked that Set is the one the map holds, so that removing a  *)
(* call never drops a Set in which another call of that grant is left.     *)
(***************************************************************************)
SocketStages == {"connecting", "streaming", "reset", "broken", "failed"}

Revocable(gs, g) == g \in DOMAIN gs /\ gs[g].status \in {"active", "exhausted"}

SocketsAreTracked ==
    \A c \in Calls : calls[c].stage \in SocketStages => calls[c].tracked

TrackedIsReachable ==
    \A c \in Calls :
        calls[c].tracked =>
            /\ calls[c].bucket \in Calls
            /\ Revocable(grants, calls[c].grant) =>
                  liveByGrant[calls[c].grant] = calls[c].bucket

NoModelCallOfRevoked ==
    \A c \in Calls : Live(c) /\ calls[c].kind = "model" => ~OfRevokedGrant(c)

TrackingInv ==
    /\ GatewayInv
    /\ SocketsAreTracked
    /\ TrackedIsReachable
    /\ NoModelCallOfRevoked

-----------------------------------------------------------------------------
(* The half of a step that happens in the vault. *)

\* What the gateway and the control server do to the vault, revocation apart.
\* endRun reads the grant it closes; a failed response is metered as no tokens.
VaultMove ==
    \/ UNCHANGED vars
    \/ Tick \/ List
    \/ \E budget \in Budgets : Mint(budget)
    \/ \E g \in GrantIds : EndRun(g)
    \/ \E token \in GrantIds \cup {NoToken}, request \in Requests, late \in 0 .. 1 :
          Authorize(token, request, late)
    \/ \E g \in GrantIds \cup {NoToken}, tokens \in Nat : RecordTokenUsage(g, tokens)

\* Nothing becomes revocable but a fresh grant, whose id no call bears.
VaultSide ==
    /\ TypeOK'
    /\ VaultEffect
    /\ minted' \in {minted, minted + 1}
    /\ minted' <= MaxMints
    /\ \A g \in DOMAIN grants' \ DOMAIN grants : g > minted
    /\ \A g \in DOMAIN grants \cap DOMAIN grants' :
          Revocable(grants', g) => Revocable(grants, g)

NothingIsRevoked ==
    \A g \in DOMAIN grants \cap DOMAIN grants' :
        grants'[g].status = "revoked" => grants[g].status = "revoked"

\* A grant that endRun closes is not revoked, and none becomes usable by it.
LEMMA EndRunEffect ==
    ASSUME BudgetInv, NEW g \in GrantIds, EndRun(g)
    PROVE  /\ TypeOK' /\ VaultEffect /\ NothingIsRevoked
           /\ UNCHANGED <<minted, DOMAIN grants>>
           /\ \A h \in DOMAIN grants : Revocable(grants', h) => Revocable(grants, h)
  <1> DEFINE read == ExpireIfDue(grants[g], now)
             last == IF read.status = "active" THEN [read EXCEPT !.status = "closed"]
                                               ELSE read
  <1>1. grants[g] \in Grant /\ g \in DOMAIN grants /\ now \in Nat
    BY DEF EndRun, BudgetInv, TypeOK
  <1>2. /\ last \in Grant
        /\ last.budget = grants[g].budget /\ last.issuedAt = grants[g].issuedAt
        /\ last.modelCalls = grants[g].modelCalls
        /\ last.networkCalls = grants[g].networkCalls
        /\ last.status # "active"
        /\ last.status = "expired" =>
              grants[g].status = "expired" \/ now >= ExpiresAt(grants[g])
        /\ last.status = "revoked" => grants[g].status = "revoked"
        /\ last.status = "exhausted" => grants[g].status = "exhausted"
    BY <1>1 DEF ExpireIfDue, Grant, Statuses
  <1>3. grants' = [grants EXCEPT ![g] = last]
    BY DEF EndRun
  <1> HIDE DEF last
  <1>4. DOMAIN grants' = DOMAIN grants /\ grants' \in [DOMAIN grants -> Grant]
    BY <1>1, <1>2, <1>3 DEF BudgetInv, TypeOK
  <1>5. UNCHANGED <<now, minted, byTokenHash>> /\ liveTokens' = liveTokens \ {g}
        /\ registered' \subseteq registered
    BY DEF EndRun
  <1>6. TypeOK'
    BY <1>4, <1>5 DEF BudgetInv, TypeOK
  <1>7. \A h \in DOMAIN grants : grants'[h] = IF h = g THEN last ELSE grants[h]
    BY <1>1, <1>3 DEF BudgetInv, TypeOK
  <1>8. \A h \in DOMAIN grants : Successor(grants[h], grants'[h], now)
    BY <1>2, <1>5, <1>7 DEF Successor
  <1>9. VaultEffect
    BY <1>1, <1>4, <1>5, <1>8 DEF VaultEffect
  <1>10. QED
    BY <1>2, <1>4, <1>5, <1>6, <1>7, <1>9 DEF NothingIsRevoked, Revocable

\* Counting the tokens of a response revokes nothing.
LEMMA RecordEffect ==
    ASSUME BudgetInv, NEW g, NEW tokens \in Nat, RecordTokenUsage(g, tokens)
    PROVE  /\ TypeOK' /\ VaultEffect /\ NothingIsRevoked
           /\ UNCHANGED <<minted, DOMAIN grants>>
           /\ \A h \in DOMAIN grants : Revocable(grants', h) => Revocable(grants, h)
  <1>1. TypeOK /\ TypeOK'
    BY RecordType DEF BudgetInv
  <1>2. \A h \in DOMAIN grants : Successor(grants[h], grants'[h], now)
    BY <1>1 DEF RecordTokenUsage, Successor, TypeOK, Grant
  <1>3. VaultEffect
    BY <1>1, <1>2 DEF VaultEffect, RecordTokenUsage, TypeOK
  <1>4. QED
    BY <1>1, <1>3 DEF RecordTokenUsage, NothingIsRevoked, Revocable, TypeOK, Grant

\* What the gateway does to the vault, but for revocation, revokes nothing.
LEMMA VaultMoveEffect ==
    ASSUME GatewayInv, VaultMove
    PROVE  VaultSide /\ NothingIsRevoked
  <1> USE DEF GatewayInv
  <1>0. TypeOK /\ ExpiredIsPast /\ minted \in Nat
    BY DEF BudgetInv, TypeOK
  <1>1. CASE UNCHANGED vars \/ Tick
    <2>1. [Next]_vars /\ UNCHANGED <<grants, minted>>
      BY <1>1 DEF Next, Tick, vars
    <2>2. QED
      BY <1>0, <2>1, TypeOKStep, StepEffect DEF VaultSide, NothingIsRevoked, Revocable
  <1>2. CASE List
    <2>1. TypeOK' /\ VaultEffect
      BY <1>0, <1>2, TypeOKStep, StepEffect DEF Next
    <2>2. /\ UNCHANGED <<minted, DOMAIN grants>>
          /\ \A g \in DOMAIN grants :
                grants'[g].status \in {grants[g].status, "expired"}
      BY <1>0, <1>2, ExpireIfDueType DEF List, TypeOK
    <2>3. QED
      BY <1>0, <2>1, <2>2 DEF VaultSide, NothingIsRevoked, Revocable
  <1>3. ASSUME NEW budget \in Budgets, Mint(budget)
        PROVE  VaultSide /\ NothingIsRevoked
    <2>1. TypeOK' /\ VaultEffect
      BY <1>0, <1>3, TypeOKStep, StepEffect DEF Next
    <2>2. minted' = minted + 1 /\ minted' <= MaxMints
      BY <1>0, <1>3, BoundsAssumption DEF Mint
    <2>3. /\ DOMAIN grants' \subseteq DOMAIN grants \cup {minted + 1}
          /\ minted + 1 \notin DOMAIN grants
          /\ \A g \in DOMAIN grants' \ {minted + 1} : grants'[g] = grants[g]
      <3>1. minted + 1 \notin DOMAIN grants
        BY <1>0 DEF TypeOK
      <3>2. QED
        BY <1>0, <1>3, <3>1, MintEffect
    <2>4. QED
      BY <1>0, <2>1, <2>2, <2>3 DEF VaultSide, NothingIsRevoked, Revocable
  <1>4. ASSUME NEW g \in GrantIds, EndRun(g) PROVE VaultSide /\ NothingIsRevoked
    BY <1>0, <1>4, EndRunEffect DEF VaultSide
  <1>5. ASSUME NEW token \in GrantIds \cup {NoToken}, NEW request \in Requests,
               NEW late \in 0 .. 1, Authorize(token, request, late)
        PROVE  VaultSide /\ NothingIsRevoked
    <2>1. TypeOK' /\ VaultEffect
      BY <1>0, <1>5, TypeOKStep, StepEffect DEF Next
    <2>2. /\ UNCHANGED <<minted, DOMAIN grants>>
          /\ \A g \in DOMAIN grants :
                grants'[g].status \in {grants[g].status, "expired"}
      <3>1. /\ minted' = minted /\ DOMAIN grants' = DOMAIN grants
            /\ \A g \in DOMAIN grants :
                 grants'[g] \in {grants[g],
                                 AuthorizedGrant(grants[g], request, now + late)}
        BY <1>0, <1>5, AuthorizeEffect
      <3>2. ASSUME NEW g \in DOMAIN grants
            PROVE  AuthorizedGrant(grants[g], request, now + late).status
                      \in {grants[g].status, "expired"}
        BY <1>0, <3>2, ExpireIfDueType, ReserveType, SMTT(30)
        DEF AuthorizedGrant, Requests, TypeOK
      <3>3. QED
        BY <3>1, <3>2
    <2>3. QED
      BY <1>0, <2>1, <2>2 DEF VaultSide, NothingIsRevoked, Revocable
  <1>6. ASSUME NEW g, NEW tokens \in Nat, RecordTokenUsage(g, tokens)
        PROVE  VaultSide /\ NothingIsRevoked
    BY <1>0, <1>6, RecordEffect DEF VaultSide
  <1>7. QED
    BY <1>1, <1>2, <1>3, <1>4, <1>5, <1>6 DEF VaultMove

\* A revocation takes the grant from what can be revoked, and touches no other.
LEMMA RevokeEffect ==
    ASSUME GatewayInv, NEW g \in GrantIds, Revoke(g)
    PROVE  /\ VaultSide
           /\ DOMAIN grants' = DOMAIN grants
           /\ \A h \in DOMAIN grants \ {g} : grants'[h] = grants[h]
           /\ ~Revocable(grants', g)
           /\ grants'[g].status = "revoked" =>
                 Revocable(grants, g) \/ grants[g].status = "revoked"
  <1>1. TypeOK /\ ExpiredIsPast /\ minted \in Nat /\ minted <= MaxMints
    BY DEF GatewayInv, BudgetInv, TypeOK
  <1>2. TypeOK' /\ VaultEffect
    BY <1>1, TypeOKStep, StepEffect DEF Next
  <1>3. /\ DOMAIN grants' = DOMAIN grants /\ minted' = minted
        /\ \A h \in DOMAIN grants \ {g} : grants'[h] = grants[h]
        /\ grants'[g].status = IF Revocable(grants, g) THEN "revoked" ELSE grants[g].status
    BY <1>1 DEF Revoke, Revocable, TypeOK, Grant
  <1>4. QED
    BY <1>1, <1>2, <1>3 DEF VaultSide, Revocable

-----------------------------------------------------------------------------
(* The half of a step that happens in the gateway. *)

\* A call under way that goes on, keeping its kind and grant; from the wait for
\* DNS it may go to refused, and nothing comes back to that wait.
Advances(before, after) ==
    /\ after.kind = before.kind /\ after.grant = before.grant
    /\ UnderWay(before)
    /\ after.stage \notin {"idle", "resolving"}
    /\ after.stage = "refused" => before.stage = "resolving"
    /\ AnsweredOK(after)

CallsEffect ==
    /\ calls' \in [Calls -> CallRecord]
    /\ liveByGrant' \in [GrantIds -> Calls \cup {NoCall}]
    /\ \A c \in Calls : calls'[c] = calls[c] \/ Advances(calls[c], calls'[c])

\* The record and the map entry that track makes.
LEMMA TrackedType ==
    ASSUME NEW record \in CallRecord, NEW c \in Calls, NEW g \in GrantIds,
           liveByGrant \in [GrantIds -> Calls \cup {NoCall}]
    PROVE  /\ Tracked(record, c, g) \in CallRecord
           /\ Tracked(record, c, g) =
                 [kind |-> record.kind, grant |-> record.grant,
                  stage |-> "connecting", response |-> record.response,
                  bucket |-> BucketFor(c, g),
                  tracked |-> TRUE, span |-> "running", charged |-> record.charged]
           /\ BucketFor(c, g) \in Calls
  <1>1. BucketFor(c, g) \in Calls
    BY DEF BucketFor
  <1> DEFINE b == BucketFor(c, g)
  <1>2. Tracked(record, c, g) =
           [record EXCEPT !.stage = "connecting", !.span = "running",
                          !.bucket = b, !.tracked = TRUE]
    BY DEF Tracked
  <1> HIDE DEF b
  <1>3. b \in Calls
    BY <1>1 DEF b
  <1>4. Tracked(record, c, g) =
           [kind |-> record.kind, grant |-> record.grant,
            stage |-> "connecting", response |-> record.response, bucket |-> b,
            tracked |-> TRUE, span |-> "running", charged |-> record.charged]
    BY <1>2 DEF CallRecord
  <1>5. Tracked(record, c, g) \in CallRecord
    BY <1>3, <1>4 DEF CallRecord, Stages, Responses, SpanStates
  <1>6. QED
    BY <1>3, <1>4, <1>5 DEF b

\* Untracking touches the set of one grant only.
LEMMA UntrackType ==
    ASSUME NEW c, liveByGrant \in [GrantIds -> Calls \cup {NoCall}], Untrack(c)
    PROVE  /\ liveByGrant' \in [GrantIds -> Calls \cup {NoCall}]
           /\ \A g \in GrantIds :
                 liveByGrant'[g] = liveByGrant[g] \/ g = calls[c].grant
  BY DEF Untrack

\* A destroyed socket fails, and keeps all else of its call.
LEMMA DestroyedType ==
    ASSUME NEW record \in CallRecord
    PROVE  /\ Destroyed(record) \in CallRecord
           /\ Destroyed(record).kind = record.kind
           /\ Destroyed(record).grant = record.grant
           /\ Destroyed(record).bucket = record.bucket
           /\ Destroyed(record).tracked = record.tracked
           /\ Destroyed(record).span = record.span
           /\ Destroyed(record).response = record.response
           /\ Destroyed(record).charged = record.charged
           /\ record.stage = "streaming" => Destroyed(record).stage = "broken"
           /\ record.stage \in {"connecting", "streaming"} =>
                 Destroyed(record).stage \in {"reset", "broken"}
           /\ record.stage \notin {"connecting", "streaming"} =>
                 Destroyed(record) = record
  BY DEF Destroyed, CallRecord, Stages

\* closeForGrant only moves calls on.
LEMMA CloseForGrantEffect ==
    ASSUME GatewayInv, NEW g \in GrantIds, CloseForGrant(g)
    PROVE  CallsEffect
  <1>1. \A c \in Calls : calls[c] \in CallRecord
    BY DEF GatewayInv
  <1>2. \A c \in Calls : calls'[c] \in {calls[c], Destroyed(calls[c])}
    BY DEF CloseForGrant
  <1>3. ASSUME NEW c \in Calls, calls'[c] # calls[c]
        PROVE  Advances(calls[c], calls'[c])
    <2>1. AnsweredOK(calls[c]) /\ calls[c] \in CallRecord
      BY <1>1 DEF GatewayInv, CallsAreAccountable
    <2>2. calls'[c] = Destroyed(calls[c]) /\ Destroyed(calls[c]) # calls[c]
      BY <1>2, <1>3
    <2>3. calls[c].stage \in {"connecting", "streaming"}
      BY <2>1, <2>2, DestroyedType
    <2>4. QED
      BY <2>1, <2>2, <2>3, DestroyedType DEF Advances, UnderWay, AnsweredOK
  <1>4. calls' \in [Calls -> CallRecord]
    BY <1>1, <1>2, DestroyedType DEF CloseForGrant
  <1>5. liveByGrant' \in [GrantIds -> Calls \cup {NoCall}]
    BY DEF CloseForGrant, GatewayInv
  <1>6. QED
    BY <1>3, <1>4, <1>5 DEF CallsEffect

\* One call advances.
LEMMA OneCallEffect ==
    ASSUME GatewayInv, NEW c \in Calls, NEW after \in CallRecord,
           calls' = [calls EXCEPT ![c] = after], Advances(calls[c], after),
           liveByGrant' \in [GrantIds -> Calls \cup {NoCall}]
    PROVE  CallsEffect
  BY DEF CallsEffect, GatewayInv

Callback(c) ==
    \/ Resolved(c) \/ NotResolved(c) \/ Responds(c)
    \/ \E failed \in BOOLEAN, tokens \in Charges : ResponseEnds(c, failed, tokens)
    \/ Fails(c) \/ TunnelCut(c) \/ Closes(c)

\* So does every callback.
LEMMA CallbackEffect ==
    ASSUME GatewayInv, NEW c \in Calls, Callback(c)
    PROVE  CallsEffect
  <1>0. /\ calls[c] \in CallRecord /\ calls \in [Calls -> CallRecord]
        /\ liveByGrant \in [GrantIds -> Calls \cup {NoCall}]
        /\ AnsweredOK(calls[c])
    BY DEF GatewayInv, CallsAreAccountable
  <1> USE DEF Advances, UnderWay, AnsweredOK
  <1>1. CASE Resolved(c)
    <2>1. calls[c].grant \in GrantIds
      BY <1>1 DEF Resolved, GatewayInv, CallsAreAccountable
    <2> DEFINE after == Tracked(calls[c], c, calls[c].grant)
    <2>2. /\ after \in CallRecord
          /\ after =
                [kind |-> calls[c].kind, grant |-> calls[c].grant,
                 stage |-> "connecting", response |-> calls[c].response,
                 bucket |-> BucketFor(c, calls[c].grant),
                 tracked |-> TRUE, span |-> "running", charged |-> calls[c].charged]
          /\ BucketFor(c, calls[c].grant) \in Calls
      BY <1>0, <2>1, TrackedType
    <2>3. calls' = [calls EXCEPT ![c] = after]
      BY <1>0, <1>1 DEF Resolved
    <2>4. liveByGrant' \in [GrantIds -> Calls \cup {NoCall}]
      BY <1>0, <1>1, <2>2 DEF Resolved, TrackIn
    <2>5. calls[c].stage = "resolving"
      BY <1>1 DEF Resolved
    <2> HIDE DEF after
    <2>6. Advances(calls[c], after)
      BY <1>0, <2>2, <2>5
    <2>7. QED
      BY <2>2, <2>3, <2>4, <2>6, OneCallEffect
  <1>2. CASE NotResolved(c)
    BY <1>0, <1>2, OneCallEffect DEF NotResolved, CallRecord, Stages
  <1>3. CASE Responds(c)
    <2>1. PICK response \in {"none", "open"} :
             calls' = [calls EXCEPT ![c] =
                [@ EXCEPT !.stage = "streaming", !.response = response]]
      BY <1>0, <1>3 DEF Responds
    <2>2. calls[c].stage = "connecting" /\ liveByGrant' = liveByGrant
      BY <1>3 DEF Responds
    <2> DEFINE after == [calls[c] EXCEPT !.stage = "streaming", !.response = response]
    <2>3. after \in CallRecord /\ Advances(calls[c], after)
      BY <1>0, <2>2 DEF CallRecord, Stages, Responses
    <2>4. calls' = [calls EXCEPT ![c] = after]
      BY <1>0, <2>1
    <2> HIDE DEF after
    <2>5. QED
      BY <1>0, <2>2, <2>3, <2>4, OneCallEffect
  <1>4. ASSUME NEW failed \in BOOLEAN, NEW tokens \in Charges,
               ResponseEnds(c, failed, tokens)
        PROVE  CallsEffect
    <2>1. PICK charge \in Nat, span \in {"ok", "error"} :
             calls' = [calls EXCEPT ![c] =
                [@ EXCEPT !.response = "ended", !.charged = charge, !.span = span]]
      BY <1>4, BoundsAssumption DEF ResponseEnds
    <2>2. calls[c].response = "open" /\ liveByGrant' = liveByGrant
      BY <1>4 DEF ResponseEnds
    <2> DEFINE after ==
          [calls[c] EXCEPT !.response = "ended", !.charged = charge, !.span = span]
    <2>3. after \in CallRecord /\ Advances(calls[c], after)
      BY <1>0, <2>2 DEF CallRecord, Stages, Responses, SpanStates
    <2>4. calls' = [calls EXCEPT ![c] = after]
      BY <1>0, <2>1
    <2> HIDE DEF after
    <2>5. QED
      BY <1>0, <2>2, <2>3, <2>4, OneCallEffect
  <1>5. CASE Fails(c)
    <2>1. PICK t \in BOOLEAN :
             calls' = [calls EXCEPT ![c] =
                [@ EXCEPT !.stage = "failed", !.span = "error", !.tracked = t]]
      BY <1>0, <1>5 DEF Fails, CallRecord
    <2>2. /\ calls[c].stage \in {"connecting", "reset", "streaming", "broken"}
          /\ liveByGrant' \in [GrantIds -> Calls \cup {NoCall}]
      BY <1>0, <1>5, UntrackType DEF Fails, Live
    <2> DEFINE after ==
          [calls[c] EXCEPT !.stage = "failed", !.span = "error", !.tracked = t]
    <2>3. after \in CallRecord /\ Advances(calls[c], after)
      <3>1. after \in CallRecord /\ after.stage = "failed"
            /\ after.kind = calls[c].kind /\ after.grant = calls[c].grant
        BY <1>0 DEF CallRecord, Stages, SpanStates
      <3>2. calls[c].stage \notin {"idle", "refused"}
        BY <2>2
      <3> HIDE DEF after
      <3>3. QED
        BY <3>1, <3>2 DEF Advances, UnderWay, AnsweredOK
    <2>4. calls' = [calls EXCEPT ![c] = after]
      BY <1>0, <2>1
    <2> HIDE DEF after
    <2>5. QED
      BY <2>2, <2>3, <2>4, OneCallEffect
  <1>6. CASE TunnelCut(c)
    <2>1. Destroyed(calls[c]) \in CallRecord /\ Advances(calls[c], Destroyed(calls[c]))
      BY <1>0, <1>6, DestroyedType DEF TunnelCut, Live
    <2>2. QED
      BY <1>0, <1>6, <2>1, OneCallEffect DEF TunnelCut
  <1>7. CASE Closes(c)
    <2> DEFINE span == IF calls[c].kind = "connect" THEN "ok" ELSE calls[c].span
    <2>1. calls' = [calls EXCEPT ![c] =
                [@ EXCEPT !.stage = "closed", !.tracked = FALSE, !.span = span]]
      <3>1. calls[c].kind = "connect" => span = "ok"
        OBVIOUS
      <3>2. calls[c].kind # "connect" => span = calls[c].span
        OBVIOUS
      <3> HIDE DEF span
      <3>3. CASE calls[c].kind = "connect"
        BY <1>0, <1>7, <3>1, <3>3 DEF Closes, CallRecord
      <3>4. CASE calls[c].kind # "connect"
        BY <1>0, <1>7, <3>2, <3>4 DEF Closes, CallRecord
      <3>5. QED
        BY <3>3, <3>4
    <2>6. span \in SpanStates
      BY <1>0 DEF CallRecord, SpanStates
    <2> HIDE DEF span
    <2>2. /\ calls[c].stage \in {"broken", "failed", "streaming"}
          /\ liveByGrant' \in [GrantIds -> Calls \cup {NoCall}]
      BY <1>0, <1>7, UntrackType DEF Closes
    <2> DEFINE after ==
          [calls[c] EXCEPT !.stage = "closed", !.tracked = FALSE, !.span = span]
    <2>3. after \in CallRecord /\ Advances(calls[c], after)
      BY <1>0, <2>2, <2>6 DEF CallRecord, Stages
    <2>4. calls' = [calls EXCEPT ![c] = after]
      BY <1>0, <2>1
    <2> HIDE DEF after
    <2>5. QED
      BY <2>2, <2>3, <2>4, OneCallEffect
  <1>8. QED
    BY <1>1, <1>2, <1>3, <1>4, <1>5, <1>6, <1>7 DEF Callback

-----------------------------------------------------------------------------
(* The invariant is preserved. *)

\* What the vault does alone keeps what the calls are accountable for.
LEMMA AdvancesKeepsInv ==
    ASSUME GatewayInv, VaultSide, CallsEffect
    PROVE  GatewayInv'
  <1>1. BudgetInv /\ BudgetInv' /\ minted \in Nat /\ minted' \in Nat /\ minted' >= minted
    BY BudgetInvByEffect DEF GatewayInv, VaultSide, BudgetInv, TypeOK
  <1>2. /\ \A c \in Calls : calls[c] \in CallRecord /\ calls'[c] \in CallRecord
        /\ \A c \in Calls : calls'[c] = calls[c] \/ Advances(calls[c], calls'[c])
    BY DEF CallsEffect, GatewayInv
  <1>3. CallsAreAccountable'
    <2> SUFFICES ASSUME NEW c \in Calls
                 PROVE  /\ calls'[c].grant <= minted'
                        /\ calls'[c].stage # "idle" => calls'[c].kind \in Kinds
                        /\ UnderWay(calls'[c]) => calls'[c].grant \in GrantIds
                        /\ calls'[c].stage = "resolving" => calls'[c].kind # "model"
                        /\ AnsweredOK(calls'[c])
      BY DEF CallsAreAccountable, UnderWay, AnsweredOK
    <2>1. /\ calls[c].grant <= minted
          /\ calls[c].stage # "idle" => calls[c].kind \in Kinds
          /\ UnderWay(calls[c]) => calls[c].grant \in GrantIds
          /\ calls[c].stage = "resolving" => calls[c].kind # "model"
          /\ AnsweredOK(calls[c])
      BY DEF GatewayInv, CallsAreAccountable
    <2>2. calls[c].grant \in Int
      BY <1>2 DEF CallRecord
    <2>3. CASE calls'[c] = calls[c]
      BY <1>1, <2>1, <2>2, <2>3
    <2>4. CASE Advances(calls[c], calls'[c])
      BY <1>1, <2>1, <2>2, <2>4 DEF Advances, UnderWay
    <2>5. QED
      BY <1>2, <2>3, <2>4
  <1>4. \A g : Sent(g)' = Sent(g)
    <2> SUFFICES ASSUME NEW g, NEW c \in Calls
                 PROVE  (/\ calls'[c].kind = "model" /\ calls'[c].grant = g
                         /\ ReachedUpstream(c)')
                        <=> (/\ calls[c].kind = "model" /\ calls[c].grant = g
                             /\ ReachedUpstream(c))
      BY DEF Sent
    <2>1. calls[c].stage = "resolving" => calls[c].kind # "model"
      BY DEF GatewayInv, CallsAreAccountable
    <2>2. QED
      BY <1>2, <2>1 DEF ReachedUpstream, Advances, UnderWay
  <1>5. SentWasReserved'
    <2> SUFFICES ASSUME NEW g \in DOMAIN grants'
                 PROVE  /\ IsFiniteSet(Sent(g)')
                        /\ Cardinality(Sent(g)') <= grants'[g].modelCalls
      BY DEF SentWasReserved
    <2>1. CASE g \in DOMAIN grants
      <3>1. /\ IsFiniteSet(Sent(g)) /\ Cardinality(Sent(g)) <= grants[g].modelCalls
            /\ grants[g].modelCalls \in Nat
        BY <2>1 DEF GatewayInv, SentWasReserved, BudgetInv, TypeOK, Grant
      <3>2. grants'[g].modelCalls \in {grants[g].modelCalls, grants[g].modelCalls + 1}
        BY <2>1 DEF VaultSide, VaultEffect, Successor, Metered
      <3>3. Cardinality(Sent(g)) \in Nat
        BY <3>1, FS_CardinalityType
      <3>4. Cardinality(Sent(g)) <= grants'[g].modelCalls
        BY <3>1, <3>2, <3>3
      <3>5. QED
        BY <1>4, <3>1, <3>4
    <2>2. CASE g \notin DOMAIN grants
      <3>1. g > minted /\ grants'[g].modelCalls = 0 /\ g \in Int
        BY <2>2, <1>1 DEF VaultSide, VaultEffect, BudgetInv, TypeOK
      <3>2. \A c \in Calls : calls[c].grant <= minted
        BY DEF GatewayInv, CallsAreAccountable
      <3>3. Sent(g) = {}
        BY <1>1, <3>1, <3>2 DEF Sent
      <3>4. QED
        BY <1>4, <3>1, <3>3, FS_EmptySet
    <2>3. QED
      BY <2>1, <2>2
  <1>6. QED
    BY <1>1, <1>3, <1>5 DEF GatewayInv, CallsEffect, VaultSide

(***************************************************************************)
(* What the handler of a request leaves: the call is refused, waits for    *)
(* DNS, or is a model call that was reserved, sent and tracked.            *)
(***************************************************************************)
Requested(c, record, token) ==
    /\ record.grant = token
    /\ record.kind \in Kinds
    /\ record.stage \in {"refused", "resolving", "connecting"}
    /\ record.response = "none"
    /\ record.stage \in {"resolving", "connecting"} => token \in DOMAIN grants
    /\ record.stage = "resolving" => record.kind # "model"
    /\ record.stage # "connecting" => ~record.tracked /\ liveByGrant' = liveByGrant
    /\ record.stage = "connecting" =>
          /\ record.kind = "model"
          /\ token \in DOMAIN grants'
          /\ grants'[token].modelCalls = grants[token].modelCalls + 1
          /\ grants'[token].status # "revoked"
          /\ record.tracked
          /\ record.bucket = BucketFor(c, token)
          /\ TrackIn(c, token)

\* A new call, accepted or refused, keeps the invariant.
LEMMA RequestKeepsInv ==
    ASSUME GatewayInv, VaultSide, NEW c \in Calls, calls[c].stage = "idle",
           NEW token \in 0 .. minted, NEW record \in CallRecord,
           Requested(c, record, token), calls' = [calls EXCEPT ![c] = record],
           DOMAIN grants' = DOMAIN grants,
           liveByGrant' \in [GrantIds -> Calls \cup {NoCall}]
    PROVE  GatewayInv'
  <1>0. BudgetInv /\ BudgetInv' /\ minted \in Nat /\ minted' \in Nat /\ minted' >= minted
    BY BudgetInvByEffect DEF GatewayInv, VaultSide, BudgetInv, TypeOK
  <1>1. DOMAIN grants \subseteq GrantIds
    BY <1>0, BoundsAssumption DEF GatewayInv, BudgetInv, TypeOK
  <1>2. /\ calls' \in [Calls -> CallRecord]
        /\ calls'[c] = record
        /\ \A d \in Calls \ {c} : calls'[d] = calls[d]
    BY DEF GatewayInv
  <1>3. CallsAreAccountable'
    <2> SUFFICES ASSUME NEW d \in Calls
                 PROVE  /\ calls'[d].grant <= minted'
                        /\ calls'[d].stage # "idle" => calls'[d].kind \in Kinds
                        /\ UnderWay(calls'[d]) => calls'[d].grant \in GrantIds
                        /\ calls'[d].stage = "resolving" => calls'[d].kind # "model"
                        /\ AnsweredOK(calls'[d])
      BY DEF CallsAreAccountable, UnderWay, AnsweredOK
    <2>1. CASE d = c
      BY <1>0, <1>1, <1>2, <2>1 DEF Requested, UnderWay, AnsweredOK, CallRecord, Stages
    <2>2. CASE d # c
      <3>1. /\ calls[d].grant <= minted
            /\ calls[d].stage # "idle" => calls[d].kind \in Kinds
            /\ UnderWay(calls[d]) => calls[d].grant \in GrantIds
            /\ calls[d].stage = "resolving" => calls[d].kind # "model"
            /\ AnsweredOK(calls[d])
        BY DEF GatewayInv, CallsAreAccountable
      <3>2. calls[d].grant \in Int
        BY DEF GatewayInv, CallRecord
      <3>3. QED
        BY <1>0, <1>2, <2>2, <3>1, <3>2
    <2>3. QED
      BY <2>1, <2>2
  <1>4. SentWasReserved'
    <2> SUFFICES ASSUME NEW g \in DOMAIN grants'
                 PROVE  /\ IsFiniteSet(Sent(g)')
                        /\ Cardinality(Sent(g)') <= grants'[g].modelCalls
      BY DEF SentWasReserved
    <2>1. /\ g \in DOMAIN grants
          /\ IsFiniteSet(Sent(g)) /\ Cardinality(Sent(g)) <= grants[g].modelCalls
          /\ grants[g].modelCalls \in Nat
      BY DEF GatewayInv, SentWasReserved, BudgetInv, TypeOK, Grant
    <2>2. grants'[g].modelCalls \in {grants[g].modelCalls, grants[g].modelCalls + 1}
      BY <2>1 DEF VaultSide, VaultEffect, Successor, Metered
    <2>3. Cardinality(Sent(g)) \in Nat
      BY <2>1, FS_CardinalityType
    <2>4. c \notin Sent(g)
      BY DEF Sent, ReachedUpstream
    <2>5. CASE g = token /\ record.stage = "connecting"
      <3>1. Sent(g)' = Sent(g) \cup {c}
        BY <1>2, <2>5 DEF Sent, ReachedUpstream, Requested
      <3>2. /\ IsFiniteSet(Sent(g)')
            /\ Cardinality(Sent(g)') = Cardinality(Sent(g)) + 1
        BY <2>1, <2>4, <3>1, FS_AddElement
      <3>3. grants'[g].modelCalls = grants[g].modelCalls + 1
        BY <2>5 DEF Requested
      <3>4. QED
        BY <2>1, <2>3, <3>2, <3>3
    <2>6. CASE ~(g = token /\ record.stage = "connecting")
      <3>1. Sent(g)' = Sent(g)
        BY <1>2, <2>4, <2>6 DEF Sent, ReachedUpstream, Requested
      <3>2. QED
        BY <2>1, <2>2, <2>3, <3>1
    <2>7. QED
      BY <2>5, <2>6
  <1>5. QED
    BY <1>0, <1>2, <1>3, <1>4 DEF GatewayInv, VaultSide

\* A request that is admitted has been reserved, on a grant not revoked.
LEMMA AdmittedIsReserved ==
    ASSUME GatewayInv, NEW token \in 0 .. minted, NEW request \in Requests,
           NEW late \in 0 .. 1, Authorize(token, request, late),
           Admits(token, request, late)
    PROVE  /\ token \in DOMAIN grants /\ token \in GrantIds
           /\ DOMAIN grants' = DOMAIN grants
           /\ grants'[token].status # "revoked"
           /\ request.plane = "model" =>
                 grants'[token].modelCalls = grants[token].modelCalls + 1
  <1>1. /\ TypeOK /\ token \in DOMAIN grants /\ now + late \in Nat
        /\ grants[token] \in Grant /\ minted \in Nat /\ token \in GrantIds
    BY BoundsAssumption DEF GatewayInv, BudgetInv, TypeOK, Admits
  <1> DEFINE snapshot == ExpireIfDue(grants[token], now + late)
  <1>2. /\ snapshot \in Grant /\ snapshot.modelCalls = grants[token].modelCalls
        /\ Allows(snapshot, request, now)
    BY <1>1, ExpireIfDueType DEF Admits
  <1>3. snapshot.status # "revoked"
    BY <1>2 DEF Allows
  <1>4. grants'[token] = Reserve(snapshot, request.plane)
    BY <1>1, <1>2, AuthorizeEffect DEF AuthorizedGrant
  <1> HIDE DEF snapshot
  <1>5. request.plane \in Planes
    BY DEF Requests
  <1>6. DOMAIN grants' = DOMAIN grants
    BY <1>1, AuthorizeEffect
  <1>7. QED
    BY <1>1, <1>2, <1>3, <1>4, <1>5, <1>6, ReserveType

\* Asking the vault is a move of the vault that revokes nothing.
LEMMA RequestMove ==
    ASSUME GatewayInv, NEW token \in 0 .. minted, NEW request \in Requests,
           NEW late \in 0 .. 1, Authorize(token, request, late)
    PROVE  /\ VaultSide /\ NothingIsRevoked
           /\ DOMAIN grants' = DOMAIN grants
  <1>1. token \in GrantIds \cup {NoToken} /\ TypeOK
    BY BoundsAssumption DEF GatewayInv, BudgetInv, TypeOK
  <1>2. VaultMove
    BY <1>1 DEF VaultMove
  <1>3. QED
    BY <1>1, <1>2, VaultMoveEffect, AuthorizeEffect

\* What a request on the model plane leaves.
LEMMA ModelRequestEffect ==
    ASSUME GatewayInv, NEW c \in Calls, NEW token \in 0 .. minted,
           NEW covered \in BOOLEAN, NEW pathAllowed \in BOOLEAN,
           NEW late \in 0 .. 1, ModelRequest(c, token, covered, pathAllowed, late)
    PROVE  /\ VaultSide /\ NothingIsRevoked
           /\ DOMAIN grants' = DOMAIN grants
           /\ liveByGrant' \in [GrantIds -> Calls \cup {NoCall}]
           /\ \E record \in CallRecord :
                 /\ calls' = [calls EXCEPT ![c] = record]
                 /\ Requested(c, record, token)
  <1> DEFINE request == [plane |-> "model", covered |-> covered]
             arrived == [IdleCall EXCEPT !.kind = "model", !.grant = token]
             refused == [arrived EXCEPT !.stage = "refused"]
  <1>1. request \in Requests /\ request.plane = "model"
    BY DEF Requests, Planes
  <1>2. /\ Authorize(token, request, late) /\ "model" \in Kinds
        /\ token \in GrantIds \cup {NoToken}
        /\ liveByGrant \in [GrantIds -> Calls \cup {NoCall}]
    BY BoundsAssumption DEF ModelRequest, GatewayInv, BudgetInv, TypeOK
  <1>3. arrived \in CallRecord /\ refused \in CallRecord
    BY <1>2 DEF IdleCall, CallRecord, Stages, Responses, SpanStates
  <1>4. /\ arrived.kind = "model" /\ arrived.grant = token
        /\ refused.kind = "model" /\ refused.grant = token
        /\ refused.stage = "refused" /\ refused.tracked = FALSE
        /\ refused.response = "none" /\ arrived.response = "none"
    BY DEF IdleCall
  <1>5. \/ /\ Admits(token, request, late)
           /\ calls' = [calls EXCEPT ![c] = Tracked(arrived, c, token)]
           /\ TrackIn(c, token)
        \/ /\ calls' = [calls EXCEPT ![c] = refused]
           /\ UNCHANGED liveByGrant
    BY DEF ModelRequest
  <1> HIDE DEF request, arrived, refused
  <1>6. VaultSide /\ NothingIsRevoked /\ DOMAIN grants' = DOMAIN grants
    BY <1>1, <1>2, RequestMove
  <1>7. CASE /\ Admits(token, request, late)
             /\ calls' = [calls EXCEPT ![c] = Tracked(arrived, c, token)]
             /\ TrackIn(c, token)
    <2>1. /\ token \in DOMAIN grants /\ token \in GrantIds
          /\ DOMAIN grants' = DOMAIN grants
          /\ grants'[token].status # "revoked"
          /\ grants'[token].modelCalls = grants[token].modelCalls + 1
      BY <1>1, <1>2, <1>7, AdmittedIsReserved
    <2> DEFINE record == Tracked(arrived, c, token)
    <2>2. /\ record \in CallRecord
          /\ record = [kind |-> arrived.kind, grant |-> arrived.grant,
                       stage |-> "connecting", response |-> arrived.response,
                       bucket |-> BucketFor(c, token),
                       tracked |-> TRUE, span |-> "running", charged |-> arrived.charged]
          /\ BucketFor(c, token) \in Calls
      BY <1>2, <1>3, <2>1, TrackedType
    <2> HIDE DEF record
    <2>3. Requested(c, record, token)
      BY <1>2, <1>4, <1>7, <2>1, <2>2 DEF Requested
    <2>4. liveByGrant' \in [GrantIds -> Calls \cup {NoCall}]
      BY <1>2, <1>7, <2>2 DEF TrackIn
    <2>5. QED
      BY <1>6, <1>7, <2>2, <2>3, <2>4 DEF record
  <1>8. CASE calls' = [calls EXCEPT ![c] = refused] /\ UNCHANGED liveByGrant
    BY <1>2, <1>3, <1>4, <1>6, <1>8 DEF Requested
  <1>9. QED
    BY <1>5, <1>7, <1>8

\* What a request of the forward proxy leaves.
LEMMA NetworkRequestEffect ==
    ASSUME GatewayInv, NEW c \in Calls, NEW token \in 0 .. minted,
           NEW kind \in Kinds, NEW covered \in BOOLEAN, NEW late \in 0 .. 1,
           NetworkRequest(c, kind, token, covered, late)
    PROVE  /\ VaultSide /\ NothingIsRevoked
           /\ DOMAIN grants' = DOMAIN grants
           /\ liveByGrant' \in [GrantIds -> Calls \cup {NoCall}]
           /\ \E record \in CallRecord :
                 /\ calls' = [calls EXCEPT ![c] = record]
                 /\ Requested(c, record, token)
  <1> DEFINE request == [plane |-> "network", covered |-> covered]
             admits  == Admits(token, request, late)
             record  == [IdleCall EXCEPT !.kind = kind, !.grant = token,
                            !.stage = IF admits THEN "resolving" ELSE "refused"]
  <1>1. request \in Requests
    BY DEF Requests, Planes
  <1>2. /\ Authorize(token, request, late) /\ kind # "model"
        /\ token \in GrantIds \cup {NoToken}
        /\ liveByGrant \in [GrantIds -> Calls \cup {NoCall}]
        /\ liveByGrant' = liveByGrant
        /\ calls' = [calls EXCEPT ![c] = record]
    BY BoundsAssumption DEF NetworkRequest, GatewayInv, BudgetInv, TypeOK
  <1> HIDE DEF admits
  <1>3. /\ record \in CallRecord
        /\ record.kind = kind /\ record.grant = token /\ record.response = "none"
        /\ record.tracked = FALSE /\ record.stage \in {"resolving", "refused"}
        /\ record.stage = "resolving" => admits
    BY <1>2 DEF IdleCall, CallRecord, Stages, Responses, SpanStates
  <1>4. VaultSide /\ NothingIsRevoked /\ DOMAIN grants' = DOMAIN grants
    BY <1>1, <1>2, RequestMove
  <1>5. admits => token \in DOMAIN grants
    BY <1>1, <1>2, AdmittedIsReserved DEF admits
  <1> HIDE DEF record
  <1>6. Requested(c, record, token)
    BY <1>2, <1>3, <1>5 DEF Requested
  <1>7. QED
    BY <1>2, <1>3, <1>4, <1>6

\* No call has been made at first.
LEMMA GatewayInvInit == GatewayInit => GatewayInv
  <1> SUFFICES ASSUME GatewayInit PROVE GatewayInv
    OBVIOUS
  <1>1. BudgetInv /\ minted = 0 /\ DOMAIN grants = {}
    BY BudgetInvInit DEF GatewayInit, Init
  <1>2. /\ calls \in [Calls -> CallRecord]
        /\ \A c \in Calls : calls[c] = IdleCall
        /\ liveByGrant \in [GrantIds -> Calls \cup {NoCall}]
    BY DEF GatewayInit, IdleCall, CallRecord, Stages, Responses, SpanStates
  <1>3. CallsAreAccountable
    BY <1>1, <1>2 DEF CallsAreAccountable, IdleCall, UnderWay, AnsweredOK
  <1>4. QED
    BY <1>1, <1>2, <1>3, BoundsAssumption DEF GatewayInv, SentWasReserved

\* The vault's part of a callback.
LEMMA CallbackMove ==
    ASSUME GatewayInv, NEW c \in Calls, Callback(c)
    PROVE  VaultSide /\ NothingIsRevoked
  <1>1. CASE UNCHANGED vars
    BY <1>1, VaultMoveEffect DEF VaultMove
  <1>2. ASSUME NEW failed \in BOOLEAN, NEW tokens \in Charges,
               ResponseEnds(c, failed, tokens), ~UNCHANGED vars
        PROVE  VaultMove
    <2>1. PICK charge \in Nat : RecordTokenUsage(calls[c].grant, charge)
      BY <1>2, BoundsAssumption DEF ResponseEnds
    <2>2. calls[c].grant \in GrantIds \cup {NoToken}
      BY DEF GatewayInv, CallRecord
    <2>3. QED
      BY <2>1, <2>2 DEF VaultMove
  <1>3. QED
    BY <1>1, <1>2, VaultMoveEffect
    DEF Callback, Resolved, NotResolved, Responds, Fails, TunnelCut, Closes

\* Every step keeps calls, tracking sets and budgets in order.
LEMMA GatewayInvStep == GatewayInv /\ [GatewayNext]_allVars => GatewayInv'
  <1> SUFFICES ASSUME GatewayInv, [GatewayNext]_allVars PROVE GatewayInv'
    OBVIOUS
  <1>1. CASE VaultStep \/ UNCHANGED allVars
    <2>1. VaultMove /\ UNCHANGED gatewayVars
      BY <1>1 DEF VaultStep, VaultMove, allVars
    <2>2. CallsEffect
      BY <2>1 DEF CallsEffect, gatewayVars, GatewayInv
    <2>3. QED
      BY <2>1, <2>2, VaultMoveEffect, AdvancesKeepsInv
  <1>2. ASSUME NEW g \in GrantIds, RevokeGrant(g) PROVE GatewayInv'
    BY <1>2, RevokeEffect, CloseForGrantEffect, AdvancesKeepsInv DEF RevokeGrant
  <1>3. ASSUME NEW c \in Calls, NEW token \in 0 .. minted, NEW late \in 0 .. 1,
               NEW covered \in BOOLEAN, NEW pathAllowed \in BOOLEAN,
               ModelRequest(c, token, covered, pathAllowed, late)
        PROVE  GatewayInv'
    BY <1>3, ModelRequestEffect, RequestKeepsInv DEF ModelRequest
  <1>4. ASSUME NEW c \in Calls, NEW token \in 0 .. minted, NEW late \in 0 .. 1,
               NEW kind \in Kinds, NEW covered \in BOOLEAN,
               NetworkRequest(c, kind, token, covered, late)
        PROVE  GatewayInv'
    BY <1>4, NetworkRequestEffect, RequestKeepsInv DEF NetworkRequest
  <1>5. ASSUME NEW c \in Calls, Callback(c) PROVE GatewayInv'
    BY <1>5, CallbackMove, CallbackEffect, AdvancesKeepsInv
  <1>6. QED
    BY <1>1, <1>2, <1>3, <1>4, <1>5 DEF GatewayNext, Callback

\* Every call record, the map of live calls and the vault stay well formed,
\* whichever calls the Runtimes make.
THEOREM GatewayTypeCorrect == GatewaySpec => []GatewayTypeOK
  <1>1. GatewayInv => GatewayTypeOK
    BY DEF GatewayInv, BudgetInv, GatewayTypeOK
  <1>2. QED
    BY <1>1, GatewayInvInit, GatewayInvStep, PTL DEF GatewaySpec

\* However many calls of a grant run at the same time, are cut, fail or are
\* tried again, the provider sees no more of them than the budget of the grant.
THEOREM ProviderCalls == GatewaySpec => []ProviderCallsWithinBudget
  <1>1. GatewayInv => ProviderCallsWithinBudget
    <2> SUFFICES ASSUME GatewayInv, NEW g \in DOMAIN grants
                 PROVE  Cardinality(Sent(g)) <= grants[g].budget.maxModelCalls
      BY DEF ProviderCallsWithinBudget, Sent
    <2>1. /\ IsFiniteSet(Sent(g)) /\ Cardinality(Sent(g)) <= grants[g].modelCalls
          /\ grants[g].modelCalls <= grants[g].budget.maxModelCalls
          /\ grants[g].modelCalls \in Nat /\ grants[g].budget.maxModelCalls \in Nat
      BY BudgetsAssumption
      DEF GatewayInv, SentWasReserved, BudgetInv, CallBudgetHolds, TypeOK, Grant
    <2>2. Cardinality(Sent(g)) \in Nat
      BY <2>1, FS_CardinalityType
    <2>3. QED
      BY <2>1, <2>2
  <1>2. QED
    BY <1>1, GatewayInvInit, GatewayInvStep, PTL DEF GatewaySpec

-----------------------------------------------------------------------------
(***************************************************************************)
(* Revocation.  With tunnels the invariant is false: a tunnel is untracked *)
(* twice, and the second time may drop the Set of a later call.            *)
(***************************************************************************)

\* A grant a call belongs to becomes neither revocable nor revoked in a step
\* that revokes nothing.
LEMMA GrantOfCallEffect ==
    ASSUME GatewayInv, VaultSide, NEW c \in Calls
    PROVE  LET g == calls[c].grant
           IN  /\ Revocable(grants', g) => Revocable(grants, g)
               /\ NothingIsRevoked /\ g \in DOMAIN grants' /\ grants'[g].status = "revoked"
                     => g \in DOMAIN grants /\ grants[g].status = "revoked"
  <1> DEFINE g == calls[c].grant
  <1>1. g <= minted /\ g \in Int /\ minted \in Nat
    BY DEF GatewayInv, CallsAreAccountable, CallRecord, BudgetInv, TypeOK
  <1>2. g \in DOMAIN grants' => g \in DOMAIN grants
    BY <1>1 DEF VaultSide
  <1> HIDE DEF g
  <1>3. Revocable(grants', g) => Revocable(grants, g)
    BY <1>2 DEF VaultSide, Revocable
  <1>4. NothingIsRevoked /\ g \in DOMAIN grants' /\ grants'[g].status = "revoked"
           => g \in DOMAIN grants /\ grants[g].status = "revoked"
    BY <1>2 DEF NothingIsRevoked
  <1>5. QED
    BY <1>3, <1>4 DEF g

\* One call changes, and no other loses its Set.
LEMMA OneCallKeepsTracking ==
    ASSUME TrackingInv, GatewayInv', VaultSide, NothingIsRevoked,
           NEW c \in Calls, NEW after \in CallRecord,
           calls' = [calls EXCEPT ![c] = after],
           \A d \in Calls \ {c} :
              calls[d].tracked /\ Revocable(grants, calls[d].grant) =>
                 liveByGrant'[calls[d].grant] = liveByGrant[calls[d].grant],
           after.stage \in SocketStages => after.tracked,
           after.tracked =>
              /\ after.bucket \in Calls
              /\ Revocable(grants', after.grant) => liveByGrant'[after.grant] = after.bucket,
           after.stage \in {"connecting", "streaming"} /\ after.kind = "model" =>
              ~(after.grant \in DOMAIN grants' /\ grants'[after.grant].status = "revoked")
    PROVE  TrackingInv'
  <1>1. calls'[c] = after /\ \A d \in Calls \ {c} : calls'[d] = calls[d]
    BY DEF TrackingInv, GatewayInv
  <1>2. SocketsAreTracked'
    BY <1>1 DEF TrackingInv, SocketsAreTracked
  <1>3. TrackedIsReachable'
    <2> SUFFICES ASSUME NEW d \in Calls, calls'[d].tracked
                 PROVE  /\ calls'[d].bucket \in Calls
                        /\ Revocable(grants', calls'[d].grant) =>
                              liveByGrant'[calls'[d].grant] = calls'[d].bucket
      BY DEF TrackedIsReachable
    <2>1. CASE d = c
      BY <1>1, <2>1
    <2>2. CASE d # c
      <3>1. /\ calls'[d] = calls[d] /\ calls[d].tracked
            /\ calls[d].bucket \in Calls
            /\ Revocable(grants, calls[d].grant) => liveByGrant[calls[d].grant] = calls[d].bucket
        BY <1>1, <2>2 DEF TrackingInv, TrackedIsReachable
      <3>2. Revocable(grants', calls[d].grant) => Revocable(grants, calls[d].grant)
        BY GrantOfCallEffect DEF TrackingInv
      <3>3. Revocable(grants', calls'[d].grant) => Revocable(grants, calls[d].grant)
        BY <3>1, <3>2
      <3>4. QED
        BY <2>2, <3>1, <3>3
    <2>3. QED
      BY <2>1, <2>2
  <1>4. NoModelCallOfRevoked'
    <2> SUFFICES ASSUME NEW d \in Calls, calls'[d].stage \in {"connecting", "streaming"},
                        calls'[d].kind = "model",
                        calls'[d].grant \in DOMAIN grants',
                        grants'[calls'[d].grant].status = "revoked"
                 PROVE  FALSE
      BY DEF NoModelCallOfRevoked, Live, OfRevokedGrant
    <2>1. d # c /\ calls'[d] = calls[d]
      BY <1>1
    <2>2. calls[d].grant \in DOMAIN grants /\ grants[calls[d].grant].status = "revoked"
      BY <2>1, GrantOfCallEffect DEF TrackingInv
    <2>3. QED
      BY <2>1, <2>2 DEF TrackingInv, NoModelCallOfRevoked, Live, OfRevokedGrant
  <1>5. QED
    BY <1>2, <1>3, <1>4 DEF TrackingInv

\* A call that joins its grant's Set leaves the Sets of all others in the map.
LEMMA TrackInKeepsOthers ==
    ASSUME TrackingInv, NEW c \in Calls, NEW g \in GrantIds, TrackIn(c, g)
    PROVE  /\ liveByGrant'[g] = BucketFor(c, g)
           /\ \A d \in Calls :
                 calls[d].tracked /\ Revocable(grants, calls[d].grant) =>
                    liveByGrant'[calls[d].grant] = liveByGrant[calls[d].grant]
  <1>1. liveByGrant \in [GrantIds -> Calls \cup {NoCall}]
    BY DEF TrackingInv, GatewayInv
  <1>2. \A d \in Calls :
           calls[d].tracked /\ Revocable(grants, calls[d].grant) =>
              liveByGrant[calls[d].grant] # NoCall
    BY GatewayAssumption DEF TrackingInv, TrackedIsReachable
  <1>3. QED
    BY <1>1, <1>2 DEF TrackIn, BucketFor

\* A call that leaves its Set takes the Set out of the map only if no other call
\* of its grant that can be revoked is tracked.
LEMMA UntrackKeepsOthers ==
    ASSUME TrackingInv, NEW c \in Calls, calls[c].tracked, Untrack(c)
    PROVE  \A d \in Calls \ {c} :
              calls[d].tracked /\ Revocable(grants, calls[d].grant) =>
                 liveByGrant'[calls[d].grant] = liveByGrant[calls[d].grant]
  <1> SUFFICES ASSUME NEW d \in Calls \ {c}, calls[d].tracked,
                      Revocable(grants, calls[d].grant)
               PROVE  liveByGrant'[calls[d].grant] = liveByGrant[calls[d].grant]
    OBVIOUS
  <1>1. /\ liveByGrant \in [GrantIds -> Calls \cup {NoCall}]
        /\ calls[d].grant \in GrantIds
    BY BoundsAssumption DEF TrackingInv, GatewayInv, BudgetInv, TypeOK, Revocable
  <1>2. CASE calls[d].grant # calls[c].grant
    BY <1>1, <1>2 DEF Untrack
  <1>3. CASE calls[d].grant = calls[c].grant
    <2>1. calls[d].bucket = calls[c].bucket
      BY <1>3 DEF TrackingInv, TrackedIsReachable
    <2>2. d \in Members(calls[c].bucket) \ {c}
      BY <2>1 DEF Members
    <2>3. QED
      BY <2>2 DEF Untrack
  <1>4. QED
    BY <1>2, <1>3

\* What is known of a call with a socket before it changes.
LEMMA SocketFacts ==
    ASSUME TrackingInv, VaultSide, "connect" \notin Kinds, NEW c \in Calls,
           UnderWay(calls[c])
    PROVE  /\ calls[c] \in CallRecord
           /\ calls[c].kind # "connect"
           /\ calls[c].grant \in GrantIds
           /\ calls[c].stage \in SocketStages => calls[c].tracked
           /\ calls[c].tracked =>
                 /\ calls[c].bucket \in Calls
                 /\ Revocable(grants', calls[c].grant) =>
                       liveByGrant[calls[c].grant] = calls[c].bucket
  <1>1. /\ calls[c] \in CallRecord /\ calls[c].kind \in Kinds
        /\ calls[c].grant \in GrantIds
    BY DEF TrackingInv, GatewayInv, CallsAreAccountable, UnderWay
  <1>2. Revocable(grants', calls[c].grant) => Revocable(grants, calls[c].grant)
    BY GrantOfCallEffect DEF TrackingInv
  <1>3. QED
    BY <1>1, <1>2 DEF TrackingInv, SocketsAreTracked, TrackedIsReachable

\* A call changes its stage, and perhaps its span, in the Set it is in.
LEMMA StageKeepsTracking ==
    ASSUME TrackingInv, GatewayInv', VaultSide, NothingIsRevoked,
           "connect" \notin Kinds, NEW c \in Calls, NEW after \in CallRecord,
           UnderWay(calls[c]), liveByGrant' = liveByGrant,
           after.stage \in SocketStages => calls[c].stage \in SocketStages,
           calls' = [calls EXCEPT ![c] = after],
           after.kind = calls[c].kind, after.grant = calls[c].grant,
           after.bucket = calls[c].bucket, after.tracked = calls[c].tracked,
           after.stage \in {"connecting", "streaming"} => Live(c)
    PROVE  TrackingInv'
  <1>1. calls[c].stage \in SocketStages => calls[c].tracked
    BY SocketFacts
  <1>2. calls[c].tracked =>
           /\ calls[c].bucket \in Calls
           /\ Revocable(grants', calls[c].grant) =>
                 liveByGrant[calls[c].grant] = calls[c].bucket
    BY SocketFacts
  <1>3. after.stage \in {"connecting", "streaming"} /\ after.kind = "model" =>
           ~(after.grant \in DOMAIN grants' /\ grants'[after.grant].status = "revoked")
    <2>1. Live(c) /\ calls[c].kind = "model" => ~OfRevokedGrant(c)
      BY DEF TrackingInv, NoModelCallOfRevoked
    <2>2. calls[c].grant \in DOMAIN grants' /\ grants'[calls[c].grant].status = "revoked"
             => OfRevokedGrant(c)
      BY GrantOfCallEffect DEF TrackingInv, OfRevokedGrant
    <2>3. QED
      BY <2>1, <2>2
  <1>4. QED
    BY <1>1, <1>2, <1>3, OneCallKeepsTracking

\* Callbacks keep what is connected within reach of a revocation.
LEMMA CallbackKeepsTracking ==
    ASSUME TrackingInv, "connect" \notin Kinds, NEW c \in Calls, Callback(c)
    PROVE  TrackingInv'
  <1>0. /\ VaultSide /\ NothingIsRevoked /\ GatewayInv'
        /\ calls[c] \in CallRecord /\ calls \in [Calls -> CallRecord]
    BY CallbackMove, CallbackEffect, AdvancesKeepsInv DEF TrackingInv, GatewayInv
  <1>1. CASE Resolved(c)
    <2>1. /\ calls[c].grant \in GrantIds /\ calls[c].kind # "model"
          /\ liveByGrant \in [GrantIds -> Calls \cup {NoCall}]
      BY <1>1 DEF Resolved, TrackingInv, GatewayInv, CallsAreAccountable, UnderWay
    <2> DEFINE g     == calls[c].grant
               after == Tracked(calls[c], c, g)
    <2>2. /\ after \in CallRecord
          /\ after = [kind |-> calls[c].kind, grant |-> g,
                      stage |-> "connecting", response |-> calls[c].response,
                      bucket |-> BucketFor(c, g),
                      tracked |-> TRUE, span |-> "running", charged |-> calls[c].charged]
          /\ BucketFor(c, g) \in Calls
      BY <1>0, <2>1, TrackedType
    <2>3. calls' = [calls EXCEPT ![c] = after] /\ TrackIn(c, g)
      BY <1>1 DEF Resolved
    <2>4. /\ liveByGrant'[g] = BucketFor(c, g)
          /\ \A d \in Calls :
                calls[d].tracked /\ Revocable(grants, calls[d].grant) =>
                   liveByGrant'[calls[d].grant] = liveByGrant[calls[d].grant]
      BY <2>1, <2>3, TrackInKeepsOthers
    <2> HIDE DEF after
    <2>5. QED
      BY <1>0, <2>1, <2>2, <2>3, <2>4, OneCallKeepsTracking
  <1>2. CASE NotResolved(c)
    <2> DEFINE after == [calls[c] EXCEPT !.stage = "refused"]
    <2>1. calls[c].stage = "resolving" /\ liveByGrant' = liveByGrant
          /\ calls' = [calls EXCEPT ![c] = after]
      BY <1>0, <1>2 DEF NotResolved
    <2>2. /\ after \in CallRecord /\ after.stage = "refused"
          /\ after.grant = calls[c].grant /\ after.bucket = calls[c].bucket
          /\ after.tracked = calls[c].tracked
      BY <1>0 DEF CallRecord, Stages
    <2>3. calls[c].tracked =>
             /\ calls[c].bucket \in Calls
             /\ Revocable(grants', calls[c].grant) =>
                   liveByGrant[calls[c].grant] = calls[c].bucket
      BY <1>0, <2>1, SocketFacts DEF UnderWay
    <2> HIDE DEF after
    <2>4. QED
      BY <1>0, <2>1, <2>2, <2>3, OneCallKeepsTracking DEF SocketStages
  <1>3. CASE Responds(c)
    <2>1. PICK response \in {"none", "open"} :
             calls' = [calls EXCEPT ![c] =
                [@ EXCEPT !.stage = "streaming", !.response = response]]
      BY <1>0, <1>3 DEF Responds
    <2>2. /\ Live(c) /\ liveByGrant' = liveByGrant /\ calls[c].stage \in SocketStages
          /\ UnderWay(calls[c])
      BY <1>3 DEF Responds, Live, SocketStages, UnderWay
    <2> DEFINE after == [calls[c] EXCEPT !.stage = "streaming", !.response = response]
    <2>3. /\ after \in CallRecord /\ after.kind = calls[c].kind
          /\ after.grant = calls[c].grant /\ after.bucket = calls[c].bucket
          /\ after.tracked = calls[c].tracked
      BY <1>0, <2>1 DEF CallRecord, Stages, Responses
    <2>4. calls' = [calls EXCEPT ![c] = after]
      BY <1>0, <2>1
    <2> HIDE DEF after
    <2>5. QED
      BY <1>0, <2>2, <2>3, <2>4, StageKeepsTracking
  <1>4. ASSUME NEW failed \in BOOLEAN, NEW tokens \in Charges,
               ResponseEnds(c, failed, tokens)
        PROVE  TrackingInv'
    <2>1. PICK charge \in Nat, span \in {"ok", "error"} :
             calls' = [calls EXCEPT ![c] =
                [@ EXCEPT !.response = "ended", !.charged = charge, !.span = span]]
      BY <1>4, BoundsAssumption DEF ResponseEnds
    <2>2. liveByGrant' = liveByGrant /\ UnderWay(calls[c])
      BY <1>4
      DEF ResponseEnds, TrackingInv, GatewayInv, CallsAreAccountable, AnsweredOK,
          UnderWay
    <2> DEFINE after ==
          [calls[c] EXCEPT !.response = "ended", !.charged = charge, !.span = span]
    <2>3. /\ after \in CallRecord /\ after.stage = calls[c].stage
          /\ after.kind = calls[c].kind /\ after.grant = calls[c].grant
          /\ after.bucket = calls[c].bucket /\ after.tracked = calls[c].tracked
      BY <1>0, <2>1 DEF CallRecord, Stages, Responses, SpanStates
    <2>4. calls' = [calls EXCEPT ![c] = after]
      BY <1>0, <2>1
    <2> HIDE DEF after
    <2>5. QED
      BY <1>0, <2>2, <2>3, <2>4, StageKeepsTracking DEF Live
  <1>5. CASE Fails(c)
    <2>1. calls[c].stage \in SocketStages /\ UnderWay(calls[c])
      BY <1>5 DEF Fails, Live, SocketStages, UnderWay
    <2>2. calls[c].kind # "connect" /\ calls[c].tracked
      BY <1>0, <2>1, SocketFacts
    <2>3. liveByGrant' = liveByGrant
      BY <1>5, <2>2 DEF Fails
    <2> DEFINE after ==
          [calls[c] EXCEPT !.stage = "failed", !.span = "error", !.tracked = TRUE]
    <2>4. /\ after \in CallRecord /\ after.stage = "failed" /\ after.kind = calls[c].kind
          /\ after.grant = calls[c].grant /\ after.bucket = calls[c].bucket
          /\ after.tracked = TRUE
      BY <1>0 DEF CallRecord, Stages, Responses, SpanStates
    <2>5. calls' = [calls EXCEPT ![c] = after]
      BY <1>0, <1>5, <2>2 DEF Fails
    <2> HIDE DEF after
    <2>6. after.tracked = calls[c].tracked
      BY <1>0, <2>2, <2>4 DEF CallRecord
    <2>7. QED
      BY <1>0, <2>1, <2>3, <2>4, <2>5, <2>6, StageKeepsTracking
  <1>6. CASE TunnelCut(c)
    <2>1. UnderWay(calls[c]) /\ calls[c].kind = "connect"
      BY <1>6 DEF TunnelCut, Live, UnderWay
    <2>2. QED
      BY <1>0, <2>1, SocketFacts
  <1>7. CASE Closes(c)
    <2>1. calls[c].stage \in SocketStages /\ UnderWay(calls[c]) /\ Untrack(c)
      BY <1>7 DEF Closes, SocketStages, UnderWay
    <2>2. calls[c].kind # "connect" /\ calls[c].tracked
      BY <1>0, <2>1, SocketFacts
    <2> DEFINE after ==
          [calls[c] EXCEPT !.stage = "closed", !.tracked = FALSE, !.span = calls[c].span]
    <2>3. after \in CallRecord /\ after.stage = "closed" /\ after.tracked = FALSE
      BY <1>0 DEF CallRecord, Stages, Responses, SpanStates
    <2>4. calls' = [calls EXCEPT ![c] = after]
      BY <1>0, <1>7, <2>2 DEF Closes
    <2>5. \A d \in Calls \ {c} :
             calls[d].tracked /\ Revocable(grants, calls[d].grant) =>
                liveByGrant'[calls[d].grant] = liveByGrant[calls[d].grant]
      BY <2>1, <2>2, UntrackKeepsOthers
    <2> HIDE DEF after
    <2>6. after.stage \notin SocketStages
      BY <2>3 DEF SocketStages
    <2>7. QED
      BY <1>0, <2>3, <2>4, <2>5, <2>6, OneCallKeepsTracking
  <1>8. QED
    BY <1>1, <1>2, <1>3, <1>4, <1>5, <1>6, <1>7 DEF Callback

\* So do new calls, which are tracked in the same step.
LEMMA RequestKeepsTracking ==
    ASSUME TrackingInv, GatewayInv', VaultSide, NothingIsRevoked,
           DOMAIN grants' = DOMAIN grants, NEW c \in Calls, NEW token \in 0 .. minted,
           NEW record \in CallRecord, Requested(c, record, token),
           calls' = [calls EXCEPT ![c] = record]
    PROVE  TrackingInv'
  <1>1. CASE record.stage = "connecting"
    <2>1. /\ record.grant = token /\ token \in GrantIds /\ record.tracked
          /\ record.bucket = BucketFor(c, token) /\ TrackIn(c, token)
          /\ grants'[token].status # "revoked"
      BY <1>1, BoundsAssumption
      DEF Requested, TrackingInv, GatewayInv, BudgetInv, TypeOK
    <2>2. record.bucket \in Calls
      BY <2>1 DEF BucketFor, TrackingInv, GatewayInv
    <2>3. /\ liveByGrant'[token] = BucketFor(c, token)
          /\ \A d \in Calls :
                calls[d].tracked /\ Revocable(grants, calls[d].grant) =>
                   liveByGrant'[calls[d].grant] = liveByGrant[calls[d].grant]
      BY <2>1, TrackInKeepsOthers
    <2>4. QED
      BY <2>1, <2>2, <2>3, OneCallKeepsTracking
  <1>2. CASE record.stage # "connecting"
    <2>1. /\ record.stage \in {"refused", "resolving"} /\ ~record.tracked
          /\ liveByGrant' = liveByGrant
      BY <1>2 DEF Requested
    <2>2. record.stage \notin SocketStages
      BY <2>1 DEF SocketStages
    <2>3. QED
      BY <2>1, <2>2, OneCallKeepsTracking
  <1>3. QED
    BY <1>1, <1>2

(***************************************************************************)
(* The revocation itself: whatever is live under a grant that can still be *)
(* revoked is in the Set the map holds, so it is destroyed.                *)
(***************************************************************************)
LEMMA RevokeKeepsTracking ==
    ASSUME TrackingInv, NEW g \in GrantIds, RevokeGrant(g)
    PROVE  TrackingInv'
  <1>1. /\ GatewayInv /\ VaultSide /\ CallsEffect /\ GatewayInv'
        /\ liveByGrant \in [GrantIds -> Calls \cup {NoCall}]
    BY RevokeEffect, CloseForGrantEffect, AdvancesKeepsInv
    DEF RevokeGrant, TrackingInv, GatewayInv
  <1>2. /\ DOMAIN grants' = DOMAIN grants
        /\ \A h \in DOMAIN grants \ {g} : grants'[h] = grants[h]
        /\ ~Revocable(grants', g)
        /\ grants'[g].status = "revoked" =>
              Revocable(grants, g) \/ grants[g].status = "revoked"
        /\ g \in DOMAIN grants
    BY <1>1, RevokeEffect DEF RevokeGrant, Revoke
  <1>3. /\ \A d \in Calls : calls[d] \in CallRecord
        /\ \A d \in Calls : calls'[d] \in {calls[d], Destroyed(calls[d])}
        /\ \A d \in Calls : liveByGrant[g] # NoCall /\ d \in Members(liveByGrant[g])
                               => calls'[d] = Destroyed(calls[d])
        /\ liveByGrant' = [liveByGrant EXCEPT ![g] = NoCall]
    BY <1>1 DEF GatewayInv, RevokeGrant, CloseForGrant
  <1>4. ASSUME NEW d \in Calls
        PROVE  /\ calls'[d].kind = calls[d].kind /\ calls'[d].grant = calls[d].grant
               /\ calls'[d].bucket = calls[d].bucket
               /\ calls'[d].tracked = calls[d].tracked
               /\ calls'[d].stage \in SocketStages => calls[d].stage \in SocketStages
               /\ calls'[d].stage \in {"connecting", "streaming"} =>
                     calls'[d] = calls[d] /\ Live(d)
               /\ calls'[d].stage # calls[d].stage =>
                     calls[d].stage \in {"connecting", "streaming"}
    <2>1. CASE calls'[d] = calls[d]
      BY <2>1 DEF Live
    <2>2. CASE calls'[d] = Destroyed(calls[d]) /\ calls'[d] # calls[d]
      BY <1>3, <2>2, DestroyedType DEF SocketStages
    <2>3. QED
      BY <1>3, <2>1, <2>2
  <1>5. SocketsAreTracked'
    BY <1>4 DEF TrackingInv, SocketsAreTracked
  <1>6. TrackedIsReachable'
    <2> SUFFICES ASSUME NEW d \in Calls, calls'[d].tracked
                 PROVE  /\ calls'[d].bucket \in Calls
                        /\ Revocable(grants', calls'[d].grant) =>
                              liveByGrant'[calls'[d].grant] = calls'[d].bucket
      BY DEF TrackedIsReachable
    <2>1. /\ calls[d].bucket \in Calls
          /\ Revocable(grants, calls[d].grant) => liveByGrant[calls[d].grant] = calls[d].bucket
      BY <1>4 DEF TrackingInv, TrackedIsReachable
    <2>2. Revocable(grants', calls[d].grant) =>
             calls[d].grant # g /\ Revocable(grants, calls[d].grant)
      BY <1>1, <1>2, GrantOfCallEffect
    <2>3. calls[d].grant # g /\ Revocable(grants, calls[d].grant) =>
             liveByGrant'[calls[d].grant] = liveByGrant[calls[d].grant]
      BY <1>1, <1>3, BoundsAssumption DEF GatewayInv, BudgetInv, TypeOK, Revocable
    <2>4. QED
      BY <1>4, <2>1, <2>2, <2>3
  <1>7. NoModelCallOfRevoked'
    <2> SUFFICES ASSUME NEW d \in Calls, calls'[d].stage \in {"connecting", "streaming"},
                        calls'[d].kind = "model",
                        calls'[d].grant \in DOMAIN grants',
                        grants'[calls'[d].grant].status = "revoked"
                 PROVE  FALSE
      BY DEF NoModelCallOfRevoked, Live, OfRevokedGrant
    <2>1. /\ calls'[d] = calls[d] /\ Live(d) /\ calls[d].kind = "model"
          /\ ~OfRevokedGrant(d)
      BY <1>4 DEF TrackingInv, NoModelCallOfRevoked
    <2>2. calls[d].grant = g /\ Revocable(grants, g)
      BY <1>2, <2>1 DEF OfRevokedGrant
    <2>3. calls[d].tracked
      BY <2>1 DEF Live, SocketStages, TrackingInv, SocketsAreTracked
    <2>4. liveByGrant[g] = calls[d].bucket /\ liveByGrant[g] # NoCall
      BY <2>2, <2>3, GatewayAssumption DEF TrackingInv, TrackedIsReachable
    <2>5. calls'[d] = Destroyed(calls[d])
      BY <1>3, <2>3, <2>4 DEF Members
    <2>6. QED
      BY <1>3, <2>1, <2>5, DestroyedType DEF Live
  <1>8. QED
    BY <1>1, <1>5, <1>6, <1>7 DEF TrackingInv

\* So does the vault, but for revocation.
LEMMA VaultKeepsTracking ==
    ASSUME TrackingInv, VaultMove, UNCHANGED gatewayVars
    PROVE  TrackingInv'
  <1>1. VaultSide /\ NothingIsRevoked /\ GatewayInv
    BY VaultMoveEffect DEF TrackingInv
  <1>2. calls' = calls /\ liveByGrant' = liveByGrant
    BY DEF gatewayVars
  <1>3. GatewayInv'
    BY <1>1, <1>2, AdvancesKeepsInv DEF CallsEffect, GatewayInv
  <1>4. TrackedIsReachable'
    BY <1>1, <1>2, GrantOfCallEffect DEF TrackingInv, TrackedIsReachable
  <1>5. NoModelCallOfRevoked'
    BY <1>1, <1>2, GrantOfCallEffect
    DEF TrackingInv, NoModelCallOfRevoked, Live, OfRevokedGrant
  <1>6. QED
    BY <1>2, <1>3, <1>4, <1>5 DEF TrackingInv, SocketsAreTracked

\* No call has been made at first.
LEMMA TrackingInvInit == GatewayInit => TrackingInv
  <1> SUFFICES ASSUME GatewayInit PROVE TrackingInv
    OBVIOUS
  <1>1. /\ \A c \in Calls : /\ calls[c].stage = "idle" /\ calls[c].tracked = FALSE
    BY DEF GatewayInit, IdleCall
  <1>2. QED
    BY <1>1, GatewayInvInit
    DEF TrackingInv, SocketsAreTracked, SocketStages, TrackedIsReachable,
        NoModelCallOfRevoked, Live

\* Every step keeps what is connected within reach of a revocation.
LEMMA TrackingInvStep ==
    ASSUME "connect" \notin Kinds, TrackingInv, [GatewayNext]_allVars
    PROVE  TrackingInv'
  <1>1. CASE VaultStep \/ UNCHANGED allVars
    <2>1. VaultMove /\ UNCHANGED gatewayVars
      BY <1>1 DEF VaultStep, VaultMove, allVars
    <2>2. QED
      BY <2>1, VaultKeepsTracking
  <1>2. ASSUME NEW g \in GrantIds, RevokeGrant(g) PROVE TrackingInv'
    BY <1>2, RevokeKeepsTracking
  <1>3. ASSUME NEW c \in Calls, NEW token \in 0 .. minted, NEW late \in 0 .. 1,
               NEW covered \in BOOLEAN, NEW pathAllowed \in BOOLEAN,
               ModelRequest(c, token, covered, pathAllowed, late)
        PROVE  TrackingInv'
    BY <1>3, ModelRequestEffect, RequestKeepsInv, RequestKeepsTracking
    DEF ModelRequest, TrackingInv
  <1>4. ASSUME NEW c \in Calls, NEW token \in 0 .. minted, NEW late \in 0 .. 1,
               NEW kind \in Kinds, NEW covered \in BOOLEAN,
               NetworkRequest(c, kind, token, covered, late)
        PROVE  TrackingInv'
    BY <1>4, NetworkRequestEffect, RequestKeepsInv, RequestKeepsTracking
    DEF NetworkRequest, TrackingInv
  <1>5. ASSUME NEW c \in Calls, Callback(c) PROVE TrackingInv'
    BY <1>5, CallbackKeepsTracking
  <1>6. QED
    BY <1>1, <1>2, <1>3, <1>4, <1>5 DEF GatewayNext, Callback

(***************************************************************************)
(* On the model plane and for plain HTTP, a revocation reaches every call: *)
(* no model call of a revoked grant is live, and whatever is live under a  *)
(* grant that can be revoked is in the Set a revocation would destroy.     *)
(***************************************************************************)
THEOREM RevocationReaches ==
    "connect" \notin Kinds => (GatewaySpec => []RevocationReachesCalls)
  <1> SUFFICES ASSUME "connect" \notin Kinds
               PROVE  GatewaySpec => []RevocationReachesCalls
    OBVIOUS
  <1>1. TrackingInv => RevocationReachesCalls
    BY DEF TrackingInv, SocketsAreTracked, SocketStages, TrackedIsReachable,
           NoModelCallOfRevoked, RevocationReachesCalls, LiveCallsAreTracked,
           Live, Revocable
  <1>2. TrackingInv /\ [GatewayNext]_allVars => TrackingInv'
    BY TrackingInvStep
  <1>3. QED
    BY <1>1, <1>2, TrackingInvInit, PTL DEF GatewaySpec

-----------------------------------------------------------------------------
(***************************************************************************)
(* What the map of live calls holds, tunnels included.  A Set is of one    *)
(* grant and is left by its calls before they are closed; the call that    *)
(* made it is long under way when it is found in the map.  A call may be   *)
(* untracked twice, and the second time may drop a Set that is not its own,*)
(* which RevocationReaches excludes; but no Set is left behind.            *)
(***************************************************************************)
SetsAreOfOneGrant ==
    \A c \in Calls, g \in GrantIds :
        calls[c].tracked /\ liveByGrant[g] = calls[c].bucket /\ liveByGrant[g] # NoCall
            => calls[c].grant = g

SetsAreOld ==
    \A c, d \in Calls :
        calls[c].tracked /\ calls[c].bucket = d => ReachedUpstream(d)

TrackedAreOpen ==
    \A c \in Calls : calls[c].tracked => calls[c].stage \in SocketStages

SetsAreNotEmpty ==
    \A g \in GrantIds : liveByGrant[g] # NoCall => Members(liveByGrant[g]) # {}

SetsInv ==
    /\ GatewayInv
    /\ SetsAreOfOneGrant
    /\ SetsAreOld
    /\ TrackedAreOpen
    /\ SetsAreNotEmpty

\* What is in a Set the map holds, and what it takes to be.
LEMMA SetsFacts ==
    ASSUME SetsInv
    PROVE  /\ \A c \in Calls : calls[c] \in CallRecord
           /\ calls \in [Calls -> CallRecord]
           /\ liveByGrant \in [GrantIds -> Calls \cup {NoCall}]
           /\ NoCall \notin Calls
           /\ \A g \in GrantIds : liveByGrant[g] # NoCall =>
                 \E d \in Calls : /\ calls[d].tracked
                                  /\ calls[d].bucket = liveByGrant[g]
                                  /\ calls[d].grant = g
  BY GatewayAssumption
  DEF SetsInv, GatewayInv, SetsAreNotEmpty, Members, SetsAreOfOneGrant

\* One call changes and the map does not, or stays tracked where it was.
LEMMA OneCallKeepsSets ==
    ASSUME SetsInv, GatewayInv', NEW c \in Calls, NEW after,
           calls' = [calls EXCEPT ![c] = after],
           after.tracked = calls[c].tracked, after.bucket = calls[c].bucket,
           calls[c].tracked => /\ after.grant = calls[c].grant
                               /\ after.stage \in SocketStages,
           ReachedUpstream(c) => after.stage \notin {"idle", "resolving", "refused"},
           liveByGrant' = liveByGrant
    PROVE  SetsInv'
  <1>1. calls'[c] = after /\ \A d \in Calls \ {c} : calls'[d] = calls[d]
    BY SetsFacts
  <1>2. \A d \in Calls : /\ calls'[d].tracked = calls[d].tracked
                         /\ calls'[d].bucket = calls[d].bucket
                         /\ calls[d].tracked => calls'[d].grant = calls[d].grant
                         /\ ReachedUpstream(d) => ReachedUpstream(d)'
    BY <1>1 DEF ReachedUpstream
  <1>3. SetsAreOfOneGrant' /\ SetsAreOld'
    BY <1>2 DEF SetsInv, SetsAreOfOneGrant, SetsAreOld
  <1>4. TrackedAreOpen'
    BY <1>1 DEF SetsInv, TrackedAreOpen
  <1>5. SetsAreNotEmpty'
    BY <1>2 DEF SetsInv, SetsAreNotEmpty, Members
  <1>6. QED
    BY <1>3, <1>4, <1>5 DEF SetsInv

\* A call is tracked: it joins the Set of its grant, or makes one that is new.
LEMMA TrackKeepsSets ==
    ASSUME SetsInv, GatewayInv', NEW c \in Calls, NEW after, NEW g \in GrantIds,
           ~ReachedUpstream(c), calls' = [calls EXCEPT ![c] = after],
           after.tracked, after.bucket = BucketFor(c, g), after.grant = g,
           after.stage = "connecting", TrackIn(c, g)
    PROVE  SetsInv'
  <1>1. calls'[c] = after /\ \A d \in Calls \ {c} : calls'[d] = calls[d]
    BY SetsFacts
  <1>2. /\ liveByGrant'[g] = after.bucket
        /\ \A h \in GrantIds \ {g} : liveByGrant'[h] = liveByGrant[h]
        /\ after.bucket = IF liveByGrant[g] = NoCall THEN c ELSE liveByGrant[g]
    BY SetsFacts DEF TrackIn, BucketFor
  <1>3. \A d \in Calls : calls[d].tracked => calls[d].bucket # c
    BY DEF SetsInv, SetsAreOld
  <1>4. \A h \in GrantIds : liveByGrant[h] # c
    BY <1>3, SetsFacts
  <1>5. SetsAreOfOneGrant'
    <2> SUFFICES ASSUME NEW d \in Calls, NEW h \in GrantIds, calls'[d].tracked,
                        liveByGrant'[h] = calls'[d].bucket, liveByGrant'[h] # NoCall
                 PROVE  calls'[d].grant = h
      BY DEF SetsAreOfOneGrant
    <2>1. CASE d = c /\ h = g
      BY <1>1, <2>1
    <2>2. CASE d = c /\ h # g
      <3>1. liveByGrant[h] = liveByGrant[g] /\ liveByGrant[h] # NoCall
        BY <1>1, <1>2, <1>4, <2>2
      <3>2. PICK e \in Calls : /\ calls[e].tracked /\ calls[e].grant = h
                               /\ calls[e].bucket = liveByGrant[h]
        BY <3>1, SetsFacts
      <3>3. QED
        BY <2>2, <3>1, <3>2 DEF SetsInv, SetsAreOfOneGrant
    <2>3. CASE d # c /\ h = g
      <3>1. calls'[d] = calls[d] /\ calls[d].bucket # c
        BY <1>1, <1>3, <2>3
      <3>2. liveByGrant[g] = calls[d].bucket /\ liveByGrant[g] # NoCall
        BY <1>2, <2>3, <3>1
      <3>3. QED
        BY <2>3, <3>1, <3>2 DEF SetsInv, SetsAreOfOneGrant
    <2>4. CASE d # c /\ h # g
      BY <1>1, <1>2, <2>4 DEF SetsInv, SetsAreOfOneGrant
    <2>5. QED
      BY <2>1, <2>2, <2>3, <2>4
  <1>6. SetsAreOld'
    <2> SUFFICES ASSUME NEW d \in Calls, NEW e \in Calls, calls'[d].tracked,
                        calls'[d].bucket = e
                 PROVE  ReachedUpstream(e)'
      BY DEF SetsAreOld
    <2>1. ReachedUpstream(c)' /\ \A x \in Calls : ReachedUpstream(x) => ReachedUpstream(x)'
      BY <1>1 DEF ReachedUpstream
    <2>2. CASE d # c
      BY <1>1, <2>1, <2>2 DEF SetsInv, SetsAreOld
    <2>3. CASE d = c /\ e # c
      <3>1. liveByGrant[g] = e /\ e # NoCall
        BY <1>1, <1>2, <2>3, SetsFacts
      <3>2. QED
        BY <2>1, <3>1, SetsFacts DEF SetsInv, SetsAreOld
    <2>4. QED
      BY <2>1, <2>2, <2>3
  <1>7. TrackedAreOpen'
    BY <1>1 DEF SetsInv, TrackedAreOpen, SocketStages
  <1>8. SetsAreNotEmpty'
    <2> SUFFICES ASSUME NEW h \in GrantIds, liveByGrant'[h] # NoCall
                 PROVE  \E d \in Calls : calls'[d].tracked
                                        /\ calls'[d].bucket = liveByGrant'[h]
      BY DEF SetsAreNotEmpty, Members
    <2>1. CASE h = g
      BY <1>1, <1>2, <2>1
    <2>2. CASE h # g
      <3>1. PICK d \in Calls : calls[d].tracked /\ calls[d].bucket = liveByGrant[h]
        BY <1>2, <2>2, SetsFacts
      <3>2. d # c
        BY <3>1 DEF SetsInv, TrackedAreOpen, SocketStages, ReachedUpstream
      <3>3. QED
        BY <1>1, <1>2, <2>2, <3>1, <3>2
    <2>3. QED
      BY <2>1, <2>2
  <1>9. QED
    BY <1>5, <1>6, <1>7, <1>8 DEF SetsInv

\* A call is untracked, for the first time or once more: a Set that is left empty
\* is no longer in the map.
LEMMA UntrackKeepsSets ==
    ASSUME SetsInv, GatewayInv', NEW c \in Calls, NEW after,
           calls' = [calls EXCEPT ![c] = after], ~after.tracked,
           after.stage \notin {"idle", "resolving", "refused"},
           Untrack(c)
    PROVE  SetsInv'
  <1>1. calls'[c] = after /\ \A d \in Calls \ {c} : calls'[d] = calls[d]
    BY SetsFacts
  <1>2. \A h \in GrantIds : liveByGrant'[h] # NoCall => liveByGrant'[h] = liveByGrant[h]
    BY SetsFacts DEF Untrack
  <1>3. SetsAreOfOneGrant' /\ TrackedAreOpen'
    BY <1>1, <1>2 DEF SetsInv, SetsAreOfOneGrant, TrackedAreOpen
  <1>4. SetsAreOld'
    BY <1>1 DEF SetsInv, SetsAreOld, ReachedUpstream
  <1>5. SetsAreNotEmpty'
    <2> SUFFICES ASSUME NEW h \in GrantIds, liveByGrant'[h] # NoCall
                 PROVE  \E d \in Calls : calls'[d].tracked
                                        /\ calls'[d].bucket = liveByGrant'[h]
      BY DEF SetsAreNotEmpty, Members
    <2>1. PICK d \in Calls : /\ calls[d].tracked /\ calls[d].grant = h
                             /\ calls[d].bucket = liveByGrant[h]
      BY <1>2, SetsFacts
    <2>2. CASE d # c
      BY <1>1, <1>2, <2>1, <2>2
    <2>3. CASE d = c
      <3>1. Members(calls[c].bucket) \ {c} # {}
        BY <2>1, <2>3, SetsFacts DEF Untrack
      <3>2. PICK e \in Calls \ {c} : calls[e].tracked /\ calls[e].bucket = calls[c].bucket
        BY <3>1 DEF Members
      <3>3. QED
        BY <1>1, <1>2, <2>1, <2>3, <3>2
    <2>4. QED
      BY <2>2, <2>3
  <1>6. QED
    BY <1>3, <1>4, <1>5 DEF SetsInv

\* Callbacks keep the map free of empty Sets.
LEMMA CallbackKeepsSets ==
    ASSUME SetsInv, GatewayInv', NEW c \in Calls, Callback(c)
    PROVE  SetsInv'
  <1>0. /\ calls[c] \in CallRecord /\ calls \in [Calls -> CallRecord]
        /\ AnsweredOK(calls[c])
        /\ calls[c].tracked => calls[c].stage \in SocketStages
    BY DEF SetsInv, GatewayInv, CallsAreAccountable, TrackedAreOpen
  <1>1. CASE Resolved(c)
    <2>1. calls[c].grant \in GrantIds /\ ~ReachedUpstream(c)
      BY <1>1 DEF Resolved, SetsInv, GatewayInv, CallsAreAccountable, UnderWay,
                  ReachedUpstream
    <2> DEFINE g     == calls[c].grant
               after == Tracked(calls[c], c, g)
    <2>2. /\ after.tracked /\ after.bucket = BucketFor(c, g) /\ after.grant = g
          /\ after.stage = "connecting"
      BY <1>0, <2>1, TrackedType, SetsFacts
    <2>3. calls' = [calls EXCEPT ![c] = after] /\ TrackIn(c, g)
      BY <1>1 DEF Resolved
    <2> HIDE DEF after
    <2>4. QED
      BY <2>1, <2>2, <2>3, TrackKeepsSets
  <1>2. CASE NotResolved(c)
    <2> DEFINE after == [calls[c] EXCEPT !.stage = "refused"]
    <2>1. /\ calls' = [calls EXCEPT ![c] = after] /\ liveByGrant' = liveByGrant
          /\ calls[c].stage = "resolving"
      BY <1>0, <1>2 DEF NotResolved
    <2>2. after.tracked = calls[c].tracked /\ after.bucket = calls[c].bucket
          /\ after.grant = calls[c].grant
      BY <1>0 DEF CallRecord
    <2>3. ~calls[c].tracked /\ ~ReachedUpstream(c)
      BY <1>0, <2>1 DEF SocketStages, ReachedUpstream
    <2> HIDE DEF after
    <2>4. QED
      BY <2>1, <2>2, <2>3, OneCallKeepsSets
  <1>3. CASE Responds(c)
    <2>1. PICK response : calls' = [calls EXCEPT ![c] =
             [calls[c] EXCEPT !.stage = "streaming", !.response = response]]
      BY <1>0, <1>3 DEF Responds
    <2> DEFINE after == [calls[c] EXCEPT !.stage = "streaming", !.response = response]
    <2>2. /\ after.tracked = calls[c].tracked /\ after.bucket = calls[c].bucket
          /\ after.grant = calls[c].grant /\ after.stage = "streaming"
      BY <1>0 DEF CallRecord
    <2>3. calls' = [calls EXCEPT ![c] = after] /\ liveByGrant' = liveByGrant
      BY <1>3, <2>1 DEF Responds
    <2> HIDE DEF after
    <2>4. after.stage \in SocketStages
      BY <2>2 DEF SocketStages
    <2>5. QED
      BY <2>2, <2>3, <2>4, OneCallKeepsSets
  <1>4. ASSUME NEW failed \in BOOLEAN, NEW tokens \in Charges,
               ResponseEnds(c, failed, tokens)
        PROVE  SetsInv'
    <2>1. PICK charge, span :
             calls' = [calls EXCEPT ![c] =
                [calls[c] EXCEPT !.response = "ended", !.charged = charge, !.span = span]]
      BY <1>0, <1>4 DEF ResponseEnds
    <2> DEFINE after ==
          [calls[c] EXCEPT !.response = "ended", !.charged = charge, !.span = span]
    <2>2. /\ after.tracked = calls[c].tracked /\ after.bucket = calls[c].bucket
          /\ after.grant = calls[c].grant /\ after.stage = calls[c].stage
      BY <1>0 DEF CallRecord
    <2>3. calls' = [calls EXCEPT ![c] = after] /\ liveByGrant' = liveByGrant
      BY <1>4, <2>1 DEF ResponseEnds
    <2> HIDE DEF after
    <2>4. QED
      BY <1>0, <2>2, <2>3, OneCallKeepsSets DEF ReachedUpstream
  <1>5. CASE Fails(c)
    <2>1. PICK t \in BOOLEAN :
             /\ calls' = [calls EXCEPT ![c] =
                   [calls[c] EXCEPT !.stage = "failed", !.span = "error", !.tracked = t]]
             /\ t = IF calls[c].kind = "connect" THEN FALSE ELSE calls[c].tracked
      <3>1. (calls[c].tracked /\ ~(calls[c].kind = "connect")) \in BOOLEAN
        OBVIOUS
      <3>2. (calls[c].tracked /\ ~(calls[c].kind = "connect"))
               = IF calls[c].kind = "connect" THEN FALSE ELSE calls[c].tracked
        BY <1>0 DEF CallRecord
      <3>3. QED
        BY <1>0, <1>5, <3>1, <3>2 DEF Fails
    <2> DEFINE after ==
          [calls[c] EXCEPT !.stage = "failed", !.span = "error", !.tracked = t]
    <2>2. /\ after.tracked = t /\ after.bucket = calls[c].bucket
          /\ after.grant = calls[c].grant /\ after.stage = "failed"
      BY <1>0 DEF CallRecord
    <2>3. calls' = [calls EXCEPT ![c] = after]
      BY <2>1
    <2> HIDE DEF after
    <2>4. CASE calls[c].kind = "connect"
      <3>1. Untrack(c)
        BY <1>5, <2>4 DEF Fails
      <3>2. QED
        BY <2>1, <2>2, <2>3, <2>4, <3>1, UntrackKeepsSets
    <2>5. CASE calls[c].kind # "connect"
      <3>1. liveByGrant' = liveByGrant /\ after.stage \in SocketStages
        BY <1>5, <2>2, <2>5 DEF Fails, SocketStages
      <3>2. QED
        BY <2>1, <2>2, <2>3, <2>5, <3>1, OneCallKeepsSets
    <2>6. QED
      BY <2>4, <2>5
  <1>6. CASE TunnelCut(c)
    <2>1. /\ calls' = [calls EXCEPT ![c] = Destroyed(calls[c])]
          /\ liveByGrant' = liveByGrant
          /\ calls[c].stage \in {"connecting", "streaming"}
      BY <1>0, <1>6 DEF TunnelCut, Live
    <2>2. Destroyed(calls[c]).stage \in SocketStages
      BY <1>0, <2>1, DestroyedType DEF SocketStages
    <2>3. Destroyed(calls[c]).stage \notin {"idle", "resolving", "refused"}
      BY <2>2 DEF SocketStages
    <2>4. QED
      BY <1>0, <2>1, <2>2, <2>3, DestroyedType, OneCallKeepsSets
  <1>7. CASE Closes(c)
    <2>1. PICK span : calls' = [calls EXCEPT ![c] =
             [calls[c] EXCEPT !.stage = "closed", !.tracked = FALSE, !.span = span]]
      BY <1>0, <1>7 DEF Closes
    <2> DEFINE after ==
          [calls[c] EXCEPT !.stage = "closed", !.tracked = FALSE, !.span = span]
    <2>2. ~after.tracked /\ after.stage = "closed"
      BY <1>0 DEF CallRecord
    <2>3. calls' = [calls EXCEPT ![c] = after] /\ Untrack(c)
      BY <1>7, <2>1 DEF Closes
    <2> HIDE DEF after
    <2>4. QED
      BY <2>2, <2>3, UntrackKeepsSets
  <1>8. QED
    BY <1>1, <1>2, <1>3, <1>4, <1>5, <1>6, <1>7 DEF Callback

\* So does a revocation, which destroys the calls of a Set and drops it.
LEMMA RevokeKeepsSets ==
    ASSUME SetsInv, GatewayInv', NEW g \in GrantIds, CloseForGrant(g)
    PROVE  SetsInv'
  <1>1. /\ \A d \in Calls : calls'[d] \in {calls[d], Destroyed(calls[d])}
        /\ liveByGrant' = [liveByGrant EXCEPT ![g] = NoCall]
    BY DEF CloseForGrant
  <1>2. ASSUME NEW d \in Calls
        PROVE  /\ calls'[d].tracked = calls[d].tracked
               /\ calls'[d].bucket = calls[d].bucket
               /\ calls'[d].grant = calls[d].grant
               /\ calls[d].stage \in SocketStages => calls'[d].stage \in SocketStages
               /\ ReachedUpstream(d) => ReachedUpstream(d)'
    <2>1. calls[d] \in CallRecord
      BY SetsFacts
    <2>2. CASE calls[d].stage \in {"connecting", "streaming"}
      BY <1>1, <2>1, <2>2, DestroyedType DEF SocketStages, ReachedUpstream
    <2>3. CASE calls[d].stage \notin {"connecting", "streaming"}
      BY <1>1, <2>1, <2>3, DestroyedType DEF SocketStages, ReachedUpstream
    <2>4. QED
      BY <2>2, <2>3
  <1>3. \A h \in GrantIds : liveByGrant'[h] # NoCall => liveByGrant'[h] = liveByGrant[h]
    BY <1>1, SetsFacts
  <1>4. SetsAreOfOneGrant' /\ SetsAreOld' /\ TrackedAreOpen'
    BY <1>2, <1>3 DEF SetsInv, SetsAreOfOneGrant, SetsAreOld, TrackedAreOpen
  <1>5. SetsAreNotEmpty'
    BY <1>2, <1>3 DEF SetsInv, SetsAreNotEmpty, Members
  <1>6. QED
    BY <1>4, <1>5 DEF SetsInv

\* And a request, which makes no Set, or one with itself in it.
LEMMA RequestKeepsSets ==
    ASSUME SetsInv, GatewayInv', NEW c \in Calls, calls[c].stage = "idle",
           NEW token \in 0 .. minted, NEW record \in CallRecord,
           Requested(c, record, token), calls' = [calls EXCEPT ![c] = record]
    PROVE  SetsInv'
  <1>1. ~calls[c].tracked /\ ~ReachedUpstream(c)
    BY DEF SetsInv, TrackedAreOpen, SocketStages, ReachedUpstream
  <1>2. CASE record.stage = "connecting"
    <2>1. token \in GrantIds
      BY <1>2, BoundsAssumption DEF Requested, SetsInv, GatewayInv, BudgetInv, TypeOK
    <2>2. QED
      BY <1>1, <1>2, <2>1, TrackKeepsSets DEF Requested
  <1>3. CASE record.stage # "connecting"
    <2>1. ~record.tracked /\ liveByGrant' = liveByGrant
      BY <1>3 DEF Requested
    <2>2. calls'[c] = record /\ \A d \in Calls \ {c} : calls'[d] = calls[d]
      BY SetsFacts
    <2>3. \A d \in Calls : /\ calls'[d].tracked => calls[d].tracked /\ d # c
                           /\ calls[d].tracked => calls'[d].tracked
                           /\ ReachedUpstream(d) => ReachedUpstream(d)'
      BY <1>1, <2>1, <2>2 DEF ReachedUpstream
    <2>4. SetsAreOfOneGrant' /\ SetsAreOld' /\ TrackedAreOpen'
      BY <2>1, <2>2, <2>3 DEF SetsInv, SetsAreOfOneGrant, SetsAreOld, TrackedAreOpen
    <2>5. SetsAreNotEmpty'
      BY <1>1, <2>1, <2>2, <2>3 DEF SetsInv, SetsAreNotEmpty, Members
    <2>6. QED
      BY <2>4, <2>5 DEF SetsInv
  <1>4. QED
    BY <1>2, <1>3

LEMMA SetsInvInit == GatewayInit => SetsInv
  <1> SUFFICES ASSUME GatewayInit PROVE SetsInv
    OBVIOUS
  <1>1. /\ \A c \in Calls : calls[c].tracked = FALSE
        /\ \A g \in GrantIds : liveByGrant[g] = NoCall
    BY DEF GatewayInit, IdleCall
  <1>2. QED
    BY <1>1, GatewayInvInit
    DEF SetsInv, SetsAreOfOneGrant, SetsAreOld, TrackedAreOpen, SetsAreNotEmpty

LEMMA SetsInvStep == SetsInv /\ [GatewayNext]_allVars => SetsInv'
  <1> SUFFICES ASSUME SetsInv, [GatewayNext]_allVars PROVE SetsInv'
    OBVIOUS
  <1>0. GatewayInv /\ GatewayInv'
    BY GatewayInvStep DEF SetsInv
  <1>1. CASE VaultStep \/ UNCHANGED allVars
    <2>1. calls' = calls /\ liveByGrant' = liveByGrant
      BY <1>1 DEF VaultStep, allVars, gatewayVars
    <2>2. QED
      BY <1>0, <2>1
      DEF SetsInv, SetsAreOfOneGrant, SetsAreOld, ReachedUpstream, TrackedAreOpen,
          SetsAreNotEmpty, Members
  <1>2. ASSUME NEW g \in GrantIds, RevokeGrant(g) PROVE SetsInv'
    BY <1>0, <1>2, RevokeKeepsSets DEF RevokeGrant
  <1>3. ASSUME NEW c \in Calls, NEW token \in 0 .. minted, NEW late \in 0 .. 1,
               NEW covered \in BOOLEAN, NEW pathAllowed \in BOOLEAN,
               ModelRequest(c, token, covered, pathAllowed, late)
        PROVE  SetsInv'
    BY <1>0, <1>3, ModelRequestEffect, RequestKeepsSets DEF ModelRequest
  <1>4. ASSUME NEW c \in Calls, NEW token \in 0 .. minted, NEW late \in 0 .. 1,
               NEW kind \in Kinds, NEW covered \in BOOLEAN,
               NetworkRequest(c, kind, token, covered, late)
        PROVE  SetsInv'
    BY <1>0, <1>4, NetworkRequestEffect, RequestKeepsSets DEF NetworkRequest
  <1>5. ASSUME NEW c \in Calls, Callback(c) PROVE SetsInv'
    BY <1>0, <1>5, CallbackKeepsSets
  <1>6. QED
    BY <1>1, <1>2, <1>3, <1>4, <1>5 DEF GatewayNext, Callback

\* Whatever calls and tunnels fail, close, are torn down and are untracked twice,
\* the map holds a Set only as long as one of the calls in it is open.
THEOREM MapHoldsOpen == GatewaySpec => []MapHoldsOpenCalls
  <1>1. SetsInv => MapHoldsOpenCalls
    <2> SUFFICES ASSUME SetsInv, NEW g \in GrantIds, liveByGrant[g] # NoCall
                 PROVE  \E c \in Members(liveByGrant[g]) :
                           /\ calls[c].grant = g
                           /\ ReachedUpstream(c)
                           /\ calls[c].stage # "closed"
      BY DEF MapHoldsOpenCalls
    <2>1. PICK d \in Calls : /\ calls[d].tracked /\ calls[d].grant = g
                             /\ calls[d].bucket = liveByGrant[g]
      BY SetsFacts
    <2>2. calls[d].stage \in SocketStages
      BY <2>1 DEF SetsInv, TrackedAreOpen
    <2>3. QED
      BY <2>1, <2>2 DEF Members, SocketStages, ReachedUpstream
  <1>2. QED
    BY <1>1, SetsInvInit, SetsInvStep, PTL DEF GatewaySpec

-----------------------------------------------------------------------------
(***************************************************************************)
(* The meter.  A call is charged when its response ends and never again;   *)
(* until then it is charged nothing, so that each response counts once,    *)
(* whatever its socket reports before or after.                            *)
(***************************************************************************)
NothingYet == \A c \in Calls : calls[c].response # "ended" => calls[c].charged = 0

MeterInv ==
    /\ GatewayInv
    /\ NothingYet
    /\ \A g \in DOMAIN grants :
          /\ IsFiniteSet(ChargedTo(g))
          /\ grants[g].totalTokens = Cardinality(ChargedTo(g))

\* No response ends: nothing is charged, and none that has ended is forgotten.
ChargesRest ==
    \A c \in Calls :
        /\ calls'[c].charged = calls[c].charged
        /\ calls'[c].grant = calls[c].grant \/ calls[c].charged = 0
        /\ calls[c].response = "ended" => calls'[c].response = "ended"

\* No grant is metered, and a new one has a meter at zero.
MetersRest ==
    \A g \in DOMAIN grants' :
        grants'[g].totalTokens = IF g \in DOMAIN grants THEN grants[g].totalTokens ELSE 0

LEMMA WhatIsCharged ==
    ASSUME NEW g, NEW p
    PROVE  p \in ChargedTo(g) <=>
              \E c \in Calls : calls[c].grant = g /\ p \in {c} \X (1 .. calls[c].charged)
  BY DEF ChargedTo

LEMMA WhatIsChargedNext ==
    ASSUME NEW g, NEW p
    PROVE  p \in ChargedTo(g)' <=>
              \E c \in Calls : calls'[c].grant = g /\ p \in {c} \X (1 .. calls'[c].charged)
  BY DEF ChargedTo

\* A grant is charged what it was while no response ends.
LEMMA ChargesRestKeeps ==
    ASSUME ChargesRest, NEW g
    PROVE  ChargedTo(g)' = ChargedTo(g)
  <1>1. \A c \in Calls : calls'[c].charged = calls[c].charged
    BY DEF ChargesRest
  <1>2. \A c \in Calls : calls'[c].grant = calls[c].grant \/ 1 .. calls[c].charged = {}
    BY DEF ChargesRest
  <1>3. \A c \in Calls : {c} \X (1 .. calls'[c].charged) = {c} \X (1 .. calls[c].charged)
    BY <1>1
  <1>4. \A c \in Calls : \A p : p \in {c} \X (1 .. calls[c].charged) => calls'[c].grant = calls[c].grant
    BY <1>2
  <1>5. \A p : p \in ChargedTo(g)' <=> p \in ChargedTo(g)
    BY <1>3, <1>4, WhatIsCharged, WhatIsChargedNext
  <1>6. QED
    BY <1>5

\* A grant that was not minted yet has been charged nothing.
LEMMA UnmintedUncharged ==
    ASSUME GatewayInv, NEW g \in Int, g > minted
    PROVE  ChargedTo(g) = {}
  <1>1. \A c \in Calls : calls[c].grant # g
    BY DEF GatewayInv, CallsAreAccountable, CallRecord, BudgetInv, TypeOK
  <1>2. QED
    BY <1>1 DEF ChargedTo

\* A step in which no response ends keeps the meters right.
LEMMA MeterRests ==
    ASSUME MeterInv, GatewayInv', VaultSide, MetersRest, ChargesRest
    PROVE  MeterInv'
  <1>1. NothingYet'
    BY DEF NothingYet, ChargesRest, MeterInv
  <1>2. ASSUME NEW g \in DOMAIN grants'
        PROVE  /\ IsFiniteSet(ChargedTo(g)')
               /\ grants'[g].totalTokens = Cardinality(ChargedTo(g)')
    <2>1. ChargedTo(g)' = ChargedTo(g)
      BY ChargesRestKeeps
    <2>2. CASE g \in DOMAIN grants
      BY <2>1, <2>2 DEF MeterInv, MetersRest
    <2>3. CASE g \notin DOMAIN grants
      <3>1. g > minted /\ g \in Int
        BY <1>2, <2>3, BoundsAssumption DEF VaultSide, TypeOK
      <3>2. ChargedTo(g) = {}
        BY <3>1, UnmintedUncharged DEF MeterInv
      <3>3. QED
        BY <2>1, <2>3, <3>2, FS_EmptySet DEF MetersRest
    <2>4. QED
      BY <2>2, <2>3
  <1>3. QED
    BY <1>1, <1>2 DEF MeterInv

\* The vault alone meters nothing: minting, reading, ending and asking.
LEMMA VaultMetersRest ==
    ASSUME GatewayInv,
           \/ UNCHANGED vars \/ Tick \/ List
           \/ \E budget \in Budgets : Mint(budget)
           \/ \E g \in GrantIds : EndRun(g)
           \/ \E g \in GrantIds : Revoke(g)
           \/ \E token \in GrantIds \cup {NoToken}, request \in Requests, late \in 0 .. 1 :
                 Authorize(token, request, late)
    PROVE  MetersRest
  <1>0. TypeOK /\ \A g \in DOMAIN grants : grants[g] \in Grant
    BY DEF GatewayInv, BudgetInv, TypeOK
  <1>1. CASE UNCHANGED vars \/ Tick
    BY <1>1 DEF vars, Tick, MetersRest
  <1>2. CASE List
    BY <1>0, <1>2, ExpireIfDueType DEF List, MetersRest, TypeOK
  <1>3. ASSUME NEW budget \in Budgets, Mint(budget) PROVE MetersRest
    <2>1. minted + 1 \notin DOMAIN grants
      BY <1>0 DEF TypeOK
    <2>2. /\ DOMAIN grants' \subseteq DOMAIN grants \cup {minted + 1}
          /\ grants'[minted + 1].totalTokens = 0
          /\ \A g \in DOMAIN grants' \ {minted + 1} : grants'[g] = grants[g]
      <3>1. /\ DOMAIN grants' \subseteq DOMAIN grants \cup {minted + 1}
            /\ \A g \in DOMAIN grants' \ {minted + 1} : grants'[g] = grants[g]
        BY <1>0, <1>3, MintEffect
      <3>2. grants'[minted + 1] =
                [status |-> "active", budget |-> budget, issuedAt |-> now,
                 modelCalls |-> 0, networkCalls |-> 0, totalTokens |-> 0]
        BY <1>0, <1>3, MintEffect
      <3>3. QED
        BY <3>1, <3>2
    <2>3. QED
      BY <2>1, <2>2 DEF MetersRest
  <1>4. ASSUME NEW g \in GrantIds, EndRun(g) PROVE MetersRest
    <2>1. g \in DOMAIN grants /\ now \in Nat
      BY <1>0, <1>4 DEF EndRun, TypeOK
    <2> DEFINE read == ExpireIfDue(grants[g], now)
               last == IF read.status = "active" THEN [read EXCEPT !.status = "closed"]
                                                 ELSE read
    <2>2. last.totalTokens = grants[g].totalTokens
      BY <1>0, <2>1, ExpireIfDueType DEF Grant
    <2>3. grants' = [grants EXCEPT ![g] = last]
      BY <1>4 DEF EndRun
    <2> HIDE DEF last
    <2>4. QED
      BY <1>0, <2>1, <2>2, <2>3 DEF MetersRest, TypeOK
  <1>5. ASSUME NEW g \in GrantIds, Revoke(g) PROVE MetersRest
    BY <1>0, <1>5 DEF Revoke, MetersRest, TypeOK, Grant
  <1>6. ASSUME NEW token \in GrantIds \cup {NoToken}, NEW request \in Requests,
               NEW late \in 0 .. 1, Authorize(token, request, late)
        PROVE  MetersRest
    <2>1. ASSUME NEW grant \in Grant
          PROVE  AuthorizedGrant(grant, request, now + late).totalTokens = grant.totalTokens
      <3>1. now + late \in Nat /\ request.plane \in Planes
        BY <1>0 DEF TypeOK, Requests
      <3> DEFINE snapshot == ExpireIfDue(grant, now + late)
      <3>2. snapshot \in Grant /\ snapshot.totalTokens = grant.totalTokens
        BY <3>1, ExpireIfDueType
      <3> HIDE DEF snapshot
      <3>3. Reserve(snapshot, request.plane).totalTokens = snapshot.totalTokens
        BY <3>1, <3>2, ReserveType
      <3>4. QED
        BY <3>2, <3>3 DEF AuthorizedGrant, snapshot
    <2>2. /\ DOMAIN grants' = DOMAIN grants
          /\ \A g \in DOMAIN grants :
               grants'[g] \in {grants[g], AuthorizedGrant(grants[g], request, now + late)}
      BY <1>0, <1>6, AuthorizeEffect
    <2>3. QED
      BY <1>0, <2>1, <2>2 DEF MetersRest
  <1>7. QED
    BY <1>1, <1>2, <1>3, <1>4, <1>5, <1>6

\* One call changes, is charged nothing and stays under its grant.
LEMMA OneCallRests ==
    ASSUME GatewayInv, NEW c \in Calls, NEW after,
           calls' = [calls EXCEPT ![c] = after],
           after.charged = calls[c].charged,
           after.grant = calls[c].grant \/ calls[c].charged = 0,
           calls[c].response = "ended" => after.response = "ended"
    PROVE  ChargesRest
  <1>1. calls'[c] = after /\ \A d \in Calls \ {c} : calls'[d] = calls[d]
    BY DEF GatewayInv
  <1>2. QED
    BY <1>1 DEF ChargesRest

\* No callback charges a call but the end of its response.
LEMMA OtherCallbacksRest ==
    ASSUME GatewayInv, NEW c \in Calls,
           \/ Resolved(c) \/ NotResolved(c) \/ Responds(c)
           \/ Fails(c) \/ TunnelCut(c) \/ Closes(c)
    PROVE  ChargesRest
  <1>0. calls[c] \in CallRecord /\ calls \in [Calls -> CallRecord]
    BY DEF GatewayInv
  <1>1. CASE Resolved(c)
    <2>1. calls' = [calls EXCEPT ![c] = Tracked(calls[c], c, calls[c].grant)]
      BY <1>0, <1>1 DEF Resolved
    <2>2. /\ Tracked(calls[c], c, calls[c].grant).charged = calls[c].charged
          /\ Tracked(calls[c], c, calls[c].grant).grant = calls[c].grant
          /\ Tracked(calls[c], c, calls[c].grant).response = calls[c].response
      BY <1>0 DEF Tracked, CallRecord
    <2>3. QED
      BY <2>1, <2>2, OneCallRests
  <1>2. CASE NotResolved(c) \/ Responds(c)
    <2>1. PICK stage, response :
             /\ calls' = [calls EXCEPT ![c] =
                   [calls[c] EXCEPT !.stage = stage, !.response = response]]
             /\ calls[c].response # "ended" \/ response = calls[c].response
      <3>1. CASE NotResolved(c)
        <4>1. [calls[c] EXCEPT !.stage = "refused"] =
                 [calls[c] EXCEPT !.stage = "refused", !.response = calls[c].response]
          BY <1>0 DEF CallRecord
        <4>2. QED
          BY <1>0, <3>1, <4>1 DEF NotResolved
      <3>2. CASE Responds(c)
        <4>1. calls[c].response # "ended"
          BY <3>2 DEF Responds, GatewayInv, CallsAreAccountable, AnsweredOK
        <4>2. QED
          BY <1>0, <3>2, <4>1 DEF Responds
      <3>3. QED
        BY <1>2, <3>1, <3>2
    <2> DEFINE after == [calls[c] EXCEPT !.stage = stage, !.response = response]
    <2>2. /\ after.charged = calls[c].charged /\ after.grant = calls[c].grant
          /\ after.response = response
      BY <1>0 DEF CallRecord
    <2>3. calls' = [calls EXCEPT ![c] = after]
      BY <2>1
    <2> HIDE DEF after
    <2>4. QED
      BY <2>1, <2>2, <2>3, OneCallRests
  <1>3. CASE Fails(c) \/ Closes(c)
    <2>1. PICK after : /\ calls' = [calls EXCEPT ![c] = after]
                       /\ after.charged = calls[c].charged
                       /\ after.grant = calls[c].grant
                       /\ after.response = calls[c].response
      <3>1. CASE Fails(c)
        <4> DEFINE after == [calls[c] EXCEPT !.stage = "failed", !.span = "error",
                        !.tracked = calls[c].tracked /\ ~(calls[c].kind = "connect")]
        <4>1. calls' = [calls EXCEPT ![c] = after]
          BY <1>0, <3>1 DEF Fails
        <4>2. after.charged = calls[c].charged /\ after.grant = calls[c].grant
              /\ after.response = calls[c].response
          BY <1>0 DEF CallRecord
        <4> HIDE DEF after
        <4>3. QED
          BY <4>1, <4>2
      <3>2. CASE Closes(c)
        <4> DEFINE after == [calls[c] EXCEPT !.stage = "closed", !.tracked = FALSE,
                        !.span = IF calls[c].kind = "connect" THEN "ok" ELSE calls[c].span]
        <4>1. calls' = [calls EXCEPT ![c] = after]
          BY <1>0, <3>2 DEF Closes
        <4>2. after.charged = calls[c].charged /\ after.grant = calls[c].grant
              /\ after.response = calls[c].response
          BY <1>0 DEF CallRecord
        <4> HIDE DEF after
        <4>3. QED
          BY <4>1, <4>2
      <3>3. QED
        BY <1>3, <3>1, <3>2
    <2>2. QED
      BY <2>1, OneCallRests
  <1>4. CASE TunnelCut(c)
    <2>1. calls' = [calls EXCEPT ![c] = Destroyed(calls[c])]
      BY <1>0, <1>4 DEF TunnelCut
    <2>2. /\ Destroyed(calls[c]).charged = calls[c].charged
          /\ Destroyed(calls[c]).grant = calls[c].grant
          /\ Destroyed(calls[c]).response = calls[c].response
      BY <1>0, DestroyedType
    <2>3. QED
      BY <2>1, <2>2, OneCallRests
  <1>5. QED
    BY <1>1, <1>2, <1>3, <1>4

\* Nor does a revocation, which destroys calls.
LEMMA CloseForGrantRests ==
    ASSUME GatewayInv, NEW g \in GrantIds, CloseForGrant(g)
    PROVE  ChargesRest
  <1>1. \A c \in Calls : /\ calls[c] \in CallRecord
                         /\ calls'[c] \in {calls[c], Destroyed(calls[c])}
    BY DEF CloseForGrant, GatewayInv
  <1>2. QED
    BY <1>1, DestroyedType DEF ChargesRest

\* Nor does a request: a call that is made has been charged nothing.
LEMMA RequestRests ==
    ASSUME MeterInv, NEW c \in Calls, NEW token, NEW late, NEW covered,
           \/ \E pathAllowed \in BOOLEAN : ModelRequest(c, token, covered, pathAllowed, late)
           \/ \E kind \in Kinds : NetworkRequest(c, kind, token, covered, late)
    PROVE  ChargesRest
  <1>1. calls[c].response = "none" /\ calls[c].charged = 0
    BY DEF ModelRequest, NetworkRequest, MeterInv, NothingYet, GatewayInv,
           CallsAreAccountable, AnsweredOK
  <1>2. PICK after : calls' = [calls EXCEPT ![c] = after] /\ after.charged = 0
    <2>1. ASSUME NEW pathAllowed \in BOOLEAN, ModelRequest(c, token, covered, pathAllowed, late)
          PROVE  \E after : calls' = [calls EXCEPT ![c] = after] /\ after.charged = 0
      <3> DEFINE arrived == [IdleCall EXCEPT !.kind = "model", !.grant = token]
                 refused == [arrived EXCEPT !.stage = "refused"]
      <3>1. /\ Tracked(arrived, c, token).charged = 0
            /\ refused.charged = 0
        BY DEF Tracked, IdleCall
      <3>2. \/ calls' = [calls EXCEPT ![c] = Tracked(arrived, c, token)]
            \/ calls' = [calls EXCEPT ![c] = refused]
        BY <2>1 DEF ModelRequest
      <3> HIDE DEF arrived, refused
      <3>3. QED
        BY <3>1, <3>2
    <2>2. ASSUME NEW kind \in Kinds, NetworkRequest(c, kind, token, covered, late)
          PROVE  \E after : calls' = [calls EXCEPT ![c] = after] /\ after.charged = 0
      <3> DEFINE request == [plane |-> "network", covered |-> covered]
                 after == [IdleCall EXCEPT !.kind = kind, !.grant = token,
                              !.stage = IF Admits(token, request, late)
                                        THEN "resolving" ELSE "refused"]
      <3>1. calls' = [calls EXCEPT ![c] = after]
        BY <2>2 DEF NetworkRequest
      <3>2. after.charged = 0
        BY DEF IdleCall
      <3> HIDE DEF after
      <3>3. QED
        BY <3>1, <3>2
    <2>3. QED
      BY <2>1, <2>2
  <1>3. QED
    BY <1>1, <1>2, OneCallRests DEF MeterInv

\* A response that ends charges its grant once.
LEMMA ResponseCharges ==
    ASSUME MeterInv, GatewayInv', NEW c \in Calls, NEW failed \in BOOLEAN,
           NEW tokens \in Charges, ResponseEnds(c, failed, tokens)
    PROVE  MeterInv'
  <1> PICK g : g = calls[c].grant
    OBVIOUS
  <1> DEFINE charge == IF calls[c].kind = "model" /\ ~failed THEN tokens ELSE 0
             after  == [calls[c] EXCEPT !.response = "ended", !.charged = charge,
                           !.span = IF calls[c].kind = "model" /\ failed
                                    THEN "error" ELSE "ok"]
  <1>0. /\ calls[c] \in CallRecord /\ calls \in [Calls -> CallRecord] /\ TypeOK
        /\ tokens \in Nat
    BY BoundsAssumption DEF MeterInv, GatewayInv, BudgetInv, TypeOK
  <1>1. calls[c].charged = 0
    BY DEF ResponseEnds, MeterInv, NothingYet
  <1>2. charge \in Nat /\ (calls[c].kind # "model" => charge = 0)
    BY <1>0
  <1>3. calls' = [calls EXCEPT ![c] = after]
    BY <1>0 DEF ResponseEnds
  <1>4. after.charged = charge /\ after.grant = g /\ after.response = "ended"
    BY <1>0 DEF CallRecord
  <1>5. IF calls[c].kind = "model" /\ g \in DOMAIN grants
        THEN RecordTokenUsage(g, charge) ELSE UNCHANGED vars
    BY DEF ResponseEnds
  <1> HIDE DEF charge, after
  <1>6. /\ calls'[c].charged = charge /\ calls'[c].grant = g
        /\ calls'[c].response = "ended"
        /\ \A d \in Calls \ {c} : calls'[d] = calls[d]
    BY <1>0, <1>3, <1>4
  <1>7. NothingYet'
    BY <1>6 DEF MeterInv, NothingYet
  <1>8. DOMAIN grants' = DOMAIN grants
    BY <1>0, <1>5 DEF RecordTokenUsage, vars, TypeOK
  <1>9. ASSUME NEW h \in DOMAIN grants, h # g
        PROVE  ChargedTo(h)' = ChargedTo(h) /\ grants'[h].totalTokens = grants[h].totalTokens
    <2>1. \A p : p \in ChargedTo(h)' <=> p \in ChargedTo(h)
      BY <1>6, <1>9, WhatIsCharged, WhatIsChargedNext
    <2>2. grants'[h] = grants[h]
      BY <1>0, <1>5, <1>9 DEF RecordTokenUsage, vars, TypeOK
    <2>3. QED
      BY <2>1, <2>2
  <1>10. ASSUME g \in DOMAIN grants
         PROVE  /\ IsFiniteSet(ChargedTo(g)')
                /\ grants'[g].totalTokens = Cardinality(ChargedTo(g)')
    <2> DEFINE new == {c} \X (1 .. charge)
    <2>1. 1 .. calls[c].charged = {}
      BY <1>1
    <2>2. \A p : p \in ChargedTo(g)' <=> p \in ChargedTo(g) \/ p \in new
      <3>1. \A p : p \notin {c} \X (1 .. calls[c].charged)
        BY <2>1
      <3>2. {c} \X (1 .. calls'[c].charged) = new
        BY <1>6
      <3>3. \A d \in Calls \ {c} : /\ calls'[d].grant = calls[d].grant
                                   /\ {d} \X (1 .. calls'[d].charged) = {d} \X (1 .. calls[d].charged)
        BY <1>6
      <3> HIDE DEF new
      <3>4. QED
        BY <1>6, <3>1, <3>2, <3>3, WhatIsCharged, WhatIsChargedNext
    <2>3. ChargedTo(g)' = ChargedTo(g) \cup new
      BY <2>2
    <2>4. ChargedTo(g) \cap new = {}
      <3>1. ASSUME NEW p \in new, NEW d \in Calls, p \in {d} \X (1 .. calls[d].charged)
            PROVE  FALSE
        BY <2>1, <3>1
      <3>2. QED
        BY <3>1, WhatIsCharged
    <2>5. IsFiniteSet(new) /\ Cardinality(new) = charge
      <3>1. IsFiniteSet({c}) /\ Cardinality({c}) = 1
        BY FS_Singleton
      <3>2. IsFiniteSet(1 .. charge) /\ Cardinality(1 .. charge) = charge
        <4>1. 1 \in Int /\ charge \in Int
          BY <1>2
        <4>2. IsFiniteSet(1 .. charge)
              /\ Cardinality(1 .. charge) = IF 1 > charge THEN 0 ELSE charge - 1 + 1
          BY <4>1, FS_Interval, Zenon
        <4>3. QED
          BY <1>2, <4>2
      <3>3. IsFiniteSet(new) /\ Cardinality(new) = Cardinality({c}) * Cardinality(1 .. charge)
        BY <3>1, <3>2, FS_Product, Zenon
      <3>4. QED
        BY <1>2, <3>1, <3>2, <3>3
    <2> HIDE DEF new
    <2>6. IsFiniteSet(ChargedTo(g)) /\ grants[g].totalTokens = Cardinality(ChargedTo(g))
      BY <1>10 DEF MeterInv
    <2>7. /\ IsFiniteSet(ChargedTo(g)')
          /\ Cardinality(ChargedTo(g)') = Cardinality(ChargedTo(g)) + charge
      <3>1. IsFiniteSet(ChargedTo(g) \cup new)
            /\ Cardinality(ChargedTo(g) \cup new) =
                  Cardinality(ChargedTo(g)) + Cardinality(new) - Cardinality({})
        BY <2>4, <2>5, <2>6, FS_Union
      <3>2. Cardinality({}) = 0 /\ Cardinality(ChargedTo(g)) \in Nat
        BY <2>6, FS_EmptySet, FS_CardinalityType
      <3>3. QED
        BY <1>2, <2>3, <2>5, <3>1, <3>2
    <2>8. grants'[g].totalTokens = grants[g].totalTokens + charge
      <3>1. grants[g] \in Grant
        BY <1>0, <1>10 DEF TypeOK
      <3>2. CASE calls[c].kind = "model"
        BY <1>0, <1>5, <1>10, <3>1, <3>2 DEF RecordTokenUsage, TypeOK, Grant
      <3>3. CASE calls[c].kind # "model"
        BY <1>2, <1>5, <3>1, <3>3 DEF vars, Grant
      <3>4. QED
        BY <3>2, <3>3
    <2>9. QED
      BY <2>6, <2>7, <2>8
  <1>11. \A h \in DOMAIN grants' : /\ IsFiniteSet(ChargedTo(h)')
                                   /\ grants'[h].totalTokens = Cardinality(ChargedTo(h)')
    <2> SUFFICES ASSUME NEW h \in DOMAIN grants
                 PROVE  /\ IsFiniteSet(ChargedTo(h)')
                        /\ grants'[h].totalTokens = Cardinality(ChargedTo(h)')
      BY <1>8
    <2>1. CASE h = g
      BY <1>10, <2>1
    <2>2. CASE h # g
      BY <1>9, <2>2 DEF MeterInv
    <2>3. QED
      BY <2>1, <2>2
  <1>12. QED
    BY <1>7, <1>11 DEF MeterInv

\* No call has been charged at first.
LEMMA MeterInvInit == GatewayInit => MeterInv
  <1> SUFFICES ASSUME GatewayInit PROVE MeterInv
    OBVIOUS
  <1>1. GatewayInv /\ DOMAIN grants = {}
    BY GatewayInvInit DEF GatewayInit, Init
  <1>2. NothingYet
    BY DEF NothingYet, GatewayInit, IdleCall
  <1>3. QED
    BY <1>1, <1>2 DEF MeterInv

\* Every step keeps the meters right.
LEMMA MeterInvStep == MeterInv /\ [GatewayNext]_allVars => MeterInv'
  <1> SUFFICES ASSUME MeterInv, [GatewayNext]_allVars PROVE MeterInv'
    OBVIOUS
  <1>0. GatewayInv /\ GatewayInv'
    BY GatewayInvStep DEF MeterInv
  <1>1. CASE VaultStep \/ UNCHANGED allVars
    <2>1. VaultMove /\ MetersRest /\ UNCHANGED gatewayVars
      BY <1>0, <1>1, VaultMetersRest DEF VaultStep, VaultMove, allVars
    <2>2. ChargesRest
      BY <2>1 DEF ChargesRest, gatewayVars
    <2>3. QED
      BY <1>0, <2>1, <2>2, VaultMoveEffect, MeterRests
  <1>2. ASSUME NEW g \in GrantIds, RevokeGrant(g) PROVE MeterInv'
    BY <1>0, <1>2, RevokeEffect, VaultMetersRest, CloseForGrantRests, MeterRests
    DEF RevokeGrant
  <1>3. ASSUME NEW c \in Calls, NEW token \in 0 .. minted, NEW late \in 0 .. 1,
               NEW covered \in BOOLEAN, NEW pathAllowed \in BOOLEAN,
               ModelRequest(c, token, covered, pathAllowed, late)
        PROVE  MeterInv'
    <2>1. VaultSide /\ ChargesRest
      BY <1>0, <1>3, ModelRequestEffect, RequestRests
    <2>2. \E request \in Requests : Authorize(token, request, late)
      BY <1>3 DEF ModelRequest, Requests, Planes
    <2>3. token \in GrantIds \cup {NoToken}
      BY <1>0, BoundsAssumption DEF GatewayInv, BudgetInv, TypeOK
    <2>4. MetersRest
      BY <1>0, <2>2, <2>3, VaultMetersRest
    <2>5. QED
      BY <1>0, <2>1, <2>4, MeterRests
  <1>4. ASSUME NEW c \in Calls, NEW token \in 0 .. minted, NEW late \in 0 .. 1,
               NEW kind \in Kinds, NEW covered \in BOOLEAN,
               NetworkRequest(c, kind, token, covered, late)
        PROVE  MeterInv'
    <2>1. VaultSide /\ ChargesRest
      BY <1>0, <1>4, NetworkRequestEffect, RequestRests
    <2>2. \E request \in Requests : Authorize(token, request, late)
      BY <1>4 DEF NetworkRequest, Requests, Planes
    <2>3. token \in GrantIds \cup {NoToken}
      BY <1>0, BoundsAssumption DEF GatewayInv, BudgetInv, TypeOK
    <2>4. MetersRest
      BY <1>0, <2>2, <2>3, VaultMetersRest
    <2>5. QED
      BY <1>0, <2>1, <2>4, MeterRests
  <1>5. ASSUME NEW c \in Calls,
               \/ Resolved(c) \/ NotResolved(c) \/ Responds(c)
               \/ Fails(c) \/ TunnelCut(c) \/ Closes(c)
        PROVE  MeterInv'
    <2>1. UNCHANGED vars
      BY <1>5 DEF Resolved, NotResolved, Responds, Fails, TunnelCut, Closes
    <2>2. VaultSide /\ MetersRest
      BY <1>0, <2>1, VaultMoveEffect, VaultMetersRest DEF VaultMove
    <2>3. QED
      BY <1>0, <1>5, <2>2, OtherCallbacksRest, MeterRests
  <1>6. ASSUME NEW c \in Calls, NEW failed \in BOOLEAN, NEW tokens \in Charges,
               ResponseEnds(c, failed, tokens)
        PROVE  MeterInv'
    BY <1>0, <1>6, ResponseCharges
  <1>7. QED
    BY <1>1, <1>2, <1>3, <1>4, <1>5, <1>6 DEF GatewayNext

\* However responses, failures, cuts and the end of a grant interleave, the
\* meter of a grant is the sum of what its responses were charged.
THEOREM MeterMatches == GatewaySpec => []MeterMatchesResponses
  <1>1. MeterInv => MeterMatchesResponses
    BY DEF MeterInv, MeterMatchesResponses
  <1>2. QED
    BY <1>1, MeterInvInit, MeterInvStep, PTL DEF GatewaySpec

=============================================================================
