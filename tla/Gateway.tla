-------------------------------- MODULE Gateway --------------------------------
(***************************************************************************)
(* The egress gateway of the Warden broker (warden/gateway.ts) on top of   *)
(* the vault, and the operator's revocation (warden/control.ts), which     *)
(* reaches into both.                                                      *)
(*                                                                         *)
(* A Runtime makes calls of three kinds: "model" (reverse proxy to the     *)
(* provider), "forward" (plain HTTP through the proxy) and "connect" (a    *)
(* tunnel).  Node runs one callback at a time, so a handler is atomic up   *)
(* to its first await.  The model plane has none; the two network paths    *)
(* await DNS between the policy decision and the connection.  After that   *)
(* the call lives in the callbacks of its socket ('connect' or response,   *)
(* 'end', 'error', 'close'), each an action here, in the orders Node can   *)
(* deliver them: 'error' and the 'close' after it are two callbacks.       *)
(***************************************************************************)
EXTENDS GrantVault

CONSTANTS
    Calls,     \* requests the Runtimes may make
    Kinds,     \* which of CallKinds they are of
    NoCall     \* not a call: an empty map entry

CallKinds == {"model", "forward", "connect"}

ASSUME GatewayAssumption ==
    /\ Kinds \subseteq CallKinds
    /\ NoCall \notin Calls

VARIABLES
    calls,       \* call -> its record
    liveByGrant  \* grant -> its current Set of tracked calls, or NoCall

gatewayVars == <<calls, liveByGrant>>
allVars == <<vars, gatewayVars>>

-----------------------------------------------------------------------------
(***************************************************************************)
(* Stages of a call, which are those of its upstream socket:               *)
(*   idle        not made yet                                              *)
(*   resolving   allowed by policy, waiting for DNS                        *)
(*   connecting  upstream connection asked for, nothing received           *)
(*   streaming   the headers arrived, or the tunnel is established         *)
(*   reset       (model, forward) destroyed while connecting: Node still   *)
(*               reports an 'error' before the 'close'                     *)
(*   broken      destroyed later, or a destroyed tunnel                    *)
(*   failed      the 'error' was delivered, the 'close' is still to come   *)
(*   closed      the 'close' was delivered                                 *)
(*   refused     answered without any upstream connection                  *)
(* The response of a model or forwarded call is a stream of its own: its   *)
(* 'end' comes when the Runtime has read it all, before or after the socket*)
(* that brought it fails or is closed, and never if it was cut short.      *)
(***************************************************************************)
Stages == {"idle", "resolving", "connecting", "streaming", "reset", "broken",
           "failed", "closed", "refused"}

Responses == {"none", "open", "ended"}

SpanStates == {"none", "running", "ok", "error"}

(***************************************************************************)
(* A Set of the liveByGrant map is named by the call that created it.      *)
(* bucket is the Set a call was added to, and tracked whether it is still  *)
(* in it: a Set outlives its entry in the map, because the function that   *)
(* removes a call from it keeps a reference to it.                         *)
(***************************************************************************)
CallRecord == [kind : Kinds \cup {"none"}, grant : GrantIds \cup {NoToken},
               stage : Stages, response : Responses,
               bucket : Calls \cup {NoCall}, tracked : BOOLEAN,
               span : SpanStates, charged : Nat]

IdleCall == [kind |-> "none", grant |-> NoToken, stage |-> "idle",
             response |-> "none", bucket |-> NoCall, tracked |-> FALSE,
             span |-> "none", charged |-> 0]

Live(c) == calls[c].stage \in {"connecting", "streaming"}

Members(b) == {c \in Calls : calls[c].tracked /\ calls[c].bucket = b}

Admits(token, request, late) ==
    /\ token \in byTokenHash
    /\ Allows(ExpireIfDue(grants[token], now + late), request, now)

-----------------------------------------------------------------------------
(* track: add the call to the Set of its grant, making one if there is none *)
BucketFor(c, g) == IF liveByGrant[g] = NoCall THEN c ELSE liveByGrant[g]

Tracked(record, c, g) ==
    [record EXCEPT !.stage = "connecting", !.span = "running",
                   !.bucket = BucketFor(c, g), !.tracked = TRUE]

TrackIn(c, g) == liveByGrant' = [liveByGrant EXCEPT ![g] = BucketFor(c, g)]

\* Mutant of Untrack: the call leaves its Set, which stays in the map.
MutantUntrackKeepsSet(c) == UNCHANGED liveByGrant

\* Mutant of Untrack: the map entry is removed with the first call that ends.
MutantUntrackWholeSet(c) ==
    liveByGrant' = [liveByGrant EXCEPT ![calls[c].grant] = NoCall]

(***************************************************************************)
(* The function track returns: it removes the call from the Set it was put *)
(* in and, if that Set is now empty, removes whatever Set the map holds    *)
(* for the grant.                                                          *)
(***************************************************************************)
Untrack(c) ==
    IF Members(calls[c].bucket) \ {c} = {}
    THEN liveByGrant' = [liveByGrant EXCEPT ![calls[c].grant] = NoCall]
    ELSE UNCHANGED liveByGrant

\* Mutant of Destroyed: only what carries data is cut.
MutantDestroyedStreaming(record) ==
    IF record.stage = "streaming" THEN [record EXCEPT !.stage = "broken"]
                                  ELSE record

\* What destroy() makes of a call; one that is already over stays as it is.
Destroyed(record) ==
    CASE record.stage = "connecting" /\ record.kind # "connect" ->
            [record EXCEPT !.stage = "reset"]
      [] \/ record.stage = "connecting" /\ record.kind = "connect"
         \/ record.stage = "streaming" ->
            [record EXCEPT !.stage = "broken"]
      [] OTHER -> record

\* closeForGrant: destroy every call of the current Set and drop the Set.
CloseForGrant(g) ==
    /\ calls' = [c \in Calls |->
                    IF liveByGrant[g] # NoCall /\ c \in Members(liveByGrant[g])
                    THEN Destroyed(calls[c]) ELSE calls[c]]
    /\ liveByGrant' = [liveByGrant EXCEPT ![g] = NoCall]

-----------------------------------------------------------------------------
(* The handlers up to their first await *)

\* A model call is authorized (which reserves it), checked against the inference
\* surface, given a span, sent and tracked in one go.
ModelRequest(c, token, covered, pathAllowed, late) ==
    LET request == [plane |-> "model", covered |-> covered]
        arrived == [IdleCall EXCEPT !.kind = "model", !.grant = token]
    IN  /\ "model" \in Kinds
        /\ calls[c].stage = "idle"
        /\ Authorize(token, request, late)
        /\ IF Admits(token, request, late) /\ pathAllowed
           THEN /\ calls' = [calls EXCEPT ![c] = Tracked(arrived, c, token)]
                /\ TrackIn(c, token)
           ELSE /\ calls' = [calls EXCEPT ![c] = [arrived EXCEPT !.stage = "refused"]]
                /\ UNCHANGED liveByGrant

NetworkRequest(c, kind, token, covered, late) ==
    LET request == [plane |-> "network", covered |-> covered]
    IN  /\ kind \in Kinds \ {"model"}
        /\ calls[c].stage = "idle"
        /\ Authorize(token, request, late)
        /\ calls' = [calls EXCEPT ![c] =
               [IdleCall EXCEPT !.kind = kind, !.grant = token,
                    !.stage = IF Admits(token, request, late)
                              THEN "resolving" ELSE "refused"]]
        /\ UNCHANGED liveByGrant

-----------------------------------------------------------------------------
(* Callbacks *)

\* DNS answered with an address that passes the screen: the call proceeds on
\* the decision made before the wait.
Resolved(c) ==
    /\ calls[c].stage = "resolving"
    /\ calls' = [calls EXCEPT ![c] = Tracked(@, c, calls[c].grant)]
    /\ TrackIn(c, calls[c].grant)
    /\ UNCHANGED vars

\* DNS failed, or every address it returned is private.
NotResolved(c) ==
    /\ calls[c].stage = "resolving"
    /\ calls' = [calls EXCEPT ![c].stage = "refused"]
    /\ UNCHANGED <<vars, liveByGrant>>

\* The response headers arrived, or the tunnel is established.
Responds(c) ==
    /\ calls[c].stage = "connecting"
    /\ calls' = [calls EXCEPT ![c] =
           [@ EXCEPT !.stage = "streaming",
                     !.response = IF calls[c].kind = "connect"
                                  THEN "none" ELSE "open"]]
    /\ UNCHANGED <<vars, liveByGrant>>

(***************************************************************************)
(* 'end' of a response, whatever became of the socket meanwhile: what was  *)
(* received whole is read to its end also after an 'error' or the 'close'. *)
(* A model response is charged to its grant whatever became of the grant   *)
(* meanwhile, and charged nothing if it failed; a grant that is no longer  *)
(* retained is charged nothing.                                            *)
(***************************************************************************)
ResponseEnds(c, failed, tokens) ==
    LET model   == calls[c].kind = "model"
        charge  == IF model /\ ~failed THEN tokens ELSE 0
    IN  /\ calls[c].response = "open"
        /\ IF model /\ calls[c].grant \in DOMAIN grants
           THEN RecordTokenUsage(calls[c].grant, charge)
           ELSE UNCHANGED vars
        /\ calls' = [calls EXCEPT ![c] =
               [@ EXCEPT !.response = "ended", !.charged = charge,
                         !.span = IF model /\ failed THEN "error" ELSE "ok"]]
        /\ UNCHANGED liveByGrant

\* 'error' of the socket, at any time before its 'close', also when the response
\* has begun or has ended (an upload that is answered early and then cannot be
\* written); a tunnel that was destroyed reports none.  The span ends as an
\* error, whatever it said; a tunnel is also untracked, being finished once here
\* and once more by its 'close'.
Fails(c) ==
    /\ \/ Live(c)
       \/ calls[c].stage \in {"reset", "broken"} /\ calls[c].kind # "connect"
    /\ LET connect == calls[c].kind = "connect"
       IN  /\ calls' = [calls EXCEPT ![c] =
                  [@ EXCEPT !.stage = "failed", !.span = "error",
                            !.tracked = calls[c].tracked /\ ~connect]]
           /\ IF connect THEN Untrack(c) ELSE UNCHANGED liveByGrant
    /\ UNCHANGED vars

\* Mutant of TunnelCut: the timer is armed once the tunnel is established.
MutantTunnelCutStreaming(c) ==
    /\ calls[c].kind = "connect"
    /\ calls[c].stage = "streaming"
    /\ calls' = [calls EXCEPT ![c] = Destroyed(@)]
    /\ UNCHANGED <<vars, liveByGrant>>

\* The tunnel's timer, or an error on the client's side of it: both ends are
\* destroyed.
TunnelCut(c) ==
    /\ calls[c].kind = "connect"
    /\ Live(c)
    /\ calls' = [calls EXCEPT ![c] = Destroyed(@)]
    /\ UNCHANGED <<vars, liveByGrant>>

\* 'close': the call is untracked; a tunnel's span ends as ok, whatever it said.
\* A response that is cut short by it never ends.
Closes(c) ==
    LET connect == calls[c].kind = "connect"
    IN  /\ calls[c].stage \in {"streaming", "broken", "failed"}
        /\ calls' = [calls EXCEPT ![c] =
               [@ EXCEPT !.stage = "closed", !.tracked = FALSE,
                         !.span = IF connect THEN "ok" ELSE calls[c].span]]
        /\ Untrack(c)
        /\ UNCHANGED vars

-----------------------------------------------------------------------------
(* The control server *)

\* revokeGrant: the vault refuses from now on and live work is torn down, in
\* one synchronous handler.  A grant that had already ended keeps its status.
RevokeGrant(g) ==
    /\ Revoke(g)
    /\ CloseForGrant(g)

\* endRun: the grant is read, which may expire it, and then closed.  Like
\* minting and reading it touches the vault only and closes no connection.
EndRun(g) ==
    /\ g \in DOMAIN grants
    /\ LET read == ExpireIfDue(grants[g], now)
       IN  grants' = [grants EXCEPT ![g] =
               IF read.status = "active" THEN [read EXCEPT !.status = "closed"]
                                         ELSE read]
    /\ liveTokens' = liveTokens \ {g}
    /\ registered' = registered \ (liveTokens \cap {g})
    /\ UNCHANGED <<now, minted, byTokenHash>>

VaultStep ==
    /\ \/ Tick
       \/ \E budget \in Budgets : Mint(budget)
       \/ \E g \in GrantIds : EndRun(g)
       \/ List
    /\ UNCHANGED gatewayVars

-----------------------------------------------------------------------------
GatewayInit ==
    /\ Init
    /\ calls = [c \in Calls |-> IdleCall]
    /\ liveByGrant = [g \in GrantIds |-> NoCall]

GatewayNext ==
    \/ VaultStep
    \/ \E g \in GrantIds : RevokeGrant(g)
    \/ \E c \in Calls, token \in 0 .. minted, late \in 0 .. 1 :
          \/ \E covered, pathAllowed \in BOOLEAN :
                ModelRequest(c, token, covered, pathAllowed, late)
          \/ \E kind \in Kinds, covered \in BOOLEAN :
                NetworkRequest(c, kind, token, covered, late)
    \/ \E c \in Calls :
          \/ Resolved(c) \/ NotResolved(c) \/ Responds(c)
          \/ \E failed \in BOOLEAN, tokens \in Charges :
                ResponseEnds(c, failed, tokens)
          \/ Fails(c) \/ TunnelCut(c) \/ Closes(c)

GatewaySpec == GatewayInit /\ [][GatewayNext]_allVars

\* The resolver answers, a destroyed or failed socket is closed by Node, and
\* the tunnel timer fires; no fairness of the far end.
GatewayFairness ==
    \A c \in Calls :
        /\ WF_allVars(Resolved(c) \/ NotResolved(c))
        /\ WF_allVars(TunnelCut(c))
        /\ WF_allVars(calls[c].stage \in {"broken", "failed"} /\ Closes(c))

GatewayFairSpec == GatewaySpec /\ GatewayFairness

-----------------------------------------------------------------------------
GatewayTypeOK ==
    /\ TypeOK
    /\ calls \in [Calls -> CallRecord]
    /\ liveByGrant \in [GrantIds -> Calls \cup {NoCall}]

ReachedUpstream(c) == calls[c].stage \notin {"idle", "resolving", "refused"}

OfRevokedGrant(c) ==
    /\ calls[c].grant \in DOMAIN grants
    /\ grants[calls[c].grant].status = "revoked"

\* gateway.ts:271-275: "Revocation must terminate work in flight, not merely
\* refuse the next call": no connection of a revoked grant carries data.
RevocationTerminatesWork == \A c \in Calls : Live(c) => ~OfRevokedGrant(c)

\* gateway.ts:232: "Live tunnels and upstream calls, keyed by grant, so
\* revocation can kill them": as long as a grant can be revoked, whatever is
\* live under it is in the Set the map holds for it.
LiveCallsAreTracked ==
    \A c \in Calls :
        (/\ Live(c)
         /\ calls[c].grant \in DOMAIN grants
         /\ grants[calls[c].grant].status \in {"active", "exhausted"})
        => /\ calls[c].tracked
           /\ liveByGrant[calls[c].grant] = calls[c].bucket

\* A model call is made under a grant that is not revoked and is torn down when
\* it is, whatever other calls of the grant start, fail or end at that time; and
\* whatever is live on either plane can still be found by a revocation.
RevocationReachesCalls ==
    /\ \A c \in Calls : Live(c) /\ calls[c].kind = "model" => ~OfRevokedGrant(c)
    /\ LiveCallsAreTracked

\* Calls that run at the same time, fail or are cut do not add up to more
\* requests at the provider than the budget of their grant: a call is reserved
\* before it is sent and never handed back.
ProviderCallsWithinBudget ==
    \A g \in DOMAIN grants :
        Cardinality({c \in Calls : /\ calls[c].kind = "model"
                                   /\ calls[c].grant = g
                                   /\ ReachedUpstream(c)})
            <= grants[g].budget.maxModelCalls

\* The tokens a grant's responses were charged, told one from another.
ChargedTo(g) ==
    UNION {{c} \X (1 .. calls[c].charged) : c \in {d \in Calls : calls[d].grant = g}}

\* The meter of a grant is the sum of what its responses were charged, each
\* once, including those that ended after the grant did.
MeterMatchesResponses ==
    \A g \in DOMAIN grants : grants[g].totalTokens = Cardinality(ChargedTo(g))

\* The map keeps a Set for a grant (gateway.ts:290-295) only as long as one of the
\* calls in it is not closed, in whatever order the calls of a grant fail, close
\* and are torn down, and however often they are untracked: a broker that runs
\* for long does not collect the Sets of grants that are over.
MapHoldsOpenCalls ==
    \A g \in GrantIds :
        liveByGrant[g] # NoCall =>
            \E c \in Members(liveByGrant[g]) :
                /\ calls[c].grant = g
                /\ ReachedUpstream(c)
                /\ calls[c].stage # "closed"

\* ledger.ts:36: the ledger is an "Append-only [...] trace store": once a span has
\* ended, what it says of its call does not change.
EndedSpansAreFinal ==
    [][\A c \in Calls : calls[c].span \in {"ok", "error"} =>
                           calls'[c].span = calls[c].span]_allVars

\* Every tunnel comes to an end by its timer, whatever the two ends of it do.
TunnelsEnd ==
    \A c \in Calls :
        (calls[c].kind = "connect" /\ calls[c].stage # "refused")
            ~> calls[c].stage \in {"closed", "refused"}

=============================================================================
