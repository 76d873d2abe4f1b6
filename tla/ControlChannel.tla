---------------------------- MODULE ControlChannel ----------------------------
(***************************************************************************)
(* The channel between the control plane and the Warden broker: Runs that  *)
(* WardenRunner brackets with beginRun and endRun (warden-runner.ts), the  *)
(* client whose every call has a time limit (control-client.ts), the       *)
(* server and what it does to vault, ledger and policy (control-server.ts, *)
(* control.ts, ledger.ts), and the archive of finished traces.             *)
(*                                                                         *)
(* A call that is given up on may have been handled, may still be, or may  *)
(* be lost; calls overtake each other, each being an HTTP request of its   *)
(* own.  The broker keeps everything in memory and is not restarted when   *)
(* it dies.  A handler has no await between its effects and is one step.   *)
(* The vault is seen through the status of its grants; GrantVault has the  *)
(* rest of it.  Listings and status change nothing and are left out.       *)
(***************************************************************************)
EXTENDS Policy, FiniteSets

CONSTANTS
    Runs,          \* Runs, each with one trace and at most one grant
    MaxTraces,     \* traces the ledger keeps (maxTraces)
    MaxChanges,    \* policy changes the audit tail keeps
    Offered,       \* templates the operator may apply, some of TemplateIds
    MaxApplied,    \* bound: templates applied over the whole history
    MaxLate,       \* bound: calls under way at one time that nobody waits for
    MaxFailures    \* bound: calls that fail while the broker is alive

ASSUME ChannelAssumption ==
    /\ MaxTraces \in Nat \ {0}
    /\ MaxChanges \in Nat \ {0}
    /\ Offered \subseteq TemplateIds
    /\ MaxApplied \in Nat
    /\ MaxLate \in Nat /\ MaxFailures \in Nat

VARIABLES
    up,          \* is the broker running?
    grants,      \* Run -> status of its grant
    delegated,   \* Run -> template its grant was minted from
    traces,      \* Run -> its trace in the ledger
    order,       \* the Runs whose traces the ledger holds, oldest first
    begun,       \* all Runs the broker has begun, in this order (history)
    template,    \* the template in force
    changes,     \* the audit tail of policy changes
    applied,     \* templates applied so far (for MaxApplied)
    failures,    \* calls that have failed so far (for MaxFailures)
    runner,      \* Run -> where WardenRunner.run is
    calls,       \* calls in flight
    archive      \* Run -> status of the trace that was archived for it

brokerVars == <<up, grants, delegated, traces, order, begun, template, changes,
                applied>>
channelVars == <<brokerVars, failures, runner, calls, archive>>

-----------------------------------------------------------------------------
GrantStates == {"none", "active", "exhausted", "expired", "revoked", "closed"}
Outcomes == {"ok", "error", "denied"}

\* A trace: its status, which is also that of its run span, and whether it
\* records that its grant was revoked.
TraceStates == Outcomes \cup {"none", "running"}
Trace == [status : TraceStates, revoked : BOOLEAN]
NoTrace == [status |-> "none", revoked |-> FALSE]
Kept(r) == traces[r].status # "none"

(***************************************************************************)
(* Phases of WardenRunner.run.  Asks names the call a phase waits for; the *)
(* other two tables say where an answer and a failed call take it.  beginRun*)
(* is outside the try: when it fails nothing is undone.  A failed endRun of*)
(* a good Run is caught like a failure of the Run itself.                  *)
(***************************************************************************)
Asks == [idle |-> "none", beginning |-> "beginRun", inner |-> "none",
         ending |-> "endRun", asking |-> "getGrant", closing |-> "endRun",
         archivingGood |-> "getTrace", archivingBad |-> "getTrace",
         completed |-> "none", failed |-> "none"]

AfterAnswer == [beginning |-> "inner", ending |-> "archivingGood",
                asking |-> "closing", closing |-> "archivingBad",
                archivingGood |-> "completed", archivingBad |-> "failed"]

\* Mutant of AfterFailure: a Run goes on without the broker.
MutantAfterFailureDegrades ==
    [beginning |-> "inner", ending |-> "asking",
     asking |-> "closing", closing |-> "archivingBad",
     archivingGood |-> "completed", archivingBad |-> "failed"]

AfterFailure == [beginning |-> "failed", ending |-> "asking",
                 asking |-> "closing", closing |-> "archivingBad",
                 archivingGood |-> "completed", archivingBad |-> "failed"]

Phases == DOMAIN Asks
Over(r) == runner[r].phase \in {"completed", "failed"}

\* result: what the inner runner came to; failedIn: the phases whose beginRun or
\* endRun failed; asked: a revocation of the grant was asked for (bound: once).
Handshakes == {"beginning", "ending", "closing"}
Runner == [phase : Phases, result : {"none", "ok", "failed"},
           failedIn : SUBSET Handshakes, asked : BOOLEAN]

(***************************************************************************)
(* A call: "sent" while somebody waits for it, "unheeded" when nobody does *)
(* (any more).  status is what an endRun reports.                          *)
(***************************************************************************)
Ops == {"beginRun", "endRun", "getGrant", "getTrace", "revokeGrant"}
Call == [run : Runs, op : Ops, status : Outcomes \cup {"none"},
         stage : {"sent", "unheeded"}]

NewCall(r, op, status, stage) ==
    [run |-> r, op |-> op, status |-> IF op = "endRun" THEN status ELSE "none",
     stage |-> stage]

-----------------------------------------------------------------------------
(* The runner *)

\* Put WardenRunner.run where `at' says, sending the call it then waits for.
Enter(r, at, status, others) ==
    /\ runner' = [runner EXCEPT ![r] = at]
    /\ calls' = IF Asks[at.phase] = "none" THEN others
                ELSE others \cup {NewCall(r, Asks[at.phase], status, "sent")}

StartRun(r) ==
    /\ runner[r].phase = "idle"
    /\ Enter(r, [runner[r] EXCEPT !.phase = "beginning"], "none", calls)
    /\ UNCHANGED <<brokerVars, failures, archive>>

\* The inner runner is done, well or not; it may also have been cancelled.
InnerEnds(r, good) ==
    /\ runner[r].phase = "inner"
    /\ Enter(r, [runner[r] EXCEPT !.phase = IF good THEN "ending" ELSE "asking",
                                  !.result = IF good THEN "ok" ELSE "failed"],
             "ok", calls)
    /\ UNCHANGED <<brokerVars, failures, archive>>

\* Mutant of Denied: a grant that is over in any way counts as a denial.
MutantDenied(reply) == reply \notin {"none", "active"}

\* The failure is the policy's if it stopped the grant.
Denied(reply) == reply \in {"revoked", "exhausted"}

\* The awaited call was answered, by what the broker holds now.  A trace goes to
\* the archive, if there is one and the append succeeds.
Answered(c) ==
    LET r  == c.run
        at == [runner[r] EXCEPT !.phase = AfterAnswer[@]]
    IN  /\ Enter(r, at, IF Denied(grants[r]) THEN "denied" ELSE "error", calls \ {c})
        /\ \/ UNCHANGED archive
           \/ /\ c.op = "getTrace" /\ Kept(r)
              /\ archive' = [archive EXCEPT ![r] = traces[r].status]
        /\ UNCHANGED failures

\* The awaited call has failed.
Failed(r, others) ==
    LET phase == runner[r].phase
    IN  /\ ~up \/ failures < MaxFailures
        /\ failures' = IF up THEN failures + 1 ELSE failures
        /\ Enter(r, [runner[r] EXCEPT !.phase = AfterFailure[phase],
                                      !.failedIn = @ \cup ({phase} \cap Handshakes)],
                 "error", others)
        /\ UNCHANGED archive

Late == {c \in calls : c.stage = "unheeded"}

(***************************************************************************)
(* The time limit of a call passes or its connection fails.  A request the *)
(* broker has not handled may still reach it (a read would change nothing).*)
(***************************************************************************)
GivesUp(c) ==
    /\ c.stage = "sent"
    /\ \/ Failed(c.run, calls \ {c})
       \/ /\ up /\ c.op \in {"beginRun", "endRun"}
          /\ Cardinality(Late) < MaxLate
          /\ Failed(c.run, (calls \ {c}) \cup {[c EXCEPT !.stage = "unheeded"]})
    /\ UNCHANGED brokerVars

Lost(c) ==
    /\ c.stage = "unheeded"
    /\ calls' = calls \ {c}
    /\ UNCHANGED <<brokerVars, failures, runner, archive>>

\* The deadline of a Run, armed once the grant is known and cleared when the Run
\* is over, or the operator at any time the broker lists the grant: neither
\* keeps the Run waiting.
AskToRevoke(r) ==
    /\ ~runner[r].asked
    /\ grants[r] # "none"
    /\ up /\ Cardinality(Late) < MaxLate
    /\ runner' = [runner EXCEPT ![r].asked = TRUE]
    /\ calls' = calls \cup {NewCall(r, "revokeGrant", "none", "unheeded")}
    /\ UNCHANGED <<brokerVars, failures, archive>>

-----------------------------------------------------------------------------
(* The ledger *)

\* Mutant of Evict: room is made only once the ledger is over its limit.
MutantEvict(held) ==
    IF Len(held) > MaxTraces THEN Len(held) - MaxTraces - 1 ELSE 0

\* How many traces make room: the oldest, whether their Runs are over or not.
Evict(held) == IF Len(held) > MaxTraces THEN Len(held) - MaxTraces ELSE 0

\* Mutant of BeginTrace: room is made at the wrong end (pop for shift).
MutantBeginTrace(r) ==
    LET held == Append(order, r)
        left == Len(held) - Evict(held)
        gone == {held[i] : i \in left + 1 .. Len(held)}
    IN  /\ order' = SubSeq(held, 1, left)
        /\ traces' = [x \in Runs |->
               CASE x \in gone -> NoTrace
                 [] x = r /\ r \notin gone -> [NoTrace EXCEPT !.status = "running"]
                 [] OTHER -> traces[x]]

BeginTrace(r) ==
    LET held == Append(order, r)
        gone == {held[i] : i \in 1 .. Evict(held)}
    IN  /\ order' = SubSeq(held, Evict(held) + 1, Len(held))
        /\ traces' = [x \in Runs |->
               CASE x \in gone -> NoTrace
                 [] x = r /\ r \notin gone -> [NoTrace EXCEPT !.status = "running"]
                 [] OTHER -> traces[x]]

-----------------------------------------------------------------------------
(* The control server *)

(***************************************************************************)
(* The reply to a handled call is heard, lost, or nobody waits for it.  It *)
(* concerns its own Run only, so it arrives in the step that sends it.     *)
(***************************************************************************)
Reply(c) ==
    \/ c.stage = "sent" /\ Answered(c)
    \/ c.stage = "sent" /\ Failed(c.run, calls \ {c})
    \/ /\ c.stage = "unheeded"
       /\ calls' = calls \ {c}
       /\ UNCHANGED <<failures, runner, archive>>

BeginRun(c) ==
    /\ c.op = "beginRun"
    /\ BeginTrace(c.run)
    /\ begun' = Append(begun, c.run)
    /\ grants' = [grants EXCEPT ![c.run] = "active"]
    /\ delegated' = [delegated EXCEPT ![c.run] = template]

\* Mutant of EndRun: only a good end closes the grant.
MutantEndRun(c) ==
    LET r == c.run
    IN  /\ c.op = "endRun"
        /\ grants' = [grants EXCEPT ![r] = IF @ = "active" /\ c.status = "ok"
                                           THEN "closed" ELSE @]
        /\ traces' = IF Kept(r)
                     THEN [traces EXCEPT ![r].status = c.status]
                     ELSE traces
        /\ UNCHANGED <<delegated, order, begun>>

\* endRun ends span and trace with the status it is given, whatever ended them
\* before; the vault closes a grant that is still active.
EndRun(c) ==
    LET r == c.run
    IN  /\ c.op = "endRun"
        /\ grants' = [grants EXCEPT ![r] = IF @ = "active" THEN "closed" ELSE @]
        /\ traces' = IF Kept(r)
                     THEN [traces EXCEPT ![r].status = c.status]
                     ELSE traces
        /\ UNCHANGED <<delegated, order, begun>>

\* Mutant of RevokeGrant: the revocation of an exhausted grant is not recorded.
MutantRevokeGrant(c) ==
    LET r == c.run
    IN  /\ c.op = "revokeGrant"
        /\ grants' = [grants EXCEPT ![r] =
               IF @ \in {"active", "exhausted"} THEN "revoked" ELSE @]
        /\ traces' = IF Kept(r) /\ grants[r] = "active"
                     THEN [traces EXCEPT ![r].revoked = TRUE] ELSE traces
        /\ UNCHANGED <<delegated, order, begun>>

\* revokeGrant records a revocation also when the grant was over already.
RevokeGrant(c) ==
    LET r == c.run
    IN  /\ c.op = "revokeGrant"
        /\ grants' = [grants EXCEPT ![r] =
               IF @ \in {"active", "exhausted"} THEN "revoked" ELSE @]
        /\ traces' = IF Kept(r) /\ grants[r] # "none"
                     THEN [traces EXCEPT ![r].revoked = TRUE] ELSE traces
        /\ UNCHANGED <<delegated, order, begun>>

Read(c) ==
    /\ c.op \in {"getGrant", "getTrace"}
    /\ UNCHANGED <<grants, delegated, traces, order, begun>>

Handle(c) ==
    /\ up
    /\ BeginRun(c) \/ EndRun(c) \/ RevokeGrant(c) \/ Read(c)
    /\ Reply(c)
    /\ UNCHANGED <<up, template, changes, applied>>

\* A grant is exhausted by its calls or found expired.
GrantEnds(r, how) ==
    /\ up
    /\ grants[r] = "active"
    /\ grants' = [grants EXCEPT ![r] = how]
    /\ UNCHANGED <<up, delegated, traces, order, begun, template, changes, applied,
                   failures, runner, calls, archive>>

\* Mutant of ApplyTemplate: the change is recorded from the template just set.
MutantApplyTemplate(id) ==
    /\ up
    /\ applied < MaxApplied
    /\ applied' = applied + 1
    /\ template' = id
    /\ LET all == Append(changes, [from |-> template', to |-> id])
       IN  changes' = IF Len(all) > MaxChanges THEN Tail(all) ELSE all
    /\ UNCHANGED <<up, grants, delegated, traces, order, begun, failures, runner, calls,
                   archive>>

\* The operator applies a template: it is what the next grant is minted from.
ApplyTemplate(id) ==
    /\ up
    /\ applied < MaxApplied
    /\ applied' = applied + 1
    /\ template' = id
    /\ LET all == Append(changes, [from |-> template, to |-> id])
       IN  changes' = IF Len(all) > MaxChanges THEN Tail(all) ELSE all
    /\ UNCHANGED <<up, grants, delegated, traces, order, begun, failures, runner, calls,
                   archive>>

\* The broker dies, with the calls it has not answered: nothing restarts it.
\* What it held is gone, and stands here as it was last.
BrokerDies ==
    /\ up
    /\ up' = FALSE
    /\ calls' = calls \ Late
    /\ UNCHANGED <<grants, delegated, traces, order, begun, template, changes, applied,
                   failures, runner, archive>>

-----------------------------------------------------------------------------
Init ==
    /\ up = TRUE
    /\ grants = [r \in Runs |-> "none"]
    /\ delegated = [r \in Runs |-> "startup"]
    /\ traces = [r \in Runs |-> NoTrace]
    /\ order = <<>>
    /\ begun = <<>>
    /\ template = "startup"
    /\ changes = <<>>
    /\ applied = 0
    /\ failures = 0
    /\ runner = [r \in Runs |-> [phase |-> "idle", result |-> "none",
                                 failedIn |-> {}, asked |-> FALSE]]
    /\ calls = {}
    /\ archive = [r \in Runs |-> "none"]

Next ==
    \/ \E r \in Runs :
          \/ StartRun(r)
          \/ \E good \in BOOLEAN : InnerEnds(r, good)
          \/ AskToRevoke(r)
          \/ \E how \in {"exhausted", "expired"} : GrantEnds(r, how)
    \/ \E c \in calls : GivesUp(c) \/ Lost(c) \/ Handle(c)
    \/ \E id \in Offered : ApplyTemplate(id)
    \/ BrokerDies

Spec == Init /\ [][Next]_channelVars

-----------------------------------------------------------------------------
ChannelTypeOK ==
    /\ up \in BOOLEAN
    /\ grants \in [Runs -> GrantStates]
    /\ delegated \in [Runs -> Policies]
    /\ traces \in [Runs -> Trace]
    /\ order \in Seq(Runs)
    /\ Len(order) <= MaxTraces
    /\ begun \in Seq(Runs)
    /\ template \in Policies
    /\ Len(changes) <= MaxChanges
    /\ runner \in [Runs -> Runner]
    /\ calls \subseteq Call
    /\ archive \in [Runs -> TraceStates]

(***************************************************************************)
(* "A control plane that silently continues when the broker is unreachable *)
(* would run Agents with no enforcement" (control-client.ts:19-22): nothing*)
(* executes before the broker has minted its grant.  When a Run is over its*)
(* grant and its trace are too, whichever calls failed, were late or were  *)
(* handled twice, unless the very first or the very last one failed.       *)
(***************************************************************************)
DelegationBracketsExecution ==
    \A r \in Runs :
        /\ runner[r].phase = "inner" \/ runner[r].result # "none" => grants[r] # "none"
        /\ Over(r) /\ (grants[r] = "active" \/ traces[r].status = "running")
               => runner[r].failedIn \cap {"beginning", "closing"} # {}

\* What a trace may say of its Run: that it went well only if the inner runner
\* said so, that it was denied only if its grant was stopped.
Tells(status, r) ==
    /\ status = "ok" => runner[r].result = "ok"
    /\ status = "denied" => grants[r] \in {"revoked", "exhausted"}
    /\ runner[r].phase = "completed" => status \in {"ok", "none"}

(***************************************************************************)
(* Ledger and archive agree with what the caller was told, though a late   *)
(* endRun may be handled after the one that was sent to replace it.  A good*)
(* Run is reported failed only if the broker could not be told.            *)
(***************************************************************************)
TraceTellsTheOutcome ==
    \A r \in Runs :
        /\ Tells(traces[r].status, r)
        /\ Tells(archive[r], r)
        /\ (runner[r].phase = "failed" /\ runner[r].result = "ok")
               => "ending" \in runner[r].failedIn
        /\ archive[r] = "running" => "closing" \in runner[r].failedIn

\* The last MaxTraces Runs the broker has begun.
Latest == {begun[i] : i \in {j \in DOMAIN begun : j > Len(begun) - MaxTraces}}

(***************************************************************************)
(* The ledger has the traces of the last MaxTraces Runs that were begun and*)
(* no others, whatever has become of these Runs.  A trace it has records   *)
(* the revocation of its grant; one that records a revocation belongs to a *)
(* grant that somebody asked to revoke and that is over (revokeGrant also  *)
(* records a request that found the grant closed or expired).              *)
(***************************************************************************)
EvidenceIsKept ==
    /\ {r \in Runs : Kept(r)} = Latest
    /\ \A r \in Runs : Kept(r) =>
          /\ grants[r] = "revoked" => traces[r].revoked
          /\ traces[r].revoked => /\ runner[r].asked
                                 /\ grants[r] \in {"revoked", "closed", "expired"}

(***************************************************************************)
(* Whoever asks why a Run was delegated what it was: the audit tail is an  *)
(* unbroken chain that ends at the template in force, and it still names   *)
(* the template of every grant unless it has been cut.                     *)
(***************************************************************************)
DelegationIsAccountable ==
    /\ template = IF changes = <<>> THEN "startup" ELSE changes[Len(changes)].to
    /\ \A i \in 2 .. Len(changes) : changes[i].from = changes[i - 1].to
    /\ applied = Len(changes) =>
          /\ changes # <<>> => changes[1].from = "startup"
          /\ \A r \in Runs :
                delegated[r] \in {"startup"} \cup {changes[i].to : i \in DOMAIN changes}

(***************************************************************************)
(* Under the policy in force and under each that may be applied, a request *)
(* is allowed if and only if its host was left whole by normalizeHost and  *)
(* one single scope says yes to all of the request; and "the answer cannot *)
(* drift from reality" (docs/WARDEN.md:153-156) holds of the dry run, but  *)
(* for the screens of resolved addresses and of model paths, which the dry *)
(* run does not apply.                                                     *)
(***************************************************************************)
PolicyIsAsPromised == {template} \cup TemplateIds \subseteq SoundPolicies

=============================================================================
