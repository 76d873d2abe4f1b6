# TLA+ models of the agent middleware

The program is a control plane that runs coding Agents in containers
(`apps/server/src`), and a broker, "Warden" (`apps/server/src/warden`), through
which everything a container sends to the network has to pass. This directory
holds TLA+ modules of both, the TLC configurations that check them, and proofs
checked by TLAPS. File names below are relative to `src/apps/server/src`.

1. Inventory — 2. Plan — 3. Modules — 4. Runs — 5. Fairness and bounds —
6. Proofs — 7. Disagreements with the code's own words — 8. Not modelled

## 1. Inventory

Both processes are Node: one callback runs at a time, and what interleaves is
what happens between two awaits. There are four actors: clients of the API, the
control plane, the broker, and the Runtime in its container; files and clocks
are shared by some of them.

| Component | State it keeps | Operations | Works with | What is hard | What makes it correct |
|---|---|---|---|---|---|
| **Grant vault** `warden/grants.ts` | `grants`, `byTokenHash`, `liveTokens`; the redactor's tokens | mint, authorize, recordTokenUsage, revoke, close, get, list, evictClosed | gateway, control server, clock | lazy expiry, eviction at a cap, two readings of the clock, late responses | no call beyond the budget; only a live grant spends; ended is ended; a usable token is redacted; eviction keeps evidence |
| **Policy** `warden/policy.ts`, `warden/templates.ts` | none; four templates | evaluate, matchHost, Build | vault, gateway, dry run | order of the tests; no test for `expired`; two planes, ports, blocked addresses; what `normalizeHost` makes of IPv6 literals | a request passes if and only if its host is left whole and one scope covers all of it; the dry run says what enforcement does |
| **Egress gateway** `warden/gateway.ts` | sockets, `liveByGrant` | model plane, forward proxy, CONNECT, track, closeForGrant | vault, ledger, DNS, provider | DNS await between decision and connection; `error`, `end` and `close` callbacks in any order | revocation cuts what is in flight; each response is metered once; nothing stays in the map; tunnels end |
| **Warden control** `warden/control.ts` | the policy in force, the audit tail of its changes | beginRun, endRun, revokeGrant, applyTemplate, checkPolicy | vault, gateway, ledger, runner | revoke reaches into two components in one step; the next grant is minted from what the operator last applied | no call survives its revocation; it can be told why a Run was delegated what it was |
| **Ledger** `warden/ledger.ts` | traces, spans, events | startTrace, startSpan, endSpan, endTrace, evict, persist | gateway, control | several callbacks end one span; eviction of running traces | what is kept agrees with what happened |
| **Trace archive** `warden/trace-archive.ts` | two files | append, rotate, find, list | Warden runner, routes | appends await between size test, rename, truncation and write | bounded; recent evidence is kept; a search does not miss |
| **Agent service** `agent-service.ts` | database rows, `activeExecutions`, `cancellationRequests` | create, update, delete, start, stop, sendMessage, executeRun, cancelRun, initialize | store, runner, workspaces | commands overlap with the life of a Run; writes queue; crash and repair | one active Run; no stuck Agent; final results stand; everything returns |
| **JSON store** `store.ts` | document in memory, in a file and in a temporary file; write queue | initialize, mutate, snapshot, persist | agent service | a refused write, a crash in the middle | atomic, durable, one mutation at a time |
| **Warden runner** `warden/warden-runner.ts` | a timer per Run | run, cancel, terminate | control, inner runner, archive | cancellation while the grant is awaited; deadline; a failed call at each stage | nothing executes without a grant; a Run is ended, and its grant with it, and its trace says how |
| **Control channel** `warden/control-client.ts`, `warden/control-server.ts` | requests under way | beginRun, endRun, getGrant, getTrace, revokeGrant, checkPolicy, applyTemplate | Warden runner, routes, Warden control | a call that is given up may have been handled, or be handled later; the broker dies with all it holds | fails closed; late calls do no harm |
| **Container runner** `container-codex-runner.ts` | `active`: Agent → container | run, cancel, removeContainer, terminate | container engine | one removal per Run, which may come before the container; timeouts, names taken by left-overs | what is cancelled ends, and nothing else |
| **Process runner** `codex-runner.ts` | `active`: Agent → process | run, cancel, terminate | operating system | SIGTERM then SIGKILL | as above |
| **Workspaces** `workspace.ts` | directories | create, archive, list | agent service | rename of a directory in use | a listed Agent has one |
| **Broker process** `warden/broker-container.ts`, `warden/broker-main.ts`, `warden/index.ts` | networks and the broker's container, by name | ensure networks, remove, create, start, poll, stop | container engine, start-up | commands that fail or time out half-done; what an earlier server left | a server that listens has its isolated network and its own broker |
| **Start-up and routes** `index.ts`, `startup.ts`, `app.ts`, `warden/routes.ts` | the listener | start, listen, shut down | all | a start that fails half-way | fails closed, and cleans up |
| **Redactor** `warden/redact.ts` | tokens to scrub | register, scrub | vault | tokens of finished grants | tokens of live grants are scrubbed |
| **Web page** `../web/src/App.tsx`, `api.ts` | lists, selection, Run and messages shown, poll loops | load, select, send, poll, commands, unlock | API | answers that come late, out of order or not at all | the screen is about the selected Agent; a Run shown as going on is watched |
| **Warden panel** `../web/src/WardenPanel.tsx`, deployment, demo | view state | reads on a timer | API | — | — |

The life of a Run crosses all of them: `sendMessage` inserts the Run in a store
mutation that also makes the Agent busy; `executeRun` marks it running in
another; the Warden runner asks the broker for a grant; the container runner
starts a container that holds the grant's token; the gateway answers the
container's calls against the vault; `endRun` closes the grant, the trace is
archived, and a last mutation stores the result. Stop, delete, revoke, the
wall-clock timer and a crash can come at any point of this.

## 2. Plan

Order: what enforces authority first, then what runs Agents, then what they
leave behind, then what ties the two processes together.

| | Module | Checked | Proved |
|---|---|---|---|
| 1 | `GrantVault`, with the abstract `GrantLifecycle` | yes | safety, refinement |
| 2 | `Gateway`, which extends the vault | yes | safety |
| 3 | `AgentService`, with the runners' part in a Run and the store's queue | yes | safety |
| 4 | `JsonStore`, with the abstract `AtomicStore`; it justifies the one-step mutations of `AgentService` | yes | safety, refinement |
| 5 | `TraceArchive` | yes | safety |
| 6 | `Policy`: the decision, templates, the dry run and enforcement | yes, by enumeration | decision and dry run, for every allowlist |
| 7 | `ControlChannel`, which extends `Policy`: runner, client, server, ledger | yes | safety |
| 8 | `Engine`: start-up, broker container, Runtimes | yes | type, fail-closed start |
| 9 | `Web`: the page | yes | safety |


## 3. Modules

**`GrantVault`** is `warden/grants.ts` with the half of `policy.ts` that depends
on the grant's state. A grant is named by the position of its mint, which is
also the order of `issuedAt`. `grants`, `byTokenHash` and `liveTokens` are the
maps of the class; `registered` the tokens the redactor scrubs; `now` the
clock. Each method is synchronous, hence one action; `Mint` includes
`evictClosed`, `Authorize` the lazy expiry, the decision and the reservation of
the call. The caller of `authorize` has read the clock before the vault does:
`late` is the millisecond that may turn in between. Whether some scope covers a
request (`covered`) is an input.
`GrantLifecycle` is what the holder of a grant is promised: issued once, spent
one call at a time, ended once. `GrantVaultRefinement` maps the vault to it; an
evicted grant is over. `GrantVaultProofs` holds the proofs.

**`Gateway`** extends the vault with `calls` (one record per request: kind,
stage of its socket, span, charge) and `liveByGrant`. A handler is one step up
to its first await: a model call is authorized, sent and tracked at once; the
forward proxy and CONNECT stop at the DNS lookup, and `Resolved` goes on with
the old decision. Each callback of a socket is an action. The response of a
model or forwarded call is a stream beside the socket (`response`): its `end`
may come before or after the socket's `error` and `close`, and `Fails` has no
guard on what was received, like the handlers it stands for. A JavaScript `Set` is
named by the call that created it, because the function `track` returns keeps
its reference after the map has dropped it. `RevokeGrant` is
`control.revokeGrant`: vault and tear-down in one step. `GatewayProofs` extends
the vault's proofs as the module does the vault.

**`AgentService`** has the database (`agents`, `runs`), directories
(`workspaces`, `archived`), the store's `queue`, one record of `executions` per
Run, the two maps of the class (`active`, `flags`) and the calls of the
commands. A mutation is one step, taken when it is at the head of the queue,
with the continuation of its caller; a refused write drops it. `BeginStored`,
`BeginRunAnswered`, `ContainerExits`, `EndRunAnswered` and `ResultStored` are
the awaits of `executeRun` and `WardenRunner.run`; `CancelExecution`,
`Terminated` and `Settles` the three parts of `cancelExecution`. The container
of a Run has a state of its own: the engine's client is started, the container
comes up or does not (`ContainerStarts`), and a removal either ends it or, when
it comes too early, finds nothing and is the last (`Removal`, `Cancels`,
`RuntimeTimesOut`). `Restart` is a
crash with the repair that `initialize` makes. `AgentServiceProofs` holds the
proofs.

**`JsonStore`** takes a write apart into opening, writing, renaming and
publishing, each of which can be refused or cut off by a crash; `initialize`
writes the first, empty document the same way. A document is the sequence of
the mutations in it. **`AtomicStore`** is its promise: applied whole or not at
all; confirmed means applied, refused means never. **`JsonStoreProofs`** holds
the proofs.

**`TraceArchive`** has one step per system call of `append`. Paths name files
and an open file survives its path, so files are numbered; `find` reads the two
paths in two steps. `overlap` is a history variable: a rotation has run
together with another append. `TraceArchiveProofs` holds the proofs.

**`Policy`** has no variables. `evaluate` is the list of its checks in their
order. A host is the sequence of its labels, an address literal a host of one
label; `form` says whether the wire adds a port, case, brackets or a final dot.
`NormalizeHost` takes these away from names, IPv4 literals and compressed IPv6
literals, except that a port stays on the latter (`WithPort`); an IPv6 literal
written out, without `::`, is cut at its first colon (`FirstGroup`). Both are
constants, from the literal to what is left of it. `checkPolicy` is the dry run,
`EnforceModel` and `EnforceNetwork` what the gateway asks, with the screen of
resolved addresses and the list of model paths, the default one or one that
`WARDEN_MODEL_PATHS` gives (`ModelPaths`). `Covers` is the reference definition:
one scope says yes to the whole request. `SoundPolicies` compares them over all
requests to the hosts of the instance, under each of the five policies the
broker can have.

**`ControlChannel`** extends it. `runner` is where `WardenRunner.run` is;
`Asks`, `AfterAnswer` and `AfterFailure` are its awaits and its `catch`. A call
is "sent" while it is awaited and "unheeded" once it has been given up (a
revocation by the deadline is never awaited); a given-up call may be handled
later or be lost. A handler of the server has no await between its effects, so
`Handle` is one step, over vault, ledger and policy. Its reply is heard, or
lost, in the same step: it concerns only its own Run, whose runner does nothing
else meanwhile, so that another step in between would commute with it. A read
answers with the grant or trace as it is then. The vault is reduced to the
status of each grant, which `GrantVault` has in full. The broker dies for good,
as the code has it: nothing restarts it. `begun` is a history variable: the Runs
in the order of their `beginRun`, against which the ledger is judged. `ControlChannelProofs` holds the proofs.

**`Engine`** is the other side of the runners and of start-up: containers by
name. One Agent is modelled, because names of different Agents never meet. Each
command of the engine can fail or time out, with or without its effect; a
removal that was given up can still be carried out, upon whatever bears the name
then. `leftover` is a history variable: a start was cut off where no code runs
to clean up.

**`Web`** is the page. A request is served and delivered in two steps where its
answer can grow old on the way. A callback, the render it causes and the effects
of that render are one step. `polls` has the loops of `pollRun`, `Awaited` what
a loop waits for once its Run is over. The server is what answers depend on.
`WebProofs` holds the proofs.

Operators named `Mutant...` are the definitions as a plausible mistake would
have them. Nothing in the specifications uses them; they exist to confirm that
each property fails when the code it watches is wrong.

## 4. Runs

| Run (module, cfg) | Question | Distinct states |
|---|---|---|
| `vault` (`MCGrantVault`, `GrantVault.cfg`) | Three grants over a cap of two, any order of calls, late responses, revocation, end, reading and time: are budgets kept, do only live grants spend, are usable tokens redacted, what does eviction drop, does authority end when only time passes, is `GrantLifecycle` implemented? | 250 000 |
| `gateway_http` (`MCGateway`, `GatewayHttp.cfg`) | Model and forwarded calls under two grants of one or two calls: budget at the provider, meter, tear-down, tracking; does the map keep sets of calls that are over? | 1 240 000 |
| `tunnels` (`MCGateway`, `GatewayTunnels.cfg`) | Does every tunnel end, and leave nothing in the map though a failed one is finished twice? | 3 400 |
| `service` (`MCAgentService`, `AgentService.cfg`) | Three messages and two commands with refused writes and a crash: one active Run that a cancellation finds, no stuck Agent, no orphan Run, results that stand. | 635 000 |
| `service_progress` (`MCAgentService`, `AgentServiceProgress.cfg`) | All commands, `stopAgent` too: does every Run end and every command return, unless a removal came before its container? Has a listed Agent its workspace? | 31 000 |
| `store` (`JsonStore`, `JsonStore.cfg`) | Three mutations, refusals, crashes: is the file whole, is it the atomic store? | 1 600 |
| `archive` (`MCTraceArchive`, `TraceArchive.cfg`) | Three appends at a time, refusals and a reader: are both files bounded, is anything lost or missed? | 105 000 |
| `channel` (`MCControlChannel`, `ControlChannel.cfg`) | Two Runs, two failed calls, two late ones, a broker that may die, revocation, exhaustion, expiry, a ledger of one trace, two changes of policy: does anything execute without a grant, is anything left open, do trace, archive and audit tail tell the truth? Does the policy decide, and its dry run answer, as promised? | 3 130 000 |
| `engine` (`Engine`, `Engine.cfg`) | Two starts, with and without Warden, each cut off or failing anywhere, and two Runs: is a server that listens isolated behind its own broker, and does what is cancelled end? | 2 100 |
| `web` (`MCWeb`, `Web.cfg`) | Two Agents, two Runs, a request that fails, and a user who does everything: is the screen about the selected Agent, and is its Run watched? | 3 990 000 |

Two more runs (`revoke_during_dns`, `stop_race`) each show one violation;
section 7 tells what they found.

`RevocationReachesCalls` passes while `RevocationTerminatesWork` fails: the
model plane has no await and tunnels have one. Likewise `OneActiveRun` passes
without `stopAgent` among the commands and fails with it. `CHECK_DEADLOCK` is
off where the bounded instance stops: all Runs given, all commands returned, the
broker dead, the starts used up.

## 5. Fairness and bounds

*Fairness.* `GrantVault`: the clock ticks, nothing else; expiry must not depend
on anyone looking. `Gateway`: the resolver answers, Node delivers the `close` of
a socket that was destroyed or has failed, and the tunnel's own timer fires
(`tunnelTimeoutMs` in `handleConnectAsync`, armed before the connection is); nothing
is assumed of the far end. `AgentService`: a queued write settles; the broker
answers or its client gives up (`AbortSignal.timeout` in `control-client.ts`);
the timer of `codexTimeoutMs` asks for the removal of the container; a container
exits once its removal has found it or failed, the latter because the engine's
client is then killed, SIGKILL after SIGTERM; a rename returns. No container has
to come up, or to exit by itself, and nothing ends one that was looked for
before it was there; `RunsSettle` and `CommandsReturn` set these apart
(`Missed`) and `TurnsEnd` shows them. Commands and messages are never forced to
come.

`Engine`: a removal succeeds, fails or times out (the `timeout` it is spawned
with); SIGKILL follows SIGTERM; a child that has ended closes. No Runtime has
to end by itself. `ControlChannel` and `Web` are checked for safety only, and
assume nothing.

*Bounds.* `MaxMints`, `MaxClock`, `MaxTokens`, `MaxNetworkCalls` (vault);
`Calls` (gateway); `MaxRuns`, `MaxCommands`, `MaxRestarts` (service);
`Mutations` (store); `Traces`, `MaxWriters` (archive); `MaxTraces` and
`MaxChanges` are caps of the program, `Offered`, `MaxApplied`, `MaxLate`,
`MaxFailures` bounds (channel); `MaxBoots`, `MaxRuns` (engine); `MaxRuns`,
`MaxOpen`, `MaxFailures` (web).

Two grants are enough for one to be evicted under the other, three for eviction
to have to choose; the budgets are such that one call and one response exhaust a
grant, and the wall clock ends before the time-to-live. Two gateway calls
suffice to compete for the last call of a budget, and to have one untracked
while the other is live. Three Runs and two commands of one Agent cover a Run
that is accepted while a command waits for the one before it, and one after
that; Agents share nothing but the write queue, so a second Agent adds delays
the first one already meets. Five traces of equal size over a cap of two rotate
twice. Two Runs of the broker meet only in the ledger and the policy: one trace
of room makes one evict the other, two failures and two late calls let an
`endRun` be overtaken by the one sent to replace it. Two starts are a server and
what it left behind; two Runs are a Run and the late removal of the one before.
Two Agents are the selected one and the one before it; two requests under way
when the user acts, and those the callbacks add, come back in either order.

*Symmetry.* `Calls`, `Runs` (channel) and `Agents` (web) are interchangeable:
no definition names one of them or picks one by order. They are declared
symmetric in runs that check no liveness.

## 6. Proofs

`tlapm` of the eight modules `GrantVaultProofs`, `GatewayProofs`,
`AgentServiceProofs`, `JsonStoreProofs`, `TraceArchiveProofs`,
`ControlChannelProofs`, `EngineProofs` and `WebProofs` checks everything listed
here, for all values of the constants under the modules' assumptions (budgets,
caps and bounds are natural numbers; markers are not data). Where a theorem has
a hypothesis of its own, it is named below with the reason; the run that checks
the same property has it too.

*Vault.* `TypeCorrect`, `CallBudget`, `OnlyLiveSpend`, `Redaction`,
`EvictionKeeps`, `Implements`.
The invariant that carries them is `BudgetInv`: `TypeOK`, `CallBudgetHolds` and
`ExpiredIsPast`, which says a grant marked expired is past its deadline. The
last is needed because the decision has no test for the status `expired`: it
compares the deadline with the clock, so an expired grant is refused only
because it is overdue now and for ever. `Redaction` has its own invariant.
`EvictionKeeps` is a counting argument: `Rank` counts the evictable grants that
are older, and a mint drops exactly those whose rank is below the excess over
the cap. The
proof that a step implements `GrantLifecycle` goes action by action; a mint may
also evict, which the mapping hides because only ended grants are evictable.

*Gateway.* `GatewayTypeCorrect`, `ProviderCalls`, `MeterMatches`,
`RevocationReaches`, `MapHoldsOpen`. What handlers do to the vault keeps
`BudgetInv`; `GatewayInv` adds that a call under way belongs to a grant that was minted, and that no more
model calls of a grant were sent than the vault has reserved
(`SentWasReserved`), which bounds what the provider sees. Grants are evicted and
calls outlive them, hence the bound is on what is still in the vault.
`MeterInv` adds that a call is charged nothing before its response ends
(`NothingYet`). The sum of the charges is stated as the number of tokens charged,
told one from another (`ChargedTo`), so that its laws are those of finite sets.
`TrackingInv` is about the map of live calls: a socket is in a `Set` until its
`close`, and under a grant that can still be revoked this is the `Set` the map
holds. `RevocationReaches` supposes that no tunnel is opened
(`"connect" \notin Kinds`): tunnels violate it, as section 7 tells.
`MapHoldsOpen` holds of tunnels too: the map's entry for a grant is removed by
whichever call leaves its own set empty, and a set in the map is never empty.

*Agent service.* `ServiceTypeCorrect`, `AgentsAgree`, `FinalStands`;
`OneRunAtATime`, `ActiveCancellable`; `ListedHaveWorkspaces`. The
first three rest on `ServiceInv`: `QueueOK` (a queued mutation is the next step
of exactly one caller, so that what is taken from the queue is still wanted),
`CommandsOK`, `BirthOK` (an Agent that waits to be stored has no past, so that
storing it disturbs nothing) and `RunsOK` (how far an execution is, against what
is stored of its Run). `OneEach` adds that an active Run has its
Agent busy, is the one in the map of executions, and is alone.
`OneRunAtATime` and `ActiveCancellable` suppose `"stop" \notin Kinds`, because a
stop breaks them (`stop_race`). `ListedHaveWorkspaces` supposes that writes are
not refused and that the process does not crash, because a refused write or a
crash in the middle of a deletion breaks it (section 7).

*Store.* `StoreTypeCorrect`, `MemoryOnDisk`, `StoreImplements`. The strengthening
is `StoreInv`: `MemoryFollowsDisk`, `QueueIsPending` (a queued mutation is
pending and queued once; what each phase knows of the temporary file) and
`FileIsAnswered` (what is in the file was confirmed, or lost its caller in a
crash, or is the one about to be published). The last two make a renamed
mutation new to the file and a refused one absent from it.

*Archive.* `FindMisses`, `RecentKept`, `ArchiveTypeCorrect`. `FindInv`: once the
trace that is looked for is out of the current file it never returns to it,
which is why reading the current file first is right. `RecentInv`: until a
rotation overlaps an append, one that rotates is alone and finds a full file
(`Alone`), hence the two files hold the `Cap` latest traces (`Latest`).
`BoundInv` counts, for each file, the appends that may still add to it; a
rotation gives the previous file only what the current one had room for. The
bound supposes that no rename is refused: a file that cannot be renamed grows.

*Channel.* `ChannelTypeCorrect`, `DelegationBrackets`, `TracesTell`,
`EvidenceKept`, `DelegationAccountable`, `PolicyKept`. `ChannelInv` says of each Run how the
place of its runner, the status of its grant, its trace and its archived trace
go together (`RunOK`), and of each call under way what it can still do
(`CallOK`): a late `beginRun` belongs to a Run that has failed, a late `endRun`
to one past its good end, and it says what is true. Runs meet only in the
ledger (`LedgerOK`) and in the audit tail, so that a step of one Run leaves what
is known of the others as it is. `EvidenceKept` needs that the ledger's order is
the end of the history of begun Runs: eviction takes the oldest and one only. `PolicyKept` is about operators, for every
upstream, allowlist and set of hosts: the least of the refusing checks is a
check (`LeastOf`), hence a fresh grant allows what no check refuses
(`FreshAllows`). A host that `normalizeHost` does not leave whole is named by no
scope, so it is refused whatever it was written for. The checks look at sets of scopes (host, then port, then
method), and each could be passed by another scope; that one scope passes them
all rests on the policies' shape (`ScopesThereAre`): a network scope leaves the
method open, and there is one model scope, of one exact host. The dry run asks
about that scope's port (`ModelPortIs`). What is supposed of the allowlist is
what `broker-main.ts` builds: network scopes without methods, and no empty
wildcard; and that nobody has allowlisted the remains of a literal, such as
`fd12` (`PolicyAssumption`). The list of model paths is any of those configured;
the dry run is compared with the path it asks about.

*Engine.* `EngineTypeCorrect`, `FailsClosed`. The first needs only that the active
Run has been started. The second rests on `FailClosedInv`, which follows the
stages of a start: from the verification of the networks until the server is
down the network is internal; from `Create` on the broker bears this start's
epoch; before that, a container of that name was left by a start that was cut
off or could not clean up; without Warden there is none.

*Web page.* `WebTypeCorrect`, `ScreenFollows`, `RunWatched`. `WebInv` says what a
request under way may carry: an answer speaks of Runs of the Agent that was
asked about (`RequestOK`), for good, because the server never goes back
(`Later`, `RunsLater`); a loop that has seen the end of its Run still has an
answer coming (`LoopsOK`); the messages of the selected Agent are there or on
their way (`MessagesFollow`: a load that was refused is no way, but then the
Agent is gone). A new selection clears the Run; what is shown later comes
through `Ours`.

*Only model-checked:* liveness (`AuthorityExpires`, `TunnelsEnd`, `RunsSettle`,
`CommandsReturn`, `EndingsEnd`), which the prover does not reach.

## 7. Disagreements with the code's own words

Shown by a run:

- `revoke_during_dns`: the network handlers decide, await DNS, then connect
  without asking the vault again (`gateway.ts:631`). A grant revoked in between
  gets a live tunnel, against "Revocation must terminate work in flight".
- `stop_race`: a stop given while the insertion of a message is still queued
  finds nothing to cancel; its mutation then marks the busy Agent stopped, and a
  start and another message give it a second active Run (`agent-service.ts:144`).

Met while modelling, without a run of their own; where a definition of the
modules says what should hold, TLC refutes it when it takes the place of the
properties of the configuration that is named:

- `EndedSpansAreFinal` (`GatewayTunnels.cfg`): a tunnel that fails ends its span
  as error, and the `close` that follows ends it again as ok
  (`gateway.ts:709-713`); `endSpan` replaces what the span said, in what calls
  itself an append-only store (`ledger.ts:36`). In the same way a model or
  forwarded call whose response has ended is made an error by a late failure of
  its upload (`gateway.ts:451`, `579`).
- `TurnsEnd` (`AgentServiceProgress.cfg`): a removal asked for before the engine
  has made the container removes nothing, and its promise is kept, so nothing is
  removed later (`container-codex-runner.ts:137-152`). Neither the cancellation
  nor `CODEX_TIMEOUT_MS`, "Maximum duration of one turn" (`src/README.md:366`),
  ends such a Run, and a stop or revocation that awaits it hangs with it.
  `RunsSettle`, `CommandsReturn` and `EndingsEnd` (`Engine`) speak of all others.
- `CancelledOnRequest` (`AgentService.cfg`): the cancellation flag is per Agent
  and stays up until the old container's removal has returned. A Run accepted in
  that time is cancelled in place of the revoked one (`agent-service.ts:275`,
  `357`), though "A stale revocation must not kill a newer run" (line 131).
- A failed tunnel is finished by `error` and again by `close`
  (`gateway.ts:294`). If another tunnel of the grant was tracked in a new set
  between the two, the second removes that set from `liveByGrant`, and a
  revocation no longer finds the tunnel. `LiveCallsAreTracked` fails of tunnels:
  in `GatewayHttp.cfg`, take `Kinds = {"connect"}` and this invariant alone.
- A revocation during `beginRun` finds no container to cancel, and nothing tests
  the flag again before the container starts (`BeginRunAnswered`).
- A grant that expires and is evicted before it is closed leaves its token in
  the redactor (`Mint`, `Close`); it is scrubbed for ever, which is harmless but
  grows.
- Two appends that rotate together push the generation just kept out of the
  archive. `RecentEvidenceKept` therefore speaks of the time before a rotation
  overlapped another append.
- A refused write or a crash between archiving the workspace and deleting the
  row leaves an Agent that can neither run nor be deleted.
  `ListedAgentsHaveWorkspaces` is checked where writes succeed.
- The dry run does not screen the addresses a host resolves to. A private
  address that a scope names, or a name that resolves to private addresses only,
  is "allowed" by the dry run and refused by the gateway (`gateway.ts:191`,
  `508`, `631`), though "the answer cannot drift from reality"
  (`docs/WARDEN.md:153-156`). `DryRunIsTrue` sets this screen apart, and likewise
  the paths of the model plane: where `WARDEN_MODEL_PATHS` leaves out
  `POST /responses` the dry run still allows the model plane.
- `normalizeHost` (`policy.ts:17-23`) cuts an IPv6 literal that is written out,
  without `::`, at its first colon. A scope that names it never matches, so it is
  always refused as a host; as an address that DNS gives, the tests of the
  restricted ranges see only its first group and do not recognise it. The port
  stays on a compressed one (`[::1]:443`). `DecidesByScope` and `DryRunIsTrue`
  hold of the code with both: see `Survives`, `FirstGroup`, `WithPort`.
- After a crash a Runtime's container keeps the name of its Agent, and the next
  Run fails with a name conflict, unless the server is started by
  `start-local-poc.sh`, which removes such containers first.
- `revokeGrant` of a grant that had ended changes nothing in the vault and
  records the revocation in the trace all the same (`RevokeGrant`); a late
  `endRun` gives an ended trace its status again (`EndRun`). `TraceTellsTheOutcome`
  holds with both; `EvidenceIsKept` allows the record where the revocation was
  asked for and the grant is over.
- The ledger evicts the oldest trace also when its Run still goes on (`Evict`);
  such a Run ends without a trace, in the archive too.
- An answer about a Run that was fetched before its end and comes after the poll
  loop has seen the end shows the Run as going on, until something else loads it
  (`App.tsx:206`). `ShownRunIsWatched` therefore asks for the loop only while
  the Run does go on.

## 8. Not modelled

- *Gateway:* headers, usage extraction, `listen`, `close`.
- *Policy:* `setBudget`, `allowHost`, `denyHost`, and of the *ledger* `listSpans`
  and persistence: no production code calls them.
- *Agent service:* `updateAgent`, which changes only data the models abstract.
- *Runners:* the parsing of output, credentials. *Archive:* `list`, the JSON of
  a record. *Redactor:* patterns and replacement. *Workspaces:* contents.
- *Engine:* which interface the broker binds (it starts or refuses to); a
  Runtime that is a bare process and outlives its server.
- *API:* authentication, validation, configuration. *Control channel:* its
  secret, health and the calls that only read and are awaited by no Run.
- *Web:* statuses of Agents, which only close buttons, copies of messages, and
  `WardenPanel`, which reads on a timer and forwards buttons.
- *Deployment, demo:* Terraform, the demo and its preparation.
