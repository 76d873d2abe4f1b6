----------------------------- MODULE AgentService -----------------------------
(***************************************************************************)
(* The control plane of the launchpad: AgentService (agent-service.ts) over*)
(* the write queue of JsonStore (store.ts), driving the Runtime through    *)
(* WardenRunner (warden-runner.ts) and the one-container-per-Agent runner  *)
(* (container-codex-runner.ts), with Warden enabled.                       *)
(*                                                                         *)
(* JavaScript runs one callback at a time, so a step is what runs from the *)
(* moment an awaited file write, broker reply or process exit comes in to  *)
(* the next await.  A mutation of the store is one step: it works on a     *)
(* clone that is published, on disk and in memory, or dropped as a whole;  *)
(* the continuation of its caller starts nothing that a step of another    *)
(* caller could overtake, and is part of that step.                        *)
(*                                                                         *)
(* A Run is named by the position of its sendMessage call, a command by    *)
(* the position of its own.  Messages, Codex threads, timestamps and error *)
(* texts are left out; so is updateAgent, which changes none of the state  *)
(* below.                                                                  *)
(***************************************************************************)
EXTENDS Integers, SequencesExt

CONSTANTS
    AgentIds,       \* ids an Agent may be created with
    Kinds,          \* the commands clients may give, a subset of CommandKinds
    PersistMayFail, \* whether writing the database file may be refused
    MaxRuns,        \* bound: calls of sendMessage
    MaxCommands,    \* bound: commands given
    MaxRestarts     \* bound: crashes of the control plane

CommandKinds == {"start", "stop", "delete", "revoke", "deadline"}

ASSUME AgentServiceAssumption ==
    /\ Kinds \subseteq CommandKinds
    /\ PersistMayFail \in BOOLEAN
    /\ MaxRuns \in Nat /\ MaxCommands \in Nat /\ MaxRestarts \in Nat

VARIABLES
    agents,     \* database.agents: id -> status
    runs,       \* database.runs: Run -> status
    workspaces, \* the Agents whose workspace directory is in place
    archived,   \* the Agents whose workspace was moved under .deleted/
    queue,      \* JsonStore.queue: mutations not yet settled, oldest first
    executions, \* one sendMessage and executeRun call per Run
    active,     \* activeExecutions: Agent -> Run whose execution it holds, or 0
    flags,      \* cancellationRequests
    commands,   \* the calls of the other operations
    restarts    \* crashes so far

svars == <<agents, runs, workspaces, archived, queue, executions, active,
           flags, commands, restarts>>

-----------------------------------------------------------------------------
AgentStatuses == {"ready", "busy", "stopped", "error"}
RunStatuses   == {"queued", "running", "completed", "failed", "cancelled"}
ActiveStatuses == {"queued", "running"}

(***************************************************************************)
(* Where the execution of a Run stands: its insertion is queued (sending), *)
(* its "running" mark is queued (starting), beginRun is awaited (minting), *)
(* the container runs (running), endRun is awaited (ending), its result is *)
(* queued (settling), its promise is resolved (done) or rejected.          *)
(***************************************************************************)
Stages == {"sending", "starting", "minting", "running", "ending", "settling",
           "done", "rejected"}
Outcomes == {"none", "ok", "cancelled", "failed"}

(***************************************************************************)
(* How the container of a Run stands: the engine's client is at work on it *)
(* (starting), it is up, or its removal was asked for, which either ends   *)
(* it (leaving) or found nothing to remove yet (missed); the other stages  *)
(* have none.  What a removal finds is settled when it is asked for.       *)
(***************************************************************************)
ContainerStates == {"none", "starting", "up", "leaving", "missed"}

\* A command waits for its container's removal (terminating), for an
\* execution (joining), for the rename (archiving) or for its mutation.
Waits == {"terminating", "joining", "archiving", "storing", "done"}

RunIds == DOMAIN executions

RunOp(r)     == [by |-> "run", of |-> r]
CommandOp(c) == [by |-> "command", of |-> c]
CreateOp(a)  == [by |-> "create", of |-> a]

AgentOf(r) == executions[r].agent
ActiveRuns(a) == {r \in DOMAIN runs : AgentOf(r) = a /\ runs[r] \in ActiveStatuses}

\* The runner's own map: the Run whose engine client runs for the Agent.
Containers(a) == {r \in RunIds : AgentOf(r) = a /\ executions[r].stage = "running"}

\* The first queued or running Run of the Agent in the stored order.
FirstActive(r) == r \in ActiveRuns(AgentOf(r))
                  /\ \A other \in ActiveRuns(AgentOf(r)) : r <= other

-----------------------------------------------------------------------------
(***************************************************************************)
(* The end of cancelExecution for a set of commands on one Agent.  The     *)
(* flag is dropped whoever else relies on it; then stopAgent queues its    *)
(* mutation, deleteAgent moves the workspace, and cancelRun returns.  When *)
(* the awaited execution was rejected, so is the command.                  *)
(***************************************************************************)
AfterCancel(kind) == CASE kind = "stop"   -> "storing"
                       [] kind = "delete" -> "archiving"
                       [] OTHER           -> "done"

Released(all, released, joined) ==
    [c \in DOMAIN all |->
        IF c \in released
        THEN [all[c] EXCEPT !.wait = IF joined THEN AfterCancel(all[c].kind)
                                               ELSE "done"]
        ELSE all[c]]

\* The order of several makes no difference: they are about the same Agent.
StopOps(all, released) ==
    SetToSeq({CommandOp(c) : c \in {c \in released : all[c].kind = "stop"}})

\* The execution promise of r settles: activeExecutions forgets it unless a
\* newer one took its place, and whoever awaits it goes on.
Joining(r) == {c \in DOMAIN commands :
                  commands[c].wait = "joining" /\ commands[c].on = r}

Settles(r, stage) ==
    LET a == AgentOf(r)
    IN  /\ executions' = [executions EXCEPT ![r].stage = stage]
        /\ active' = [active EXCEPT ![a] = IF @ = r THEN 0 ELSE @]
        /\ commands' = Released(commands, Joining(r), stage = "done")
        /\ flags' = IF Joining(r) = {} THEN flags ELSE flags \ {a}
        /\ queue' = Tail(queue) \o
               (IF stage = "done" THEN StopOps(commands, Joining(r)) ELSE <<>>)

-----------------------------------------------------------------------------
Init ==
    /\ \E present \in SUBSET AgentIds :
          /\ agents = [a \in present |-> "ready"]
          /\ workspaces = present
    /\ archived = {}
    /\ runs = [r \in {} |-> "queued"]
    /\ queue = <<>>
    /\ executions = <<>>
    /\ active = [a \in AgentIds |-> 0]
    /\ flags = {}
    /\ commands = <<>>
    /\ restarts = 0

\* createAgent: the directory first, then the row.  Ids are never reused.
CreateAgent(a) ==
    /\ a \notin workspaces \cup archived
    /\ workspaces' = workspaces \cup {a}
    /\ queue' = Append(queue, CreateOp(a))
    /\ UNCHANGED <<agents, runs, archived, executions, active, flags,
                   commands, restarts>>

\* sendMessage up to its first await: everything is decided in the mutation.
SendMessage(a) ==
    /\ Len(executions) < MaxRuns
    /\ executions' = Append(executions,
           [agent |-> a, stage |-> "sending", outcome |-> "none",
            cancelled |-> FALSE, container |-> "none"])
    /\ queue' = Append(queue, RunOp(Len(executions) + 1))
    /\ UNCHANGED <<agents, runs, workspaces, archived, active, flags,
                   commands, restarts>>

(***************************************************************************)
(* removeContainer, whose promise is kept: only the first call of a Run    *)
(* does anything.  The engine removes a container that is up, or else its  *)
(* client is killed; of one that does not exist yet it removes nothing,    *)
(* unless it comes while rm is at work or rm fails.                        *)
(***************************************************************************)
Removal(container) ==
    CASE container = "up"       -> {"leaving"}
      [] container = "starting" -> {"leaving", "missed"}
      [] OTHER                  -> {container}

\* cancel of the container runner, up to its first await.
Cancels(r) ==
    \E after \in Removal(executions[r].container) :
        executions' = [executions EXCEPT ![r].cancelled = TRUE, ![r].container = after]

(***************************************************************************)
(* A command arrives.  startAgent only queues its mutation.  The others    *)
(* run cancelExecution: raise the flag, ask the runner to cancel, then wait*)
(* for the execution, if there is one at that time.  With no container the *)
(* runner answers at once.                                                 *)
(***************************************************************************)
NewCommand(kind, a, r, wait, on) ==
    [kind |-> kind, agent |-> a, run |-> r, wait |-> wait, on |-> on]

StartAgent(a) ==
    /\ commands' = Append(commands, NewCommand("start", a, 0, "storing", 0))
    /\ queue' = Append(queue, CommandOp(Len(commands) + 1))
    /\ UNCHANGED <<executions, flags>>

CancelExecution(kind, a, r) ==
    \/ \E up \in Containers(a) :
          /\ Cancels(up)
          /\ commands' = Append(commands, NewCommand(kind, a, r, "terminating", up))
          /\ flags' = flags \cup {a}
          /\ UNCHANGED queue
    \/ /\ Containers(a) = {} /\ active[a] # 0
       /\ commands' = Append(commands, NewCommand(kind, a, r, "joining", active[a]))
       /\ flags' = flags \cup {a}
       /\ UNCHANGED <<executions, queue>>
    \/ LET c == Len(commands) + 1
           all == Append(commands, NewCommand(kind, a, r, "joining", 0))
       IN  /\ Containers(a) = {} /\ active[a] = 0
           /\ commands' = Released(all, {c}, TRUE)
           /\ queue' = queue \o StopOps(all, {c})
           /\ flags' = flags \ {a}
           /\ UNCHANGED executions

\* The wall-clock timer of WardenRunner asks the runner to cancel the Agent.
Deadline(r) ==
    /\ executions[r].stage \in {"running", "ending"}
    /\ \/ \E up \in Containers(AgentOf(r)) : Cancels(up)
       \/ Containers(AgentOf(r)) = {} /\ UNCHANGED executions
    /\ commands' = Append(commands, NewCommand("deadline", AgentOf(r), r, "done", 0))
    /\ UNCHANGED <<flags, queue>>

\* cancelRun: only while the Agent's active Run is the one the grant was for,
\* which exists from the moment beginRun is called.
CancelRun(r) ==
    /\ executions[r].stage \in {"minting", "running", "ending", "settling"}
    /\ FirstActive(r)
    /\ CancelExecution("revoke", AgentOf(r), r)

Command(kind) ==
    /\ Len(commands) < MaxCommands
    /\ kind \in Kinds
    /\ \/ kind = "start" /\ \E a \in AgentIds : StartAgent(a)
       \/ kind \in {"stop", "delete"}
          /\ \E a \in DOMAIN agents : CancelExecution(kind, a, 0)
       \/ kind = "revoke" /\ \E r \in DOMAIN runs : CancelRun(r)
       \/ kind = "deadline" /\ \E r \in RunIds : Deadline(r)
    /\ UNCHANGED <<agents, runs, workspaces, archived, active, restarts>>

\* Mutant of Terminated: with no execution left, the call never returns.
MutantTerminatedNeedsExecution(c) ==
    LET a == commands[c].agent
    IN  /\ commands[c].wait = "terminating"
        /\ executions[commands[c].on].stage # "running"
        /\ active[a] # 0
        /\ commands' = [commands EXCEPT ![c].wait = "joining", ![c].on = active[a]]
        /\ UNCHANGED <<agents, runs, workspaces, archived, queue, executions,
                       active, flags, restarts>>

\* The engine has removed the container and its client has exited: the
\* command looks up the execution to wait for only now.
Terminated(c) ==
    LET a == commands[c].agent
    IN  /\ commands[c].wait = "terminating"
        /\ executions[commands[c].on].stage # "running"
        /\ IF active[a] # 0
           THEN /\ commands' = [commands EXCEPT ![c].wait = "joining",
                                                ![c].on = active[a]]
                /\ UNCHANGED <<flags, queue>>
           ELSE /\ commands' = Released(commands, {c}, TRUE)
                /\ flags' = flags \ {a}
                /\ queue' = queue \o StopOps(commands, {c})
        /\ UNCHANGED <<agents, runs, workspaces, archived, executions, active,
                       restarts>>

\* Mutant of ArchiveWorkspace: the workspace is copied, not moved.
MutantArchiveCopies(c) ==
    LET a == commands[c].agent
    IN  /\ commands[c].wait = "archiving"
        /\ archived' = archived \cup {a}
        /\ commands' = [commands EXCEPT ![c].wait = "storing"]
        /\ queue' = Append(queue, CommandOp(c))
        /\ UNCHANGED <<agents, runs, workspaces, executions, active, flags, restarts>>

\* deleteAgent renames the workspace; a second deletion finds none and fails.
ArchiveWorkspace(c) ==
    LET a == commands[c].agent
    IN  /\ commands[c].wait = "archiving"
        /\ IF a \in workspaces
           THEN /\ workspaces' = workspaces \ {a}
                /\ archived' = archived \cup {a}
                /\ commands' = [commands EXCEPT ![c].wait = "storing"]
                /\ queue' = Append(queue, CommandOp(c))
           ELSE /\ commands' = [commands EXCEPT ![c].wait = "done"]
                /\ UNCHANGED <<workspaces, archived, queue>>
        /\ UNCHANGED <<agents, runs, executions, active, flags, restarts>>

-----------------------------------------------------------------------------
(***************************************************************************)
(* The steps of a Run outside the store.  The runner refuses a second      *)
(* container for an Agent, and cannot start one in a directory that is     *)
(* gone; endRun may fail, which fails the Run.                             *)
(***************************************************************************)
QueueResult(r, outcome) ==
    /\ executions' = [executions EXCEPT ![r].stage = "settling",
                                        ![r].outcome = outcome]
    /\ queue' = Append(queue, RunOp(r))

BeginRunAnswered(r) ==
    /\ executions[r].stage = "minting"
    /\ \/ QueueResult(r, "failed")
       \/ /\ executions' = IF /\ Containers(AgentOf(r)) = {}
                    /\ AgentOf(r) \in workspaces
                 THEN [executions EXCEPT ![r].stage = "running",
                                         ![r].container = "starting"]
                 ELSE [executions EXCEPT ![r].stage = "ending",
                                         ![r].outcome = "failed"]
          /\ UNCHANGED queue
    /\ UNCHANGED <<agents, runs, workspaces, archived, active, flags,
                   commands, restarts>>

ContainerStarts(r) ==
    /\ executions[r].stage = "running" /\ executions[r].container = "starting"
    /\ executions' = [executions EXCEPT ![r].container = "up"]
    /\ UNCHANGED <<agents, runs, workspaces, archived, queue, active, flags,
                   commands, restarts>>

\* After codexTimeoutMs, or too much output, the runner asks for the removal.
RuntimeTimesOut(r) ==
    /\ executions[r].stage = "running" /\ executions[r].container \in {"starting", "up"}
    /\ \E after \in Removal(executions[r].container) :
          executions' = [executions EXCEPT ![r].container = after]
    /\ UNCHANGED <<agents, runs, workspaces, archived, queue, active, flags,
                   commands, restarts>>

\* The engine's client exits or reports an error; of a Run that was cancelled,
\* timed out or has had no container yet no good outcome is reported.
Ends(execution) ==
    {"failed"} \cup (IF execution.cancelled THEN {"cancelled"}
                     ELSE IF execution.container = "up" THEN {"ok"} ELSE {})

ContainerExits(r) ==
    /\ executions[r].stage = "running"
    /\ \E outcome \in Ends(executions[r]) :
          executions' = [executions EXCEPT ![r].stage = "ending",
                                           ![r].outcome = outcome,
                                           ![r].container = "none"]
    /\ UNCHANGED <<agents, runs, workspaces, archived, queue, active, flags,
                   commands, restarts>>

EndRunAnswered(r) ==
    /\ executions[r].stage = "ending"
    /\ \/ QueueResult(r, executions[r].outcome)
       \/ executions[r].outcome = "ok" /\ QueueResult(r, "failed")
    /\ UNCHANGED <<agents, runs, workspaces, archived, active, flags,
                   commands, restarts>>

-----------------------------------------------------------------------------
(***************************************************************************)
(* The mutation at the head of the queue is written, published, and its    *)
(* caller goes on.                                                         *)
(***************************************************************************)
AtHead(of) == queue # <<>> /\ queue[1] = of

\* Mutants of Accepts: the Agent is not looked up; a busy Agent is accepted.
MutantAcceptsUnknown(a) ==
    a \in DOMAIN agents => agents[a] \notin {"stopped", "busy"}
MutantAcceptsBusy(a) == a \in DOMAIN agents /\ agents[a] # "stopped"

Accepts(a) == a \in DOMAIN agents /\ agents[a] \notin {"stopped", "busy"}

SendStored(r) ==
    LET a == AgentOf(r)
    IN  /\ AtHead(RunOp(r)) /\ executions[r].stage = "sending"
        /\ Accepts(a)
        /\ runs' = [x \in DOMAIN runs \cup {r} |->
                       IF x = r THEN "queued" ELSE runs[x]]
        /\ agents' = [agents EXCEPT ![a] = "busy"]
        /\ executions' = [executions EXCEPT ![r].stage = "starting"]
        /\ active' = [active EXCEPT ![a] = r]
        /\ queue' = Append(Tail(queue), RunOp(r))
        /\ UNCHANGED <<workspaces, archived, flags, commands, restarts>>

SendRefused(r) ==
    /\ AtHead(RunOp(r)) /\ executions[r].stage = "sending"
    /\ PersistMayFail \/ ~Accepts(AgentOf(r))
    /\ executions' = [executions EXCEPT ![r].stage = "rejected"]
    /\ queue' = Tail(queue)
    /\ UNCHANGED <<agents, runs, workspaces, archived, active, flags,
                   commands, restarts>>

\* Mutant of BeginStored: the flag is tested before the try block.
MutantBeginOutsideTry(r) ==
    /\ AtHead(RunOp(r)) /\ executions[r].stage = "starting"
    /\ runs' = [x \in DOMAIN runs |-> IF x = r THEN "running" ELSE runs[x]]
    /\ IF AgentOf(r) \in flags
       THEN Settles(r, "rejected")
       ELSE /\ executions' = [executions EXCEPT ![r].stage = "minting"]
            /\ queue' = Tail(queue)
            /\ UNCHANGED <<active, flags, commands>>
    /\ UNCHANGED <<agents, workspaces, archived, restarts>>

\* The one test of the cancellation flag: after the "running" mark is stored.
BeginStored(r) ==
    /\ AtHead(RunOp(r)) /\ executions[r].stage = "starting"
    /\ runs' = [x \in DOMAIN runs |-> IF x = r THEN "running" ELSE runs[x]]
    /\ IF AgentOf(r) \in flags
       THEN /\ executions' = [executions EXCEPT ![r].stage = "settling",
                                                ![r].outcome = "cancelled"]
            /\ queue' = Append(Tail(queue), RunOp(r))
       ELSE /\ executions' = [executions EXCEPT ![r].stage = "minting"]
            /\ queue' = Tail(queue)
    /\ UNCHANGED <<agents, workspaces, archived, active, flags, commands, restarts>>

BeginRefused(r) ==
    /\ PersistMayFail
    /\ AtHead(RunOp(r)) /\ executions[r].stage = "starting"
    /\ Settles(r, "rejected")
    /\ UNCHANGED <<agents, runs, workspaces, archived, restarts>>

\* A success sets the Agent ready whatever it was; a failure keeps "stopped".
\* Nothing is written for a Run or an Agent that has been deleted.
RunResult(outcome) == CASE outcome = "ok"        -> "completed"
                        [] outcome = "cancelled" -> "cancelled"
                        [] OTHER                 -> "failed"

\* Mutant of AgentResult: a cancelled Run leaves its Agent as it was.
MutantAgentResultCancelled(status, outcome) ==
    CASE outcome = "ok"     -> "ready"
      [] outcome = "failed" -> "error"
      [] OTHER              -> status

AgentResult(status, outcome) ==
    CASE outcome = "ok"        -> "ready"
      [] status = "stopped"    -> "stopped"
      [] outcome = "cancelled" -> "ready"
      [] OTHER                 -> "error"

\* Mutant of ResultStored: the Agent's row is written back if it is gone.
MutantResultUpserts(r) ==
    LET a == AgentOf(r)
        outcome == executions[r].outcome
    IN  /\ AtHead(RunOp(r)) /\ executions[r].stage = "settling"
        /\ runs' = [x \in DOMAIN runs |->
                       IF x = r THEN RunResult(outcome) ELSE runs[x]]
        /\ agents' = [x \in DOMAIN agents \cup {a} |->
                         IF x = a THEN AgentResult("busy", outcome) ELSE agents[x]]
        /\ Settles(r, "done")
        /\ UNCHANGED <<workspaces, archived, restarts>>

ResultStored(r) ==
    LET a == AgentOf(r)
        outcome == executions[r].outcome
    IN  /\ AtHead(RunOp(r)) /\ executions[r].stage = "settling"
        /\ runs' = [x \in DOMAIN runs |->
                       IF x = r THEN RunResult(outcome) ELSE runs[x]]
        /\ agents' = [x \in DOMAIN agents |->
                         IF x = a /\ (outcome = "ok" => r \in DOMAIN runs)
                         THEN AgentResult(agents[x], outcome) ELSE agents[x]]
        /\ Settles(r, "done")
        /\ UNCHANGED <<workspaces, archived, restarts>>

\* Mutant of ResultRefused: what could not be written is published in memory.
MutantResultPublished(r) ==
    /\ PersistMayFail
    /\ AtHead(RunOp(r)) /\ executions[r].stage = "settling"
    /\ executions[r].outcome = "ok"
    /\ runs' = [x \in DOMAIN runs |-> IF x = r THEN "completed" ELSE runs[x]]
    /\ executions' = [executions EXCEPT ![r].outcome = "failed"]
    /\ queue' = Append(Tail(queue), RunOp(r))
    /\ UNCHANGED <<agents, workspaces, archived, active, flags, commands, restarts>>

\* A result that cannot be stored is a failure, stored by the catch clause;
\* when that fails too the execution is rejected and the row stays as it is.
ResultRefused(r) ==
    /\ PersistMayFail
    /\ AtHead(RunOp(r)) /\ executions[r].stage = "settling"
    /\ IF executions[r].outcome = "ok"
       THEN /\ executions' = [executions EXCEPT ![r].outcome = "failed"]
            /\ queue' = Append(Tail(queue), RunOp(r))
            /\ UNCHANGED <<active, flags, commands>>
       ELSE Settles(r, "rejected")
    /\ UNCHANGED <<agents, runs, workspaces, archived, restarts>>

\* Mutant of SetStatus: a busy Agent may be set ready.
MutantSetStatusAlways(a, status) ==
    /\ a \in DOMAIN agents
    /\ agents' = [agents EXCEPT ![a] = status]
    /\ UNCHANGED runs

SetStatus(a, status) ==
    /\ a \in DOMAIN agents
    /\ ~(status = "ready" /\ agents[a] = "busy")
    /\ agents' = [agents EXCEPT ![a] = status]
    /\ UNCHANGED runs

RemoveAgent(a) ==
    /\ agents' = [x \in DOMAIN agents \ {a} |-> agents[x]]
    /\ runs' = [r \in {r \in DOMAIN runs : AgentOf(r) # a} |-> runs[r]]

Mutates(command) ==
    CASE command.kind = "start" -> SetStatus(command.agent, "ready")
      [] command.kind = "stop"  -> SetStatus(command.agent, "stopped")
      [] OTHER                  -> RemoveAgent(command.agent)

CommandStored(c) ==
    /\ AtHead(CommandOp(c))
    /\ \/ Mutates(commands[c])
       \/ /\ \/ PersistMayFail
             \/ commands[c].kind \in {"start", "stop"}
                /\ commands[c].agent \notin DOMAIN agents
             \/ commands[c].kind = "start"
                /\ commands[c].agent \in DOMAIN agents
                /\ agents[commands[c].agent] = "busy"
          /\ UNCHANGED <<agents, runs>>
    /\ commands' = [commands EXCEPT ![c].wait = "done"]
    /\ queue' = Tail(queue)
    /\ UNCHANGED <<workspaces, archived, executions, active, flags, restarts>>

CreateStored(a) ==
    /\ AtHead(CreateOp(a))
    /\ \/ agents' = [x \in DOMAIN agents \cup {a} |->
                        IF x = a THEN "ready" ELSE agents[x]]
       \/ PersistMayFail /\ UNCHANGED agents
    /\ queue' = Tail(queue)
    /\ UNCHANGED <<runs, workspaces, archived, executions, active, flags,
                   commands, restarts>>

(***************************************************************************)
(* The process dies, taking all but the database and the directories with  *)
(* it, and initialize of the next one repairs what was active.             *)
(***************************************************************************)
Restart ==
    /\ restarts < MaxRestarts
    /\ restarts' = restarts + 1
    /\ runs' = [r \in DOMAIN runs |->
                   IF runs[r] \in ActiveStatuses THEN "cancelled" ELSE runs[r]]
    /\ agents' = [a \in DOMAIN agents |->
                     IF agents[a] = "busy" THEN "ready" ELSE agents[a]]
    /\ executions' = [r \in RunIds |->
           IF executions[r].stage = "done" THEN executions[r]
           ELSE [executions[r] EXCEPT !.stage = "rejected", !.container = "none"]]
    /\ commands' = [c \in DOMAIN commands |-> [commands[c] EXCEPT !.wait = "done"]]
    /\ queue' = <<>>
    /\ active' = [a \in AgentIds |-> 0]
    /\ flags' = {}
    /\ UNCHANGED <<workspaces, archived>>

-----------------------------------------------------------------------------
Stored == \/ \E r \in RunIds : \/ SendStored(r) \/ SendRefused(r)
                              \/ BeginStored(r) \/ BeginRefused(r)
                              \/ ResultStored(r) \/ ResultRefused(r)
          \/ \E c \in DOMAIN commands : CommandStored(c)
          \/ \E a \in AgentIds : CreateStored(a)

RunSteps(r) == \/ BeginRunAnswered(r)
               \/ ContainerStarts(r) \/ RuntimeTimesOut(r) \/ ContainerExits(r)
               \/ EndRunAnswered(r)
CommandSteps(c) == Terminated(c) \/ ArchiveWorkspace(c)

Next ==
    \/ \E a \in AgentIds : CreateAgent(a) \/ SendMessage(a)
    \/ \E kind \in Kinds : Command(kind)
    \/ \E r \in RunIds : RunSteps(r)
    \/ \E c \in DOMAIN commands : CommandSteps(c)
    \/ Stored
    \/ Restart

ServiceSpec == Init /\ [][Next]_svars

\* The steps of a Run that come whether or not its container does as it should.
DrivenSteps(r) ==
    \/ BeginRunAnswered(r) \/ RuntimeTimesOut(r) \/ EndRunAnswered(r)
    \/ executions[r].container = "leaving" /\ ContainerExits(r)

(***************************************************************************)
(* Every write settles; the broker's client and the Runtime have timeouts. *)
(* A container need not come up, and its client need not exit by itself:   *)
(* it does when the removal of the container found it, or failed and had   *)
(* the client killed (SIGTERM, then SIGKILL).  rm has a timeout of its own.*)
(***************************************************************************)
ServiceFairSpec ==
    /\ ServiceSpec
    /\ WF_svars(Stored)
    /\ \A r \in 1 .. MaxRuns : WF_svars(r \in RunIds /\ DrivenSteps(r))
    /\ \A c \in 1 .. MaxCommands :
          WF_svars(c \in DOMAIN commands /\ CommandSteps(c))

-----------------------------------------------------------------------------
(***************************************************************************)
(* The shape of the state; in particular a queued mutation is the next     *)
(* step of exactly the Run, command or creation it belongs to.             *)
(***************************************************************************)
ServiceTypeOK ==
    /\ DOMAIN agents \subseteq AgentIds /\ \A a \in DOMAIN agents : agents[a] \in AgentStatuses
    /\ executions \in Seq([agent : AgentIds, stage : Stages, outcome : Outcomes,
                           cancelled : BOOLEAN, container : ContainerStates])
    /\ DOMAIN runs \subseteq RunIds /\ \A r \in DOMAIN runs : runs[r] \in RunStatuses
    /\ workspaces \subseteq AgentIds /\ archived \subseteq AgentIds \ workspaces
    /\ active \in [AgentIds -> {0} \cup RunIds]
    /\ flags \subseteq AgentIds
    /\ commands \in Seq([kind : CommandKinds, agent : AgentIds, run : 0 .. MaxRuns,
                         wait : Waits, on : 0 .. MaxRuns])
    /\ \A r \in RunIds : executions[r].stage \in {"sending", "starting", "settling"}
                        <=> \E i \in DOMAIN queue : queue[i] = RunOp(r)
    /\ \A c \in DOMAIN commands : commands[c].wait = "storing"
                        <=> \E i \in DOMAIN queue : queue[i] = CommandOp(c)

(***************************************************************************)
(* One Agent has at most one queued or running Run (ARCHITECTURE.md,       *)
(* AgentService).  sendMessage enforces it through the Agent's status, so  *)
(* every other writer of the status takes part.                            *)
(***************************************************************************)
OneActiveRun == \A a \in AgentIds : Cardinality(ActiveRuns(a)) <= 1

(***************************************************************************)
(* A busy Agent has a Run that will make it something else: no order of    *)
(* completions, deletions, failed writes and crashes leaves an Agent that  *)
(* refuses messages with no Run to show for it.  Nor does a Run outlive    *)
(* its Agent's row, whether its message is accepted while deleteAgent waits*)
(* or its result comes in after it.                                        *)
(***************************************************************************)
AgentsAndRunsAgree ==
    /\ \A a \in DOMAIN agents : agents[a] = "busy" => ActiveRuns(a) # {}
    /\ \A r \in DOMAIN runs : AgentOf(r) \in DOMAIN agents

(***************************************************************************)
(* The stored outcome of a Run is final: a completed, failed or cancelled  *)
(* Run never changes again, whatever write was refused or lost before.     *)
(***************************************************************************)
FinalStatusStands ==
    [][\A r \in DOMAIN runs :
         runs[r] \notin ActiveStatuses /\ r \in DOMAIN runs' => runs'[r] = runs[r]]_svars

(***************************************************************************)
(* The execution of an active Run is the one a deletion or revocation finds*)
(* and waits for (cancelExecution), unless its row could not be written.   *)
(***************************************************************************)
ActiveRunIsCancellable ==
    \A r \in DOMAIN runs :
        runs[r] \in ActiveStatuses /\ executions[r].stage # "rejected"
            => active[AgentOf(r)] = r

(***************************************************************************)
(* While writes succeed and the process lives, a listed Agent has its      *)
(* workspace unless its own deletion is about to be stored.                *)
(***************************************************************************)
ListedAgentsHaveWorkspaces ==
    \A a \in DOMAIN agents :
        \/ a \in workspaces
        \/ \E c \in DOMAIN commands : /\ commands[c].kind = "delete"
                                     /\ commands[c].agent = a
                                     /\ commands[c].wait = "storing"

\* A removal came before the container, and no later one will be tried.
Missed(r) == r \in RunIds /\ executions[r].container = "missed"

(***************************************************************************)
(* While writes succeed, every Run ends or is deleted: the flag, a removal,*)
(* a timer or the broker's client sees to it.  What none of them sees to is*)
(* a Run whose container was looked for too early.                         *)
(***************************************************************************)
RunsSettle ==
    \A r \in 1 .. MaxRuns :
        (r \in DOMAIN runs /\ runs[r] \in ActiveStatuses)
            ~> (~(r \in DOMAIN runs /\ runs[r] \in ActiveStatuses) \/ Missed(r))

(***************************************************************************)
(* Every stop, deletion and revocation returns, unless it waits for such a *)
(* Run: what else it waits for - a container, an execution, a write -      *)
(* never waits for it.                                                     *)
(***************************************************************************)
CommandsReturn ==
    \A c \in 1 .. MaxCommands :
        c \in DOMAIN commands ~>
            (c \in DOMAIN commands /\ (commands[c].wait = "done" \/ Missed(commands[c].on)))

(***************************************************************************)
(* No turn of Codex goes on for ever: CODEX_TIMEOUT_MS is the "Maximum     *)
(* duration of one turn" (README.md).                                      *)
(***************************************************************************)
TurnsEnd ==
    \A r \in 1 .. MaxRuns :
        (r \in RunIds /\ executions[r].stage = "running")
            ~> (r \in RunIds /\ executions[r].stage # "running")

(***************************************************************************)
(* A Run is cancelled only by a command for it: the stop or deletion of    *)
(* its Agent, its own deadline, or the revocation of its own grant.  "A    *)
(* stale revocation must not kill a newer run" (cancelRun).                *)
(***************************************************************************)
CancelledOnRequest ==
    \A r \in RunIds : executions[r].outcome = "cancelled" =>
        \E c \in DOMAIN commands :
            /\ commands[c].agent = AgentOf(r)
            /\ commands[c].kind \in {"stop", "delete"} \/ commands[c].run = r

=============================================================================
