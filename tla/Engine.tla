-------------------------------- MODULE Engine --------------------------------
(***************************************************************************)
(* The control plane and the container engine: how the server comes up     *)
(* with its Warden broker or not at all (index.ts, startup.ts,             *)
(* warden/index.ts, broker-container.ts, broker-main.ts), and how the      *)
(* Runtime of one Agent is started and ended (container-codex-runner.ts,   *)
(* codex-runner.ts).                                                       *)
(*                                                                         *)
(* The engine knows containers by name: one for the broker, one for the    *)
(* Agent.  Both outlive the server that started them.  Commands to the     *)
(* engine fail or time out at any step, and one that has timed out may     *)
(* still be carried out.                                                   *)
(***************************************************************************)
EXTENDS Naturals, FiniteSets

CONSTANTS
    MaxBoots,   \* bound: starts of the server
    MaxRuns     \* bound: Runs of the Agent

ASSUME EngineAssumption == MaxBoots \in Nat /\ MaxRuns \in Nat

VARIABLES
    config,    \* "warden", or a Runtime "container" or "process" without it
    boot,      \* where the server is between start and stop
    epoch,     \* the current start, and its control secret
    net,       \* the network with the internal network's name
    broker,    \* the container with the broker's name
    leftover,  \* was a start cut off where nothing cleans up?
    runs,      \* Runs so far (for MaxRuns)
    active,    \* the Run the runner knows of
    box,       \* the Run whose container has the Agent's name, or 0
    removals   \* Runs whose "rm --force" the engine has still to carry out

bootVars == <<epoch, net, broker, leftover>>
runVars == <<runs, active, box, removals>>
engineVars == <<config, boot, bootVars, runVars>>

-----------------------------------------------------------------------------
Configs == {"warden", "container", "process"}
Stages == {"down", "networks", "removing", "creating", "starting", "polling",
           "initializing", "binding", "listening"}
Broker == [state : {"absent", "created", "running", "exited"}, epoch : 0 .. MaxBoots]
NoBroker == [state |-> "absent", epoch |-> 0]
RunIds == 1 .. MaxRuns

(***************************************************************************)
(* A Run in the map of active Runs: its child process is "spawned", then   *)
(* "attached" once its container, or the process itself, runs.  flagged:   *)
(* it was cancelled, timed out or printed too much.  termination is how far*)
(* the ending of it is.                                                    *)
(***************************************************************************)
Active == [run : 0 .. MaxRuns, child : {"none", "spawned", "attached", "refused"},
           flagged : BOOLEAN, termination : {"none", "removing", "removed", "killing"}]
Idle == [run |-> 0, child |-> "none", flagged |-> FALSE, termination |-> "none"]

-----------------------------------------------------------------------------
(* Start-up *)

\* The process is gone: with it what it knew of Runs, not what the engine has.
Dies == boot' = "down" /\ active' = Idle

\* The start fails where everything it made has been undone, or nothing was made.
GivesUp == Dies /\ UNCHANGED <<epoch, net, leftover, runs, box, removals>>

\* rm --force of the broker, as good as it goes (quiet).
QuietRemoval ==
    \/ broker' = NoBroker /\ UNCHANGED leftover
    \/ UNCHANGED broker /\ leftover' = (leftover \/ broker.state # "absent")

\* The start fails after the broker was removed, if it could be.
CleansUp ==
    /\ Dies
    /\ QuietRemoval
    /\ UNCHANGED <<epoch, net, runs, box, removals>>

\* npm start, or start-local-poc.sh, which first removes the Agent's containers.
Boot(scripted) ==
    /\ boot = "down" /\ epoch < MaxBoots
    /\ epoch' = epoch + 1
    /\ boot' = IF config = "warden" THEN "networks" ELSE "initializing"
    /\ \/ UNCHANGED box
       \/ scripted /\ box # 0 /\ box' = 0
    /\ UNCHANGED <<net, broker, leftover, runs, active, removals>>

\* Mutant of IsInternal: a network of the right name will do.
MutantIsInternal(network) == network # "absent"

IsInternal(network) == network = "internal"

\* Find the network or make it, and verify it.
EnsureNetworks ==
    /\ boot = "networks"
    /\ \E found \in IF net = "absent" THEN {"absent", "internal"} ELSE {net} :
          /\ net' = found
          /\ IF IsInternal(found) THEN boot' \in {"removing", "down"} ELSE boot' = "down"
    /\ UNCHANGED <<epoch, broker, leftover, runVars>>

RemoveOld ==
    /\ boot = "removing"
    /\ boot' = "creating"
    /\ QuietRemoval
    /\ UNCHANGED <<epoch, net, runVars>>

NameIsFree == broker.state = "absent"

\* Mutant of Create: a container that has the name already is taken over.
MutantCreate ==
    /\ boot = "creating"
    /\ broker' = IF NameIsFree THEN [state |-> "created", epoch |-> epoch] ELSE broker
    /\ boot' = "starting"
    /\ UNCHANGED <<epoch, net, leftover, runVars>>

\* A creation that has timed out may have been carried out, and is not undone.
Create ==
    /\ boot = "creating"
    /\ \/ /\ NameIsFree
          /\ broker' = [state |-> "created", epoch |-> epoch]
          /\ \/ boot' = "starting" /\ UNCHANGED <<leftover, active>>
             \/ Dies /\ leftover' = TRUE
          /\ UNCHANGED <<epoch, net, runs, box, removals>>
       \/ GivesUp /\ UNCHANGED broker

\* cp, network connect, start.
Start ==
    /\ boot = "starting"
    /\ \/ /\ broker' = [broker EXCEPT !.state = "running"]
          /\ boot' = "polling"
          /\ UNCHANGED <<epoch, net, leftover, runVars>>
       \/ CleansUp

\* The control API answers, or 30 seconds have passed.
Poll ==
    /\ boot = "polling"
    /\ \/ /\ broker.state = "running"
          /\ boot' = "initializing"
          /\ UNCHANGED <<bootVars, runVars>>
       \/ CleansUp

\* The broker ends: one that cannot tell its interfaces apart refuses to start,
\* and nothing restarts one that has died.
BrokerExits ==
    /\ broker.state = "running"
    /\ broker' = [broker EXCEPT !.state = "exited"]
    /\ UNCHANGED <<config, boot, epoch, net, leftover, runVars>>

\* The service is initialized and the app made; if not, the broker stays behind.
Initialize ==
    /\ boot = "initializing"
    /\ \/ boot' = "binding" /\ UNCHANGED <<bootVars, runVars>>
       \/ /\ Dies
          /\ leftover' = (leftover \/ broker.state # "absent")
          /\ UNCHANGED <<epoch, net, broker, runs, box, removals>>

\* Mutant of Stop: only the listener is disposed of.
MutantStop == UNCHANGED <<broker, leftover>>

\* stop of the broker, if there is one to stop.
Stop ==
    IF config = "warden" THEN QuietRemoval ELSE UNCHANGED <<broker, leftover>>

ListenWithCleanup ==
    /\ boot = "binding"
    /\ \/ boot' = "listening" /\ UNCHANGED <<bootVars, runVars>>
       \/ Dies /\ Stop /\ UNCHANGED <<epoch, net, runs, box, removals>>

\* Whoever ends the command that starts a container may find it made all the same.
Abandoned == IF active.child = "spawned" /\ box = 0 THEN {box, active.run} ELSE {box}

\* A signal: the listener is closed, then the broker removed.
Shutdown ==
    /\ boot \in {"binding", "listening"}
    /\ Dies /\ Stop
    /\ box' \in Abandoned
    /\ UNCHANGED <<epoch, net, runs, removals>>

Crash ==
    /\ boot # "down"
    /\ Dies
    /\ leftover' = (leftover \/ broker.state # "absent")
    /\ box' \in Abandoned
    /\ UNCHANGED <<epoch, net, broker, runs, removals>>

\* Somebody else makes or removes a network of that name between two starts.
NetworkChanges(other) ==
    /\ boot = "down" /\ box = 0
    /\ net' = other
    /\ UNCHANGED <<config, boot, epoch, broker, leftover, runVars>>

-----------------------------------------------------------------------------
(* Runs *)

OnlyRuns == UNCHANGED <<config, boot, bootVars>>

StartRun ==
    /\ boot = "listening"
    /\ active.run = 0 /\ runs < MaxRuns
    /\ runs' = runs + 1
    /\ active' = [Idle EXCEPT !.run = runs + 1,
                      !.child = IF config = "process" THEN "attached" ELSE "spawned"]
    /\ UNCHANGED <<box, removals>>
    /\ OnlyRuns

\* The engine makes the container, unless its name is taken.
ContainerStarts ==
    /\ active.child = "spawned"
    /\ IF box = 0
       THEN box' = active.run /\ active' = [active EXCEPT !.child = "attached"]
       ELSE active' = [active EXCEPT !.child = "refused"] /\ UNCHANGED box
    /\ UNCHANGED <<runs, removals>>
    /\ OnlyRuns

\* The Runtime ends by itself; the container goes with it (--rm).
ContainerExits ==
    /\ box # 0
    /\ box' = 0
    /\ UNCHANGED <<runs, active, removals>>
    /\ OnlyRuns

\* Mutant of Termination: the child is left to the removal alone.
MutantTermination(how) == IF how = "killing" THEN "removed" ELSE how

Termination(how) == how

(***************************************************************************)
(* A cancellation, the time limit or the output limit: the container is to *)
(* be removed by name, or the process is told to end.  However many of the *)
(* three come together, there is one removal.                              *)
(***************************************************************************)
Flag ==
    /\ active.run # 0 /\ ~active.flagged
    /\ IF config = "process"
       THEN /\ active' = [active EXCEPT !.flagged = TRUE, !.termination = Termination("killing")]
            /\ UNCHANGED removals
       ELSE /\ active' = [active EXCEPT !.flagged = TRUE, !.termination = Termination("removing")]
            /\ removals' = removals \cup {active.run}
    /\ UNCHANGED <<runs, box>>
    /\ OnlyRuns

Reported(r, how) ==
    IF active.run = r /\ active.termination = "removing"
    THEN [active EXCEPT !.termination = Termination(how)] ELSE active

\* The engine removes what bears the name now.  Where it finds nothing, it may
\* call that a failure or not.
Remove(r) ==
    /\ r \in removals
    /\ removals' = removals \ {r}
    /\ box' = 0
    /\ \/ active' = Reported(r, "removed")
       \/ box = 0 /\ active' = Reported(r, "killing")
    /\ UNCHANGED runs
    /\ OnlyRuns

\* The removal fails, or its 8 seconds pass while the engine is still at it.
RemovalFails(r) ==
    /\ r \in removals
    /\ removals' \in {removals, removals \ {r}}
    /\ removals' = removals => active.run = r /\ active.termination = "removing"
    /\ active' = Reported(r, "killing")
    /\ UNCHANGED <<runs, box>>
    /\ OnlyRuns

\* Mutant of Settled: the flags of a Run are left to the next.
MutantSettled == [Idle EXCEPT !.flagged = active.flagged]

Settled == Idle

\* SIGTERM, which the command passes on to its container, then SIGKILL, which
\* leaves the container running.
Kill ==
    /\ active.termination = "killing"
    /\ active' = Settled
    /\ box' \in Abandoned \cup (IF box = active.run THEN {0} ELSE {})
    /\ UNCHANGED <<runs, removals>>
    /\ OnlyRuns

\* The child closes, and the Run settles.
ChildCloses ==
    /\ \/ active.child = "refused"
       \/ active.child = "attached" /\ (config = "process" \/ box # active.run)
    /\ active' = Settled
    /\ UNCHANGED <<runs, box, removals>>
    /\ OnlyRuns

-----------------------------------------------------------------------------
Init ==
    /\ config \in Configs
    /\ boot = "down"
    /\ epoch = 0
    /\ net \in {"absent", "internal", "routable"}
    /\ broker = NoBroker
    /\ leftover = FALSE
    /\ runs = 0
    /\ active = Idle
    /\ box = 0
    /\ removals = {}

BootStep ==
    /\ \/ \E scripted \in BOOLEAN : Boot(scripted)
       \/ RemoveOld \/ Create \/ Start \/ Poll \/ Initialize
       \/ ListenWithCleanup \/ Shutdown \/ Crash
    /\ UNCHANGED config

Next ==
    \/ BootStep
    \/ EnsureNetworks /\ UNCHANGED config
    \/ BrokerExits
    \/ \E other \in {"absent", "internal", "routable"} : NetworkChanges(other)
    \/ StartRun \/ ContainerStarts \/ ContainerExits \/ Flag
    \/ \E r \in RunIds : Remove(r) \/ RemovalFails(r)
    \/ Kill \/ ChildCloses

Spec == Init /\ [][Next]_engineVars

\* The engine and the timers of the runner go on; no Runtime has to end.
FairSpec ==
    /\ Spec
    /\ \A r \in RunIds : WF_engineVars(Remove(r) \/ RemovalFails(r))
    /\ WF_engineVars(Kill)
    /\ WF_engineVars(ChildCloses)

-----------------------------------------------------------------------------
EngineTypeOK ==
    /\ config \in Configs /\ boot \in Stages /\ epoch \in 0 .. MaxBoots
    /\ net \in {"absent", "internal", "routable"}
    /\ broker \in Broker /\ leftover \in BOOLEAN
    /\ runs \in 0 .. MaxRuns /\ box \in 0 .. runs /\ removals \subseteq 1 .. runs
    /\ active \in Active
    /\ active.run = 0 => active = Idle
    /\ active.termination # "none" => active.flagged

(***************************************************************************)
(* "If the broker or its isolated network cannot be brought up, the server *)
(* refuses to start" (index.ts:18-22): a server that listens has a network *)
(* that is internal, and whatever runs under the broker's name was made by *)
(* this very start and holds its secret, also after a crash that left the  *)
(* broker of an earlier one.  A start that failed leaves no broker, unless *)
(* it was cut off or could not remove it.                                  *)
(***************************************************************************)
BootIsFailClosed ==
    /\ config = "warden" /\ boot = "listening"
           => net = "internal" /\ (broker = NoBroker \/ broker.epoch = epoch)
    /\ boot = "down" /\ ~leftover => broker = NoBroker

(***************************************************************************)
(* A removal under way while the container of its Run exists ends the Run, *)
(* whether it succeeds, fails or times out; so does the end of a process.  *)
(***************************************************************************)
EndingsEnd ==
    \A r \in RunIds :
        ( /\ active.run = r
          /\ \/ r \in removals /\ box = r
             \/ active.flagged /\ config = "process" ) ~> active.run # r

=============================================================================
