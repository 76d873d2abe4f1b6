----------------------------- MODULE EngineProofs -----------------------------
(***************************************************************************)
(* Proofs about Engine, for any number of starts and Runs: the shape of    *)
(* the state, and that the server comes up with its isolated network and   *)
(* its own broker or not at all.                                           *)
(***************************************************************************)
EXTENDS Engine, TLAPS

-----------------------------------------------------------------------------
(***************************************************************************)
(* The shape of the state.  The active Run is one that was started.        *)
(***************************************************************************)
ShapeInv ==
    /\ EngineTypeOK
    /\ active.run <= runs
    /\ broker.state = "absent" => broker = NoBroker

\* What the runner knows and what the engine has of Runs.
RunShape ==
    /\ runs \in 0 .. MaxRuns /\ box \in 0 .. runs /\ removals \subseteq 1 .. runs
    /\ active \in Active
    /\ active.run = 0 => active = Idle
    /\ active.termination # "none" => active.flagged
    /\ active.run <= runs

\* What start-up knows and what the engine has of broker and network.
BootShape ==
    /\ config \in Configs /\ boot \in Stages /\ epoch \in 0 .. MaxBoots
    /\ net \in {"absent", "internal", "routable"}
    /\ broker \in Broker
    /\ broker.state = "absent" => broker = NoBroker

LEMMA ShapeParts == ShapeInv => BootShape /\ RunShape
  BY EngineAssumption DEF EngineAssumption, ShapeInv, EngineTypeOK, BootShape, RunShape

LEMMA ShapeInvInit == Init => ShapeInv
<1> SUFFICES ASSUME Init PROVE ShapeInv
  OBVIOUS
<1> USE EngineAssumption DEF EngineAssumption, Init
<1>1. Idle \in Active /\ Idle.run = 0 /\ Idle.termination = "none"
  BY DEF Idle, Active
<1>2. NoBroker \in Broker
  BY DEF NoBroker, Broker
<1>3. runs \in 0 .. MaxRuns /\ box \in 0 .. runs /\ removals \subseteq 1 .. runs
      /\ active.run <= runs
  BY <1>1
<1>4. epoch \in 0 .. MaxBoots
  OBVIOUS
<1>5. config \in Configs /\ boot \in Stages
  BY DEF Stages
<1>6. leftover \in BOOLEAN
  BY Zenon
<1> QED
  BY <1>1, <1>2, <1>3, <1>4, <1>5, <1>6, Zenon DEF ShapeInv, EngineTypeOK

\* What an attempt to remove the broker comes to: it is gone, or it is noted.
LEMMA Removal ==
    ASSUME QuietRemoval, broker.state = "absent" => broker = NoBroker
    PROVE  (broker' = NoBroker \/ broker' = broker) /\ (leftover' \/ broker' = NoBroker)
  BY Zenon DEF QuietRemoval

\* The broker is made, started, ended and removed, and stays one container.
LEMMA BootShapeStep == BootShape /\ [Next]_engineVars => BootShape'
<1> SUFFICES ASSUME BootShape, [Next]_engineVars PROVE BootShape'
  OBVIOUS
<1> USE EngineAssumption DEF EngineAssumption
<1> USE DEF BootShape, Stages, Broker, NoBroker, bootVars
<1>1. ASSUME BootStep PROVE BootShape'
  <2> config' = config
    BY <1>1 DEF BootStep
  <2>1. ASSUME NEW scripted \in BOOLEAN, Boot(scripted) PROVE BootShape'
    BY <2>1 DEF Boot
  <2>2. CASE RemoveOld
    BY <2>2, Removal DEF RemoveOld
  <2>3. CASE Create
    BY <2>3 DEF Create, GivesUp, Dies
  <2>4. CASE Start
    BY <2>4, Removal DEF Start, CleansUp, Dies
  <2>5. CASE Poll
    BY <2>5, Removal DEF Poll, CleansUp, Dies
  <2>6. CASE Initialize
    BY <2>6 DEF Initialize, Dies
  <2>7. CASE ListenWithCleanup
    BY <2>7, Removal DEF ListenWithCleanup, Dies, Stop
  <2>8. CASE Shutdown
    BY <2>8, Removal DEF Shutdown, Dies, Stop
  <2>9. CASE Crash
    BY <2>9 DEF Crash, Dies
  <2> QED
    BY <1>1, <2>1, <2>2, <2>3, <2>4, <2>5, <2>6, <2>7, <2>8, <2>9 DEF BootStep
<1>2. CASE EnsureNetworks /\ UNCHANGED config
  BY <1>2 DEF EnsureNetworks
<1>3. CASE BrokerExits
  BY <1>3 DEF BrokerExits
<1>4. ASSUME NEW other \in {"absent", "internal", "routable"}, NetworkChanges(other)
      PROVE  BootShape'
  BY <1>4 DEF NetworkChanges
<1>5. CASE OnlyRuns
  BY <1>5 DEF OnlyRuns
<1>6. CASE UNCHANGED engineVars
  BY <1>6 DEF engineVars
<1>7. ASSUME StartRun \/ ContainerStarts \/ ContainerExits \/ Flag \/ Kill \/ ChildCloses
             \/ \E r \in RunIds : Remove(r) \/ RemovalFails(r)
      PROVE  OnlyRuns
  BY <1>7 DEF StartRun, ContainerStarts, ContainerExits, Flag, Kill, ChildCloses,
              Remove, RemovalFails
<1> QED
  BY <1>1, <1>2, <1>3, <1>4, <1>5, <1>6, <1>7 DEF Next

\* A start, an end or a crash of the server leaves no Run active, and makes at
\* most the container it had asked for.
LEMMA RunShapeStep == RunShape /\ [Next]_engineVars => RunShape'
<1> SUFFICES ASSUME RunShape, [Next]_engineVars PROVE RunShape'
  OBVIOUS
<1> USE EngineAssumption DEF EngineAssumption
<1> USE DEF RunShape, Active, Idle
<1> DEFINE Same == UNCHANGED runVars
           Down == active' = Idle /\ UNCHANGED <<runs, removals>> /\ box' \in Abandoned
<1>1. CASE Same
  BY <1>1 DEF runVars
<1>2. CASE Down
  BY <1>2 DEF Abandoned
<1>3. ASSUME BootStep PROVE RunShape'
  <2>1. ASSUME NEW scripted \in BOOLEAN, Boot(scripted) PROVE RunShape'
    BY <2>1 DEF Boot
  <2>2. box \in Abandoned
    BY DEF Abandoned
  <2>3. ASSUME RemoveOld \/ Create \/ Start \/ Poll \/ Initialize \/ ListenWithCleanup
        PROVE  Same \/ Down
    BY <2>2, <2>3 DEF RemoveOld, Create, Start, Poll, Initialize, ListenWithCleanup,
                      GivesUp, CleansUp, Dies, runVars
  <2>4. ASSUME Shutdown \/ Crash PROVE Down
    BY <2>4, Removal DEF Shutdown, Crash, Dies
  <2> QED
    BY <1>1, <1>2, <1>3, <2>1, <2>3, <2>4 DEF BootStep
<1>4. CASE EnsureNetworks \/ BrokerExits
           \/ \E other \in {"absent", "internal", "routable"} : NetworkChanges(other)
  <2> Same
    BY <1>4 DEF EnsureNetworks, BrokerExits, NetworkChanges
  <2> QED BY <1>1
<1>5. CASE StartRun
  <2>1. runs' = runs + 1 /\ runs < MaxRuns /\ UNCHANGED <<box, removals>>
    BY <1>5 DEF StartRun
  <2>2. \E child \in {"spawned", "attached"} :
            active' = [Idle EXCEPT !.run = runs + 1, !.child = child]
    BY <1>5 DEF StartRun
  <2>3. active' \in Active /\ active'.run = runs' /\ active'.termination = "none"
    <3>1. PICK child \in {"spawned", "attached"} :
              active' = [run |-> runs + 1, child |-> child,
                         flagged |-> FALSE, termination |-> "none"]
      BY <2>2
    <3>2. runs + 1 \in 0 .. MaxRuns
      BY <2>1
    <3> QED BY <2>1, <3>1, <3>2
  <2> QED BY <2>1, <2>3
<1>6. CASE ContainerStarts
  BY <1>6 DEF ContainerStarts
<1>7. CASE ContainerExits
  BY <1>7 DEF ContainerExits
<1>8. CASE Flag
  <2>1. /\ active.run # 0 /\ runs' = runs /\ box' = box
        /\ removals' \subseteq removals \cup {active.run}
    BY <1>8 DEF Flag
  <2>2. active' \in Active /\ active'.run = active.run
    BY <1>8 DEF Flag, Termination
  <2>3. active'.flagged
    BY <1>8 DEF Flag, Termination
  <2> QED BY <2>1, <2>2, <2>3
<1>9. ASSUME NEW r \in RunIds, Remove(r) PROVE RunShape'
  BY <1>9 DEF Remove, Reported, Termination
<1>10. ASSUME NEW r \in RunIds, RemovalFails(r) PROVE RunShape'
  <2>1. runs' = runs /\ box' = box /\ removals' \subseteq removals
    BY <1>10 DEF RemovalFails
  <2>2. /\ active' \in Active /\ active'.run = active.run
        /\ active'.flagged = active.flagged
        /\ active.termination = "none" => active' = active
        /\ active'.run = 0 => active' = Idle
    <3>1. CASE active.run = r /\ active.termination = "removing"
      <4>1. active' = [active EXCEPT !.termination = "killing"] /\ active.run # 0
        BY <1>10, <3>1 DEF RemovalFails, Reported, Termination, RunIds
      <4> QED BY <3>1, <4>1
    <3>2. CASE ~(active.run = r /\ active.termination = "removing")
      BY <1>10, <3>2 DEF RemovalFails, Reported
    <3> QED BY <3>1, <3>2
  <2> QED BY <2>1, <2>2
<1>11. CASE Kill
  BY <1>11 DEF Kill, Settled, Abandoned
<1>12. CASE ChildCloses
  BY <1>12 DEF ChildCloses, Settled
<1>13. CASE UNCHANGED engineVars
  BY <1>1, <1>13 DEF engineVars, runVars
<1> QED
  BY <1>3, <1>4, <1>5, <1>6, <1>7, <1>8, <1>9, <1>10, <1>11, <1>12, <1>13 DEF Next

(***************************************************************************)
(* The state keeps its shape: a Run is flagged before anything ends it,    *)
(* and no flag of one is left when none is active (container-codex-runner  *)
(* and codex-runner.ts).                                                   *)
(***************************************************************************)
THEOREM EngineTypeCorrect == Spec => []EngineTypeOK
<1>1. ShapeInv /\ [Next]_engineVars => ShapeInv'
  <2> SUFFICES ASSUME ShapeInv, [Next]_engineVars PROVE ShapeInv'
    OBVIOUS
  <2>1. BootShape' /\ RunShape'
    BY ShapeParts, BootShapeStep, RunShapeStep
  <2>2. leftover' \in BOOLEAN
    <3>1. leftover' = leftover \/ leftover' = TRUE
          \/ leftover' = (leftover \/ broker.state # "absent")
      BY Zenon DEF Next, BootStep, Boot, EnsureNetworks, RemoveOld, Create, Start, Poll,
                   Initialize, ListenWithCleanup, Shutdown, Crash, BrokerExits,
                   NetworkChanges, StartRun, ContainerStarts, ContainerExits, Flag, Remove,
                   RemovalFails, Kill, ChildCloses, OnlyRuns, GivesUp, CleansUp, Stop,
                   QuietRemoval, bootVars, engineVars
    <3> QED BY <3>1, Zenon DEF ShapeInv, EngineTypeOK
  <2> QED
    BY <2>1, <2>2, Zenon DEF ShapeInv, EngineTypeOK, BootShape, RunShape
<1>2. ShapeInv => EngineTypeOK
  BY DEF ShapeInv
<1> QED
  BY ShapeInvInit, <1>1, <1>2, PTL DEF Spec

-----------------------------------------------------------------------------
(***************************************************************************)
(* The strengthening.  From the moment the networks are verified until the *)
(* server is down the network is internal; from the creation of the broker *)
(* on, its name is this start's; before that, what bears the name was left *)
(* over.  Without Warden there is no broker.                               *)
(***************************************************************************)
Up == {"starting", "polling", "initializing", "binding", "listening"}

FailClosedInv ==
    /\ BootShape
    /\ config # "warden" =>
          broker = NoBroker /\ boot \in {"down", "initializing", "binding", "listening"}
    /\ config = "warden" /\ boot \in {"removing", "creating"} \cup Up => net = "internal"
    /\ config = "warden" /\ boot \in Up => broker.epoch = epoch
    /\ boot \notin Up /\ ~leftover => broker = NoBroker

LEMMA FailClosedInit == Init => FailClosedInv
  BY EngineAssumption
     DEF EngineAssumption, Init, FailClosedInv, BootShape, Stages, Broker, NoBroker, Up

LEMMA FailClosedStep == FailClosedInv /\ [Next]_engineVars => FailClosedInv'
<1> SUFFICES ASSUME FailClosedInv, [Next]_engineVars PROVE FailClosedInv'
  OBVIOUS
<1> BootShape'
  BY BootShapeStep DEF FailClosedInv
<1> USE DEF FailClosedInv, NoBroker, Up, bootVars
<1>1. ASSUME BootStep PROVE FailClosedInv'
  <2> config' = config
    BY <1>1 DEF BootStep
  <2>1. ASSUME NEW scripted \in BOOLEAN, Boot(scripted) PROVE FailClosedInv'
    BY <2>1 DEF Boot
  <2>2. CASE RemoveOld
    BY <2>2, Removal DEF RemoveOld, BootShape
  <2>3. CASE Create
    BY <2>3 DEF Create, GivesUp, Dies, NameIsFree
  <2>4. CASE Start
    <3>1. config = "warden" /\ broker.epoch = epoch /\ broker \in Broker
      BY <2>4 DEF Start, BootShape
    <3> QED BY <2>4, <3>1, Removal DEF Start, CleansUp, Dies, Broker, BootShape
  <2>5. CASE Poll
    BY <2>5, Removal DEF Poll, CleansUp, Dies, BootShape
  <2>6. CASE Initialize
    BY <2>6 DEF Initialize, Dies, BootShape, Broker
  <2>7. CASE ListenWithCleanup
    BY <2>7, Removal DEF ListenWithCleanup, Dies, Stop, BootShape, Broker
  <2>8. CASE Shutdown
    BY <2>8, Removal DEF Shutdown, Dies, Stop, BootShape, Broker
  <2>9. CASE Crash
    BY <2>9 DEF Crash, Dies, BootShape, Broker
  <2> QED
    BY <1>1, <2>1, <2>2, <2>3, <2>4, <2>5, <2>6, <2>7, <2>8, <2>9 DEF BootStep
<1>2. CASE EnsureNetworks /\ UNCHANGED config
  BY <1>2 DEF EnsureNetworks, IsInternal
<1>3. CASE BrokerExits
  BY <1>3 DEF BrokerExits, BootShape, Broker
<1>4. ASSUME NEW other \in {"absent", "internal", "routable"}, NetworkChanges(other)
      PROVE  FailClosedInv'
  BY <1>4 DEF NetworkChanges
<1>5. CASE OnlyRuns
  BY <1>5 DEF OnlyRuns
<1>6. CASE UNCHANGED engineVars
  BY <1>6 DEF engineVars
<1>7. ASSUME StartRun \/ ContainerStarts \/ ContainerExits \/ Flag \/ Kill \/ ChildCloses
             \/ \E r \in RunIds : Remove(r) \/ RemovalFails(r)
      PROVE  OnlyRuns
  BY <1>7 DEF StartRun, ContainerStarts, ContainerExits, Flag, Kill, ChildCloses,
              Remove, RemovalFails
<1> QED
  BY <1>1, <1>2, <1>3, <1>4, <1>5, <1>6, <1>7 DEF Next

(***************************************************************************)
(* The server listens behind its own isolated broker or not at all, and a  *)
(* start that failed leaves none, for any number of starts (index.ts,      *)
(* startup.ts, broker-container.ts).                                       *)
(***************************************************************************)
THEOREM FailsClosed == Spec => []BootIsFailClosed
<1>1. FailClosedInv => BootIsFailClosed
  BY DEF FailClosedInv, BootIsFailClosed, Up
<1> QED
  BY FailClosedInit, FailClosedStep, <1>1, PTL DEF Spec

=============================================================================
