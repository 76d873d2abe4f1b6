-------------------------- MODULE AgentServiceProofs --------------------------
(***************************************************************************)
(* Machine-checked proofs about AgentService, for any Agents and any number*)
(* of Runs, commands and crashes, in whatever order writes, containers and *)
(* the broker answer.                                                      *)
(***************************************************************************)
EXTENDS AgentService, FiniteSetTheorems, SequenceTheorems, TLAPS

-----------------------------------------------------------------------------
(* The parts of the inductive invariant. *)

Execution == [agent : AgentIds, stage : Stages, outcome : Outcomes, cancelled : BOOLEAN,
              container : ContainerStates]

CommandRecord == [kind : CommandKinds, agent : AgentIds, run : 0 .. MaxRuns,
                  wait : Waits, on : 0 .. MaxRuns]

Op == {RunOp(r) : r \in Nat} \cup {CommandOp(c) : c \in Nat} \cup {CreateOp(a) : a \in AgentIds}

Shape ==
    /\ DOMAIN agents \subseteq AgentIds /\ agents \in [DOMAIN agents -> AgentStatuses]
    /\ executions \in Seq(Execution) /\ Len(executions) <= MaxRuns
    /\ DOMAIN runs \subseteq RunIds /\ runs \in [DOMAIN runs -> RunStatuses]
    /\ workspaces \subseteq AgentIds /\ archived \subseteq AgentIds \ workspaces
    /\ queue \in Seq(Op)
    /\ active \in [AgentIds -> {0} \cup RunIds]
    /\ flags \subseteq AgentIds
    /\ commands \in Seq(CommandRecord)
    /\ restarts \in Nat

Holds(q, op) == \E i \in 1 .. Len(q) : q[i] = op
Distinct(q) == \A i, j \in 1 .. Len(q) : q[i] = q[j] => i = j

\* A queued mutation is the next step of the Run or command it belongs to.
InStore == {"sending", "starting", "settling"}
QueueOK ==
    /\ Distinct(queue)
    /\ \A r \in Nat : Holds(queue, RunOp(r)) <=> r \in RunIds /\ executions[r].stage \in InStore
    /\ \A c \in Nat : Holds(queue, CommandOp(c))
                        <=> c \in DOMAIN commands /\ commands[c].wait = "storing"

CommandsOK ==
    \A c \in DOMAIN commands :
        /\ commands[c].kind \in Kinds
        /\ commands[c].wait = "archiving" => commands[c].kind = "delete"
        /\ commands[c].wait = "storing" => commands[c].kind \in {"start", "stop", "delete"}

\* An id is used once: an Agent that is still to be stored has no past.
BirthOK ==
    /\ DOMAIN agents \subseteq workspaces \cup archived
    /\ \A a \in AgentIds : Holds(queue, CreateOp(a)) =>
          /\ a \in workspaces /\ a \notin DOMAIN agents
          /\ \A c \in DOMAIN commands :
                commands[c].kind \in {"stop", "delete"} => commands[c].agent # a
          /\ \A r \in RunIds : AgentOf(r) = a => executions[r].stage \in {"sending", "rejected"}
    /\ \A c \in DOMAIN commands :
          commands[c].kind \in {"stop", "delete"} =>
             commands[c].agent \in workspaces \cup archived
    /\ \A r \in RunIds :
          executions[r].stage \notin {"sending", "rejected"} =>
             AgentOf(r) \in workspaces \cup archived

UnderWay == {"starting", "minting", "running", "ending", "settling"}

RunsOK ==
    /\ \A r \in RunIds :
          /\ executions[r].stage = "sending" => r \notin DOMAIN runs
          /\ executions[r].stage \in UnderWay /\ AgentOf(r) \in DOMAIN agents => r \in DOMAIN runs
    /\ \A r \in DOMAIN runs :
          /\ AgentOf(r) \in DOMAIN agents
          /\ executions[r].stage \in UnderWay => runs[r] \in ActiveStatuses
          /\ executions[r].stage = "done" => runs[r] \notin ActiveStatuses
    /\ \A a \in DOMAIN agents : agents[a] = "busy" =>
          \E r \in DOMAIN runs : AgentOf(r) = a /\ runs[r] \in ActiveStatuses

ServiceInv == Shape /\ QueueOK /\ CommandsOK /\ BirthOK /\ RunsOK

\* Without stops.
OneEach ==
    \A r \in DOMAIN runs : runs[r] \in ActiveStatuses =>
        /\ agents[AgentOf(r)] = "busy"
        /\ executions[r].stage # "rejected" => active[AgentOf(r)] = r
        /\ \A s \in DOMAIN runs :
              runs[s] \in ActiveStatuses /\ AgentOf(s) = AgentOf(r) => s = r

-----------------------------------------------------------------------------
(* Sequences without repetitions, as sets of what they hold. *)

\* What is appended is held, and nothing else is new.
LEMMA AppendHolds ==
    ASSUME NEW S, NEW q \in Seq(S), NEW x \in S, Distinct(q), ~Holds(q, x)
    PROVE  /\ Append(q, x) \in Seq(S)
           /\ Distinct(Append(q, x))
           /\ \A y : Holds(Append(q, x), y) <=> Holds(q, y) \/ y = x
  <1> DEFINE p == Append(q, x)
  <1>1. /\ p \in Seq(S) /\ Len(p) = Len(q) + 1 /\ Len(q) \in Nat
        /\ \A i \in 1 .. Len(q) : p[i] = q[i]
        /\ p[Len(q) + 1] = x
    OBVIOUS
  <1> HIDE DEF p
  <1>2. Distinct(p)
    BY <1>1 DEF Distinct, Holds
  <1>3. ASSUME NEW y PROVE Holds(p, y) <=> Holds(q, y) \/ y = x
    <2>1. ASSUME Holds(q, y) PROVE Holds(p, y)
      BY <1>1, <2>1 DEF Holds
    <2>2. Holds(p, x)
      <3>1. Len(q) + 1 \in 1 .. Len(p)
        BY <1>1
      <3>2. QED
        BY <1>1, <3>1 DEF Holds
    <2>3. ASSUME Holds(p, y), y # x PROVE Holds(q, y)
      <3>1. PICK i \in 1 .. Len(p) : p[i] = y
        BY <2>3 DEF Holds
      <3>2. i \in 1 .. Len(q)
        BY <1>1, <2>3, <3>1
      <3>3. QED
        BY <1>1, <3>1, <3>2 DEF Holds
    <2>4. QED
      BY <2>1, <2>2, <2>3
  <1>4. QED
    BY <1>1, <1>2, <1>3 DEF p

\* A queue without repetitions loses exactly its first element.
LEMMA TailHolds ==
    ASSUME NEW S, NEW q \in Seq(S), q # <<>>, Distinct(q)
    PROVE  /\ q[1] \in S /\ Holds(q, q[1])
           /\ Tail(q) \in Seq(S)
           /\ Distinct(Tail(q))
           /\ \A y : Holds(Tail(q), y) <=> Holds(q, y) /\ y # q[1]
  <1> DEFINE p == Tail(q)
  <1>1. /\ p \in Seq(S) /\ Len(p) = Len(q) - 1 /\ Len(q) \in Nat /\ Len(q) > 0
        /\ \A i \in 1 .. Len(p) : p[i] = q[i + 1]
    OBVIOUS
  <1> HIDE DEF p
  <1>2. 1 \in 1 .. Len(q)
    BY <1>1
  <1>3. q[1] \in S /\ Holds(q, q[1])
    BY <1>2 DEF Holds
  <1>4. Distinct(p)
    <2> SUFFICES ASSUME NEW i \in 1 .. Len(p), NEW j \in 1 .. Len(p), p[i] = p[j]
                 PROVE  i = j
      BY DEF Distinct
    <2>1. /\ i + 1 \in 1 .. Len(q) /\ j + 1 \in 1 .. Len(q) /\ q[i + 1] = q[j + 1]
      BY <1>1
    <2>2. i + 1 = j + 1
      BY <2>1 DEF Distinct
    <2>3. QED
      BY <2>2
  <1>5. ASSUME NEW y PROVE Holds(p, y) <=> Holds(q, y) /\ y # q[1]
    <2>1. ASSUME Holds(p, y) PROVE Holds(q, y) /\ y # q[1]
      <3>1. PICK i \in 1 .. Len(p) : p[i] = y
        BY <2>1 DEF Holds
      <3>2. i + 1 \in 1 .. Len(q) /\ q[i + 1] = y /\ i + 1 # 1
        BY <1>1, <3>1
      <3>3. y # q[1]
        BY <1>2, <3>2 DEF Distinct
      <3>4. QED
        BY <3>2, <3>3 DEF Holds
    <2>2. ASSUME Holds(q, y), y # q[1] PROVE Holds(p, y)
      <3>1. PICK i \in 1 .. Len(q) : q[i] = y
        BY <2>2 DEF Holds
      <3>2. i - 1 \in 1 .. Len(p) /\ (i - 1) + 1 = i
        BY <1>1, <2>2, <3>1
      <3>3. p[i - 1] = y
        BY <1>1, <3>1, <3>2
      <3>4. QED
        BY <3>2, <3>3 DEF Holds
    <2>3. QED
      BY <2>1, <2>2
  <1>6. QED
    BY <1>1, <1>3, <1>4, <1>5 DEF p

\* Two queues that share nothing, one behind the other.
LEMMA ConcatHolds ==
    ASSUME NEW S, NEW q \in Seq(S), NEW p \in Seq(S), Distinct(q), Distinct(p),
           \A y : ~(Holds(q, y) /\ Holds(p, y))
    PROVE  /\ q \o p \in Seq(S)
           /\ Distinct(q \o p)
           /\ \A y : Holds(q \o p, y) <=> Holds(q, y) \/ Holds(p, y)
  <1> DEFINE o == q \o p
  <1>1. /\ o \in Seq(S) /\ Len(o) = Len(q) + Len(p) /\ Len(q) \in Nat /\ Len(p) \in Nat
        /\ \A i \in 1 .. Len(o) : o[i] = IF i <= Len(q) THEN q[i] ELSE p[i - Len(q)]
    OBVIOUS
  <1> HIDE DEF o
  <1>2. \A i \in 1 .. Len(q) : i \in 1 .. Len(o) /\ o[i] = q[i]
    BY <1>1
  <1>3. \A i \in 1 .. Len(p) : i + Len(q) \in 1 .. Len(o) /\ o[i + Len(q)] = p[i]
    <2> TAKE i \in 1 .. Len(p)
    <2>1. i + Len(q) \in 1 .. Len(o) /\ ~(i + Len(q) <= Len(q)) /\ i + Len(q) - Len(q) = i
      BY <1>1
    <2>2. QED
      BY <1>1, <2>1
  <1>4. \A i \in 1 .. Len(o) : i \in 1 .. Len(q) \/ i - Len(q) \in 1 .. Len(p)
    BY <1>1
  <1>5. Distinct(o)
    <2> SUFFICES ASSUME NEW i \in 1 .. Len(o), NEW j \in 1 .. Len(o), o[i] = o[j]
                 PROVE  i = j
      BY DEF Distinct
    <2>1. CASE i \in 1 .. Len(q) /\ j \in 1 .. Len(q)
      BY <1>2, <2>1 DEF Distinct
    <2>2. CASE i \notin 1 .. Len(q) /\ j \notin 1 .. Len(q)
      <3>1. o[i] = p[i - Len(q)] /\ o[j] = p[j - Len(q)]
        BY <1>1, <2>2
      <3>2. i - Len(q) = j - Len(q)
        BY <1>4, <2>2, <3>1 DEF Distinct
      <3>3. QED
        BY <1>1, <3>2
    <2>3. CASE i \in 1 .. Len(q) /\ j \notin 1 .. Len(q)
      <3>1. o[i] = q[i] /\ o[j] = p[j - Len(q)] /\ j - Len(q) \in 1 .. Len(p)
        BY <1>1, <1>2, <1>4, <2>3
      <3>2. QED
        BY <2>3, <3>1 DEF Holds
    <2>4. CASE i \notin 1 .. Len(q) /\ j \in 1 .. Len(q)
      <3>1. o[j] = q[j] /\ o[i] = p[i - Len(q)] /\ i - Len(q) \in 1 .. Len(p)
        BY <1>1, <1>2, <1>4, <2>4
      <3>2. QED
        BY <2>4, <3>1 DEF Holds
    <2>5. QED
      BY <2>1, <2>2, <2>3, <2>4
  <1>6. ASSUME NEW y PROVE Holds(o, y) <=> Holds(q, y) \/ Holds(p, y)
    <2>1. ASSUME Holds(q, y) PROVE Holds(o, y)
      BY <1>2, <2>1 DEF Holds
    <2>2. ASSUME Holds(p, y) PROVE Holds(o, y)
      <3>1. PICK i \in 1 .. Len(p) : p[i] = y
        BY <2>2 DEF Holds
      <3>2. QED
        BY <1>3, <3>1 DEF Holds
    <2>3. ASSUME Holds(o, y) PROVE Holds(q, y) \/ Holds(p, y)
      <3>1. PICK i \in 1 .. Len(o) : o[i] = y
        BY <2>3 DEF Holds
      <3>2. CASE i \in 1 .. Len(q)
        BY <1>2, <3>1, <3>2 DEF Holds
      <3>3. CASE i \notin 1 .. Len(q)
        <4>1. o[i] = p[i - Len(q)] /\ i - Len(q) \in 1 .. Len(p)
          BY <1>1, <1>4, <3>3
        <4>2. QED
          BY <3>1, <4>1 DEF Holds
      <3>4. QED
        BY <3>2, <3>3
    <2>4. QED
      BY <2>1, <2>2, <2>3
  <1>7. QED
    BY <1>1, <1>5, <1>6 DEF o

\* A set as a sequence: whichever order is chosen, it holds each member once.
LEMMA SetToSeqHolds ==
    ASSUME NEW T, IsFiniteSet(T)
    PROVE  /\ SetToSeq(T) \in Seq(T)
           /\ Distinct(SetToSeq(T))
           /\ \A y : Holds(SetToSeq(T), y) <=> y \in T
  <1> DEFINE n == Cardinality(T)
             f == SetToSeq(T)
  <1>1. n \in Nat /\ ExistsBijection(1 .. n, T)
    BY FS_CardinalityType
  <1>2. \E g \in [1 .. n -> T] : IsInjective(g)
    BY <1>1 DEF ExistsBijection, Bijection, Injection, IsInjective
  <1>3. f \in [1 .. n -> T] /\ IsInjective(f)
    BY <1>2 DEF SetToSeq
  <1>4. IsFiniteSet(1 .. n) /\ Cardinality(1 .. n) = n
    BY <1>1, FS_Interval
  <1> HIDE DEF n, f
  <1>5. f \in Injection(1 .. n, T)
    BY <1>3 DEF Injection, IsInjective
  <1>6. f \in Surjection(1 .. n, T)
    BY <1>4, <1>5, FS_Injection DEF n
  <1>7. \A y \in T : \E i \in 1 .. n : f[i] = y
    BY <1>6 DEF Surjection
  <1>8. f \in Seq(T) /\ Len(f) = n
    BY <1>1, <1>3
  <1>9. Distinct(f)
    BY <1>3, <1>8 DEF Distinct, IsInjective
  <1>10. \A y : Holds(f, y) <=> y \in T
    BY <1>3, <1>7, <1>8 DEF Holds
  <1>11. QED
    BY <1>8, <1>9, <1>10 DEF f

-----------------------------------------------------------------------------
(* What the pieces of the actions do. *)

\* A queued mutation tells whose it is.
LEMMA OpsDiffer ==
    /\ \A r, s : RunOp(r) = RunOp(s) => r = s
    /\ \A r, s : CommandOp(r) = CommandOp(s) => r = s
    /\ \A r, s : CreateOp(r) = CreateOp(s) => r = s
    /\ \A r, s : RunOp(r) # CommandOp(s) /\ RunOp(r) # CreateOp(s) /\ CommandOp(r) # CreateOp(s)
    /\ \A r \in Nat : RunOp(r) \in Op /\ CommandOp(r) \in Op
    /\ \A a \in AgentIds : CreateOp(a) \in Op
  BY DEF RunOp, CommandOp, CreateOp, Op

\* Runs and commands are numbered; each number names a record of the right shape.
LEMMA Indexes ==
    ASSUME Shape
    PROVE  /\ RunIds = 1 .. Len(executions) /\ DOMAIN commands = 1 .. Len(commands)
           /\ Len(executions) \in Nat /\ Len(commands) \in Nat /\ MaxRuns \in Nat
           /\ \A r \in RunIds : /\ executions[r] \in Execution /\ AgentOf(r) \in AgentIds
                                /\ r \in Nat /\ r \in 0 .. MaxRuns /\ r # 0
           /\ \A c \in DOMAIN commands : commands[c] \in CommandRecord /\ c \in Nat
  <1>1. /\ executions \in Seq(Execution) /\ Len(executions) <= MaxRuns
        /\ commands \in Seq(CommandRecord) /\ MaxRuns \in Nat
    BY AgentServiceAssumption DEF Shape
  <1>2. /\ RunIds = 1 .. Len(executions) /\ DOMAIN commands = 1 .. Len(commands)
        /\ Len(executions) \in Nat /\ Len(commands) \in Nat
    BY <1>1 DEF RunIds
  <1>3. \A r \in RunIds : executions[r] \in Execution
    BY <1>1, <1>2
  <1>4. \A r \in RunIds : AgentOf(r) \in AgentIds
    BY <1>3 DEF Execution, AgentOf
  <1>5. \A r \in RunIds : r \in Nat /\ r \in 0 .. MaxRuns /\ r # 0
    BY <1>1, <1>2
  <1>6. \A c \in DOMAIN commands : commands[c] \in CommandRecord /\ c \in Nat
    BY <1>1, <1>2
  <1>7. QED
    BY <1>1, <1>2, <1>3, <1>4, <1>5, <1>6

\* One execution moves to another stage, the others stay where they are.
Moves(r, stage) ==
    /\ executions' \in Seq(Execution)
    /\ Len(executions') = Len(executions)
    /\ RunIds' = RunIds
    /\ executions'[r].stage = stage
    /\ \A x \in RunIds : /\ executions'[x].agent = executions[x].agent
                         /\ x # r => executions'[x] = executions[x]

\* Replacing the record of one execution moves that one only.
LEMMA RecordMoves ==
    ASSUME Shape, NEW r \in RunIds, NEW e \in Execution, e.agent = executions[r].agent,
           executions' = [executions EXCEPT ![r] = e]
    PROVE  Moves(r, e.stage)
  <1>1. executions \in Seq(Execution) /\ executions[r] \in Execution
        /\ RunIds = 1 .. Len(executions) /\ Len(executions) \in Nat
    BY Indexes DEF Shape
  <1>2. /\ executions' \in Seq(Execution) /\ Len(executions') = Len(executions)
        /\ executions'[r] = e /\ \A x \in RunIds : x # r => executions'[x] = executions[x]
    BY <1>1
  <1>3. QED
    BY <1>1, <1>2 DEF Moves, RunIds

\* Setting the stage or the outcome of an execution moves that one only.
LEMMA StageMoves ==
    ASSUME Shape, NEW r \in RunIds, NEW stage \in Stages, NEW outcome \in Outcomes,
           \/ executions' = [executions EXCEPT ![r].stage = stage]
           \/ executions' = [executions EXCEPT ![r].stage = stage, ![r].outcome = outcome]
           \/ executions' = [executions EXCEPT ![r].outcome = outcome]
                 /\ stage = executions[r].stage
    PROVE  Moves(r, stage)
  <1>1. executions \in Seq(Execution) /\ executions[r] \in Execution
        /\ RunIds = 1 .. Len(executions)
    BY Indexes DEF Shape
  <1>2. QED
    <2>1. CASE executions' = [executions EXCEPT ![r].stage = stage]
      <3> DEFINE e == [executions[r] EXCEPT !.stage = stage]
      <3>1. e \in Execution /\ e.agent = executions[r].agent /\ e.stage = stage
        BY <1>1 DEF Execution
      <3>2. executions' = [executions EXCEPT ![r] = e]
        BY <1>1, <2>1 DEF Execution
      <3> HIDE DEF e
      <3>3. QED
        BY <3>1, <3>2, RecordMoves
    <2>2. CASE executions' = [executions EXCEPT ![r].stage = stage, ![r].outcome = outcome]
      <3> DEFINE e == [executions[r] EXCEPT !.stage = stage, !.outcome = outcome]
      <3>1. e \in Execution /\ e.agent = executions[r].agent /\ e.stage = stage
        BY <1>1 DEF Execution
      <3>2. executions' = [executions EXCEPT ![r] = e]
        BY <1>1, <2>2 DEF Execution
      <3> HIDE DEF e
      <3>3. QED
        BY <3>1, <3>2, RecordMoves
    <2>3. CASE executions' = [executions EXCEPT ![r].outcome = outcome]
               /\ stage = executions[r].stage
      <3> DEFINE e == [executions[r] EXCEPT !.outcome = outcome]
      <3>1. e \in Execution /\ e.agent = executions[r].agent /\ e.stage = stage
        BY <1>1, <2>3 DEF Execution
      <3>2. executions' = [executions EXCEPT ![r] = e]
        BY <1>1, <2>3 DEF Execution
      <3> HIDE DEF e
      <3>3. QED
        BY <3>1, <3>2, RecordMoves
    <2>4. QED
      BY <2>1, <2>2, <2>3

\* So does setting its container, alone or with the stage and the outcome.
LEMMA ContainerMoves ==
    ASSUME Shape, NEW r \in RunIds, NEW stage \in Stages, NEW outcome \in Outcomes,
           NEW container \in ContainerStates,
           \/ executions' = [executions EXCEPT ![r].stage = stage, ![r].container = container]
           \/ executions' = [executions EXCEPT ![r].stage = stage, ![r].outcome = outcome,
                                               ![r].container = container]
           \/ executions' = [executions EXCEPT ![r].container = container]
                 /\ stage = executions[r].stage
    PROVE  Moves(r, stage)
  <1>1. executions \in Seq(Execution) /\ executions[r] \in Execution
        /\ RunIds = 1 .. Len(executions)
    BY Indexes DEF Shape
  <1>2. QED
    <2>1. CASE executions' = [executions EXCEPT ![r].stage = stage, ![r].container = container]
      <3> DEFINE e == [executions[r] EXCEPT !.stage = stage, !.container = container]
      <3>1. e \in Execution /\ e.agent = executions[r].agent /\ e.stage = stage
        BY <1>1 DEF Execution
      <3>2. executions' = [executions EXCEPT ![r] = e]
        BY <1>1, <2>1 DEF Execution
      <3> HIDE DEF e
      <3>3. QED
        BY <3>1, <3>2, RecordMoves
    <2>2. CASE executions' = [executions EXCEPT ![r].stage = stage, ![r].outcome = outcome,
                                                ![r].container = container]
      <3> DEFINE e == [executions[r] EXCEPT !.stage = stage, !.outcome = outcome, !.container = container]
      <3>1. e \in Execution /\ e.agent = executions[r].agent /\ e.stage = stage
        BY <1>1 DEF Execution
      <3>2. executions' = [executions EXCEPT ![r] = e]
        BY <1>1, <2>2 DEF Execution
      <3> HIDE DEF e
      <3>3. QED
        BY <3>1, <3>2, RecordMoves
    <2>3. CASE executions' = [executions EXCEPT ![r].container = container]
               /\ stage = executions[r].stage
      <3> DEFINE e == [executions[r] EXCEPT !.container = container]
      <3>1. e \in Execution /\ e.agent = executions[r].agent /\ e.stage = stage
        BY <1>1, <2>3 DEF Execution
      <3>2. executions' = [executions EXCEPT ![r] = e]
        BY <1>1, <2>3 DEF Execution
      <3> HIDE DEF e
      <3>3. QED
        BY <3>1, <3>2, RecordMoves
    <2>4. QED
      BY <2>1, <2>2, <2>3

\* What removeContainer leaves of a container is a state of one.
LEMMA RemovalType ==
    ASSUME NEW container \in ContainerStates
    PROVE  Removal(container) \subseteq ContainerStates
  BY DEF Removal, ContainerStates

\* Commands that are released go on, and only the stops among them queue a mutation.
LEMMA ReleasedCommands ==
    ASSUME NEW all \in Seq(CommandRecord), NEW released \in SUBSET DOMAIN all,
           NEW joined \in BOOLEAN
    PROVE  LET out == Released(all, released, joined)
           IN  /\ out \in Seq(CommandRecord) /\ Len(out) = Len(all)
               /\ DOMAIN out = DOMAIN all
               /\ \A c \in DOMAIN all :
                     /\ out[c].kind = all[c].kind /\ out[c].agent = all[c].agent
                     /\ out[c].on = all[c].on
                     /\ c \notin released => out[c] = all[c]
                     /\ c \in released =>
                           out[c].wait = IF joined THEN AfterCancel(all[c].kind) ELSE "done"
  <1> DEFINE out == Released(all, released, joined)
  <1>1. /\ Len(all) \in Nat /\ DOMAIN all = 1 .. Len(all)
        /\ \A c \in DOMAIN all : all[c] \in CommandRecord
    OBVIOUS
  <1>2. \A c \in DOMAIN all : AfterCancel(all[c].kind) \in Waits /\ "done" \in Waits
    BY DEF AfterCancel, Waits
  <1>3. /\ DOMAIN out = DOMAIN all
        /\ \A c \in DOMAIN all :
              out[c] = IF c \in released
                       THEN [all[c] EXCEPT !.wait = IF joined THEN AfterCancel(all[c].kind)
                                                              ELSE "done"]
                       ELSE all[c]
    BY DEF Released
  <1>4. ASSUME NEW c \in DOMAIN all
        PROVE  /\ out[c] \in CommandRecord
               /\ out[c].kind = all[c].kind /\ out[c].agent = all[c].agent
               /\ out[c].on = all[c].on
               /\ c \notin released => out[c] = all[c]
               /\ c \in released =>
                     out[c].wait = IF joined THEN AfterCancel(all[c].kind) ELSE "done"
    <2> DEFINE wait == IF joined THEN AfterCancel(all[c].kind) ELSE "done"
    <2>1. wait \in Waits
      BY <1>2
    <2>2. CASE c \in released
      <3>1. out[c] = [all[c] EXCEPT !.wait = wait]
        BY <1>3, <2>2
      <3> HIDE DEF wait, out
      <3>2. /\ out[c] \in CommandRecord /\ out[c].wait = wait
            /\ out[c].kind = all[c].kind /\ out[c].agent = all[c].agent
            /\ out[c].on = all[c].on
        BY <1>1, <2>1, <3>1 DEF CommandRecord
      <3>3. QED
        BY <2>2, <3>2 DEF wait
    <2>3. CASE c \notin released
      BY <1>1, <1>3, <2>3
    <2>4. QED
      BY <2>2, <2>3
  <1>5. out = [c \in 1 .. Len(all) |-> out[c]]
    BY <1>1 DEF Released
  <1> HIDE DEF out
  <1>6. out \in Seq(CommandRecord) /\ Len(out) = Len(all)
    BY <1>1, <1>4, <1>5
  <1>7. QED
    BY <1>3, <1>4, <1>6 DEF out

\* What StopOps queues: once, the mutation of each stop among the released.
LEMMA StopOpsHold ==
    ASSUME NEW all \in Seq(CommandRecord), NEW released \in SUBSET DOMAIN all
    PROVE  /\ StopOps(all, released) \in Seq(Op)
           /\ Distinct(StopOps(all, released))
           /\ \A y : Holds(StopOps(all, released), y)
                        <=> \E c \in released : all[c].kind = "stop" /\ y = CommandOp(c)
  <1> DEFINE stops == {c \in released : all[c].kind = "stop"}
             T == {CommandOp(c) : c \in stops}
  <1>1. stops \subseteq 1 .. Len(all) /\ Len(all) \in Nat
    OBVIOUS
  <1>2. IsFiniteSet(stops)
    BY <1>1, FS_Interval, FS_Subset
  <1>3. IsFiniteSet(T)
    <2> DEFINE f == [c \in stops |-> CommandOp(c)]
    <2>1. f \in Surjection(stops, T)
      BY DEF Surjection
    <2>2. QED
      BY <1>2, <2>1, FS_Surjection
  <1>4. T \subseteq Op
    BY <1>1, OpsDiffer
  <1>5. /\ SetToSeq(T) \in Seq(T)
        /\ Distinct(SetToSeq(T))
        /\ \A y : Holds(SetToSeq(T), y) <=> y \in T
    BY <1>3, SetToSeqHolds
  <1>6. StopOps(all, released) = SetToSeq(T)
    BY DEF StopOps
  <1> HIDE DEF T
  <1>7. SetToSeq(T) \in Seq(Op)
    BY <1>4, <1>5
  <1>8. QED
    BY <1>5, <1>6, <1>7 DEF T

-----------------------------------------------------------------------------
(***************************************************************************)
(* What a step that does not concern a part of the invariant leaves of it. *)
(***************************************************************************)

\* Runs stay those of their Agents; new ones are only being sent.
KeepRuns ==
    /\ RunIds \subseteq RunIds'
    /\ \A r \in RunIds : executions'[r].agent = executions[r].agent
    /\ \A r \in RunIds' : r \notin RunIds => executions'[r].stage = "sending"

\* Commands stay what they are; new ones of those kinds are about listed Agents.
KeepCommands ==
    /\ DOMAIN commands \subseteq DOMAIN commands'
    /\ \A c \in DOMAIN commands : /\ commands'[c].kind = commands[c].kind
                                  /\ commands'[c].agent = commands[c].agent
    /\ \A c \in DOMAIN commands' :
          c \notin DOMAIN commands /\ commands'[c].kind \in {"stop", "delete"}
             => commands'[c].agent \in DOMAIN agents

\* BirthOK survives what lists no new Agent and takes no directory away.
LEMMA BirthFrame ==
    ASSUME Shape, BirthOK, KeepRuns, KeepCommands,
           DOMAIN agents' \subseteq DOMAIN agents,
           workspaces \cup archived \subseteq workspaces' \cup archived',
           \A a \in AgentIds : Holds(queue', CreateOp(a)) =>
               Holds(queue, CreateOp(a)) /\ (a \in workspaces => a \in workspaces'),
           \A r \in RunIds : executions[r].stage \in {"sending", "rejected"} =>
               \/ executions'[r].stage \in {"sending", "rejected"}
               \/ AgentOf(r) \in DOMAIN agents
    PROVE  BirthOK'
  <1>1. DOMAIN agents \subseteq workspaces \cup archived
    BY DEF BirthOK
  <1>2. ASSUME NEW a \in AgentIds, Holds(queue', CreateOp(a))
        PROVE  /\ a \in workspaces' /\ a \notin DOMAIN agents'
               /\ \A c \in DOMAIN commands' :
                     commands'[c].kind \in {"stop", "delete"} => commands'[c].agent # a
               /\ \A r \in RunIds' :
                     executions'[r].agent = a => executions'[r].stage \in {"sending", "rejected"}
    <2>1. /\ a \in workspaces /\ a \notin DOMAIN agents
          /\ \A c \in DOMAIN commands :
                commands[c].kind \in {"stop", "delete"} => commands[c].agent # a
          /\ \A r \in RunIds : AgentOf(r) = a => executions[r].stage \in {"sending", "rejected"}
          /\ a \in workspaces'
      BY <1>2 DEF BirthOK
    <2>2. \A c \in DOMAIN commands' :
             commands'[c].kind \in {"stop", "delete"} => commands'[c].agent # a
      BY <2>1 DEF KeepCommands
    <2>3. ASSUME NEW r \in RunIds', executions'[r].agent = a
          PROVE  executions'[r].stage \in {"sending", "rejected"}
      BY <2>1, <2>3 DEF KeepRuns, AgentOf
    <2>4. QED
      BY <2>1, <2>2, <2>3
  <1>3. \A c \in DOMAIN commands' :
           commands'[c].kind \in {"stop", "delete"} =>
              commands'[c].agent \in workspaces' \cup archived'
    BY <1>1 DEF KeepCommands, BirthOK
  <1>4. ASSUME NEW r \in RunIds', executions'[r].stage \notin {"sending", "rejected"}
        PROVE  executions'[r].agent \in workspaces' \cup archived'
    <2>1. r \in RunIds /\ executions'[r].agent = AgentOf(r)
      BY <1>4 DEF KeepRuns, AgentOf
    <2>2. AgentOf(r) \in workspaces \cup archived
      BY <1>1, <1>4, <2>1 DEF BirthOK
    <2>3. QED
      BY <2>1, <2>2
  <1>5. QED
    BY <1>1, <1>2, <1>3, <1>4 DEF BirthOK, AgentOf

\* RunsOK survives what writes neither Agents nor Runs.
LEMMA RunsFrame ==
    ASSUME Shape, RunsOK, KeepRuns, agents' = agents, runs' = runs,
           \A r \in RunIds :
               \/ executions'[r].stage = executions[r].stage
               \/ executions[r].stage \in UnderWay /\ executions'[r].stage \in UnderWay
               \/ executions'[r].stage = "rejected"
    PROVE  RunsOK'
  <1>1. DOMAIN runs \subseteq RunIds
    BY DEF Shape
  <1>2. ASSUME NEW r \in RunIds'
        PROVE  /\ executions'[r].stage = "sending" => r \notin DOMAIN runs
               /\ executions'[r].stage \in UnderWay /\ executions'[r].agent \in DOMAIN agents
                     => r \in DOMAIN runs
    <2>1. CASE r \in RunIds
      <3>1. executions'[r].stage = "sending" => executions[r].stage = "sending"
        BY <2>1 DEF UnderWay
      <3>2. executions'[r].stage \in UnderWay => executions[r].stage \in UnderWay
        BY <2>1 DEF UnderWay
      <3>3. executions'[r].agent = AgentOf(r)
        BY <2>1 DEF KeepRuns, AgentOf
      <3>4. QED
        BY <2>1, <3>1, <3>2, <3>3 DEF RunsOK
    <2>2. CASE r \notin RunIds
      BY <1>1, <2>2 DEF KeepRuns, UnderWay
    <2>3. QED
      BY <2>1, <2>2
  <1>3. ASSUME NEW r \in DOMAIN runs
        PROVE  /\ executions'[r].agent = AgentOf(r) /\ AgentOf(r) \in DOMAIN agents
               /\ executions'[r].stage \in UnderWay => runs[r] \in ActiveStatuses
               /\ executions'[r].stage = "done" => runs[r] \notin ActiveStatuses
    <2>1. r \in RunIds
      BY <1>1
    <2>2. executions'[r].agent = AgentOf(r) /\ AgentOf(r) \in DOMAIN agents
      BY <2>1 DEF KeepRuns, AgentOf, RunsOK
    <2>3. executions'[r].stage \in UnderWay => executions[r].stage \in UnderWay
      BY <2>1 DEF UnderWay
    <2>4. executions'[r].stage = "done" => executions[r].stage = "done"
      BY <2>1 DEF UnderWay
    <2>5. QED
      BY <2>2, <2>3, <2>4 DEF RunsOK
  <1>4. \A a \in DOMAIN agents : agents[a] = "busy" =>
           \E r \in DOMAIN runs : executions'[r].agent = a /\ runs[r] \in ActiveStatuses
    BY <1>1, <1>3 DEF RunsOK
  <1>5. QED
    BY <1>2, <1>3, <1>4 DEF RunsOK, AgentOf

\* CommandsOK survives what touches no command.
LEMMA CommandsFrame ==
    ASSUME Shape, CommandsOK, KeepRuns, KeepCommands, commands' = commands
    PROVE  CommandsOK'
  BY DEF CommandsOK, KeepRuns, AgentOf

\* A step that moves one execution keeps Runs and commands what they are.
LEMMA MovesKeeps ==
    ASSUME Shape, NEW r \in RunIds, NEW stage, Moves(r, stage)
    PROVE  KeepRuns /\ \A x \in RunIds : executions'[x].stage
                              = IF x = r THEN stage ELSE executions[x].stage
  BY DEF Moves, KeepRuns

\* Commands that do not change stay what they are.
LEMMA SameCommands ==
    ASSUME commands' = commands
    PROVE  KeepCommands
  BY DEF KeepCommands

-----------------------------------------------------------------------------
(* The steps of a Run outside the store. *)

\* A Run queues its next mutation.
LEMMA QueueRunOp ==
    ASSUME ServiceInv, NEW r \in RunIds, executions[r].stage \notin InStore,
           NEW stage \in InStore, Moves(r, stage),
           queue' = Append(queue, RunOp(r)), commands' = commands
    PROVE  /\ queue' \in Seq(Op) /\ QueueOK'
           /\ \A a : Holds(queue', CreateOp(a)) <=> Holds(queue, CreateOp(a))
  <1>1. /\ queue \in Seq(Op) /\ Distinct(queue) /\ r \in Nat
        /\ ~Holds(queue, RunOp(r)) /\ RunOp(r) \in Op
    BY Indexes, OpsDiffer DEF ServiceInv, Shape, QueueOK
  <1>2. /\ queue' \in Seq(Op) /\ Distinct(queue')
        /\ \A y : Holds(queue', y) <=> Holds(queue, y) \/ y = RunOp(r)
    BY <1>1, AppendHolds
  <1>3. /\ RunIds' = RunIds
        /\ \A x \in RunIds : executions'[x].stage = IF x = r THEN stage ELSE executions[x].stage
    BY MovesKeeps DEF ServiceInv, Moves
  <1>4. ASSUME NEW x \in Nat
        PROVE  Holds(queue', RunOp(x)) <=> x \in RunIds' /\ executions'[x].stage \in InStore
    <2>1. Holds(queue', RunOp(x)) <=> Holds(queue, RunOp(x)) \/ x = r
      BY <1>2, OpsDiffer
    <2>2. Holds(queue, RunOp(x)) <=> x \in RunIds /\ executions[x].stage \in InStore
      BY DEF ServiceInv, QueueOK
    <2>3. QED
      BY <1>3, <2>1, <2>2
  <1>5. ASSUME NEW c \in Nat
        PROVE  Holds(queue', CommandOp(c))
                  <=> c \in DOMAIN commands' /\ commands'[c].wait = "storing"
    BY <1>2, OpsDiffer DEF ServiceInv, QueueOK
  <1>6. QED
    BY <1>2, <1>4, <1>5, OpsDiffer DEF QueueOK

\* Nothing is queued, and nobody's next mutation is another.
LEMMA QueueStill ==
    ASSUME ServiceInv, KeepRuns, RunIds' = RunIds,
           \A r \in RunIds : executions'[r].stage \in InStore <=> executions[r].stage \in InStore,
           queue' = queue, commands' = commands
    PROVE  queue' \in Seq(Op) /\ QueueOK'
  BY DEF ServiceInv, Shape, QueueOK

\* What moves one execution and touches nothing that is stored keeps the invariant.
LEMMA RunStepKeeps ==
    ASSUME ServiceInv, NEW r \in RunIds, NEW stage, Moves(r, stage),
           UNCHANGED <<agents, runs, workspaces, archived, active, flags, commands, restarts>>,
           queue' \in Seq(Op), QueueOK',
           \A a : Holds(queue', CreateOp(a)) => Holds(queue, CreateOp(a)),
           (executions[r].stage \in UnderWay /\ stage \in UnderWay) \/ stage = "rejected"
    PROVE  ServiceInv'
  <1>1. Shape /\ KeepRuns /\ KeepCommands
    BY MovesKeeps, SameCommands DEF ServiceInv
  <1>2. \A x \in RunIds : executions'[x].stage = IF x = r THEN stage ELSE executions[x].stage
    BY <1>1, MovesKeeps
  <1>3. Shape'
    BY <1>1 DEF Shape, Moves
  <1>4. CommandsOK'
    BY <1>1, CommandsFrame DEF ServiceInv
  <1>5. RunsOK'
    BY <1>1, <1>2, RunsFrame DEF ServiceInv
  <1>6. BirthOK'
    <2>1. \A x \in RunIds : executions[x].stage \in {"sending", "rejected"} =>
             executions'[x].stage \in {"sending", "rejected"}
      BY <1>2 DEF UnderWay
    <2>2. QED
      BY <1>1, <2>1, BirthFrame DEF ServiceInv
  <1>7. QED
    BY <1>3, <1>4, <1>5, <1>6 DEF ServiceInv

\* The Run goes on to a stage in which nothing of it is queued.
LEMMA RunGoesOn ==
    ASSUME ServiceInv, NEW r \in RunIds, NEW stage, Moves(r, stage),
           UNCHANGED <<agents, runs, workspaces, archived, active, flags, commands, restarts>>,
           queue' = queue,
           executions[r].stage \in UnderWay \ InStore, stage \in UnderWay \ InStore
    PROVE  ServiceInv'
  <1>1. KeepRuns /\ RunIds' = RunIds
        /\ \A x \in RunIds : executions'[x].stage = IF x = r THEN stage ELSE executions[x].stage
    BY MovesKeeps DEF ServiceInv, Moves
  <1>2. \A x \in RunIds :
           executions'[x].stage \in InStore <=> executions[x].stage \in InStore
    BY <1>1
  <1>3. queue' \in Seq(Op) /\ QueueOK'
    BY <1>1, <1>2, QueueStill
  <1>4. QED
    BY <1>3, RunStepKeeps

\* The Run queues its result.
LEMMA ResultQueued ==
    ASSUME ServiceInv, NEW r \in RunIds, NEW outcome \in Outcomes,
           executions[r].stage \in UnderWay \ InStore, QueueResult(r, outcome),
           UNCHANGED <<agents, runs, workspaces, archived, active, flags, commands, restarts>>
    PROVE  ServiceInv'
  <1>1. /\ executions' = [executions EXCEPT ![r].stage = "settling", ![r].outcome = outcome]
        /\ queue' = Append(queue, RunOp(r))
    BY DEF QueueResult
  <1>2. Moves(r, "settling")
    <2>1. Shape /\ "settling" \in Stages
      BY DEF ServiceInv, Stages
    <2>2. QED
      BY <1>1, <2>1, StageMoves
  <1>3. /\ queue' \in Seq(Op) /\ QueueOK'
        /\ \A a : Holds(queue', CreateOp(a)) <=> Holds(queue, CreateOp(a))
    BY <1>1, <1>2, QueueRunOp DEF InStore
  <1>4. KeepRuns
        /\ \A x \in RunIds : executions'[x].stage
                 = IF x = r THEN "settling" ELSE executions[x].stage
    BY <1>2, MovesKeeps DEF ServiceInv
  <1>5. QED
    BY <1>2, <1>3, RunStepKeeps DEF UnderWay

\* beginRun answers: the container starts, is refused, or the Run fails.
LEMMA BeginRunAnsweredStep ==
    ASSUME ServiceInv, NEW r \in RunIds, BeginRunAnswered(r)
    PROVE  ServiceInv'
  <1>1. /\ executions[r].stage = "minting"
        /\ UNCHANGED <<agents, runs, workspaces, archived, active, flags, commands, restarts>>
        /\ executions[r].stage \in UnderWay \ InStore
        /\ Shape
    BY DEF BeginRunAnswered, UnderWay, InStore, ServiceInv
  <1>2. CASE QueueResult(r, "failed")
    BY <1>1, <1>2, ResultQueued DEF Outcomes
  <1>3. CASE /\ Containers(AgentOf(r)) = {}
             /\ executions' = [executions EXCEPT ![r].stage = "running",
                                                 ![r].container = "starting"]
             /\ queue' = queue
    <2>1. Moves(r, "running")
      BY <1>1, <1>3, ContainerMoves DEF Stages, Outcomes, ContainerStates
    <2>2. QED
      BY <1>1, <1>3, <2>1, RunGoesOn DEF UnderWay, InStore
  <1>4. CASE /\ executions' = [executions EXCEPT ![r].stage = "ending", ![r].outcome = "failed"]
             /\ queue' = queue
    <2>1. Moves(r, "ending")
      BY <1>1, <1>4, StageMoves DEF Stages, Outcomes
    <2>2. KeepRuns /\ \A x \in RunIds : executions'[x].stage
                           = IF x = r THEN "ending" ELSE executions[x].stage
      BY <1>1, <2>1, MovesKeeps
    <2>3. QED
      BY <1>1, <1>4, <2>1, RunGoesOn DEF UnderWay, InStore
  <1>5. QED
    BY <1>2, <1>3, <1>4 DEF BeginRunAnswered

\* The container comes up, or its removal is asked for.
LEMMA ContainerMovesStep ==
    ASSUME ServiceInv, NEW r \in RunIds, ContainerStarts(r) \/ RuntimeTimesOut(r)
    PROVE  ServiceInv'
  <1>1. /\ executions[r].stage = "running"
        /\ UNCHANGED <<agents, runs, workspaces, archived, active, flags, commands, restarts>>
        /\ queue' = queue /\ Shape
    BY DEF ContainerStarts, RuntimeTimesOut, ServiceInv
  <1>2. PICK container \in ContainerStates :
           executions' = [executions EXCEPT ![r].container = container]
    <2>1. executions[r].container \in ContainerStates /\ "up" \in ContainerStates
      BY <1>1, Indexes DEF Execution, ContainerStates
    <2>2. QED
      BY <2>1, RemovalType DEF ContainerStarts, RuntimeTimesOut
  <1>3. Moves(r, "running")
    BY <1>1, <1>2, ContainerMoves DEF Stages, Outcomes
  <1>4. QED
    BY <1>1, <1>3, RunGoesOn DEF UnderWay, InStore

\* The container exits.
LEMMA ContainerExitsStep ==
    ASSUME ServiceInv, NEW r \in RunIds, ContainerExits(r)
    PROVE  ServiceInv'
  <1>1. /\ executions[r].stage = "running"
        /\ UNCHANGED <<agents, runs, workspaces, archived, active, flags, commands, restarts>>
        /\ queue' = queue /\ Shape
    BY DEF ContainerExits, ServiceInv
  <1>2. PICK outcome \in Outcomes :
           executions' = [executions EXCEPT ![r].stage = "ending", ![r].outcome = outcome,
                                            ![r].container = "none"]
    BY DEF ContainerExits, Ends, Outcomes
  <1>3. Moves(r, "ending")
    BY <1>1, <1>2, ContainerMoves DEF Stages, ContainerStates
  <1>4. QED
    BY <1>1, <1>3, RunGoesOn DEF UnderWay, InStore

\* endRun answers, and the result is queued.
LEMMA EndRunAnsweredStep ==
    ASSUME ServiceInv, NEW r \in RunIds, EndRunAnswered(r)
    PROVE  ServiceInv'
  <1>1. /\ executions[r].stage \in UnderWay \ InStore
        /\ UNCHANGED <<agents, runs, workspaces, archived, active, flags, commands, restarts>>
    BY DEF EndRunAnswered, UnderWay, InStore
  <1>2. executions[r].outcome \in Outcomes /\ "failed" \in Outcomes
    BY Indexes DEF ServiceInv, Execution, Outcomes
  <1>3. QED
    BY <1>1, <1>2, ResultQueued DEF EndRunAnswered

-----------------------------------------------------------------------------
(* Clients. *)

\* createAgent makes the directory and queues the row.
LEMMA CreateAgentStep ==
    ASSUME ServiceInv, NEW a \in AgentIds, CreateAgent(a)
    PROVE  ServiceInv'
  <1>1. /\ a \notin workspaces \cup archived
        /\ workspaces' = workspaces \cup {a}
        /\ queue' = Append(queue, CreateOp(a))
        /\ UNCHANGED <<agents, runs, archived, executions, active, flags, commands, restarts>>
    BY DEF CreateAgent
  <1>2. Shape /\ QueueOK /\ BirthOK
    BY DEF ServiceInv
  <1>3. ~Holds(queue, CreateOp(a))
    BY <1>1, <1>2 DEF BirthOK
  <1>4. /\ queue' \in Seq(Op) /\ Distinct(queue')
        /\ \A y : Holds(queue', y) <=> Holds(queue, y) \/ y = CreateOp(a)
    BY <1>1, <1>2, <1>3, OpsDiffer, AppendHolds DEF Shape, QueueOK
  <1>5. Shape'
    BY <1>1, <1>2, <1>4 DEF Shape, RunIds
  <1>6. QueueOK'
    BY <1>1, <1>2, <1>4, OpsDiffer DEF QueueOK, RunIds
  <1>7. RunIds' = RunIds /\ KeepRuns /\ KeepCommands
    BY <1>1 DEF RunIds, KeepRuns, KeepCommands
  <1>8. CommandsOK' /\ RunsOK'
    BY <1>1, <1>2, <1>7, CommandsFrame, RunsFrame DEF ServiceInv
  <1>9. BirthOK'
    <2>1. ASSUME NEW b \in AgentIds, Holds(queue', CreateOp(b))
          PROVE  /\ b \in workspaces' /\ b \notin DOMAIN agents
                 /\ \A c \in DOMAIN commands :
                       commands[c].kind \in {"stop", "delete"} => commands[c].agent # b
                 /\ \A r \in RunIds :
                       AgentOf(r) = b => executions[r].stage \in {"sending", "rejected"}
      <3>1. CASE b = a
        <4>1. b \in workspaces' /\ b \notin DOMAIN agents
          BY <1>1, <1>2, <3>1 DEF BirthOK
        <4>2. \A c \in DOMAIN commands :
                 commands[c].kind \in {"stop", "delete"} => commands[c].agent # b
          BY <1>1, <1>2, <3>1 DEF BirthOK
        <4>3. ASSUME NEW r \in RunIds, AgentOf(r) = b
              PROVE  executions[r].stage \in {"sending", "rejected"}
          BY <1>1, <1>2, <3>1, <4>3 DEF BirthOK
        <4>4. QED
          BY <4>1, <4>2, <4>3
      <3>2. CASE b # a
        BY <1>1, <1>2, <1>4, <2>1, <3>2, OpsDiffer DEF BirthOK
      <3>3. QED
        BY <3>1, <3>2
    <2>2. QED
      BY <1>1, <1>2, <1>7, <2>1 DEF BirthOK, AgentOf
  <1>10. QED
    BY <1>5, <1>6, <1>8, <1>9 DEF ServiceInv

\* sendMessage queues the insertion of a new Run.
LEMMA SendMessageStep ==
    ASSUME ServiceInv, NEW a \in AgentIds, SendMessage(a)
    PROVE  ServiceInv'
  <1> DEFINE r == Len(executions) + 1
             new == [agent |-> a, stage |-> "sending", outcome |-> "none", cancelled |-> FALSE,
                    container |-> "none"]
  <1>1. /\ Len(executions) < MaxRuns
        /\ executions' = Append(executions, new)
        /\ queue' = Append(queue, RunOp(r))
        /\ UNCHANGED <<agents, runs, workspaces, archived, active, flags, commands, restarts>>
    BY DEF SendMessage
  <1>2. Shape /\ QueueOK /\ BirthOK
    BY DEF ServiceInv
  <1>3. /\ executions \in Seq(Execution) /\ Len(executions) \in Nat /\ MaxRuns \in Nat
        /\ RunIds = 1 .. Len(executions)
    BY <1>2, Indexes DEF Shape
  <1>4. new \in Execution
    BY DEF Execution, Stages, Outcomes, ContainerStates
  <1> HIDE DEF new
  <1>5. /\ executions' \in Seq(Execution) /\ Len(executions') = r /\ r <= MaxRuns
        /\ RunIds' = 1 .. r /\ r \in Nat
        /\ \A x \in RunIds : executions'[x] = executions[x]
        /\ executions'[r] = new
    BY <1>1, <1>3, <1>4 DEF RunIds
  <1>6. /\ \A x \in RunIds' : x \in RunIds \/ x = r
        /\ RunIds \subseteq RunIds' /\ r \notin RunIds /\ r \in RunIds'
    BY <1>3, <1>5
  <1>7. new.stage = "sending" /\ new.agent = a
    BY DEF new
  <1> HIDE DEF r
  <1>8. KeepRuns /\ KeepCommands
    BY <1>1, <1>5, <1>6, <1>7 DEF KeepRuns, KeepCommands
  <1>9. ~Holds(queue, RunOp(r)) /\ RunOp(r) \in Op
    BY <1>2, <1>5, <1>6, OpsDiffer DEF QueueOK
  <1>10. /\ queue' \in Seq(Op) /\ Distinct(queue')
         /\ \A y : Holds(queue', y) <=> Holds(queue, y) \/ y = RunOp(r)
    BY <1>1, <1>2, <1>9, AppendHolds DEF Shape, QueueOK
  <1>11. Shape'
    <2>1. active' \in [AgentIds -> {0} \cup RunIds'] /\ DOMAIN runs' \subseteq RunIds'
      BY <1>1, <1>2, <1>6 DEF Shape
    <2>2. QED
      BY <1>1, <1>2, <1>5, <1>10, <2>1 DEF Shape
  <1>12. QueueOK'
    <2>1. ASSUME NEW x \in Nat
          PROVE  Holds(queue', RunOp(x)) <=> x \in RunIds' /\ executions'[x].stage \in InStore
      <3>1. Holds(queue', RunOp(x)) <=> Holds(queue, RunOp(x)) \/ x = r
        BY <1>10, OpsDiffer
      <3>2. Holds(queue, RunOp(x)) <=> x \in RunIds /\ executions[x].stage \in InStore
        BY <1>2 DEF QueueOK
      <3>3. QED
        BY <1>5, <1>6, <1>7, <3>1, <3>2 DEF InStore
    <2>2. \A c \in Nat : Holds(queue', CommandOp(c))
                            <=> c \in DOMAIN commands' /\ commands'[c].wait = "storing"
      BY <1>1, <1>2, <1>10, OpsDiffer DEF QueueOK
    <2>3. QED
      BY <1>10, <2>1, <2>2 DEF QueueOK
  <1>13. CommandsOK' /\ RunsOK'
    BY <1>1, <1>2, <1>5, <1>8, CommandsFrame, RunsFrame DEF ServiceInv
  <1>14. BirthOK'
    <2>1. \A b : Holds(queue', CreateOp(b)) => Holds(queue, CreateOp(b))
      BY <1>10, OpsDiffer
    <2>2. QED
      BY <1>1, <1>2, <1>5, <1>8, <2>1, BirthFrame
  <1>15. QED
    BY <1>11, <1>12, <1>13, <1>14 DEF ServiceInv

-----------------------------------------------------------------------------
(* Commands. *)

\* No execution moves; at most it is marked as cancelled.
SameStages ==
    /\ executions' \in Seq(Execution)
    /\ Len(executions') = Len(executions)
    /\ RunIds' = RunIds
    /\ \A x \in RunIds : /\ executions'[x].agent = executions[x].agent
                         /\ executions'[x].stage = executions[x].stage

\* One command more, which queues its mutation or does not.
LEMMA NewCommandStep ==
    ASSUME ServiceInv, SameStages,
           UNCHANGED <<agents, runs, workspaces, archived, active, restarts>>,
           flags' \subseteq AgentIds,
           NEW new \in CommandRecord,
           commands' \in Seq(CommandRecord), Len(commands') = Len(commands) + 1,
           \A c \in DOMAIN commands : commands'[c] = commands[c],
           commands'[Len(commands) + 1] = new,
           new.kind \in Kinds,
           new.kind \in {"stop", "delete"} => new.agent \in DOMAIN agents,
           new.wait = "archiving" => new.kind = "delete",
           new.wait = "storing" => new.kind \in {"start", "stop", "delete"},
           queue' \in Seq(Op), Distinct(queue'),
           \A y : Holds(queue', y) <=>
                     Holds(queue, y) \/ (y = CommandOp(Len(commands) + 1) /\ new.wait = "storing")
    PROVE  ServiceInv'
  <1> DEFINE n == Len(commands) + 1
  <1>1. Shape /\ QueueOK /\ CommandsOK
    BY DEF ServiceInv
  <1>2. /\ DOMAIN commands = 1 .. Len(commands) /\ Len(commands) \in Nat
        /\ DOMAIN commands' = 1 .. n /\ n \in Nat
    BY <1>1, Indexes
  <1>3. /\ \A c \in DOMAIN commands' : c \in DOMAIN commands \/ c = n
        /\ DOMAIN commands \subseteq DOMAIN commands' /\ n \notin DOMAIN commands
        /\ n \in DOMAIN commands' /\ commands'[n] = new
    BY <1>2
  <1> HIDE DEF n
  <1>4. KeepRuns
    BY DEF SameStages, KeepRuns
  <1>5. KeepCommands
    BY <1>3 DEF KeepCommands
  <1>6. Shape'
    BY <1>1 DEF Shape, SameStages
  <1>7. QueueOK'
    <2>1. ASSUME NEW r \in Nat
          PROVE  Holds(queue', RunOp(r)) <=> r \in RunIds' /\ executions'[r].stage \in InStore
      <3>1. Holds(queue', RunOp(r)) <=> Holds(queue, RunOp(r))
        <4>1. RunOp(r) # CommandOp(n)
          BY <1>2, OpsDiffer
        <4>2. QED
          BY <4>1 DEF n
      <3>2. Holds(queue, RunOp(r)) <=> r \in RunIds /\ executions[r].stage \in InStore
        BY <1>1 DEF QueueOK
      <3>3. r \in RunIds => executions'[r].stage = executions[r].stage
        BY DEF SameStages
      <3>4. RunIds' = RunIds
        BY DEF SameStages
      <3>5. QED
        BY <3>1, <3>2, <3>3, <3>4
    <2>2. ASSUME NEW c \in Nat
          PROVE  Holds(queue', CommandOp(c))
                    <=> c \in DOMAIN commands' /\ commands'[c].wait = "storing"
      <3>1. Holds(queue', CommandOp(c))
               <=> Holds(queue, CommandOp(c)) \/ (c = n /\ new.wait = "storing")
        BY OpsDiffer DEF n
      <3>2. Holds(queue, CommandOp(c)) <=> c \in DOMAIN commands /\ commands[c].wait = "storing"
        BY <1>1 DEF QueueOK
      <3>3. QED
        BY <1>3, <3>1, <3>2
    <2>3. QED
      BY <2>1, <2>2 DEF QueueOK
  <1>8. CommandsOK'
    <2>1. \A c \in DOMAIN commands' : c \in DOMAIN commands => commands'[c] = commands[c]
      OBVIOUS
    <2>2. QED
      BY <1>1, <1>3, <2>1 DEF CommandsOK
  <1>9. RunsOK'
    BY <1>1, <1>4, RunsFrame DEF ServiceInv, SameStages
  <1>10. BirthOK'
    <2>1. \A b : Holds(queue', CreateOp(b)) => Holds(queue, CreateOp(b))
      BY OpsDiffer
    <2>2. QED
      BY <1>1, <1>4, <1>5, <2>1, BirthFrame DEF ServiceInv, SameStages
  <1>11. QED
    BY <1>6, <1>7, <1>8, <1>9, <1>10 DEF ServiceInv

\* A new command that has nothing to queue.
LEMMA QuietCommandStep ==
    ASSUME ServiceInv, SameStages,
           UNCHANGED <<agents, runs, workspaces, archived, active, restarts, queue>>,
           flags' \subseteq AgentIds,
           NEW new \in CommandRecord, commands' = Append(commands, new),
           new.kind \in Kinds,
           new.kind \in {"stop", "delete"} => new.agent \in DOMAIN agents,
           new.wait \notin {"archiving", "storing"}
    PROVE  ServiceInv'
  <1>1. /\ commands \in Seq(CommandRecord) /\ queue \in Seq(Op) /\ Distinct(queue)
    BY DEF ServiceInv, Shape, QueueOK
  <1>2. /\ commands' \in Seq(CommandRecord) /\ Len(commands') = Len(commands) + 1
        /\ \A c \in DOMAIN commands : commands'[c] = commands[c]
        /\ commands'[Len(commands) + 1] = new
    BY <1>1
  <1>3. queue' \in Seq(Op) /\ Distinct(queue') /\ \A y : Holds(queue', y) <=> Holds(queue, y)
    BY <1>1
  <1>4. QED
    BY <1>2, <1>3, NewCommandStep

\* The record of a new command.
LEMMA NewCommandType ==
    ASSUME NEW kind \in Kinds, NEW a \in AgentIds, NEW r \in 0 .. MaxRuns,
           NEW wait \in Waits, NEW on \in 0 .. MaxRuns
    PROVE  LET new == NewCommand(kind, a, r, wait, on)
           IN  /\ new \in CommandRecord
               /\ new.kind = kind /\ new.agent = a /\ new.wait = wait
  BY AgentServiceAssumption DEF NewCommand, CommandRecord

\* Executions that do not change keep their stages.
LEMMA StillStages ==
    ASSUME Shape, executions' = executions
    PROVE  SameStages
  BY DEF Shape, SameStages, RunIds

\* startAgent queues its mutation.
LEMMA StartAgentStep ==
    ASSUME ServiceInv, NEW a \in AgentIds, StartAgent(a), "start" \in Kinds,
           UNCHANGED <<agents, runs, workspaces, archived, active, restarts>>
    PROVE  ServiceInv'
  <1> DEFINE new == NewCommand("start", a, 0, "storing", 0)
             n == Len(commands) + 1
  <1>1. /\ commands' = Append(commands, new) /\ queue' = Append(queue, CommandOp(n))
        /\ UNCHANGED <<executions, flags>>
    BY DEF StartAgent
  <1>2. Shape /\ QueueOK /\ Len(commands) \in Nat /\ DOMAIN commands = 1 .. Len(commands)
    BY Indexes DEF ServiceInv
  <1>3. new \in CommandRecord /\ new.kind = "start" /\ new.wait = "storing"
    <2>1. 0 \in 0 .. MaxRuns /\ "storing" \in Waits
      BY AgentServiceAssumption DEF Waits
    <2>2. QED
      BY <2>1, NewCommandType
  <1> HIDE DEF new
  <1>4. /\ commands' \in Seq(CommandRecord) /\ Len(commands') = n
        /\ \A c \in DOMAIN commands : commands'[c] = commands[c]
        /\ commands'[n] = new
    BY <1>1, <1>2, <1>3 DEF Shape
  <1>5. ~Holds(queue, CommandOp(n)) /\ CommandOp(n) \in Op
    BY <1>2, OpsDiffer DEF QueueOK
  <1>6. /\ queue' \in Seq(Op) /\ Distinct(queue')
        /\ \A y : Holds(queue', y) <=> Holds(queue, y) \/ y = CommandOp(n)
    BY <1>1, <1>2, <1>5, AppendHolds DEF Shape, QueueOK
  <1>7. SameStages /\ flags' \subseteq AgentIds
    BY <1>1, <1>2, StillStages DEF Shape
  <1>8. QED
    BY <1>3, <1>4, <1>6, <1>7, NewCommandStep

\* A cancellation moves no execution.
LEMMA CancelsStages ==
    ASSUME Shape, NEW up \in RunIds, Cancels(up)
    PROVE  SameStages
  <1>1. executions[up] \in Execution /\ RunIds' = RunIds'
    BY Indexes
  <1>2. PICK k \in ContainerStates :
           executions' = [executions EXCEPT ![up].cancelled = TRUE, ![up].container = k]
    <2>1. Removal(executions[up].container) \subseteq ContainerStates
      BY <1>1, RemovalType DEF Execution
    <2>2. QED
      BY <2>1 DEF Cancels
  <1> DEFINE e == [executions[up] EXCEPT !.cancelled = TRUE, !.container = k]
  <1>3. e \in Execution /\ e.agent = executions[up].agent /\ e.stage = executions[up].stage
    BY <1>1 DEF Execution
  <1>4. executions' = [executions EXCEPT ![up] = e]
    BY <1>1, <1>2 DEF Execution
  <1> HIDE DEF e
  <1>5. Moves(up, executions[up].stage)
    BY <1>3, <1>4, RecordMoves
  <1>6. QED
    BY <1>5 DEF Moves, SameStages

\* The three ways of cancelExecution: a container to wait for, an execution, or nothing.
LEMMA CancelExecutionStep ==
    ASSUME ServiceInv, NEW kind \in Kinds, NEW a \in AgentIds, NEW r \in 0 .. MaxRuns,
           CancelExecution(kind, a, r),
           kind \in {"stop", "delete"} => a \in DOMAIN agents,
           kind \in {"stop", "delete", "revoke"},
           UNCHANGED <<agents, runs, workspaces, archived, active, restarts>>
    PROVE  ServiceInv'
  <1>1. /\ Shape /\ QueueOK /\ Len(commands) \in Nat /\ DOMAIN commands = 1 .. Len(commands)
        /\ commands \in Seq(CommandRecord) /\ queue \in Seq(Op) /\ Distinct(queue)
        /\ flags \subseteq AgentIds
    BY Indexes DEF ServiceInv, Shape, QueueOK
  <1>2. /\ \A x \in RunIds : x \in 0 .. MaxRuns
        /\ 0 \in 0 .. MaxRuns /\ active[a] \in 0 .. MaxRuns
        /\ {"terminating", "joining"} \subseteq Waits
    BY <1>1, Indexes, AgentServiceAssumption DEF Shape, Waits
  <1>3. CASE \E up \in Containers(a) :
                /\ Cancels(up)
                /\ commands' = Append(commands, NewCommand(kind, a, r, "terminating", up))
                /\ flags' = flags \cup {a}
                /\ UNCHANGED queue
    <2>1. PICK up \in Containers(a) :
             /\ Cancels(up)
             /\ commands' = Append(commands, NewCommand(kind, a, r, "terminating", up))
             /\ flags' = flags \cup {a}
             /\ UNCHANGED queue
      BY <1>3
    <2>2. up \in RunIds
      BY DEF Containers
    <2> DEFINE new == NewCommand(kind, a, r, "terminating", up)
    <2>3. new \in CommandRecord /\ new.kind = kind /\ new.agent = a /\ new.wait = "terminating"
      BY <1>2, <2>2, NewCommandType
    <2> HIDE DEF new
    <2>4. SameStages
      BY <1>1, <2>1, <2>2, CancelsStages
    <2>5. QED
      BY <1>1, <2>1, <2>3, <2>4, QuietCommandStep DEF new
  <1>4. CASE /\ commands' = Append(commands, NewCommand(kind, a, r, "joining", active[a]))
             /\ flags' = flags \cup {a}
             /\ UNCHANGED <<executions, queue>>
    <2> DEFINE new == NewCommand(kind, a, r, "joining", active[a])
    <2>1. new \in CommandRecord /\ new.kind = kind /\ new.agent = a /\ new.wait = "joining"
      BY <1>2, NewCommandType
    <2> HIDE DEF new
    <2>2. SameStages
      BY <1>1, <1>4, StillStages
    <2>3. QED
      BY <1>1, <1>4, <2>1, <2>2, QuietCommandStep DEF new
  <1>5. ASSUME NEW c, NEW all, c = Len(commands) + 1,
               all = Append(commands, NewCommand(kind, a, r, "joining", 0)),
               commands' = Released(all, {c}, TRUE),
               queue' = queue \o StopOps(all, {c}),
               flags' = flags \ {a},
               executions' = executions
        PROVE  ServiceInv'
    <2> DEFINE new == NewCommand(kind, a, r, "joining", 0)
    <2>1. new \in CommandRecord /\ new.kind = kind /\ new.agent = a
      BY <1>2, NewCommandType
    <2> HIDE DEF new
    <2>2. /\ all \in Seq(CommandRecord) /\ Len(all) = c /\ DOMAIN all = 1 .. c /\ c \in Nat
          /\ \A x \in DOMAIN commands : all[x] = commands[x] /\ x # c /\ x \in DOMAIN all
          /\ all[c] = new /\ c \in DOMAIN all /\ {c} \in SUBSET DOMAIN all
      BY <1>1, <1>5, <2>1 DEF new
    <2>3. /\ commands' \in Seq(CommandRecord) /\ Len(commands') = c
          /\ \A x \in DOMAIN all :
                /\ commands'[x].kind = all[x].kind /\ commands'[x].agent = all[x].agent
                /\ x \notin {c} => commands'[x] = all[x]
                /\ x \in {c} => commands'[x].wait = AfterCancel(all[x].kind)
      <3>1. \E R, joined : R = {c} /\ joined = TRUE
        OBVIOUS
      <3>2. PICK R, joined : R = {c} /\ joined = TRUE
        BY <3>1
      <3> DEFINE out == Released(all, R, joined)
      <3>3. R \in SUBSET DOMAIN all /\ joined \in BOOLEAN
        BY <2>2, <3>2
      <3>4. /\ out \in Seq(CommandRecord) /\ Len(out) = Len(all)
            /\ \A x \in DOMAIN all :
                  /\ out[x].kind = all[x].kind /\ out[x].agent = all[x].agent
                  /\ x \notin R => out[x] = all[x]
                  /\ x \in R => out[x].wait = IF joined THEN AfterCancel(all[x].kind) ELSE "done"
        BY <2>2, <3>3, ReleasedCommands
      <3>5. commands' = out
        BY <1>5, <3>2
      <3> HIDE DEF out
      <3>6. QED
        BY <2>2, <3>2, <3>4, <3>5
    <2> DEFINE last == commands'[c]
    <2>4. /\ last \in CommandRecord /\ last.kind = kind /\ last.agent = a
          /\ last.wait = AfterCancel(kind)
          /\ \A x \in DOMAIN commands : commands'[x] = commands[x]
      BY <2>1, <2>2, <2>3
    <2>5. /\ last.wait = "archiving" => kind = "delete"
          /\ last.wait = "storing" <=> kind = "stop"
      BY <2>4 DEF AfterCancel
    <2>6. /\ StopOps(all, {c}) \in Seq(Op)
          /\ Distinct(StopOps(all, {c}))
          /\ \A y : Holds(StopOps(all, {c}), y) <=> kind = "stop" /\ y = CommandOp(c)
      BY <2>1, <2>2, StopOpsHold
    <2>7. ~Holds(queue, CommandOp(c))
      BY <1>1, <1>5, <2>2 DEF QueueOK
    <2>8. /\ queue' \in Seq(Op) /\ Distinct(queue')
          /\ \A y : Holds(queue', y) <=> Holds(queue, y) \/ (y = CommandOp(c) /\ last.wait = "storing")
      <3> DEFINE stops == StopOps(all, {c})
      <3>1. /\ stops \in Seq(Op) /\ Distinct(stops)
            /\ \A y : Holds(stops, y) <=> kind = "stop" /\ y = CommandOp(c)
        BY <2>6
      <3>2. queue' = queue \o stops
        BY <1>5
      <3> HIDE DEF stops
      <3>3. \A y : ~(Holds(queue, y) /\ Holds(stops, y))
        BY <2>7, <3>1
      <3>4. /\ queue \o stops \in Seq(Op) /\ Distinct(queue \o stops)
            /\ \A y : Holds(queue \o stops, y) <=> Holds(queue, y) \/ Holds(stops, y)
        BY <1>1, <3>1, <3>3, ConcatHolds
      <3>5. QED
        BY <2>5, <3>1, <3>2, <3>4
    <2>9. SameStages /\ flags' \subseteq AgentIds
      BY <1>1, <1>5, StillStages
    <2> HIDE DEF last
    <2>10. commands'[Len(commands) + 1] = last /\ Len(commands') = Len(commands) + 1
      BY <1>5, <2>3 DEF last
    <2>11. \A y : Holds(queue', y) <=> Holds(queue, y)
                    \/ (y = CommandOp(Len(commands) + 1) /\ last.wait = "storing")
      BY <1>5, <2>8
    <2>12. /\ last.kind \in Kinds /\ last.kind \in {"stop", "delete"} => last.agent \in DOMAIN agents
           /\ last.wait = "archiving" => last.kind = "delete"
           /\ last.wait = "storing" => last.kind \in {"start", "stop", "delete"}
      BY <2>4, <2>5
    <2>13. QED
      BY <2>3, <2>4, <2>8, <2>9, <2>10, <2>11, <2>12, NewCommandStep
  <1>6. QED
    BY <1>3, <1>4, <1>5 DEF CancelExecution

\* The wall-clock timer marks the container of the Agent as cancelled.
LEMMA DeadlineStep ==
    ASSUME ServiceInv, NEW r \in RunIds, Deadline(r), "deadline" \in Kinds,
           UNCHANGED <<agents, runs, workspaces, archived, active, restarts>>
    PROVE  ServiceInv'
  <1>1. Shape /\ r \in 0 .. MaxRuns /\ AgentOf(r) \in AgentIds /\ flags \subseteq AgentIds
    BY Indexes DEF ServiceInv, Shape
  <1> DEFINE new == NewCommand("deadline", AgentOf(r), r, "done", 0)
  <1>2. new \in CommandRecord /\ new.kind = "deadline" /\ new.wait = "done"
    <2>1. 0 \in 0 .. MaxRuns /\ "done" \in Waits
      BY AgentServiceAssumption DEF Waits
    <2>2. QED
      BY <1>1, <2>1, NewCommandType
  <1>3. commands' = Append(commands, new) /\ UNCHANGED <<flags, queue>>
    BY DEF Deadline
  <1> HIDE DEF new
  <1>4. SameStages
    BY <1>1, StillStages, CancelsStages DEF Deadline, Containers
  <1>5. QED
    BY <1>1, <1>2, <1>3, <1>4, QuietCommandStep

\* Any command that arrives.
LEMMA CommandStep ==
    ASSUME ServiceInv, NEW kind \in Kinds, Command(kind)
    PROVE  ServiceInv'
  <1>1. /\ UNCHANGED <<agents, runs, workspaces, archived, active, restarts>>
        /\ DOMAIN agents \subseteq AgentIds /\ DOMAIN runs \subseteq RunIds
        /\ \A r \in RunIds : AgentOf(r) \in AgentIds /\ r \in 0 .. MaxRuns
        /\ 0 \in 0 .. MaxRuns
    BY Indexes, AgentServiceAssumption DEF Command, ServiceInv, Shape
  <1>2. CASE kind = "start" /\ \E a \in AgentIds : StartAgent(a)
    BY <1>1, <1>2, StartAgentStep
  <1>3. CASE kind \in {"stop", "delete"} /\ \E a \in DOMAIN agents : CancelExecution(kind, a, 0)
    BY <1>1, <1>3, CancelExecutionStep
  <1>4. CASE kind = "revoke" /\ \E r \in DOMAIN runs : CancelRun(r)
    <2>1. PICK r \in DOMAIN runs : CancelExecution("revoke", AgentOf(r), r)
      BY <1>4 DEF CancelRun
    <2>2. QED
      BY <1>1, <1>4, <2>1, CancelExecutionStep
  <1>5. CASE kind = "deadline" /\ \E r \in RunIds : Deadline(r)
    BY <1>1, <1>5, DeadlineStep
  <1>6. QED
    BY <1>2, <1>3, <1>4, <1>5 DEF Command

\* A command goes on to another wait, the others stay where they are.
CommandMoves(c, wait) ==
    /\ commands' \in Seq(CommandRecord)
    /\ DOMAIN commands' = DOMAIN commands
    /\ commands'[c].wait = wait
    /\ \A x \in DOMAIN commands : /\ commands'[x].kind = commands[x].kind
                                  /\ commands'[x].agent = commands[x].agent
                                  /\ x # c => commands'[x] = commands[x]

\* Setting what a command waits for moves that command only.
LEMMA WaitMoves ==
    ASSUME Shape, NEW c \in DOMAIN commands, NEW wait \in Waits, NEW on \in 0 .. MaxRuns,
           \/ commands' = [commands EXCEPT ![c].wait = wait]
           \/ commands' = [commands EXCEPT ![c].wait = wait, ![c].on = on]
    PROVE  CommandMoves(c, wait) /\ KeepCommands
  <1>1. /\ commands \in Seq(CommandRecord) /\ commands[c] \in CommandRecord
        /\ DOMAIN commands = 1 .. Len(commands) /\ Len(commands) \in Nat
    BY Indexes DEF Shape
  <1>2. PICK e \in CommandRecord :
           /\ e.agent = commands[c].agent /\ e.kind = commands[c].kind /\ e.wait = wait
           /\ commands' = [commands EXCEPT ![c] = e]
    <2>1. CASE commands' = [commands EXCEPT ![c].wait = wait]
      <3> DEFINE e == [commands[c] EXCEPT !.wait = wait]
      <3>1. /\ e \in CommandRecord /\ e.wait = wait
            /\ e.agent = commands[c].agent /\ e.kind = commands[c].kind
        BY <1>1 DEF CommandRecord
      <3>2. commands' = [commands EXCEPT ![c] = e]
        BY <2>1
      <3>3. QED
        BY <3>1, <3>2
    <2>2. CASE commands' = [commands EXCEPT ![c].wait = wait, ![c].on = on]
      <3> DEFINE e == [commands[c] EXCEPT !.wait = wait, !.on = on]
      <3>1. /\ e \in CommandRecord /\ e.wait = wait
            /\ e.agent = commands[c].agent /\ e.kind = commands[c].kind
        BY <1>1 DEF CommandRecord
      <3>2. commands' = [commands EXCEPT ![c] = e]
        BY <1>1, <2>2 DEF CommandRecord
      <3>3. QED
        BY <3>1, <3>2
    <2>3. QED
      BY <2>1, <2>2
  <1>3. /\ commands' \in Seq(CommandRecord) /\ Len(commands') = Len(commands)
        /\ DOMAIN commands' = DOMAIN commands
        /\ commands'[c] = e /\ \A x \in DOMAIN commands : x # c => commands'[x] = commands[x]
    BY <1>1, <1>2
  <1>4. CommandMoves(c, wait)
    BY <1>2, <1>3 DEF CommandMoves
  <1>5. QED
    BY <1>4 DEF CommandMoves, KeepCommands

\* What the commands released in a step have queued, behind what was queued before.
LEMMA ReleaseQueues ==
    ASSUME Shape, QueueOK, CommandsOK,
           NEW released \in SUBSET DOMAIN commands, NEW joined \in BOOLEAN,
           \A c \in released : commands[c].wait \in {"joining", "terminating"},
           NEW q \in Seq(Op), Distinct(q),
           \A c : Holds(q, CommandOp(c)) <=> Holds(queue, CommandOp(c)),
           commands' = Released(commands, released, joined),
           queue' = q \o (IF joined THEN StopOps(commands, released) ELSE <<>>)
    PROVE  /\ commands' \in Seq(CommandRecord) /\ KeepCommands /\ CommandsOK'
           /\ queue' \in Seq(Op) /\ Distinct(queue')
           /\ \A r : Holds(queue', RunOp(r)) <=> Holds(q, RunOp(r))
           /\ \A a : Holds(queue', CreateOp(a)) <=> Holds(q, CreateOp(a))
           /\ \A c \in Nat : Holds(queue', CommandOp(c))
                                <=> c \in DOMAIN commands' /\ commands'[c].wait = "storing"
  <1>1. /\ commands \in Seq(CommandRecord)
        /\ \A c \in DOMAIN commands : c \in Nat
    BY Indexes DEF Shape
  <1>2. /\ commands' \in Seq(CommandRecord)
        /\ DOMAIN commands' = DOMAIN commands
        /\ \A c \in DOMAIN commands :
              /\ commands'[c].kind = commands[c].kind /\ commands'[c].agent = commands[c].agent
              /\ c \notin released => commands'[c] = commands[c]
              /\ c \in released =>
                    commands'[c].wait = IF joined THEN AfterCancel(commands[c].kind) ELSE "done"
    <2> DEFINE out == Released(commands, released, joined)
    <2>1. /\ out \in Seq(CommandRecord) /\ DOMAIN out = DOMAIN commands
          /\ \A c \in DOMAIN commands :
                /\ out[c].kind = commands[c].kind /\ out[c].agent = commands[c].agent
                /\ c \notin released => out[c] = commands[c]
                /\ c \in released =>
                      out[c].wait = IF joined THEN AfterCancel(commands[c].kind) ELSE "done"
      BY <1>1, ReleasedCommands
    <2>2. commands' = out
      OBVIOUS
    <2> HIDE DEF out
    <2>3. QED
      BY <2>1, <2>2
  <1>3. KeepCommands
    BY <1>2 DEF KeepCommands
  <1>4. \A c \in released :
           /\ commands'[c].wait = "archiving" => commands[c].kind = "delete"
           /\ commands'[c].wait = "storing" <=> joined /\ commands[c].kind = "stop"
    BY <1>2 DEF AfterCancel
  <1>5. CommandsOK'
    <2>1. ASSUME NEW c \in DOMAIN commands'
          PROVE  /\ commands'[c].kind \in Kinds
                 /\ commands'[c].wait = "archiving" => commands'[c].kind = "delete"
                 /\ commands'[c].wait = "storing" => commands'[c].kind \in {"start", "stop", "delete"}
      BY <1>2, <1>4 DEF CommandsOK
    <2>2. QED
      BY <2>1 DEF CommandsOK
  <1> DEFINE stops == IF joined THEN StopOps(commands, released) ELSE <<>>
  <1>6. /\ stops \in Seq(Op) /\ Distinct(stops)
        /\ \A y : Holds(stops, y) <=>
                     joined /\ \E c \in released : commands[c].kind = "stop" /\ y = CommandOp(c)
    <2>1. CASE joined
      BY <1>1, <2>1, StopOpsHold
    <2>2. CASE ~joined
      BY <2>2 DEF Distinct, Holds
    <2>3. QED
      BY <2>1, <2>2
  <1>7. queue' = q \o stops
    OBVIOUS
  <1> HIDE DEF stops
  <1>8. ASSUME NEW y PROVE ~(Holds(q, y) /\ Holds(stops, y))
    <2>1. SUFFICES ASSUME Holds(q, y), Holds(stops, y) PROVE FALSE
      OBVIOUS
    <2>2. PICK c \in released : y = CommandOp(c)
      BY <1>6, <2>1
    <2>3. commands[c].wait = "storing"
      BY <1>1, <2>1, <2>2 DEF QueueOK
    <2>4. QED
      BY <2>3
  <1>9. /\ queue' \in Seq(Op) /\ Distinct(queue')
        /\ \A y : Holds(queue', y) <=> Holds(q, y) \/ Holds(stops, y)
    <2>1. \A y : ~(Holds(q, y) /\ Holds(stops, y))
      BY <1>8
    <2>2. /\ q \o stops \in Seq(Op) /\ Distinct(q \o stops)
          /\ \A y : Holds(q \o stops, y) <=> Holds(q, y) \/ Holds(stops, y)
      BY <1>6, <2>1, ConcatHolds
    <2>3. QED
      BY <1>7, <2>2
  <1>10. /\ \A r : Holds(queue', RunOp(r)) <=> Holds(q, RunOp(r))
         /\ \A a : Holds(queue', CreateOp(a)) <=> Holds(q, CreateOp(a))
    <2>1. (\A r : ~Holds(stops, RunOp(r))) /\ (\A a : ~Holds(stops, CreateOp(a)))
      <3>1. ASSUME NEW r, Holds(stops, RunOp(r)) PROVE FALSE
        <4>1. PICK c \in released : RunOp(r) = CommandOp(c)
          BY <1>6, <3>1
        <4>2. QED
          BY <4>1, OpsDiffer
      <3>2. ASSUME NEW a, Holds(stops, CreateOp(a)) PROVE FALSE
        <4>1. PICK c \in released : CreateOp(a) = CommandOp(c)
          BY <1>6, <3>2
        <4>2. CommandOp(c) # CreateOp(a)
          BY OpsDiffer
        <4>3. QED
          BY <4>1, <4>2
      <3>3. QED
        BY <3>1, <3>2
    <2>2. QED
      BY <1>9, <2>1
  <1>11. ASSUME NEW c \in Nat
         PROVE  Holds(queue', CommandOp(c))
                   <=> c \in DOMAIN commands' /\ commands'[c].wait = "storing"
    <2>1. Holds(queue', CommandOp(c)) <=>
             \/ c \in DOMAIN commands /\ commands[c].wait = "storing"
             \/ joined /\ c \in released /\ commands[c].kind = "stop"
      BY <1>6, <1>9, OpsDiffer DEF QueueOK
    <2>2. QED
      BY <1>2, <1>4, <2>1
  <1>12. QED
    BY <1>2, <1>3, <1>5, <1>9, <1>10, <1>11

\* Commands go on while nothing that is stored changes.
LEMMA CommandsGoOn ==
    ASSUME ServiceInv, KeepCommands, CommandsOK',
           UNCHANGED <<agents, runs, executions, active, restarts>>,
           workspaces' \subseteq AgentIds, archived' \subseteq AgentIds \ workspaces',
           workspaces \cup archived \subseteq workspaces' \cup archived',
           flags' \subseteq AgentIds,
           commands' \in Seq(CommandRecord), queue' \in Seq(Op), Distinct(queue'),
           \A r : Holds(queue', RunOp(r)) <=> Holds(queue, RunOp(r)),
           \A a : Holds(queue', CreateOp(a)) => Holds(queue, CreateOp(a)),
           \A a : Holds(queue', CreateOp(a)) => (a \in workspaces => a \in workspaces'),
           \A c \in Nat : Holds(queue', CommandOp(c))
                             <=> c \in DOMAIN commands' /\ commands'[c].wait = "storing"
    PROVE  ServiceInv'
  <1>1. Shape /\ QueueOK /\ BirthOK /\ RunsOK
    BY DEF ServiceInv
  <1>2. RunIds' = RunIds /\ KeepRuns
    BY DEF RunIds, KeepRuns
  <1>3. Shape'
    BY <1>1, <1>2 DEF Shape
  <1>4. QueueOK'
    <2>1. \A r \in Nat :
             Holds(queue', RunOp(r)) <=> r \in RunIds' /\ executions'[r].stage \in InStore
      BY <1>1, <1>2 DEF QueueOK
    <2>2. QED
      BY <2>1 DEF QueueOK
  <1>5. RunsOK'
    BY <1>1, <1>2, RunsFrame
  <1>6. BirthOK'
    BY <1>1, <1>2, BirthFrame
  <1>7. QED
    BY <1>3, <1>4, <1>5, <1>6 DEF ServiceInv

\* The container is gone: the command joins an execution or goes on.
LEMMA TerminatedStep ==
    ASSUME ServiceInv, NEW c \in DOMAIN commands, Terminated(c)
    PROVE  ServiceInv'
  <1> DEFINE a == commands[c].agent
  <1>1. /\ commands[c].wait = "terminating"
        /\ UNCHANGED <<agents, runs, workspaces, archived, executions, active, restarts>>
    BY DEF Terminated
  <1>2. /\ Shape /\ QueueOK /\ CommandsOK /\ a \in AgentIds /\ c \in Nat
        /\ queue \in Seq(Op) /\ Distinct(queue) /\ flags \subseteq AgentIds
        /\ workspaces \subseteq AgentIds /\ archived \subseteq AgentIds \ workspaces
    BY Indexes DEF ServiceInv, Shape, QueueOK, CommandRecord
  <1>3. CASE /\ commands' = [commands EXCEPT ![c].wait = "joining", ![c].on = active[a]]
             /\ UNCHANGED <<flags, queue>>
    <2>1. active[a] \in 0 .. MaxRuns
      BY <1>2, Indexes, AgentServiceAssumption DEF Shape
    <2>2. CommandMoves(c, "joining") /\ KeepCommands
      <3>1. "joining" \in Waits
        BY DEF Waits
      <3>2. QED
        BY <1>2, <1>3, <2>1, <3>1, WaitMoves
    <2>3. CommandsOK'
      BY <1>2, <2>2 DEF CommandsOK, CommandMoves
    <2>4. ASSUME NEW x \in Nat
          PROVE  Holds(queue', CommandOp(x))
                    <=> x \in DOMAIN commands' /\ commands'[x].wait = "storing"
      BY <1>1, <1>2, <1>3, <2>2 DEF QueueOK, CommandMoves
    <2>5. commands' \in Seq(CommandRecord)
      BY <2>2 DEF CommandMoves
    <2>6. QED
      BY <1>1, <1>2, <1>3, <2>2, <2>3, <2>4, <2>5, CommandsGoOn
  <1>4. CASE /\ commands' = Released(commands, {c}, TRUE)
             /\ flags' = flags \ {a}
             /\ queue' = queue \o StopOps(commands, {c})
    <2>1. PICK released, joined : released = {c} /\ joined = TRUE
      OBVIOUS
    <2>2. /\ released \in SUBSET DOMAIN commands /\ joined \in BOOLEAN
          /\ \A x \in released : commands[x].wait \in {"joining", "terminating"}
          /\ commands' = Released(commands, released, joined)
          /\ queue' = queue \o (IF joined THEN StopOps(commands, released) ELSE <<>>)
      BY <1>1, <1>4, <2>1
    <2>3. /\ commands' \in Seq(CommandRecord) /\ KeepCommands /\ CommandsOK'
          /\ queue' \in Seq(Op) /\ Distinct(queue')
          /\ \A r : Holds(queue', RunOp(r)) <=> Holds(queue, RunOp(r))
          /\ \A b : Holds(queue', CreateOp(b)) <=> Holds(queue, CreateOp(b))
          /\ \A x \in Nat : Holds(queue', CommandOp(x))
                               <=> x \in DOMAIN commands' /\ commands'[x].wait = "storing"
      BY <1>2, <2>2, ReleaseQueues
    <2>4. flags' \subseteq AgentIds
      BY <1>2, <1>4
    <2>5. QED
      BY <1>1, <1>2, <2>3, <2>4, CommandsGoOn
  <1>5. QED
    BY <1>3, <1>4 DEF Terminated

\* deleteAgent moves the workspace, or finds none.
LEMMA ArchiveWorkspaceStep ==
    ASSUME ServiceInv, NEW c \in DOMAIN commands, ArchiveWorkspace(c)
    PROVE  ServiceInv'
  <1> DEFINE a == commands[c].agent
  <1>1. /\ commands[c].wait = "archiving" /\ commands[c].kind = "delete"
        /\ UNCHANGED <<agents, runs, executions, active, flags, restarts>>
    BY DEF ArchiveWorkspace, ServiceInv, CommandsOK
  <1>2. /\ Shape /\ QueueOK /\ CommandsOK /\ BirthOK /\ a \in AgentIds /\ c \in Nat
        /\ queue \in Seq(Op) /\ Distinct(queue) /\ flags \subseteq AgentIds
        /\ workspaces \subseteq AgentIds /\ archived \subseteq AgentIds \ workspaces
        /\ 0 \in 0 .. MaxRuns /\ "storing" \in Waits /\ "done" \in Waits
    <2>1. Shape /\ QueueOK /\ CommandsOK /\ BirthOK
      BY DEF ServiceInv
    <2>2. a \in AgentIds /\ c \in Nat
      BY <2>1, Indexes DEF CommandRecord
    <2>3. 0 \in 0 .. MaxRuns /\ "storing" \in Waits /\ "done" \in Waits
      BY AgentServiceAssumption DEF Waits
    <2>4. QED
      BY <2>1, <2>2, <2>3 DEF Shape, QueueOK
  <1>3. CASE /\ workspaces' = workspaces \ {a}
             /\ archived' = archived \cup {a}
             /\ commands' = [commands EXCEPT ![c].wait = "storing"]
             /\ queue' = Append(queue, CommandOp(c))
    <2>1. CommandMoves(c, "storing") /\ KeepCommands
      BY <1>2, <1>3, WaitMoves
    <2>2. CommandsOK' /\ commands' \in Seq(CommandRecord)
      BY <1>1, <1>2, <2>1 DEF CommandsOK, CommandMoves
    <2>3. ~Holds(queue, CommandOp(c)) /\ CommandOp(c) \in Op
      BY <1>1, <1>2, OpsDiffer DEF QueueOK
    <2>4. /\ queue' \in Seq(Op) /\ Distinct(queue')
          /\ \A y : Holds(queue', y) <=> Holds(queue, y) \/ y = CommandOp(c)
      BY <1>2, <1>3, <2>3, AppendHolds
    <2>5. /\ \A r : Holds(queue', RunOp(r)) <=> Holds(queue, RunOp(r))
          /\ \A b : Holds(queue', CreateOp(b)) => Holds(queue, CreateOp(b))
      BY <2>4, OpsDiffer
    <2>6. ASSUME NEW x \in Nat
          PROVE  Holds(queue', CommandOp(x))
                    <=> x \in DOMAIN commands' /\ commands'[x].wait = "storing"
      <3>1. Holds(queue', CommandOp(x)) <=> Holds(queue, CommandOp(x)) \/ x = c
        BY <2>4, OpsDiffer
      <3>2. Holds(queue, CommandOp(x)) <=> x \in DOMAIN commands /\ commands[x].wait = "storing"
        BY <1>2 DEF QueueOK
      <3>3. QED
        BY <2>1, <3>1, <3>2 DEF CommandMoves
    <2>7. \A b : Holds(queue', CreateOp(b)) => (b \in workspaces => b \in workspaces')
      <3>1. ~Holds(queue, CreateOp(a))
        BY <1>1, <1>2 DEF BirthOK
      <3>2. QED
        BY <1>3, <2>5, <3>1
    <2>8. /\ workspaces' \subseteq AgentIds /\ archived' \subseteq AgentIds \ workspaces'
          /\ workspaces \cup archived \subseteq workspaces' \cup archived'
          /\ flags' \subseteq AgentIds
      BY <1>1, <1>2, <1>3
    <2>9. QED
      BY <1>1, <2>1, <2>2, <2>4, <2>5, <2>6, <2>7, <2>8, CommandsGoOn
  <1>4. CASE /\ commands' = [commands EXCEPT ![c].wait = "done"]
             /\ UNCHANGED <<workspaces, archived, queue>>
    <2>1. CommandMoves(c, "done") /\ KeepCommands
      BY <1>2, <1>4, WaitMoves
    <2>2. CommandsOK' /\ commands' \in Seq(CommandRecord)
      BY <1>1, <1>2, <2>1 DEF CommandsOK, CommandMoves
    <2>3. ASSUME NEW x \in Nat
          PROVE  Holds(queue', CommandOp(x))
                    <=> x \in DOMAIN commands' /\ commands'[x].wait = "storing"
      BY <1>1, <1>2, <1>4, <2>1 DEF QueueOK, CommandMoves
    <2>4. QED
      BY <1>1, <1>2, <1>4, <2>1, <2>2, <2>3, CommandsGoOn
  <1>5. QED
    BY <1>3, <1>4 DEF ArchiveWorkspace

-----------------------------------------------------------------------------
(* The mutation at the head of the queue. *)

\* It is taken from the queue, and nobody else's is.
LEMMA Dequeued ==
    ASSUME Shape, QueueOK, NEW op, AtHead(op)
    PROVE  /\ queue # <<>> /\ op \in Op /\ Holds(queue, op)
           /\ Tail(queue) \in Seq(Op) /\ Distinct(Tail(queue))
           /\ \A y : Holds(Tail(queue), y) <=> Holds(queue, y) /\ y # op
  <1>1. queue \in Seq(Op) /\ queue # <<>> /\ Distinct(queue) /\ op = queue[1]
    BY DEF Shape, QueueOK, AtHead
  <1>2. QED
    BY <1>1, TailHolds

\* A Run whose mutation is through queues another one.
LEMMA Requeued ==
    ASSUME ServiceInv, NEW r \in RunIds, AtHead(RunOp(r)),
           NEW stage \in InStore, Moves(r, stage),
           queue' = Append(Tail(queue), RunOp(r)), commands' = commands
    PROVE  /\ queue' \in Seq(Op) /\ QueueOK'
           /\ \A a : Holds(queue', CreateOp(a)) <=> Holds(queue, CreateOp(a))
  <1>1. /\ RunOp(r) \in Op /\ Holds(queue, RunOp(r)) /\ r \in Nat
        /\ Tail(queue) \in Seq(Op) /\ Distinct(Tail(queue))
        /\ \A y : Holds(Tail(queue), y) <=> Holds(queue, y) /\ y # RunOp(r)
    BY Dequeued, Indexes DEF ServiceInv
  <1>2. /\ queue' \in Seq(Op) /\ Distinct(queue')
        /\ \A y : Holds(queue', y) <=> Holds(queue, y)
    <2> DEFINE q == Tail(queue)
    <2>1. /\ q \in Seq(Op) /\ Distinct(q) /\ ~Holds(q, RunOp(r)) /\ queue' = Append(q, RunOp(r))
      BY <1>1
    <2> HIDE DEF q
    <2>2. /\ queue' \in Seq(Op) /\ Distinct(queue')
          /\ \A y : Holds(queue', y) <=> Holds(q, y) \/ y = RunOp(r)
      <3>1. RunOp(r) \in Op
        BY <1>1
      <3>2. /\ Append(q, RunOp(r)) \in Seq(Op) /\ Distinct(Append(q, RunOp(r)))
            /\ \A y : Holds(Append(q, RunOp(r)), y) <=> Holds(q, y) \/ y = RunOp(r)
        BY <2>1, <3>1, AppendHolds
      <3>3. QED
        BY <2>1, <3>2
    <2>3. QED
      BY <1>1, <2>2 DEF q
  <1>3. /\ RunIds' = RunIds
        /\ \A x \in RunIds : executions'[x].stage = IF x = r THEN stage ELSE executions[x].stage
    BY MovesKeeps DEF ServiceInv, Moves
  <1>4. executions[r].stage \in InStore
    BY <1>1 DEF ServiceInv, QueueOK
  <1>5. ASSUME NEW x \in Nat
        PROVE  Holds(queue', RunOp(x)) <=> x \in RunIds' /\ executions'[x].stage \in InStore
    <2>1. Holds(queue, RunOp(x)) <=> x \in RunIds /\ executions[x].stage \in InStore
      BY DEF ServiceInv, QueueOK
    <2>2. QED
      BY <1>2, <1>3, <1>4, <2>1
  <1>6. \A c \in Nat : Holds(queue', CommandOp(c))
                          <=> c \in DOMAIN commands' /\ commands'[c].wait = "storing"
    BY <1>2 DEF ServiceInv, QueueOK
  <1>7. QED
    BY <1>2, <1>5, <1>6 DEF QueueOK

\* What is left of the queue when the Run it was for leaves the store.
LEMMA LeftQueue ==
    ASSUME ServiceInv, NEW r \in RunIds, AtHead(RunOp(r))
    PROVE  /\ Tail(queue) \in Seq(Op) /\ Distinct(Tail(queue))
           /\ \A x \in Nat : Holds(Tail(queue), RunOp(x))
                                <=> x \in RunIds /\ executions[x].stage \in InStore /\ x # r
           /\ \A c : Holds(Tail(queue), CommandOp(c)) <=> Holds(queue, CommandOp(c))
           /\ \A a : Holds(Tail(queue), CreateOp(a)) <=> Holds(queue, CreateOp(a))
  <1>1. /\ Tail(queue) \in Seq(Op) /\ Distinct(Tail(queue))
        /\ \A y : Holds(Tail(queue), y) <=> Holds(queue, y) /\ y # RunOp(r)
    BY Dequeued DEF ServiceInv
  <1>2. ASSUME NEW x \in Nat
        PROVE  Holds(Tail(queue), RunOp(x))
                  <=> x \in RunIds /\ executions[x].stage \in InStore /\ x # r
    <2>1. Holds(Tail(queue), RunOp(x)) <=> Holds(queue, RunOp(x)) /\ x # r
      BY <1>1, OpsDiffer
    <2>2. Holds(queue, RunOp(x)) <=> x \in RunIds /\ executions[x].stage \in InStore
      BY DEF ServiceInv, QueueOK
    <2>3. QED
      BY <2>1, <2>2
  <1>3. ASSUME NEW c PROVE CommandOp(c) # RunOp(r)
    BY OpsDiffer
  <1>4. ASSUME NEW a PROVE CreateOp(a) # RunOp(r)
    <2>1. RunOp(r) # CreateOp(a)
      BY OpsDiffer
    <2>2. QED
      BY <2>1
  <1>5. QED
    BY <1>1, <1>2, <1>3, <1>4

\* A Run leaves the store and queues nothing.
LEMMA RunLeaves ==
    ASSUME ServiceInv, NEW r \in RunIds, AtHead(RunOp(r)),
           NEW stage, stage \notin InStore, Moves(r, stage),
           queue' = Tail(queue), commands' = commands
    PROVE  /\ queue' \in Seq(Op) /\ QueueOK'
           /\ \A a : Holds(queue', CreateOp(a)) <=> Holds(queue, CreateOp(a))
  <1>1. /\ queue' \in Seq(Op) /\ Distinct(queue')
        /\ \A x \in Nat : Holds(queue', RunOp(x))
                             <=> x \in RunIds /\ executions[x].stage \in InStore /\ x # r
        /\ \A c : Holds(queue', CommandOp(c)) <=> Holds(queue, CommandOp(c))
        /\ \A a : Holds(queue', CreateOp(a)) <=> Holds(queue, CreateOp(a))
    BY LeftQueue
  <1>2. /\ RunIds' = RunIds
        /\ \A x \in RunIds : executions'[x].stage = IF x = r THEN stage ELSE executions[x].stage
    BY MovesKeeps DEF ServiceInv, Moves
  <1>3. \A x \in Nat :
           Holds(queue', RunOp(x)) <=> x \in RunIds' /\ executions'[x].stage \in InStore
    BY <1>1, <1>2
  <1>4. \A c \in Nat : Holds(queue', CommandOp(c))
                          <=> c \in DOMAIN commands' /\ commands'[c].wait = "storing"
    BY <1>1 DEF ServiceInv, QueueOK
  <1>5. QED
    BY <1>1, <1>3, <1>4 DEF QueueOK

\* The promise of an execution settles, and whoever awaits it goes on.
LEMMA SettlesStep ==
    ASSUME ServiceInv, NEW r \in RunIds, AtHead(RunOp(r)),
           NEW stage \in {"done", "rejected"}, Settles(r, stage)
    PROVE  /\ Moves(r, stage) /\ KeepRuns /\ KeepCommands
           /\ \A x \in RunIds : executions'[x].stage
                  = IF x = r THEN stage ELSE executions[x].stage
           /\ active' \in [AgentIds -> {0} \cup RunIds'] /\ flags' \subseteq AgentIds
           /\ commands' \in Seq(CommandRecord)
           /\ queue' \in Seq(Op) /\ QueueOK'
           /\ \A a : Holds(queue', CreateOp(a)) <=> Holds(queue, CreateOp(a))
           /\ CommandsOK'
  <1> DEFINE a == AgentOf(r)
             joined == stage = "done"
  <1>1. /\ executions' = [executions EXCEPT ![r].stage = stage]
        /\ active' = [active EXCEPT ![a] = IF @ = r THEN 0 ELSE @]
        /\ commands' = Released(commands, Joining(r), joined)
        /\ flags' = IF Joining(r) = {} THEN flags ELSE flags \ {a}
        /\ queue' = Tail(queue) \o
               (IF joined THEN StopOps(commands, Joining(r)) ELSE <<>>)
    BY DEF Settles
  <1>2. /\ Shape /\ QueueOK /\ CommandsOK /\ joined \in BOOLEAN
        /\ Joining(r) \in SUBSET DOMAIN commands
        /\ \A c \in Joining(r) : commands[c].wait \in {"joining", "terminating"}
    BY DEF ServiceInv, Joining
  <1>3. /\ Tail(queue) \in Seq(Op) /\ Distinct(Tail(queue))
        /\ \A x \in Nat : Holds(Tail(queue), RunOp(x))
                             <=> x \in RunIds /\ executions[x].stage \in InStore /\ x # r
        /\ \A c : Holds(Tail(queue), CommandOp(c)) <=> Holds(queue, CommandOp(c))
        /\ \A b : Holds(Tail(queue), CreateOp(b)) <=> Holds(queue, CreateOp(b))
    BY LeftQueue
  <1> HIDE DEF joined
  <1>4. /\ commands' \in Seq(CommandRecord) /\ KeepCommands /\ CommandsOK'
        /\ queue' \in Seq(Op) /\ Distinct(queue')
        /\ \A x : Holds(queue', RunOp(x)) <=> Holds(Tail(queue), RunOp(x))
        /\ \A b : Holds(queue', CreateOp(b)) <=> Holds(Tail(queue), CreateOp(b))
        /\ \A c \in Nat : Holds(queue', CommandOp(c))
                             <=> c \in DOMAIN commands' /\ commands'[c].wait = "storing"
    <2> DEFINE q == Tail(queue)
               released == Joining(r)
    <2>1. /\ q \in Seq(Op) /\ Distinct(q)
          /\ \A c : Holds(q, CommandOp(c)) <=> Holds(queue, CommandOp(c))
          /\ queue' = q \o (IF joined THEN StopOps(commands, released) ELSE <<>>)
          /\ commands' = Released(commands, released, joined)
          /\ released \in SUBSET DOMAIN commands
          /\ \A c \in released : commands[c].wait \in {"joining", "terminating"}
      BY <1>1, <1>2, <1>3
    <2> HIDE DEF q, released
    <2>2. /\ commands' \in Seq(CommandRecord) /\ KeepCommands /\ CommandsOK'
          /\ queue' \in Seq(Op) /\ Distinct(queue')
          /\ \A x : Holds(queue', RunOp(x)) <=> Holds(q, RunOp(x))
          /\ \A b : Holds(queue', CreateOp(b)) <=> Holds(q, CreateOp(b))
          /\ \A c \in Nat : Holds(queue', CommandOp(c))
                               <=> c \in DOMAIN commands' /\ commands'[c].wait = "storing"
      BY <1>2, <2>1, ReleaseQueues
    <2>3. QED
      BY <2>2 DEF q
  <1>5. Moves(r, stage)
    BY <1>1, <1>2, StageMoves DEF Stages, Outcomes
  <1>6. /\ KeepRuns /\ RunIds' = RunIds
        /\ \A x \in RunIds : executions'[x].stage = IF x = r THEN stage ELSE executions[x].stage
    BY <1>2, <1>5, MovesKeeps DEF Moves
  <1>7. active' \in [AgentIds -> {0} \cup RunIds'] /\ flags' \subseteq AgentIds
    BY <1>1, <1>2, <1>6 DEF Shape
  <1>8. QueueOK'
    <2>1. \A x \in Nat :
             Holds(queue', RunOp(x)) <=> x \in RunIds' /\ executions'[x].stage \in InStore
      BY <1>3, <1>4, <1>6 DEF InStore
    <2>2. QED
      BY <1>4, <2>1 DEF QueueOK
  <1>9. QED
    BY <1>3, <1>4, <1>5, <1>6, <1>7, <1>8

\* An execution that is rejected leaves what is stored as it is.
LEMMA RejectedStep ==
    ASSUME ServiceInv, NEW r \in RunIds, AtHead(RunOp(r)), Settles(r, "rejected"),
           UNCHANGED <<agents, runs, workspaces, archived, restarts>>
    PROVE  ServiceInv'
  <1>1. /\ Moves(r, "rejected") /\ KeepRuns /\ KeepCommands
        /\ \A x \in RunIds : executions'[x].stage
               = IF x = r THEN "rejected" ELSE executions[x].stage
        /\ active' \in [AgentIds -> {0} \cup RunIds'] /\ flags' \subseteq AgentIds
        /\ commands' \in Seq(CommandRecord)
        /\ queue' \in Seq(Op) /\ QueueOK'
        /\ \A a : Holds(queue', CreateOp(a)) <=> Holds(queue, CreateOp(a))
        /\ CommandsOK'
    BY SettlesStep
  <1>2. Shape'
    BY <1>1 DEF ServiceInv, Shape, Moves
  <1>3. RunsOK'
    BY <1>1, RunsFrame DEF ServiceInv
  <1>4. BirthOK'
    BY <1>1, BirthFrame DEF ServiceInv
  <1>5. QED
    BY <1>1, <1>2, <1>3, <1>4 DEF ServiceInv

\* The "running" mark could not be written.
LEMMA BeginRefusedStep ==
    ASSUME ServiceInv, NEW r \in RunIds, BeginRefused(r)
    PROVE  ServiceInv'
  BY RejectedStep DEF BeginRefused

\* The result could not be written: it becomes a failure, or the execution is rejected.
LEMMA ResultRefusedStep ==
    ASSUME ServiceInv, NEW r \in RunIds, ResultRefused(r)
    PROVE  ServiceInv'
  <1>1. /\ AtHead(RunOp(r)) /\ executions[r].stage = "settling"
        /\ UNCHANGED <<agents, runs, workspaces, archived, restarts>>
        /\ Shape /\ RunIds = RunIds
    BY DEF ResultRefused, ServiceInv
  <1>2. CASE /\ executions' = [executions EXCEPT ![r].outcome = "failed"]
             /\ queue' = Append(Tail(queue), RunOp(r))
             /\ UNCHANGED <<active, flags, commands>>
    <2>1. Moves(r, "settling")
      BY <1>1, <1>2, StageMoves DEF Stages, Outcomes
    <2>2. /\ queue' \in Seq(Op) /\ QueueOK'
          /\ \A a : Holds(queue', CreateOp(a)) <=> Holds(queue, CreateOp(a))
      BY <1>1, <1>2, <2>1, Requeued DEF InStore
    <2>3. KeepRuns /\ \A x \in RunIds : executions'[x].stage
                           = IF x = r THEN "settling" ELSE executions[x].stage
      BY <1>1, <2>1, MovesKeeps
    <2>4. QED
      BY <1>1, <1>2, <2>1, <2>2, RunStepKeeps DEF UnderWay
  <1>3. CASE Settles(r, "rejected")
    BY <1>1, <1>3, RejectedStep
  <1>4. QED
    BY <1>2, <1>3 DEF ResultRefused

\* The insertion was refused, by the Agent's status or by the disk.
LEMMA SendRefusedStep ==
    ASSUME ServiceInv, NEW r \in RunIds, SendRefused(r)
    PROVE  ServiceInv'
  <1>1. /\ AtHead(RunOp(r)) /\ executions[r].stage = "sending"
        /\ executions' = [executions EXCEPT ![r].stage = "rejected"]
        /\ queue' = Tail(queue)
        /\ UNCHANGED <<agents, runs, workspaces, archived, active, flags, commands, restarts>>
        /\ Shape
    BY DEF SendRefused, ServiceInv
  <1>2. Moves(r, "rejected")
    BY <1>1, StageMoves DEF Stages, Outcomes
  <1>3. /\ queue' \in Seq(Op) /\ QueueOK'
        /\ \A a : Holds(queue', CreateOp(a)) <=> Holds(queue, CreateOp(a))
    BY <1>1, <1>2, RunLeaves DEF InStore
  <1>4. KeepRuns /\ \A x \in RunIds : executions'[x].stage
                         = IF x = r THEN "rejected" ELSE executions[x].stage
    BY <1>1, <1>2, MovesKeeps
  <1>5. QED
    BY <1>1, <1>2, <1>3, RunStepKeeps

\* The insertion makes the Agent busy and its new Run queued.
LEMMA SendStoredStep ==
    ASSUME ServiceInv, NEW r \in RunIds, SendStored(r)
    PROVE  ServiceInv'
  <1> DEFINE a == AgentOf(r)
  <1>1. /\ AtHead(RunOp(r)) /\ executions[r].stage = "sending"
        /\ a \in DOMAIN agents
        /\ runs' = [x \in DOMAIN runs \cup {r} |-> IF x = r THEN "queued" ELSE runs[x]]
        /\ agents' = [agents EXCEPT ![a] = "busy"]
        /\ executions' = [executions EXCEPT ![r].stage = "starting"]
        /\ active' = [active EXCEPT ![a] = r]
        /\ queue' = Append(Tail(queue), RunOp(r))
        /\ UNCHANGED <<workspaces, archived, flags, commands, restarts>>
    BY DEF SendStored, Accepts
  <1>2. Shape /\ BirthOK /\ RunsOK /\ CommandsOK /\ a \in AgentIds
    BY Indexes DEF ServiceInv
  <1>3. Moves(r, "starting")
    BY <1>1, <1>2, StageMoves DEF Stages, Outcomes
  <1>4. /\ KeepRuns /\ KeepCommands /\ RunIds' = RunIds
        /\ \A x \in RunIds : executions'[x].agent = AgentOf(x)
        /\ \A x \in RunIds : executions'[x].stage
               = IF x = r THEN "starting" ELSE executions[x].stage
    <2>1. KeepRuns /\ \A x \in RunIds : executions'[x].stage
                           = IF x = r THEN "starting" ELSE executions[x].stage
      BY <1>2, <1>3, MovesKeeps
    <2>2. KeepCommands
      BY <1>1, SameCommands
    <2>3. RunIds' = RunIds /\ \A x \in RunIds : executions'[x].agent = AgentOf(x)
      BY <1>3 DEF Moves, AgentOf
    <2>4. QED
      BY <2>1, <2>2, <2>3
  <1>5. /\ queue' \in Seq(Op) /\ QueueOK'
        /\ \A b : Holds(queue', CreateOp(b)) <=> Holds(queue, CreateOp(b))
    BY <1>1, <1>3, Requeued DEF InStore
  <1>6. /\ DOMAIN runs' = DOMAIN runs \cup {r} /\ DOMAIN runs \subseteq RunIds
        /\ runs'[r] = "queued" /\ \A x \in DOMAIN runs : x # r => runs'[x] = runs[x]
        /\ DOMAIN agents' = DOMAIN agents /\ r \notin DOMAIN runs
        /\ \A b \in DOMAIN agents : b # a => agents'[b] = agents[b]
    BY <1>1, <1>2 DEF Shape, RunsOK
  <1>7. Shape'
    <2>1. agents' \in [DOMAIN agents' -> AgentStatuses]
      BY <1>1, <1>2 DEF Shape, AgentStatuses
    <2>2. runs' \in [DOMAIN runs' -> RunStatuses] /\ DOMAIN runs' \subseteq RunIds'
      BY <1>1, <1>2, <1>4, <1>6 DEF Shape, RunStatuses
    <2>3. active' \in [AgentIds -> {0} \cup RunIds']
      BY <1>1, <1>2, <1>4 DEF Shape
    <2>4. QED
      BY <1>1, <1>2, <1>3, <1>5, <1>6, <2>1, <2>2, <2>3 DEF Shape, Moves
  <1>8. CommandsOK'
    BY <1>1, <1>2, <1>4, CommandsFrame
  <1>9. BirthOK'
    <2>1. \A x \in RunIds : executions[x].stage \in {"sending", "rejected"} =>
             \/ executions'[x].stage \in {"sending", "rejected"}
             \/ AgentOf(x) \in DOMAIN agents
      BY <1>1, <1>4
    <2>2. QED
      BY <1>1, <1>2, <1>4, <1>5, <1>6, <2>1, BirthFrame
  <1>10. RunsOK'
    <2>1. ASSUME NEW x \in RunIds
          PROVE  /\ executions'[x].stage = "sending" => x \notin DOMAIN runs'
                 /\ executions'[x].stage \in UnderWay /\ AgentOf(x) \in DOMAIN agents
                       => x \in DOMAIN runs'
      BY <1>2, <1>4, <1>6 DEF RunsOK
    <2>2. ASSUME NEW x \in DOMAIN runs'
          PROVE  /\ AgentOf(x) \in DOMAIN agents
                 /\ executions'[x].stage \in UnderWay => runs'[x] \in ActiveStatuses
                 /\ executions'[x].stage = "done" => runs'[x] \notin ActiveStatuses
      <3>1. CASE x = r
        BY <1>1, <1>4, <1>6, <3>1 DEF ActiveStatuses
      <3>2. CASE x # r
        BY <1>2, <1>4, <1>6, <3>2 DEF RunsOK
      <3>3. QED
        BY <3>1, <3>2
    <2>3. ASSUME NEW b \in DOMAIN agents, agents'[b] = "busy"
          PROVE  \E x \in DOMAIN runs' : AgentOf(x) = b /\ runs'[x] \in ActiveStatuses
      <3>1. CASE b = a
        BY <1>6, <3>1 DEF ActiveStatuses
      <3>2. CASE b # a
        <4>1. PICK x \in DOMAIN runs : AgentOf(x) = b /\ runs[x] \in ActiveStatuses
          BY <1>2, <1>6, <2>3, <3>2 DEF RunsOK
        <4>2. QED
          BY <1>6, <3>2, <4>1
      <3>3. QED
        BY <3>1, <3>2
    <2>4. \A x \in DOMAIN runs' : x \in RunIds
      BY <1>6
    <2>5. QED
      BY <1>4, <1>6, <2>1, <2>2, <2>3, <2>4 DEF RunsOK, AgentOf
  <1>11. QED
    BY <1>5, <1>7, <1>8, <1>9, <1>10 DEF ServiceInv

\* A Run that is marked as running stays among the active ones.
LEMMA MarkedRunning ==
    ASSUME ServiceInv, NEW r \in RunIds, NEW stage \in UnderWay, Moves(r, stage),
           executions[r].stage \in UnderWay, stage # "running",
           runs' = [x \in DOMAIN runs |-> IF x = r THEN "running" ELSE runs[x]],
           UNCHANGED <<agents, workspaces, archived, active, flags, commands, restarts>>,
           queue' \in Seq(Op), QueueOK',
           \A a : Holds(queue', CreateOp(a)) <=> Holds(queue, CreateOp(a))
    PROVE  ServiceInv'
  <1>1. Shape /\ BirthOK /\ RunsOK /\ CommandsOK
    BY DEF ServiceInv
  <1>2. /\ KeepRuns /\ KeepCommands /\ RunIds' = RunIds
        /\ \A x \in RunIds : executions'[x].agent = AgentOf(x)
        /\ \A x \in RunIds : executions'[x].stage = IF x = r THEN stage ELSE executions[x].stage
    BY <1>1, MovesKeeps, SameCommands DEF Moves, AgentOf
  <1>3. /\ DOMAIN runs' = DOMAIN runs /\ DOMAIN runs \subseteq RunIds
        /\ \A x \in DOMAIN runs : /\ x = r => runs'[x] = "running"
                                  /\ x # r => runs'[x] = runs[x]
                                  /\ runs[x] \in ActiveStatuses => runs'[x] \in ActiveStatuses
    BY <1>1 DEF Shape, ActiveStatuses
  <1>4. Shape'
    <2>1. runs' \in [DOMAIN runs' -> RunStatuses]
      BY <1>1 DEF Shape, RunStatuses
    <2>2. QED
      BY <1>1, <1>2, <1>3, <2>1 DEF Shape, Moves
  <1>5. CommandsOK'
    BY <1>1, <1>2, CommandsFrame
  <1>6. BirthOK'
    <2>1. \A x \in RunIds : executions[x].stage \in {"sending", "rejected"} =>
             executions'[x].stage \in {"sending", "rejected"}
      BY <1>2 DEF UnderWay
    <2>2. QED
      BY <1>1, <1>2, <2>1, BirthFrame
  <1>7. RunsOK'
    <2>1. ASSUME NEW x \in RunIds
          PROVE  /\ executions'[x].stage = "sending" => x \notin DOMAIN runs
                 /\ executions'[x].stage \in UnderWay /\ AgentOf(x) \in DOMAIN agents
                       => x \in DOMAIN runs
      BY <1>1, <1>2 DEF RunsOK, UnderWay
    <2>2. ASSUME NEW x \in DOMAIN runs
          PROVE  /\ AgentOf(x) \in DOMAIN agents
                 /\ executions'[x].stage \in UnderWay => runs'[x] \in ActiveStatuses
                 /\ executions'[x].stage = "done" => runs'[x] \notin ActiveStatuses
      <3>1. CASE x = r
        BY <1>1, <1>2, <1>3, <3>1 DEF RunsOK, UnderWay, ActiveStatuses
      <3>2. CASE x # r
        BY <1>1, <1>2, <1>3, <3>2 DEF RunsOK
      <3>3. QED
        BY <3>1, <3>2
    <2>3. \A b \in DOMAIN agents : agents[b] = "busy" =>
             \E x \in DOMAIN runs : AgentOf(x) = b /\ runs'[x] \in ActiveStatuses
      BY <1>1, <1>3 DEF RunsOK
    <2>4. QED
      BY <1>2, <1>3, <2>1, <2>2, <2>3 DEF RunsOK, AgentOf
  <1>8. QED
    BY <1>4, <1>5, <1>6, <1>7 DEF ServiceInv

\* The "running" mark is stored; a raised flag ends the Run there.
LEMMA BeginStoredStep ==
    ASSUME ServiceInv, NEW r \in RunIds, BeginStored(r)
    PROVE  ServiceInv'
  <1>1. /\ AtHead(RunOp(r)) /\ executions[r].stage = "starting"
        /\ runs' = [x \in DOMAIN runs |-> IF x = r THEN "running" ELSE runs[x]]
        /\ UNCHANGED <<agents, workspaces, archived, active, flags, commands, restarts>>
        /\ Shape /\ executions[r].stage \in UnderWay
    BY DEF BeginStored, ServiceInv, UnderWay
  <1>2. CASE /\ executions' = [executions EXCEPT ![r].stage = "settling",
                                                 ![r].outcome = "cancelled"]
             /\ queue' = Append(Tail(queue), RunOp(r))
    <2>1. Moves(r, "settling")
      BY <1>1, <1>2, StageMoves DEF Stages, Outcomes
    <2>2. /\ queue' \in Seq(Op) /\ QueueOK'
          /\ \A a : Holds(queue', CreateOp(a)) <=> Holds(queue, CreateOp(a))
      BY <1>1, <1>2, <2>1, Requeued DEF InStore
    <2>3. QED
      BY <1>1, <2>1, <2>2, MarkedRunning DEF UnderWay
  <1>3. CASE /\ executions' = [executions EXCEPT ![r].stage = "minting"]
             /\ queue' = Tail(queue)
    <2>1. Moves(r, "minting")
      BY <1>1, <1>3, StageMoves DEF Stages, Outcomes
    <2>2. /\ queue' \in Seq(Op) /\ QueueOK'
          /\ \A a : Holds(queue', CreateOp(a)) <=> Holds(queue, CreateOp(a))
      BY <1>1, <1>3, <2>1, RunLeaves DEF InStore
    <2>3. QED
      BY <1>1, <2>1, <2>2, MarkedRunning DEF UnderWay
  <1>4. QED
    BY <1>2, <1>3 DEF BeginStored

\* The result of a Run is stored, and its Agent is released.
LEMMA ResultStoredStep ==
    ASSUME ServiceInv, NEW r \in RunIds, ResultStored(r)
    PROVE  ServiceInv'
  <1> DEFINE a == AgentOf(r)
             outcome == executions[r].outcome
             writes == outcome = "ok" => r \in DOMAIN runs
  <1>1. /\ AtHead(RunOp(r)) /\ executions[r].stage = "settling"
        /\ runs' = [x \in DOMAIN runs |-> IF x = r THEN RunResult(outcome) ELSE runs[x]]
        /\ agents' = [x \in DOMAIN agents |->
                         IF x = a /\ writes THEN AgentResult(agents[x], outcome) ELSE agents[x]]
        /\ Settles(r, "done")
        /\ UNCHANGED <<workspaces, archived, restarts>>
    BY DEF ResultStored
  <1>2. Shape /\ BirthOK /\ RunsOK
    BY DEF ServiceInv
  <1>3. /\ Moves(r, "done") /\ KeepRuns /\ KeepCommands
        /\ \A x \in RunIds : executions'[x].stage
               = IF x = r THEN "done" ELSE executions[x].stage
        /\ active' \in [AgentIds -> {0} \cup RunIds'] /\ flags' \subseteq AgentIds
        /\ commands' \in Seq(CommandRecord)
        /\ queue' \in Seq(Op) /\ QueueOK'
        /\ \A b : Holds(queue', CreateOp(b)) <=> Holds(queue, CreateOp(b))
        /\ CommandsOK'
    <2>1. "done" \in {"done", "rejected"}
      OBVIOUS
    <2>2. QED
      BY <1>1, <2>1, SettlesStep
  <1>4. RunIds' = RunIds /\ \A x \in RunIds : executions'[x].agent = AgentOf(x)
    BY <1>3 DEF Moves, AgentOf
  <1>5. RunResult(outcome) \in RunStatuses \ ActiveStatuses
    BY DEF RunResult, RunStatuses, ActiveStatuses
  <1>6. /\ DOMAIN runs' = DOMAIN runs /\ DOMAIN runs \subseteq RunIds
        /\ \A x \in DOMAIN runs : /\ x = r => runs'[x] = RunResult(outcome)
                                  /\ x # r => runs'[x] = runs[x]
    BY <1>1, <1>2 DEF Shape
  <1>7. /\ DOMAIN agents' = DOMAIN agents
        /\ \A b \in DOMAIN agents :
              /\ b = a /\ writes => agents'[b] = AgentResult(agents[b], outcome)
              /\ ~(b = a /\ writes) => agents'[b] = agents[b]
    BY <1>1
  <1>8. \A status : AgentResult(status, outcome) \in AgentStatuses \ {"busy"}
    BY DEF AgentResult, AgentStatuses
  <1> HIDE DEF outcome, writes
  <1>9. Shape'
    <2>1. agents' \in [DOMAIN agents' -> AgentStatuses]
      BY <1>1, <1>2, <1>8 DEF Shape
    <2>2. runs' \in [DOMAIN runs' -> RunStatuses]
      BY <1>1, <1>2, <1>5 DEF Shape
    <2>3. QED
      BY <1>1, <1>2, <1>3, <1>4, <1>6, <1>7, <2>1, <2>2 DEF Shape, Moves
  <1>10. BirthOK'
    <2>1. \A x \in RunIds : executions[x].stage \in {"sending", "rejected"} =>
             executions'[x].stage \in {"sending", "rejected"}
      BY <1>1, <1>3
    <2>2. QED
      BY <1>1, <1>2, <1>3, <1>7, <2>1, BirthFrame
  <1>11. RunsOK'
    <2>1. ASSUME NEW x \in RunIds
          PROVE  /\ executions'[x].stage = "sending" => x \notin DOMAIN runs
                 /\ executions'[x].stage \in UnderWay /\ AgentOf(x) \in DOMAIN agents
                       => x \in DOMAIN runs
      BY <1>2, <1>3 DEF RunsOK, UnderWay
    <2>2. ASSUME NEW x \in DOMAIN runs
          PROVE  /\ AgentOf(x) \in DOMAIN agents
                 /\ executions'[x].stage \in UnderWay => runs'[x] \in ActiveStatuses
                 /\ executions'[x].stage = "done" => runs'[x] \notin ActiveStatuses
      <3>1. CASE x = r
        BY <1>2, <1>3, <1>5, <1>6, <3>1 DEF RunsOK, UnderWay
      <3>2. CASE x # r
        BY <1>2, <1>3, <1>6, <3>2 DEF RunsOK
      <3>3. QED
        BY <3>1, <3>2
    <2>3. ASSUME NEW b \in DOMAIN agents, agents'[b] = "busy"
          PROVE  \E x \in DOMAIN runs : AgentOf(x) = b /\ runs'[x] \in ActiveStatuses
      <3>1. agents[b] = "busy" /\ ~(b = a /\ writes)
        BY <1>7, <1>8, <2>3
      <3>2. PICK x \in DOMAIN runs : AgentOf(x) = b /\ runs[x] \in ActiveStatuses
        BY <1>2, <3>1 DEF RunsOK
      <3>3. x # r
        BY <3>1, <3>2 DEF writes
      <3>4. QED
        BY <1>6, <3>2, <3>3
    <2>4. QED
      BY <1>4, <1>6, <1>7, <2>1, <2>2, <2>3 DEF RunsOK, AgentOf
  <1>12. QED
    BY <1>3, <1>9, <1>10, <1>11 DEF ServiceInv

\* What the write of a command leaves of the Agents and the Runs.
LEMMA CommandWrites ==
    ASSUME ServiceInv, NEW command \in CommandRecord,
           Mutates(command) \/ UNCHANGED <<agents, runs>>,
           executions' = executions
    PROVE  /\ DOMAIN agents' \subseteq DOMAIN agents
           /\ agents' \in [DOMAIN agents' -> AgentStatuses]
           /\ DOMAIN runs' \subseteq DOMAIN runs
           /\ runs' \in [DOMAIN runs' -> RunStatuses]
           /\ RunsOK'
  <1> DEFINE a == command.agent
  <1>1. Shape /\ RunsOK
    BY DEF ServiceInv
  <1>2. /\ agents \in [DOMAIN agents -> AgentStatuses]
        /\ runs \in [DOMAIN runs -> RunStatuses] /\ DOMAIN runs \subseteq RunIds
        /\ RunIds' = RunIds /\ KeepRuns
    BY <1>1 DEF Shape, RunIds, KeepRuns
  <1>3. CASE UNCHANGED <<agents, runs>>
    BY <1>1, <1>2, <1>3, RunsFrame
  <1>4. ASSUME NEW status \in {"ready", "stopped"}, SetStatus(a, status)
        PROVE  /\ DOMAIN agents' = DOMAIN agents /\ runs' = runs
               /\ agents' \in [DOMAIN agents' -> AgentStatuses]
               /\ RunsOK'
    <2>1. agents' = [agents EXCEPT ![a] = status] /\ runs' = runs
      BY <1>4 DEF SetStatus
    <2>2. /\ DOMAIN agents' = DOMAIN agents
          /\ \A b \in DOMAIN agents : agents'[b] = "busy" => agents[b] = "busy"
      BY <1>2, <2>1
    <2>3. agents' \in [DOMAIN agents' -> AgentStatuses]
      BY <1>2, <2>1 DEF AgentStatuses
    <2>4. RunsOK'
      BY <1>1, <1>2, <2>1, <2>2 DEF RunsOK, AgentOf
    <2>5. QED
      BY <2>1, <2>2, <2>3, <2>4
  <1>5. CASE RemoveAgent(a)
    <2>1. /\ agents' = [x \in DOMAIN agents \ {a} |-> agents[x]]
          /\ runs' = [r \in {r \in DOMAIN runs : AgentOf(r) # a} |-> runs[r]]
      BY <1>5 DEF RemoveAgent
    <2>2. /\ DOMAIN agents' = DOMAIN agents \ {a}
          /\ \A b \in DOMAIN agents' : agents'[b] = agents[b]
          /\ DOMAIN runs' = {r \in DOMAIN runs : AgentOf(r) # a}
          /\ \A r \in DOMAIN runs' : runs'[r] = runs[r]
      BY <2>1
    <2>3. /\ agents' \in [DOMAIN agents' -> AgentStatuses]
          /\ runs' \in [DOMAIN runs' -> RunStatuses]
      BY <1>2, <2>1
    <2>4. RunsOK'
      <3>1. ASSUME NEW r \in RunIds
            PROVE  /\ executions[r].stage = "sending" => r \notin DOMAIN runs'
                   /\ executions[r].stage \in UnderWay /\ AgentOf(r) \in DOMAIN agents'
                         => r \in DOMAIN runs'
        BY <1>1, <2>2 DEF RunsOK
      <3>2. ASSUME NEW r \in DOMAIN runs'
            PROVE  /\ AgentOf(r) \in DOMAIN agents'
                   /\ executions[r].stage \in UnderWay => runs'[r] \in ActiveStatuses
                   /\ executions[r].stage = "done" => runs'[r] \notin ActiveStatuses
        BY <1>1, <2>2 DEF RunsOK
      <3>3. ASSUME NEW b \in DOMAIN agents', agents'[b] = "busy"
            PROVE  \E r \in DOMAIN runs' : AgentOf(r) = b /\ runs'[r] \in ActiveStatuses
        <4>1. PICK r \in DOMAIN runs : AgentOf(r) = b /\ runs[r] \in ActiveStatuses
          BY <1>1, <2>2, <3>3 DEF RunsOK
        <4>2. QED
          BY <2>2, <4>1
      <3>4. QED
        BY <1>2, <3>1, <3>2, <3>3 DEF RunsOK, AgentOf
    <2>5. QED
      BY <2>2, <2>3, <2>4
  <1>6. SetStatus(a, "ready") \/ SetStatus(a, "stopped") \/ RemoveAgent(a)
          \/ UNCHANGED <<agents, runs>>
    BY DEF Mutates
  <1>7. QED
    BY <1>2, <1>3, <1>4, <1>5, <1>6

\* The mutation of a start, a stop or a deletion, or its refusal.
LEMMA CommandStoredStep ==
    ASSUME ServiceInv, NEW c \in DOMAIN commands, CommandStored(c)
    PROVE  ServiceInv'
  <1>1. /\ AtHead(CommandOp(c))
        /\ Mutates(commands[c]) \/ UNCHANGED <<agents, runs>>
        /\ commands' = [commands EXCEPT ![c].wait = "done"]
        /\ queue' = Tail(queue)
        /\ UNCHANGED <<workspaces, archived, executions, active, flags, restarts>>
    BY DEF CommandStored
  <1>2. /\ Shape /\ QueueOK /\ CommandsOK /\ BirthOK
        /\ commands[c] \in CommandRecord /\ c \in Nat
    BY Indexes DEF ServiceInv
  <1>3. CommandMoves(c, "done") /\ KeepCommands
    <2>1. "done" \in Waits /\ 0 \in 0 .. MaxRuns
      BY AgentServiceAssumption DEF Waits
    <2>2. QED
      BY <1>1, <1>2, <2>1, WaitMoves
  <1>4. /\ DOMAIN agents' \subseteq DOMAIN agents
        /\ agents' \in [DOMAIN agents' -> AgentStatuses]
        /\ DOMAIN runs' \subseteq DOMAIN runs
        /\ runs' \in [DOMAIN runs' -> RunStatuses]
        /\ RunsOK'
    BY <1>1, <1>2, CommandWrites
  <1>5. RunIds' = RunIds /\ KeepRuns
    BY <1>1 DEF RunIds, KeepRuns
  <1>6. /\ queue' \in Seq(Op) /\ Distinct(queue')
        /\ \A y : Holds(queue', y) <=> Holds(queue, y) /\ y # CommandOp(c)
    BY <1>1, <1>2, Dequeued
  <1>7. QueueOK'
    <2>1. ASSUME NEW r \in Nat
          PROVE  Holds(queue', RunOp(r)) <=> r \in RunIds' /\ executions'[r].stage \in InStore
      <3>1. RunOp(r) # CommandOp(c)
        BY OpsDiffer
      <3>2. Holds(queue, RunOp(r)) <=> r \in RunIds /\ executions[r].stage \in InStore
        BY <1>2 DEF QueueOK
      <3>3. QED
        BY <1>1, <1>5, <1>6, <3>1, <3>2
    <2>2. ASSUME NEW x \in Nat
          PROVE  Holds(queue', CommandOp(x))
                    <=> x \in DOMAIN commands' /\ commands'[x].wait = "storing"
      <3>1. Holds(queue', CommandOp(x)) <=> Holds(queue, CommandOp(x)) /\ x # c
        BY <1>6, OpsDiffer
      <3>2. Holds(queue, CommandOp(x)) <=> x \in DOMAIN commands /\ commands[x].wait = "storing"
        BY <1>2 DEF QueueOK
      <3>3. QED
        BY <1>3, <3>1, <3>2 DEF CommandMoves
    <2>3. QED
      BY <1>6, <2>1, <2>2 DEF QueueOK
  <1>8. Shape'
    BY <1>1, <1>2, <1>3, <1>4, <1>5, <1>6 DEF Shape, CommandMoves
  <1>9. CommandsOK'
    BY <1>2, <1>3 DEF CommandsOK, CommandMoves
  <1>10. BirthOK'
    <2>1. \A a : Holds(queue', CreateOp(a)) => Holds(queue, CreateOp(a))
      BY <1>6
    <2>2. QED
      BY <1>1, <1>2, <1>3, <1>4, <1>5, <2>1, BirthFrame
  <1>11. QED
    BY <1>4, <1>7, <1>8, <1>9, <1>10 DEF ServiceInv

\* The row of a new Agent is stored, or refused.
LEMMA CreateStoredStep ==
    ASSUME ServiceInv, NEW a \in AgentIds, CreateStored(a)
    PROVE  ServiceInv'
  <1>1. /\ AtHead(CreateOp(a)) /\ queue' = Tail(queue)
        /\ UNCHANGED <<runs, workspaces, archived, executions, active, flags,
                       commands, restarts>>
    BY DEF CreateStored
  <1>2. Shape /\ QueueOK /\ CommandsOK /\ BirthOK /\ RunsOK
    BY DEF ServiceInv
  <1>3. /\ Holds(queue, CreateOp(a)) /\ queue' \in Seq(Op) /\ Distinct(queue')
        /\ \A y : Holds(queue', y) <=> Holds(queue, y) /\ y # CreateOp(a)
    BY <1>1, <1>2, Dequeued
  <1>4. /\ RunIds' = RunIds /\ KeepRuns /\ KeepCommands
        /\ \A x \in RunIds : executions'[x].agent = AgentOf(x)
    BY <1>1 DEF RunIds, KeepRuns, KeepCommands, AgentOf
  <1>5. QueueOK'
    <2>1. \A r \in Nat : Holds(queue', RunOp(r)) <=> Holds(queue, RunOp(r))
      BY <1>3, OpsDiffer
    <2>2. \A c \in Nat : Holds(queue', CommandOp(c)) <=> Holds(queue, CommandOp(c))
      BY <1>3, OpsDiffer
    <2>3. QED
      BY <1>1, <1>2, <1>3, <1>4, <2>1, <2>2 DEF QueueOK
  <1>6. CommandsOK'
    BY <1>1, <1>2, <1>4, CommandsFrame
  <1>7. /\ a \in workspaces /\ a \notin DOMAIN agents
        /\ \A r \in RunIds : AgentOf(r) = a => executions[r].stage \in {"sending", "rejected"}
    BY <1>2, <1>3 DEF BirthOK
  <1>8. CASE agents' = agents
    <2>1. Shape' /\ RunsOK'
      BY <1>1, <1>2, <1>3, <1>4, <1>8, RunsFrame DEF Shape
    <2>2. BirthOK'
      BY <1>1, <1>2, <1>3, <1>4, <1>8, BirthFrame
    <2>3. QED
      BY <1>5, <1>6, <2>1, <2>2 DEF ServiceInv
  <1>9. CASE agents' = [x \in DOMAIN agents \cup {a} |-> IF x = a THEN "ready" ELSE agents[x]]
    <2>1. /\ DOMAIN agents' = DOMAIN agents \cup {a}
          /\ agents'[a] = "ready" /\ \A b \in DOMAIN agents : agents'[b] = agents[b]
      BY <1>7, <1>9
    <2>2. Shape'
      <3>1. agents' \in [DOMAIN agents' -> AgentStatuses] /\ DOMAIN agents' \subseteq AgentIds
        BY <1>2, <1>9 DEF Shape, AgentStatuses
      <3>2. QED
        BY <1>1, <1>2, <1>3, <1>4, <3>1 DEF Shape
    <2>3. BirthOK'
      <3>1. DOMAIN agents' \subseteq workspaces \cup archived
        BY <1>2, <1>7, <2>1 DEF BirthOK
      <3>2. ASSUME NEW b \in AgentIds, Holds(queue', CreateOp(b))
            PROVE  Holds(queue, CreateOp(b)) /\ b \notin DOMAIN agents'
        <4>1. Holds(queue, CreateOp(b)) /\ b # a
          BY <1>3, <3>2
        <4>2. QED
          BY <1>2, <2>1, <4>1 DEF BirthOK
      <3>3. QED
        BY <1>1, <1>2, <1>4, <3>1, <3>2 DEF BirthOK, AgentOf
    <2>4. RunsOK'
      <3>1. ASSUME NEW r \in RunIds
            PROVE  /\ executions[r].stage = "sending" => r \notin DOMAIN runs
                   /\ executions[r].stage \in UnderWay /\ AgentOf(r) \in DOMAIN agents'
                         => r \in DOMAIN runs
        BY <1>2, <1>7, <2>1 DEF RunsOK, UnderWay
      <3>2. ASSUME NEW r \in DOMAIN runs
            PROVE  /\ AgentOf(r) \in DOMAIN agents'
                   /\ executions[r].stage \in UnderWay => runs[r] \in ActiveStatuses
                   /\ executions[r].stage = "done" => runs[r] \notin ActiveStatuses
        BY <1>2, <2>1 DEF RunsOK
      <3>3. ASSUME NEW b \in DOMAIN agents', agents'[b] = "busy"
            PROVE  \E r \in DOMAIN runs : AgentOf(r) = b /\ runs[r] \in ActiveStatuses
        <4>1. b \in DOMAIN agents /\ agents[b] = "busy"
          BY <2>1, <3>3
        <4>2. QED
          BY <1>2, <4>1 DEF RunsOK
      <3>4. QED
        BY <1>1, <1>4, <3>1, <3>2, <3>3 DEF RunsOK, AgentOf
    <2>5. QED
      BY <1>5, <1>6, <2>2, <2>3, <2>4 DEF ServiceInv
  <1>10. QED
    BY <1>8, <1>9 DEF CreateStored

-----------------------------------------------------------------------------
(* Crashes, and the theorem of the invariant. *)

\* A crash, and the repair by initialize.
LEMMA RestartStep ==
    ASSUME ServiceInv, Restart
    PROVE  ServiceInv'
  <1>1. /\ restarts' = restarts + 1
        /\ runs' = [r \in DOMAIN runs |->
                       IF runs[r] \in ActiveStatuses THEN "cancelled" ELSE runs[r]]
        /\ agents' = [a \in DOMAIN agents |->
                         IF agents[a] = "busy" THEN "ready" ELSE agents[a]]
        /\ executions' = [r \in RunIds |->
               IF executions[r].stage = "done" THEN executions[r]
               ELSE [executions[r] EXCEPT !.stage = "rejected", !.container = "none"]]
        /\ commands' = [c \in DOMAIN commands |-> [commands[c] EXCEPT !.wait = "done"]]
        /\ queue' = <<>>
        /\ active' = [a \in AgentIds |-> 0]
        /\ flags' = {}
        /\ UNCHANGED <<workspaces, archived>>
    BY DEF Restart
  <1>2. Shape /\ QueueOK /\ CommandsOK /\ BirthOK /\ RunsOK
    BY DEF ServiceInv
  <1>3. /\ RunIds = 1 .. Len(executions) /\ DOMAIN commands = 1 .. Len(commands)
        /\ Len(executions) \in Nat /\ Len(commands) \in Nat /\ Len(executions) <= MaxRuns
        /\ \A r \in RunIds : executions[r] \in Execution
        /\ \A c \in DOMAIN commands : commands[c] \in CommandRecord
    BY <1>2, Indexes DEF Shape
  <1>4. ASSUME NEW r \in RunIds
        PROVE  /\ executions'[r] \in Execution /\ executions'[r].agent = AgentOf(r)
               /\ executions'[r].stage \in {"done", "rejected"}
               /\ executions'[r].stage = "done" => executions[r].stage = "done"
    <2>1. CASE executions[r].stage = "done"
      BY <1>1, <1>3, <2>1 DEF AgentOf
    <2>2. CASE executions[r].stage # "done"
      <3>1. executions'[r] = [executions[r] EXCEPT !.stage = "rejected", !.container = "none"]
        BY <1>1, <2>2
      <3>2. QED
        BY <1>3, <3>1 DEF Execution, Stages, ContainerStates, AgentOf
    <2>3. QED
      BY <2>1, <2>2
  <1>5. /\ executions' \in Seq(Execution) /\ Len(executions') = Len(executions)
        /\ RunIds' = RunIds
    <2>1. executions' = [r \in 1 .. Len(executions) |-> executions'[r]]
      BY <1>1, <1>3
    <2>2. QED
      BY <1>3, <1>4, <2>1 DEF RunIds
  <1>6. ASSUME NEW c \in DOMAIN commands
        PROVE  /\ commands'[c] \in CommandRecord /\ commands'[c].wait = "done"
               /\ commands'[c].kind = commands[c].kind /\ commands'[c].agent = commands[c].agent
    <2>1. commands'[c] = [commands[c] EXCEPT !.wait = "done"]
      BY <1>1
    <2>2. QED
      BY <1>3, <2>1 DEF CommandRecord, Waits
  <1>7. /\ commands' \in Seq(CommandRecord) /\ DOMAIN commands' = DOMAIN commands
    <2>1. commands' = [c \in 1 .. Len(commands) |-> commands'[c]]
      BY <1>1, <1>3
    <2>2. QED
      BY <1>3, <1>6, <2>1
  <1>8. /\ DOMAIN runs' = DOMAIN runs
        /\ \A r \in DOMAIN runs : /\ runs'[r] \in RunStatuses \ ActiveStatuses
        /\ runs' \in [DOMAIN runs' -> RunStatuses]
    BY <1>1, <1>2 DEF Shape, RunStatuses, ActiveStatuses
  <1>9. /\ DOMAIN agents' = DOMAIN agents
        /\ agents' \in [DOMAIN agents' -> AgentStatuses]
        /\ \A a \in DOMAIN agents : agents'[a] # "busy"
    BY <1>1, <1>2 DEF Shape, AgentStatuses
  <1>10. /\ queue' \in Seq(Op) /\ Distinct(queue') /\ \A y : ~Holds(queue', y)
    <2>1. queue' = <<>>
      BY <1>1
    <2>2. QED
      BY <2>1 DEF Distinct, Holds
  <1>11. Shape'
    <2>1. active' \in [AgentIds -> {0} \cup RunIds'] /\ flags' \subseteq AgentIds
      BY <1>1
    <2>2. Len(executions') <= MaxRuns /\ restarts' \in Nat
      <3>1. restarts' = restarts + 1
        BY <1>1
      <3>2. QED
        BY <1>2, <1>3, <1>5, <3>1 DEF Shape
    <2>3. QED
      BY <1>1, <1>2, <1>5, <1>7, <1>8, <1>9, <1>10, <2>1, <2>2 DEF Shape
  <1>12. QueueOK'
    BY <1>4, <1>5, <1>6, <1>7, <1>10 DEF QueueOK, InStore
  <1>13. CommandsOK'
    BY <1>2, <1>6, <1>7 DEF CommandsOK
  <1>14. BirthOK'
    BY <1>1, <1>2, <1>4, <1>5, <1>6, <1>7, <1>9, <1>10 DEF BirthOK, AgentOf
  <1>15. RunsOK'
    <2>1. \A r \in DOMAIN runs : r \in RunIds /\ AgentOf(r) \in DOMAIN agents
      BY <1>2 DEF Shape, RunsOK
    <2>2. QED
      BY <1>4, <1>5, <1>8, <1>9, <2>1 DEF RunsOK, UnderWay, AgentOf
  <1>16. QED
    BY <1>11, <1>12, <1>13, <1>14, <1>15 DEF ServiceInv

\* The invariant holds of a server that has just started.
LEMMA ServiceInit ==
    ASSUME Init
    PROVE  ServiceInv
  <1>1. PICK present \in SUBSET AgentIds :
           agents = [a \in present |-> "ready"] /\ workspaces = present
    BY DEF Init
  <1>2. /\ archived = {} /\ runs = [r \in {} |-> "queued"] /\ queue = <<>>
        /\ executions = <<>> /\ active = [a \in AgentIds |-> 0]
        /\ flags = {} /\ commands = <<>> /\ restarts = 0
    BY DEF Init
  <1>3. /\ RunIds = {} /\ DOMAIN commands = {} /\ DOMAIN runs = {}
        /\ DOMAIN agents = present /\ \A a \in present : agents[a] = "ready"
        /\ \A y : ~Holds(queue, y)
    BY <1>1, <1>2 DEF RunIds, Holds
  <1>4. Shape
    <2>1. /\ executions \in Seq(Execution) /\ Len(executions) <= MaxRuns
          /\ queue \in Seq(Op) /\ commands \in Seq(CommandRecord) /\ restarts \in Nat
      BY <1>2, AgentServiceAssumption
    <2>2. agents \in [DOMAIN agents -> AgentStatuses] /\ runs \in [DOMAIN runs -> RunStatuses]
      BY <1>1, <1>2 DEF AgentStatuses
    <2>3. QED
      BY <1>1, <1>2, <1>3, <2>1, <2>2 DEF Shape
  <1>5. QueueOK
    BY <1>2, <1>3 DEF QueueOK, Distinct
  <1>6. CommandsOK /\ BirthOK /\ RunsOK
    BY <1>1, <1>3 DEF CommandsOK, BirthOK, RunsOK
  <1>7. QED
    BY <1>4, <1>5, <1>6 DEF ServiceInv

\* Every step keeps the invariant.
LEMMA ServiceStep ==
    ASSUME ServiceInv, [Next]_svars
    PROVE  ServiceInv'
  <1>1. CASE UNCHANGED svars
    BY <1>1 DEF svars, ServiceInv, Shape, QueueOK, CommandsOK, BirthOK, RunsOK,
                RunIds, AgentOf
  <1>2. ASSUME NEW a \in AgentIds, CreateAgent(a) \/ SendMessage(a)
        PROVE  ServiceInv'
    BY <1>2, CreateAgentStep, SendMessageStep
  <1>3. ASSUME NEW kind \in Kinds, Command(kind)
        PROVE  ServiceInv'
    BY <1>3, CommandStep
  <1>4. ASSUME NEW r \in RunIds, RunSteps(r)
        PROVE  ServiceInv'
    BY <1>4, BeginRunAnsweredStep, ContainerMovesStep, ContainerExitsStep, EndRunAnsweredStep
       DEF RunSteps
  <1>5. ASSUME NEW c \in DOMAIN commands, CommandSteps(c)
        PROVE  ServiceInv'
    BY <1>5, TerminatedStep, ArchiveWorkspaceStep DEF CommandSteps
  <1>6. CASE Stored
    BY <1>6, SendStoredStep, SendRefusedStep, BeginStoredStep, BeginRefusedStep,
       ResultStoredStep, ResultRefusedStep, CommandStoredStep, CreateStoredStep DEF Stored
  <1>7. CASE Restart
    BY <1>7, RestartStep
  <1>8. QED
    BY <1>1, <1>2, <1>3, <1>4, <1>5, <1>6, <1>7 DEF Next

(***************************************************************************)
(* The inductive invariant: queued mutations belong to whoever waits for   *)
(* them (agent-service.ts and store.ts), ids are used once, and every busy *)
(* Agent has an active Run.                                                *)
(***************************************************************************)
THEOREM ServiceInvariant == ServiceSpec => []ServiceInv
  <1>1. Init => ServiceInv
    BY ServiceInit
  <1>2. ServiceInv /\ [Next]_svars => ServiceInv'
    BY ServiceStep
  <1>3. QED
    BY <1>1, <1>2, PTL DEF ServiceSpec

-----------------------------------------------------------------------------
(* What follows from the invariant alone. *)

\* A set whose members are all the same has at most one.
LEMMA AtMostOne ==
    ASSUME NEW S, \A x, y \in S : x = y
    PROVE  Cardinality(S) <= 1
  <1>1. CASE S = {}
    BY <1>1, FS_EmptySet
  <1>2. ASSUME NEW x \in S
        PROVE  Cardinality(S) <= 1
    <2>1. S = {x}
      OBVIOUS
    <2>2. QED
      BY <2>1, FS_Singleton
  <1>3. QED
    BY <1>1, <1>2

(***************************************************************************)
(* Agents, Runs, commands and the write queue keep their shape, and every  *)
(* queued mutation is the next step of exactly one caller.                 *)
(***************************************************************************)
THEOREM ServiceTypeCorrect == ServiceSpec => []ServiceTypeOK
  <1>1. ServiceInv => ServiceTypeOK
    <2> SUFFICES ASSUME ServiceInv PROVE ServiceTypeOK
      OBVIOUS
    <2>1. Shape /\ QueueOK
      BY DEF ServiceInv
    <2>2. DOMAIN queue = 1 .. Len(queue)
      BY <2>1 DEF Shape
    <2>3. ASSUME NEW r \in RunIds
          PROVE  executions[r].stage \in {"sending", "starting", "settling"}
                    <=> \E i \in DOMAIN queue : queue[i] = RunOp(r)
      BY <2>1, <2>2, Indexes DEF QueueOK, Holds, InStore
    <2>4. ASSUME NEW c \in DOMAIN commands
          PROVE  commands[c].wait = "storing"
                    <=> \E i \in DOMAIN queue : queue[i] = CommandOp(c)
      BY <2>1, <2>2, Indexes DEF QueueOK, Holds
    <2>5. /\ executions \in Seq([agent : AgentIds, stage : Stages, outcome : Outcomes,
                                 cancelled : BOOLEAN, container : ContainerStates])
          /\ commands \in Seq([kind : CommandKinds, agent : AgentIds, run : 0 .. MaxRuns,
                               wait : Waits, on : 0 .. MaxRuns])
      BY <2>1 DEF Shape, Execution, CommandRecord
    <2>6. /\ DOMAIN agents \subseteq AgentIds /\ \A a \in DOMAIN agents : agents[a] \in AgentStatuses
          /\ DOMAIN runs \subseteq RunIds /\ \A r \in DOMAIN runs : runs[r] \in RunStatuses
          /\ workspaces \subseteq AgentIds /\ archived \subseteq AgentIds \ workspaces
          /\ active \in [AgentIds -> {0} \cup RunIds]
          /\ flags \subseteq AgentIds
      BY <2>1 DEF Shape
    <2>7. QED
      BY <2>3, <2>4, <2>5, <2>6 DEF ServiceTypeOK
  <1>2. QED
    BY <1>1, ServiceInvariant, PTL

(***************************************************************************)
(* A busy Agent has an active Run, and every stored Run a stored Agent, in *)
(* whatever order results, stops, deletions, failed writes and crashes     *)
(* come (sendMessage, executeRun, deleteAgent and initialize).             *)
(***************************************************************************)
THEOREM AgentsAgree == ServiceSpec => []AgentsAndRunsAgree
  <1>1. ServiceInv => AgentsAndRunsAgree
    <2> SUFFICES ASSUME ServiceInv PROVE AgentsAndRunsAgree
      OBVIOUS
    <2>1. RunsOK
      BY DEF ServiceInv
    <2>2. \A a \in DOMAIN agents : agents[a] = "busy" => ActiveRuns(a) # {}
      BY <2>1 DEF RunsOK, ActiveRuns
    <2>3. QED
      BY <2>1, <2>2 DEF RunsOK, AgentsAndRunsAgree
  <1>2. QED
    BY <1>1, ServiceInvariant, PTL

-----------------------------------------------------------------------------
(* The stored outcome of a Run. *)

FinalStays ==
    \A r \in DOMAIN runs :
        runs[r] \notin ActiveStatuses /\ r \in DOMAIN runs' => runs'[r] = runs[r]

\* No step rewrites a final outcome: all who write a status hold a Run that goes on.
LEMMA FinalStep ==
    ASSUME ServiceInv, [Next]_svars
    PROVE  FinalStays
  <1>1. Shape /\ RunsOK /\ DOMAIN runs \subseteq RunIds
    BY DEF ServiceInv, Shape
  <1>2. CASE runs' = runs
    BY <1>2 DEF FinalStays
  <1>3. ASSUME NEW r \in RunIds, SendStored(r)
        PROVE  FinalStays
    <2>1. /\ executions[r].stage = "sending"
          /\ runs' = [x \in DOMAIN runs \cup {r} |-> IF x = r THEN "queued" ELSE runs[x]]
      BY <1>3 DEF SendStored
    <2>2. r \notin DOMAIN runs
      BY <1>1, <2>1 DEF RunsOK
    <2>3. QED
      BY <2>1, <2>2 DEF FinalStays
  <1>4. ASSUME NEW r \in RunIds, BeginStored(r) \/ ResultStored(r)
        PROVE  FinalStays
    <2>1. /\ executions[r].stage \in UnderWay
          /\ \A x \in DOMAIN runs : x # r => runs'[x] = runs[x]
      BY <1>4 DEF BeginStored, ResultStored, UnderWay
    <2>2. r \in DOMAIN runs => runs[r] \in ActiveStatuses
      BY <1>1, <2>1 DEF RunsOK
    <2>3. QED
      BY <2>1, <2>2 DEF FinalStays
  <1>5. ASSUME NEW command, Mutates(command)
        PROVE  FinalStays
    <2>1. \/ runs' = runs
          \/ runs' = [r \in {r \in DOMAIN runs : AgentOf(r) # command.agent} |-> runs[r]]
      BY <1>5 DEF Mutates, SetStatus, RemoveAgent
    <2>2. QED
      BY <2>1 DEF FinalStays
  <1>6. CASE Restart
    BY <1>6 DEF Restart, FinalStays
  <1>7. ASSUME NEW r \in RunIds, SendRefused(r) \/ BeginRefused(r) \/ ResultRefused(r)
        PROVE  runs' = runs
    BY <1>7 DEF SendRefused, BeginRefused, ResultRefused
  <1>8. CASE Stored
    <2>1. ASSUME NEW c \in DOMAIN commands, CommandStored(c)
          PROVE  Mutates(commands[c]) \/ runs' = runs
      BY <2>1 DEF CommandStored
    <2>2. ASSUME NEW a \in AgentIds, CreateStored(a)
          PROVE  runs' = runs
      BY <2>2 DEF CreateStored
    <2>3. QED
      BY <1>2, <1>3, <1>4, <1>5, <1>7, <1>8, <2>1, <2>2 DEF Stored
  <1>9. ASSUME NEW r \in RunIds, RunSteps(r)
        PROVE  runs' = runs
    BY <1>9 DEF RunSteps, BeginRunAnswered, ContainerStarts, RuntimeTimesOut, ContainerExits,
               EndRunAnswered
  <1>10. ASSUME NEW c \in DOMAIN commands, CommandSteps(c)
         PROVE  runs' = runs
    BY <1>10 DEF CommandSteps, Terminated, ArchiveWorkspace
  <1>11. ASSUME NEW kind \in Kinds, Command(kind)
         PROVE  runs' = runs
    BY <1>11 DEF Command
  <1>12. ASSUME NEW a \in AgentIds, CreateAgent(a) \/ SendMessage(a)
         PROVE  runs' = runs
    BY <1>12 DEF CreateAgent, SendMessage
  <1>13. CASE UNCHANGED svars
    BY <1>2, <1>13 DEF svars
  <1>14. QED
    BY <1>2, <1>6, <1>8, <1>9, <1>10, <1>11, <1>12, <1>13 DEF Next

(***************************************************************************)
(* A Run that has been stored as completed, failed or cancelled stays so,  *)
(* whatever writes were refused and whatever was lost in crashes.          *)
(***************************************************************************)
THEOREM FinalStands == ServiceSpec => FinalStatusStands
  <1>1. ServiceInv /\ [Next]_svars =>
           [\A r \in DOMAIN runs :
               runs[r] \notin ActiveStatuses /\ r \in DOMAIN runs' => runs'[r] = runs[r]]_svars
    BY FinalStep DEF FinalStays
  <1>2. QED
    BY <1>1, ServiceInvariant, PTL DEF ServiceSpec, FinalStatusStands

-----------------------------------------------------------------------------
(***************************************************************************)
(* Without stops, the status of the Agent admits one Run at a time.  (A    *)
(* stop sets the Agent stopped while its Run may be far from over, and a   *)
(* start then lets a second one in: run AgentServiceStopRace.)             *)
(***************************************************************************)

\* A step that stores nothing and starts no execution that had been rejected.
Quiet ==
    /\ KeepRuns /\ UNCHANGED <<agents, runs, active>>
    /\ \A r \in RunIds :
          executions[r].stage = "rejected" => executions'[r].stage = "rejected"

\* What stores nothing leaves OneEach alone.
LEMMA OneEachFrame ==
    ASSUME Shape, OneEach, Quiet
    PROVE  OneEach'
  <1>1. /\ DOMAIN runs \subseteq RunIds
        /\ \A r \in RunIds : executions'[r].agent = AgentOf(r)
    BY DEF Shape, Quiet, KeepRuns, AgentOf
  <1>2. ASSUME NEW r \in DOMAIN runs, runs[r] \in ActiveStatuses
        PROVE  /\ agents[AgentOf(r)] = "busy"
               /\ executions'[r].stage # "rejected" => active[AgentOf(r)] = r
               /\ \A s \in DOMAIN runs :
                     runs[s] \in ActiveStatuses /\ AgentOf(s) = AgentOf(r) => s = r
    BY <1>1, <1>2 DEF OneEach, Quiet
  <1>3. QED
    BY <1>1, <1>2 DEF OneEach, Quiet, AgentOf

\* What clients, containers and the broker do is quiet.
LEMMA QuietSteps ==
    ASSUME ServiceInv,
           \/ \E a \in AgentIds : CreateAgent(a) \/ SendMessage(a)
           \/ \E kind \in Kinds : Command(kind)
           \/ \E r \in RunIds : RunSteps(r)
           \/ \E c \in DOMAIN commands : CommandSteps(c)
    PROVE  Quiet
  <1>1. /\ Shape /\ executions \in Seq(Execution) /\ RunIds = 1 .. Len(executions)
        /\ Len(executions) \in Nat /\ \A r \in RunIds : executions[r] \in Execution
    BY Indexes DEF ServiceInv, Shape
  <1>2. ASSUME executions' = executions, UNCHANGED <<agents, runs, active>>
        PROVE  Quiet
    BY <1>2 DEF Quiet, KeepRuns, RunIds
  <1>3. ASSUME SameStages, UNCHANGED <<agents, runs, active>>
        PROVE  Quiet
    BY <1>3 DEF Quiet, KeepRuns, SameStages
  <1>4. ASSUME NEW r \in RunIds, NEW stage, Moves(r, stage), executions[r].stage # "rejected",
               UNCHANGED <<agents, runs, active>>
        PROVE  Quiet
    <2>1. KeepRuns /\ \A x \in RunIds : executions'[x].stage
                           = IF x = r THEN stage ELSE executions[x].stage
      BY <1>1, <1>4, MovesKeeps
    <2>2. QED
      BY <1>4, <2>1 DEF Quiet
  <1>5. ASSUME NEW a \in AgentIds, CreateAgent(a) PROVE Quiet
    BY <1>2, <1>5 DEF CreateAgent
  <1>6. ASSUME NEW a \in AgentIds, SendMessage(a) PROVE Quiet
    <2> DEFINE new == [agent |-> a, stage |-> "sending", outcome |-> "none", cancelled |-> FALSE,
                    container |-> "none"]
    <2>1. executions' = Append(executions, new) /\ UNCHANGED <<agents, runs, active>>
      BY <1>6 DEF SendMessage
    <2>2. new \in Execution /\ new.stage = "sending"
      BY DEF Execution, Stages, Outcomes, ContainerStates
    <2> HIDE DEF new
    <2>3. /\ RunIds' = 1 .. Len(executions) + 1
          /\ \A x \in RunIds : executions'[x] = executions[x]
          /\ executions'[Len(executions) + 1] = new
      BY <1>1, <2>1, <2>2 DEF RunIds
    <2>4. RunIds \subseteq RunIds' /\ \A x \in RunIds' : x \notin RunIds => x = Len(executions) + 1
      BY <1>1, <2>3
    <2>5. QED
      BY <2>1, <2>2, <2>3, <2>4 DEF Quiet, KeepRuns
  <1>7. ASSUME NEW kind \in Kinds, Command(kind) PROVE Quiet
    <2>1. UNCHANGED <<agents, runs, active>>
      BY <1>7 DEF Command
    <2>2. ASSUME NEW up \in RunIds, Cancels(up)
          PROVE  SameStages
      BY <1>1, <2>2, CancelsStages
    <2>3. ASSUME NEW k, NEW a, NEW r, CancelExecution(k, a, r)
          PROVE  Quiet
      <3>1. CASE executions' = executions
        BY <1>2, <2>1, <3>1
      <3>2. CASE \E up \in Containers(a) : Cancels(up)
        BY <1>3, <2>1, <2>2, <3>2 DEF Containers
      <3>3. QED
        BY <2>3, <3>1, <3>2 DEF CancelExecution
    <2>4. ASSUME NEW r \in RunIds, Deadline(r)
          PROVE  Quiet
      <3>1. CASE executions' = executions
        BY <1>2, <2>1, <3>1
      <3>2. CASE \E up \in Containers(AgentOf(r)) : Cancels(up)
        BY <1>3, <2>1, <2>2, <3>2 DEF Containers
      <3>3. QED
        BY <2>4, <3>1, <3>2 DEF Deadline
    <2>5. ASSUME NEW a \in AgentIds, StartAgent(a)
          PROVE  Quiet
      BY <1>2, <2>1, <2>5 DEF StartAgent
    <2>6. QED
      BY <1>7, <2>3, <2>4, <2>5 DEF Command, CancelRun
  <1>8. ASSUME NEW r \in RunIds, RunSteps(r) PROVE Quiet
    <2>1. UNCHANGED <<agents, runs, active>> /\ executions[r].stage # "rejected"
      BY <1>8 DEF RunSteps, BeginRunAnswered, ContainerStarts, RuntimeTimesOut, ContainerExits,
               EndRunAnswered
    <2>2. executions[r].outcome \in Outcomes /\ executions[r].container \in ContainerStates
      BY <1>1 DEF Execution
    <2>3. CASE BeginRunAnswered(r) \/ ContainerExits(r) \/ EndRunAnswered(r)
      <3>1. PICK stage \in {"running", "ending", "settling"}, outcome \in Outcomes,
                 container \in ContainerStates :
             \/ executions' = [executions EXCEPT ![r].stage = stage, ![r].outcome = outcome]
             \/ executions' = [executions EXCEPT ![r].stage = stage, ![r].container = container]
             \/ executions' = [executions EXCEPT ![r].stage = stage, ![r].outcome = outcome,
                                                 ![r].container = container]
        <4>1. /\ {"ok", "cancelled", "failed"} \subseteq Outcomes
              /\ {"starting", "none"} \subseteq ContainerStates
          BY DEF Outcomes, ContainerStates
        <4>2. CASE BeginRunAnswered(r)
          BY <2>2, <4>1, <4>2 DEF BeginRunAnswered, QueueResult
        <4>3. CASE ContainerExits(r)
          <5>1. PICK outcome \in Outcomes :
                   executions' = [executions EXCEPT ![r].stage = "ending", ![r].outcome = outcome,
                                                    ![r].container = "none"]
            BY <4>3 DEF ContainerExits, Ends, Outcomes
          <5>2. QED
            BY <4>1, <5>1
        <4>4. CASE EndRunAnswered(r)
          BY <2>2, <4>1, <4>4 DEF EndRunAnswered, QueueResult
        <4>5. QED
          BY <2>3, <4>2, <4>3, <4>4
      <3>2. Moves(r, stage)
        BY <1>1, <3>1, StageMoves, ContainerMoves DEF Stages
      <3>3. QED
        BY <1>4, <2>1, <3>2
    <2>4. CASE ContainerStarts(r) \/ RuntimeTimesOut(r)
      <3>1. PICK container \in ContainerStates :
               executions' = [executions EXCEPT ![r].container = container]
        <4>1. "up" \in ContainerStates
          BY DEF ContainerStates
        <4>2. QED
          BY <2>2, <2>4, <4>1, RemovalType DEF ContainerStarts, RuntimeTimesOut
      <3>2. Moves(r, "running")
        BY <1>1, <2>4, <3>1, ContainerMoves
           DEF ContainerStarts, RuntimeTimesOut, Stages, Outcomes
      <3>3. QED
        BY <1>4, <2>1, <3>2
    <2>5. QED
      BY <1>8, <2>3, <2>4 DEF RunSteps
  <1>9. ASSUME NEW c \in DOMAIN commands, CommandSteps(c) PROVE Quiet
    BY <1>2, <1>9 DEF CommandSteps, Terminated, ArchiveWorkspace
  <1>10. QED
    BY <1>5, <1>6, <1>7, <1>8, <1>9

\* An execution that settles was not the one another active Run is found by.
LEMMA OneEachRejected ==
    ASSUME ServiceInv, OneEach, NEW r \in RunIds, AtHead(RunOp(r)), Settles(r, "rejected"),
           UNCHANGED <<agents, runs>>
    PROVE  OneEach'
  <1>1. /\ Moves(r, "rejected")
        /\ \A x \in RunIds : executions'[x].stage
               = IF x = r THEN "rejected" ELSE executions[x].stage
    BY SettlesStep
  <1>2. /\ \A x \in RunIds : executions'[x].agent = AgentOf(x)
        /\ DOMAIN runs \subseteq RunIds
        /\ \A x \in RunIds : AgentOf(x) \in AgentIds
        /\ active \in [AgentIds -> {0} \cup RunIds]
    BY <1>1, Indexes DEF Moves, AgentOf, ServiceInv, Shape
  <1>3. active' = [active EXCEPT ![AgentOf(r)] = IF @ = r THEN 0 ELSE @]
    BY DEF Settles
  <1>4. \A a \in AgentIds : active[a] # r => active'[a] = active[a]
    BY <1>2, <1>3
  <1>5. ASSUME NEW x \in DOMAIN runs, runs[x] \in ActiveStatuses
        PROVE  /\ agents[AgentOf(x)] = "busy"
               /\ executions'[x].stage # "rejected" => active'[AgentOf(x)] = x
               /\ \A y \in DOMAIN runs :
                     runs[y] \in ActiveStatuses /\ AgentOf(y) = AgentOf(x) => y = x
    <2>1. /\ agents[AgentOf(x)] = "busy"
          /\ executions[x].stage # "rejected" => active[AgentOf(x)] = x
          /\ \A y \in DOMAIN runs :
                runs[y] \in ActiveStatuses /\ AgentOf(y) = AgentOf(x) => y = x
      BY <1>5 DEF OneEach
    <2>2. QED
      BY <1>1, <1>2, <1>4, <2>1
  <1>6. QED
    BY <1>2, <1>5 DEF OneEach, AgentOf

\* A Run is accepted only for an Agent that is not busy, hence has no active Run.
LEMMA OneEachSendStored ==
    ASSUME ServiceInv, OneEach, NEW r \in RunIds, SendStored(r)
    PROVE  OneEach'
  <1> DEFINE a == AgentOf(r)
  <1>1. /\ executions[r].stage = "sending"
        /\ a \in DOMAIN agents /\ agents[a] # "busy"
        /\ runs' = [x \in DOMAIN runs \cup {r} |-> IF x = r THEN "queued" ELSE runs[x]]
        /\ agents' = [agents EXCEPT ![a] = "busy"]
        /\ executions' = [executions EXCEPT ![r].stage = "starting"]
        /\ active' = [active EXCEPT ![a] = r]
    BY DEF SendStored, Accepts
  <1>2. /\ Shape /\ RunsOK /\ a \in AgentIds /\ DOMAIN runs \subseteq RunIds
        /\ active \in [AgentIds -> {0} \cup RunIds]
        /\ \A x \in DOMAIN runs : AgentOf(x) \in DOMAIN agents /\ AgentOf(x) \in AgentIds
    BY Indexes DEF ServiceInv, Shape, RunsOK
  <1>3. Moves(r, "starting")
    BY <1>1, <1>2, StageMoves DEF Stages, Outcomes
  <1>4. /\ \A x \in RunIds : executions'[x].agent = AgentOf(x)
        /\ \A x \in RunIds : x # r => executions'[x] = executions[x]
    BY <1>3 DEF Moves, AgentOf
  <1>5. \A x \in DOMAIN runs : runs[x] \in ActiveStatuses => AgentOf(x) # a
    BY <1>1 DEF OneEach
  <1>6. /\ DOMAIN runs' = DOMAIN runs \cup {r} /\ r \notin DOMAIN runs
        /\ \A x \in DOMAIN runs : runs'[x] = runs[x]
        /\ agents'[a] = "busy" /\ active'[a] = r
        /\ \A b \in DOMAIN agents : b # a => agents'[b] = agents[b]
        /\ \A b \in AgentIds : b # a => active'[b] = active[b]
    BY <1>1, <1>2 DEF RunsOK
  <1>7. ASSUME NEW x \in DOMAIN runs', runs'[x] \in ActiveStatuses
        PROVE  /\ agents'[AgentOf(x)] = "busy"
               /\ executions'[x].stage # "rejected" => active'[AgentOf(x)] = x
               /\ \A y \in DOMAIN runs' :
                     runs'[y] \in ActiveStatuses /\ AgentOf(y) = AgentOf(x) => y = x
    <2>1. CASE x = r
      BY <1>5, <1>6, <2>1
    <2>2. CASE x # r
      <3>1. x \in DOMAIN runs /\ runs[x] \in ActiveStatuses /\ AgentOf(x) # a
        BY <1>5, <1>6, <1>7, <2>2
      <3>2. /\ agents[AgentOf(x)] = "busy"
            /\ executions[x].stage # "rejected" => active[AgentOf(x)] = x
            /\ \A y \in DOMAIN runs :
                  runs[y] \in ActiveStatuses /\ AgentOf(y) = AgentOf(x) => y = x
        BY <3>1 DEF OneEach
      <3>3. QED
        BY <1>2, <1>4, <1>6, <2>2, <3>1, <3>2
    <2>3. QED
      BY <2>1, <2>2
  <1>8. \A x \in DOMAIN runs' : x \in RunIds
    BY <1>2, <1>6
  <1>9. QED
    BY <1>4, <1>7, <1>8 DEF OneEach, AgentOf

\* A Run that is marked as running was active before.
LEMMA OneEachBeginStored ==
    ASSUME ServiceInv, OneEach, NEW r \in RunIds, BeginStored(r)
    PROVE  OneEach'
  <1>1. /\ executions[r].stage = "starting"
        /\ runs' = [x \in DOMAIN runs |-> IF x = r THEN "running" ELSE runs[x]]
        /\ UNCHANGED <<agents, active>>
        /\ \/ executions' = [executions EXCEPT ![r].stage = "settling",
                                               ![r].outcome = "cancelled"]
           \/ executions' = [executions EXCEPT ![r].stage = "minting"]
    BY DEF BeginStored
  <1>2. /\ Shape /\ DOMAIN runs \subseteq RunIds
        /\ r \in DOMAIN runs => runs[r] \in ActiveStatuses
    BY <1>1 DEF ServiceInv, Shape, RunsOK, UnderWay
  <1>3. Moves(r, "settling") \/ Moves(r, "minting")
    BY <1>1, <1>2, StageMoves DEF Stages, Outcomes
  <1>4. /\ \A x \in RunIds : executions'[x].agent = AgentOf(x)
        /\ \A x \in RunIds : x # r => executions'[x] = executions[x]
    BY <1>3 DEF Moves, AgentOf
  <1>5. /\ DOMAIN runs' = DOMAIN runs
        /\ \A x \in DOMAIN runs : runs'[x] \in ActiveStatuses => runs[x] \in ActiveStatuses
    BY <1>1, <1>2
  <1>6. ASSUME NEW x \in DOMAIN runs, runs'[x] \in ActiveStatuses
        PROVE  /\ agents[AgentOf(x)] = "busy"
               /\ executions'[x].stage # "rejected" => active[AgentOf(x)] = x
               /\ \A y \in DOMAIN runs :
                     runs'[y] \in ActiveStatuses /\ AgentOf(y) = AgentOf(x) => y = x
    <2>1. /\ agents[AgentOf(x)] = "busy"
          /\ executions[x].stage # "rejected" => active[AgentOf(x)] = x
          /\ \A y \in DOMAIN runs :
                runs[y] \in ActiveStatuses /\ AgentOf(y) = AgentOf(x) => y = x
      BY <1>5, <1>6 DEF OneEach
    <2>2. executions'[x].stage # "rejected" => executions[x].stage # "rejected"
      BY <1>1, <1>2, <1>4
    <2>3. QED
      BY <1>5, <2>1, <2>2
  <1>7. QED
    BY <1>1, <1>2, <1>4, <1>5, <1>6 DEF OneEach, AgentOf

\* The Agent that is released has no other active Run.
LEMMA OneEachResultStored ==
    ASSUME ServiceInv, OneEach, NEW r \in RunIds, ResultStored(r)
    PROVE  OneEach'
  <1> DEFINE a == AgentOf(r)
             outcome == executions[r].outcome
             writes == outcome = "ok" => r \in DOMAIN runs
  <1>1. /\ AtHead(RunOp(r)) /\ executions[r].stage = "settling"
        /\ runs' = [x \in DOMAIN runs |-> IF x = r THEN RunResult(outcome) ELSE runs[x]]
        /\ agents' = [x \in DOMAIN agents |->
                         IF x = a /\ writes THEN AgentResult(agents[x], outcome) ELSE agents[x]]
        /\ Settles(r, "done")
        /\ active' = [active EXCEPT ![a] = IF @ = r THEN 0 ELSE @]
    BY DEF ResultStored, Settles
  <1>2. /\ Shape /\ RunsOK /\ DOMAIN runs \subseteq RunIds
        /\ active \in [AgentIds -> {0} \cup RunIds]
        /\ \A x \in DOMAIN runs : AgentOf(x) \in DOMAIN agents /\ AgentOf(x) \in AgentIds
    BY Indexes DEF ServiceInv, Shape, RunsOK
  <1>3. Moves(r, "done")
    <2>1. "done" \in {"done", "rejected"}
      OBVIOUS
    <2>2. QED
      BY <1>1, <2>1, SettlesStep
  <1>4. /\ \A x \in RunIds : executions'[x].agent = AgentOf(x)
        /\ \A x \in RunIds : x # r => executions'[x] = executions[x]
    BY <1>3 DEF Moves, AgentOf
  <1>5. RunResult(outcome) \notin ActiveStatuses
    BY DEF RunResult, ActiveStatuses
  <1> HIDE DEF outcome, writes
  <1>6. /\ DOMAIN runs' = DOMAIN runs
        /\ \A x \in DOMAIN runs : runs'[x] \in ActiveStatuses =>
              x # r /\ runs[x] \in ActiveStatuses
    BY <1>1, <1>5
  <1>7. \A b \in AgentIds : active[b] # r => active'[b] = active[b]
    BY <1>1, <1>2
  <1>8. \A b \in DOMAIN agents : b # a => agents'[b] = agents[b]
    BY <1>1
  <1>9. ASSUME NEW x \in DOMAIN runs, runs'[x] \in ActiveStatuses
        PROVE  AgentOf(x) # a
    <2>1. SUFFICES ASSUME AgentOf(x) = a PROVE FALSE
      OBVIOUS
    <2>2. r \in DOMAIN runs /\ runs[r] \in ActiveStatuses
      BY <1>1, <1>2, <2>1 DEF RunsOK, UnderWay
    <2>3. QED
      BY <1>6, <1>9, <2>1, <2>2 DEF OneEach
  <1>10. ASSUME NEW x \in DOMAIN runs, runs'[x] \in ActiveStatuses
         PROVE  /\ agents'[AgentOf(x)] = "busy"
                /\ executions'[x].stage # "rejected" => active'[AgentOf(x)] = x
                /\ \A y \in DOMAIN runs :
                      runs'[y] \in ActiveStatuses /\ AgentOf(y) = AgentOf(x) => y = x
    <2>1. x # r /\ runs[x] \in ActiveStatuses /\ AgentOf(x) # a
      BY <1>6, <1>9, <1>10
    <2>2. /\ agents[AgentOf(x)] = "busy"
          /\ executions[x].stage # "rejected" => active[AgentOf(x)] = x
          /\ \A y \in DOMAIN runs :
                runs[y] \in ActiveStatuses /\ AgentOf(y) = AgentOf(x) => y = x
      BY <2>1 DEF OneEach
    <2>3. QED
      BY <1>2, <1>4, <1>6, <1>7, <1>8, <2>1, <2>2
  <1>11. QED
    BY <1>2, <1>4, <1>6, <1>10 DEF OneEach, AgentOf

\* A start leaves a busy Agent alone, and a deletion takes the Runs with it.
LEMMA OneEachCommandStored ==
    ASSUME ServiceInv, OneEach, "stop" \notin Kinds, NEW c \in DOMAIN commands, CommandStored(c)
    PROVE  OneEach'
  <1> DEFINE a == commands[c].agent
  <1>1. /\ executions' = executions /\ active' = active
        /\ Mutates(commands[c]) \/ UNCHANGED <<agents, runs>>
        /\ commands[c].kind # "stop"
        /\ DOMAIN runs \subseteq RunIds
        /\ \A r \in DOMAIN runs : AgentOf(r) \in DOMAIN agents
    BY DEF CommandStored, ServiceInv, CommandsOK, Shape, RunsOK
  <1>2. CASE UNCHANGED <<agents, runs>>
    BY <1>1, <1>2 DEF OneEach, AgentOf
  <1>3. CASE SetStatus(a, "ready")
    <2>1. /\ agents[a] # "busy" /\ runs' = runs
          /\ \A b \in DOMAIN agents : b # a => agents'[b] = agents[b]
      BY <1>3 DEF SetStatus
    <2>2. \A r \in DOMAIN runs : runs[r] \in ActiveStatuses =>
             AgentOf(r) # a /\ agents'[AgentOf(r)] = "busy"
      BY <1>1, <2>1 DEF OneEach
    <2>3. QED
      BY <1>1, <2>1, <2>2 DEF OneEach, AgentOf
  <1>4. CASE RemoveAgent(a)
    <2>1. /\ DOMAIN runs' = {r \in DOMAIN runs : AgentOf(r) # a}
          /\ \A r \in DOMAIN runs' : runs'[r] = runs[r]
          /\ \A b \in DOMAIN agents : b # a => agents'[b] = agents[b]
      BY <1>4 DEF RemoveAgent
    <2>2. ASSUME NEW r \in DOMAIN runs', runs'[r] \in ActiveStatuses
          PROVE  /\ agents'[AgentOf(r)] = "busy"
                 /\ executions[r].stage # "rejected" => active[AgentOf(r)] = r
                 /\ \A s \in DOMAIN runs' :
                       runs'[s] \in ActiveStatuses /\ AgentOf(s) = AgentOf(r) => s = r
      <3>1. /\ r \in DOMAIN runs /\ AgentOf(r) # a /\ runs[r] \in ActiveStatuses
            /\ AgentOf(r) \in DOMAIN agents
        BY <1>1, <2>1, <2>2
      <3>2. /\ agents[AgentOf(r)] = "busy"
            /\ executions[r].stage # "rejected" => active[AgentOf(r)] = r
            /\ \A s \in DOMAIN runs :
                  runs[s] \in ActiveStatuses /\ AgentOf(s) = AgentOf(r) => s = r
        BY <3>1 DEF OneEach
      <3>3. QED
        BY <2>1, <3>1, <3>2
    <2>3. QED
      BY <1>1, <2>2 DEF OneEach, AgentOf
  <1>5. QED
    BY <1>1, <1>2, <1>3, <1>4 DEF Mutates

\* Every step but those of a stop keeps OneEach.
LEMMA OneEachStep ==
    ASSUME ServiceInv, OneEach, "stop" \notin Kinds, [Next]_svars
    PROVE  OneEach'
  <1>1. Shape /\ DOMAIN runs \subseteq RunIds
    BY DEF ServiceInv, Shape
  <1>2. CASE UNCHANGED svars
    BY <1>2 DEF svars, OneEach, AgentOf
  <1>3. CASE \/ \E a \in AgentIds : CreateAgent(a) \/ SendMessage(a)
             \/ \E kind \in Kinds : Command(kind)
             \/ \E r \in RunIds : RunSteps(r)
             \/ \E c \in DOMAIN commands : CommandSteps(c)
    BY <1>1, <1>3, QuietSteps, OneEachFrame
  <1>4. ASSUME NEW r \in RunIds, SendRefused(r)
        PROVE  OneEach'
    <2>1. /\ executions' = [executions EXCEPT ![r].stage = "rejected"]
          /\ UNCHANGED <<agents, runs, active>>
      BY <1>4 DEF SendRefused
    <2>2. Moves(r, "rejected")
      BY <1>1, <2>1, StageMoves DEF Stages, Outcomes
    <2>3. KeepRuns /\ \A x \in RunIds : executions'[x].stage
                           = IF x = r THEN "rejected" ELSE executions[x].stage
      BY <1>1, <2>2, MovesKeeps
    <2>4. Quiet
      BY <2>1, <2>3 DEF Quiet
    <2>5. QED
      BY <1>1, <2>4, OneEachFrame
  <1>5. ASSUME NEW r \in RunIds, BeginRefused(r)
        PROVE  OneEach'
    BY <1>5, OneEachRejected DEF BeginRefused
  <1>6. ASSUME NEW r \in RunIds, ResultRefused(r)
        PROVE  OneEach'
    <2>1. CASE Settles(r, "rejected")
      BY <1>6, <2>1, OneEachRejected DEF ResultRefused
    <2>2. CASE /\ executions' = [executions EXCEPT ![r].outcome = "failed"]
               /\ active' = active
      <3>1. Moves(r, "settling") /\ executions[r].stage = "settling" /\ UNCHANGED <<agents, runs>>
        BY <1>1, <1>6, <2>2, StageMoves DEF ResultRefused, Stages, Outcomes
      <3>2. KeepRuns /\ \A x \in RunIds : executions'[x].stage
                             = IF x = r THEN "settling" ELSE executions[x].stage
        BY <1>1, <3>1, MovesKeeps
      <3>3. Quiet
        BY <2>2, <3>1, <3>2 DEF Quiet
      <3>4. QED
        BY <1>1, <3>3, OneEachFrame
    <2>3. QED
      BY <1>6, <2>1, <2>2 DEF ResultRefused
  <1>7. ASSUME NEW a \in AgentIds, CreateStored(a)
        PROVE  OneEach'
    <2>1. /\ AtHead(CreateOp(a)) /\ UNCHANGED <<runs, executions, active>>
          /\ \/ agents' = [x \in DOMAIN agents \cup {a} |-> IF x = a THEN "ready" ELSE agents[x]]
             \/ agents' = agents
      BY <1>7 DEF CreateStored
    <2>2. a \notin DOMAIN agents
      BY <2>1, Dequeued DEF ServiceInv, BirthOK
    <2>3. \A b \in DOMAIN agents : agents'[b] = agents[b]
      BY <2>1, <2>2
    <2>4. \A r \in DOMAIN runs : AgentOf(r) \in DOMAIN agents
      BY DEF ServiceInv, RunsOK
    <2>5. QED
      BY <2>1, <2>3, <2>4 DEF OneEach, AgentOf
  <1>8. CASE Restart
    BY <1>8 DEF Restart, OneEach, ActiveStatuses
  <1>9. CASE Stored
    BY <1>4, <1>5, <1>6, <1>7, <1>9, OneEachSendStored, OneEachBeginStored,
       OneEachResultStored, OneEachCommandStored DEF Stored
  <1>10. QED
    BY <1>2, <1>3, <1>8, <1>9 DEF Next

\* Without stops, an active Run has its Agent to itself, and is found by it.
THEOREM OneEachInvariant == "stop" \notin Kinds => (ServiceSpec => []OneEach)
  <1> SUFFICES ASSUME "stop" \notin Kinds PROVE ServiceSpec => []OneEach
    OBVIOUS
  <1>1. Init => OneEach
    BY DEF Init, OneEach
  <1>2. ServiceInv /\ OneEach /\ [Next]_svars => OneEach'
    BY OneEachStep
  <1>3. QED
    BY <1>1, <1>2, ServiceInvariant, PTL DEF ServiceSpec

(***************************************************************************)
(* As long as nobody stops it, an Agent has at most one queued or running  *)
(* Run (ARCHITECTURE.md), whatever is deleted, revoked, timed out, refused *)
(* by the disk or lost in a crash in between.                              *)
(***************************************************************************)
THEOREM OneRunAtATime == "stop" \notin Kinds => (ServiceSpec => []OneActiveRun)
  <1> SUFFICES ASSUME "stop" \notin Kinds PROVE ServiceSpec => []OneActiveRun
    OBVIOUS
  <1>1. OneEach => OneActiveRun
    <2> SUFFICES ASSUME OneEach, NEW a \in AgentIds
                 PROVE  Cardinality(ActiveRuns(a)) <= 1
      BY DEF OneActiveRun
    <2>1. \A r, s \in ActiveRuns(a) : r = s
      BY DEF OneEach, ActiveRuns
    <2>2. QED
      BY <2>1, AtMostOne
  <1>2. QED
    BY <1>1, OneEachInvariant, PTL

(***************************************************************************)
(* The same holds of the execution that cancelExecution finds: it is the   *)
(* one of the active Run.                                                  *)
(***************************************************************************)
THEOREM ActiveCancellable == "stop" \notin Kinds => (ServiceSpec => []ActiveRunIsCancellable)
  <1> SUFFICES ASSUME "stop" \notin Kinds PROVE ServiceSpec => []ActiveRunIsCancellable
    OBVIOUS
  <1>1. OneEach => ActiveRunIsCancellable
    BY DEF OneEach, ActiveRunIsCancellable
  <1>2. QED
    BY <1>1, OneEachInvariant, PTL

-----------------------------------------------------------------------------
(* Workspaces, while writes succeed and the process lives. *)

\* Only new Agents with a workspace are listed, workspaces stay, and a
\* deletion that waits for its write goes on waiting.
Housekeeping ==
    /\ \A a \in DOMAIN agents' : a \in DOMAIN agents \/ a \in workspaces'
    /\ workspaces \subseteq workspaces'
    /\ \A c \in DOMAIN commands : commands[c].wait = "storing" =>
          c \in DOMAIN commands' /\ commands'[c] = commands[c]

\* Such steps keep every listed Agent in its workspace.
LEMMA HousekeepingKeeps ==
    ASSUME ListedAgentsHaveWorkspaces, Housekeeping
    PROVE  ListedAgentsHaveWorkspaces'
  BY DEF ListedAgentsHaveWorkspaces, Housekeeping

\* A command is released from its wait for an execution, never from its write.
LEMMA ReleaseKeepsStoring ==
    ASSUME NEW released, \A c \in released : commands[c].wait # "storing",
           NEW joined, commands' = Released(commands, released, joined)
    PROVE  \A c \in DOMAIN commands : commands[c].wait = "storing" =>
              c \in DOMAIN commands' /\ commands'[c] = commands[c]
  BY DEF Released

\* Clients, containers and the broker.
LEMMA ClientsKeepHouse ==
    ASSUME ServiceInv,
           \/ \E a \in AgentIds : CreateAgent(a) \/ SendMessage(a)
           \/ \E kind \in Kinds : Command(kind)
           \/ \E r \in RunIds : RunSteps(r)
           \/ \E c \in DOMAIN commands : Terminated(c)
    PROVE  Housekeeping
  <1>1. commands \in Seq(CommandRecord)
    BY DEF ServiceInv, Shape
  <1>2. ASSUME NEW new, commands' = Append(commands, new)
        PROVE  \A c \in DOMAIN commands : c \in DOMAIN commands' /\ commands'[c] = commands[c]
    BY <1>1, <1>2
  <1>3. ASSUME NEW a \in AgentIds, CreateAgent(a) \/ SendMessage(a)
        PROVE  Housekeeping
    BY <1>3 DEF CreateAgent, SendMessage, Housekeeping
  <1>4. ASSUME NEW kind \in Kinds, Command(kind)
        PROVE  Housekeeping
    <2>1. agents' = agents /\ workspaces' = workspaces
      BY <1>4 DEF Command
    <2>2. ASSUME NEW k, NEW a, NEW r, CancelExecution(k, a, r)
          PROVE  \A c \in DOMAIN commands : c \in DOMAIN commands' /\ commands'[c] = commands[c]
      <3>1. CASE \E new : commands' = Append(commands, new)
        BY <1>2, <3>1
      <3>2. CASE \E new : commands' = Released(Append(commands, new), {Len(commands) + 1}, TRUE)
        <4>1. PICK new : commands' = Released(Append(commands, new), {Len(commands) + 1}, TRUE)
          BY <3>2
        <4> DEFINE all == Append(commands, new)
        <4>2. /\ \A c \in DOMAIN commands : c \in DOMAIN all /\ all[c] = commands[c]
              /\ \A c \in DOMAIN commands : c # Len(commands) + 1
          BY <1>1
        <4>3. commands' = Released(all, {Len(commands) + 1}, TRUE)
          BY <4>1
        <4> HIDE DEF all
        <4>4. QED
          BY <4>2, <4>3 DEF Released
      <3>3. QED
        BY <2>2, <3>1, <3>2 DEF CancelExecution
    <2>3. \A c \in DOMAIN commands : c \in DOMAIN commands' /\ commands'[c] = commands[c]
      BY <1>2, <1>4, <2>2 DEF Command, StartAgent, CancelRun, Deadline
    <2>4. QED
      BY <2>1, <2>3 DEF Housekeeping
  <1>5. ASSUME NEW r \in RunIds, RunSteps(r)
        PROVE  Housekeeping
    BY <1>5 DEF RunSteps, BeginRunAnswered, ContainerStarts, RuntimeTimesOut, ContainerExits,
               EndRunAnswered, Housekeeping
  <1>6. ASSUME NEW c \in DOMAIN commands, Terminated(c)
        PROVE  Housekeeping
    <2>1. agents' = agents /\ workspaces' = workspaces /\ commands[c].wait # "storing"
      BY <1>6 DEF Terminated
    <2>2. \/ \E on : commands' = [commands EXCEPT ![c].wait = "joining", ![c].on = on]
          \/ commands' = Released(commands, {c}, TRUE)
      BY <1>6 DEF Terminated
    <2>3. \A x \in DOMAIN commands : commands[x].wait = "storing" =>
             x \in DOMAIN commands' /\ commands'[x] = commands[x]
      BY <2>1, <2>2, ReleaseKeepsStoring
    <2>4. QED
      BY <2>1, <2>3 DEF Housekeeping
  <1>7. QED
    BY <1>3, <1>4, <1>5, <1>6

\* The mutations of Runs.
LEMMA RunsKeepHouse ==
    ASSUME ServiceInv, NEW r \in RunIds,
           \/ SendStored(r) \/ SendRefused(r) \/ BeginStored(r) \/ BeginRefused(r)
           \/ ResultStored(r) \/ ResultRefused(r)
    PROVE  Housekeeping
  <1>1. workspaces' = workspaces /\ DOMAIN agents' = DOMAIN agents
    <2>1. agents \in [DOMAIN agents -> AgentStatuses]
      BY DEF ServiceInv, Shape
    <2>2. QED
      BY <2>1 DEF SendStored, SendRefused, BeginStored, BeginRefused, ResultStored, ResultRefused
  <1>2. commands' = commands \/ \E joined : commands' = Released(commands, Joining(r), joined)
    BY DEF SendStored, SendRefused, BeginStored, BeginRefused, ResultStored, ResultRefused,
           Settles
  <1>3. \A c \in Joining(r) : commands[c].wait # "storing"
    BY DEF Joining
  <1>4. QED
    BY <1>1, <1>2, <1>3, ReleaseKeepsStoring DEF Housekeeping

\* Every step but a refused write and a crash keeps listed Agents in their workspaces.
LEMMA ListedStep ==
    ASSUME ServiceInv, ListedAgentsHaveWorkspaces, [Next]_svars,
           PersistMayFail = FALSE, MaxRestarts = 0
    PROVE  ListedAgentsHaveWorkspaces'
  <1>1. CASE UNCHANGED svars
    BY <1>1 DEF svars, ListedAgentsHaveWorkspaces
  <1>2. CASE \/ \E a \in AgentIds : CreateAgent(a) \/ SendMessage(a)
             \/ \E kind \in Kinds : Command(kind)
             \/ \E r \in RunIds : RunSteps(r)
             \/ \E c \in DOMAIN commands : Terminated(c)
    BY <1>2, ClientsKeepHouse, HousekeepingKeeps
  <1>3. ASSUME NEW c \in DOMAIN commands, ArchiveWorkspace(c)
        PROVE  ListedAgentsHaveWorkspaces'
    <2> DEFINE a == commands[c].agent
    <2>1. commands[c].wait = "archiving" /\ commands[c].kind = "delete" /\ agents' = agents
      BY <1>3 DEF ArchiveWorkspace, ServiceInv, CommandsOK
    <2>2. \/ workspaces' = workspaces /\ commands' = [commands EXCEPT ![c].wait = "done"]
          \/ /\ workspaces' = workspaces \ {a}
             /\ commands' = [commands EXCEPT ![c].wait = "storing"]
      BY <1>3 DEF ArchiveWorkspace
    <2>3. /\ \A x \in DOMAIN commands : commands[x].wait = "storing" =>
                x \in DOMAIN commands' /\ commands'[x] = commands[x]
          /\ c \in DOMAIN commands'
      BY <2>1, <2>2
    <2>4. CASE workspaces' = workspaces
      <3>1. Housekeeping
        BY <2>1, <2>3, <2>4 DEF Housekeeping
      <3>2. QED
        BY <3>1, HousekeepingKeeps
    <2>5. CASE /\ workspaces' = workspaces \ {a}
               /\ commands' = [commands EXCEPT ![c].wait = "storing"]
      <3>1. commands'[c].kind = "delete" /\ commands'[c].agent = a /\ commands'[c].wait = "storing"
        <4>1. commands[c] \in CommandRecord
          BY Indexes DEF ServiceInv
        <4>2. commands'[c] = [commands[c] EXCEPT !.wait = "storing"]
          BY <2>5
        <4>3. QED
          BY <2>1, <4>1, <4>2 DEF CommandRecord
      <3>2. ASSUME NEW b \in DOMAIN agents
            PROVE  \/ b \in workspaces'
                   \/ \E x \in DOMAIN commands' : /\ commands'[x].kind = "delete"
                                                 /\ commands'[x].agent = b
                                                 /\ commands'[x].wait = "storing"
        <4>1. CASE b = a
          BY <2>3, <3>1, <4>1
        <4>2. CASE b # a
          BY <2>3, <2>5, <4>2 DEF ListedAgentsHaveWorkspaces
        <4>3. QED
          BY <4>1, <4>2
      <3>3. QED
        BY <2>1, <3>2 DEF ListedAgentsHaveWorkspaces
    <2>6. QED
      BY <2>2, <2>4, <2>5
  <1>4. ASSUME NEW r \in RunIds,
               \/ SendStored(r) \/ SendRefused(r) \/ BeginStored(r) \/ BeginRefused(r)
               \/ ResultStored(r) \/ ResultRefused(r)
        PROVE  ListedAgentsHaveWorkspaces'
    BY <1>4, RunsKeepHouse, HousekeepingKeeps
  <1>5. ASSUME NEW c \in DOMAIN commands, CommandStored(c)
        PROVE  ListedAgentsHaveWorkspaces'
    <2>1. /\ workspaces' = workspaces
          /\ commands' = [commands EXCEPT ![c].wait = "done"]
          /\ \A x \in DOMAIN commands : x # c => commands'[x] = commands[x]
          /\ DOMAIN commands' = DOMAIN commands
      BY <1>5 DEF CommandStored
    <2>2. DOMAIN agents' \subseteq DOMAIN agents
      BY <1>5 DEF CommandStored, Mutates, SetStatus, RemoveAgent
    <2>3. commands[c].kind = "delete" => commands[c].agent \notin DOMAIN agents'
      BY <1>5 DEF CommandStored, Mutates, RemoveAgent
    <2>4. ASSUME NEW b \in DOMAIN agents'
          PROVE  \/ b \in workspaces'
                 \/ \E x \in DOMAIN commands' : /\ commands'[x].kind = "delete"
                                               /\ commands'[x].agent = b
                                               /\ commands'[x].wait = "storing"
      <3>1. CASE b \in workspaces
        BY <2>1, <3>1
      <3>2. CASE b \notin workspaces
        <4>1. PICK x \in DOMAIN commands : /\ commands[x].kind = "delete"
                                          /\ commands[x].agent = b
                                          /\ commands[x].wait = "storing"
          BY <2>2, <3>2 DEF ListedAgentsHaveWorkspaces
        <4>2. x # c
          BY <2>3, <4>1
        <4>3. QED
          BY <2>1, <4>1, <4>2
      <3>3. QED
        BY <3>1, <3>2
    <2>5. QED
      BY <2>4 DEF ListedAgentsHaveWorkspaces
  <1>6. ASSUME NEW a \in AgentIds, CreateStored(a)
        PROVE  ListedAgentsHaveWorkspaces'
    <2>1. /\ AtHead(CreateOp(a)) /\ UNCHANGED <<workspaces, commands>>
          /\ \A b \in DOMAIN agents' : b \in DOMAIN agents \/ b = a
      BY <1>6 DEF CreateStored
    <2>2. a \in workspaces
      BY <2>1, Dequeued DEF ServiceInv, BirthOK
    <2>3. Housekeeping
      BY <2>1, <2>2 DEF Housekeeping
    <2>4. QED
      BY <2>3, HousekeepingKeeps
  <1>7. CASE Restart
    <2>1. restarts < 0 /\ restarts \in Nat
      BY <1>7 DEF Restart, ServiceInv, Shape
    <2>2. QED
      BY <2>1
  <1>8. QED
    BY <1>1, <1>2, <1>3, <1>4, <1>5, <1>6, <1>7 DEF Next, Stored, CommandSteps

(***************************************************************************)
(* While writes succeed and the process lives, a listed Agent has its      *)
(* workspace unless its own deletion is about to be stored (createAgent    *)
(* makes the directory before the row, deleteAgent moves it before).       *)
(***************************************************************************)
THEOREM ListedHaveWorkspaces ==
    PersistMayFail = FALSE /\ MaxRestarts = 0 => (ServiceSpec => []ListedAgentsHaveWorkspaces)
  <1> SUFFICES ASSUME PersistMayFail = FALSE, MaxRestarts = 0
               PROVE  ServiceSpec => []ListedAgentsHaveWorkspaces
    OBVIOUS
  <1>1. Init => ListedAgentsHaveWorkspaces
    BY DEF Init, ListedAgentsHaveWorkspaces
  <1>2. ServiceInv /\ ListedAgentsHaveWorkspaces /\ [Next]_svars => ListedAgentsHaveWorkspaces'
    BY ListedStep
  <1>3. QED
    BY <1>1, <1>2, ServiceInvariant, PTL DEF ServiceSpec

=============================================================================
