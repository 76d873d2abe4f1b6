------------------------------ MODULE WebProofs ------------------------------
(***************************************************************************)
(* Machine-checked proofs about Web, for any Agents, and for any number of *)
(* Runs, of requests under way and of requests that fail.                  *)
(***************************************************************************)
EXTENDS Web, FiniteSetTheorems, WellFoundedInduction, TLAPS

-----------------------------------------------------------------------------
(* The server never goes back: an Agent comes once and goes once. *)

Born(all) == {a \in Agents : all[a] # "unborn"}
Listed(all) == {a \in Agents : all[a] = "there"}

Waiters == {"nobody", "poll", "create", "command", "unlock"}

Shape ==
    /\ agents \in [Agents -> {"unborn", "there", "deleted"}]
    /\ runs \in Seq(Run) /\ Len(runs) <= MaxRuns
    /\ door \in {"asking", "locked", "open"}
    /\ shown \subseteq Born(agents)
    /\ selected \in shown \cup {None}
    /\ messagesOf \in Agents \cup {None}
    /\ activeRun \in ShownRun
    /\ polls \in [RunIds -> Poll]
    /\ failures \in Nat

(***************************************************************************)
(* A Run that an answer or the screen speaks of exists and is one of the   *)
(* Agent it is thought to be of.                                           *)
(***************************************************************************)
RunIsOf(id, all, a) == id \in DOMAIN all /\ all[id].agent = a

AnswerOK(q, ags, rs) ==
    \/ q.kind = "list" /\ \E listing \in SUBSET Born(ags) :
          /\ q.answer = [said |-> "ok", listing |-> listing]
          /\ q.by = "create" => q.agent \in listing
    \/ q.kind = "load" /\ \E latest \in ShownRun :
          /\ q.answer = [said |-> "ok", latest |-> latest]
          /\ latest # NoRun => RunIsOf(latest.id, rs, q.agent)
    \/ q.kind = "send" /\ \E id \in RunIds :
          /\ q.answer = [said |-> "ok", run |-> id]
          /\ RunIsOf(id, rs, q.agent)

RequestShape(q) ==
    /\ q = [kind |-> q.kind, agent |-> q.agent, run |-> q.run, by |-> q.by, answer |-> q.answer]
    /\ q.kind \in Kinds /\ q.by \in Waiters
    /\ q.agent \in Agents \cup {None} /\ q.run \in RunIds \cup {0}

RequestOK(q, ags, rs, ps) ==
    /\ RequestShape(q)
    /\ q.kind = "load" => q.by = "nobody" /\ q.run = 0 /\ q.agent \in Born(ags)
    /\ q.kind = "send" => q.by = "nobody" /\ q.agent \in Agents
    /\ q.by = "create" => q.kind = "list" /\ q.agent \in Listed(ags)
    /\ q.by = "poll" => /\ q.kind \in {"list", "messages"}
                        /\ q.run \in DOMAIN rs /\ ps[q.run].phase = "refreshing"
    /\ \/ q.answer = Pending
       \/ /\ q.answer = Refusal
          /\ q.kind = "send" \/ (q.kind = "load" /\ q.agent \notin Listed(ags))
       \/ AnswerOK(q, ags, rs)

\* The Run on the screen is one of the selected Agent.
RunFollows(active, sel, rs) == active # NoRun => RunIsOf(active.id, rs, sel)

\* The messages of the selected Agent are on the screen or on their way.
Coming(a, requests) ==
    \E q \in requests : q.kind = "load" /\ q.agent = a /\ q.answer # Refusal

MessagesFollow ==
    messagesOf \notin {selected, None} /\ selected \in Listed(agents) /\ failures = 0
        => Coming(selected, open)

\* A loop looks until its Run is over, and then waits for what it has asked for.
LoopsOK(ps, rs, requests) ==
    \A r \in RunIds : ps[r].phase = "refreshing" =>
        /\ r \in DOMAIN rs /\ rs[r].status # "active"
        /\ Awaited(r, requests) # {}

ShownIsPolled ==
    activeRun.active /\ runs[activeRun.id].status = "active" /\ failures = 0
        => polls[activeRun.id].phase = "polling"

WebInv ==
    /\ Shape
    /\ \A q \in open : RequestOK(q, agents, runs, polls)
    /\ RunFollows(activeRun, selected, runs)
    /\ MessagesFollow
    /\ LoopsOK(polls, runs, open)
    /\ ShownIsPolled

-----------------------------------------------------------------------------
(* Requests. *)

\* What an answer, or a new addressee, leaves of a request.
LEMMA Answered ==
    ASSUME NEW q, RequestShape(q), NEW answer
    PROVE  /\ RequestShape([q EXCEPT !.answer = answer])
           /\ [q EXCEPT !.answer = answer].kind = q.kind
           /\ [q EXCEPT !.answer = answer].agent = q.agent
           /\ [q EXCEPT !.answer = answer].run = q.run
           /\ [q EXCEPT !.answer = answer].by = q.by
           /\ [q EXCEPT !.answer = answer].answer = answer
  <1> DEFINE p == [kind |-> q.kind, agent |-> q.agent, run |-> q.run, by |-> q.by,
                   answer |-> answer]
  <1>1. [q EXCEPT !.answer = answer] = p
    BY DEF RequestShape
  <1>2. RequestShape(p)
    BY DEF RequestShape
  <1>3. QED
    BY <1>1, <1>2

LEMMA Readdressed ==
    ASSUME NEW q, RequestShape(q), NEW w \in Waiters
    PROVE  /\ RequestShape([q EXCEPT !.by = w])
           /\ [q EXCEPT !.by = w].kind = q.kind
           /\ [q EXCEPT !.by = w].agent = q.agent
           /\ [q EXCEPT !.by = w].run = q.run
           /\ [q EXCEPT !.by = w].by = w
           /\ [q EXCEPT !.by = w].answer = q.answer
  <1> DEFINE p == [kind |-> q.kind, agent |-> q.agent, run |-> q.run, by |-> w,
                   answer |-> q.answer]
  <1>1. [q EXCEPT !.by = w] = p
    BY DEF RequestShape
  <1>2. RequestShape(p)
    BY DEF RequestShape
  <1>3. QED
    BY <1>1, <1>2

\* A new request.
LEMMA Asked ==
    ASSUME NEW kind \in Kinds, NEW a \in Agents \cup {None}, NEW r \in RunIds \cup {0},
           NEW w \in Waiters
    PROVE  LET q == Request(kind, a, r, w)
           IN  /\ RequestShape(q)
               /\ q.kind = kind /\ q.agent = a /\ q.run = r /\ q.by = w
               /\ q.answer = Pending
  BY DEF Request, RequestShape

\* The three kinds of answers differ.
LEMMA AnswersDiffer ==
    /\ Pending.said = "nothing" /\ Refusal.said = "refused"
    /\ \A q, ags, rs : AnswerOK(q, ags, rs) => q.answer.said = "ok"
  <1>1. Pending.said = "nothing" /\ Refusal.said = "refused"
    BY DEF Pending, Refusal
  <1>2. ASSUME NEW q, NEW ags, NEW rs, AnswerOK(q, ags, rs)
        PROVE  q.answer.said = "ok"
    <2>1. \/ \E listing : q.answer = [said |-> "ok", listing |-> listing]
          \/ \E latest : q.answer = [said |-> "ok", latest |-> latest]
          \/ \E id : q.answer = [said |-> "ok", run |-> id]
      BY <1>2 DEF AnswerOK
    <2>2. CASE \E listing : q.answer = [said |-> "ok", listing |-> listing]
      BY <2>2
    <2>3. CASE \E latest : q.answer = [said |-> "ok", latest |-> latest]
      BY <2>3
    <2>4. CASE \E id : q.answer = [said |-> "ok", run |-> id]
      BY <2>4
    <2>5. QED
      BY <2>1, <2>2, <2>3, <2>4
  <1>3. QED
    BY <1>1, <1>2

-----------------------------------------------------------------------------
(* What a step may do to the server. *)

Later(old, new) ==
    /\ Born(old) \subseteq Born(new)
    /\ \A a \in Born(old) : a \in Listed(new) => a \in Listed(old)

RunsLater(old, new) ==
    /\ DOMAIN old \subseteq DOMAIN new
    /\ \A r \in DOMAIN old : /\ new[r].agent = old[r].agent
                             /\ old[r].status # "active" => new[r].status # "active"

ServerShape ==
    /\ agents \in [Agents -> {"unborn", "there", "deleted"}]
    /\ runs \in Seq(Run) /\ Len(runs) <= MaxRuns

ServerMoves ==
    /\ ServerShape'
    /\ Later(agents, agents')
    /\ RunsLater(runs, runs')

LEMMA ServerStands ==
    ASSUME Shape, UNCHANGED serverVars
    PROVE  ServerMoves
  BY DEF Shape, serverVars, ServerMoves, ServerShape, Later, RunsLater

\* An answer stays right, and a request as it should be.
LEMMA AnswerKept ==
    ASSUME NEW q, NEW ags, NEW rs, NEW ags2, NEW rs2,
           AnswerOK(q, ags, rs), Later(ags, ags2), RunsLater(rs, rs2)
    PROVE  AnswerOK(q, ags2, rs2)
  <1>1. \A id, a : RunIsOf(id, rs, a) => RunIsOf(id, rs2, a)
    BY DEF RunIsOf, RunsLater
  <1>2. Born(ags) \subseteq Born(ags2)
    BY DEF Later
  <1>3. CASE q.kind = "list" /\ \E listing \in SUBSET Born(ags) :
                /\ q.answer = [said |-> "ok", listing |-> listing]
                /\ q.by = "create" => q.agent \in listing
    BY <1>2, <1>3 DEF AnswerOK
  <1>4. CASE q.kind = "load" /\ \E latest \in ShownRun :
                /\ q.answer = [said |-> "ok", latest |-> latest]
                /\ latest # NoRun => RunIsOf(latest.id, rs, q.agent)
    BY <1>1, <1>4 DEF AnswerOK
  <1>5. CASE q.kind = "send" /\ \E id \in RunIds :
                /\ q.answer = [said |-> "ok", run |-> id]
                /\ RunIsOf(id, rs, q.agent)
    BY <1>1, <1>5 DEF AnswerOK
  <1>6. QED
    BY <1>3, <1>4, <1>5 DEF AnswerOK

LEMMA RequestKept ==
    ASSUME NEW q, NEW ags, NEW rs, NEW ps, NEW ags2, NEW rs2, NEW ps2,
           RequestOK(q, ags, rs, ps), Later(ags, ags2), RunsLater(rs, rs2),
           q.by = "create" => q.agent \in Listed(ags2),
           q.by = "poll" => ps2[q.run].phase = "refreshing"
    PROVE  RequestOK(q, ags2, rs2, ps2)
  <1>1. AnswerOK(q, ags, rs) => AnswerOK(q, ags2, rs2)
    BY AnswerKept
  <1>2. q.kind = "load" => /\ q.agent \in Born(ags) /\ q.agent \in Born(ags2)
                           /\ q.agent \in Listed(ags2) => q.agent \in Listed(ags)
    BY DEF RequestOK, Later
  <1>3. q.by = "poll" => q.run \in DOMAIN rs2
    BY DEF RequestOK, RunsLater
  <1>4. QED
    BY <1>1, <1>2, <1>3 DEF RequestOK

-----------------------------------------------------------------------------
(* Steps that leave the screen and the poll loops alone. *)

LEMMA Background ==
    ASSUME WebInv, ServerMoves, UNCHANGED <<screenVars, polls>>,
           door' \in {"asking", "locked", "open"}, failures' \in {failures, failures + 1},
           \A q \in open' : RequestOK(q, agents', runs', polls'),
           Coming(selected, open) /\ selected \in Listed(agents') => Coming(selected, open'),
           \A r \in RunIds : Awaited(r, open) # {} => Awaited(r, open') # {}
    PROVE  WebInv'
  <1>1. Shape'
    BY DEF WebInv, Shape, ServerMoves, ServerShape, screenVars, Later
  <1>2. RunFollows(activeRun', selected', runs')
    BY DEF WebInv, RunFollows, RunIsOf, ServerMoves, RunsLater, screenVars
  <1>3. MessagesFollow'
    <2> SUFFICES ASSUME messagesOf' \notin {selected', None}, selected' \in Listed(agents'),
                        failures' = 0
                 PROVE  Coming(selected', open')
      BY DEF MessagesFollow
    <2>1. messagesOf' = messagesOf /\ selected' = selected /\ failures = 0
      BY DEF screenVars, WebInv, Shape
    <2>2. selected \in Born(agents)
      BY <2>1, WebAssumption DEF WebInv, Shape, Listed
    <2>3. selected \in Listed(agents)
      BY <2>1, <2>2 DEF ServerMoves, Later
    <2>4. QED
      BY <2>1, <2>3 DEF WebInv, MessagesFollow
  <1>4. LoopsOK(polls', runs', open')
    BY DEF WebInv, LoopsOK, ServerMoves, RunsLater
  <1>5. ShownIsPolled'
    <2> SUFFICES ASSUME activeRun'.active, runs'[activeRun'.id].status = "active", failures' = 0
                 PROVE  polls'[activeRun'.id].phase = "polling"
      BY DEF ShownIsPolled
    <2>1. activeRun' = activeRun /\ polls' = polls /\ failures = 0
      BY DEF screenVars, WebInv, Shape
    <2>2. activeRun.id \in DOMAIN runs
      BY <2>1 DEF WebInv, RunFollows, RunIsOf, NoRun
    <2>3. runs[activeRun.id].status = "active"
      BY <2>1, <2>2 DEF ServerMoves, RunsLater
    <2>4. QED
      BY <2>1, <2>3 DEF WebInv, ShownIsPolled
  <1>6. QED
    BY <1>1, <1>2, <1>3, <1>4, <1>5 DEF WebInv

\* One request more.
LEMMA BackgroundAsks ==
    ASSUME WebInv, ServerMoves, UNCHANGED <<screenVars, polls>>,
           door' \in {"asking", "locked", "open"}, failures' \in {failures, failures + 1},
           open \subseteq open',
           \A q \in open' \ open : RequestOK(q, agents', runs', polls'),
           \A q \in open : q.by = "create" => q.agent \in Listed(agents')
    PROVE  WebInv'
  <1>1. \A q \in open' : RequestOK(q, agents', runs', polls')
    <2>1. ASSUME NEW q \in open
          PROVE  RequestOK(q, agents', runs', polls')
      <3>1. RequestOK(q, agents, runs, polls)
        BY DEF WebInv
      <3>2. q.by = "poll" => polls'[q.run].phase = "refreshing"
        BY <3>1 DEF RequestOK
      <3>3. QED
        BY <3>1, <3>2, RequestKept DEF ServerMoves
    <2>2. QED
      BY <2>1
  <1>2. Coming(selected, open) => Coming(selected, open')
    BY DEF Coming
  <1>3. \A r \in RunIds : Awaited(r, open) # {} => Awaited(r, open') # {}
    BY DEF Awaited
  <1>4. QED
    BY <1>1, <1>2, <1>3, Background

-----------------------------------------------------------------------------
(* What the server answers. *)

\* A nonempty set of Runs has a youngest: of the sets of younger Runs, take one
\* with no smaller among them.
LEMMA Youngest ==
    ASSUME NEW T, T \subseteq RunIds, T # {}
    PROVE  /\ Max(T) \in T
           /\ \A y \in T : Max(T) >= y
  <1> DEFINE Younger(x) == {y \in T : y > x}
             All == {Younger(x) : x \in T}
  <1>1. MaxRuns \in Nat /\ T \subseteq Int
    BY WebAssumption DEF RunIds
  <1>2. IsFiniteSet(T)
    <2>1. IsFiniteSet(1 .. MaxRuns)
      BY <1>1, FS_Interval
    <2>2. QED
      BY <2>1, FS_Subset DEF RunIds
  <1>3. IsWellFoundedOn(StrictSubsetOrdering(T), FiniteSubsetsOf(T))
    BY FS_StrictSubsetOrderingWellFounded
  <1>4. All \subseteq FiniteSubsetsOf(T) /\ All # {}
    <2>1. \A x \in T : Younger(x) \subseteq T /\ IsFiniteSet(Younger(x))
      BY <1>2, FS_Subset
    <2>2. QED
      BY <2>1 DEF FiniteSubsetsOf
  <1>5. PICK few \in All : \A other \in All : <<other, few>> \notin StrictSubsetOrdering(T)
    <2> HIDE DEF All
    <2>1. QED
      BY <1>3, <1>4, WFMin, Zenon
  <1>6. PICK x \in T : few = Younger(x)
    BY <1>5
  <1>7. \A y \in T : x >= y
    <2> SUFFICES ASSUME NEW y \in T, y > x PROVE FALSE
      BY <1>1, <1>6
    <2>1. Younger(y) \subseteq Younger(x)
      <3>1. \A z \in T : z > y => z > x
        BY <1>1
      <3>2. QED
        BY <3>1
    <2>2. y \in Younger(x) /\ y \notin Younger(y)
      BY <1>1
    <2>3. Younger(y) # Younger(x)
      BY <2>2
    <2>4. <<Younger(y), Younger(x)>> \in StrictSubsetOrdering(T)
      BY <2>1, <2>3 DEF StrictSubsetOrdering
    <2>5. QED
      BY <1>5, <1>6, <2>4
  <1>8. QED
    BY <1>6, <1>7 DEF Max

LEMMA LatestIsOurs ==
    ASSUME ServerShape, NEW a
    PROVE  /\ Latest(a) \in ShownRun
           /\ Latest(a) # NoRun => RunIsOf(Latest(a).id, runs, a)
  <1>1. CASE RunsOf(a) = {}
    BY <1>1 DEF Latest, NoRun, ShownRun
  <1>2. CASE RunsOf(a) # {}
    <2>1. DOMAIN runs = 1 .. Len(runs) /\ Len(runs) \in Nat /\ DOMAIN runs \subseteq RunIds
      BY WebAssumption DEF ServerShape, RunIds
    <2>2. RunsOf(a) \subseteq RunIds
      BY <2>1 DEF RunsOf
    <2>3. Max(RunsOf(a)) \in RunsOf(a)
      BY <1>2, <2>2, Youngest
    <2>4. Latest(a) = [id |-> Max(RunsOf(a)), active |-> runs[Max(RunsOf(a))].status = "active"]
      BY <1>2 DEF Latest, Snapshot
    <2>5. (runs[Max(RunsOf(a))].status = "active") \in BOOLEAN
      OBVIOUS
    <2>6. QED
      BY <2>2, <2>3, <2>4, <2>5 DEF ShownRun, RunIsOf, RunsOf
  <1>3. QED
    BY <1>1, <1>2

\* A request is answered, and rightly.
LEMMA Served ==
    ASSUME WebInv, NEW q \in open, q.answer = Pending, NEW answer, Answer(q, answer),
           ServerMoves, UNCHANGED <<agents, door, screenVars, polls, failures>>,
           \/ /\ answer = Refusal
              /\ q.kind = "send" \/ (q.kind = "load" /\ q.agent \notin Listed(agents))
           \/ AnswerOK([q EXCEPT !.answer = answer], agents, runs')
    PROVE  WebInv'
  <1> DEFINE p == [q EXCEPT !.answer = answer]
  <1>1. RequestOK(q, agents, runs, polls)
    BY DEF WebInv
  <1>2. /\ RequestShape(p) /\ p.kind = q.kind /\ p.agent = q.agent /\ p.run = q.run
        /\ p.by = q.by /\ p.answer = answer
    BY <1>1, Answered DEF RequestOK
  <1>3. open' = (open \ {q}) \cup {p}
    BY DEF Answer
  <1>4. \/ /\ answer = Refusal
           /\ q.kind = "send" \/ (q.kind = "load" /\ q.agent \notin Listed(agents))
        \/ AnswerOK(p, agents, runs')
    OBVIOUS
  <1> HIDE DEF p
  <1>5. \A x \in open' : RequestOK(x, agents', runs', polls')
    <2>1. ASSUME NEW x \in open
          PROVE  RequestOK(x, agents', runs', polls')
      <3>1. RequestOK(x, agents, runs, polls)
        BY DEF WebInv
      <3>2. x.by = "create" => x.agent \in Listed(agents')
        BY <3>1 DEF RequestOK
      <3>3. x.by = "poll" => polls'[x.run].phase = "refreshing"
        BY <3>1 DEF RequestOK
      <3>4. QED
        BY <3>1, <3>2, <3>3, RequestKept DEF ServerMoves
    <2>2. RequestOK(p, agents', runs', polls')
      BY <1>2, <1>4, <2>1 DEF RequestOK
    <2>3. QED
      BY <1>3, <2>1, <2>2
  <1>6. Coming(selected, open) /\ selected \in Listed(agents') => Coming(selected, open')
    <2>1. ASSUME NEW x \in open, x.kind = "load", x.agent = selected, x.answer # Refusal,
                 selected \in Listed(agents')
          PROVE  Coming(selected, open')
      <3>1. CASE x # q
        BY <1>3, <2>1, <3>1 DEF Coming
      <3>2. CASE x = q
        <4>1. q.agent \in Listed(agents)
          BY <2>1, <3>2
        <4>2. answer # Refusal
          BY <1>2, <1>4, <2>1, <3>2, <4>1, AnswersDiffer
        <4>3. QED
          BY <1>2, <1>3, <2>1, <3>2, <4>2 DEF Coming
      <3>3. QED
        BY <3>1, <3>2
    <2>2. QED
      BY <2>1 DEF Coming
  <1>7. \A r \in RunIds : Awaited(r, open) # {} => Awaited(r, open') # {}
    BY <1>2, <1>3 DEF Awaited
  <1>8. QED
    <2>1. door' \in {"asking", "locked", "open"} /\ failures' = failures
      BY DEF WebInv, Shape
    <2>2. QED
      BY <1>5, <1>6, <1>7, <2>1, Background

LEMMA ServeStep ==
    ASSUME WebInv, NEW q \in open, Serve(q)
    PROVE  WebInv'
  <1> USE DEF Serve
  <1>1. RequestOK(q, agents, runs, polls) /\ ServerShape
    BY DEF WebInv, Shape, ServerShape
  <1>2. There = Listed(agents)
    BY DEF There, Listed
  <1>3. CASE q.kind = "list" /\ Answer(q, [said |-> "ok", listing |-> There])
             /\ UNCHANGED serverVars
    <2> DEFINE answer == [said |-> "ok", listing |-> There]
               p == [q EXCEPT !.answer = answer]
    <2>1. p.kind = "list" /\ p.by = q.by /\ p.agent = q.agent /\ p.answer = answer
      BY <1>1, <1>3, Answered DEF RequestOK
    <2>2. q.by = "create" => q.agent \in There
      BY <1>1, <1>2 DEF RequestOK
    <2>3. There \in SUBSET Born(agents)
      BY DEF There, Born
    <2>4. AnswerOK(p, agents, runs')
      <3> HIDE DEF p
      <3>1. QED
        BY <2>1, <2>2, <2>3 DEF AnswerOK
    <2>5. ServerMoves /\ UNCHANGED agents
      BY <1>3, ServerStands DEF WebInv, serverVars
    <2>6. QED
      BY <1>3, <2>4, <2>5, Served
  <1>4. CASE /\ q.kind = "load"
             /\ Answer(q, IF q.agent \notin There THEN Refusal
                          ELSE [said |-> "ok", latest |-> Latest(q.agent)])
             /\ UNCHANGED serverVars
    <2>1. ServerMoves /\ UNCHANGED agents /\ UNCHANGED runs
      BY <1>4, ServerStands DEF WebInv, serverVars
    <2>2. CASE q.agent \notin There
      BY <1>2, <1>4, <2>1, <2>2, Served
    <2>3. CASE q.agent \in There
      <3> DEFINE answer == [said |-> "ok", latest |-> Latest(q.agent)]
                 p == [q EXCEPT !.answer = answer]
      <3>1. p.kind = "load" /\ p.agent = q.agent /\ p.answer = answer
        BY <1>1, <1>4, Answered DEF RequestOK
      <3>2. /\ Latest(q.agent) \in ShownRun
            /\ Latest(q.agent) # NoRun => RunIsOf(Latest(q.agent).id, runs, q.agent)
        BY <1>1, LatestIsOurs
      <3>3. AnswerOK(p, agents, runs')
        <4> HIDE DEF p
        <4>1. QED
          BY <2>1, <3>1, <3>2 DEF AnswerOK
      <3>4. QED
        BY <1>4, <2>1, <2>3, <3>3, Served
    <2>4. QED
      BY <2>2, <2>3
  <1>5. CASE q.kind = "send" /\ Answer(q, Refusal) /\ UNCHANGED serverVars
    <2>1. ServerMoves /\ UNCHANGED agents
      BY <1>5, ServerStands DEF WebInv, serverVars
    <2>2. QED
      BY <1>5, <2>1, Served
  <1>6. CASE /\ q.kind = "send" /\ q.agent \in There /\ Len(runs) < MaxRuns
             /\ runs' = Append(runs, [agent |-> q.agent, status |-> "active"])
             /\ Answer(q, [said |-> "ok", run |-> Len(runs) + 1])
             /\ UNCHANGED agents
    <2> DEFINE answer == [said |-> "ok", run |-> Len(runs) + 1]
               p == [q EXCEPT !.answer = answer]
               new == [agent |-> q.agent, status |-> "active"]
    <2>1. p.kind = "send" /\ p.agent = q.agent /\ p.answer = answer
      BY <1>1, <1>6, Answered DEF RequestOK
    <2>2. new \in Run /\ new.agent = q.agent
      BY <1>6 DEF There, Run
    <2>3. /\ runs \in Seq(Run) /\ runs' = Append(runs, new)
          /\ Len(runs) \in Nat /\ MaxRuns \in Nat /\ Len(runs) < MaxRuns
      BY <1>1, <1>6, WebAssumption DEF ServerShape
    <2>4. ServerMoves
      <3> HIDE DEF new
      <3>1. runs' \in Seq(Run) /\ Len(runs') <= MaxRuns
        BY <2>2, <2>3
      <3>2. RunsLater(runs, runs')
        BY <2>2, <2>3 DEF RunsLater
      <3>3. Later(agents, agents')
        BY <1>6 DEF Later
      <3>4. QED
        BY <1>1, <1>6, <3>1, <3>2, <3>3 DEF ServerMoves, ServerShape
    <2>5. RunIsOf(Len(runs) + 1, runs', q.agent) /\ Len(runs) + 1 \in RunIds
      <3> HIDE DEF new
      <3>1. QED
        BY <2>2, <2>3 DEF RunIsOf, RunIds
    <2>6. AnswerOK(p, agents, runs')
      <3> HIDE DEF p
      <3>1. QED
        BY <2>1, <2>5 DEF AnswerOK
    <2>7. QED
      BY <1>6, <2>4, <2>6, Served
  <1>7. QED
    BY <1>3, <1>4, <1>5, <1>6 DEF ServeRead, ServeSend, serverVars

-----------------------------------------------------------------------------
(* Steps that ask for something, and steps of the server. *)

LEMMA RunEndsStep ==
    ASSUME WebInv, NEW r \in DOMAIN runs, RunEnds(r)
    PROVE  WebInv'
  <1> DEFINE ended == [runs[r] EXCEPT !.status = "over"]
  <1>1. /\ runs \in Seq(Run) /\ DOMAIN runs = 1 .. Len(runs) /\ Len(runs) \in Nat
        /\ runs[r] \in Run
    BY DEF WebInv, Shape
  <1>2. ended \in Run /\ ended.agent = runs[r].agent /\ ended.status = "over"
    BY <1>1 DEF Run
  <1>3. runs' = [runs EXCEPT ![r] = ended]
    BY DEF RunEnds
  <1>4. ServerMoves
    <2> HIDE DEF ended
    <2>1. runs' \in Seq(Run) /\ Len(runs') = Len(runs) /\ DOMAIN runs' = DOMAIN runs
      BY <1>1, <1>2, <1>3
    <2>2. RunsLater(runs, runs')
      BY <1>1, <1>2, <1>3 DEF RunsLater
    <2>3. UNCHANGED agents
      BY DEF RunEnds
    <2>4. QED
      BY <2>1, <2>2, <2>3 DEF ServerMoves, ServerShape, Later, WebInv, Shape
  <1>5. UNCHANGED <<agents, door, screenVars, polls, open, failures>>
    BY DEF RunEnds
  <1>6. /\ door' \in {"asking", "locked", "open"} /\ failures' \in {failures, failures + 1}
        /\ open \subseteq open' /\ open' \ open = {}
        /\ \A q \in open : q.by = "create" => q.agent \in Listed(agents')
    BY <1>5 DEF WebInv, Shape, RequestOK
  <1>7. QED
    BY <1>4, <1>5, <1>6, BackgroundAsks

\* Asking is background: nothing changes but the door and a new request.
LEMMA Asks ==
    ASSUME WebInv, UNCHANGED <<serverVars, screenVars, polls, failures>>,
           door' \in {"asking", "locked", "open"},
           NEW new, open' = open \/ open' = open \cup {new},
           RequestOK(new, agents, runs, polls)
    PROVE  WebInv'
  <1>1. ServerMoves
    BY ServerStands DEF WebInv
  <1>2. \A q \in open' \ open : RequestOK(q, agents', runs', polls')
    BY DEF serverVars
  <1>3. \A q \in open : q.by = "create" => q.agent \in Listed(agents')
    BY DEF WebInv, RequestOK, serverVars
  <1>4. QED
    BY <1>1, <1>2, <1>3, BackgroundAsks

LEMMA Lists ==
    ASSUME NEW w \in {"nobody", "unlock", "command"}, NEW ags, NEW rs, NEW ps
    PROVE  /\ RequestOK(ListFor(w, 0, None), ags, rs, ps)
           /\ ListFor(w, 0, None).by = w /\ ListFor(w, 0, None).kind = "list"
  <1> DEFINE q == Request("list", None, 0, w)
  <1>1. /\ RequestShape(q)
        /\ q.kind = "list" /\ q.agent = None /\ q.run = 0 /\ q.by = w /\ q.answer = Pending
    BY Asked DEF Kinds, Waiters
  <1>2. ListFor(w, 0, None) = q
    BY DEF ListFor
  <1> HIDE DEF q
  <1>3. QED
    BY <1>1, <1>2 DEF RequestOK

LEMMA ArriveStep ==
    ASSUME WebInv, NEW required \in BOOLEAN, Arrive(required)
    PROVE  WebInv'
  <1> DEFINE q == ListFor("nobody", 0, None)
  <1>1. RequestOK(q, agents, runs, polls)
    BY Lists
  <1>2. /\ UNCHANGED <<serverVars, screenVars, polls, failures>>
        /\ door' \in {"asking", "locked", "open"}
        /\ open' = open \/ open' = open \cup {q}
    BY DEF Arrive
  <1> HIDE DEF q
  <1>3. QED
    BY <1>1, <1>2, Asks

LEMMA UnlockStep ==
    ASSUME WebInv, Unlock
    PROVE  WebInv'
  <1> DEFINE q == ListFor("unlock", 0, None)
  <1>1. RequestOK(q, agents, runs, polls)
    BY Lists
  <1>2. /\ UNCHANGED <<serverVars, screenVars, polls, failures>>
        /\ door' \in {"asking", "locked", "open"}
        /\ open' = open \cup {q}
    BY DEF Unlock
  <1> HIDE DEF q
  <1>3. QED
    BY <1>1, <1>2, Asks

LEMMA SendStep ==
    ASSUME WebInv, SendMessage
    PROVE  WebInv'
  <1> DEFINE q == Request("send", selected, 0, "nobody")
  <1>1. selected \in Agents
    BY DEF WebInv, Shape, SendMessage, Born
  <1>2. /\ RequestShape(q)
        /\ q.kind = "send" /\ q.agent = selected /\ q.run = 0 /\ q.by = "nobody"
        /\ q.answer = Pending
    BY <1>1, Asked DEF Kinds, Waiters
  <1>3. open' = open \cup {q}
    BY DEF SendMessage
  <1> HIDE DEF q
  <1>4. RequestOK(q, agents, runs, polls)
    BY <1>1, <1>2 DEF RequestOK
  <1>5. QED
    BY <1>3, <1>4, Asks DEF SendMessage, WebInv, Shape

\* The effect of a command.
LEMMA CommandMoves ==
    ASSUME WebInv, NEW op, NEW a \in Agents, Effect(op, a)
    PROVE  /\ ServerMoves
           /\ op = "create" => a \in Listed(agents')
  <1>1. /\ runs \in Seq(Run) /\ Len(runs) <= MaxRuns
        /\ agents \in [Agents -> {"unborn", "there", "deleted"}]
    BY DEF WebInv, Shape
  <1>2. ASSUME NEW from, NEW status \in {"over", "gone"},
               runs' = [r \in DOMAIN runs |->
                   IF r \in RunsOf(a) /\ runs[r].status \in from
                   THEN [runs[r] EXCEPT !.status = status] ELSE runs[r]]
        PROVE  runs' \in Seq(Run) /\ Len(runs') <= MaxRuns /\ RunsLater(runs, runs')
    <2>1. \A r \in DOMAIN runs : runs[r] \in Run
      BY <1>1
    <2>2. \A r \in DOMAIN runs : runs'[r] \in Run /\ runs'[r].agent = runs[r].agent
              /\ runs'[r].status \in {runs[r].status, status}
      BY <1>2, <2>1 DEF Run
    <2>3. DOMAIN runs' = DOMAIN runs /\ DOMAIN runs = 1 .. Len(runs) /\ Len(runs) \in Nat
      BY <1>1, <1>2
    <2>4. runs' \in [1 .. Len(runs) -> Run]
      BY <1>2, <2>2, <2>3
    <2>5. runs' \in Seq(Run) /\ Len(runs') = Len(runs)
      BY <2>3, <2>4
    <2>6. RunsLater(runs, runs')
      BY <2>2, <2>3 DEF RunsLater
    <2>7. QED
      BY <1>1, <2>5, <2>6
  <1>3. CASE /\ op = "create" /\ agents[a] = "unborn"
             /\ agents' = [agents EXCEPT ![a] = "there"] /\ UNCHANGED runs
    <2>1. agents' \in [Agents -> {"unborn", "there", "deleted"}] /\ a \in Listed(agents')
      BY <1>1, <1>3 DEF Listed
    <2>2. Later(agents, agents') /\ RunsLater(runs, runs')
      BY <1>1, <1>3 DEF Later, RunsLater, Born, Listed
    <2>3. QED
      BY <1>1, <1>3, <2>1, <2>2 DEF ServerMoves, ServerShape
  <1>4. CASE op = "stop" /\ UNCHANGED agents /\ runs' = [r \in DOMAIN runs |->
                   IF r \in RunsOf(a) /\ runs[r].status \in {"active"}
                   THEN [runs[r] EXCEPT !.status = "over"] ELSE runs[r]]
    <2>1. runs' \in Seq(Run) /\ Len(runs') <= MaxRuns /\ RunsLater(runs, runs')
      BY <1>2, <1>4
    <2>2. QED
      BY <1>1, <1>4, <2>1 DEF ServerMoves, ServerShape, Later
  <1>5. CASE /\ op = "delete" /\ agents' = [agents EXCEPT ![a] = "deleted"]
             /\ agents[a] = "there"
             /\ runs' = [r \in DOMAIN runs |->
                   IF r \in RunsOf(a) /\ runs[r].status \in {"active", "over"}
                   THEN [runs[r] EXCEPT !.status = "gone"] ELSE runs[r]]
    <2>1. runs' \in Seq(Run) /\ Len(runs') <= MaxRuns /\ RunsLater(runs, runs')
      BY <1>2, <1>5
    <2>2. agents' \in [Agents -> {"unborn", "there", "deleted"}] /\ Later(agents, agents')
      BY <1>1, <1>5 DEF Later, Born, Listed
    <2>3. QED
      BY <1>5, <2>1, <2>2 DEF ServerMoves, ServerShape
  <1>6. QED
    BY <1>3, <1>4, <1>5 DEF Effect

LEMMA CommandStep ==
    ASSUME WebInv, NEW op, NEW a \in Agents, NEW answered \in BOOLEAN,
           Command(op, a, answered)
    PROVE  WebInv'
  <1>1. ServerMoves /\ (op = "create" => a \in Listed(agents'))
    BY CommandMoves DEF Command
  <1>2. /\ UNCHANGED <<door, screenVars, polls>> /\ door' \in {"asking", "locked", "open"}
        /\ failures' \in {failures, failures + 1}
    BY DEF Command, WebInv, Shape
  <1>3. \A q \in open : q.by # "create"
    BY DEF Command, busy
  <1> DEFINE q == ListFor(IF op = "create" THEN "create" ELSE "command",
                          0, IF op = "create" THEN a ELSE None)
  <1>4. RequestOK(q, agents', runs', polls')
    <2>1. CASE op = "create"
      <3> DEFINE p == Request("list", a, 0, "create")
      <3>1. /\ RequestShape(p)
            /\ p.kind = "list" /\ p.agent = a /\ p.run = 0 /\ p.by = "create"
            /\ p.answer = Pending
        BY Asked DEF Kinds, Waiters
      <3>2. q = p
        BY <2>1 DEF ListFor
      <3> HIDE DEF p, q
      <3>3. QED
        BY <1>1, <2>1, <3>1, <3>2 DEF RequestOK
    <2>2. CASE op # "create"
      BY <2>2, Lists
    <2>3. QED
      BY <2>1, <2>2
  <1>5. open' = open \/ open' = open \cup {q}
    BY DEF Command
  <1> HIDE DEF q
  <1>6. QED
    BY <1>1, <1>2, <1>3, <1>4, <1>5, BackgroundAsks

-----------------------------------------------------------------------------
(* Steps of the screen: the server stands. *)

\* What is required of the loops and of the requests they wait for: a request
\* keeps the loop that waits for it.
LEMMA OthersKept ==
    ASSUME WebInv, UNCHANGED serverVars, NEW x \in open,
           x.by = "poll" => polls'[x.run].phase = "refreshing"
    PROVE  RequestOK(x, agents', runs', polls')
  <1>1. RequestOK(x, agents, runs, polls)
    BY DEF WebInv
  <1>2. Later(agents, agents') /\ RunsLater(runs, runs')
    BY DEF serverVars, Later, RunsLater
  <1>3. x.by = "create" => x.agent \in Listed(agents')
    BY <1>1 DEF RequestOK, serverVars
  <1>4. QED
    BY <1>1, <1>2, <1>3, RequestKept

\* An answer that is there is right.
LEMMA OkIsRight ==
    ASSUME WebInv, NEW q \in open, q.answer.said = "ok"
    PROVE  AnswerOK(q, agents, runs)
  <1>1. q.answer # Pending /\ q.answer # Refusal
    BY AnswersDiffer
  <1>2. QED
    BY <1>1 DEF WebInv, RequestOK

LEMMA LoadAsks ==
    ASSUME NEW a \in Agents, a \in Born(agents), NEW rs, NEW ps
    PROVE  /\ RequestOK(Load(a), agents, rs, ps)
           /\ Load(a).kind = "load" /\ Load(a).agent = a /\ Load(a).by = "nobody"
           /\ Load(a).answer # Refusal
  <1> DEFINE q == Request("load", a, 0, "nobody")
  <1>1. /\ RequestShape(q)
        /\ q.kind = "load" /\ q.agent = a /\ q.run = 0 /\ q.by = "nobody" /\ q.answer = Pending
    BY Asked DEF Kinds, Waiters
  <1>2. Load(a) = q
    BY DEF Load
  <1>3. Pending # Refusal
    BY AnswersDiffer
  <1> HIDE DEF q
  <1>4. QED
    BY <1>1, <1>2, <1>3 DEF RequestOK

\* What Show leaves, when no load under way is dropped.
LEMMA ShowOK ==
    ASSUME WebInv, UNCHANGED <<serverVars, failures>>,
           NEW a, a \in Born(agents) \cup {None}, NEW others, Show(a, others),
           Coming(selected, open) => Coming(selected, others)
    PROVE  /\ selected' = a /\ activeRun' \in ShownRun
           /\ messagesOf' \in Agents \cup {None}
           /\ activeRun' \in {activeRun, NoRun}
           /\ RunFollows(activeRun', selected', runs')
           /\ MessagesFollow'
           /\ others \subseteq open'
           /\ \A q \in open' \ others : q.by # "poll" /\ RequestOK(q, agents', runs', polls')
  <1>1. None \notin Agents /\ Born(agents) \subseteq Agents
    BY WebAssumption DEF Born
  <1>2. CASE a = selected
    <2>1. selected' = selected /\ activeRun' = activeRun /\ messagesOf' = messagesOf
          /\ open' = others
      BY <1>2 DEF Show
    <2>2. MessagesFollow'
      BY <2>1 DEF MessagesFollow, WebInv, serverVars
    <2>3. QED
      BY <1>2, <2>1, <2>2 DEF WebInv, Shape, RunFollows, serverVars
  <1>3. CASE a # selected
    <2>1. /\ selected' = a /\ activeRun' = NoRun
          /\ messagesOf' = IF a = None THEN None ELSE messagesOf
          /\ open' = others \cup (IF a = None THEN {} ELSE {Load(a)})
      BY <1>3 DEF Show
    <2>2. NoRun \in ShownRun
      BY DEF NoRun, ShownRun
    <2>3. RunFollows(activeRun', selected', runs')
      BY <2>1 DEF RunFollows
    <2>4. CASE a = None
      BY <2>1, <2>2, <2>3, <2>4 DEF WebInv, Shape, MessagesFollow
    <2>5. CASE a # None
      <3>1. a \in Agents /\ a \in Born(agents)
        BY <1>1, <2>5
      <3>2. RequestOK(Load(a), agents', runs', polls') /\ Load(a).by # "poll"
        BY <3>1, LoadAsks DEF serverVars
      <3>3. Coming(a, open')
        BY <2>1, <2>5, <3>1, LoadAsks DEF Coming
      <3>4. MessagesFollow'
        BY <2>1, <3>3 DEF MessagesFollow
      <3>5. QED
        BY <2>1, <2>2, <2>3, <2>5, <3>2, <3>4 DEF WebInv, Shape
    <2>6. QED
      BY <2>4, <2>5
  <1>4. QED
    BY <1>2, <1>3

LEMMA SelectStep ==
    ASSUME WebInv, NEW a \in Agents, Select(a)
    PROVE  WebInv'
  <1>1. /\ UNCHANGED <<serverVars, failures>> /\ UNCHANGED <<door, shown, polls>>
        /\ a \in shown /\ Show(a, open)
    BY DEF Select
  <1>2. a \in Born(agents) \cup {None}
    BY <1>1 DEF WebInv, Shape
  <1>3. /\ selected' = a /\ activeRun' \in ShownRun /\ messagesOf' \in Agents \cup {None}
        /\ activeRun' \in {activeRun, NoRun}
        /\ RunFollows(activeRun', selected', runs') /\ MessagesFollow' /\ open \subseteq open'
        /\ \A q \in open' \ open : q.by # "poll" /\ RequestOK(q, agents', runs', polls')
    BY <1>1, <1>2, ShowOK
  <1>4. Shape'
    BY <1>1, <1>3 DEF WebInv, Shape, serverVars
  <1>5. \A q \in open' : RequestOK(q, agents', runs', polls')
    <2>1. ASSUME NEW q \in open
          PROVE  RequestOK(q, agents', runs', polls')
      <3>1. q.by = "poll" => polls'[q.run].phase = "refreshing"
        BY <1>1 DEF WebInv, RequestOK
      <3>2. QED
        BY <1>1, <3>1, OthersKept
    <2>2. QED
      BY <1>3, <2>1
  <1>6. LoopsOK(polls', runs', open')
    BY <1>1, <1>3 DEF WebInv, LoopsOK, Awaited, serverVars
  <1>7. ShownIsPolled'
    BY <1>1, <1>3 DEF WebInv, ShownIsPolled, NoRun, serverVars
  <1>8. QED
    BY <1>3, <1>4, <1>5, <1>6, <1>7 DEF WebInv

\* A loop goes on as long as an answer it waits for is missing.
LEMMA PollAfterOK ==
    ASSUME WebInv, UNCHANGED serverVars, NEW q \in open, polls' = PollAfter(q),
           open \ {q} \subseteq open',
           \A x \in open' \ (open \ {q}) : x.by # "poll" /\ RequestOK(x, agents', runs', polls')
    PROVE  /\ polls' \in [RunIds -> Poll]
           /\ \A x \in open' : RequestOK(x, agents', runs', polls')
           /\ LoopsOK(polls', runs', open')
           /\ \A r \in RunIds : polls[r].phase = "polling" => polls'[r] = polls[r]
  <1>1. /\ polls \in [RunIds -> Poll] /\ Off \in Poll /\ Off.phase = "off"
        /\ RequestOK(q, agents, runs, polls)
    BY DEF WebInv, Shape, Off, Poll
  <1>2. CASE q.by = "poll" /\ Awaited(q.run, open \ {q}) = {}
    <2>1. polls' = [polls EXCEPT ![q.run] = Off]
      BY <1>2 DEF PollAfter
    <2>2. q.run \in RunIds /\ polls[q.run].phase = "refreshing"
      <3>1. q.run \in DOMAIN runs /\ runs \in Seq(Run) /\ Len(runs) <= MaxRuns /\ MaxRuns \in Nat
        BY <1>1, <1>2, WebAssumption DEF RequestOK, WebInv, Shape
      <3>2. q.run \in RunIds
        BY <3>1 DEF RunIds
      <3>3. QED
        BY <1>1, <1>2, <3>2 DEF RequestOK
    <2>3. \A x \in open \ {q} : x.by = "poll" => x.run # q.run
      BY <1>2 DEF Awaited
    <2>4. ASSUME NEW x \in open \ {q}
          PROVE  RequestOK(x, agents', runs', polls')
      <3>1. RequestOK(x, agents, runs, polls)
        BY DEF WebInv
      <3>2. x.by = "poll" => polls[x.run].phase = "refreshing" /\ x.run # q.run
        BY <2>3, <3>1 DEF RequestOK
      <3>3. x.by = "poll" => x.run \in RunIds
        <4>1. x.by = "poll" => x.run \in DOMAIN runs /\ runs \in Seq(Run) /\ Len(runs) <= MaxRuns
          BY <3>1 DEF RequestOK, WebInv, Shape
        <4>2. QED
          BY <4>1, WebAssumption DEF RunIds
      <3>4. x.by = "poll" => polls'[x.run].phase = "refreshing"
        BY <1>1, <2>1, <3>2, <3>3
      <3>5. QED
        BY <3>4, OthersKept
    <2>5. \A x \in open' : RequestOK(x, agents', runs', polls')
      BY <2>4
    <2>6. LoopsOK(polls', runs', open')
      <3> SUFFICES ASSUME NEW r \in RunIds, polls'[r].phase = "refreshing"
                   PROVE  /\ r \in DOMAIN runs' /\ runs'[r].status # "active"
                          /\ Awaited(r, open') # {}
        BY DEF LoopsOK
      <3>1. r # q.run /\ polls[r].phase = "refreshing"
        BY <1>1, <2>1, <2>2
      <3>2. r \in DOMAIN runs /\ runs[r].status # "active" /\ Awaited(r, open) # {}
        BY <3>1 DEF WebInv, LoopsOK
      <3>3. PICK x \in open : x.by = "poll" /\ x.run = r
        BY <3>2 DEF Awaited
      <3>4. x \in open'
        BY <3>1, <3>3
      <3>5. QED
        BY <3>2, <3>3, <3>4 DEF Awaited, serverVars
    <2>7. QED
      BY <1>1, <2>1, <2>2, <2>5, <2>6
  <1>3. CASE ~(q.by = "poll" /\ Awaited(q.run, open \ {q}) = {})
    <2>1. polls' = polls
      BY <1>3 DEF PollAfter
    <2>2. ASSUME NEW x \in open
          PROVE  RequestOK(x, agents', runs', polls')
      <3>1. x.by = "poll" => polls'[x.run].phase = "refreshing"
        BY <2>1 DEF WebInv, RequestOK
      <3>2. QED
        BY <3>1, OthersKept
    <2>3. \A x \in open' : RequestOK(x, agents', runs', polls')
      BY <2>2
    <2>4. LoopsOK(polls', runs', open')
      <3> SUFFICES ASSUME NEW r \in RunIds, polls'[r].phase = "refreshing"
                   PROVE  /\ r \in DOMAIN runs' /\ runs'[r].status # "active"
                          /\ Awaited(r, open') # {}
        BY DEF LoopsOK
      <3>1. r \in DOMAIN runs /\ runs[r].status # "active" /\ Awaited(r, open) # {}
        BY <2>1 DEF WebInv, LoopsOK
      <3>2. PICK x \in open : x.by = "poll" /\ x.run = r
        BY <3>1 DEF Awaited
      <3>3. CASE x # q
        BY <3>1, <3>2, <3>3 DEF Awaited, serverVars
      <3>4. CASE x = q
        <4>1. PICK y \in open \ {q} : y.by = "poll" /\ y.run = r
          BY <1>3, <3>2, <3>4 DEF Awaited
        <4>2. QED
          BY <3>1, <4>1 DEF Awaited, serverVars
      <3>5. QED
        BY <3>3, <3>4
    <2>5. QED
      BY <1>1, <2>1, <2>3, <2>4
  <1>4. QED
    BY <1>2, <1>3

LEMMA DeliverListStep ==
    ASSUME WebInv, NEW q \in open, DeliverList(q), UNCHANGED serverVars
    PROVE  WebInv'
  <1>1. /\ q.kind = "list" /\ q.answer.said = "ok" /\ shown' = q.answer.listing
        /\ polls' = PollAfter(q) /\ door' \in {"open", door} /\ UNCHANGED failures
    BY DEF DeliverList
  <1>2. RequestOK(q, agents, runs, polls) /\ AnswerOK(q, agents, runs)
    BY <1>1, OkIsRight DEF WebInv
  <1>3. shown' \subseteq Born(agents) /\ (q.by = "create" => q.agent \in shown')
    <2>1. PICK listing \in SUBSET Born(agents) :
              /\ q.answer = [said |-> "ok", listing |-> listing]
              /\ q.by = "create" => q.agent \in listing
      BY <1>1, <1>2 DEF AnswerOK
    <2>2. q.answer.listing = listing
      BY <2>1
    <2>3. QED
      BY <1>1, <2>1, <2>2
  <1>4. PICK first \in (IF shown' = {} THEN {None} ELSE shown') :
            Show(IF q.by = "create" THEN q.agent
                 ELSE IF Keeps(shown') THEN selected ELSE first, open \ {q})
    BY <1>1 DEF DeliverList
  <1> DEFINE a == IF q.by = "create" THEN q.agent
                  ELSE IF Keeps(shown') THEN selected ELSE first
  <1>5. a \in shown' \cup {None} /\ a \in Born(agents) \cup {None}
    BY <1>3, <1>4 DEF Keeps
  <1>6. Show(a, open \ {q})
    BY <1>4
  <1> HIDE DEF a
  <1>7. Coming(selected, open) => Coming(selected, open \ {q})
    BY <1>1 DEF Coming
  <1>8. /\ selected' = a /\ activeRun' \in ShownRun /\ messagesOf' \in Agents \cup {None}
        /\ activeRun' \in {activeRun, NoRun}
        /\ RunFollows(activeRun', selected', runs') /\ MessagesFollow'
        /\ open \ {q} \subseteq open'
        /\ \A x \in open' \ (open \ {q}) :
              x.by # "poll" /\ RequestOK(x, agents', runs', polls')
    <2> DEFINE others == open \ {q}
    <2>1. Show(a, others) /\ (Coming(selected, open) => Coming(selected, others))
      BY <1>6, <1>7
    <2> HIDE DEF others
    <2>2. /\ selected' = a /\ activeRun' \in ShownRun /\ messagesOf' \in Agents \cup {None}
          /\ activeRun' \in {activeRun, NoRun}
          /\ RunFollows(activeRun', selected', runs') /\ MessagesFollow'
          /\ others \subseteq open'
          /\ \A x \in open' \ others : x.by # "poll" /\ RequestOK(x, agents', runs', polls')
      BY <1>1, <1>5, <2>1, ShowOK
    <2>3. QED
      BY <2>2 DEF others
  <1>9. /\ polls' \in [RunIds -> Poll] /\ \A x \in open' : RequestOK(x, agents', runs', polls')
        /\ LoopsOK(polls', runs', open')
        /\ \A r \in RunIds : polls[r].phase = "polling" => polls'[r] = polls[r]
    BY <1>1, <1>8, PollAfterOK
  <1>10. Shape'
    BY <1>1, <1>3, <1>5, <1>8, <1>9 DEF WebInv, Shape, serverVars
  <1>11. ShownIsPolled'
    <2> SUFFICES ASSUME activeRun'.active, runs'[activeRun'.id].status = "active", failures' = 0
                 PROVE  polls'[activeRun'.id].phase = "polling"
      BY DEF ShownIsPolled
    <2>1. activeRun' = activeRun /\ runs' = runs /\ failures = 0
      BY <1>1, <1>8 DEF NoRun, serverVars
    <2>2. polls[activeRun.id].phase = "polling"
      BY <2>1 DEF WebInv, ShownIsPolled
    <2>3. activeRun.id \in RunIds
      <3>1. activeRun.id \in DOMAIN runs /\ runs \in Seq(Run) /\ Len(runs) <= MaxRuns
        BY <2>1 DEF WebInv, RunFollows, RunIsOf, NoRun, Shape
      <3>2. QED
        BY <3>1, WebAssumption DEF RunIds
    <2>4. QED
      BY <1>9, <2>1, <2>2, <2>3
  <1>12. QED
    BY <1>8, <1>9, <1>10, <1>11 DEF WebInv

\* A Run that is known is one of the numbered ones.
LEMMA KnownRuns ==
    ASSUME WebInv, NEW r \in DOMAIN runs
    PROVE  r \in RunIds /\ runs[r] \in Run
  <1>1. runs \in Seq(Run) /\ Len(runs) <= MaxRuns /\ Len(runs) \in Nat /\ MaxRuns \in Nat
    BY WebAssumption DEF WebInv, Shape
  <1>2. QED
    BY <1>1 DEF RunIds

\* Starting a loop disturbs none, and the Run is watched if it goes on.
LEMMA StartPollOK ==
    ASSUME WebInv, UNCHANGED serverVars, NEW r \in RunIds, NEW sender \in BOOLEAN,
           polls' = StartPoll(r, sender)
    PROVE  /\ polls' \in [RunIds -> Poll]
           /\ \A s \in RunIds : /\ polls'[s].phase = "refreshing" <=> polls[s].phase = "refreshing"
                                /\ polls[s].phase = "polling" => polls'[s].phase = "polling"
           /\ r \in DOMAIN runs /\ runs[r].status = "active" => polls'[r].phase = "polling"
  <1> DEFINE new == [phase |-> "polling", sender |-> sender]
  <1>1. polls \in [RunIds -> Poll] /\ polls[r].phase \in {"off", "polling", "refreshing"}
    BY DEF WebInv, Shape, Poll
  <1>2. new \in Poll /\ new.phase = "polling"
    BY DEF Poll
  <1>3. polls' = [polls EXCEPT ![r] = IF polls[r].phase = "off" THEN new ELSE polls[r]]
    BY DEF StartPoll
  <1> HIDE DEF new
  <1>4. runs[r].status = "active" => polls[r].phase # "refreshing"
    BY DEF WebInv, LoopsOK
  <1>5. CASE polls[r].phase = "off"
    BY <1>1, <1>2, <1>3, <1>5
  <1>6. CASE polls[r].phase # "off"
    <2>1. polls' = polls
      BY <1>1, <1>3, <1>6
    <2>2. QED
      BY <1>1, <1>4, <1>6, <2>1
  <1>7. QED
    BY <1>5, <1>6

\* A request that no loop waits for is delivered, and no loop stops waiting.
LEMMA Delivered ==
    ASSUME WebInv, UNCHANGED serverVars, NEW q \in open, q.by # "poll", open' = open \ {q},
           \A s \in RunIds : polls'[s].phase = "refreshing" <=> polls[s].phase = "refreshing"
    PROVE  /\ \A x \in open' : RequestOK(x, agents', runs', polls')
           /\ LoopsOK(polls', runs', open')
  <1>1. ASSUME NEW x \in open'
        PROVE  RequestOK(x, agents', runs', polls')
    <2>1. x \in open /\ RequestOK(x, agents, runs, polls)
      BY <1>1 DEF WebInv
    <2>2. x.by = "poll" => x.run \in RunIds /\ polls[x.run].phase = "refreshing"
      BY <2>1, KnownRuns DEF RequestOK
    <2>3. QED
      BY <2>1, <2>2, OthersKept
  <1>2. ASSUME NEW r \in RunIds, polls'[r].phase = "refreshing"
        PROVE  /\ r \in DOMAIN runs' /\ runs'[r].status # "active"
               /\ Awaited(r, open') # {}
    <2>1. r \in DOMAIN runs /\ runs[r].status # "active" /\ Awaited(r, open) # {}
      BY <1>2 DEF WebInv, LoopsOK
    <2>2. QED
      BY <2>1 DEF Awaited, serverVars
  <1>3. QED
    BY <1>1, <1>2 DEF LoopsOK

LEMMA DeliverLoadStep ==
    ASSUME WebInv, NEW q \in open, DeliverLoad(q), UNCHANGED serverVars
    PROVE  WebInv'
  <1>1. /\ q.kind = "load" /\ q.answer.said = "ok" /\ open' = open \ {q}
        /\ UNCHANGED <<door, shown, selected, failures>>
    BY DEF DeliverLoad
  <1>2. RequestOK(q, agents, runs, polls) /\ AnswerOK(q, agents, runs)
    BY <1>1, OkIsRight DEF WebInv
  <1>3. q.by = "nobody" /\ q.agent \in Agents
    BY <1>1, <1>2 DEF RequestOK, Born
  <1> DEFINE latest == q.answer.latest
  <1>4. latest \in ShownRun /\ (latest # NoRun => RunIsOf(latest.id, runs, q.agent))
    <2>1. PICK shownRun \in ShownRun :
              /\ q.answer = [said |-> "ok", latest |-> shownRun]
              /\ shownRun # NoRun => RunIsOf(shownRun.id, runs, q.agent)
      BY <1>1, <1>2 DEF AnswerOK
    <2>2. latest = shownRun
      BY <2>1
    <2>3. QED
      BY <2>1, <2>2
  <1> HIDE DEF latest
  <1>5. CASE ~Ours(q.agent)
    <2>1. UNCHANGED <<messagesOf, activeRun, polls>> /\ q.agent # selected
      BY <1>5 DEF DeliverLoad, Ours
    <2>2. /\ \A x \in open' : RequestOK(x, agents', runs', polls')
          /\ LoopsOK(polls', runs', open')
      BY <1>1, <1>3, <2>1, Delivered
    <2>3. MessagesFollow'
      BY <1>1, <2>1 DEF WebInv, MessagesFollow, Coming, serverVars
    <2>4. Shape'
      BY <1>1, <2>1 DEF WebInv, Shape, serverVars
    <2>5. RunFollows(activeRun', selected', runs') /\ ShownIsPolled'
      BY <1>1, <2>1 DEF WebInv, RunFollows, ShownIsPolled, serverVars
    <2>6. QED
      BY <2>2, <2>3, <2>4, <2>5 DEF WebInv
  <1>6. CASE Ours(q.agent)
    <2>1. /\ selected = q.agent /\ messagesOf' = q.agent /\ activeRun' = latest
          /\ polls' = IF latest.active THEN StartPoll(latest.id, FALSE) ELSE polls
      BY <1>6 DEF DeliverLoad, Ours, latest
    <2>2. latest.active => latest.id \in DOMAIN runs /\ latest.id \in RunIds
      BY <1>4, KnownRuns DEF RunIsOf, NoRun
    <2>3. /\ polls' \in [RunIds -> Poll]
          /\ \A s \in RunIds : polls'[s].phase = "refreshing" <=> polls[s].phase = "refreshing"
          /\ latest.active /\ runs[latest.id].status = "active"
                => polls'[latest.id].phase = "polling"
      <3>1. CASE latest.active
        BY <2>1, <2>2, <3>1, StartPollOK
      <3>2. CASE ~latest.active
        BY <2>1, <3>2 DEF WebInv, Shape
      <3>3. QED
        BY <3>1, <3>2
    <2>4. /\ \A x \in open' : RequestOK(x, agents', runs', polls')
          /\ LoopsOK(polls', runs', open')
      BY <1>1, <1>3, <2>3, Delivered
    <2>5. MessagesFollow'
      BY <1>1, <2>1 DEF MessagesFollow
    <2>6. Shape'
      BY <1>1, <1>3, <1>4, <2>1, <2>3 DEF WebInv, Shape, serverVars
    <2>7. RunFollows(activeRun', selected', runs')
      BY <1>1, <1>4, <2>1 DEF RunFollows, serverVars
    <2>8. ShownIsPolled'
      BY <2>1, <2>3 DEF ShownIsPolled, serverVars
    <2>9. QED
      BY <2>4, <2>5, <2>6, <2>7, <2>8 DEF WebInv
  <1>7. QED
    BY <1>5, <1>6

LEMMA DeliverSendStep ==
    ASSUME WebInv, NEW q \in open, DeliverSend(q), UNCHANGED serverVars
    PROVE  WebInv'
  <1>1. /\ q.kind = "send" /\ q.answer.said = "ok" /\ open' = open \ {q}
        /\ UNCHANGED <<door, shown, selected, messagesOf, failures>>
        /\ polls' = StartPoll(q.answer.run, TRUE)
        /\ activeRun' = IF Ours(q.agent) THEN [id |-> q.answer.run, active |-> TRUE]
                        ELSE activeRun
    BY DEF DeliverSend
  <1>2. RequestOK(q, agents, runs, polls) /\ AnswerOK(q, agents, runs)
    BY <1>1, OkIsRight DEF WebInv
  <1>3. q.by = "nobody"
    BY <1>1, <1>2 DEF RequestOK
  <1> DEFINE r == q.answer.run
  <1>4. r \in RunIds /\ RunIsOf(r, runs, q.agent)
    <2>1. PICK id \in RunIds : /\ q.answer = [said |-> "ok", run |-> id]
                               /\ RunIsOf(id, runs, q.agent)
      BY <1>1, <1>2 DEF AnswerOK
    <2>2. r = id
      BY <2>1
    <2>3. QED
      BY <2>1, <2>2
  <1> HIDE DEF r
  <1> DEFINE sent == [id |-> r, active |-> TRUE]
  <1>5. sent \in ShownRun /\ sent.id = r
    BY <1>4 DEF ShownRun
  <1>6. activeRun' = IF Ours(q.agent) THEN sent ELSE activeRun
    BY <1>1 DEF r
  <1> HIDE DEF sent
  <1>7. /\ polls' \in [RunIds -> Poll]
        /\ \A s \in RunIds : /\ polls'[s].phase = "refreshing" <=> polls[s].phase = "refreshing"
                             /\ polls[s].phase = "polling" => polls'[s].phase = "polling"
        /\ runs[r].status = "active" => polls'[r].phase = "polling"
    <2>1. polls' = StartPoll(r, TRUE) /\ r \in DOMAIN runs
      BY <1>1, <1>4 DEF r, RunIsOf
    <2>2. QED
      BY <1>4, <2>1, StartPollOK
  <1>8. /\ \A x \in open' : RequestOK(x, agents', runs', polls')
        /\ LoopsOK(polls', runs', open')
    BY <1>1, <1>3, <1>7, Delivered
  <1>9. MessagesFollow'
    BY <1>1 DEF WebInv, MessagesFollow, Coming, serverVars
  <1>10. Shape'
    BY <1>1, <1>5, <1>6, <1>7 DEF WebInv, Shape, serverVars
  <1>11. RunFollows(activeRun', selected', runs')
    BY <1>1, <1>4, <1>5, <1>6 DEF WebInv, RunFollows, Ours, serverVars
  <1>12. ShownIsPolled'
    <2> SUFFICES ASSUME activeRun'.active, runs'[activeRun'.id].status = "active", failures' = 0
                 PROVE  polls'[activeRun'.id].phase = "polling"
      BY DEF ShownIsPolled
    <2>1. runs' = runs /\ failures = 0
      BY <1>1 DEF serverVars
    <2>2. CASE Ours(q.agent)
      BY <1>5, <1>6, <1>7, <2>1, <2>2
    <2>3. CASE ~Ours(q.agent)
      <3>1. activeRun' = activeRun /\ polls[activeRun.id].phase = "polling"
        BY <1>6, <2>1, <2>3 DEF WebInv, ShownIsPolled
      <3>2. activeRun.id \in RunIds
        BY <3>1, KnownRuns DEF WebInv, RunFollows, RunIsOf, NoRun
      <3>3. QED
        BY <1>7, <3>1, <3>2
    <2>4. QED
      BY <2>2, <2>3
  <1>13. QED
    BY <1>8, <1>9, <1>10, <1>11, <1>12 DEF WebInv

LEMMA DeliverMessagesStep ==
    ASSUME WebInv, NEW q \in open, DeliverMessages(q), UNCHANGED serverVars
    PROVE  WebInv'
  <1>1. /\ q.kind = "messages" /\ open' = open \ {q} /\ polls' = PollAfter(q)
        /\ messagesOf' = (IF Ours(q.agent) THEN q.agent ELSE messagesOf)
        /\ UNCHANGED <<door, shown, selected, activeRun, failures>>
    BY DEF DeliverMessages
  <1>2. /\ polls' \in [RunIds -> Poll] /\ \A x \in open' : RequestOK(x, agents', runs', polls')
        /\ LoopsOK(polls', runs', open')
        /\ \A r \in RunIds : polls[r].phase = "polling" => polls'[r] = polls[r]
    BY <1>1, PollAfterOK
  <1>3. messagesOf' \in Agents \cup {None}
    BY <1>1 DEF WebInv, Shape, RequestOK, RequestShape
  <1>4. Shape'
    BY <1>1, <1>2, <1>3 DEF WebInv, Shape, serverVars
  <1>5. MessagesFollow'
    BY <1>1 DEF WebInv, MessagesFollow, Coming, Ours, serverVars
  <1>6. RunFollows(activeRun', selected', runs')
    BY <1>1 DEF WebInv, RunFollows, serverVars
  <1>7. ShownIsPolled'
    <2> SUFFICES ASSUME activeRun'.active, runs'[activeRun'.id].status = "active", failures' = 0
                 PROVE  polls'[activeRun'.id].phase = "polling"
      BY DEF ShownIsPolled
    <2>1. activeRun' = activeRun /\ polls[activeRun.id].phase = "polling"
      BY <1>1 DEF WebInv, ShownIsPolled, serverVars
    <2>2. activeRun.id \in RunIds
      BY <2>1, KnownRuns DEF WebInv, RunFollows, RunIsOf, NoRun
    <2>3. QED
      BY <1>2, <2>1, <2>2
  <1>8. QED
    BY <1>2, <1>4, <1>5, <1>6, <1>7 DEF WebInv

\* The Run on the screen, when it is cleared or stays.
LEMMA ClearedOrKept ==
    ASSUME WebInv, UNCHANGED <<serverVars, door, shown, selected, messagesOf>>,
           activeRun' \in {activeRun, NoRun}, polls' \in [RunIds -> Poll], failures' \in Nat
    PROVE  Shape' /\ RunFollows(activeRun', selected', runs')
  <1>1. NoRun \in ShownRun
    BY DEF NoRun, ShownRun
  <1>2. QED
    BY <1>1 DEF WebInv, Shape, RunFollows, serverVars

\* A request that a loop waits for is refused by nobody, so that it has failed.
LEMMA DeniesPollStep ==
    ASSUME WebInv, NEW q \in open, Denies(q), q.by = "poll"
    PROVE  WebInv'
  <1> DEFINE moved(p) == IF p.by = "poll" /\ p.run = q.run THEN [p EXCEPT !.by = "nobody"] ELSE p
             others == {moved(p) : p \in open \ {q}}
  <1>1. /\ UNCHANGED <<serverVars, door, shown, selected, messagesOf>>
        /\ PollEndsBadly(q.run, others)
    BY DEF Denies
  <1>2. /\ RequestOK(q, agents, runs, polls) /\ q.run \in RunIds
        /\ polls[q.run].phase = "refreshing"
    BY KnownRuns DEF WebInv, RequestOK
  <1>3. failures' = failures + 1 /\ failures \in Nat
    <2>1. q.kind \in {"list", "messages"}
      BY <1>2 DEF RequestOK
    <2>2. q.answer # Refusal
      <3>1. CASE q.answer = Pending
        BY <3>1, AnswersDiffer
      <3>2. CASE AnswerOK(q, agents, runs)
        BY <3>2, AnswersDiffer
      <3>3. QED
        BY <1>2, <2>1, <3>1, <3>2 DEF RequestOK
    <2>3. q.answer.said # "refused"
      BY <1>2, <2>2, AnswersDiffer DEF RequestOK
    <2>4. QED
      BY <2>3 DEF Denies, WebInv, Shape
  <1>4. /\ polls' = [polls EXCEPT ![q.run] = Off]
        /\ activeRun' \in {activeRun, NoRun}
        /\ open' = others \/ open' = others \cup {ListFor("nobody", 0, None)}
    BY <1>1 DEF PollEndsBadly
  <1>5. Off \in Poll /\ Off.phase = "off" /\ polls \in [RunIds -> Poll]
    BY DEF Off, Poll, WebInv, Shape
  <1>6. polls' \in [RunIds -> Poll]
    BY <1>4, <1>5
  <1>7. ASSUME NEW p \in open
        PROVE  RequestOK(moved(p), agents', runs', polls')
    <2>1. RequestOK(p, agents, runs, polls) /\ RequestShape(p)
      BY DEF WebInv, RequestOK
    <2>2. CASE p.by = "poll" /\ p.run = q.run
      <3> DEFINE m == [p EXCEPT !.by = "nobody"]
      <3>1. /\ RequestShape(m) /\ m.kind = p.kind /\ m.agent = p.agent /\ m.run = p.run
            /\ m.by = "nobody" /\ m.answer = p.answer
        BY <2>1, Readdressed DEF Waiters
      <3>2. moved(p) = m
        BY <2>2
      <3>3. p.kind \in {"list", "messages"}
        BY <2>1, <2>2 DEF RequestOK
      <3> HIDE DEF m
      <3>4. AnswerOK(p, agents, runs) => AnswerOK(m, agents, runs)
        <4>1. ASSUME AnswerOK(p, agents, runs)
              PROVE  AnswerOK(m, agents, runs)
          <5>1. PICK listing \in SUBSET Born(agents) :
                    p.kind = "list" /\ p.answer = [said |-> "ok", listing |-> listing]
            BY <3>3, <4>1 DEF AnswerOK
          <5>2. QED
            BY <3>1, <5>1 DEF AnswerOK
        <4>2. QED
          BY <4>1
      <3>5. RequestOK(m, agents, runs, polls')
        BY <2>1, <3>1, <3>3, <3>4 DEF RequestOK
      <3>6. QED
        BY <1>1, <3>2, <3>5 DEF serverVars
    <2>3. CASE ~(p.by = "poll" /\ p.run = q.run)
      <3>1. moved(p) = p
        BY <2>3
      <3>2. p.by = "poll" => p.run \in RunIds /\ polls[p.run].phase = "refreshing"
        BY <2>1, KnownRuns DEF RequestOK
      <3>3. p.by = "poll" => polls'[p.run].phase = "refreshing"
        BY <1>4, <1>5, <2>3, <3>2
      <3>4. RequestOK(p, agents', runs', polls')
        BY <1>1, <3>3, OthersKept
      <3>5. QED
        BY <3>1, <3>4
    <2>4. QED
      BY <2>2, <2>3
  <1>8. \A x \in open' : RequestOK(x, agents', runs', polls')
    <2>1. \A x \in others : RequestOK(x, agents', runs', polls')
      BY <1>7
    <2>2. RequestOK(ListFor("nobody", 0, None), agents', runs', polls')
      BY Lists
    <2>3. QED
      BY <1>4, <2>1, <2>2
  <1>9. LoopsOK(polls', runs', open')
    <2> SUFFICES ASSUME NEW r \in RunIds, polls'[r].phase = "refreshing"
                 PROVE  /\ r \in DOMAIN runs' /\ runs'[r].status # "active"
                        /\ Awaited(r, open') # {}
      BY DEF LoopsOK
    <2>1. r # q.run /\ polls[r].phase = "refreshing"
      BY <1>2, <1>4, <1>5
    <2>2. r \in DOMAIN runs /\ runs[r].status # "active" /\ Awaited(r, open) # {}
      BY <2>1 DEF WebInv, LoopsOK
    <2>3. PICK x \in open : x.by = "poll" /\ x.run = r
      BY <2>2 DEF Awaited
    <2>4. x \in others
      <3>1. x \in open \ {q} /\ moved(x) = x
        BY <2>1, <2>3
      <3>2. QED
        BY <3>1
    <2>5. x \in open'
      BY <1>4, <2>4
    <2>6. QED
      BY <1>1, <2>2, <2>3, <2>5 DEF Awaited, serverVars
  <1>10. MessagesFollow' /\ ShownIsPolled'
    <2>1. failures' # 0
      BY <1>3
    <2>2. QED
      BY <2>1 DEF MessagesFollow, ShownIsPolled
  <1>11. Shape' /\ RunFollows(activeRun', selected', runs')
    BY <1>1, <1>3, <1>4, <1>6, ClearedOrKept
  <1>12. QED
    BY <1>8, <1>9, <1>10, <1>11 DEF WebInv

LEMMA DeniesOtherStep ==
    ASSUME WebInv, NEW q \in open, Denies(q), q.by # "poll"
    PROVE  WebInv'
  <1>1. /\ UNCHANGED <<serverVars, door, shown, selected, messagesOf, polls>>
        /\ \/ q.answer.said = "refused" /\ UNCHANGED failures
           \/ failures' = failures + 1
        /\ activeRun' \in {activeRun, NoRun}
        /\ open' = open \ {q} \/ open' = (open \ {q}) \cup {ListFor("nobody", 0, None)}
    BY DEF Denies
  <1>2. polls' \in [RunIds -> Poll] /\ failures' \in Nat /\ failures \in Nat
    BY <1>1 DEF WebInv, Shape
  <1>3. Shape' /\ RunFollows(activeRun', selected', runs')
    BY <1>1, <1>2, ClearedOrKept
  <1>4. \A x \in open' : RequestOK(x, agents', runs', polls')
    <2>1. ASSUME NEW x \in open
          PROVE  RequestOK(x, agents', runs', polls')
      <3>1. x.by = "poll" => polls'[x.run].phase = "refreshing"
        BY <1>1 DEF WebInv, RequestOK
      <3>2. QED
        BY <1>1, <3>1, OthersKept
    <2>2. RequestOK(ListFor("nobody", 0, None), agents', runs', polls')
      BY Lists
    <2>3. QED
      BY <1>1, <2>1, <2>2
  <1>5. LoopsOK(polls', runs', open')
    <2> SUFFICES ASSUME NEW r \in RunIds, polls'[r].phase = "refreshing"
                 PROVE  /\ r \in DOMAIN runs' /\ runs'[r].status # "active"
                        /\ Awaited(r, open') # {}
      BY DEF LoopsOK
    <2>1. r \in DOMAIN runs /\ runs[r].status # "active" /\ Awaited(r, open) # {}
      BY <1>1 DEF WebInv, LoopsOK
    <2>2. PICK x \in open : x.by = "poll" /\ x.run = r
      BY <2>1 DEF Awaited
    <2>3. x \in open'
      BY <1>1, <2>2
    <2>4. QED
      BY <1>1, <2>1, <2>2, <2>3 DEF Awaited, serverVars
  <1>6. MessagesFollow'
    <2> SUFFICES ASSUME messagesOf' \notin {selected', None}, selected' \in Listed(agents'),
                        failures' = 0
                 PROVE  Coming(selected', open')
      BY DEF MessagesFollow
    <2>1. q.answer.said = "refused" /\ failures = 0
      BY <1>1, <1>2
    <2>2. q.answer = Refusal
      BY <2>1, AnswersDiffer DEF WebInv, RequestOK
    <2>3. Coming(selected, open)
      BY <1>1, <2>1 DEF WebInv, MessagesFollow, serverVars
    <2>4. QED
      BY <1>1, <2>2, <2>3 DEF Coming
  <1>7. ShownIsPolled'
    <2> SUFFICES ASSUME activeRun'.active, runs'[activeRun'.id].status = "active", failures' = 0
                 PROVE  polls'[activeRun'.id].phase = "polling"
      BY DEF ShownIsPolled
    <2>1. activeRun' = activeRun /\ failures = 0
      BY <1>1, <1>2 DEF NoRun
    <2>2. QED
      BY <1>1, <2>1 DEF WebInv, ShownIsPolled, serverVars
  <1>8. QED
    BY <1>3, <1>4, <1>5, <1>6, <1>7 DEF WebInv

LEMMA PollAnsweredStep ==
    ASSUME WebInv, NEW r \in DOMAIN runs, PollAnswered(r)
    PROVE  WebInv'
  <1> DEFINE a == runs[r].agent
  <1>1. /\ UNCHANGED <<serverVars, door, shown, selected, messagesOf, failures>>
        /\ activeRun' = (IF Ours(a) THEN Snapshot(r) ELSE activeRun)
        /\ polls[r].phase = "polling"
    BY DEF PollAnswered
  <1>2. r \in RunIds /\ a \in Agents /\ polls \in [RunIds -> Poll] /\ failures \in Nat
    BY KnownRuns DEF Run, WebInv, Shape
  <1>3. /\ Snapshot(r) \in ShownRun /\ Snapshot(r).id = r
        /\ Snapshot(r).active => runs[r].status = "active"
    <2>1. (runs[r].status = "active") \in BOOLEAN
      OBVIOUS
    <2>2. QED
      BY <1>2, <2>1 DEF Snapshot, ShownRun
  <1> HIDE DEF a
  <1>4. RunFollows(activeRun', selected', runs')
    BY <1>1, <1>3 DEF WebInv, RunFollows, RunIsOf, Ours, serverVars, a
  <1>5. activeRun' \in ShownRun
    BY <1>1, <1>3 DEF WebInv, Shape
  <1>6. CASE runs[r].status = "active"
    <2>1. UNCHANGED <<polls, open>>
      BY <1>6 DEF PollAnswered
    <2>2. Shape' /\ MessagesFollow' /\ LoopsOK(polls', runs', open')
      BY <1>1, <1>5, <2>1 DEF WebInv, Shape, MessagesFollow, LoopsOK, serverVars
    <2>3. \A x \in open' : RequestOK(x, agents', runs', polls')
      BY <1>1, <2>1 DEF WebInv, serverVars
    <2>4. ShownIsPolled'
      BY <1>1, <1>3, <2>1 DEF WebInv, ShownIsPolled, serverVars
    <2>5. QED
      BY <1>4, <2>2, <2>3, <2>4 DEF WebInv
  <1>7. CASE runs[r].status # "active"
    <2> DEFINE ask  == Request("messages", a, r, "poll")
               list == Request("list", None, r, "poll")
               looked == [polls[r] EXCEPT !.phase = "refreshing"]
    <2>1. /\ polls' = [polls EXCEPT ![r] = looked]
          /\ open' = open \cup {ask, list}
      BY <1>7 DEF PollAnswered, ListFor, a
    <2>2. looked \in Poll /\ looked.phase = "refreshing"
      BY <1>2 DEF Poll
    <2>3. /\ RequestShape(ask) /\ ask.kind = "messages" /\ ask.agent = a /\ ask.run = r
          /\ ask.by = "poll" /\ ask.answer = Pending
      BY <1>2, Asked DEF Kinds, Waiters
    <2>4. /\ RequestShape(list) /\ list.kind = "list" /\ list.agent = None /\ list.run = r
          /\ list.by = "poll" /\ list.answer = Pending
      <3>1. "list" \in Kinds /\ "poll" \in Waiters /\ r \in RunIds \cup {0}
        BY <1>2 DEF Kinds, Waiters
      <3>2. QED
        BY <3>1, Asked
    <2> HIDE DEF ask, list, looked
    <2>5. /\ polls' \in [RunIds -> Poll] /\ polls'[r].phase = "refreshing"
          /\ \A s \in RunIds : s # r => polls'[s] = polls[s]
      BY <1>2, <2>1, <2>2
    <2>6. ASSUME NEW x \in open
          PROVE  RequestOK(x, agents', runs', polls')
      <3>1. RequestOK(x, agents, runs, polls)
        BY DEF WebInv
      <3>2. x.by = "poll" => x.run \in RunIds /\ polls[x.run].phase = "refreshing"
        BY <3>1, KnownRuns DEF RequestOK
      <3>3. x.by = "poll" => polls'[x.run].phase = "refreshing"
        BY <2>5, <3>2
      <3>4. QED
        BY <1>1, <3>3, OthersKept
    <2>7. RequestOK(ask, agents', runs', polls') /\ RequestOK(list, agents', runs', polls')
      BY <1>1, <2>3, <2>4, <2>5 DEF RequestOK, serverVars
    <2>8. \A x \in open' : RequestOK(x, agents', runs', polls')
      BY <2>1, <2>6, <2>7
    <2>9. LoopsOK(polls', runs', open')
      <3> SUFFICES ASSUME NEW s \in RunIds, polls'[s].phase = "refreshing"
                   PROVE  /\ s \in DOMAIN runs' /\ runs'[s].status # "active"
                          /\ Awaited(s, open') # {}
        BY DEF LoopsOK
      <3>1. CASE s = r
        BY <1>1, <1>7, <2>1, <2>3, <3>1 DEF Awaited, serverVars
      <3>2. CASE s # r
        <4>1. s \in DOMAIN runs /\ runs[s].status # "active" /\ Awaited(s, open) # {}
          BY <2>5, <3>2 DEF WebInv, LoopsOK
        <4>2. QED
          BY <1>1, <2>1, <4>1 DEF Awaited, serverVars
      <3>3. QED
        BY <3>1, <3>2
    <2>10. MessagesFollow'
      BY <1>1, <2>1 DEF WebInv, MessagesFollow, Coming, serverVars
    <2>11. Shape'
      BY <1>1, <1>5, <2>5 DEF WebInv, Shape, serverVars
    <2>12. ShownIsPolled'
      <3> SUFFICES ASSUME activeRun'.active, runs'[activeRun'.id].status = "active",
                          failures' = 0
                   PROVE  polls'[activeRun'.id].phase = "polling"
        BY DEF ShownIsPolled
      <3>1. activeRun' = activeRun
        BY <1>1, <1>3, <1>7
      <3>2. polls[activeRun.id].phase = "polling" /\ activeRun.id # r
        BY <1>1, <1>7, <3>1 DEF WebInv, ShownIsPolled, serverVars
      <3>3. activeRun.id \in RunIds
        BY <3>1, KnownRuns DEF WebInv, RunFollows, RunIsOf, NoRun
      <3>4. QED
        BY <2>5, <3>1, <3>2, <3>3
    <2>13. QED
      BY <1>4, <2>8, <2>9, <2>10, <2>11, <2>12 DEF WebInv
  <1>8. QED
    BY <1>6, <1>7

LEMMA PollFailsStep ==
    ASSUME WebInv, NEW r \in DOMAIN runs, PollFails(r)
    PROVE  WebInv'
  <1>1. /\ UNCHANGED <<serverVars, door, shown, selected, messagesOf>>
        /\ polls[r].phase = "polling" /\ polls' = [polls EXCEPT ![r] = Off]
        /\ \/ runs[r].status = "gone" /\ UNCHANGED failures
           \/ failures' = failures + 1
        /\ activeRun' \in {activeRun, NoRun}
        /\ open' = open \/ open' = open \cup {ListFor("nobody", 0, None)}
    BY DEF PollFails, PollEndsBadly
  <1>2. r \in RunIds /\ polls \in [RunIds -> Poll] /\ failures \in Nat
    BY KnownRuns DEF WebInv, Shape
  <1>3. Off \in Poll /\ Off.phase = "off"
    BY DEF Off, Poll
  <1>4. /\ polls' \in [RunIds -> Poll] /\ failures' \in Nat /\ polls'[r].phase = "off"
        /\ \A s \in RunIds : s # r => polls'[s] = polls[s]
    BY <1>1, <1>2, <1>3
  <1>5. Shape' /\ RunFollows(activeRun', selected', runs')
    BY <1>1, <1>4, ClearedOrKept
  <1>6. \A x \in open' : RequestOK(x, agents', runs', polls')
    <2>1. ASSUME NEW x \in open
          PROVE  RequestOK(x, agents', runs', polls')
      <3>1. RequestOK(x, agents, runs, polls)
        BY DEF WebInv
      <3>2. x.by = "poll" => x.run \in RunIds /\ polls[x.run].phase = "refreshing"
        BY <3>1, KnownRuns DEF RequestOK
      <3>3. x.by = "poll" => polls'[x.run].phase = "refreshing"
        BY <1>1, <1>4, <3>2
      <3>4. QED
        BY <1>1, <3>3, OthersKept
    <2>2. RequestOK(ListFor("nobody", 0, None), agents', runs', polls')
      BY Lists
    <2>3. QED
      BY <1>1, <2>1, <2>2
  <1>7. LoopsOK(polls', runs', open')
    <2> SUFFICES ASSUME NEW s \in RunIds, polls'[s].phase = "refreshing"
                 PROVE  /\ s \in DOMAIN runs' /\ runs'[s].status # "active"
                        /\ Awaited(s, open') # {}
      BY DEF LoopsOK
    <2>1. s \in DOMAIN runs /\ runs[s].status # "active" /\ Awaited(s, open) # {}
      BY <1>4 DEF WebInv, LoopsOK
    <2>2. QED
      BY <1>1, <2>1 DEF Awaited, serverVars
  <1>8. MessagesFollow'
    <2> SUFFICES ASSUME messagesOf' \notin {selected', None}, selected' \in Listed(agents'),
                        failures' = 0
                 PROVE  Coming(selected', open')
      BY DEF MessagesFollow
    <2>1. Coming(selected, open)
      BY <1>1, <1>2 DEF WebInv, MessagesFollow, serverVars
    <2>2. QED
      BY <1>1, <2>1 DEF Coming
  <1>9. ShownIsPolled'
    <2> SUFFICES ASSUME activeRun'.active, runs'[activeRun'.id].status = "active", failures' = 0
                 PROVE  polls'[activeRun'.id].phase = "polling"
      BY DEF ShownIsPolled
    <2>1. activeRun' = activeRun /\ failures = 0 /\ runs[r].status = "gone"
      BY <1>1, <1>2 DEF NoRun
    <2>2. polls[activeRun.id].phase = "polling" /\ activeRun.id # r
      BY <1>1, <2>1 DEF WebInv, ShownIsPolled, serverVars
    <2>3. activeRun.id \in RunIds
      BY <2>1, KnownRuns DEF WebInv, RunFollows, RunIsOf, NoRun
    <2>4. QED
      BY <1>4, <2>1, <2>2, <2>3
  <1>10. QED
    BY <1>5, <1>6, <1>7, <1>8, <1>9 DEF WebInv

-----------------------------------------------------------------------------
(* The invariant. *)

LEMMA WebInitially == Init => WebInv
  <1> SUFFICES ASSUME Init PROVE WebInv
    OBVIOUS
  <1>1. Off \in Poll /\ Off.phase = "off" /\ NoRun \in ShownRun /\ ~NoRun.active
    BY DEF Off, Poll, NoRun, ShownRun
  <1>2. Shape
    BY <1>1, WebAssumption DEF Init, Shape
  <1>3. /\ \A q \in open : RequestOK(q, agents, runs, polls)
        /\ RunFollows(activeRun, selected, runs) /\ MessagesFollow
    BY DEF Init, RunFollows, MessagesFollow
  <1>4. LoopsOK(polls, runs, open) /\ ShownIsPolled
    BY <1>1 DEF Init, LoopsOK, ShownIsPolled
  <1>5. QED
    BY <1>2, <1>3, <1>4 DEF WebInv

LEMMA WebStep ==
    ASSUME WebInv, [Next]_webVars
    PROVE  WebInv'
  <1>1. ASSUME NEW required \in BOOLEAN, Arrive(required)
        PROVE  WebInv'
    BY <1>1, ArriveStep
  <1>2. CASE Unlock
    BY <1>2, UnlockStep
  <1>3. ASSUME NEW a \in Agents, Select(a)
        PROVE  WebInv'
    BY <1>3, SelectStep
  <1>4. ASSUME NEW a \in Agents, NEW op, NEW answered \in BOOLEAN, Command(op, a, answered)
        PROVE  WebInv'
    BY <1>4, CommandStep
  <1>5. CASE SendMessage
    BY <1>5, SendStep
  <1>6. ASSUME NEW q \in open, Serve(q)
        PROVE  WebInv'
    BY <1>6, ServeStep
  <1>7. ASSUME NEW q \in open, Deliver(q)
        PROVE  WebInv'
    BY <1>7, DeliverListStep, DeliverLoadStep, DeliverMessagesStep, DeliverSendStep DEF Deliver
  <1>8. ASSUME NEW q \in open, Denies(q)
        PROVE  WebInv'
    BY <1>8, DeniesPollStep, DeniesOtherStep
  <1>9. ASSUME NEW r \in DOMAIN runs, RunEnds(r)
        PROVE  WebInv'
    BY <1>9, RunEndsStep
  <1>10. ASSUME NEW r \in DOMAIN runs, PollAnswered(r)
         PROVE  WebInv'
    BY <1>10, PollAnsweredStep
  <1>11. ASSUME NEW r \in DOMAIN runs, PollFails(r)
         PROVE  WebInv'
    BY <1>11, PollFailsStep
  <1>12. CASE UNCHANGED webVars
    BY <1>12 DEF WebInv, Shape, RequestOK, RunFollows, MessagesFollow, LoopsOK, ShownIsPolled,
                 webVars, serverVars, screenVars
  <1>13. QED
    BY <1>1, <1>2, <1>3, <1>4, <1>5, <1>6, <1>7, <1>8, <1>9, <1>10, <1>11, <1>12 DEF Next

\* Screen, loops and requests under way agree, whatever comes when.
THEOREM WebInvariant == Spec => []WebInv
  <1>1. WebInv /\ [Next]_webVars => WebInv'
    BY WebStep
  <1>2. QED
    BY <1>1, WebInitially, PTL DEF Spec

-----------------------------------------------------------------------------
(* What a reader may rely on. *)

\* The variables of the page hold what they are meant to.
THEOREM WebTypeCorrect == Spec => []WebTypeOK
  <1>1. WebInv => WebTypeOK
    <2>1. Born(agents) \subseteq Agents
      BY DEF Born
    <2>2. QED
      BY <2>1 DEF WebInv, Shape, RequestOK, RequestShape, WebTypeOK
  <1>2. QED
    BY <1>1, WebInvariant, PTL

\* What is on the screen is about the selected Agent (App.tsx, selectedIdRef):
\* the Run always; the messages, unless the Agent's own are still on their way
\* or a request has failed.
THEOREM ScreenFollows == Spec => []ScreenFollowsSelection
  <1>1. ASSUME WebInv
        PROVE  ScreenFollowsSelection
    <2>1. activeRun # NoRun => runs[activeRun.id].agent = selected
      BY <1>1 DEF WebInv, RunFollows, RunIsOf
    <2>2. ASSUME messagesOf \notin {selected, None}, selected \in There, failures = 0
          PROVE  Load(selected) \in {[q EXCEPT !.answer = Pending] : q \in open}
      <3>1. Coming(selected, open)
        BY <1>1, <2>2 DEF WebInv, MessagesFollow, There, Listed
      <3>2. PICK q \in open : q.kind = "load" /\ q.agent = selected
        BY <3>1 DEF Coming
      <3>3. RequestShape(q) /\ q.by = "nobody" /\ q.run = 0
        BY <1>1, <3>2 DEF WebInv, RequestOK
      <3>4. q = [kind |-> "load", agent |-> selected, run |-> 0, by |-> "nobody",
                 answer |-> q.answer]
        BY <3>2, <3>3 DEF RequestShape
      <3>5. [q EXCEPT !.answer = Pending] =
                [kind |-> "load", agent |-> selected, run |-> 0, by |-> "nobody",
                 answer |-> Pending]
        BY <3>4
      <3>6. Load(selected) = [q EXCEPT !.answer = Pending]
        BY <3>5 DEF Load, Request
      <3>7. QED
        BY <3>6
    <2>3. QED
      BY <2>1, <2>2 DEF ScreenFollowsSelection
  <1>2. QED
    BY <1>1, WebInvariant, PTL

\* A Run on the screen that still goes on is being polled (App.tsx, pollRun),
\* unless a request has failed, and a loop that has seen the end of its Run has
\* an answer to wait for, so that it does end.
THEOREM RunWatched == Spec => []ShownRunIsWatched
  <1>1. WebInv => ShownRunIsWatched
    BY DEF WebInv, ShownIsPolled, LoopsOK, ShownRunIsWatched
  <1>2. QED
    BY <1>1, WebInvariant, PTL

=============================================================================
