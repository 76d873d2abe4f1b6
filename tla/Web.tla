--------------------------------- MODULE Web ---------------------------------
(***************************************************************************)
(* The browser page (App.tsx, api.ts): what is on the screen while         *)
(* requests are answered in any order, are refused or fail, and the user   *)
(* goes from Agent to Agent.                                               *)
(*                                                                         *)
(* A request is served, then delivered, where its answer may be out of     *)
(* date when it comes; elsewhere the two are one step.  setState, render   *)
(* and the effects of a render are one step with the callback that causes  *)
(* them.                                                                   *)
(* The server is reduced to what answers depend on.  The statuses of       *)
(* Agents, which only close buttons, are left out: the user of this module *)
(* presses more of them than the page offers.                              *)
(***************************************************************************)
EXTENDS Integers, Sequences, FiniteSetsExt

CONSTANTS
    Agents,
    None,          \* no Agent
    MaxRuns,       \* bound: Runs ever accepted
    MaxOpen,       \* bound: requests under way when the user acts
    MaxFailures    \* bound: requests that fail

ASSUME WebAssumption ==
    /\ None \notin Agents
    /\ MaxRuns \in Nat /\ MaxOpen \in Nat /\ MaxFailures \in Nat

VARIABLES
    agents,      \* server: Agent -> is it there?
    runs,        \* server: the Runs, oldest first
    door,        \* is the page open to the user?
    shown,       \* the Agents listed on the page
    selected,    \* the selected Agent, or None
    activeRun,   \* the Run on the screen
    messagesOf,  \* the Agent whose messages are on the screen
    polls,       \* Run -> where its poll loop is
    open,        \* requests under way
    failures     \* requests that have failed (for MaxFailures)

serverVars == <<agents, runs>>
screenVars == <<shown, selected, activeRun, messagesOf>>
webVars == <<serverVars, door, screenVars, polls, open, failures>>

-----------------------------------------------------------------------------
There == {a \in Agents : agents[a] = "there"}

RunIds == 1 .. MaxRuns
Run == [agent : Agents, status : {"active", "over", "gone"}]
ShownRun == [id : RunIds \cup {0}, active : BOOLEAN]
NoRun == [id |-> 0, active |-> FALSE]

Snapshot(r) == [id |-> r, active |-> runs[r].status = "active"]
RunsOf(a) == {r \in DOMAIN runs : runs[r].agent = a /\ runs[r].status # "gone"}
Latest(a) == IF RunsOf(a) = {} THEN NoRun ELSE Snapshot(Max(RunsOf(a)))

\* sender: the loop is awaited by sendMessage, whose catch sees it fail.
Poll == [phase : {"off", "polling", "refreshing"}, sender : BOOLEAN]
Off == [phase |-> "off", sender |-> FALSE]

(***************************************************************************)
(* A request: its kind, the Agent and the Run it is about, and whom it is  *)
(* for, when its end is awaited.  answer is what the server said.          *)
(***************************************************************************)
Kinds == {"list", "load", "messages", "send"}
Pending == [said |-> "nothing"]

Request(kind, a, r, awaitedBy) ==
    [kind |-> kind, agent |-> a, run |-> r, by |-> awaitedBy, answer |-> Pending]

ListFor(awaitedBy, r, a) == Request("list", a, r, awaitedBy)
Load(a) == Request("load", a, 0, "nobody")

-----------------------------------------------------------------------------
(* The server *)

Answer(q, answer) == open' = (open \ {q}) \cup {[q EXCEPT !.answer = answer]}
Refusal == [said |-> "refused"]

ServeRead(q) ==
    /\ \/ q.kind = "list" /\ Answer(q, [said |-> "ok", listing |-> There])
       \/ q.kind = "load" /\ Answer(q, IF q.agent \notin There THEN Refusal
                                       ELSE [said |-> "ok", latest |-> Latest(q.agent)])
    /\ UNCHANGED serverVars

ServeSend(q) ==
    /\ q.kind = "send"
    /\ \/ /\ q.agent \in There /\ ~Latest(q.agent).active /\ Len(runs) < MaxRuns
          /\ runs' = Append(runs, [agent |-> q.agent, status |-> "active"])
          /\ Answer(q, [said |-> "ok", run |-> Len(runs) + 1])
       \/ Answer(q, Refusal) /\ UNCHANGED runs
    /\ UNCHANGED agents

\* What a command does: the Runs of an Agent end with a stop and go with a
\* deletion; a stop with no Run stands for a start or a save as well.
Effect(op, a) ==
    LET Now(from, status) == [r \in DOMAIN runs |->
            IF r \in RunsOf(a) /\ runs[r].status \in from
            THEN [runs[r] EXCEPT !.status = status] ELSE runs[r]]
    IN  \/ /\ op = "create" /\ agents[a] = "unborn"
           /\ agents' = [agents EXCEPT ![a] = "there"]
           /\ UNCHANGED runs
        \/ /\ op = "stop" /\ agents[a] = "there"
           /\ runs' = Now({"active"}, "over")
           /\ UNCHANGED agents
        \/ /\ op = "delete" /\ agents[a] = "there"
           /\ agents' = [agents EXCEPT ![a] = "deleted"]
           /\ runs' = Now({"active", "over"}, "gone")

Serve(q) ==
    /\ q.answer = Pending
    /\ ServeRead(q) \/ ServeSend(q)
    /\ UNCHANGED <<door, screenVars, polls, failures>>

RunEnds(r) ==
    /\ runs[r].status = "active"
    /\ runs' = [runs EXCEPT ![r].status = "over"]
    /\ UNCHANGED <<agents, door, screenVars, polls, open, failures>>

-----------------------------------------------------------------------------
(* The page: effects *)

\* Put Agent a, or None, on the screen.  A change clears the Run and loads what
\* belongs to the Agent; the old messages stay until the new ones come.
Show(a, others) ==
    /\ selected' = a
    /\ IF a = selected
       THEN UNCHANGED <<activeRun, messagesOf>> /\ open' = others
       ELSE /\ activeRun' = NoRun
            /\ messagesOf' = IF a = None THEN None ELSE messagesOf
            /\ open' = others \cup (IF a = None THEN {} ELSE {Load(a)})

\* Mutant of StartPoll: the loop of a Run replaces one that is under way.
MutantStartPoll(r, sender) == [polls EXCEPT ![r] = [phase |-> "off", sender |-> sender]]

\* One loop per Run: pollRun returns at once when there is one.
StartPoll(r, sender) ==
    [polls EXCEPT ![r] = IF @.phase = "off" THEN [phase |-> "polling", sender |-> sender]
                                            ELSE @]

\* A loop has failed.  sendMessage, if it awaits it, clears the Run of whichever
\* Agent is selected and lists the Agents.
PollEndsBadly(r, others) ==
    /\ polls' = [polls EXCEPT ![r] = Off]
    /\ IF polls[r].sender
       THEN activeRun' = NoRun /\ open' = others \cup {ListFor("nobody", 0, None)}
       ELSE UNCHANGED activeRun /\ open' = others

(* The page: answers *)

\* Mutant of Ours: an answer is shown whichever Agent is selected.
MutantOurs(a) == a \in Agents

\* Is the answer about the Agent that is selected now (selectedIdRef)?
Ours(a) == selected = a

\* Requests a poll loop waits for, once it has seen the end of its Run.
Awaited(r, requests) == {q \in requests : q.by = "poll" /\ q.run = r}

PollAfter(q) ==
    IF q.by = "poll" /\ Awaited(q.run, open \ {q}) = {}
    THEN [polls EXCEPT ![q.run] = Off] ELSE polls

\* Mutant of Keeps: a selection is only made, never given up.
MutantKeeps(listing) == selected # None

\* Does the selection outlive the listing?
Keeps(listing) == selected \in listing

DeliverList(q) ==
    LET listing == q.answer.listing
        keep    == Keeps(listing)
    IN  /\ q.kind = "list" /\ q.answer.said = "ok"
        /\ shown' = listing
        /\ \E first \in IF listing = {} THEN {None} ELSE listing :
              Show(IF q.by = "create" THEN q.agent ELSE IF keep THEN selected ELSE first,
                   open \ {q})
        /\ polls' = PollAfter(q)
        /\ door' = IF q.by = "unlock" THEN "open" ELSE door
        /\ UNCHANGED failures

DeliverLoad(q) ==
    LET latest == q.answer.latest
    IN  /\ q.kind = "load" /\ q.answer.said = "ok"
        /\ open' = open \ {q}
        /\ IF Ours(q.agent)
           THEN /\ messagesOf' = q.agent
                /\ activeRun' = latest
                /\ polls' = IF latest.active THEN StartPoll(latest.id, FALSE) ELSE polls
           ELSE UNCHANGED <<messagesOf, activeRun, polls>>
        /\ UNCHANGED <<door, shown, selected, failures>>

DeliverMessages(q) ==
    /\ q.kind = "messages"
    /\ open' = open \ {q}
    /\ messagesOf' = IF Ours(q.agent) THEN q.agent ELSE messagesOf
    /\ polls' = PollAfter(q)
    /\ UNCHANGED <<door, shown, selected, activeRun, failures>>

DeliverSend(q) ==
    /\ q.kind = "send" /\ q.answer.said = "ok"
    /\ open' = open \ {q}
    /\ activeRun' = IF Ours(q.agent) THEN [id |-> q.answer.run, active |-> TRUE]
                                     ELSE activeRun
    /\ polls' = StartPoll(q.answer.run, TRUE)
    /\ UNCHANGED <<door, shown, selected, messagesOf, failures>>

(***************************************************************************)
(* The request was refused, or it failed, served or not: a message on the  *)
(* screen, and what the callback that awaits it undoes.                    *)
(***************************************************************************)
Denies(q) ==
    LET rest == open \ {q}
    IN  /\ \/ q.answer.said = "refused" /\ UNCHANGED failures
           \/ /\ q.answer.said # "refused" /\ failures < MaxFailures
              /\ failures' = failures + 1
        /\ IF q.by = "poll"
           THEN PollEndsBadly(q.run,
                    {IF p.by = "poll" /\ p.run = q.run THEN [p EXCEPT !.by = "nobody"]
                     ELSE p : p \in rest})
           ELSE /\ UNCHANGED polls
                /\ IF q.kind = "send"
                   THEN activeRun' = NoRun /\ open' = rest \cup {ListFor("nobody", 0, None)}
                   ELSE UNCHANGED activeRun /\ open' = rest
        /\ UNCHANGED <<serverVars, door, shown, selected, messagesOf>>

Deliver(q) ==
    /\ \/ DeliverList(q) \/ DeliverLoad(q) \/ DeliverMessages(q)
       \/ DeliverSend(q)
    /\ UNCHANGED serverVars

(***************************************************************************)
(* One round of a poll loop: the timer, the request and its answer, which  *)
(* no other loop of the Run can overtake.                                  *)
(***************************************************************************)
PollAnswered(r) ==
    LET a == runs[r].agent
    IN  /\ polls[r].phase = "polling"
        /\ runs[r].status # "gone"
        /\ activeRun' = IF Ours(a) THEN Snapshot(r) ELSE activeRun
        /\ IF runs[r].status = "active"
           THEN UNCHANGED <<polls, open>>
           ELSE /\ polls' = [polls EXCEPT ![r].phase = "refreshing"]
                /\ open' = open \cup {Request("messages", a, r, "poll"),
                                      ListFor("poll", r, None)}
        /\ UNCHANGED <<serverVars, door, shown, selected, messagesOf,
                       failures>>

PollFails(r) ==
    /\ polls[r].phase = "polling"
    /\ \/ runs[r].status = "gone" /\ UNCHANGED failures
       \/ failures < MaxFailures /\ failures' = failures + 1
    /\ PollEndsBadly(r, open)
    /\ UNCHANGED <<serverVars, door, shown, selected, messagesOf>>

-----------------------------------------------------------------------------
(* The user *)

\* /api/auth says whether a token is needed; bootstrap lists the Agents.
Arrive(required) ==
    /\ door = "asking"
    /\ door' = IF required THEN "locked" ELSE "open"
    /\ open' = IF required THEN open ELSE open \cup {ListFor("nobody", 0, None)}
    /\ UNCHANGED <<serverVars, screenVars, polls, failures>>

\* A command of the user is under way.
busy == \E q \in open : q.by \in {"create", "command", "unlock"}

Unlock ==
    /\ door = "locked"
    /\ ~busy
    /\ open' = open \cup {ListFor("unlock", 0, None)}
    /\ UNCHANGED <<serverVars, door, screenVars, polls, failures>>

MayAct == door = "open" /\ Cardinality(open) < MaxOpen

Select(a) ==
    /\ MayAct
    /\ a \in shown
    /\ Show(a, open)
    /\ UNCHANGED <<serverVars, door, shown, polls, failures>>

\* The composer is open as long as no Run is seen to go on.
SendMessage ==
    /\ MayAct
    /\ selected \in shown
    /\ ~activeRun.active
    /\ open' = open \cup {Request("send", selected, 0, "nobody")}
    /\ UNCHANGED <<serverVars, door, screenVars, polls, failures>>

(***************************************************************************)
(* createAgent, toggleAgent, saveAgent and deleteAgent: one at a time, each*)
(* followed by a listing.  A command that is refused changes nothing; the  *)
(* answer to one that was carried out may be lost.  A new Agent has an id  *)
(* of its own.                                                             *)
(***************************************************************************)
Command(op, a, answered) ==
    /\ MayAct
    /\ ~busy
    /\ IF op = "create" THEN TRUE ELSE a = selected /\ a \in shown
    /\ Effect(op, a)
    /\ IF answered
       THEN /\ open' = open \cup {ListFor(IF op = "create" THEN "create" ELSE "command",
                                          0, IF op = "create" THEN a ELSE None)}
            /\ UNCHANGED failures
       ELSE /\ failures < MaxFailures /\ failures' = failures + 1
            /\ UNCHANGED open
    /\ UNCHANGED <<door, screenVars, polls>>

-----------------------------------------------------------------------------
Init ==
    /\ agents \in [Agents -> {"unborn", "there"}]
    /\ runs = <<>>
    /\ door = "asking"
    /\ shown = {}
    /\ selected = None
    /\ activeRun = NoRun
    /\ messagesOf = None
    /\ polls = [r \in RunIds |-> Off]
    /\ open = {}
    /\ failures = 0

Next ==
    \/ \E required \in BOOLEAN : Arrive(required)
    \/ Unlock
    \/ \E a \in Agents :
          \/ Select(a)
          \/ \E op \in {"create", "stop", "delete"}, answered \in BOOLEAN :
                Command(op, a, answered)
    \/ SendMessage
    \/ \E q \in open : Serve(q) \/ Deliver(q) \/ Denies(q)
    \/ \E r \in DOMAIN runs : RunEnds(r) \/ PollAnswered(r) \/ PollFails(r)

Spec == Init /\ [][Next]_webVars

-----------------------------------------------------------------------------
WebTypeOK ==
    /\ agents \in [Agents -> {"unborn", "there", "deleted"}]
    /\ shown \subseteq Agents
    /\ runs \in Seq(Run) /\ Len(runs) <= MaxRuns
    /\ door \in {"asking", "locked", "open"}
    /\ {selected, messagesOf} \subseteq Agents \cup {None}
    /\ selected \in shown \cup {None}
    /\ activeRun \in ShownRun
    /\ polls \in [RunIds -> Poll]
    /\ \A q \in open : q.kind \in Kinds /\ q.run \in RunIds \cup {0}

(***************************************************************************)
(* What is on the screen is about the selected Agent, however late answers *)
(* are: the Run always, the messages unless the Agent's own are still on   *)
(* their way or a request has failed or was refused.                       *)
(***************************************************************************)
ScreenFollowsSelection ==
    /\ activeRun # NoRun => runs[activeRun.id].agent = selected
    /\ (messagesOf \notin {selected, None} /\ selected \in There /\ failures = 0)
           => Load(selected) \in {[q EXCEPT !.answer = Pending] : q \in open}

(***************************************************************************)
(* A Run that is on the screen and still going on is being polled, so that *)
(* the screen sees its end, unless a request has failed; and a loop that   *)
(* has seen the end of its Run always has an answer to wait for, or        *)
(* pollRun would refuse to watch the Run ever again.                       *)
(***************************************************************************)
ShownRunIsWatched ==
    /\ activeRun.active /\ runs[activeRun.id].status = "active" /\ failures = 0
           => polls[activeRun.id].phase = "polling"
    /\ \A r \in RunIds : polls[r].phase = "refreshing" => Awaited(r, open) # {}

=============================================================================
