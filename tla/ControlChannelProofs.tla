------------------------- MODULE ControlChannelProofs -------------------------
(***************************************************************************)
(* Machine-checked proofs about the control channel, for any number of     *)
(* Runs, any size of the ledger and of the audit tail, and any number of   *)
(* calls that fail, are late or are handled after nobody waits for them.   *)
(***************************************************************************)
EXTENDS ControlChannel, SequenceTheorems, FiniteSetTheorems, WellFoundedInduction, TLAPS

-----------------------------------------------------------------------------
(***************************************************************************)
(* What holds of one Run, with `run' where its runner is, g the status of  *)
(* its grant, t its trace and a what was archived of it.  None of it       *)
(* mentions another Run: Runs meet in the ledger's capacity only.          *)
(***************************************************************************)
Stopped == {"revoked", "exhausted"}
BeginFailed(run) == "beginning" \in run.failedIn
CloseFailed(run) == "closing" \in run.failedIn

Says(status, run, g) ==
    /\ status = "ok" => run.result = "ok"
    /\ status = "denied" => g \in Stopped

\* How far the runner is, and what that says of its result and its grant.
Progress(run, g) ==
    /\ run.phase = "idle" => g = "none"
    /\ run.phase \in {"idle", "beginning", "inner"} => run.result = "none"
    /\ run.phase \in {"ending", "archivingGood", "completed"} => run.result = "ok"
    /\ run.phase \in {"asking", "closing", "archivingBad"} => run.result # "none"
    /\ run.phase = "failed" => run.result # "none" \/ BeginFailed(run)
    /\ run.phase \notin {"idle", "beginning", "failed"} => g # "none"
    /\ run.result # "none" => g # "none"
    /\ run.phase \in {"asking", "closing", "archivingBad", "failed"} /\ run.result = "ok"
          => "ending" \in run.failedIn

\* What is left once the last endRun was answered or given up on.
Aftermath(run, g, t, a) ==
    /\ run.phase \in {"archivingGood", "completed"} =>
          g # "active" /\ t.status \in {"ok", "none"} /\ a \in {"ok", "none"}
    /\ run.phase \in {"archivingBad", "failed"} =>
          \/ g # "active" /\ t.status # "running"
          \/ CloseFailed(run)
          \/ run.phase = "failed" /\ BeginFailed(run)
    /\ run.phase \notin {"archivingGood", "archivingBad", "completed", "failed"} => a = "none"
    /\ a = "running" => CloseFailed(run)

Evidence(g, t) ==
    /\ t.status # "none" => g # "none"
    /\ t.status # "none" /\ g = "revoked" => t.revoked
    /\ t.status # "none" /\ t.revoked => g \in {"revoked", "closed", "expired"}

RunOK(run, g, t, a) ==
    /\ Progress(run, g)
    /\ Aftermath(run, g, t, a)
    /\ Says(t.status, run, g)
    /\ Says(a, run, g)
    /\ Evidence(g, t)
    /\ t.revoked => run.asked

(***************************************************************************)
(* What holds of a call in flight: a beginRun has not been handled, and one*)
(* that nobody waits for has failed its Run; a late endRun belongs to a Run*)
(* that is past its good end.                                              *)
(***************************************************************************)
CallOK(c, run, g) ==
    /\ c.stage = "sent" => c.op = Asks[run.phase]
    /\ c.stage = "unheeded" => c.op \in {"beginRun", "endRun", "revokeGrant"}
    /\ c.op = "beginRun" =>
          /\ g = "none"
          /\ c.stage = "unheeded" => run.phase = "failed" /\ BeginFailed(run)
    /\ c.op = "endRun" =>
          /\ c.status \in Outcomes
          /\ g # "none"
          /\ Says(c.status, run, g)
          /\ c.stage = "sent" /\ run.phase = "ending" => c.status = "ok"
          /\ c.stage = "unheeded" =>
                run.phase \in {"asking", "closing", "archivingBad", "failed"}
    /\ c.op # "endRun" => c.status = "none"
    /\ c.op = "revokeGrant" => c.stage = "unheeded" /\ g # "none" /\ run.asked

OneIsAwaited ==
    \A c, d \in calls :
        c.run = d.run /\ c.stage = "sent" /\ d.stage = "sent" => c = d

\* The ledger holds the traces it says, none twice: those of the last Runs begun.
LedgerOK ==
    /\ Len(order) <= MaxTraces
    /\ \A i, j \in 1 .. Len(order) : order[i] = order[j] => i = j
    /\ \A r \in Runs : Kept(r) <=> \E i \in 1 .. Len(order) : order[i] = r
    /\ Len(order) <= Len(begun)
    /\ Len(order) = MaxTraces \/ Len(order) = Len(begun)
    /\ \A i \in 1 .. Len(order) : order[i] = begun[Len(begun) - Len(order) + i]

Change == [from : Policies, to : Policies]

ChannelTypes ==
    /\ up \in BOOLEAN
    /\ grants \in [Runs -> GrantStates]
    /\ delegated \in [Runs -> Policies]
    /\ traces \in [Runs -> Trace]
    /\ order \in Seq(Runs)
    /\ begun \in Seq(Runs)
    /\ template \in Policies
    /\ changes \in Seq(Change) /\ Len(changes) <= MaxChanges
    /\ applied \in Nat /\ Len(changes) <= applied
    /\ failures \in Nat
    /\ runner \in [Runs -> Runner]
    /\ calls \subseteq Call
    /\ archive \in [Runs -> TraceStates]

ChannelInv ==
    /\ ChannelTypes
    /\ \A r \in Runs : RunOK(runner[r], grants[r], traces[r], archive[r])
    /\ \A c \in calls : CallOK(c, runner[c.run], grants[c.run])
    /\ OneIsAwaited
    /\ LedgerOK
    /\ DelegationIsAccountable

-----------------------------------------------------------------------------
(* What the broker does to one Run, its runner standing still. *)

\* endRun: the grant is over, the trace tells what it was told.
LEMMA EndRunHalf ==
    ASSUME NEW run \in Runner, NEW g \in GrantStates, NEW t \in Trace,
           NEW a \in TraceStates, NEW status \in Outcomes,
           RunOK(run, g, t, a), Says(status, run, g), g # "none",
           run.phase \in {"ending", "asking", "closing", "archivingBad", "failed"},
           NEW g2, g2 = IF g = "active" THEN "closed" ELSE g,
           NEW t2, t2 = IF t.status # "none" THEN [t EXCEPT !.status = status] ELSE t
    PROVE  /\ g2 \in GrantStates /\ t2 \in Trace
           /\ RunOK(run, g2, t2, a)
           /\ g2 \notin {"none", "active"} /\ t2.status \in {status, "none"}
           /\ t2.status = "none" <=> t.status = "none"
  <1>1. g2 \in GrantStates /\ g2 \notin {"none", "active"} /\ (g \in Stopped <=> g2 \in Stopped)
        /\ (g2 = "revoked" <=> g = "revoked")
        /\ (g \in {"revoked", "closed", "expired"} => g2 \in {"revoked", "closed", "expired"})
    BY DEF GrantStates, Stopped
  <1>2. Progress(run, g2) /\ Says(a, run, g2) /\ (t.revoked => run.asked)
    BY <1>1 DEF RunOK, Progress, Says
  <1>3. CASE t.status = "none"
    <2>1. t2 = t
      BY <1>3
    <2>2. Aftermath(run, g2, t2, a)
      BY <1>1, <1>3, <2>1 DEF RunOK, Aftermath
    <2>3. Says(t2.status, run, g2)
      BY <1>3, <2>1 DEF Says
    <2>4. Evidence(g2, t2)
      BY <1>3, <2>1 DEF Evidence
    <2>5. QED
      BY <1>1, <1>2, <1>3, <2>1, <2>2, <2>3, <2>4 DEF RunOK
  <1>4. CASE t.status # "none"
    <2>1. t2 = [status |-> status, revoked |-> t.revoked]
      BY <1>4 DEF Trace
    <2>2. t2 \in Trace /\ t2.status = status /\ status \notin {"none", "running"}
          /\ t2.revoked = t.revoked
      BY <2>1 DEF Trace, TraceStates, Outcomes
    <2>3. Aftermath(run, g2, t2, a)
      BY <1>1, <2>2 DEF RunOK, Aftermath
    <2>4. Says(t2.status, run, g2)
      BY <1>1, <2>2 DEF Says
    <2>5. Evidence(g2, t2)
      BY <1>1, <1>4, <2>2 DEF RunOK, Evidence
    <2>6. QED
      BY <1>1, <1>2, <1>4, <2>2, <2>3, <2>4, <2>5 DEF RunOK
  <1>5. QED
    BY <1>3, <1>4

\* revokeGrant: what is recorded of it is recorded also of a grant already over.
LEMMA RevokeHalf ==
    ASSUME NEW run \in Runner, NEW g \in GrantStates, NEW t \in Trace,
           NEW a \in TraceStates, RunOK(run, g, t, a), g # "none", run.asked,
           NEW g2, g2 = IF g \in {"active", "exhausted"} THEN "revoked" ELSE g,
           NEW t2, t2 = IF t.status # "none" THEN [t EXCEPT !.revoked = TRUE] ELSE t
    PROVE  /\ g2 \in GrantStates /\ t2 \in Trace
           /\ RunOK(run, g2, t2, a)
           /\ t2.status = t.status
           /\ g2 \notin {"none", "active"} /\ (g \in Stopped => g2 \in Stopped)
  <1>1. /\ g2 \in GrantStates /\ g2 \notin {"none", "active"}
        /\ g \in Stopped => g2 \in Stopped
        /\ g2 \in {"revoked", "closed", "expired"}
    BY DEF GrantStates, Stopped
  <1>2. t2 \in Trace /\ t2.status = t.status /\ (t.status # "none" => t2.revoked)
    BY DEF Trace
  <1>3. Progress(run, g2) /\ Aftermath(run, g2, t2, a)
    BY <1>1, <1>2 DEF RunOK, Progress, Aftermath
  <1>4. Says(t2.status, run, g2) /\ Says(a, run, g2)
    BY <1>1, <1>2 DEF RunOK, Says
  <1>5. Evidence(g2, t2)
    BY <1>1, <1>2 DEF Evidence
  <1>6. QED
    BY <1>1, <1>2, <1>3, <1>4, <1>5 DEF RunOK

\* beginRun: a grant and a running trace, of a Run that has none yet.
LEMMA BeginHalf ==
    ASSUME NEW run \in Runner, NEW t \in Trace, NEW a \in TraceStates,
           RunOK(run, "none", t, a),
           run.phase = "beginning" \/ (run.phase = "failed" /\ BeginFailed(run))
    PROVE  LET t2 == [status |-> "running", revoked |-> FALSE]
           IN  t2 \in Trace /\ RunOK(run, "active", t2, a)
  BY DEF RunOK, Progress, Aftermath, Says, Evidence, Trace, TraceStates, Stopped

\* The grant is exhausted or expires.
LEMMA GrantEndsHalf ==
    ASSUME NEW run \in Runner, NEW t \in Trace, NEW a \in TraceStates,
           RunOK(run, "active", t, a), NEW how \in {"exhausted", "expired"}
    PROVE  RunOK(run, how, t, a)
  BY DEF RunOK, Progress, Aftermath, Says, Evidence, Stopped

\* The trace of a Run makes room for that of another.
LEMMA EvictedHalf ==
    ASSUME NEW run \in Runner, NEW g \in GrantStates, NEW t \in Trace,
           NEW a \in TraceStates, RunOK(run, g, t, a)
    PROVE  NoTrace \in Trace /\ RunOK(run, g, NoTrace, a)
  BY DEF RunOK, Progress, Aftermath, Says, Evidence, Stopped, NoTrace, Trace, TraceStates

\* What the broker does to the grant of a call in flight leaves the call in order.
LEMMA CallKeeps ==
    ASSUME NEW c \in Call, NEW run, NEW g, NEW g2, CallOK(c, run, g),
           g2 # "none", g = "none" => c.op # "beginRun",
           g \in Stopped => g2 \in Stopped, g # "none"
    PROVE  CallOK(c, run, g2)
  BY DEF CallOK, Says

-----------------------------------------------------------------------------
(* What the runner does, the broker standing still. *)

\* The phases that wait for an answer, and what they wait for.
LEMMA Waits ==
    ASSUME NEW phase \in Phases
    PROVE  /\ Asks[phase] = "beginRun" <=> phase = "beginning"
           /\ Asks[phase] = "endRun" <=> phase \in {"ending", "closing"}
           /\ Asks[phase] = "getGrant" <=> phase = "asking"
           /\ Asks[phase] = "getTrace" <=> phase \in {"archivingGood", "archivingBad"}
           /\ Asks[phase] # "revokeGrant"
           /\ Asks[phase] \in Ops <=>
                 phase \in {"beginning", "ending", "closing", "asking",
                            "archivingGood", "archivingBad"}
           /\ phase \in {"idle", "beginning", "inner", "ending", "asking", "closing",
                         "archivingGood", "archivingBad", "completed", "failed"}
  BY DEF Phases, Asks, Ops

Waiting == {"beginning", "ending", "closing", "asking", "archivingGood", "archivingBad"}

\* An answer moves the runner on, and may put the trace in the archive.
LEMMA AnswerHalf ==
    ASSUME NEW run \in Runner, NEW g \in GrantStates, NEW t \in Trace,
           NEW a \in TraceStates, RunOK(run, g, t, a),
           run.phase \in Waiting,
           run.phase = "beginning" => g # "none",
           run.phase = "ending" => g # "active" /\ t.status \in {"ok", "none"},
           run.phase = "closing" => g # "active" /\ t.status # "running",
           NEW a2,
           \/ a2 = a
           \/ run.phase \in {"archivingGood", "archivingBad"} /\ a2 = t.status
    PROVE  LET run2 == [run EXCEPT !.phase = AfterAnswer[run.phase]]
           IN  run2 \in Runner /\ RunOK(run2, g, t, a2)
  <1> DEFINE run2 == [run EXCEPT !.phase = AfterAnswer[run.phase]]
  <1>1. /\ run2.phase = AfterAnswer[run.phase]
        /\ run2.result = run.result /\ run2.failedIn = run.failedIn
        /\ run2.asked = run.asked
        /\ run2 \in Runner
    BY DEF Runner, AfterAnswer, Phases, Asks, Waiting
  <1>2. /\ run.phase = "beginning" => AfterAnswer[run.phase] = "inner"
        /\ run.phase = "ending" => AfterAnswer[run.phase] = "archivingGood"
        /\ run.phase = "asking" => AfterAnswer[run.phase] = "closing"
        /\ run.phase = "closing" => AfterAnswer[run.phase] = "archivingBad"
        /\ run.phase = "archivingGood" => AfterAnswer[run.phase] = "completed"
        /\ run.phase = "archivingBad" => AfterAnswer[run.phase] = "failed"
    BY DEF AfterAnswer
  <1> HIDE DEF run2
  <1>3. Progress(run2, g)
    BY <1>1, <1>2 DEF RunOK, Progress, Waiting, BeginFailed
  <1>4. Aftermath(run2, g, t, a2)
    BY <1>1, <1>2 DEF RunOK, Aftermath, Waiting, BeginFailed, CloseFailed
  <1>5. Says(t.status, run2, g) /\ Says(a2, run2, g)
    BY <1>1 DEF RunOK, Says
  <1>6. QED
    BY <1>1, <1>3, <1>4, <1>5 DEF RunOK, run2

\* A failure moves it on too, and is remembered.
LEMMA FailureHalf ==
    ASSUME NEW run \in Runner, NEW g \in GrantStates, NEW t \in Trace,
           NEW a \in TraceStates, RunOK(run, g, t, a), run.phase \in Waiting
    PROVE  LET run2 == [run EXCEPT !.phase = AfterFailure[run.phase],
                                   !.failedIn = @ \cup ({run.phase} \cap Handshakes)]
           IN  /\ run2 \in Runner /\ RunOK(run2, g, t, a)
               /\ run2.result = run.result /\ run2.asked = run.asked
               /\ run.phase = "beginning" => run2.phase = "failed" /\ BeginFailed(run2)
               /\ run.phase = "ending" => run2.phase = "asking"
               /\ run.phase = "asking" => run2.phase = "closing"
               /\ run.phase = "closing" => run2.phase = "archivingBad"
               /\ run.phase = "archivingGood" => run2.phase = "completed"
               /\ run.phase = "archivingBad" => run2.phase = "failed"
  <1> DEFINE run2 == [run EXCEPT !.phase = AfterFailure[run.phase],
                                 !.failedIn = @ \cup ({run.phase} \cap Handshakes)]
  <1>0. /\ run.phase = "beginning" => AfterFailure[run.phase] = "failed"
        /\ run.phase = "ending" => AfterFailure[run.phase] = "asking"
        /\ run.phase = "asking" => AfterFailure[run.phase] = "closing"
        /\ run.phase = "closing" => AfterFailure[run.phase] = "archivingBad"
        /\ run.phase = "archivingGood" => AfterFailure[run.phase] = "completed"
        /\ run.phase = "archivingBad" => AfterFailure[run.phase] = "failed"
    BY DEF AfterFailure
  <1>1. /\ run2.phase = AfterFailure[run.phase]
        /\ run2.result = run.result /\ run2.asked = run.asked
        /\ run2.failedIn = run.failedIn \cup ({run.phase} \cap Handshakes)
        /\ run2 \in Runner
    <2>1. AfterFailure[run.phase] \in Phases
      BY <1>0 DEF Phases, Asks, Waiting
    <2>2. run.failedIn \cup ({run.phase} \cap Handshakes) \in SUBSET Handshakes
      BY DEF Runner
    <2>3. QED
      BY <2>1, <2>2 DEF Runner
  <1>2. /\ run.phase = "beginning" => run2.phase = "failed" /\ BeginFailed(run2)
        /\ run.phase = "ending" => run2.phase = "asking" /\ "ending" \in run2.failedIn
        /\ run.phase = "asking" => run2.phase = "closing"
        /\ run.phase = "closing" => run2.phase = "archivingBad" /\ CloseFailed(run2)
        /\ run.phase = "archivingGood" => run2.phase = "completed"
        /\ run.phase = "archivingBad" => run2.phase = "failed"
        /\ run.failedIn \subseteq run2.failedIn
    <2> HIDE DEF run2
    <2>1. /\ run.phase = "beginning" => BeginFailed(run2)
          /\ run.phase = "ending" => "ending" \in run2.failedIn
          /\ run.phase = "closing" => CloseFailed(run2)
          /\ run.failedIn \subseteq run2.failedIn
      BY <1>1 DEF Handshakes, BeginFailed, CloseFailed
    <2>2. QED
      BY <1>0, <1>1, <2>1
  <1> HIDE DEF run2
  <1>3. Progress(run2, g)
    BY <1>1, <1>2 DEF RunOK, Progress, Waiting, BeginFailed
  <1>4. Aftermath(run2, g, t, a)
    BY <1>1, <1>2 DEF RunOK, Aftermath, Waiting, BeginFailed, CloseFailed
  <1>5. Says(t.status, run2, g) /\ Says(a, run2, g)
    BY <1>1 DEF RunOK, Says
  <1>6. QED
    BY <1>1, <1>2, <1>3, <1>4, <1>5 DEF RunOK, run2

\* A call that nobody waits for stays in order when its Run moves on.
LEMMA UnheededMoves ==
    ASSUME NEW d \in Call, d.stage = "unheeded", NEW run, NEW run2, NEW g,
           CallOK(d, run, g), run.phase # "failed", run2.asked = run.asked,
           run.phase \in {"asking", "closing", "archivingBad"} =>
               /\ run2.phase \in {"asking", "closing", "archivingBad", "failed"}
               /\ run2.result = run.result
    PROVE  CallOK(d, run2, g)
  BY DEF CallOK, Says

-----------------------------------------------------------------------------
(***************************************************************************)
(* The broker's half of a handled call c: the Run it is of, and those whose*)
(* traces it drops, are as they should be; so are the calls still in flight*)
(* and the ledger; and an answer finds what its runner counts on.          *)
(***************************************************************************)
CountsOn(run, g, t) ==
    /\ run.phase = "beginning" => g # "none"
    /\ run.phase = "ending" => g # "active" /\ t.status \in {"ok", "none"}
    /\ run.phase = "closing" => g # "active" /\ t.status # "running"

BrokerHalf(c) ==
    /\ grants' \in [Runs -> GrantStates]
    /\ traces' \in [Runs -> Trace]
    /\ order' \in Seq(Runs) /\ begun' \in Seq(Runs)
    /\ delegated' \in [Runs -> Policies]
    /\ \A r \in Runs : delegated'[r] \in {delegated[r], template}
    /\ \A r \in Runs : RunOK(runner[r], grants'[r], traces'[r], archive[r])
    /\ \A d \in calls \ {c} : CallOK(d, runner[d.run], grants'[d.run])
    /\ LedgerOK'
    /\ c.stage = "sent" => CountsOn(runner[c.run], grants'[c.run], traces'[c.run])
    /\ c.op \in {"getGrant", "getTrace"} => UNCHANGED <<grants, traces>>

\* A new trace takes its place, and the oldest one goes if there is none left.
LEMMA RoomForOne ==
    ASSUME ChannelTypes, LedgerOK, NEW r \in Runs, ~Kept(r), BeginTrace(r),
           begun' = Append(begun, r)
    PROVE  /\ order' \in Seq(Runs) /\ begun' \in Seq(Runs)
           /\ traces' \in [Runs -> Trace]
           /\ traces'[r] = [status |-> "running", revoked |-> FALSE]
           /\ \A x \in Runs \ {r} : traces'[x] \in {traces[x], NoTrace}
           /\ LedgerOK'
  <1> DEFINE held == Append(order, r)
             n == Evict(held)
             gone == {held[i] : i \in 1 .. n}
  <1>1. /\ held \in Seq(Runs) /\ Len(held) = Len(order) + 1
        /\ \A i \in 1 .. Len(order) : held[i] = order[i]
        /\ held[Len(order) + 1] = r
    BY DEF ChannelTypes
  <1>2. /\ Len(order) \in Nat /\ MaxTraces \in Nat /\ MaxTraces > 0
        /\ Len(order) <= MaxTraces
    BY ChannelAssumption DEF ChannelTypes, LedgerOK
  <1>3. /\ n \in {0, 1}
        /\ n = 1 => Len(order) = MaxTraces
        /\ n = 0 => Len(order) < MaxTraces
    BY <1>1, <1>2 DEF Evict
  <1>4. /\ order' = SubSeq(held, n + 1, Len(held))
        /\ traces' = [x \in Runs |->
               CASE x \in gone -> NoTrace
                 [] x = r /\ r \notin gone -> [NoTrace EXCEPT !.status = "running"]
                 [] OTHER -> traces[x]]
    BY DEF BeginTrace
  <1> HIDE DEF held
  <1>5. /\ order' \in Seq(Runs) /\ Len(order') = Len(order) + 1 - n
        /\ \A i \in 1 .. Len(order') : order'[i] = held[i + n]
    <2>1. n + 1 \in 1 .. Len(held) + 1 /\ Len(held) \in Nat
      BY <1>1, <1>2, <1>3
    <2> HIDE DEF n
    <2>2. CASE n = 0
      BY <1>1, <1>2, <1>4, <2>1, <2>2
    <2>3. CASE n = 1
      BY <1>1, <1>2, <1>4, <2>1, <2>3
    <2>4. QED
      BY <1>3, <2>2, <2>3 DEF n
  <1>6. \A i \in 1 .. Len(order) : order[i] \in Runs /\ order[i] # r
    BY DEF LedgerOK, ChannelTypes
  <1>7. \A x : x \in gone <=> n = 1 /\ x = order[1]
    BY <1>1, <1>2, <1>3
  <1>8. r \notin gone
    BY <1>2, <1>3, <1>6, <1>7
  <1>9. /\ traces'[r] = [status |-> "running", revoked |-> FALSE]
        /\ \A x \in Runs \ {r} :
              traces'[x] = IF x \in gone THEN NoTrace ELSE traces[x]
    <2> HIDE DEF gone
    <2>1. QED
      BY <1>4, <1>8 DEF NoTrace
  <1>10. traces' \in [Runs -> Trace]
    <2> HIDE DEF gone
    <2>1. traces' = [x \in Runs |-> traces'[x]]
      BY <1>4
    <2>2. NoTrace \in Trace /\ [status |-> "running", revoked |-> FALSE] \in Trace
      BY DEF Trace, TraceStates, NoTrace
    <2>3. \A x \in Runs : traces[x] \in Trace
      BY DEF ChannelTypes
    <2>4. \A x \in Runs : traces'[x] \in Trace
      BY <1>9, <2>2, <2>3
    <2>5. QED
      BY <2>1, <2>4
  <1> HIDE DEF n, gone
  <1>o. \A i, j \in 1 .. Len(order) : order[i] = order[j] => i = j
    BY DEF LedgerOK
  <1>p. \A i \in 1 .. Len(order) : order[i] \in Runs /\ order[i] # r
    BY <1>6
  <1>11. \A i, j \in 1 .. Len(order') : order'[i] = order'[j] => i = j
    <2> SUFFICES ASSUME NEW i \in 1 .. Len(order'), NEW j \in 1 .. Len(order'),
                        order'[i] = order'[j]
                 PROVE  i = j
      OBVIOUS
    <2>1. i + n \in 1 .. Len(order) + 1 /\ j + n \in 1 .. Len(order) + 1
      BY <1>2, <1>3, <1>5
    <2>2. held[i + n] = held[j + n]
      BY <1>5
    <2>3. PICK a \in 1 .. Len(order) + 1 : a = i + n
      BY <2>1
    <2>4. PICK b \in 1 .. Len(order) + 1 : b = j + n
      BY <2>1
    <2>5. a = b
      <3>1. held[a] = held[b]
        BY <2>2, <2>3, <2>4
      <3>2. \A k \in 1 .. Len(order) + 1 : k \in 1 .. Len(order) \/ k = Len(order) + 1
        BY <1>2
      <3>3. CASE a \in 1 .. Len(order) /\ b \in 1 .. Len(order)
        BY <1>1, <1>o, <3>1, <3>3
      <3>4. CASE a = Len(order) + 1 \/ b = Len(order) + 1
        BY <1>1, <1>p, <3>1, <3>2, <3>4
      <3>5. QED
        BY <3>2, <3>3, <3>4
    <2>6. QED
      BY <1>3, <2>3, <2>4, <2>5
  <1>12. \A x \in Runs : Kept(x)' <=> \E i \in 1 .. Len(order') : order'[i] = x
    <2> SUFFICES ASSUME NEW x \in Runs
                 PROVE  traces'[x].status # "none" <=> \E i \in 1 .. Len(order') : order'[i] = x
      BY DEF Kept
    <2>1. CASE x = r
      <3>1. Len(order) + 1 - n \in 1 .. Len(order') /\ Len(order) + 1 - n + n = Len(order) + 1
        BY <1>2, <1>3, <1>5
      <3>2. order'[Len(order) + 1 - n] = r
        BY <1>1, <1>5, <3>1
      <3>3. QED
        BY <1>9, <2>1, <3>1, <3>2
    <2>2. CASE x # r
      <3>1. traces[x].status # "none" <=> \E i \in 1 .. Len(order) : order[i] = x
        BY DEF LedgerOK, Kept
      <3>2. CASE x \in gone
        <4>1. n = 1 /\ x = order[1] /\ traces'[x].status = "none"
          BY <1>7, <1>9, <2>2, <3>2 DEF NoTrace
        <4>2. ASSUME NEW i \in 1 .. Len(order'), order'[i] = x
              PROVE  FALSE
          <5>1. i + n \in 2 .. Len(order) + 1 /\ held[i + n] = x
            BY <1>2, <1>5, <4>1, <4>2
          <5>2. i + n \in 1 .. Len(order) /\ 1 \in 1 .. Len(order) /\ i + n # 1
            BY <1>1, <1>2, <2>2, <5>1
          <5>3. QED
            BY <1>1, <4>1, <5>1, <5>2 DEF LedgerOK
        <4>3. QED
          BY <4>1, <4>2
      <3>3. CASE x \notin gone
        <4>1. traces'[x] = traces[x]
          BY <1>9, <2>2, <3>3
        <4>2. ASSUME NEW i \in 1 .. Len(order), order[i] = x
              PROVE  \E k \in 1 .. Len(order') : order'[k] = x
          <5>0. n = 1 => i # 1
            BY <1>7, <3>3, <4>2
          <5>1. i - n \in 1 .. Len(order') /\ i - n + n = i
            BY <1>2, <1>3, <1>5, <5>0
          <5>2. order'[i - n] = x
            BY <1>1, <1>5, <4>2, <5>1
          <5>3. QED
            BY <5>1, <5>2
        <4>3. ASSUME NEW i \in 1 .. Len(order'), order'[i] = x
              PROVE  \E k \in 1 .. Len(order) : order[k] = x
          <5>1. i + n \in 1 .. Len(order) + 1 /\ held[i + n] = x
            BY <1>2, <1>3, <1>5, <4>3
          <5>2. i + n \in 1 .. Len(order)
            BY <1>1, <1>2, <2>2, <5>1
          <5>3. QED
            BY <1>1, <5>1, <5>2
        <4>4. QED
          BY <3>1, <4>1, <4>2, <4>3
      <3>4. QED
        BY <3>2, <3>3
    <2>3. QED
      BY <2>1, <2>2
  <1>13. /\ Len(order') <= MaxTraces
         /\ Len(order) = MaxTraces => Len(order') = MaxTraces
    BY <1>2, <1>3, <1>5
  <1>14. /\ begun' \in Seq(Runs) /\ Len(begun') = Len(begun) + 1 /\ Len(begun) \in Nat
         /\ \A i \in 1 .. Len(begun) : begun'[i] = begun[i]
         /\ begun'[Len(begun) + 1] = r
    BY DEF ChannelTypes
  <1>15. /\ Len(order) <= Len(begun)
         /\ Len(order) = MaxTraces \/ Len(order) = Len(begun)
         /\ \A i \in 1 .. Len(order) : order[i] = begun[Len(begun) - Len(order) + i]
    BY DEF LedgerOK
  <1>16. /\ Len(order') <= Len(begun')
         /\ Len(order') = MaxTraces \/ Len(order') = Len(begun')
    BY <1>2, <1>3, <1>5, <1>13, <1>14, <1>15
  <1>17. ASSUME NEW i \in 1 .. Len(order')
         PROVE  order'[i] = begun'[Len(begun') - Len(order') + i]
    <2> DEFINE k == Len(begun) - Len(order) + (i + n)
    <2>1. order'[i] = held[i + n] /\ i + n \in 1 .. Len(order) + 1
      BY <1>2, <1>3, <1>5
    <2>2. Len(begun') - Len(order') + i = k
      BY <1>2, <1>3, <1>5, <1>14
    <2>3. CASE i + n = Len(order) + 1
      <3>1. k = Len(begun) + 1
        BY <1>2, <1>14, <2>3
      <3> HIDE DEF k
      <3>2. QED
        BY <1>1, <1>14, <2>1, <2>2, <2>3, <3>1
    <2>4. CASE i + n # Len(order) + 1
      <3>1. i + n \in 1 .. Len(order)
        BY <1>2, <2>1, <2>4
      <3>2. k \in 1 .. Len(begun) /\ order[i + n] = begun[k]
        BY <1>2, <1>14, <1>15, <3>1
      <3> HIDE DEF k
      <3>3. QED
        BY <1>1, <1>14, <2>1, <2>2, <3>1, <3>2
    <2>5. QED
      BY <2>3, <2>4
  <1>18. LedgerOK'
    BY <1>11, <1>12, <1>13, <1>16, <1>17 DEF LedgerOK
  <1>19. QED
    BY <1>5, <1>9, <1>10, <1>14, <1>18

\* A late call of a Run whose beginRun is being handled is not another one.
LEMMA BeginsOnce ==
    ASSUME ChannelInv, NEW c \in calls, c.op = "beginRun",
           NEW d \in calls \ {c}, d.run = c.run
    PROVE  FALSE
  <1>1. /\ c \in Call /\ d \in Call /\ runner[c.run] \in Runner
        /\ CallOK(c, runner[c.run], grants[c.run])
        /\ CallOK(d, runner[c.run], grants[c.run])
        /\ RunOK(runner[c.run], grants[c.run], traces[c.run], archive[c.run])
    BY DEF ChannelInv, ChannelTypes, Call
  <1>2. grants[c.run] = "none" /\ c.status = "none"
    BY <1>1 DEF CallOK
  <1>3. c.stage = "sent" => runner[c.run].phase = "beginning"
    BY <1>1, Waits DEF CallOK, Runner
  <1>4. CASE d.op = "beginRun"
    <2>1. d.stage = "sent" => runner[c.run].phase = "beginning"
      BY <1>1, <1>4, Waits DEF CallOK, Runner
    <2>2. d.status = "none" /\ c.stage \in {"sent", "unheeded"} /\ d.stage \in {"sent", "unheeded"}
      BY <1>1, <1>4 DEF CallOK, Call
    <2>3. c.stage = d.stage
      BY <1>1, <1>3, <1>4, <2>1, <2>2 DEF CallOK
    <2>4. c = d
      BY <1>1, <1>2, <1>4, <2>2, <2>3 DEF Call
    <2>5. QED
      BY <2>4
  <1>5. CASE d.op \in {"endRun", "revokeGrant"}
    BY <1>1, <1>2, <1>5 DEF CallOK
  <1>6. CASE d.op \in {"getGrant", "getTrace"}
    <2>1. d.stage = "sent"
      BY <1>1, <1>6 DEF CallOK, Call
    <2>2. runner[c.run].phase \in {"asking", "archivingGood", "archivingBad"}
      BY <1>1, <1>6, <2>1, Waits DEF CallOK, Runner
    <2>3. QED
      BY <1>1, <1>2, <2>2 DEF RunOK, Progress
  <1>7. QED
    BY <1>1, <1>4, <1>5, <1>6 DEF Call, Ops

\* beginRun mints a grant and begins a trace of a Run that has neither.
LEMMA BeginRunStep ==
    ASSUME ChannelInv, NEW c \in calls, BeginRun(c)
    PROVE  BrokerHalf(c)
  <1> DEFINE r == c.run
  <1>1. /\ c \in Call /\ r \in Runs /\ runner[r] \in Runner /\ c.op = "beginRun"
        /\ CallOK(c, runner[r], grants[r])
        /\ RunOK(runner[r], grants[r], traces[r], archive[r])
        /\ traces[r] \in Trace /\ archive[r] \in TraceStates
        /\ ChannelTypes /\ LedgerOK
    BY DEF ChannelInv, ChannelTypes, Call, BeginRun
  <1>2. /\ grants[r] = "none" /\ ~Kept(r)
        /\ runner[r].phase = "beginning"
           \/ (runner[r].phase = "failed" /\ BeginFailed(runner[r]))
    BY <1>1, Waits DEF CallOK, RunOK, Evidence, Kept, Call, Runner
  <1>3. /\ grants' = [grants EXCEPT ![r] = "active"]
        /\ delegated' = [delegated EXCEPT ![r] = template]
        /\ BeginTrace(r) /\ begun' = Append(begun, r)
    BY DEF BeginRun
  <1> HIDE DEF r
  <1>4. /\ grants' \in [Runs -> GrantStates] /\ delegated' \in [Runs -> Policies]
        /\ grants'[r] = "active" /\ \A x \in Runs \ {r} : grants'[x] = grants[x]
        /\ \A x \in Runs : delegated'[x] \in {delegated[x], template}
    BY <1>1, <1>3 DEF ChannelTypes, GrantStates
  <1>5. /\ order' \in Seq(Runs) /\ begun' \in Seq(Runs)
        /\ traces' \in [Runs -> Trace]
        /\ traces'[r] = [status |-> "running", revoked |-> FALSE]
        /\ \A x \in Runs \ {r} : traces'[x] \in {traces[x], NoTrace}
        /\ LedgerOK'
    BY <1>1, <1>2, <1>3, RoomForOne
  <1>6. ASSUME NEW x \in Runs
        PROVE  RunOK(runner[x], grants'[x], traces'[x], archive[x])
    <2>1. CASE x = r
      <3>1. RunOK(runner[r], "none", traces[r], archive[r])
        BY <1>1, <1>2
      <3>2. RunOK(runner[r], "active", [status |-> "running", revoked |-> FALSE], archive[r])
        BY <1>1, <1>2, <3>1, BeginHalf
      <3>3. QED
        BY <1>4, <1>5, <2>1, <3>2
    <2>2. CASE x # r
      <3>1. /\ RunOK(runner[x], grants[x], traces[x], archive[x])
            /\ runner[x] \in Runner /\ grants[x] \in GrantStates
            /\ traces[x] \in Trace /\ archive[x] \in TraceStates
        BY DEF ChannelInv, ChannelTypes
      <3>2. RunOK(runner[x], grants[x], NoTrace, archive[x])
        BY <3>1, EvictedHalf
      <3>3. QED
        BY <1>4, <1>5, <2>2, <3>1, <3>2
    <2>3. QED
      BY <2>1, <2>2
  <1>7. ASSUME NEW d \in calls \ {c}
        PROVE  CallOK(d, runner[d.run], grants'[d.run])
    <2>1. d.run \in Runs /\ CallOK(d, runner[d.run], grants[d.run])
      BY DEF ChannelInv, ChannelTypes, Call
    <2>2. d.run # r
      BY <1>1, BeginsOnce DEF r
    <2>3. QED
      BY <1>4, <2>1, <2>2
  <1>8. CountsOn(runner[r], grants'[r], traces'[r])
    BY <1>2, <1>4 DEF CountsOn
  <1>9. QED
    BY <1>1, <1>4, <1>5, <1>6, <1>7, <1>8 DEF BrokerHalf, r

\* What is done to one grant that is there, and to its trace, if it is there.
LEMMA OneRunStep ==
    ASSUME ChannelInv, NEW r \in Runs, grants[r] # "none",
           NEW g2 \in GrantStates, NEW t2 \in Trace,
           RunOK(runner[r], g2, t2, archive[r]),
           g2 # "none", grants[r] \in Stopped => g2 \in Stopped,
           t2.status = "none" <=> traces[r].status = "none",
           grants' = [grants EXCEPT ![r] = g2],
           traces' = [traces EXCEPT ![r] = t2],
           order' = order, begun' = begun
    PROVE  /\ grants' \in [Runs -> GrantStates] /\ grants'[r] = g2
           /\ traces' \in [Runs -> Trace] /\ traces'[r] = t2
           /\ order' \in Seq(Runs) /\ begun' \in Seq(Runs)
           /\ \A x \in Runs : RunOK(runner[x], grants'[x], traces'[x], archive[x])
           /\ \A d \in calls : CallOK(d, runner[d.run], grants'[d.run])
           /\ LedgerOK'
  <1>1. /\ grants' \in [Runs -> GrantStates] /\ grants'[r] = g2
        /\ traces' \in [Runs -> Trace] /\ traces'[r] = t2
        /\ \A x \in Runs \ {r} : grants'[x] = grants[x] /\ traces'[x] = traces[x]
        /\ order' \in Seq(Runs) /\ begun' \in Seq(Runs)
    BY DEF ChannelInv, ChannelTypes
  <1>2. \A x \in Runs : RunOK(runner[x], grants'[x], traces'[x], archive[x])
    BY <1>1 DEF ChannelInv
  <1>3. ASSUME NEW d \in calls
        PROVE  CallOK(d, runner[d.run], grants'[d.run])
    <2>1. d \in Call /\ d.run \in Runs /\ CallOK(d, runner[d.run], grants[d.run])
      BY DEF ChannelInv, ChannelTypes, Call
    <2>2. CASE d.run = r
      <3>1. CallOK(d, runner[r], grants[r])
        BY <2>1, <2>2
      <3>2. CallOK(d, runner[r], g2)
        BY <2>1, <3>1, CallKeeps
      <3>3. QED
        BY <1>1, <2>2, <3>2
    <2>3. CASE d.run # r
      BY <1>1, <2>1, <2>3
    <2>4. QED
      BY <2>2, <2>3
  <1>4. \A x \in Runs : /\ traces'[x].status # "none" <=> traces[x].status # "none"
                        /\ grants'[x] # "none" <=> grants[x] # "none"
    BY <1>1
  <1>5. LedgerOK'
    BY <1>4 DEF ChannelInv, LedgerOK, Kept
  <1>6. QED
    BY <1>1, <1>2, <1>3, <1>5

\* endRun closes the grant and tells the trace.
LEMMA EndRunStep ==
    ASSUME ChannelInv, NEW c \in calls, EndRun(c)
    PROVE  BrokerHalf(c)
  <1> DEFINE r == c.run
             g2 == IF grants[r] = "active" THEN "closed" ELSE grants[r]
             t2 == IF traces[r].status # "none"
                   THEN [traces[r] EXCEPT !.status = c.status] ELSE traces[r]
  <1>1. /\ c \in Call /\ r \in Runs /\ runner[r] \in Runner /\ c.op = "endRun"
        /\ CallOK(c, runner[r], grants[r])
        /\ RunOK(runner[r], grants[r], traces[r], archive[r])
        /\ grants[r] \in GrantStates /\ traces[r] \in Trace /\ archive[r] \in TraceStates
    BY DEF ChannelInv, ChannelTypes, Call, EndRun
  <1>2. /\ grants' = [grants EXCEPT ![r] = g2]
        /\ traces' = [traces EXCEPT ![r] = t2]
        /\ order' = order /\ begun' = begun /\ delegated' = delegated
    <2>1. grants' = [grants EXCEPT ![r] = g2] /\ order' = order /\ begun' = begun /\ delegated' = delegated
      BY DEF EndRun
    <2>2. CASE Kept(r)
      BY <2>2 DEF EndRun, Kept
    <2>3. CASE ~Kept(r)
      <3>1. traces' = traces /\ t2 = traces[r]
        BY <2>3 DEF EndRun, Kept
      <3>2. traces = [traces EXCEPT ![r] = traces[r]]
        <4>1. traces \in [Runs -> Trace]
          BY DEF ChannelInv, ChannelTypes
        <4>2. QED
          BY <4>1
      <3>3. QED
        BY <2>1, <3>1, <3>2
    <2>4. QED
      BY <2>1, <2>2, <2>3
  <1>3. /\ c.status \in Outcomes /\ grants[r] # "none" /\ Says(c.status, runner[r], grants[r])
        /\ runner[r].phase \in {"ending", "asking", "closing", "archivingBad", "failed"}
        /\ c.stage = "sent" => runner[r].phase \in {"ending", "closing"}
        /\ c.stage = "sent" /\ runner[r].phase = "ending" => c.status = "ok"
    BY <1>1, Waits DEF CallOK, Call, Runner
  <1>4. /\ g2 \in GrantStates /\ t2 \in Trace
        /\ RunOK(runner[r], g2, t2, archive[r])
        /\ g2 \notin {"none", "active"} /\ t2.status \in {c.status, "none"}
        /\ t2.status = "none" <=> traces[r].status = "none"
    <2> HIDE DEF r
    <2>1. g2 = IF grants[r] = "active" THEN "closed" ELSE grants[r]
      OBVIOUS
    <2>2. t2 = IF traces[r].status # "none"
               THEN [traces[r] EXCEPT !.status = c.status] ELSE traces[r]
      OBVIOUS
    <2> HIDE DEF g2, t2
    <2>3. QED
      BY <1>1, <1>3, <2>1, <2>2, EndRunHalf
  <1>5. grants[r] \in Stopped => g2 \in Stopped
    BY DEF Stopped
  <1> HIDE DEF g2, t2
  <1>6. /\ grants' \in [Runs -> GrantStates] /\ grants'[r] = g2
        /\ traces' \in [Runs -> Trace] /\ traces'[r] = t2
        /\ order' \in Seq(Runs) /\ begun' \in Seq(Runs)
        /\ \A x \in Runs : RunOK(runner[x], grants'[x], traces'[x], archive[x])
        /\ \A d \in calls : CallOK(d, runner[d.run], grants'[d.run])
        /\ LedgerOK'
    BY <1>1, <1>2, <1>3, <1>4, <1>5, OneRunStep
  <1>7. c.stage = "sent" => CountsOn(runner[r], grants'[r], traces'[r])
    BY <1>3, <1>4, <1>6 DEF CountsOn, Outcomes
  <1>8. delegated' \in [Runs -> Policies] /\ \A x \in Runs : delegated'[x] = delegated[x]
    BY <1>2 DEF ChannelInv, ChannelTypes
  <1>9. QED
    BY <1>1, <1>6, <1>7, <1>8 DEF BrokerHalf

\* revokeGrant stops the grant and records it, whatever became of it before.
LEMMA RevokeGrantStep ==
    ASSUME ChannelInv, NEW c \in calls, RevokeGrant(c)
    PROVE  BrokerHalf(c)
  <1> DEFINE r == c.run
             g2 == IF grants[r] \in {"active", "exhausted"} THEN "revoked" ELSE grants[r]
             t2 == IF traces[r].status # "none"
                   THEN [traces[r] EXCEPT !.revoked = TRUE] ELSE traces[r]
  <1>1. /\ c \in Call /\ r \in Runs /\ runner[r] \in Runner /\ c.op = "revokeGrant"
        /\ CallOK(c, runner[r], grants[r])
        /\ RunOK(runner[r], grants[r], traces[r], archive[r])
        /\ grants[r] \in GrantStates /\ traces[r] \in Trace /\ archive[r] \in TraceStates
    BY DEF ChannelInv, ChannelTypes, Call, RevokeGrant
  <1>2. grants[r] # "none" /\ c.stage # "sent" /\ runner[r].asked
    BY <1>1 DEF CallOK
  <1>3. /\ grants' = [grants EXCEPT ![r] = g2]
        /\ traces' = [traces EXCEPT ![r] = t2]
        /\ order' = order /\ begun' = begun /\ delegated' = delegated
    <2>1. grants' = [grants EXCEPT ![r] = g2] /\ order' = order /\ begun' = begun /\ delegated' = delegated
      BY DEF RevokeGrant
    <2>2. CASE Kept(r)
      BY <1>2, <2>2 DEF RevokeGrant, Kept
    <2>3. CASE ~Kept(r)
      <3>1. traces' = traces /\ t2 = traces[r]
        BY <2>3 DEF RevokeGrant, Kept
      <3>2. traces = [traces EXCEPT ![r] = traces[r]]
        <4>1. traces \in [Runs -> Trace]
          BY DEF ChannelInv, ChannelTypes
        <4>2. QED
          BY <4>1
      <3>3. QED
        BY <2>1, <3>1, <3>2
    <2>4. QED
      BY <2>1, <2>2, <2>3
  <1>4. /\ g2 \in GrantStates /\ t2 \in Trace
        /\ RunOK(runner[r], g2, t2, archive[r])
        /\ t2.status = traces[r].status
        /\ g2 \notin {"none", "active"} /\ (grants[r] \in Stopped => g2 \in Stopped)
    <2> HIDE DEF r
    <2>1. g2 = IF grants[r] \in {"active", "exhausted"} THEN "revoked" ELSE grants[r]
      OBVIOUS
    <2>2. t2 = IF traces[r].status # "none"
               THEN [traces[r] EXCEPT !.revoked = TRUE] ELSE traces[r]
      OBVIOUS
    <2> HIDE DEF g2, t2
    <2>3. QED
      BY <1>1, <1>2, <2>1, <2>2, RevokeHalf
  <1> HIDE DEF g2, t2
  <1>5. /\ grants' \in [Runs -> GrantStates] /\ grants'[r] = g2
        /\ traces' \in [Runs -> Trace] /\ traces'[r] = t2
        /\ order' \in Seq(Runs) /\ begun' \in Seq(Runs)
        /\ \A x \in Runs : RunOK(runner[x], grants'[x], traces'[x], archive[x])
        /\ \A d \in calls : CallOK(d, runner[d.run], grants'[d.run])
        /\ LedgerOK'
    BY <1>1, <1>2, <1>3, <1>4, OneRunStep
  <1>6. delegated' \in [Runs -> Policies] /\ \A x \in Runs : delegated'[x] = delegated[x]
    BY <1>3 DEF ChannelInv, ChannelTypes
  <1>7. QED
    BY <1>1, <1>2, <1>5, <1>6 DEF BrokerHalf

\* A read changes nothing, and its runner counts on nothing.
LEMMA ReadStep ==
    ASSUME ChannelInv, NEW c \in calls, Read(c)
    PROVE  BrokerHalf(c)
  <1>1. /\ c \in Call /\ runner[c.run] \in Runner
        /\ CallOK(c, runner[c.run], grants[c.run])
        /\ c.op \in {"getGrant", "getTrace"}
    BY DEF ChannelInv, ChannelTypes, Call, Read
  <1>2. c.stage = "sent" => runner[c.run].phase \notin {"beginning", "ending", "closing"}
    BY <1>1, Waits DEF CallOK, Runner
  <1>3. UNCHANGED <<grants, delegated, traces, order, begun, begun>>
    BY DEF Read
  <1>4. LedgerOK'
    BY <1>3 DEF ChannelInv, LedgerOK, Kept
  <1>5. QED
    BY <1>2, <1>3, <1>4 DEF ChannelInv, ChannelTypes, BrokerHalf, CountsOn

-----------------------------------------------------------------------------
(***************************************************************************)
(* The runner's half of a step: it goes where `at' says and sends the call *)
(* it then waits for, next to others that it does not wait for.  gr is the *)
(* grants as the broker's half leaves them.                                *)
(***************************************************************************)
LEMMA EnterStep ==
    ASSUME runner \in [Runs -> Runner], NEW r \in Runs, NEW at \in Runner,
           NEW others \in SUBSET Call, NEW status \in Outcomes \cup {"none"}, NEW gr,
           Enter(r, at, status, others),
           \A d \in others : d.run # r => CallOK(d, runner[d.run], gr[d.run]),
           \A d \in others : d.run = r => d.stage = "unheeded" /\ CallOK(d, at, gr[r]),
           \A d, e \in others :
               d.run = e.run /\ d.stage = "sent" /\ e.stage = "sent" => d = e,
           at.phase = "beginning" => gr[r] = "none",
           at.phase \in {"ending", "closing"} =>
               /\ status \in Outcomes
               /\ gr[r] # "none"
               /\ Says(status, at, gr[r]),
           at.phase = "ending" => status = "ok"
    PROVE  /\ runner' \in [Runs -> Runner] /\ runner'[r] = at
           /\ \A x \in Runs \ {r} : runner'[x] = runner[x]
           /\ calls' \subseteq Call
           /\ \A d \in calls' : CallOK(d, runner'[d.run], gr[d.run])
           /\ OneIsAwaited'
  <1> DEFINE new == NewCall(r, Asks[at.phase], status, "sent")
  <1>1. /\ runner' \in [Runs -> Runner] /\ runner'[r] = at
        /\ \A x \in Runs \ {r} : runner'[x] = runner[x]
    BY DEF Enter
  <1>2. \A d \in others : d.run \in Runs /\ CallOK(d, runner'[d.run], gr[d.run])
    BY <1>1 DEF Call
  <1>3. CASE Asks[at.phase] = "none"
    <2>1. calls' = others
      BY <1>3 DEF Enter
    <2>2. QED
      BY <1>1, <1>2, <2>1 DEF OneIsAwaited
  <1>4. CASE Asks[at.phase] # "none"
    <2>1. calls' = others \cup {new}
      BY <1>4 DEF Enter
    <2>2. at.phase \in Phases /\ Asks[at.phase] \in Ops
      BY <1>4 DEF Runner, Phases, Asks, Ops
    <2>3. /\ new.run = r /\ new.op = Asks[at.phase] /\ new.stage = "sent"
          /\ new.status = IF Asks[at.phase] = "endRun" THEN status ELSE "none"
          /\ new \in Call
      BY <2>2 DEF NewCall, Call
    <2> HIDE DEF new
    <2>4. CallOK(new, at, gr[r])
      BY <2>2, <2>3, Waits DEF CallOK
    <2>5. \A d \in calls' : CallOK(d, runner'[d.run], gr[d.run])
      BY <1>1, <1>2, <2>1, <2>3, <2>4
    <2>6. OneIsAwaited'
      BY <2>1, <2>3 DEF OneIsAwaited
    <2>7. QED
      BY <1>1, <2>1, <2>3, <2>5, <2>6
  <1>5. QED
    BY <1>3, <1>4

\* The calls of a Run next to the one that it waits for.
LEMMA OthersOf ==
    ASSUME ChannelInv, NEW c \in calls, c.stage = "sent"
    PROVE  /\ c \in Call /\ c.run \in Runs /\ runner[c.run] \in Runner
           /\ runner[c.run].phase \in Waiting
           /\ c.op = Asks[runner[c.run].phase]
           /\ calls \ {c} \in SUBSET Call
           /\ \A d \in calls \ {c} : d.run = c.run => d.stage = "unheeded"
           /\ \A d, e \in calls \ {c} :
                 d.run = e.run /\ d.stage = "sent" /\ e.stage = "sent" => d = e
  <1>1. c \in Call /\ c.run \in Runs /\ runner[c.run] \in Runner /\ c.op \in Ops
        /\ CallOK(c, runner[c.run], grants[c.run])
    BY DEF ChannelInv, ChannelTypes, Call
  <1>2. c.op = Asks[runner[c.run].phase]
    BY <1>1 DEF CallOK
  <1>3. runner[c.run].phase \in Waiting
    BY <1>1, <1>2, Waits DEF Waiting, Runner
  <1>4. calls \ {c} \in SUBSET Call
    BY DEF ChannelInv, ChannelTypes
  <1>5. \A d \in calls \ {c} : d.run = c.run => d.stage = "unheeded"
    BY <1>4 DEF ChannelInv, OneIsAwaited, Call
  <1>6. QED
    BY <1>1, <1>2, <1>3, <1>4, <1>5 DEF ChannelInv, OneIsAwaited

\* What the runner's half of a step leaves, the broker having done its own.
RunnerHalf ==
    /\ runner' \in [Runs -> Runner]
    /\ archive' \in [Runs -> TraceStates]
    /\ failures' \in Nat
    /\ calls' \subseteq Call
    /\ \A r \in Runs : RunOK(runner'[r], grants'[r], traces'[r], archive'[r])
    /\ \A d \in calls' : CallOK(d, runner'[d.run], grants'[d.run])
    /\ OneIsAwaited'

\* The awaited call is answered.
LEMMA AnsweredStep ==
    ASSUME ChannelInv, NEW c \in calls, c.stage = "sent", BrokerHalf(c), Answered(c)
    PROVE  RunnerHalf
  <1> DEFINE r == c.run
             run == runner[r]
             at == [run EXCEPT !.phase = AfterAnswer[run.phase]]
             status == IF Denied(grants[r]) THEN "denied" ELSE "error"
  <1>1. /\ r \in Runs /\ run \in Runner /\ run.phase \in Waiting
        /\ c.op = Asks[run.phase]
        /\ calls \ {c} \in SUBSET Call
        /\ \A d \in calls \ {c} : d.run = r => d.stage = "unheeded"
        /\ \A d, e \in calls \ {c} :
              d.run = e.run /\ d.stage = "sent" /\ e.stage = "sent" => d = e
    BY OthersOf
  <1>2. /\ Enter(r, at, status, calls \ {c})
        /\ failures' = failures
        /\ \/ archive' = archive
           \/ /\ c.op = "getTrace"
              /\ archive' = [archive EXCEPT ![r] = traces[r].status]
    BY DEF Answered
  <1>3. /\ grants'[r] \in GrantStates /\ traces'[r] \in Trace
        /\ archive[r] \in TraceStates /\ archive'[r] \in TraceStates
        /\ archive' \in [Runs -> TraceStates]
        /\ \A x \in Runs \ {r} : archive'[x] = archive[x]
        /\ \/ archive'[r] = archive[r]
           \/ c.op = "getTrace" /\ archive'[r] = traces[r].status
    <2>1. traces[r].status \in TraceStates
      BY <1>1 DEF ChannelInv, ChannelTypes, Trace
    <2>2. archive \in [Runs -> TraceStates]
      BY DEF ChannelInv, ChannelTypes
    <2>3. QED
      BY <1>1, <1>2, <2>1, <2>2 DEF BrokerHalf
  <1>4. /\ RunOK(run, grants'[r], traces'[r], archive[r])
        /\ CountsOn(run, grants'[r], traces'[r])
        /\ c.op \in {"getGrant", "getTrace"} =>
              grants'[r] = grants[r] /\ traces'[r] = traces[r]
    BY <1>1 DEF BrokerHalf
  <1>5. /\ run.phase \in {"archivingGood", "archivingBad"} <=> c.op = "getTrace"
        /\ run.phase = "asking" <=> c.op = "getGrant"
    BY <1>1, Waits DEF Runner
  <1> HIDE DEF run, status
  <1>6. at \in Runner /\ RunOK(at, grants'[r], traces'[r], archive'[r])
    BY <1>1, <1>3, <1>4, <1>5, AnswerHalf DEF CountsOn
  <1>7. /\ at.result = run.result /\ at.phase = AfterAnswer[run.phase]
        /\ at.asked = run.asked
        /\ run.phase = "asking" => at.phase = "closing"
        /\ run.phase = "closing" => at.phase = "archivingBad"
        /\ run.phase = "archivingBad" => at.phase = "failed"
        /\ at.phase \notin {"beginning", "ending"}
        /\ at.phase = "closing" => run.phase = "asking"
    BY <1>1 DEF AfterAnswer, Waiting, Runner
  <1> HIDE DEF at
  <1>8. at.phase = "closing" =>
           /\ status \in Outcomes /\ grants'[r] # "none" /\ Says(status, at, grants'[r])
    BY <1>4, <1>5, <1>6, <1>7 DEF Progress, RunOK, Says, Denied, Outcomes, Stopped, status
  <1>9. ASSUME NEW d \in calls \ {c}
        PROVE  /\ d.run # r => CallOK(d, runner[d.run], grants'[d.run])
               /\ d.run = r => d.stage = "unheeded" /\ CallOK(d, at, grants'[r])
    <2>1. d \in Call /\ CallOK(d, runner[d.run], grants'[d.run])
      BY <1>1 DEF BrokerHalf
    <2>2. CASE d.run = r
      <3>1. CallOK(d, run, grants'[r]) /\ d.stage = "unheeded" /\ run.phase # "failed"
        BY <1>1, <2>1, <2>2 DEF run, Waiting
      <3>2. CallOK(d, at, grants'[r])
        BY <1>7, <2>1, <3>1, UnheededMoves
      <3>3. QED
        BY <2>2, <3>1, <3>2
    <2>3. QED
      BY <2>1, <2>2
  <1>10. status \in Outcomes \cup {"none"}
    BY DEF status, Outcomes
  <1>11. /\ runner' \in [Runs -> Runner] /\ runner'[r] = at
         /\ \A x \in Runs \ {r} : runner'[x] = runner[x]
         /\ calls' \subseteq Call
         /\ \A d \in calls' : CallOK(d, runner'[d.run], grants'[d.run])
         /\ OneIsAwaited'
    <2>1. runner \in [Runs -> Runner]
      BY DEF ChannelInv, ChannelTypes
    <2> HIDE DEF r
    <2>2. QED
      BY <1>1, <1>2, <1>6, <1>7, <1>8, <1>9, <1>10, <2>1, EnterStep
  <1>12. \A x \in Runs : RunOK(runner'[x], grants'[x], traces'[x], archive'[x])
    BY <1>3, <1>6, <1>11 DEF BrokerHalf
  <1>13. failures' \in Nat
    BY <1>2 DEF ChannelInv, ChannelTypes
  <1>14. QED
    BY <1>3, <1>11, <1>12, <1>13 DEF RunnerHalf

\* The awaited call of a Run fails; others are the calls then under way.
LEMMA FailedStep ==
    ASSUME ChannelInv, NEW c \in calls, c.stage = "sent",
           NEW others \in SUBSET Call,
           \/ others = calls \ {c}
           \/ /\ c.op \in {"beginRun", "endRun"}
              /\ others = (calls \ {c}) \cup {[c EXCEPT !.stage = "unheeded"]}
              /\ grants'[c.run] = grants[c.run],
           Failed(c.run, others),
           grants' \in [Runs -> GrantStates], traces' \in [Runs -> Trace],
           \A r \in Runs : RunOK(runner[r], grants'[r], traces'[r], archive[r]),
           \A d \in calls \ {c} : CallOK(d, runner[d.run], grants'[d.run])
    PROVE  RunnerHalf
  <1> DEFINE r == c.run
             run == runner[r]
             at == [run EXCEPT !.phase = AfterFailure[run.phase],
                               !.failedIn = @ \cup ({run.phase} \cap Handshakes)]
             late == [c EXCEPT !.stage = "unheeded"]
  <1>1. /\ c \in Call /\ r \in Runs /\ run \in Runner /\ run.phase \in Waiting
        /\ c.op = Asks[run.phase]
        /\ calls \ {c} \in SUBSET Call
        /\ \A d \in calls \ {c} : d.run = r => d.stage = "unheeded"
        /\ \A d, e \in calls \ {c} :
              d.run = e.run /\ d.stage = "sent" /\ e.stage = "sent" => d = e
    BY OthersOf
  <1>2. /\ Enter(r, at, "error", others)
        /\ failures' \in {failures, failures + 1}
        /\ archive' = archive
    BY DEF Failed
  <1>3. /\ runner \in [Runs -> Runner] /\ archive \in [Runs -> TraceStates]
        /\ failures \in Nat /\ archive[r] \in TraceStates
        /\ CallOK(c, run, grants[r])
    BY <1>1 DEF ChannelInv, ChannelTypes
  <1>4. RunOK(run, grants'[r], traces'[r], archive[r])
    BY <1>1
  <1>5. grants'[r] \in GrantStates /\ traces'[r] \in Trace
    BY <1>1
  <1> HIDE DEF run
  <1>6. /\ at \in Runner /\ RunOK(at, grants'[r], traces'[r], archive[r])
        /\ at.result = run.result /\ at.asked = run.asked
        /\ run.phase = "beginning" => at.phase = "failed" /\ BeginFailed(at)
        /\ run.phase = "ending" => at.phase = "asking"
        /\ run.phase = "asking" => at.phase = "closing"
        /\ run.phase = "closing" => at.phase = "archivingBad"
        /\ run.phase = "archivingGood" => at.phase = "completed"
        /\ run.phase = "archivingBad" => at.phase = "failed"
    BY <1>1, <1>3, <1>4, <1>5, FailureHalf
  <1> HIDE DEF at
  <1>7. at.phase \notin {"beginning", "ending"} /\ (at.phase = "closing" => run.phase = "asking")
    BY <1>1, <1>6 DEF Waiting
  <1>8. at.phase = "closing" =>
           /\ "error" \in Outcomes /\ grants'[r] # "none" /\ Says("error", at, grants'[r])
    BY <1>6 DEF Progress, RunOK, Says, Outcomes
  <1>9. ASSUME NEW d \in calls \ {c}
        PROVE  /\ d.run # r => CallOK(d, runner[d.run], grants'[d.run])
               /\ d.run = r => d.stage = "unheeded" /\ CallOK(d, at, grants'[r])
    <2>1. d \in Call /\ CallOK(d, runner[d.run], grants'[d.run])
      BY <1>1
    <2>2. CASE d.run = r
      <3>1. CallOK(d, run, grants'[r]) /\ d.stage = "unheeded" /\ run.phase # "failed"
        BY <1>1, <2>1, <2>2 DEF run, Waiting
      <3>2. CallOK(d, at, grants'[r])
        BY <1>6, <2>1, <3>1, UnheededMoves
      <3>3. QED
        BY <2>2, <3>1, <3>2
    <2>3. QED
      BY <2>1, <2>2
  <1>10. ASSUME others # calls \ {c}
         PROVE  /\ others = (calls \ {c}) \cup {late}
                /\ late.run = r /\ late.stage = "unheeded" /\ CallOK(late, at, grants'[r])
    <2>1. /\ others = (calls \ {c}) \cup {late}
          /\ grants'[r] = grants[r] /\ c.op \in {"beginRun", "endRun"}
      BY <1>10
    <2>2. /\ late.run = r /\ late.op = c.op /\ late.status = c.status
          /\ late.stage = "unheeded"
      BY <1>1 DEF Call
    <2> HIDE DEF late
    <2>3. CASE c.op = "beginRun"
      <3>0. run.phase \in Phases /\ Asks[run.phase] = "beginRun"
        BY <1>1, <2>3 DEF Runner
      <3>1. run.phase = "beginning"
        BY <3>0, Waits
      <3>2. QED
        BY <1>3, <1>6, <2>1, <2>2, <2>3, <3>1 DEF CallOK
    <2>4. CASE c.op = "endRun"
      <3>0. run.phase \in Phases /\ Asks[run.phase] = "endRun"
        BY <1>1, <2>4 DEF Runner
      <3>1. run.phase \in {"ending", "closing"}
        BY <3>0, Waits
      <3>2. at.phase \in {"asking", "archivingBad"}
        BY <1>6, <3>1
      <3>3. QED
        BY <1>3, <1>6, <2>1, <2>2, <2>4, <3>2 DEF CallOK, Says
    <2>5. QED
      BY <2>1, <2>3, <2>4
  <1> HIDE DEF late
  <1>11. /\ \A d \in others : d.run # r => CallOK(d, runner[d.run], grants'[d.run])
         /\ \A d \in others : d.run = r => d.stage = "unheeded" /\ CallOK(d, at, grants'[r])
    BY <1>9, <1>10
  <1>12. \A d, e \in others :
            d.run = e.run /\ d.stage = "sent" /\ e.stage = "sent" => d = e
    BY <1>1, <1>10
  <1>13. /\ runner' \in [Runs -> Runner] /\ runner'[r] = at
         /\ \A x \in Runs \ {r} : runner'[x] = runner[x]
         /\ calls' \subseteq Call
         /\ \A d \in calls' : CallOK(d, runner'[d.run], grants'[d.run])
         /\ OneIsAwaited'
    <2> HIDE DEF r
    <2>1. "error" \in Outcomes \cup {"none"}
      BY DEF Outcomes
    <2>2. /\ at.phase = "beginning" => grants'[r] = "none"
          /\ at.phase \in {"ending", "closing"} =>
                "error" \in Outcomes /\ grants'[r] # "none" /\ Says("error", at, grants'[r])
          /\ at.phase = "ending" => "error" = "ok"
      BY <1>7, <1>8
    <2>3. r \in Runs /\ at \in Runner /\ others \in SUBSET Call
      BY <1>1, <1>6
    <2>4. Enter(r, at, "error", others) /\ runner \in [Runs -> Runner]
      BY <1>2, <1>3
    <2>5. QED
      BY <1>11, <1>12, <2>1, <2>2, <2>3, <2>4, EnterStep
  <1>14. \A x \in Runs : RunOK(runner'[x], grants'[x], traces'[x], archive'[x])
    BY <1>2, <1>6, <1>13
  <1>15. QED
    BY <1>2, <1>3, <1>13, <1>14 DEF RunnerHalf

\* A handled call: the broker's half, then what becomes of its reply.
LEMMA HandleStep ==
    ASSUME ChannelInv, NEW c \in calls, Handle(c)
    PROVE  ChannelInv'
  <1>1. BrokerHalf(c)
    BY BeginRunStep, EndRunStep, RevokeGrantStep, ReadStep DEF Handle
  <1>2. RunnerHalf
    <2>1. CASE c.stage = "sent" /\ Answered(c)
      BY <1>1, <2>1, AnsweredStep
    <2>2. CASE c.stage = "sent" /\ Failed(c.run, calls \ {c})
      <3>1. calls \ {c} \in SUBSET Call
        BY DEF ChannelInv, ChannelTypes
      <3>2. /\ grants' \in [Runs -> GrantStates] /\ traces' \in [Runs -> Trace]
            /\ \A r \in Runs : RunOK(runner[r], grants'[r], traces'[r], archive[r])
            /\ \A d \in calls \ {c} : CallOK(d, runner[d.run], grants'[d.run])
        BY <1>1 DEF BrokerHalf
      <3>3. QED
        BY <2>2, <3>1, <3>2, FailedStep
    <2>3. CASE /\ c.stage = "unheeded"
               /\ calls' = calls \ {c}
               /\ UNCHANGED <<failures, runner, archive>>
      BY <1>1, <2>3 DEF BrokerHalf, RunnerHalf, ChannelInv, ChannelTypes, OneIsAwaited
    <2>4. QED
      BY <2>1, <2>2, <2>3 DEF Handle, Reply
  <1>3. up' = up /\ template' = template /\ changes' = changes /\ applied' = applied
    BY DEF Handle
  <1>4. ChannelTypes'
    BY <1>1, <1>2, <1>3 DEF ChannelInv, ChannelTypes, BrokerHalf, RunnerHalf
  <1>5. DelegationIsAccountable'
    <2>1. template \in {"startup"} \cup {changes[i].to : i \in DOMAIN changes}
      BY DEF ChannelInv, ChannelTypes, DelegationIsAccountable
    <2>2. \A r \in Runs : delegated'[r] \in {delegated[r], template}
      BY <1>1 DEF BrokerHalf
    <2>3. QED
      BY <1>3, <2>1, <2>2 DEF ChannelInv, DelegationIsAccountable
  <1>6. QED
    BY <1>1, <1>2, <1>4, <1>5 DEF ChannelInv, BrokerHalf, RunnerHalf

\* What the steps that leave the broker alone leave of the invariant.
LEMMA BrokerStill ==
    ASSUME ChannelInv, RunnerHalf, UNCHANGED brokerVars
    PROVE  ChannelInv'
  <1>1. UNCHANGED <<up, grants, delegated, traces, order, begun, template, changes, applied>>
    BY DEF brokerVars
  <1>2. ChannelTypes'
    BY <1>1 DEF ChannelInv, ChannelTypes, RunnerHalf
  <1>3. LedgerOK' /\ DelegationIsAccountable'
    BY <1>1 DEF ChannelInv, LedgerOK, Kept, DelegationIsAccountable
  <1>4. QED
    BY <1>2, <1>3 DEF ChannelInv, RunnerHalf

\* The awaited call is given up on, and may still be under way.
LEMMA GivesUpStep ==
    ASSUME ChannelInv, NEW c \in calls, GivesUp(c)
    PROVE  ChannelInv'
  <1>1. /\ c.stage = "sent" /\ UNCHANGED brokerVars
        /\ grants' = grants /\ traces' = traces
    BY DEF GivesUp, brokerVars
  <1>2. /\ grants' \in [Runs -> GrantStates] /\ traces' \in [Runs -> Trace]
        /\ \A r \in Runs : RunOK(runner[r], grants'[r], traces'[r], archive[r])
        /\ \A d \in calls \ {c} : CallOK(d, runner[d.run], grants'[d.run])
        /\ calls \ {c} \in SUBSET Call /\ c \in Call
    BY <1>1 DEF ChannelInv, ChannelTypes
  <1>3. CASE Failed(c.run, calls \ {c})
    BY <1>1, <1>2, <1>3, FailedStep, BrokerStill
  <1>4. CASE /\ c.op \in {"beginRun", "endRun"}
             /\ Failed(c.run, (calls \ {c}) \cup {[c EXCEPT !.stage = "unheeded"]})
    <2> DEFINE others == (calls \ {c}) \cup {[c EXCEPT !.stage = "unheeded"]}
    <2>1. others \in SUBSET Call
      BY <1>2 DEF Call
    <2>2. RunnerHalf
      BY <1>1, <1>2, <1>4, <2>1, FailedStep
    <2>3. QED
      BY <1>1, <2>2, BrokerStill
  <1>5. QED
    BY <1>3, <1>4 DEF GivesUp

\* WardenRunner.run asks the broker for a grant.
LEMMA StartRunStep ==
    ASSUME ChannelInv, NEW r \in Runs, StartRun(r)
    PROVE  ChannelInv'
  <1> DEFINE at == [runner[r] EXCEPT !.phase = "beginning"]
  <1>1. /\ runner \in [Runs -> Runner] /\ runner[r] \in Runner /\ calls \in SUBSET Call
        /\ runner[r].phase = "idle" /\ Enter(r, at, "none", calls)
        /\ UNCHANGED brokerVars
        /\ grants' = grants /\ traces' = traces /\ archive' = archive /\ failures' = failures
        /\ RunOK(runner[r], grants[r], traces[r], archive[r])
    BY DEF StartRun, ChannelInv, ChannelTypes, brokerVars
  <1>2. /\ at \in Runner /\ at.phase = "beginning"
        /\ at.result = runner[r].result /\ at.failedIn = runner[r].failedIn
        /\ at.asked = runner[r].asked
    BY <1>1 DEF Runner, Phases, Asks
  <1> HIDE DEF at
  <1>3. RunOK(at, grants[r], traces[r], archive[r]) /\ grants[r] = "none"
    BY <1>1, <1>2 DEF RunOK, Progress, Aftermath, Says, Evidence, BeginFailed, CloseFailed
  <1>4. ASSUME NEW d \in calls
        PROVE  /\ CallOK(d, runner[d.run], grants'[d.run])
               /\ d.run = r => d.stage = "unheeded" /\ CallOK(d, at, grants'[r])
    <2>1. d \in Call /\ CallOK(d, runner[d.run], grants[d.run])
      BY DEF ChannelInv, ChannelTypes
    <2>2. CASE d.run = r
      <3>1. d.stage = "unheeded"
        BY <1>1, <2>1, <2>2 DEF CallOK, Call, Ops, Asks
      <3>2. CallOK(d, runner[r], grants[r])
        BY <2>1, <2>2
      <3>3. CallOK(d, at, grants[r])
        BY <1>1, <1>2, <2>1, <3>1, <3>2, UnheededMoves
      <3>4. QED
        BY <1>1, <2>1, <2>2, <3>1, <3>3
    <2>3. QED
      BY <1>1, <2>1, <2>2
  <1>5. /\ runner' \in [Runs -> Runner] /\ runner'[r] = at
        /\ \A x \in Runs \ {r} : runner'[x] = runner[x]
        /\ calls' \subseteq Call
        /\ \A d \in calls' : CallOK(d, runner'[d.run], grants'[d.run])
        /\ OneIsAwaited'
    <2>1. /\ at.phase = "beginning" => grants'[r] = "none"
          /\ at.phase \in {"ending", "closing"} =>
                "none" \in Outcomes /\ grants'[r] # "none" /\ Says("none", at, grants'[r])
          /\ at.phase = "ending" => "none" = "ok"
          /\ "none" \in Outcomes \cup {"none"}
      BY <1>1, <1>2, <1>3
    <2>2. \A d, e \in calls :
             d.run = e.run /\ d.stage = "sent" /\ e.stage = "sent" => d = e
      BY DEF ChannelInv, OneIsAwaited
    <2>3. /\ \A d \in calls : d.run # r => CallOK(d, runner[d.run], grants'[d.run])
          /\ \A d \in calls : d.run = r => d.stage = "unheeded" /\ CallOK(d, at, grants'[r])
      BY <1>4
    <2>4. /\ runner \in [Runs -> Runner] /\ at \in Runner /\ calls \in SUBSET Call
          /\ Enter(r, at, "none", calls)
      BY <1>1, <1>2
    <2>5. QED
      BY <2>1, <2>2, <2>3, <2>4, EnterStep
  <1>6. RunnerHalf
    BY <1>1, <1>3, <1>5 DEF ChannelInv, ChannelTypes, RunnerHalf
  <1>7. QED
    BY <1>1, <1>6, BrokerStill

\* The inner runner is done: the good end is told at once, a bad one is asked about.
LEMMA InnerEndsStep ==
    ASSUME ChannelInv, NEW r \in Runs, NEW good \in BOOLEAN, InnerEnds(r, good)
    PROVE  ChannelInv'
  <1> DEFINE at == [runner[r] EXCEPT !.phase = IF good THEN "ending" ELSE "asking",
                                     !.result = IF good THEN "ok" ELSE "failed"]
  <1>1. /\ runner \in [Runs -> Runner] /\ runner[r] \in Runner /\ calls \in SUBSET Call
        /\ runner[r].phase = "inner" /\ Enter(r, at, "ok", calls)
        /\ UNCHANGED brokerVars
        /\ grants' = grants /\ traces' = traces /\ archive' = archive /\ failures' = failures
        /\ RunOK(runner[r], grants[r], traces[r], archive[r])
    BY DEF InnerEnds, ChannelInv, ChannelTypes, brokerVars
  <1>2. /\ at \in Runner
        /\ \/ at.phase = "ending" /\ at.result = "ok"
           \/ at.phase = "asking" /\ at.result = "failed"
        /\ at.failedIn = runner[r].failedIn /\ at.asked = runner[r].asked
    <2>1. CASE good
      <3>1. at = [runner[r] EXCEPT !.phase = "ending", !.result = "ok"]
        BY <2>1
      <3> HIDE DEF at
      <3>2. "ending" \in Phases
        BY DEF Phases, Asks
      <3>3. QED
        BY <1>1, <3>1, <3>2 DEF Runner
    <2>2. CASE ~good
      <3>1. at = [runner[r] EXCEPT !.phase = "asking", !.result = "failed"]
        BY <2>2
      <3> HIDE DEF at
      <3>2. "asking" \in Phases
        BY DEF Phases, Asks
      <3>3. QED
        BY <1>1, <3>1, <3>2 DEF Runner
    <2>3. QED
      BY <2>1, <2>2
  <1> HIDE DEF at
  <1>3. RunOK(at, grants[r], traces[r], archive[r]) /\ grants[r] # "none"
    BY <1>1, <1>2 DEF RunOK, Progress, Aftermath, Says, Evidence, BeginFailed, CloseFailed
  <1>4. ASSUME NEW d \in calls
        PROVE  /\ CallOK(d, runner[d.run], grants'[d.run])
               /\ d.run = r => d.stage = "unheeded" /\ CallOK(d, at, grants'[r])
    <2>1. d \in Call /\ CallOK(d, runner[d.run], grants[d.run])
      BY DEF ChannelInv, ChannelTypes
    <2>2. CASE d.run = r
      <3>1. d.stage = "unheeded"
        BY <1>1, <2>1, <2>2 DEF CallOK, Call, Ops, Asks
      <3>2. CallOK(d, runner[r], grants[r])
        BY <2>1, <2>2
      <3>3. CallOK(d, at, grants[r])
        BY <1>1, <1>2, <2>1, <3>1, <3>2, UnheededMoves
      <3>4. QED
        BY <1>1, <2>1, <2>2, <3>1, <3>3
    <2>3. QED
      BY <1>1, <2>1, <2>2
  <1>5. /\ runner' \in [Runs -> Runner] /\ runner'[r] = at
        /\ \A x \in Runs \ {r} : runner'[x] = runner[x]
        /\ calls' \subseteq Call
        /\ \A d \in calls' : CallOK(d, runner'[d.run], grants'[d.run])
        /\ OneIsAwaited'
    <2>1. /\ at.phase = "beginning" => grants'[r] = "none"
          /\ at.phase \in {"ending", "closing"} =>
                "ok" \in Outcomes /\ grants'[r] # "none" /\ Says("ok", at, grants'[r])
          /\ at.phase = "ending" => "ok" = "ok"
          /\ "ok" \in Outcomes \cup {"none"}
      BY <1>1, <1>2, <1>3 DEF Outcomes, Says
    <2>2. \A d, e \in calls :
             d.run = e.run /\ d.stage = "sent" /\ e.stage = "sent" => d = e
      BY DEF ChannelInv, OneIsAwaited
    <2>3. /\ \A d \in calls : d.run # r => CallOK(d, runner[d.run], grants'[d.run])
          /\ \A d \in calls : d.run = r => d.stage = "unheeded" /\ CallOK(d, at, grants'[r])
      BY <1>4
    <2>4. /\ runner \in [Runs -> Runner] /\ at \in Runner /\ calls \in SUBSET Call
          /\ Enter(r, at, "ok", calls)
      BY <1>1, <1>2
    <2>5. QED
      BY <2>1, <2>2, <2>3, <2>4, EnterStep
  <1>6. RunnerHalf
    BY <1>1, <1>3, <1>5 DEF ChannelInv, ChannelTypes, RunnerHalf
  <1>7. QED
    BY <1>1, <1>6, BrokerStill

\* A revocation is asked for, and nobody waits for it.
LEMMA AskToRevokeStep ==
    ASSUME ChannelInv, NEW r \in Runs, AskToRevoke(r)
    PROVE  ChannelInv'
  <1> DEFINE at == [runner[r] EXCEPT !.asked = TRUE]
             new == NewCall(r, "revokeGrant", "none", "unheeded")
  <1>1. /\ runner \in [Runs -> Runner] /\ runner[r] \in Runner
        /\ runner' = [runner EXCEPT ![r] = at]
        /\ calls' = calls \cup {new} /\ calls \in SUBSET Call
        /\ grants[r] # "none"
        /\ UNCHANGED brokerVars
        /\ grants' = grants /\ traces' = traces /\ archive' = archive /\ failures' = failures
        /\ RunOK(runner[r], grants[r], traces[r], archive[r])
    BY DEF AskToRevoke, ChannelInv, ChannelTypes, brokerVars
  <1>2. /\ at \in Runner /\ at.phase = runner[r].phase
        /\ at.result = runner[r].result /\ at.failedIn = runner[r].failedIn /\ at.asked
    BY <1>1 DEF Runner
  <1>3. /\ new \in Call /\ new.run = r /\ new.op = "revokeGrant" /\ new.stage = "unheeded"
        /\ new.status = "none"
    BY DEF NewCall, Call, Ops
  <1> HIDE DEF at, new
  <1>4. /\ runner' \in [Runs -> Runner] /\ runner'[r] = at
        /\ \A x \in Runs \ {r} : runner'[x] = runner[x]
    BY <1>1, <1>2
  <1>5. RunOK(at, grants[r], traces[r], archive[r])
    BY <1>1, <1>2 DEF RunOK, Progress, Aftermath, Says, Evidence, BeginFailed, CloseFailed
  <1>6. CallOK(new, at, grants[r])
    BY <1>1, <1>2, <1>3 DEF CallOK
  <1>7. ASSUME NEW d \in calls
        PROVE  CallOK(d, runner'[d.run], grants'[d.run])
    <2>1. d \in Call /\ d.run \in Runs /\ CallOK(d, runner[d.run], grants[d.run])
      BY DEF ChannelInv, ChannelTypes, Call
    <2>2. CASE d.run = r
      <3>1. CallOK(d, at, grants[r])
        BY <1>2, <2>1, <2>2 DEF CallOK, Says, BeginFailed
      <3>2. QED
        BY <1>1, <1>4, <2>2, <3>1
    <2>3. QED
      BY <1>1, <1>4, <2>1, <2>2
  <1>8. OneIsAwaited'
    BY <1>1, <1>3 DEF ChannelInv, OneIsAwaited
  <1>9. RunnerHalf
    BY <1>1, <1>3, <1>4, <1>5, <1>6, <1>7, <1>8 DEF ChannelInv, ChannelTypes, RunnerHalf
  <1>10. QED
    BY <1>1, <1>9, BrokerStill

\* Calls are lost, or die with the broker.
LEMMA FewerCalls ==
    ASSUME ChannelInv, calls' \subseteq calls, up' \in BOOLEAN,
           UNCHANGED <<grants, delegated, traces, order, begun, template, changes,
                       applied, failures, runner, archive>>
    PROVE  ChannelInv'
  <1>1. ChannelTypes'
    BY DEF ChannelInv, ChannelTypes
  <1>l. LedgerOK'
    BY DEF ChannelInv, LedgerOK, Kept
  <1>2. LedgerOK' /\ DelegationIsAccountable' /\ OneIsAwaited'
    BY <1>l DEF ChannelInv, DelegationIsAccountable, OneIsAwaited
  <1>3. \A c \in calls' : CallOK(c, runner'[c.run], grants'[c.run])
    BY DEF ChannelInv
  <1>4. QED
    BY <1>1, <1>2, <1>3 DEF ChannelInv

\* The calls of the Agent, or the time, end the grant.
LEMMA GrantEndsStep ==
    ASSUME ChannelInv, NEW r \in Runs, NEW how \in {"exhausted", "expired"},
           GrantEnds(r, how)
    PROVE  ChannelInv'
  <1>1. /\ grants[r] = "active" /\ grants' = [grants EXCEPT ![r] = how]
        /\ UNCHANGED <<up, delegated, traces, order, begun, template, changes, applied,
                       failures, runner, calls, archive>>
    BY DEF GrantEnds
  <1>2. /\ runner[r] \in Runner /\ traces[r] \in Trace /\ archive[r] \in TraceStates
        /\ traces \in [Runs -> Trace]
        /\ RunOK(runner[r], "active", traces[r], archive[r])
    BY <1>1 DEF ChannelInv, ChannelTypes
  <1>3. RunOK(runner[r], how, traces[r], archive[r])
    BY <1>2, GrantEndsHalf
  <1>4. /\ how \in GrantStates /\ how # "none" /\ grants[r] # "none"
        /\ grants[r] \notin Stopped
        /\ traces' = [traces EXCEPT ![r] = traces[r]] /\ order' = order /\ begun' = begun
    BY <1>1, <1>2 DEF GrantStates, Stopped
  <1>5. /\ grants' \in [Runs -> GrantStates]
        /\ \A x \in Runs : RunOK(runner[x], grants'[x], traces'[x], archive[x])
        /\ \A d \in calls : CallOK(d, runner[d.run], grants'[d.run])
        /\ LedgerOK'
    BY <1>1, <1>2, <1>3, <1>4, OneRunStep
  <1>6. ChannelTypes'
    BY <1>1, <1>5 DEF ChannelInv, ChannelTypes
  <1>7. DelegationIsAccountable' /\ OneIsAwaited'
    BY <1>1 DEF ChannelInv, DelegationIsAccountable, OneIsAwaited
  <1>8. /\ \A x \in Runs : RunOK(runner'[x], grants'[x], traces'[x], archive'[x])
        /\ \A d \in calls' : CallOK(d, runner'[d.run], grants'[d.run])
    BY <1>1, <1>5
  <1>9. QED
    BY <1>5, <1>6, <1>7, <1>8 DEF ChannelInv

\* The audit tail grows by a link that fits, and is cut at its old end.
LEMMA ApplyTemplateStep ==
    ASSUME ChannelInv, NEW id \in Offered, ApplyTemplate(id)
    PROVE  ChannelInv'
  <1> DEFINE entry == [from |-> template, to |-> id]
             all == Append(changes, entry)
  <1>1. /\ applied' = applied + 1 /\ template' = id
        /\ changes' = IF Len(all) > MaxChanges THEN Tail(all) ELSE all
        /\ UNCHANGED <<up, grants, delegated, traces, order, begun, failures, runner, calls,
                       archive>>
    BY DEF ApplyTemplate
  <1>2. /\ id \in Policies /\ entry \in Change /\ entry.from = template /\ entry.to = id
        /\ changes \in Seq(Change) /\ Len(changes) \in Nat
        /\ Len(changes) <= MaxChanges /\ Len(changes) <= applied /\ applied \in Nat
        /\ MaxChanges \in Nat /\ MaxChanges > 0
    BY ChannelAssumption DEF ChannelInv, ChannelTypes, Change, Policies
  <1> HIDE DEF entry
  <1>3. /\ all \in Seq(Change) /\ Len(all) = Len(changes) + 1
        /\ \A i \in 1 .. Len(changes) : all[i] = changes[i]
        /\ all[Len(changes) + 1] = entry
    BY <1>2
  <1>4. /\ template = IF changes = <<>> THEN "startup" ELSE changes[Len(changes)].to
        /\ \A i \in 2 .. Len(changes) : changes[i].from = changes[i - 1].to
        /\ applied = Len(changes) =>
              /\ changes # <<>> => changes[1].from = "startup"
              /\ \A r \in Runs :
                    delegated[r] \in {"startup"} \cup {changes[i].to : i \in DOMAIN changes}
    BY DEF ChannelInv, DelegationIsAccountable
  <1> HIDE DEF all
  <1>5. \A i \in 2 .. Len(all) : all[i].from = all[i - 1].to
    <2> TAKE i \in 2 .. Len(all)
    <2>1. CASE i \in 2 .. Len(changes)
      <3>1. all[i] = changes[i] /\ all[i - 1] = changes[i - 1]
        BY <1>2, <1>3, <2>1
      <3>2. QED
        BY <1>4, <2>1, <3>1
    <2>2. CASE i = Len(changes) + 1
      <3>1. Len(changes) \in 1 .. Len(changes) /\ changes # <<>> /\ i - 1 = Len(changes)
        BY <1>2, <2>2
      <3>2. all[i] = entry /\ all[i - 1] = changes[Len(changes)]
        BY <1>3, <2>2, <3>1
      <3>3. QED
        BY <1>2, <1>4, <3>1, <3>2
    <2>3. QED
      BY <1>2, <1>3, <2>1, <2>2
  <1>6. CASE Len(all) > MaxChanges
    <2>1. /\ changes' = Tail(all) /\ Len(changes) = MaxChanges
      BY <1>1, <1>2, <1>3, <1>6
    <2>2. /\ changes' \in Seq(Change) /\ Len(changes') = Len(changes)
          /\ \A i \in 1 .. Len(changes') : changes'[i] = all[i + 1]
          /\ Len(changes') \in Nat \ {0}
      <3>1. all # <<>>
        BY <1>2, <1>3
      <3>2. QED
        BY <1>2, <1>3, <2>1, <3>1
    <2>3. changes' # <<>> /\ changes'[Len(changes')].to = id
      BY <1>2, <1>3, <2>2
    <2>4. \A i \in 2 .. Len(changes') : changes'[i].from = changes'[i - 1].to
      <3> TAKE i \in 2 .. Len(changes')
      <3>1. /\ i \in 1 .. Len(changes') /\ i - 1 \in 1 .. Len(changes')
            /\ i + 1 \in 2 .. Len(all) /\ (i - 1) + 1 = (i + 1) - 1
        BY <1>2, <1>3, <2>2
      <3>2. changes'[i] = all[i + 1] /\ changes'[i - 1] = all[(i + 1) - 1]
        BY <2>2, <3>1
      <3>3. QED
        BY <1>5, <3>1, <3>2
    <2>5. applied' # Len(changes') /\ Len(changes') <= applied' /\ applied' \in Nat
          /\ Len(changes') <= MaxChanges
      BY <1>1, <1>2, <2>2
    <2>6. DelegationIsAccountable'
      BY <1>1, <2>3, <2>4, <2>5 DEF DelegationIsAccountable
    <2>7. ChannelTypes'
      BY <1>1, <1>2, <2>2, <2>5 DEF ChannelInv, ChannelTypes
    <2>8. QED
      BY <1>1, <2>6, <2>7 DEF ChannelInv, LedgerOK, Kept, OneIsAwaited
  <1>7. CASE Len(all) <= MaxChanges
    <2>1. changes' = all
      BY <1>1, <1>2, <1>3, <1>7
    <2>2. /\ changes' # <<>> /\ changes'[Len(changes')].to = id
          /\ 1 \in 1 .. Len(all)
      BY <1>2, <1>3, <2>1
    <2>3. ASSUME applied' = Len(changes')
          PROVE  /\ changes'[1].from = "startup"
                 /\ \A r \in Runs :
                       delegated'[r] \in {"startup"} \cup {changes'[i].to : i \in DOMAIN changes'}
      <3>1. applied = Len(changes)
        BY <1>1, <1>2, <1>3, <2>1, <2>3
      <3>2. all[1].from = "startup"
        <4>1. CASE changes = <<>>
          BY <1>2, <1>3, <1>4, <4>1
        <4>2. CASE changes # <<>>
          <5>1. 1 \in 1 .. Len(changes)
            BY <1>2, <4>2
          <5>2. QED
            BY <1>3, <1>4, <3>1, <4>2, <5>1
        <4>3. QED
          BY <4>1, <4>2
      <3>3. {changes[i].to : i \in DOMAIN changes} \subseteq {all[i].to : i \in DOMAIN all}
        <4>1. DOMAIN changes = 1 .. Len(changes) /\ DOMAIN all = 1 .. Len(all)
          BY <1>2, <1>3
        <4>2. \A i \in 1 .. Len(changes) : i \in 1 .. Len(all) /\ all[i] = changes[i]
          BY <1>2, <1>3
        <4>3. QED
          BY <4>1, <4>2
      <3>4. ASSUME NEW r \in Runs
            PROVE  delegated'[r] \in {"startup"} \cup {changes'[i].to : i \in DOMAIN changes'}
        <4>1. delegated[r] \in {"startup"} \cup {changes[i].to : i \in DOMAIN changes}
          BY <1>4, <3>1
        <4>2. delegated[r] \in {"startup"} \cup {all[i].to : i \in DOMAIN all}
          BY <3>3, <4>1
        <4>3. delegated' = delegated
          BY <1>1
        <4>4. QED
          BY <2>1, <4>2, <4>3
      <3>5. QED
        BY <2>1, <3>2, <3>4
    <2>4. DelegationIsAccountable'
      BY <1>1, <1>5, <2>1, <2>2, <2>3 DEF DelegationIsAccountable
    <2>5. ChannelTypes'
      BY <1>1, <1>2, <1>3, <1>7, <2>1 DEF ChannelInv, ChannelTypes
    <2>6. QED
      BY <1>1, <2>4, <2>5 DEF ChannelInv, LedgerOK, Kept, OneIsAwaited
  <1>8. QED
    BY <1>2, <1>3, <1>6, <1>7

-----------------------------------------------------------------------------
\* The broker is up, and nothing has happened yet.
LEMMA ChannelInvInit == Init => ChannelInv
  <1> SUFFICES ASSUME Init PROVE ChannelInv
    OBVIOUS
  <1> DEFINE start == [phase |-> "idle", result |-> "none", failedIn |-> {}, asked |-> FALSE]
  <1>1. start \in Runner /\ NoTrace \in Trace /\ "none" \in GrantStates
        /\ "none" \in TraceStates /\ "startup" \in Policies
    BY DEF Runner, Phases, Asks, Trace, TraceStates, NoTrace, GrantStates, Policies
  <1>2. /\ RunOK(start, "none", NoTrace, "none")
    BY DEF RunOK, Progress, Aftermath, Says, Evidence, NoTrace
  <1> HIDE DEF start
  <1>3. \A r \in Runs : /\ runner[r] = start /\ grants[r] = "none"
                        /\ traces[r] = NoTrace /\ archive[r] = "none"
    BY DEF Init, start
  <1>4. ChannelTypes
    <2>1. /\ runner = [r \in Runs |-> start] /\ grants = [r \in Runs |-> "none"]
          /\ traces = [r \in Runs |-> NoTrace] /\ archive = [r \in Runs |-> "none"]
          /\ delegated = [r \in Runs |-> "startup"]
          /\ up = TRUE /\ order = <<>> /\ begun = <<>> /\ template = "startup" /\ changes = <<>>
          /\ applied = 0 /\ failures = 0 /\ calls = {}
      BY DEF Init, start
    <2>2. QED
      BY <1>1, <2>1, ChannelAssumption DEF ChannelTypes
  <1>5. LedgerOK
    BY <1>3, ChannelAssumption DEF Init, LedgerOK, Kept, NoTrace
  <1>6. DelegationIsAccountable
    BY DEF Init, DelegationIsAccountable
  <1>7. OneIsAwaited /\ \A c \in calls : CallOK(c, runner[c.run], grants[c.run])
    BY DEF Init, OneIsAwaited
  <1>8. \A r \in Runs : RunOK(runner[r], grants[r], traces[r], archive[r])
    BY <1>2, <1>3
  <1>9. QED
    BY <1>4, <1>5, <1>6, <1>7, <1>8 DEF ChannelInv

\* Every step keeps the invariant.
LEMMA ChannelInvStep == ChannelInv /\ [Next]_channelVars => ChannelInv'
  <1> SUFFICES ASSUME ChannelInv, [Next]_channelVars PROVE ChannelInv'
    OBVIOUS
  <1>1. ASSUME NEW r \in Runs, StartRun(r) PROVE ChannelInv'
    BY <1>1, StartRunStep
  <1>2. ASSUME NEW r \in Runs, NEW good \in BOOLEAN, InnerEnds(r, good) PROVE ChannelInv'
    BY <1>2, InnerEndsStep
  <1>3. ASSUME NEW r \in Runs, AskToRevoke(r) PROVE ChannelInv'
    BY <1>3, AskToRevokeStep
  <1>4. ASSUME NEW r \in Runs, NEW how \in {"exhausted", "expired"}, GrantEnds(r, how)
        PROVE  ChannelInv'
    BY <1>4, GrantEndsStep
  <1>5. ASSUME NEW c \in calls, GivesUp(c) PROVE ChannelInv'
    BY <1>5, GivesUpStep
  <1>6. ASSUME NEW c \in calls, Lost(c) PROVE ChannelInv'
    <2>1. /\ calls' \subseteq calls /\ up' \in BOOLEAN
          /\ UNCHANGED <<grants, delegated, traces, order, begun, template, changes,
                         applied, failures, runner, archive>>
      BY <1>6 DEF Lost, brokerVars, ChannelInv, ChannelTypes
    <2>2. QED
      BY <2>1, FewerCalls
  <1>7. ASSUME NEW c \in calls, Handle(c) PROVE ChannelInv'
    BY <1>7, HandleStep
  <1>8. ASSUME NEW id \in Offered, ApplyTemplate(id) PROVE ChannelInv'
    BY <1>8, ApplyTemplateStep
  <1>9. CASE BrokerDies
    BY <1>9, FewerCalls DEF BrokerDies
  <1>10. CASE UNCHANGED channelVars
    BY <1>10, FewerCalls DEF channelVars, brokerVars, ChannelInv, ChannelTypes
  <1>11. QED
    BY <1>1, <1>2, <1>3, <1>4, <1>5, <1>6, <1>7, <1>8, <1>9, <1>10 DEF Next

\* The inductive invariant of the channel.
THEOREM ChannelInvariant == Spec => []ChannelInv
  <1>1. Init => ChannelInv
    BY ChannelInvInit
  <1>2. ChannelInv /\ [Next]_channelVars => ChannelInv'
    BY ChannelInvStep
  <1>3. QED
    BY <1>1, <1>2, PTL DEF Spec

(***************************************************************************)
(* Whatever fails, is late or is handled twice, the variables keep their   *)
(* types, the ledger its bound and the audit tail its own.                 *)
(***************************************************************************)
THEOREM ChannelTypeCorrect == Spec => []ChannelTypeOK
  <1>1. ChannelInv => ChannelTypeOK
    BY DEF ChannelInv, ChannelTypes, LedgerOK, ChannelTypeOK
  <1>2. QED
    BY <1>1, ChannelInvariant, PTL

(***************************************************************************)
(* An inner runner runs only under a grant the broker has minted, and a Run*)
(* that is over leaves neither an active grant nor a running trace, unless *)
(* its first or its last call of the broker has failed.                    *)
(***************************************************************************)
THEOREM DelegationBrackets == Spec => []DelegationBracketsExecution
  <1>1. ASSUME ChannelInv PROVE DelegationBracketsExecution
    <2> SUFFICES ASSUME NEW r \in Runs
                 PROVE  /\ runner[r].phase = "inner" \/ runner[r].result # "none"
                              => grants[r] # "none"
                        /\ Over(r) /\ (grants[r] = "active" \/ traces[r].status = "running")
                              => runner[r].failedIn \cap {"beginning", "closing"} # {}
      BY DEF DelegationBracketsExecution
    <2>1. Progress(runner[r], grants[r]) /\ Aftermath(runner[r], grants[r], traces[r], archive[r])
      BY <1>1 DEF ChannelInv, RunOK
    <2>2. runner[r].phase = "inner" \/ runner[r].result # "none" => grants[r] # "none"
      BY <2>1 DEF Progress
    <2>3. ASSUME Over(r), grants[r] = "active" \/ traces[r].status = "running"
          PROVE  "closing" \in runner[r].failedIn \/ "beginning" \in runner[r].failedIn
      BY <2>1, <2>3 DEF Over, Aftermath, CloseFailed, BeginFailed
    <2>4. QED
      BY <2>2, <2>3
  <1>2. QED
    BY <1>1, ChannelInvariant, PTL

(***************************************************************************)
(* The ledger and the archive say that a Run went well only if it did, and *)
(* that it was denied only if its grant was stopped; a good Run is reported*)
(* failed only if the broker could not be told.                            *)
(***************************************************************************)
THEOREM TracesTell == Spec => []TraceTellsTheOutcome
  <1>1. ASSUME ChannelInv PROVE TraceTellsTheOutcome
    <2> SUFFICES ASSUME NEW r \in Runs
                 PROVE  /\ Tells(traces[r].status, r)
                        /\ Tells(archive[r], r)
                        /\ (runner[r].phase = "failed" /\ runner[r].result = "ok")
                              => "ending" \in runner[r].failedIn
                        /\ archive[r] = "running" => "closing" \in runner[r].failedIn
      BY DEF TraceTellsTheOutcome
    <2>1. RunOK(runner[r], grants[r], traces[r], archive[r])
      BY <1>1 DEF ChannelInv
    <2>2. QED
      BY <2>1 DEF RunOK, Progress, Aftermath, Says, Stopped, CloseFailed, Tells
  <1>2. QED
    BY <1>1, ChannelInvariant, PTL

(***************************************************************************)
(* The ledger has the traces of the last MaxTraces Runs begun and no others*)
(* - one that is missing was pushed out by MaxTraces later ones - and each *)
(* records the revocation of its grant, and one that was asked for only.   *)
(***************************************************************************)
THEOREM EvidenceKept == Spec => []EvidenceIsKept
  <1>1. ASSUME ChannelInv PROVE EvidenceIsKept
    <2>1. /\ begun \in Seq(Runs) /\ Len(begun) \in Nat /\ Len(order) \in Nat
          /\ MaxTraces \in Nat /\ LedgerOK
      BY <1>1, ChannelAssumption DEF ChannelInv, ChannelTypes
    <2>2. ASSUME NEW r \in Runs, Kept(r)
          PROVE  r \in Latest
      <3>1. PICK i \in 1 .. Len(order) : order[i] = r
        BY <2>1, <2>2 DEF LedgerOK
      <3>a. Len(begun) - Len(order) + i \in Int
        BY <2>1, <3>1
      <3>2. PICK j \in Int : j = Len(begun) - Len(order) + i
        BY <3>a
      <3>3. j \in 1 .. Len(begun) /\ j > Len(begun) - MaxTraces /\ begun[j] = r
        BY <2>1, <3>1, <3>2 DEF LedgerOK
      <3>4. QED
        BY <2>1, <3>3 DEF Latest
    <2>3. ASSUME NEW r \in Latest
          PROVE  r \in Runs /\ Kept(r)
      <3>1. PICK j \in DOMAIN begun : j > Len(begun) - MaxTraces /\ begun[j] = r
        BY DEF Latest
      <3>2. j \in 1 .. Len(begun) /\ r \in Runs
        BY <2>1, <3>1
      <3>b. j - (Len(begun) - Len(order)) \in Int
        BY <2>1, <3>2
      <3>3. PICK i \in Int : i = j - (Len(begun) - Len(order))
        BY <3>b
      <3>4. i \in 1 .. Len(order) /\ Len(begun) - Len(order) + i = j
        BY <2>1, <3>1, <3>2, <3>3 DEF LedgerOK
      <3>5. order[i] = r
        BY <2>1, <3>1, <3>4 DEF LedgerOK
      <3>6. QED
        BY <2>1, <3>2, <3>4, <3>5 DEF LedgerOK
    <2>4. {r \in Runs : Kept(r)} = Latest
      BY <2>2, <2>3
    <2>5. ASSUME NEW r \in Runs, Kept(r)
          PROVE  /\ grants[r] = "revoked" => traces[r].revoked
                 /\ traces[r].revoked => /\ runner[r].asked
                                        /\ grants[r] \in {"revoked", "closed", "expired"}
      <3>1. Evidence(grants[r], traces[r]) /\ (traces[r].revoked => runner[r].asked)
        BY <1>1 DEF ChannelInv, RunOK
      <3>2. QED
        BY <2>5, <3>1 DEF Evidence, Kept
    <2>6. QED
      BY <2>4, <2>5 DEF EvidenceIsKept
  <1>2. QED
    BY <1>1, ChannelInvariant, PTL

(***************************************************************************)
(* The audit tail is an unbroken chain that ends at the template in force, *)
(* and while it has not been cut it names the template of every grant.     *)
(***************************************************************************)
THEOREM DelegationAccountable == Spec => []DelegationIsAccountable
  <1>1. ChannelInv => DelegationIsAccountable
    BY DEF ChannelInv
  <1>2. QED
    BY <1>1, ChannelInvariant, PTL

-----------------------------------------------------------------------------
(***************************************************************************)
(* The decision of evaluate and the dry run, for every allowlist, upstream *)
(* and set of hosts.  evaluate returns the least of the checks that refuse;*)
(* it allows when none does, whence the first lemma.                       *)
(***************************************************************************)

\* A nonempty finite set of numbers has a least member.
LEMMA LeastOf ==
    ASSUME NEW T, T \subseteq Int, IsFiniteSet(T), T # {}
    PROVE  Min(T) \in T
  <1> DEFINE Before(x) == {y \in T : y < x}
             All == {Before(x) : x \in T}
  <1>1. T \subseteq Int
    OBVIOUS
  <1>2. All \subseteq FiniteSubsetsOf(T) /\ All # {}
    <2>1. \A x \in T : Before(x) \subseteq T /\ IsFiniteSet(Before(x))
      BY FS_Subset
    <2>2. QED
      BY <2>1 DEF FiniteSubsetsOf
  <1>3. PICK few \in All : \A other \in All : <<other, few>> \notin StrictSubsetOrdering(T)
    <2>1. IsWellFoundedOn(StrictSubsetOrdering(T), FiniteSubsetsOf(T))
      BY FS_StrictSubsetOrderingWellFounded
    <2> HIDE DEF All
    <2>2. QED
      BY <1>2, <2>1, WFMin, Zenon
  <1>4. PICK x \in T : few = Before(x)
    BY <1>3
  <1>5. \A y \in T : x =< y
    <2> SUFFICES ASSUME NEW y \in T, y < x PROVE FALSE
      BY <1>1
    <2>1. Before(y) \subseteq Before(x)
      <3>1. \A z \in T : z < y => z < x
        BY <1>1
      <3>2. QED
        BY <3>1
    <2>2. y \in Before(x) /\ y \notin Before(y)
      BY <1>1
    <2>3. Before(y) # Before(x)
      BY <2>2
    <2>4. <<Before(y), Before(x)>> \in StrictSubsetOrdering(T)
      BY <2>1, <2>3 DEF StrictSubsetOrdering
    <2>5. QED
      BY <1>3, <1>4, <2>4
  <1>6. QED
    BY <1>4, <1>5 DEF Min

\* What is left of evaluate for a grant that was just minted: what its scopes say.
Allows(scopes, request) ==
    LET host  == NormalizeHost(request.host)
        hosts == HostMatches(scopes, request)
        ports == {s \in hosts : request.port \in s.ports}
    IN  /\ isRestrictedAddress(request.host) => NamedExactly(scopes, host)
        /\ {s \in scopes : s.plane = request.plane} # {}
        /\ ~(request.userInfo \/ hosts = {})
        /\ ports # {}
        /\ request.plane = "network" /\ isBlockedLiteralAddress(request.host)
              => NamedExactly(ports, host)
        /\ \E s \in ports : s.methods = AnyMethod \/ request.method \in s.methods

\* No other check of evaluate refuses under such a grant.
LEMMA FreshAllows ==
    ASSUME NEW scopes, NEW request
    PROVE  evaluate(Fresh(scopes), request) = "allow" <=> Allows(scopes, request)
  <1> DEFINE grant == Fresh(scopes)
             host   == NormalizeHost(request.host)
             planes == {s \in grant.scopes : s.plane = request.plane}
             hosts  == HostMatches(grant.scopes, request)
             ports  == {s \in hosts : request.port \in s.ports}
             checks == <<
            <<"grant_revoked",          grant.status = "revoked">>,
            <<"grant_closed",           grant.status = "closed">>,
            <<"budget_tokens_exhausted", grant.status = "exhausted">>,
            <<"grant_expired",          grant.late = "expired">>,
            <<"budget_time_exhausted",  grant.late = "overtime">>,
            <<"address_not_allowed",    /\ isRestrictedAddress(request.host)
                                        /\ ~NamedExactly(grant.scopes, host)>>,
            <<"plane_not_allowed",      planes = {}>>,
            <<"host_not_allowed",       request.userInfo \/ hosts = {}>>,
            <<"port_not_allowed",       ports = {}>>,
            <<"address_not_allowed",    /\ request.plane = "network"
                                        /\ isBlockedLiteralAddress(request.host)
                                        /\ ~NamedExactly(ports, host)>>,
            <<"method_not_allowed",     \A s \in ports : /\ s.methods # AnyMethod
                                                         /\ request.method \notin s.methods>>,
            <<"budget_calls_exhausted", /\ request.plane = "model"
                                        /\ "calls" \in grant.spent>>,
            <<"budget_tokens_exhausted", /\ request.plane = "model"
                                         /\ "tokens" \in grant.spent>> >>
             refusals == {i \in DOMAIN checks : checks[i][2]}
  <1>1. evaluate(grant, request) = IF refusals = {} THEN "allow" ELSE checks[Min(refusals)][1]
    BY DEF evaluate
  <1>2. grant.scopes = scopes /\ grant.status = "active" /\ grant.late = "no" /\ grant.spent = {}
    BY DEF Fresh
  <1>3. DOMAIN checks = 1 .. 13
    OBVIOUS
  <1>4. \A i \in 1 .. 13 : checks[i][1] # "allow"
    OBVIOUS
  <1>5. refusals = {} <=> \A i \in 1 .. 13 : ~checks[i][2]
    <2> HIDE DEF checks
    <2>1. QED
      BY <1>3
  <1>6. \A i \in {1, 2, 3, 4, 5, 12, 13} : ~checks[i][2]
    <2>1. ~checks[1][2] /\ ~checks[2][2] /\ ~checks[3][2]
      BY <1>2
    <2>2. ~checks[4][2] /\ ~checks[5][2]
      BY <1>2
    <2>3. ~checks[12][2] /\ ~checks[13][2]
      BY <1>2
    <2>4. QED
      <3> HIDE DEF checks
      <3>1. QED
        BY <2>1, <2>2, <2>3
  <1>7. (\A i \in {6, 7, 8, 9, 10, 11} : ~checks[i][2]) <=> Allows(scopes, request)
    <2>1. ~checks[6][2] <=> (isRestrictedAddress(request.host) => NamedExactly(scopes, host))
      BY <1>2
    <2>2. ~checks[7][2] <=> planes # {}
      OBVIOUS
    <2>3. ~checks[8][2] <=> ~(request.userInfo \/ hosts = {})
      OBVIOUS
    <2>4. ~checks[9][2] <=> ports # {}
      OBVIOUS
    <2>5. ~checks[10][2] <=> (request.plane = "network" /\ isBlockedLiteralAddress(request.host)
                                  => NamedExactly(ports, host))
      OBVIOUS
    <2>6. ~checks[11][2] <=> \E s \in ports : s.methods = AnyMethod \/ request.method \in s.methods
      OBVIOUS
    <2>7. QED
      <3> HIDE DEF checks
      <3>1. QED
        BY <1>2, <2>1, <2>2, <2>3, <2>4, <2>5, <2>6 DEF Allows
  <1>8. QED
    <2>1. refusals # {} => checks[Min(refusals)][1] # "allow"
      <3> HIDE DEF checks
      <3>1. refusals \subseteq 1 .. 13 /\ refusals \subseteq Int
        BY <1>3
      <3>2. IsFiniteSet(1 .. 13)
        <4>1. 1 \in Int /\ 13 \in Int
          OBVIOUS
        <4>2. QED
          BY <4>1, FS_Interval, Zenon
      <3> HIDE DEF refusals
      <3>3. IsFiniteSet(refusals)
        BY <3>1, <3>2, FS_Subset, Zenon
      <3>4. refusals # {} => Min(refusals) \in 1 .. 13
        BY <3>1, <3>3, LeastOf
      <3>5. QED
        BY <1>4, <3>4
    <2>2. QED
      <3> HIDE DEF checks
      <3>1. QED
        BY <1>1, <1>5, <1>6, <1>7, <2>1

\* A scope of the network plane, which leaves the method open.
NetworkScope(s) ==
    /\ s.plane = "network" /\ s.methods = AnyMethod
    /\ s.host = [wild |-> s.host.wild, name |-> s.host.name]
    /\ s.host.wild \in BOOLEAN
    /\ s.host.wild => s.host.name \in Seq(STRING) \ {<<>>}
    /\ s.host.name \notin Residues

\* The scopes of the templates are such scopes: what normalizeHost leaves of a
\* literal it does not leave whole has one label.
LEMMA HttpsScopes ==
    ASSUME NEW h \in GitHub \cup {Npm}
    PROVE  NetworkScope(Scope("network", Exactly(h), {443}, AnyMethod))
  <1>1. h \notin Residues
    <2>1. Len(h) \in {2, 3}
      BY DEF GitHub, Npm
    <2>2. \A residue \in Residues : Len(residue) = 1
      BY PolicyAssumption
    <2>3. QED
      BY <2>1, <2>2
  <1>2. QED
    BY <1>1 DEF NetworkScope, Scope, Exactly

\* There are no other scopes but the model scope, under any policy.
LEMMA ScopesThereAre ==
    ASSUME NEW id \in Policies, NEW s \in Build(id)
    PROVE  s = modelScope \/ NetworkScope(s)
  <1>3. \A x \in Https(GitHub) \cup Https(GitHub \cup {Npm}) : NetworkScope(x)
    BY HttpsScopes DEF Https
  <1>4. \A x \in Allowlisted : NetworkScope(x)
    <2> SUFFICES ASSUME NEW x \in Allowlisted PROVE NetworkScope(x)
      OBVIOUS
    <2>1. /\ x = [plane |-> "network", host |-> x.host, ports |-> x.ports, methods |-> {}]
          /\ x.host = [wild |-> x.host.wild, name |-> x.host.name]
          /\ x.host.wild \in BOOLEAN
          /\ x.host.wild => x.host.name \in Seq(STRING) \ {<<>>}
          /\ x.host.name \notin Residues
      BY PolicyAssumption
    <2>2. x.plane = "network" /\ x.methods = {}
      BY <2>1
    <2>3. QED
      BY <2>1, <2>2 DEF NetworkScope, AnyMethod
  <1>5. \/ s = modelScope \/ s \in Allowlisted
        \/ s \in Https(GitHub) \cup Https(GitHub \cup {Npm})
    BY DEF Build, Policies, TemplateIds
  <1>6. QED
    BY <1>3, <1>4, <1>5

\* The model scope names one host, one port and the methods of the provider.
LEMMA ModelScopeIs ==
    /\ modelScope.plane = "model" /\ modelScope.host = Exactly(Upstream.host)
    /\ modelScope.ports = {Upstream.port} /\ modelScope.methods = {"GET", "POST"}
    /\ modelScope.methods # AnyMethod
  BY DEF modelScope, Scope, AnyMethod

\* The match of a pattern, as evaluate computes it and as Covers reads it.
LEMMA Matches ==
    ASSUME NEW host \in Seq(STRING), NEW pattern,
           \/ pattern = Exactly(pattern.name)
           \/ /\ pattern = [wild |-> pattern.wild, name |-> pattern.name]
              /\ pattern.wild \in BOOLEAN
              /\ pattern.wild => pattern.name \in Seq(STRING) \ {<<>>}
    PROVE  matchHost(pattern, host) <=>
               \/ pattern = Exactly(host)
               \/ /\ pattern.wild
                  /\ \E n \in 1 .. Len(host) - 1 : SubSeq(host, n + 1, Len(host)) = pattern.name
  <1>1. CASE pattern.wild = FALSE
    <2>1. matchHost(pattern, host) <=> pattern.name = host
      BY <1>1 DEF matchHost
    <2>2. pattern = Exactly(host) <=> pattern.name = host
      BY <1>1 DEF Exactly
    <2>3. QED
      BY <1>1, <2>1, <2>2
  <1>2. CASE pattern.wild # FALSE
    <2>1. /\ pattern.wild = TRUE /\ pattern.name \in Seq(STRING) /\ pattern.name # <<>>
          /\ pattern # Exactly(host)
      <3>1. \A h : Exactly(h).wild = FALSE
        BY DEF Exactly
      <3>2. pattern # Exactly(host) /\ pattern # Exactly(pattern.name)
        BY <1>2, <3>1
      <3>3. QED
        BY <1>2, <3>2
    <2> DEFINE k == Len(pattern.name)
    <2>2. k \in Nat /\ k >= 1 /\ Len(host) \in Nat
      BY <2>1
    <2>3. ASSUME NEW n \in 1 .. Len(host) - 1, SubSeq(host, n + 1, Len(host)) = pattern.name
          PROVE  k < Len(host) /\ n = Len(host) - k
      <3>1. Len(SubSeq(host, n + 1, Len(host))) = Len(host) - n
        BY <2>2
      <3>2. k = Len(host) - n
        BY <2>3, <3>1
      <3> HIDE DEF k
      <3>3. QED
        BY <2>2, <3>2
    <2>4. matchHost(pattern, host) <=>
              k < Len(host) /\ SubSeq(host, Len(host) - k + 1, Len(host)) = pattern.name
      BY <2>1 DEF matchHost
    <2>5. k < Len(host) => Len(host) - k \in 1 .. Len(host) - 1
      BY <2>2
    <2> HIDE DEF k
    <2>6. QED
      BY <2>1, <2>2, <2>3, <2>4, <2>5
  <1>3. QED
    BY <1>1, <1>2

\* The host of a scope is a name or a wildcard, and no mutilated literal.
LEMMA ScopeHosts ==
    ASSUME NEW id \in Policies, NEW s \in Build(id)
    PROVE  /\ s.host.name \notin Residues
           /\ \/ s.host = Exactly(s.host.name)
              \/ /\ s.host = [wild |-> s.host.wild, name |-> s.host.name]
                 /\ s.host.wild \in BOOLEAN
                 /\ s.host.wild => s.host.name \in Seq(STRING) \ {<<>>}
  <1>1. CASE s = modelScope
    <2>1. s.host = Exactly(Upstream.host)
      BY <1>1, ModelScopeIs
    <2>2. Exactly(Upstream.host).name = Upstream.host
      BY DEF Exactly
    <2>3. QED
      BY <2>1, <2>2, PolicyAssumption
  <1>2. CASE NetworkScope(s)
    BY <1>2 DEF NetworkScope
  <1>3. QED
    BY <1>1, <1>2, ScopesThereAre

\* Where the address is blocked, to be named exactly is to be written exactly.
LEMMA NamedIs ==
    ASSUME NEW id \in Policies, NEW s \in Build(id),
           NEW host \in Restricted \cup {Localhost}, host \notin DOMAIN FirstGroup
    PROVE  ~s.host.wild /\ NormalizeHost(Plain(s.host.name)) = host <=> s.host = Exactly(host)
  <1>1. NormalizeHost(Plain(s.host.name)) =
            IF s.host.name \in DOMAIN FirstGroup THEN FirstGroup[s.host.name] ELSE s.host.name
    BY DEF NormalizeHost, Plain
  <1>2. \A l \in DOMAIN FirstGroup : FirstGroup[l] # host
    BY PolicyAssumption
  <1>3. \A h : Exactly(h).wild = FALSE /\ Exactly(h).name = h
    BY DEF Exactly
  <1>4. ASSUME ~s.host.wild, NormalizeHost(Plain(s.host.name)) = host
        PROVE  s.host = Exactly(host)
    <2>1. s.host.name = host
      BY <1>1, <1>2, <1>4
    <2>2. QED
      BY <1>4, <2>1, ScopeHosts DEF Exactly
  <1>5. ASSUME s.host = Exactly(host)
        PROVE  ~s.host.wild /\ NormalizeHost(Plain(s.host.name)) = host
    BY <1>1, <1>3, <1>5
  <1>6. QED
    BY <1>4, <1>5

\* What normalizeHost leaves is the host that was written, or a text no scope has.
LEMMA Normal ==
    ASSUME NEW written
    PROVE  /\ NormalizeHost(written) = written.name \/ NormalizeHost(written) \in Residues
           /\ Survives(written) => written.name \notin DOMAIN FirstGroup
           /\ written.name \notin DOMAIN FirstGroup \cup DOMAIN WithPort => Survives(written)
  <1>1. NormalizeHost(written) = written.name \/ NormalizeHost(written) \in Residues
    BY DEF NormalizeHost, Residues
  <1>2. ASSUME Survives(written), written.name \in DOMAIN FirstGroup
        PROVE  FALSE
    <2>1. FirstGroup[written.name] = written.name
      <3>1. NormalizeHost(written) = FirstGroup[written.name]
        BY <1>2 DEF NormalizeHost
      <3>2. QED
        BY <1>2, <3>1 DEF Survives
    <2>2. FirstGroup[written.name] \notin DOMAIN FirstGroup
      BY <1>2, PolicyAssumption
    <2>3. QED
      BY <1>2, <2>1, <2>2
  <1>3. ASSUME written.name \notin DOMAIN FirstGroup \cup DOMAIN WithPort
        PROVE  Survives(written)
    BY <1>3 DEF NormalizeHost, Survives
  <1>4. QED
    BY <1>1, <1>2, <1>3

\* No scope matches such a text.
LEMMA ResiduesMatchNothing ==
    ASSUME NEW id \in Policies, NEW s \in Build(id), NEW host \in Residues
    PROVE  ~matchHost(s.host, host)
  <1>1. host \in Seq(STRING) /\ Len(host) = 1
    BY PolicyAssumption
  <1>2. CASE s.host = Exactly(s.host.name)
    <2>1. s.host.wild = FALSE
      BY <1>2 DEF Exactly
    <2>2. QED
      BY <2>1, ScopeHosts DEF matchHost
  <1>3. CASE s.host.wild \in BOOLEAN /\ (s.host.wild => s.host.name \in Seq(STRING) \ {<<>>})
    <2>1. CASE s.host.wild
      <3>1. Len(s.host.name) \in Nat /\ Len(s.host.name) >= 1
        BY <1>3, <2>1
      <3>2. ~(Len(s.host.name) < Len(host))
        BY <1>1, <3>1
      <3>3. QED
        BY <2>1, <3>2 DEF matchHost
    <2>2. CASE ~s.host.wild
      <3>1. s.host.name # host
        BY ScopeHosts
      <3>2. QED
        BY <2>2, <3>1 DEF matchHost
    <2>3. QED
      BY <2>1, <2>2
  <1>4. QED
    BY <1>2, <1>3, ScopeHosts

\* What a scope is good for, in the words of evaluate.
LEMMA CoversIff ==
    ASSUME NEW id \in Policies, NEW s \in Build(id), NEW request \in Requests,
           Survives(request.host)
    PROVE  Covers(s, request) <=>
               /\ scopeMatches(s, request)
               /\ isBlockedLiteralAddress(request.host) => s.host = Exactly(request.host.name)
               /\ request.port \in s.ports
               /\ s.methods = AnyMethod \/ request.method \in s.methods
  <1> DEFINE host == request.host.name
             blocked == isBlockedLiteralAddress(request.host)
  <1>1. host \in Seq(STRING)
    BY PolicyAssumption DEF Requests, Written
  <1>2. \/ s.host = Exactly(s.host.name)
        \/ /\ s.host = [wild |-> s.host.wild, name |-> s.host.name]
           /\ s.host.wild \in BOOLEAN
           /\ s.host.wild => s.host.name \in Seq(STRING) \ {<<>>}
    BY ScopeHosts
  <1>3. matchHost(s.host, host) <=>
               \/ s.host = Exactly(host)
               \/ /\ s.host.wild
                  /\ \E n \in 1 .. Len(host) - 1 : SubSeq(host, n + 1, Len(host)) = s.host.name
    BY <1>1, <1>2, Matches
  <1>4. s.host = Exactly(host) => ~s.host.wild
    BY DEF Exactly
  <1> HIDE DEF host, blocked
  <1>5. scopeMatches(s, request) <=> s.plane = request.plane /\ matchHost(s.host, host)
    BY DEF scopeMatches, Survives, host
  <1>6. Covers(s, request) <=>
            /\ s.plane = request.plane
            /\ \/ s.host = Exactly(host)
               \/ /\ s.host.wild /\ ~blocked
                  /\ \E n \in 1 .. Len(host) - 1 : SubSeq(host, n + 1, Len(host)) = s.host.name
            /\ request.port \in s.ports
            /\ s.methods = AnyMethod \/ request.method \in s.methods
    BY DEF Covers, host, blocked
  <1>7. QED
    BY <1>3, <1>4, <1>5, <1>6 DEF host, blocked

\* A request whose host is left whole is allowed if and only if one scope says yes
\* to all of it.
LEMMA WholeHostsByScope ==
    ASSUME NEW id \in Policies, NEW request \in Requests, Survives(request.host)
    PROVE  Allows(Build(id), request) <=> /\ ~request.userInfo
                                         /\ \E s \in Build(id) : Covers(s, request)
  <1> DEFINE host  == request.host.name
             blocked == isBlockedLiteralAddress(request.host)
             ports == {s \in HostMatches(Build(id), request) : request.port \in s.ports}
  <1>1. NormalizeHost(request.host) = host /\ request.plane \in {"model", "network"}
    BY DEF Survives, Requests
  <1>2. \A s : s \in ports <=> s \in Build(id) /\ scopeMatches(s, request) /\ request.port \in s.ports
    BY DEF HostMatches
  <1>3. /\ isRestrictedAddress(request.host) => blocked
        /\ blocked => host \in Restricted \cup {Localhost} /\ host \notin DOMAIN FirstGroup
    BY <1>1, Normal DEF isBlockedLiteralAddress, isRestrictedAddress
  <1>4. Allows(Build(id), request) <=>
            /\ isRestrictedAddress(request.host) => NamedExactly(Build(id), host)
            /\ {s \in Build(id) : s.plane = request.plane} # {}
            /\ ~(request.userInfo \/ HostMatches(Build(id), request) = {})
            /\ ports # {}
            /\ request.plane = "network" /\ blocked => NamedExactly(ports, host)
            /\ \E s \in ports : s.methods = AnyMethod \/ request.method \in s.methods
    BY <1>1 DEF Allows
  <1> HIDE DEF host, ports, blocked
  <1>0. \A s \in Build(id) :
           blocked => (~s.host.wild /\ NormalizeHost(Plain(s.host.name)) = host
                          <=> s.host = Exactly(host))
    BY <1>3, NamedIs
  <1>5. ASSUME ~request.userInfo, NEW s \in Build(id), Covers(s, request)
        PROVE  Allows(Build(id), request)
    <2>1. /\ scopeMatches(s, request) /\ request.port \in s.ports
          /\ blocked => s.host = Exactly(host)
          /\ s.methods = AnyMethod \/ request.method \in s.methods
      BY <1>5, CoversIff DEF host, blocked
    <2>2. s \in ports /\ s.plane = request.plane /\ s \in HostMatches(Build(id), request)
      BY <1>2, <2>1 DEF scopeMatches, HostMatches
    <2>3. blocked => NamedExactly(ports, host) /\ NamedExactly(Build(id), host)
      BY <1>0, <2>1, <2>2 DEF NamedExactly
    <2>4. QED
      BY <1>3, <1>4, <1>5, <2>1, <2>2, <2>3
  <1>6. ASSUME Allows(Build(id), request)
        PROVE  \E s \in Build(id) : Covers(s, request)
    <2>1. PICK s \in ports : s.methods = AnyMethod \/ request.method \in s.methods
      BY <1>4, <1>6
    <2>2. s \in Build(id) /\ scopeMatches(s, request) /\ request.port \in s.ports
      BY <1>2
    <2>3. CASE s.host = Exactly(host) \/ ~blocked
      BY <2>1, <2>2, <2>3, CoversIff DEF host, blocked
    <2>4. CASE s.host # Exactly(host) /\ blocked
      <3>1. s # modelScope
        <4>1. SUFFICES ASSUME s = modelScope PROVE FALSE
          OBVIOUS
        <4>2. matchHost(s.host, host) /\ s.host = Exactly(Upstream.host)
          BY <1>1, <2>2, <4>1, ModelScopeIs DEF scopeMatches
        <4>3. QED
          <5>1. Exactly(Upstream.host).wild = FALSE /\ Exactly(Upstream.host).name = Upstream.host
            BY DEF Exactly
          <5>2. Upstream.host = host
            BY <4>2, <5>1 DEF matchHost
          <5>3. QED
            BY <2>4, <4>2, <5>2
      <3>2. request.plane = "network"
        BY <2>2, <3>1, ScopesThereAre DEF NetworkScope, scopeMatches
      <3>3. PICK t \in ports : t.host = Exactly(host)
        BY <1>0, <1>2, <1>4, <1>6, <2>4, <3>2 DEF NamedExactly
      <3>4. t \in Build(id) /\ scopeMatches(t, request) /\ request.port \in t.ports
        BY <1>2
      <3>5. t.methods = AnyMethod
        BY <3>2, <3>4, ScopesThereAre, ModelScopeIs DEF NetworkScope, scopeMatches
      <3>6. QED
        BY <3>3, <3>4, <3>5, CoversIff DEF host, blocked
    <2>5. QED
      BY <2>3, <2>4
  <1>7. Allows(Build(id), request) => ~request.userInfo
    BY <1>4
  <1>8. QED
    BY <1>5, <1>6, <1>7

\* One whose host is not is refused, whatever is allowlisted.
LEMMA DecidesAllByScope ==
    ASSUME NEW id \in Policies
    PROVE  DecidesByScope(id)
  <1> SUFFICES ASSUME NEW request \in Requests
               PROVE  evaluate(Fresh(Build(id)), request) = "allow"
                          <=> /\ ~request.userInfo
                              /\ Survives(request.host)
                              /\ \E scope \in Build(id) : Covers(scope, request)
    BY DEF DecidesByScope
  <1>1. CASE Survives(request.host)
    BY <1>1, WholeHostsByScope, FreshAllows
  <1>2. CASE ~Survives(request.host)
    <2>1. NormalizeHost(request.host) \in Residues
      BY <1>2, Normal DEF Survives
    <2>2. HostMatches(Build(id), request) = {}
      BY <2>1, ResiduesMatchNothing DEF HostMatches, scopeMatches
    <2>3. ~Allows(Build(id), request)
      BY <2>2 DEF Allows
    <2>4. QED
      BY <1>2, <2>3, FreshAllows
  <1>3. QED
    BY <1>1, <1>2

\* Where a policy has a scope of the model plane it is the model scope, and the
\* dry run asks about its port.
LEMMA ModelPortIs ==
    ASSUME NEW id \in Policies, NEW port,
           NEW m \in Build(id), m.plane = "model"
    PROVE  ModelPort(Build(id), port) = Upstream.port
  <1> DEFINE mine == {t \in Build(id) : t.plane = "model"}
  <1>1. \A t \in mine : t = modelScope
    BY ScopesThereAre DEF NetworkScope
  <1>2. mine = {modelScope}
    BY <1>1
  <1>3. UNION {t.ports : t \in mine} = {Upstream.port}
    BY <1>2, ModelScopeIs
  <1>4. ModelPort(Build(id), port) = CHOOSE p \in UNION {t.ports : t \in mine} : TRUE
    BY DEF ModelPort
  <1> HIDE DEF mine
  <1>5. QED
    BY <1>3, <1>4

\* What the gateway asks on behalf of a Runtime that posts to the model.
Posted == [plane |-> "model", host |-> Plain(Upstream.host), userInfo |-> FALSE,
           port |-> Upstream.port, method |-> "POST"]

\* On the model plane the dry run allows what the gateway's decision would allow.
LEMMA ModelDryRun ==
    ASSUME NEW id \in Policies, NEW dest \in Destinations
    PROVE  evaluate(Fresh(Build(id)), DryRunRequest(Build(id), "model", dest)) = "allow"
               <=> /\ dest.host.name = Upstream.host
                   /\ evaluate(Fresh(Build(id)), Posted) = "allow"
  <1> DEFINE S     == Build(id)
             asked == DryRunRequest(S, "model", dest)
             done  == Posted
             norm  == NormalizeHost(asked.host)
  <1>1. /\ done.plane = "model" /\ done.userInfo = FALSE /\ done.port = Upstream.port
        /\ done.method = "POST" /\ done.host.name = Upstream.host
    BY DEF Posted, Plain
  <1>2. NormalizeHost(done.host) = Upstream.host
    BY <1>1, Normal, PolicyAssumption DEF Survives
  <1>3. /\ asked.plane = "model" /\ asked.host = dest.host /\ ~asked.userInfo
        /\ asked.port = ModelPort(S, dest.port) /\ asked.method = "POST"
        /\ asked.userInfo = FALSE
    BY DEF DryRunRequest
  <1>4. norm = Upstream.host <=> dest.host.name = Upstream.host
    BY <1>3, Normal, PolicyAssumption DEF Survives
  <1> HIDE DEF norm, done
  <1>5. ASSUME \A s \in S : s.plane # "model"
        PROVE  ~Allows(S, asked) /\ ~Allows(S, done)
    BY <1>1, <1>3, <1>5 DEF Allows
  <1>6. ASSUME NEW m \in S, m.plane = "model"
        PROVE  Allows(S, asked) <=> dest.host.name = Upstream.host /\ Allows(S, done)
    <2>1. asked.port = Upstream.port
      BY <1>3, <1>6, ModelPortIs
    <2>2. CASE dest.host.name = Upstream.host
      <3> HIDE DEF asked, S
      <3>1. HostMatches(S, asked) = HostMatches(S, done)
        BY <1>1, <1>2, <1>3, <1>4, <2>2 DEF HostMatches, scopeMatches, norm
      <3>2. /\ done.plane = asked.plane /\ done.userInfo = asked.userInfo
            /\ done.port = asked.port /\ done.method = asked.method
            /\ NormalizeHost(asked.host) = NormalizeHost(done.host)
            /\ isRestrictedAddress(asked.host) <=> isRestrictedAddress(done.host)
        BY <1>1, <1>2, <1>3, <1>4, <2>1, <2>2 DEF norm, isRestrictedAddress
      <3>3. Allows(S, asked) <=> Allows(S, done)
        <4>1. done.plane # "network"
          BY <1>1
        <4>2. QED
          BY <3>1, <3>2, <4>1 DEF Allows
      <3>4. QED
        BY <2>2, <3>3
    <2>3. CASE dest.host.name # Upstream.host
      <3>1. ASSUME NEW s \in HostMatches(S, asked) PROVE FALSE
        <4>1. s \in S /\ s.plane = "model" /\ matchHost(s.host, norm)
          BY <1>3, <3>1 DEF HostMatches, scopeMatches, norm
        <4>2. s = modelScope
          BY <4>1, ScopesThereAre DEF NetworkScope
        <4>3. s.host.wild = FALSE /\ s.host.name = Upstream.host
          BY <4>2, ModelScopeIs DEF Exactly
        <4>4. QED
          BY <1>4, <2>3, <4>1, <4>3 DEF matchHost
      <3>2. ~Allows(S, asked)
        BY <3>1 DEF Allows
      <3>3. QED
        BY <2>3, <3>2
    <2>4. QED
      BY <2>2, <2>3
  <1>7. QED
    BY <1>5, <1>6, FreshAllows DEF done

\* The dry run of a destination tells the truth, plane by plane.
LEMMA AllDryRunsTrue ==
    ASSUME NEW id \in Policies
    PROVE  DryRunIsTrue(id)
  <1> SUFFICES ASSUME NEW dest \in Destinations, NEW allowlist \in ModelPaths,
                      NEW addresses \in Resolutions(dest.host.name)
               PROVE  LET grant   == Fresh(Build(id))
                          answer  == checkPolicy(Build(id), dest)
                          byModel == /\ dest.plane # "network"
                                     /\ dest.host.name = Upstream.host
                                     /\ EnforceModel(grant, "POST", <<"responses">>, allowlist)
                          byNetwork ==
                              /\ dest.plane # "model"
                              /\ EnforceNetwork(grant, dest.host, dest.port, dest.method, addresses)
                      IN  CASE ~answer.allowed -> ~byModel /\ ~byNetwork
                            [] answer.plane = "model" ->
                                   byModel <=> isAllowedModelPath("POST", <<"responses">>, allowlist)
                            [] answer.plane = "network" ->
                                   byNetwork <=> resolveAndScreen(addresses)
    BY DEF DryRunIsTrue
  <1> DEFINE S         == Build(id)
             Decide(p) == evaluate(Fresh(S), DryRunRequest(S, p, dest))
             planes    == IF dest.plane = "any" THEN {"model", "network"} ELSE {dest.plane}
             allowed   == {p \in planes : Decide(p) = "allow"}
             answer    == checkPolicy(S, dest)
             byModel   == /\ dest.plane # "network"
                          /\ dest.host.name = Upstream.host
                          /\ EnforceModel(Fresh(S), "POST", <<"responses">>, allowlist)
             byNetwork == /\ dest.plane # "model"
                          /\ EnforceNetwork(Fresh(S), dest.host, dest.port, dest.method, addresses)
  <1>1. /\ planes \subseteq {"model", "network"}
        /\ "model" \in planes <=> dest.plane # "network"
        /\ "network" \in planes <=> dest.plane # "model"
    BY DEF Destinations
  <1>2. byModel <=> "model" \in allowed
                    /\ isAllowedModelPath("POST", <<"responses">>, allowlist)
    <2>1. EnforceModel(Fresh(S), "POST", <<"responses">>, allowlist)
              <=> /\ evaluate(Fresh(S), Posted) = "allow"
                  /\ isAllowedModelPath("POST", <<"responses">>, allowlist)
      BY DEF EnforceModel, Posted
    <2>2. QED
      BY <1>1, <2>1, ModelDryRun
  <1>3. byNetwork <=> "network" \in allowed /\ resolveAndScreen(addresses)
    <2>1. DryRunRequest(S, "network", dest) =
              [plane |-> "network", host |-> dest.host, userInfo |-> FALSE,
               port |-> dest.port, method |-> dest.method]
      BY DEF DryRunRequest
    <2>2. QED
      BY <1>1, <2>1 DEF EnforceNetwork
  <1>4. /\ answer.allowed <=> allowed # {}
        /\ answer.allowed => answer.plane = IF "model" \in allowed THEN "model" ELSE "network"
        /\ ~answer.allowed => answer.plane = "none"
    BY DEF checkPolicy
  <1>5. allowed \subseteq {"model", "network"}
    BY <1>1
  <1> HIDE DEF planes, allowed, answer, byModel, byNetwork
  <1>6. CASE ~answer.allowed
    <2>1. ~byModel /\ ~byNetwork
      BY <1>2, <1>3, <1>4, <1>6
    <2>2. answer.plane # "model" /\ answer.plane # "network"
      BY <1>4, <1>6
    <2>3. QED
      BY <1>6, <2>1, <2>2 DEF answer, byModel, byNetwork
  <1>7. CASE answer.allowed /\ answer.plane = "model"
    <2>1. byModel <=> isAllowedModelPath("POST", <<"responses">>, allowlist)
      BY <1>2, <1>4, <1>7
    <2>2. QED
      BY <1>7, <2>1 DEF answer, byModel, byNetwork
  <1>8. CASE answer.allowed /\ answer.plane = "network"
    <2>1. byNetwork <=> resolveAndScreen(addresses)
      BY <1>3, <1>4, <1>5, <1>8
    <2>2. QED
      BY <1>8, <2>1 DEF answer, byModel, byNetwork
  <1>9. QED
    BY <1>4, <1>6, <1>7, <1>8

(***************************************************************************)
(* Whatever the broker allowlists, the model paths it is configured with   *)
(* and the template the operator applies: a request is allowed if and only *)
(* if normalizeHost leaves its host whole and one scope says yes to all of *)
(* it; and the dry run says what enforcement does, the screens of addresses*)
(* and of model paths apart.                                               *)
(***************************************************************************)
THEOREM PolicyKept == Spec => []PolicyIsAsPromised
  <1>1. SoundPolicies = Policies
    BY DecidesAllByScope, AllDryRunsTrue DEF SoundPolicies
  <1>2. ChannelInv => PolicyIsAsPromised
    <2>1. ChannelInv => template \in Policies
      BY DEF ChannelInv, ChannelTypes
    <2>2. QED
      BY <1>1, <2>1 DEF PolicyIsAsPromised, Policies
  <1>3. QED
    BY <1>2, ChannelInvariant, PTL

=============================================================================
