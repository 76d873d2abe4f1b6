------------------------- MODULE TraceArchiveProofs -------------------------
(***************************************************************************)
(* Machine-checked proofs about TraceArchive, for any traces, cap and      *)
(* number of appends that run together.                                    *)
(***************************************************************************)
EXTENDS TraceArchive, FiniteSetTheorems, TLAPS

-----------------------------------------------------------------------------
(* The records and the size of a file, in any state of the files. *)

Recs(all, file) == {t \in Traces : file # 0 /\ \E i \in 1 .. Len(all[file]) : all[file][i] = t}
Long(all, file) == IF file = 0 THEN 0 ELSE Len(all[file])

LookupStates == {"first", "second", "found", "missed"}

Shape ==
    /\ files \in Seq(Seq(Traces))
    /\ current \in 0 .. Len(files) /\ previous \in 0 .. Len(files)
    /\ current = previous => current = 0
    /\ writers \in [Traces -> WriterStates]
    /\ open \in [Traces -> 0 .. Len(files)]
    /\ \A t \in Traces : writers[t] = "writing" => open[t] # 0
    /\ archived \in Seq(Traces)
    /\ overlap \in BOOLEAN
    /\ lookup \in {NoLookup} \cup [state : LookupStates, trace : Traces, stored : BOOLEAN]

\* Only a trace whose append is done is in a file.
OnlyDone ==
    \A f \in 0 .. Len(files) : \A t \in Recs(files, f) : t \in Traces /\ writers[t] = "done"

(***************************************************************************)
(* A trace that was stored when the search began is never written again:   *)
(* once it is not in the current file it never comes back there.           *)
(***************************************************************************)
FindInv ==
    /\ Shape /\ OnlyDone
    /\ lookup.state # "none" /\ lookup.stored => writers[lookup.trace] = "done"
    /\ lookup.state = "second" /\ lookup.stored => lookup.trace \notin Recs(files, current)
    /\ lookup.state = "missed" /\ lookup.stored =>
          lookup.trace \notin Recs(files, current) \cup Recs(files, previous)

(***************************************************************************)
(* As long as no rotation has run together with another append, an append  *)
(* that rotates is alone, and those that write have the current file open. *)
(***************************************************************************)
Alone ==
    /\ \A t \in Traces :
          writers[t] = "writing" => open[t] = current /\ current # 0
    /\ \A t \in Rotating : \A u \in InProgress : u = t
    /\ \A t \in Traces :
          /\ writers[t] = "renaming" => current # 0 /\ Long(files, current) >= Cap
          /\ writers[t] = "emptying" => current = 0

\* The current file has the latest traces, and the two files Cap before them.
Latest ==
    \A i \in DOMAIN archived :
        /\ i > Len(archived) - Long(files, current) => archived[i] \in Recs(files, current)
        /\ i > Len(archived) - Long(files, current) - Cap =>
              archived[i] \in Recs(files, current) \cup Recs(files, previous)

RecentInv == Shape /\ (~overlap => Alone /\ Latest)

(***************************************************************************)
(* Each append in progress may still add a record to the current file, or  *)
(* to the one it has opened, and no other does.                            *)
(***************************************************************************)
Filling == {t \in Traces : \/ writers[t] \in {"emptying", "opening"}
                           \/ writers[t] = "writing" /\ open[t] = current}
Heading == {t \in Traces : writers[t] = "writing" /\ open[t] = previous}
Limit == Cap + MaxWriters - 1

BoundInv ==
    /\ Shape
    /\ IsFiniteSet(InProgress) /\ Cardinality(InProgress) <= MaxWriters
    /\ Long(files, current) + Cardinality(Filling) <= Limit
    /\ Long(files, previous) + Cardinality(Heading) <= Limit

-----------------------------------------------------------------------------
(* Files. *)

LEMMA SameRecords ==
    ASSUME files \in Seq(Seq(Traces)), NEW file \in 0 .. Len(files)
    PROVE  RecordsOf(file) = Recs(files, file) /\ Size(file) = Long(files, file)
  <1>1. file # 0 => files[file] \in Seq(Traces) /\ DOMAIN files[file] = 1 .. Len(files[file])
    OBVIOUS
  <1>2. QED
    BY <1>1 DEF RecordsOf, Size, Recs, Long

\* The size of a file and the records in it, by its number.
LEMMA FileFacts ==
    ASSUME NEW all \in Seq(Seq(Traces)), NEW f \in 0 .. Len(all)
    PROVE  /\ Long(all, f) \in Nat
           /\ Recs(all, f) \subseteq Traces
           /\ f # 0 => /\ all[f] \in Seq(Traces) /\ f \in 1 .. Len(all)
                       /\ Long(all, f) = Len(all[f])
           /\ f = 0 => Long(all, f) = 0 /\ Recs(all, f) = {}
  BY DEF Recs, Long

\* A new file is empty, and those there were are as they were.
LEMMA Grown ==
    ASSUME NEW all \in Seq(Seq(Traces))
    PROVE  /\ Append(all, <<>>) \in Seq(Seq(Traces))
           /\ Len(Append(all, <<>>)) = Len(all) + 1 /\ Len(all) \in Nat
           /\ \A f \in 0 .. Len(all) : /\ Recs(Append(all, <<>>), f) = Recs(all, f)
                                       /\ Long(Append(all, <<>>), f) = Long(all, f)
           /\ Recs(Append(all, <<>>), Len(all) + 1) = {}
           /\ Long(Append(all, <<>>), Len(all) + 1) = 0
  <1>1. <<>> \in Seq(Traces) /\ Len(<<>>) = 0
    OBVIOUS
  <1> DEFINE now == Append(all, <<>>)
  <1>2. /\ now \in Seq(Seq(Traces)) /\ Len(now) = Len(all) + 1 /\ Len(all) \in Nat
        /\ \A f \in 1 .. Len(all) : now[f] = all[f]
        /\ now[Len(all) + 1] = <<>>
    BY <1>1
  <1> HIDE DEF now
  <1>6. Len(all) \in Nat /\ \A f \in 1 .. Len(all) : now[f] = all[f]
    BY <1>2
  <1>3. ASSUME NEW f \in 0 .. Len(all)
        PROVE  Recs(now, f) = Recs(all, f) /\ Long(now, f) = Long(all, f)
    <2>1. f # 0 => f \in 1 .. Len(all) /\ now[f] = all[f]
      <3>1. f # 0 => f \in 1 .. Len(all)
        BY <1>6
      <3>2. QED
        BY <1>6, <3>1, Zenon
    <2>2. QED
      BY <2>1 DEF Recs, Long
  <1>4. Recs(now, Len(all) + 1) = {} /\ Long(now, Len(all) + 1) = 0
    BY <1>1, <1>2 DEF Recs, Long
  <1>5. QED
    BY <1>2, <1>3, <1>4 DEF now

EmptiedAt(all, n) == [all EXCEPT ![n] = <<>>]
WrittenAt(all, n, t) == [all EXCEPT ![n] = Append(@, t)]

\* Another content of one file leaves the others alone.
LEMMA Elsewhere ==
    ASSUME NEW all, NEW now, NEW f, f # 0 => now[f] = all[f]
    PROVE  Recs(now, f) = Recs(all, f) /\ Long(now, f) = Long(all, f)
  BY DEF Recs, Long

LEMMA Emptied ==
    ASSUME NEW all \in Seq(Seq(Traces)), NEW n \in 1 .. Len(all)
    PROVE  LET now == EmptiedAt(all, n)
           IN  /\ now \in Seq(Seq(Traces)) /\ Len(now) = Len(all)
               /\ \A f \in 0 .. Len(all) : f # n => /\ Recs(now, f) = Recs(all, f)
                                                    /\ Long(now, f) = Long(all, f)
               /\ Recs(now, n) = {} /\ Long(now, n) = 0
  <1> DEFINE now == [all EXCEPT ![n] = <<>>]
  <1>0. <<>> \in Seq(Traces) /\ Len(<<>>) = 0
    OBVIOUS
  <1>1. /\ now \in Seq(Seq(Traces)) /\ Len(now) = Len(all) /\ Len(all) \in Nat
        /\ \A f \in 1 .. Len(all) : f # n => now[f] = all[f]
    BY <1>0
  <1>5. now[n] = <<>>
    OBVIOUS
  <1> HIDE DEF now
  <1>2. ASSUME NEW f \in 0 .. Len(all), f # n
        PROVE  Recs(now, f) = Recs(all, f) /\ Long(now, f) = Long(all, f)
    <2>1. f # 0 => now[f] = all[f]
      <3>1. f # 0 => f \in 1 .. Len(all)
        BY <1>1
      <3>2. QED
        BY <1>1, <1>2, <3>1, Zenon
    <2>2. QED
      BY <2>1, Elsewhere
  <1>3. Recs(now, n) = {} /\ Long(now, n) = 0
    BY <1>5, <1>0 DEF Recs, Long
  <1>4. QED
    BY <1>1, <1>2, <1>3 DEF now, EmptiedAt

LEMMA Written ==
    ASSUME NEW all \in Seq(Seq(Traces)), NEW n \in 1 .. Len(all), NEW t \in Traces
    PROVE  LET now == WrittenAt(all, n, t)
           IN  /\ now \in Seq(Seq(Traces)) /\ Len(now) = Len(all)
               /\ \A f \in 0 .. Len(all) : f # n => /\ Recs(now, f) = Recs(all, f)
                                                    /\ Long(now, f) = Long(all, f)
               /\ Recs(now, n) = Recs(all, n) \cup {t}
               /\ Long(now, n) = Long(all, n) + 1
  <1> DEFINE now == [all EXCEPT ![n] = Append(@, t)]
  <1> DEFINE s == Append(all[n], t)
  <1>1. /\ now \in Seq(Seq(Traces)) /\ Len(now) = Len(all) /\ Len(all) \in Nat
        /\ \A f \in 1 .. Len(all) : f # n => now[f] = all[f]
        /\ now[n] = s
    OBVIOUS
  <1>2. /\ s \in Seq(Traces) /\ Len(s) = Len(all[n]) + 1 /\ Len(all[n]) \in Nat
        /\ \A i \in 1 .. Len(all[n]) : s[i] = all[n][i]
        /\ s[Len(all[n]) + 1] = t
    OBVIOUS
  <1> HIDE DEF s, now
  <1>3. ASSUME NEW f \in 0 .. Len(all), f # n
        PROVE  Recs(now, f) = Recs(all, f) /\ Long(now, f) = Long(all, f)
    <2>1. f # 0 => now[f] = all[f]
      BY <1>1, <1>3
    <2>2. QED
      BY <2>1, Elsewhere
  <1>4. n # 0 /\ Long(now, n) = Long(all, n) + 1
    BY <1>1, <1>2 DEF Long
  <1>5. ASSUME NEW x
        PROVE  (\E i \in 1 .. Len(s) : s[i] = x)
                  <=> (\E i \in 1 .. Len(all[n]) : all[n][i] = x) \/ x = t
    <2> DEFINE old == all[n]
    <2>1. /\ Len(s) = Len(old) + 1 /\ Len(old) \in Nat /\ s[Len(old) + 1] = t
          /\ \A i \in 1 .. Len(old) : s[i] = old[i]
      BY <1>2
    <2> HIDE DEF old
    <2>2. \A i : i \in 1 .. Len(s) <=> i \in 1 .. Len(old) \/ i = Len(old) + 1
      BY <2>1
    <2>3. (\E i \in 1 .. Len(s) : s[i] = x) <=> (\E i \in 1 .. Len(old) : old[i] = x) \/ x = t
      BY <2>1, <2>2
    <2>4. QED
      BY <2>3 DEF old
  <1>6. Recs(now, n) = Recs(all, n) \cup {t}
    BY <1>1, <1>4, <1>5 DEF Recs
  <1>7. QED
    BY <1>1, <1>3, <1>4, <1>6 DEF now, WrittenAt

-----------------------------------------------------------------------------
(* The shape of the state. *)

LEMMA InitShape ==
    ASSUME Init
    PROVE  Shape
  <1>1. files \in Seq(Seq(Traces)) /\ Len(files) = 0 /\ archived \in Seq(Traces)
    BY DEF Init
  <1>2. /\ writers \in [Traces -> WriterStates] /\ open \in [Traces -> 0 .. 0]
        /\ \A t \in Traces : writers[t] = "idle"
    BY DEF Init, WriterStates
  <1>3. /\ current = 0 /\ previous = 0 /\ overlap = FALSE /\ lookup = NoLookup
        /\ current \in 0 .. Len(files) /\ previous \in 0 .. Len(files)
        /\ open \in [Traces -> 0 .. Len(files)]
    BY <1>1, <1>2 DEF Init
  <1>4. QED
    BY <1>1, <1>2, <1>3 DEF Shape

\* The parts of the shape that hold the files.
FilesShape ==
    /\ files \in Seq(Seq(Traces))
    /\ current \in 0 .. Len(files) /\ previous \in 0 .. Len(files)
    /\ current = previous => current = 0
    /\ Len(files) \in Nat

\* One append moves, and no call of find.
WriterMoves(t, state) ==
    /\ writers' = [writers EXCEPT ![t] = state]
    /\ lookup' = lookup

LEMMA WritersShape ==
    ASSUME Shape, NEW t \in Traces, NEW state \in WriterStates, WriterMoves(t, state)
    PROVE  /\ writers' \in [Traces -> WriterStates]
           /\ writers'[t] = state
           /\ \A u \in Traces \ {t} : writers'[u] = writers[u]
           /\ lookup' = lookup
  BY DEF Shape, WriterMoves

\* What each step does to the files: nothing, a new file, one emptied, one
\* moved or one written.
FilesKept == UNCHANGED <<files, current, previous>>

FileMade ==
    /\ current = 0
    /\ files' = Append(files, <<>>)
    /\ current' = Len(files) + 1 /\ previous' = previous

FileEmptied ==
    /\ current # 0
    /\ files' = [files EXCEPT ![current] = <<>>]
    /\ UNCHANGED <<current, previous>>

FileMoved ==
    /\ current # 0
    /\ previous' = current /\ current' = 0 /\ files' = files

FileWritten(t) ==
    /\ open[t] \in 1 .. Len(files)
    /\ files' = [files EXCEPT ![open[t]] = Append(@, t)]
    /\ UNCHANGED <<current, previous>>

LEMMA FilesStep ==
    ASSUME Shape, NEW t \in Traces,
           FilesKept \/ FileMade \/ FileEmptied \/ FileMoved \/ FileWritten(t)
    PROVE  FilesShape' /\ Len(files) <= Len(files') /\ Len(files) \in Nat
  <1>1. /\ files \in Seq(Seq(Traces)) /\ Len(files) \in Nat
        /\ current \in 0 .. Len(files) /\ previous \in 0 .. Len(files)
        /\ current = previous => current = 0
    BY DEF Shape
  <1>2. CASE FilesKept
    BY <1>1, <1>2 DEF FilesKept, FilesShape
  <1>3. CASE FileMade
    <2>1. files' \in Seq(Seq(Traces)) /\ Len(files') = Len(files) + 1
      BY <1>1, <1>3, Grown DEF FileMade
    <2>2. QED
      BY <1>1, <1>3, <2>1 DEF FileMade, FilesShape
  <1>4. CASE FileEmptied
    <2>1. files' \in Seq(Seq(Traces)) /\ Len(files') = Len(files)
      BY <1>1, <1>4 DEF FileEmptied
    <2>2. QED
      BY <1>1, <1>4, <2>1 DEF FileEmptied, FilesShape
  <1>5. CASE FileMoved
    BY <1>1, <1>5 DEF FileMoved, FilesShape
  <1>6. CASE FileWritten(t)
    <2>1. files' \in Seq(Seq(Traces)) /\ Len(files') = Len(files)
      BY <1>1, <1>6 DEF FileWritten
    <2>2. QED
      BY <1>1, <1>6, <2>1 DEF FileWritten, FilesShape
  <1>7. QED
    BY <1>2, <1>3, <1>4, <1>5, <1>6

\* What each step of an append does to it and to the files.
LEMMA AppendSteps ==
    ASSUME Shape, NEW t \in Traces
    PROVE  /\ Stat(t) => /\ writers[t] = "idle" /\ FilesKept /\ UNCHANGED <<open, archived>>
                         /\ \E s \in {"dropped", "renaming", "opening"} : WriterMoves(t, s)
           /\ Rename(t) => /\ writers[t] = "renaming" /\ UNCHANGED <<open, archived, overlap>>
                           /\ \/ FileMoved /\ WriterMoves(t, "emptying")
                              \/ current = 0 /\ FilesKept /\ WriterMoves(t, "opening")
           /\ Empty(t) => /\ writers[t] = "emptying" /\ UNCHANGED <<open, archived, overlap>>
                          /\ FileMade \/ FileEmptied
                          /\ WriterMoves(t, "opening")
           /\ Open(t) => /\ writers[t] = "opening" /\ UNCHANGED <<archived, overlap>>
                         /\ FileMade \/ (current # 0 /\ FilesKept)
                         /\ WriterMoves(t, "writing")
                         /\ open' = [open EXCEPT ![t] = current']
           /\ Write(t) => /\ writers[t] = "writing" /\ UNCHANGED <<open, overlap>>
                          /\ FileWritten(t) /\ WriterMoves(t, "done")
                          /\ archived' = Append(archived, t)
           /\ Fail(t) => /\ writers[t] \in Refused
                         /\ FilesKept /\ UNCHANGED <<open, archived, overlap>>
                         /\ WriterMoves(t, IF writers[t] \in {"renaming", "emptying"}
                                           THEN "opening" ELSE "lost")
  <1>1. /\ writers \in [Traces -> WriterStates] /\ open[t] \in 0 .. Len(files)
        /\ writers[t] = "writing" => open[t] \in 1 .. Len(files)
        /\ current \in 0 .. Len(files)
    BY DEF Shape
  <1>2. Stat(t) => /\ writers[t] = "idle" /\ FilesKept /\ UNCHANGED <<open, archived>>
                   /\ \E s \in {"dropped", "renaming", "opening"} : WriterMoves(t, s)
    BY DEF Stat, FilesKept, WriterMoves
  <1>3. Rename(t) => /\ writers[t] = "renaming" /\ UNCHANGED <<open, archived, overlap>>
                     /\ \/ FileMoved /\ WriterMoves(t, "emptying")
                        \/ current = 0 /\ FilesKept /\ WriterMoves(t, "opening")
    BY DEF Rename, FilesKept, FileMoved, WriterMoves
  <1>4. Empty(t) => /\ writers[t] = "emptying" /\ UNCHANGED <<open, archived, overlap>>
                    /\ FileMade \/ FileEmptied
                    /\ WriterMoves(t, "opening")
    BY DEF Empty, FileMade, FileEmptied, WriterMoves
  <1>5. Open(t) => /\ writers[t] = "opening" /\ UNCHANGED <<archived, overlap>>
                   /\ FileMade \/ (current # 0 /\ FilesKept)
                   /\ WriterMoves(t, "writing")
                   /\ open' = [open EXCEPT ![t] = current']
    BY DEF Open, FileMade, FilesKept, WriterMoves
  <1>6. Write(t) => /\ writers[t] = "writing" /\ UNCHANGED <<open, overlap>>
                    /\ FileWritten(t) /\ WriterMoves(t, "done")
                    /\ archived' = Append(archived, t)
    BY <1>1 DEF Write, FileWritten, WriterMoves
  <1>7. Fail(t) => /\ writers[t] \in Refused
                   /\ FilesKept /\ UNCHANGED <<open, archived, overlap>>
                   /\ WriterMoves(t, IF writers[t] \in {"renaming", "emptying"}
                                     THEN "opening" ELSE "lost")
    BY <1>1 DEF Fail, FilesKept, WriterMoves
  <1>8. QED
    BY <1>2, <1>3, <1>4, <1>5, <1>6, <1>7

AppendStep(t) ==
    \/ Stat(t) \/ Rename(t) \/ Empty(t) \/ Open(t) \/ Write(t) \/ Fail(t)

\* A step of an append, whichever it is.
LEMMA AppendStepEffect ==
    ASSUME Shape, NEW t \in Traces, AppendStep(t)
    PROVE  /\ FilesKept \/ FileMade \/ FileEmptied \/ FileMoved \/ FileWritten(t)
           /\ writers[t] \in {"idle"} \cup Pending
           /\ \E s \in WriterStates : WriterMoves(t, s)
  <1>1. CASE Stat(t) \/ Rename(t)
    BY <1>1, AppendSteps DEF Pending, WriterStates
  <1>2. CASE Empty(t) \/ Open(t)
    BY <1>2, AppendSteps DEF Pending, WriterStates
  <1>3. CASE Write(t)
    BY <1>3, AppendSteps DEF Pending, WriterStates
  <1>4. CASE Fail(t)
    <2>1. /\ FilesKept /\ writers[t] \in Refused
          /\ WriterMoves(t, IF writers[t] \in {"renaming", "emptying"} THEN "opening" ELSE "lost")
      BY <1>4, AppendSteps
    <2>2. (IF writers[t] \in {"renaming", "emptying"} THEN "opening" ELSE "lost") \in WriterStates
      BY DEF Pending, WriterStates
    <2>3. writers[t] \in Pending
      BY <2>1, ArchiveAssumption DEF Pending
    <2>4. QED
      BY <2>1, <2>2, <2>3
  <1>5. QED
    BY <1>1, <1>2, <1>3, <1>4 DEF AppendStep

LEMMA ShapeStep ==
    ASSUME Shape, [Next]_archiveVars
    PROVE  Shape'
  <1>1. ASSUME NEW t \in Traces, AppendStep(t)
        PROVE  Shape'
    <2>1. FilesShape' /\ Len(files) <= Len(files') /\ Len(files) \in Nat
      BY <1>1, AppendStepEffect, FilesStep
    <2>2. /\ writers' \in [Traces -> WriterStates]
          /\ \A u \in Traces \ {t} : writers'[u] = writers[u]
          /\ lookup' = lookup
      BY <1>1, AppendStepEffect, WritersShape
    <2>3. /\ open \in [Traces -> 0 .. Len(files')] /\ archived \in Seq(Traces)
          /\ overlap \in BOOLEAN
          /\ \A u \in Traces : writers[u] = "writing" => open[u] # 0
      BY <2>1 DEF Shape
    <2>4. /\ open' \in [Traces -> 0 .. Len(files')]
          /\ \A u \in Traces : writers'[u] = "writing" => open'[u] # 0
      <3>1. CASE Open(t)
        <4>1. open' = [open EXCEPT ![t] = current'] /\ current' \in 0 .. Len(files')
          BY <2>1, <3>1, AppendSteps DEF FilesShape
        <4>2. current' # 0
          BY <2>1, <3>1, AppendSteps DEF FileMade, FilesKept
        <4>3. QED
          BY <2>2, <2>3, <4>1, <4>2
      <3>2. CASE ~Open(t)
        <4>1. open' = open
          BY <1>1, <3>2, AppendSteps DEF AppendStep
        <4>2. writers'[t] # "writing"
          <5>1. ASSUME NEW s, WriterMoves(t, s), s # "writing"
                PROVE  writers'[t] # "writing"
            BY <5>1 DEF WriterMoves, Shape
          <5>2. CASE Stat(t) \/ Rename(t) \/ Empty(t)
            BY <5>1, <5>2, AppendSteps
          <5>3. CASE Write(t)
            BY <5>1, <5>3, AppendSteps
          <5>4. CASE Fail(t)
            BY <5>1, <5>4, AppendSteps
          <5>5. QED
            BY <1>1, <3>2, <5>2, <5>3, <5>4 DEF AppendStep
        <4>3. QED
          BY <2>2, <2>3, <4>1, <4>2
      <3>3. QED
        BY <3>1, <3>2
    <2>5. archived' \in Seq(Traces) /\ overlap' \in BOOLEAN
      <3>1. archived' = archived \/ archived' = Append(archived, t)
        BY <1>1, AppendSteps DEF AppendStep
      <3>2. Stat(t) => overlap' \in BOOLEAN
        BY Zenon DEF Stat
      <3>3. ~Stat(t) => overlap' = overlap
        BY <1>1, AppendSteps DEF AppendStep
      <3>4. archived' \in Seq(Traces)
        <4>1. archived \in Seq(Traces)
          BY <2>3
        <4>2. Append(archived, t) \in Seq(Traces)
          BY <4>1
        <4>3. QED
          BY <3>1, <4>1, <4>2
      <3>5. overlap' \in BOOLEAN
        <4>1. overlap \in BOOLEAN
          BY <2>3
        <4>2. QED
          BY <3>2, <3>3, <4>1, Zenon
      <3>6. QED
        BY <3>4, <3>5
    <2>6. QED
      BY <2>1, <2>2, <2>4, <2>5 DEF Shape, FilesShape
  <1>2. ASSUME NEW t \in Traces, Find(t)
        PROVE  Shape'
    BY <1>2 DEF Find, Shape, LookupStates
  <1>3. CASE Scan
    <2>1. lookup \in [state : LookupStates, trace : Traces, stored : BOOLEAN]
      BY <1>3 DEF Scan, Shape, NoLookup
    <2>2. lookup' \in [state : LookupStates, trace : Traces, stored : BOOLEAN]
      <3>1. PICK s \in {"found", "second", "missed"} : lookup' = [lookup EXCEPT !.state = s]
        BY <1>3 DEF Scan
      <3>2. s \in LookupStates
        BY DEF LookupStates
      <3>3. QED
        BY <2>1, <3>1, <3>2
    <2>3. QED
      BY <1>3, <2>2 DEF Scan, Shape
  <1>4. CASE UNCHANGED archiveVars
    BY <1>4 DEF archiveVars, Shape
  <1>5. QED
    BY <1>1, <1>2, <1>3, <1>4 DEF Next, AppendStep

-----------------------------------------------------------------------------
(* A search that comes back empty. *)

\* What an append does to the records of the two files: it adds at most its
\* own, and what the previous file gains was in the current one.
LEMMA RecordsStep ==
    ASSUME Shape, NEW t \in Traces, AppendStep(t)
    PROVE  /\ Recs(files', current') \subseteq Recs(files, current) \cup {t}
           /\ Recs(files', previous') \subseteq
                 Recs(files, current) \cup Recs(files, previous) \cup {t}
           /\ \A f \in 0 .. Len(files') : \A x \in Recs(files', f) :
                 \/ f \in 0 .. Len(files) /\ x \in Recs(files, f)
                 \/ x = t /\ Write(t)
  <1>1. /\ files \in Seq(Seq(Traces)) /\ Len(files) \in Nat
        /\ current \in 0 .. Len(files) /\ previous \in 0 .. Len(files)
        /\ current = previous => current = 0
        /\ Recs(files, 0) = {}
    BY DEF Shape, Recs
  <1>2. CASE FilesKept
    BY <1>1, <1>2 DEF FilesKept
  <1>3. CASE FileMoved
    <2>1. Recs(files', 0) = {}
      BY DEF Recs
    <2>2. QED
      BY <1>1, <1>3, <2>1 DEF FileMoved
  <1>4. CASE FileMade
    <2>1. /\ files' = Append(files, <<>>) /\ current' = Len(files) + 1 /\ previous' = previous
          /\ Len(files') = Len(files) + 1
          /\ \A f \in 0 .. Len(files) : Recs(files', f) = Recs(files, f)
          /\ Recs(files', Len(files) + 1) = {}
      BY <1>1, <1>4, Grown DEF FileMade
    <2>2. \A f \in 0 .. Len(files') : f \in 0 .. Len(files) \/ f = Len(files) + 1
      BY <1>1, <2>1
    <2>3. QED
      BY <1>1, <2>1, <2>2
  <1>5. CASE FileEmptied
    <2>1. /\ files' = [files EXCEPT ![current] = <<>>] /\ current \in 1 .. Len(files)
          /\ current' = current /\ previous' = previous
      BY <1>1, <1>5 DEF FileEmptied
    <2>2. /\ Len(files') = Len(files)
          /\ \A f \in 0 .. Len(files) : f # current => Recs(files', f) = Recs(files, f)
          /\ Recs(files', current) = {}
      <3> DEFINE now == EmptiedAt(files, current)
      <3>1. /\ Len(now) = Len(files)
            /\ \A f \in 0 .. Len(files) : f # current => Recs(now, f) = Recs(files, f)
            /\ Recs(now, current) = {}
        BY <1>1, <2>1, Emptied
      <3> HIDE DEF now
      <3>2. files' = now
        BY <2>1 DEF now, EmptiedAt
      <3>3. QED
        BY <3>1, <3>2
    <2>3. QED
      BY <1>1, <2>1, <2>2
  <1>6. CASE Write(t)
    <2>1. /\ files' = [files EXCEPT ![open[t]] = Append(@, t)] /\ open[t] \in 1 .. Len(files)
          /\ current' = current /\ previous' = previous
      BY <1>6, AppendSteps DEF FileWritten
    <2>2. /\ Len(files') = Len(files)
          /\ \A f \in 0 .. Len(files) : f # open[t] => Recs(files', f) = Recs(files, f)
          /\ Recs(files', open[t]) = Recs(files, open[t]) \cup {t}
      <3> DEFINE now == WrittenAt(files, open[t], t)
      <3>1. /\ Len(now) = Len(files)
            /\ \A f \in 0 .. Len(files) : f # open[t] => Recs(now, f) = Recs(files, f)
            /\ Recs(now, open[t]) = Recs(files, open[t]) \cup {t}
        BY <1>1, <2>1, Written, SMTT(30)
      <3> HIDE DEF now
      <3>2. files' = now
        BY <2>1 DEF now, WrittenAt
      <3>3. QED
        BY <3>1, <3>2
    <2>3. \A f \in 0 .. Len(files) : Recs(files', f) \subseteq Recs(files, f) \cup {t}
      BY <2>2
    <2>4. QED
      BY <1>1, <1>6, <2>1, <2>2, <2>3
  <1>7. QED
    BY <1>2, <1>3, <1>4, <1>5, <1>6, AppendSteps DEF AppendStep

LEMMA FindInvStep ==
    ASSUME FindInv, [Next]_archiveVars
    PROVE  FindInv'
  <1>1. Shape /\ OnlyDone /\ Shape'
    BY ShapeStep DEF FindInv
  <1>2. ASSUME NEW t \in Traces, AppendStep(t)
        PROVE  FindInv'
    <2>1. /\ writers[t] # "done" /\ lookup' = lookup
          /\ \A u \in Traces \ {t} : writers'[u] = writers[u]
      BY <1>1, <1>2, AppendStepEffect, WritersShape DEF Pending
    <2>2. Write(t) => writers'[t] = "done"
      BY <1>1 DEF Write, Shape
    <2>3. OnlyDone'
      <3>1. ASSUME NEW f \in 0 .. Len(files'), NEW x \in Recs(files', f)
            PROVE  x \in Traces /\ writers'[x] = "done"
        <4>1. CASE f \in 0 .. Len(files) /\ x \in Recs(files, f)
          <5>1. x \in Traces /\ writers[x] = "done"
            BY <1>1, <4>1 DEF OnlyDone
          <5>2. QED
            BY <2>1, <5>1
        <4>2. CASE x = t /\ Write(t)
          BY <2>2, <4>2
        <4>3. QED
          BY <1>1, <1>2, <3>1, <4>1, <4>2, RecordsStep
      <3>2. QED
        BY <3>1 DEF OnlyDone
    <2>4. ASSUME lookup.state # "none", lookup.stored
          PROVE  /\ writers[lookup.trace] = "done" /\ lookup.trace \in Traces
                 /\ lookup.trace # t /\ writers'[lookup.trace] = "done"
      <3>1. writers[lookup.trace] = "done"
        BY <2>4 DEF FindInv
      <3>2. lookup.trace \in Traces
        <4>1. /\ lookup \in {NoLookup} \cup [state : LookupStates, trace : Traces, stored : BOOLEAN]
              /\ lookup # NoLookup
          BY <1>1, <2>4 DEF Shape, NoLookup
        <4>2. QED
          BY <4>1
      <3>3. QED
        BY <2>1, <3>1, <3>2
    <2>5. /\ Recs(files', current') \subseteq Recs(files, current) \cup {t}
          /\ Recs(files', previous') \subseteq
                Recs(files, current) \cup Recs(files, previous) \cup {t}
      BY <1>1, <1>2, RecordsStep
    <2>6. ASSUME lookup.state = "second", lookup.stored
          PROVE  lookup.trace \notin Recs(files', current')
      BY <2>4, <2>5, <2>6 DEF FindInv
    <2>7. ASSUME lookup.state = "missed", lookup.stored
          PROVE  lookup.trace \notin Recs(files', current') \cup Recs(files', previous')
      BY <2>4, <2>5, <2>7 DEF FindInv
    <2>8. QED
      BY <1>1, <2>1, <2>3, <2>4, <2>6, <2>7 DEF FindInv
  <1>3. ASSUME NEW t \in Traces, Find(t)
        PROVE  FindInv'
    <2>1. /\ lookup' = [state |-> "first", trace |-> t, stored |-> t \in Retained]
          /\ UNCHANGED <<files, current, previous, writers>>
      BY <1>3 DEF Find
    <2>2. OnlyDone'
      BY <1>1, <2>1 DEF OnlyDone
    <2>3. current \in 0 .. Len(files) /\ previous \in 0 .. Len(files)
      BY <1>1 DEF Shape
    <2>4. Retained = Recs(files, current) \cup Recs(files, previous)
      BY <1>1, <2>3, SameRecords DEF Retained, Shape
    <2>5. t \in Retained => writers[t] = "done"
      BY <1>1, <2>3, <2>4 DEF OnlyDone
    <2>6. /\ lookup'.state = "first" /\ lookup'.trace = t
          /\ lookup'.stored <=> t \in Retained
      BY <2>1
    <2>7. lookup'.stored => writers'[lookup'.trace] = "done"
      BY <2>1, <2>5, <2>6
    <2>8. QED
      BY <1>1, <2>2, <2>6, <2>7 DEF FindInv
  <1>4. CASE Scan
    <2>1. /\ lookup.state \in {"first", "second"}
          /\ UNCHANGED <<files, current, previous, writers>>
      BY <1>4 DEF Scan
    <2>2. /\ lookup \in [state : LookupStates, trace : Traces, stored : BOOLEAN]
          /\ current \in 0 .. Len(files) /\ previous \in 0 .. Len(files)
      BY <1>1, <2>1 DEF Shape, NoLookup
    <2>3. RecordsOf(current) = Recs(files, current) /\ RecordsOf(previous) = Recs(files, previous)
      BY <1>1, <2>2, SameRecords DEF Shape
    <2>4. OnlyDone'
      BY <1>1, <2>1 DEF OnlyDone
    <2>5. /\ lookup'.trace = lookup.trace
          /\ lookup'.stored = lookup.stored
          /\ lookup'.state = "second" =>
                lookup.state = "first" /\ lookup.trace \notin RecordsOf(current)
          /\ lookup'.state = "missed" =>
                lookup.state = "second" /\ lookup.trace \notin RecordsOf(previous)
      BY <1>4, <2>2 DEF Scan, Looks
    <2>6. lookup.stored => writers[lookup.trace] = "done"
      BY <2>1 DEF FindInv
    <2>7. lookup'.state = "missed" /\ lookup.stored => lookup.trace \notin Recs(files, current)
      BY <2>5 DEF FindInv
    <2>8. QED
      BY <1>1, <2>1, <2>3, <2>4, <2>5, <2>6, <2>7 DEF FindInv
  <1>5. CASE UNCHANGED archiveVars
    <2>1. OnlyDone'
      BY <1>1, <1>5 DEF OnlyDone, archiveVars
    <2>2. QED
      BY <1>1, <1>5, <2>1 DEF FindInv, archiveVars
  <1>6. QED
    BY <1>2, <1>3, <1>4, <1>5 DEF Next, AppendStep

(***************************************************************************)
(* An empty answer of find is right: a trace that was stored when the      *)
(* search began has aged out by its end, and was not missed because a      *)
(* rotation moved it from one file to the other between the two reads.     *)
(* TraceArchive.find reads the current file first and the previous one     *)
(* second, and a rotation moves records only that way.                     *)
(***************************************************************************)
THEOREM FindMisses == ArchiveSpec => []FindMissesNothing
  <1>1. Init => FindInv
    <2> SUFFICES ASSUME Init
                 PROVE  FindInv
      OBVIOUS
    <2>1. Shape
      BY InitShape
    <2>2. OnlyDone
      BY DEF Init, OnlyDone, Recs
    <2>3. lookup.state = "none"
      BY DEF Init, NoLookup
    <2>4. QED
      BY <2>1, <2>2, <2>3 DEF FindInv
  <1>2. FindInv /\ [Next]_archiveVars => FindInv'
    BY FindInvStep
  <1>3. FindInv => FindMissesNothing
    <2> SUFFICES ASSUME FindInv, lookup.state = "missed", lookup.stored
                 PROVE  lookup.trace \notin Retained
      BY DEF FindMissesNothing
    <2>1. /\ current \in 0 .. Len(files) /\ previous \in 0 .. Len(files)
          /\ files \in Seq(Seq(Traces))
      BY DEF FindInv, Shape
    <2>2. Retained = Recs(files, current) \cup Recs(files, previous)
      BY <2>1, SameRecords DEF Retained
    <2>3. QED
      BY <2>2 DEF FindInv
  <1>4. QED
    BY <1>1, <1>2, <1>3, PTL DEF ArchiveSpec

-----------------------------------------------------------------------------
(* Recent evidence. *)

\* An append is in progress when it waits for one of its calls.
LEMMA Progress ==
    /\ \A t \in Traces : t \in InProgress <=> writers[t] \in Pending
    /\ \A t \in Traces : t \in Rotating <=> writers[t] \in {"renaming", "emptying"}
    /\ Rotating \subseteq InProgress /\ InProgress \subseteq Traces
  BY DEF InProgress, Rotating, Pending

\* An append that is in progress is alone with an append that rotates.
LEMMA RotatesAlone ==
    ASSUME Alone, NEW t \in Traces, writers[t] \in Pending,
           NEW u \in Traces, writers[u] \in {"renaming", "emptying"}
    PROVE  t = u
  BY Progress DEF Alone

\* Files that hold what they did keep the latest records.
LEMMA LatestKept ==
    ASSUME Latest, archived' = archived,
           Long(files, current) \in Nat, Long(files', current') \in Nat, Len(archived) \in Nat,
           Long(files', current') <= Long(files, current),
           Long(files', current') = 0 \/ Recs(files, current) \subseteq Recs(files', current'),
           \A i \in DOMAIN archived :
              i > Len(archived) - Long(files', current') - Cap =>
                 archived[i] \in Recs(files', current') \cup Recs(files', previous')
    PROVE  Latest'
  <1>1. ASSUME NEW i \in DOMAIN archived, i > Len(archived) - Long(files', current')
        PROVE  archived[i] \in Recs(files', current')
    <2>1. i <= Len(archived) /\ i \in Nat
      OBVIOUS
    <2>2. Long(files', current') # 0 /\ i > Len(archived) - Long(files, current)
      BY <1>1, <2>1
    <2>3. archived[i] \in Recs(files, current)
      BY <2>2 DEF Latest
    <2>4. QED
      BY <2>2, <2>3
  <1>2. QED
    BY <1>1 DEF Latest

LEMMA StatRecent ==
    ASSUME Shape, Alone, Latest, NEW t \in Traces, Stat(t), ~overlap'
    PROVE  Alone' /\ Latest'
  <1>1. /\ writers[t] = "idle" /\ UNCHANGED <<files, current, previous, open, archived>>
        /\ writers' = [writers EXCEPT ![t] =
              IF t \in TooLarge THEN "dropped"
              ELSE IF NeedsRotation THEN "renaming" ELSE "opening"]
    BY DEF Stat
  <1>2. t \in TooLarge \/ InProgress = {} \/ (~NeedsRotation /\ Rotating = {})
    BY DEF Stat
  <1>3. Latest'
    BY <1>1 DEF Latest
  <1>4. /\ \A u \in Traces \ {t} : writers'[u] = writers[u]
        /\ writers'[t] = IF t \in TooLarge THEN "dropped"
                         ELSE IF NeedsRotation THEN "renaming" ELSE "opening"
    BY <1>1 DEF Shape
  <1>5. /\ NeedsRotation => current # 0 /\ Long(files, current) >= Cap
        /\ Long(files, current) \in Nat
    <2>1. current \in 0 .. Len(files) /\ files \in Seq(Seq(Traces))
      BY DEF Shape
    <2>2. Long(files, current) \in Nat /\ Size(current) = Long(files, current)
      BY <2>1, FileFacts, SameRecords
    <2>3. QED
      BY <2>2, ArchiveAssumption DEF NeedsRotation
  <1>6. \A u \in Traces : writers'[u] = "writing" => open'[u] = current' /\ current' # 0
    BY <1>1, <1>4 DEF Alone
  <1>7. ASSUME NEW u \in Traces, writers'[u] \in {"renaming", "emptying"},
               NEW v \in Traces, writers'[v] \in Pending
        PROVE  u = v
    <2>1. CASE t \in TooLarge
      <3>1. u # t /\ v # t
        BY <1>4, <1>7, <2>1 DEF Pending
      <3>2. QED
        BY <1>4, <1>7, <3>1, RotatesAlone
    <2>2. CASE t \notin TooLarge /\ InProgress = {}
      BY <1>4, <1>7, <2>2, Progress DEF Pending
    <2>3. CASE t \notin TooLarge /\ ~NeedsRotation /\ Rotating = {}
      BY <1>4, <1>7, <2>3, Progress
    <2>4. QED
      BY <1>2, <2>1, <2>2, <2>3
  <1>8. ASSUME NEW u \in Traces
        PROVE  /\ writers'[u] = "renaming" => current' # 0 /\ Long(files', current') >= Cap
               /\ writers'[u] = "emptying" => current' = 0
    BY <1>1, <1>4, <1>5 DEF Alone
  <1>9. Alone'
    BY <1>6, <1>7, <1>8 DEF Alone, InProgress, Rotating
  <1>10. QED
    BY <1>3, <1>9

LEMMA RenameRecent ==
    ASSUME Shape, Alone, Latest, NEW t \in Traces, Rename(t)
    PROVE  Alone' /\ Latest'
  <1>1. current # 0 /\ Long(files, current) >= Cap
    BY DEF Rename, Alone
  <1>2. /\ writers[t] = "renaming" /\ UNCHANGED <<files, open, archived>>
        /\ previous' = current /\ current' = 0
        /\ writers' = [writers EXCEPT ![t] = "emptying"]
    BY <1>1 DEF Rename
  <1>3. writers'[t] = "emptying" /\ \A u \in Traces \ {t} : writers'[u] = writers[u]
    BY <1>2 DEF Shape
  <1>4. \A u \in Traces \ {t} : writers[u] \notin Pending
    BY <1>2, RotatesAlone
  <1>5. Alone'
    <2>1. \A u \in Traces : writers'[u] \in Pending => u = t
      BY <1>3, <1>4
    <2>2. QED
      BY <1>2, <1>3, <2>1 DEF Alone, InProgress, Rotating, Pending
  <1>6. /\ Long(files', current') = 0 /\ Long(files, current) \in Nat
        /\ Len(archived) \in Nat /\ DOMAIN archived = 1 .. Len(archived)
    BY <1>2, FileFacts DEF Long, Shape
  <1>7. ASSUME NEW i \in DOMAIN archived, i > Len(archived) - 0 - Cap
        PROVE  archived[i] \in Recs(files', previous')
    <2>1. i > Len(archived) - Long(files, current)
      BY <1>1, <1>6, <1>7, ArchiveAssumption
    <2>2. QED
      BY <1>2, <2>1 DEF Latest
  <1>8. Latest'
    BY <1>2, <1>6, <1>7, LatestKept
  <1>9. QED
    BY <1>5, <1>8

\* A new current file is empty, and the previous one is as it was.
LEMMA MadeRecent ==
    ASSUME Shape, Latest, FileMade, archived' = archived
    PROVE  Latest'
  <1>1. /\ files \in Seq(Seq(Traces)) /\ previous \in 0 .. Len(files) /\ archived \in Seq(Traces)
        /\ current = 0 /\ Long(files, current) = 0 /\ Recs(files, current) = {}
    BY DEF Shape, FileMade, Long, Recs
  <1>2. /\ Long(files', current') = 0 /\ Recs(files', current') = {}
        /\ Recs(files', previous') = Recs(files, previous)
    BY <1>1, Grown DEF FileMade
  <1>3. QED
    BY <1>1, <1>2, LatestKept DEF Latest

LEMMA EmptyRecent ==
    ASSUME Shape, Alone, Latest, NEW t \in Traces, Empty(t)
    PROVE  Alone' /\ Latest'
  <1>1. current = 0 /\ FileMade /\ archived' = archived /\ open' = open
    BY AppendSteps DEF Alone, Empty, FileEmptied
  <1>2. writers'[t] = "opening" /\ \A u \in Traces \ {t} : writers'[u] = writers[u]
    BY DEF Empty, Shape
  <1>3. \A u \in Traces \ {t} : writers[u] \notin Pending
    BY RotatesAlone DEF Empty
  <1>4. Alone'
    <2>1. \A u \in Traces : writers'[u] \in Pending => u = t
      BY <1>2, <1>3
    <2>2. QED
      BY <1>2, <2>1 DEF Alone, InProgress, Rotating, Pending
  <1>5. QED
    BY <1>1, <1>4, MadeRecent

LEMMA OpenRecent ==
    ASSUME Shape, Alone, Latest, NEW t \in Traces, Open(t)
    PROVE  Alone' /\ Latest'
  <1>1. /\ writers[t] = "opening" /\ archived' = archived
        /\ FileMade \/ (current # 0 /\ FilesKept)
        /\ open' = [open EXCEPT ![t] = current']
    BY AppendSteps
  <1>2. /\ writers'[t] = "writing" /\ \A u \in Traces \ {t} : writers'[u] = writers[u]
        /\ open'[t] = current' /\ \A u \in Traces \ {t} : open'[u] = open[u]
    BY <1>1 DEF Open, Shape
  <1>3. \A u \in Traces : writers[u] \notin {"renaming", "emptying"}
    BY <1>1, RotatesAlone DEF Pending
  <1>4. current' # 0
    BY <1>1 DEF FileMade, FilesKept, Shape
  <1>5. \A u \in Traces \ {t} : writers[u] = "writing" => current' = current
    BY <1>1 DEF Alone, FileMade, FilesKept
  <1>6. \A u \in Traces : writers'[u] = "writing" => open'[u] = current' /\ current' # 0
    BY <1>2, <1>4, <1>5 DEF Alone
  <1>7. \A u \in Traces : writers'[u] \notin {"renaming", "emptying"}
    BY <1>2, <1>3
  <1>8. Alone'
    BY <1>6, <1>7 DEF Alone, Rotating
  <1>9. CASE FileMade
    BY <1>1, <1>8, <1>9, MadeRecent
  <1>10. CASE FilesKept
    BY <1>1, <1>8, <1>10 DEF FilesKept, Latest
  <1>11. QED
    BY <1>1, <1>9, <1>10

LEMMA WriteRecent ==
    ASSUME Shape, Alone, Latest, NEW t \in Traces, Write(t)
    PROVE  Alone' /\ Latest'
  <1>1. /\ writers[t] = "writing" /\ open' = open /\ open[t] = current /\ current # 0
        /\ files' = WrittenAt(files, current, t)
        /\ UNCHANGED <<current, previous>> /\ archived' = Append(archived, t)
    BY DEF Write, Alone, WrittenAt
  <1>2. writers'[t] = "done" /\ \A u \in Traces \ {t} : writers'[u] = writers[u]
    BY DEF Write, Shape
  <1>3. \A u \in Traces : writers[u] \notin {"renaming", "emptying"}
    BY <1>1, RotatesAlone DEF Pending
  <1>4. Alone'
    <2>1. \A u \in Traces : writers'[u] \notin {"renaming", "emptying"}
      BY <1>2, <1>3
    <2>2. \A u \in Traces : writers'[u] = "writing" => open'[u] = current' /\ current' # 0
      BY <1>1, <1>2 DEF Alone
    <2>3. QED
      BY <2>1, <2>2 DEF Alone, Rotating
  <1>5. /\ files \in Seq(Seq(Traces)) /\ archived \in Seq(Traces)
        /\ current \in 1 .. Len(files) /\ previous \in 0 .. Len(files) /\ previous # current
    BY <1>1 DEF Shape
  <1>6. /\ Long(files', current') = Long(files, current) + 1
        /\ Recs(files', current') = Recs(files, current) \cup {t}
        /\ Recs(files', previous') = Recs(files, previous)
    <2> DEFINE now == WrittenAt(files, current, t)
    <2>1. /\ Long(now, current) = Long(files, current) + 1
          /\ Recs(now, current) = Recs(files, current) \cup {t}
          /\ Recs(now, previous) = Recs(files, previous)
      BY <1>5, Written, SMTT(30)
    <2> HIDE DEF now
    <2>2. files' = now /\ current' = current /\ previous' = previous
      BY <1>1 DEF now
    <2>3. QED
      BY <2>1, <2>2
  <1>7. /\ Long(files, current) \in Nat /\ Len(archived) \in Nat /\ Cap \in Nat
        /\ Len(archived') = Len(archived) + 1
        /\ DOMAIN archived = 1 .. Len(archived) /\ DOMAIN archived' = 1 .. Len(archived) + 1
        /\ \A i \in 1 .. Len(archived) : archived'[i] = archived[i]
        /\ archived'[Len(archived) + 1] = t
    BY <1>1, <1>5, FileFacts, ArchiveAssumption
  <1>8. ASSUME NEW i \in DOMAIN archived'
        PROVE  /\ i > Len(archived') - Long(files', current') => archived'[i] \in Recs(files', current')
               /\ i > Len(archived') - Long(files', current') - Cap =>
                     archived'[i] \in Recs(files', current') \cup Recs(files', previous')
    <2>1. /\ Len(archived') - Long(files', current') = Len(archived) - Long(files, current)
          /\ Len(archived') - Long(files', current') - Cap = Len(archived) - Long(files, current) - Cap
      BY <1>6, <1>7
    <2>2. CASE i = Len(archived) + 1
      BY <1>6, <1>7, <2>2
    <2>3. CASE i \in 1 .. Len(archived)
      <3>1. /\ i > Len(archived) - Long(files, current) => archived[i] \in Recs(files, current)
            /\ i > Len(archived) - Long(files, current) - Cap =>
                  archived[i] \in Recs(files, current) \cup Recs(files, previous)
        BY <1>7, <2>3 DEF Latest
      <3>2. archived'[i] = archived[i]
        BY <1>7, <2>3
      <3>3. QED
        BY <1>6, <2>1, <3>1, <3>2
    <2>4. QED
      BY <1>7, <2>2, <2>3
  <1>9. Latest'
    BY <1>8 DEF Latest
  <1>10. QED
    BY <1>4, <1>9

LEMMA FailRecent ==
    ASSUME Shape, Alone, Latest, NEW t \in Traces, Fail(t)
    PROVE  Alone' /\ Latest'
  <1>1. /\ writers[t] \in Pending /\ UNCHANGED <<files, current, previous, open, archived>>
        /\ writers'[t] \in {"opening", "lost"}
        /\ \A u \in Traces \ {t} : writers'[u] = writers[u]
    BY ArchiveAssumption DEF Fail, Shape, Pending
  <1>2. Latest'
    BY <1>1 DEF Latest
  <1>3. \A u \in Traces : writers'[u] \in {"renaming", "emptying", "writing"} =>
                             u # t /\ writers'[u] = writers[u]
    BY <1>1
  <1>4. \A u \in Traces : writers'[u] \in Pending => writers[u] \in Pending
    BY <1>1
  <1>5. ASSUME NEW u \in Traces, writers'[u] \in {"renaming", "emptying"},
               NEW v \in Traces, writers'[v] \in Pending
        PROVE  u = v
    BY <1>3, <1>4, <1>5, RotatesAlone
  <1>6. Alone'
    BY <1>1, <1>3, <1>5 DEF Alone, InProgress, Rotating
  <1>7. QED
    BY <1>2, <1>6

LEMMA RecentInvStep ==
    ASSUME RecentInv, [Next]_archiveVars
    PROVE  RecentInv'
  <1>1. Shape /\ Shape'
    BY ShapeStep DEF RecentInv
  <1> SUFFICES ASSUME ~overlap'
               PROVE  Alone' /\ Latest'
    BY <1>1 DEF RecentInv
  <1>2. ~overlap
    BY DEF Next, Stat, Rename, Empty, Open, Write, Fail, Find, Scan, archiveVars
  <1>3. Alone /\ Latest
    BY <1>2 DEF RecentInv
  <1>4. ASSUME NEW t \in Traces, AppendStep(t)
        PROVE  Alone' /\ Latest'
    <2>1. CASE Stat(t)
      BY <1>1, <1>3, <2>1, StatRecent
    <2>2. CASE Rename(t)
      BY <1>1, <1>3, <2>2, RenameRecent
    <2>3. CASE Empty(t)
      BY <1>1, <1>3, <2>3, EmptyRecent
    <2>4. CASE Open(t)
      BY <1>1, <1>3, <2>4, OpenRecent
    <2>5. CASE Write(t)
      BY <1>1, <1>3, <2>5, WriteRecent
    <2>6. CASE Fail(t)
      BY <1>1, <1>3, <2>6, FailRecent
    <2>7. QED
      BY <1>4, <2>1, <2>2, <2>3, <2>4, <2>5, <2>6 DEF AppendStep
  <1>5. CASE UNCHANGED <<files, current, previous, writers, open, archived>>
    <2>1. Alone'
      BY <1>3, <1>5 DEF Alone, InProgress, Rotating
    <2>2. Latest'
      BY <1>3, <1>5 DEF Latest
    <2>3. QED
      BY <2>1, <2>2
  <1>6. QED
    BY <1>4, <1>5 DEF Next, AppendStep, Find, Scan, archiveVars

(***************************************************************************)
(* A rotation does not lose recent evidence, as long as no rotation has run*)
(* together with another append: the last Cap traces written are in one of *)
(* the two files, whatever appends overlapped otherwise and whichever of   *)
(* their calls the file system refused.  TraceArchive.append rotates only a*)
(* file that holds Cap records.                                            *)
(***************************************************************************)
THEOREM RecentKept == ArchiveSpec => []RecentEvidenceKept
  <1>1. Init => RecentInv
    <2> SUFFICES ASSUME Init
                 PROVE  RecentInv
      OBVIOUS
    <2>1. Shape
      BY InitShape
    <2>2. Alone
      BY DEF Init, Alone, Rotating
    <2>3. Latest
      <3>1. DOMAIN archived = {}
        BY DEF Init
      <3>2. QED
        BY <3>1 DEF Latest
    <2>4. QED
      BY <2>1, <2>2, <2>3 DEF RecentInv
  <1>2. RecentInv /\ [Next]_archiveVars => RecentInv'
    BY RecentInvStep
  <1>3. RecentInv => RecentEvidenceKept
    <2> SUFFICES ASSUME RecentInv, ~overlap, NEW i \in DOMAIN archived,
                        i > Len(archived) - Cap
                 PROVE  archived[i] \in Retained
      BY DEF RecentEvidenceKept
    <2>1. /\ current \in 0 .. Len(files) /\ previous \in 0 .. Len(files)
          /\ files \in Seq(Seq(Traces)) /\ archived \in Seq(Traces)
      BY DEF RecentInv, Shape
    <2>2. /\ Retained = Recs(files, current) \cup Recs(files, previous)
          /\ Long(files, current) \in Nat
      BY <2>1, SameRecords, FileFacts DEF Retained
    <2>3. i \in Nat /\ Len(archived) \in Nat /\ Cap \in Nat
      BY <2>1, ArchiveAssumption
    <2>4. i > Len(archived) - Long(files, current) - Cap
      BY <2>2, <2>3
    <2>5. QED
      BY <2>2, <2>4 DEF RecentInv, Latest
  <1>4. QED
    BY <1>1, <1>2, <1>3, PTL DEF ArchiveSpec

-----------------------------------------------------------------------------
(* The size of the two files. *)

LEMMA Counted ==
    ASSUME NEW S, IsFiniteSet(S), NEW T, T \subseteq S
    PROVE  /\ IsFiniteSet(T) /\ Cardinality(T) \in Nat /\ Cardinality(S) \in Nat
           /\ Cardinality(T) <= Cardinality(S)
  BY FS_Subset, FS_CardinalityType

LEMMA Members ==
    /\ \A t : t \in InProgress <=> t \in Traces /\ writers[t] \in Pending
    /\ \A t : t \in Filling <=>
                 /\ t \in Traces
                 /\ writers[t] \in {"emptying", "opening"} \/ (writers[t] = "writing" /\ open[t] = current)
    /\ \A t : t \in Heading <=> t \in Traces /\ writers[t] = "writing" /\ open[t] = previous
    /\ Filling \subseteq InProgress /\ Heading \subseteq InProgress
  BY DEF InProgress, Filling, Heading, Pending

\* The appends in progress are those that were, at most with the one that is
\* called now, and never more than MaxWriters.
LEMMA InProgressStep ==
    ASSUME BoundInv, NEW t \in Traces, AppendStep(t), Shape'
    PROVE  /\ IsFiniteSet(InProgress') /\ Cardinality(InProgress') <= MaxWriters
           /\ ~Stat(t) => InProgress' \subseteq InProgress
  <1>1. /\ IsFiniteSet(InProgress) /\ Cardinality(InProgress) <= MaxWriters /\ MaxWriters \in Nat
        /\ Cardinality(InProgress) \in Nat
    BY ArchiveAssumption, FS_CardinalityType DEF BoundInv
  <1>2. \A u \in Traces \ {t} : writers'[u] = writers[u]
    BY AppendStepEffect, WritersShape DEF BoundInv
  <1>3. CASE Stat(t)
    <2>1. InProgress' \subseteq InProgress \cup {t} /\ t \notin InProgress
      BY <1>2, <1>3 DEF InProgress, Stat, Pending
    <2>2. Cardinality(InProgress) < MaxWriters
      BY <1>3 DEF Stat
    <2>3. /\ IsFiniteSet(InProgress \cup {t})
          /\ Cardinality(InProgress \cup {t}) = Cardinality(InProgress) + 1
      BY <1>1, <2>1, FS_AddElement
    <2>4. /\ IsFiniteSet(InProgress') /\ Cardinality(InProgress') \in Nat
          /\ Cardinality(InProgress') <= Cardinality(InProgress) + 1
      BY <2>1, <2>3, Counted
    <2>5. QED
      BY <1>1, <1>3, <2>2, <2>4
  <1>4. CASE ~Stat(t)
    <2>1. writers[t] \in Pending
      BY <1>4, ArchiveAssumption DEF AppendStep, Rename, Empty, Open, Write, Fail, Pending
    <2>2. InProgress' \subseteq InProgress
      BY <1>2, <2>1 DEF InProgress
    <2>3. QED
      BY <1>1, <2>2, Counted
  <1>5. QED
    BY <1>3, <1>4

\* A current file with room for all the appends there can be.
LEMMA RoomForAll ==
    ASSUME IsFiniteSet(InProgress'), Cardinality(InProgress') <= MaxWriters,
           Long(files', current') \in Nat, Long(files', current') <= Cap - 1
    PROVE  Long(files', current') + Cardinality(Filling') <= Limit
  <1>1. Filling' \subseteq InProgress'
    BY DEF InProgress, Filling, Pending
  <1>2. /\ Cardinality(Filling') \in Nat /\ Cardinality(InProgress') \in Nat
        /\ Cardinality(Filling') <= Cardinality(InProgress')
    BY <1>1, Counted
  <1>3. QED
    BY <1>2, ArchiveAssumption DEF Limit

\* A file that is as it was, and no append more that may fill it.
LEMMA StillRoom ==
    ASSUME NEW S, IsFiniteSet(S), NEW T, T \subseteq S, NEW n \in Nat, NEW m \in Nat, m <= n,
           n + Cardinality(S) <= Limit
    PROVE  m + Cardinality(T) <= Limit
  <1>1. /\ Cardinality(T) \in Nat /\ Cardinality(S) \in Nat
        /\ Cardinality(T) <= Cardinality(S)
    BY Counted
  <1>2. Limit \in Int
    BY ArchiveAssumption DEF Limit
  <1>3. QED
    BY <1>1, <1>2

\* One append less, and one record more.
LEMMA RoomTaken ==
    ASSUME NEW S, IsFiniteSet(S), NEW t \in S, NEW T, T \subseteq S \ {t}, NEW n \in Nat,
           n + Cardinality(S) <= Limit
    PROVE  n + 1 + Cardinality(T) <= Limit
  <1>1. /\ IsFiniteSet(S \ {t}) /\ Cardinality(S \ {t}) = Cardinality(S) - 1
        /\ Cardinality(S) \in Nat
    BY FS_RemoveElement, FS_CardinalityType
  <1>2. Cardinality(T) \in Nat /\ Cardinality(T) <= Cardinality(S \ {t})
    BY <1>1, Counted
  <1>3. Limit \in Int
    BY ArchiveAssumption DEF Limit
  <1>4. QED
    BY <1>1, <1>2, <1>3

LEMMA BoundInvStep ==
    ASSUME "renaming" \notin Refused, BoundInv, [Next]_archiveVars
    PROVE  BoundInv'
  <1>1. /\ Shape /\ Shape'
        /\ IsFiniteSet(InProgress) /\ Cardinality(InProgress) <= MaxWriters
        /\ Long(files, current) + Cardinality(Filling) <= Limit
        /\ Long(files, previous) + Cardinality(Heading) <= Limit
    BY ShapeStep DEF BoundInv
  <1>2. /\ IsFiniteSet(Filling) /\ IsFiniteSet(Heading)
    BY <1>1, Counted, Members
  <1>3. /\ files \in Seq(Seq(Traces)) /\ Len(files) \in Nat
        /\ current \in 0 .. Len(files) /\ previous \in 0 .. Len(files)
        /\ current = previous => current = 0
        /\ Long(files, current) \in Nat /\ Long(files, previous) \in Nat
        /\ Cap \in Nat /\ Cap >= 1
    BY <1>1, FileFacts, ArchiveAssumption DEF Shape
  <1>4. ASSUME NEW t \in Traces, AppendStep(t)
        PROVE  BoundInv'
    <2>1. /\ IsFiniteSet(InProgress') /\ Cardinality(InProgress') <= MaxWriters
          /\ ~Stat(t) => InProgress' \subseteq InProgress
      BY <1>1, <1>4, InProgressStep
    <2>2. /\ \A u \in Traces \ {t} : writers'[u] = writers[u]
          /\ writers' \in [Traces -> WriterStates]
      BY <1>1, <1>4, AppendStepEffect, WritersShape
    <2> SUFFICES /\ Long(files', current') + Cardinality(Filling') <= Limit
                 /\ Long(files', previous') + Cardinality(Heading') <= Limit
      BY <1>1, <2>1 DEF BoundInv
    <2>3. CASE Stat(t)
      <3>1. /\ writers[t] = "idle" /\ UNCHANGED <<files, current, previous, open>>
            /\ writers'[t] \in {"dropped", "renaming", "opening"}
            /\ writers'[t] = "opening" => ~NeedsRotation
        BY <1>1, <2>3 DEF Stat, Shape
      <3>2. Heading' \subseteq Heading
        BY <2>2, <3>1 DEF Heading
      <3>3. Long(files', previous') + Cardinality(Heading') <= Limit
        BY <1>1, <1>2, <1>3, <3>1, <3>2, StillRoom
      <3>4. CASE writers'[t] = "opening"
        <4>1. Long(files, current) <= Cap - 1
          <5>1. current # 0 => Size(current) + 1 <= Cap
            <6>1. Size(current) = Long(files, current)
              BY <1>3, SameRecords
            <6>2. QED
              BY <1>3, <3>1, <3>4, <6>1 DEF NeedsRotation
          <5>2. QED
            BY <1>3, <5>1, SameRecords DEF Long
        <4>2. QED
          BY <1>3, <2>1, <3>1, <3>3, <4>1, RoomForAll
      <3>5. CASE writers'[t] # "opening"
        <4>1. Filling' \subseteq Filling
          BY <2>2, <3>1, <3>5 DEF Filling
        <4>2. Long(files, current) + Cardinality(Filling') <= Limit
          BY <1>1, <1>2, <1>3, <4>1, StillRoom
        <4>4. Long(files', current') + Cardinality(Filling') <= Limit
          BY <3>1, <4>2
        <4>3. QED
          BY <3>3, <4>4
      <3>6. QED
        BY <3>4, <3>5
    <2>4. CASE Rename(t) /\ current # 0
      <3>1. /\ files' = files /\ previous' = current /\ current' = 0 /\ open' = open
            /\ writers'[t] = "emptying"
        BY <1>1, <2>4 DEF Rename, Shape
      <3>2. Heading' \subseteq Filling
        BY <2>2, <3>1 DEF Heading, Filling
      <3>3. Long(files', previous') + Cardinality(Heading') <= Limit
        <4>1. Long(files, current) + Cardinality(Heading') <= Limit
          BY <1>1, <1>2, <1>3, <3>2, StillRoom
        <4>2. QED
          BY <3>1, <4>1
      <3>4. Long(files', current') = 0
        BY <3>1 DEF Long
      <3>5. QED
        BY <1>3, <2>1, <3>3, <3>4, RoomForAll
    <2>5. CASE Rename(t) /\ current = 0
      <3>1. UNCHANGED <<files, current, previous, open>> /\ writers'[t] = "opening"
        BY <1>1, <2>5 DEF Rename, Shape
      <3>2. Heading' \subseteq Heading
        BY <2>2, <3>1 DEF Heading
      <3>3. Long(files', previous') + Cardinality(Heading') <= Limit
        BY <1>1, <1>2, <1>3, <3>1, <3>2, StillRoom
      <3>4. Long(files', current') = 0
        BY <2>5, <3>1 DEF Long
      <3>5. QED
        BY <1>3, <2>1, <3>3, <3>4, RoomForAll
    <2>6. ASSUME FileMade, \A u \in Traces \ {t} : open'[u] = open[u],
                 writers'[t] = "opening" \/ open'[t] = current'
          PROVE  /\ Long(files', current') + Cardinality(Filling') <= Limit
                 /\ Long(files', previous') + Cardinality(Heading') <= Limit
      <3>1. /\ current = 0 /\ current' = Len(files) + 1 /\ previous' = previous
            /\ files' = Append(files, <<>>)
        BY <2>6 DEF FileMade
      <3>2. /\ Long(files', current') = 0
            /\ Long(files', previous') = Long(files, previous)
        BY <1>3, <3>1, Grown
      <3>3. current' # previous'
        BY <1>3, <3>1
      <3>4. Heading' \subseteq Heading
        BY <2>2, <2>6, <3>1, <3>3 DEF Heading
      <3>5. Long(files', previous') + Cardinality(Heading') <= Limit
        BY <1>1, <1>2, <1>3, <3>2, <3>4, StillRoom
      <3>6. QED
        BY <1>3, <2>1, <3>2, <3>5, RoomForAll
    <2>7. CASE Empty(t)
      <3>1. /\ open' = open /\ writers'[t] = "opening"
            /\ FileMade \/ FileEmptied
        BY <1>1, <2>7, AppendSteps DEF Empty, Shape
      <3>2. CASE FileMade
        BY <2>6, <3>1, <3>2
      <3>3. CASE FileEmptied
        <4>1. /\ current \in 1 .. Len(files) /\ current' = current /\ previous' = previous
              /\ files' = EmptiedAt(files, current) /\ previous # current
          BY <1>3, <3>3 DEF FileEmptied, EmptiedAt
        <4>2. Long(files', current') = 0 /\ Long(files', previous') = Long(files, previous)
          <5> DEFINE now == EmptiedAt(files, current)
          <5>1. Long(now, current) = 0 /\ Long(now, previous) = Long(files, previous)
            BY <1>3, <4>1, Emptied
          <5> HIDE DEF now
          <5>2. files' = now
            BY <4>1 DEF now
          <5>3. QED
            BY <4>1, <5>1, <5>2
        <4>3. Heading' \subseteq Heading
          BY <2>2, <3>1, <4>1 DEF Heading
        <4>4. Long(files', previous') + Cardinality(Heading') <= Limit
          BY <1>1, <1>2, <1>3, <4>2, <4>3, StillRoom
        <4>5. QED
          BY <1>3, <2>1, <4>2, <4>4, RoomForAll
      <3>4. QED
        BY <3>1, <3>2, <3>3
    <2>8. CASE Open(t)
      <3>1. /\ writers[t] = "opening" /\ writers'[t] = "writing"
            /\ FileMade \/ (current # 0 /\ FilesKept)
            /\ open'[t] = current' /\ \A u \in Traces \ {t} : open'[u] = open[u]
        BY <1>1, <2>8, AppendSteps DEF Open, Shape
      <3>2. CASE FileMade
        BY <2>6, <3>1, <3>2
      <3>3. CASE current # 0 /\ FilesKept
        <4>1. UNCHANGED <<files, current, previous>> /\ current # previous
          BY <1>3, <3>3 DEF FilesKept
        <4>2. Filling' \subseteq Filling
          BY <2>2, <3>1, <4>1 DEF Filling
        <4>3. Heading' \subseteq Heading
          BY <2>2, <3>1, <4>1 DEF Heading
        <4>4. Long(files', current') + Cardinality(Filling') <= Limit
          BY <1>1, <1>2, <1>3, <4>1, <4>2, StillRoom
        <4>5. Long(files', previous') + Cardinality(Heading') <= Limit
          BY <1>1, <1>2, <1>3, <4>1, <4>3, StillRoom
        <4>6. QED
          BY <4>4, <4>5
      <3>4. QED
        BY <3>1, <3>2, <3>3
    <2>9. CASE Write(t)
      <3>1. /\ writers[t] = "writing" /\ writers'[t] = "done"
            /\ UNCHANGED <<current, previous, open>>
            /\ open[t] \in 1 .. Len(files) /\ files' = WrittenAt(files, open[t], t)
        BY <1>1, <2>9 DEF Write, Shape, WrittenAt
      <3>2. /\ Long(files', open[t]) = Long(files, open[t]) + 1
            /\ \A f \in 0 .. Len(files) : f # open[t] => Long(files', f) = Long(files, f)
        <4> DEFINE now == WrittenAt(files, open[t], t)
        <4>1. /\ Long(now, open[t]) = Long(files, open[t]) + 1
              /\ \A f \in 0 .. Len(files) : f # open[t] => Long(now, f) = Long(files, f)
          BY <1>3, <3>1, Written
        <4> HIDE DEF now
        <4>2. files' = now
          BY <3>1 DEF now
        <4>3. QED
          BY <4>1, <4>2
      <3>3. Filling' \subseteq Filling \ {t} /\ Heading' \subseteq Heading \ {t}
        BY <2>2, <3>1 DEF Filling, Heading
      <3>4. Long(files', current') + Cardinality(Filling') <= Limit
        <4>1. CASE open[t] = current
          <5>1. t \in Filling
            BY <3>1, <4>1 DEF Filling
          <5>2. Long(files, current) + 1 + Cardinality(Filling') <= Limit
            BY <1>1, <1>2, <1>3, <3>3, <5>1, RoomTaken
          <5>3. QED
            BY <3>1, <3>2, <4>1, <5>2
        <4>2. CASE open[t] # current
          <5>1. Filling' \subseteq Filling /\ Long(files', current') = Long(files, current)
            BY <1>3, <3>1, <3>2, <3>3, <4>2
          <5>2. Long(files, current) + Cardinality(Filling') <= Limit
            BY <1>1, <1>2, <1>3, <5>1, StillRoom
          <5>3. QED
            BY <5>1, <5>2
        <4>3. QED
          BY <4>1, <4>2
      <3>5. Long(files', previous') + Cardinality(Heading') <= Limit
        <4>1. CASE open[t] = previous
          <5>1. t \in Heading
            BY <3>1, <4>1 DEF Heading
          <5>2. Long(files, previous) + 1 + Cardinality(Heading') <= Limit
            BY <1>1, <1>2, <1>3, <3>3, <5>1, RoomTaken
          <5>3. QED
            BY <3>1, <3>2, <4>1, <5>2
        <4>2. CASE open[t] # previous
          <5>1. Heading' \subseteq Heading /\ Long(files', previous') = Long(files, previous)
            BY <1>3, <3>1, <3>2, <3>3, <4>2
          <5>2. Long(files, previous) + Cardinality(Heading') <= Limit
            BY <1>1, <1>2, <1>3, <5>1, StillRoom
          <5>3. QED
            BY <5>1, <5>2
        <4>3. QED
          BY <4>1, <4>2
      <3>6. QED
        BY <3>4, <3>5
    <2>10. CASE Fail(t)
      <3>1. /\ writers[t] \in {"emptying", "opening", "writing"}
            /\ UNCHANGED <<files, current, previous, open>>
            /\ writers'[t] = IF writers[t] = "emptying" THEN "opening" ELSE "lost"
        BY <1>1, <2>10, ArchiveAssumption DEF Fail, Shape
      <3>2. Filling' \subseteq Filling /\ Heading' \subseteq Heading
        BY <2>2, <3>1 DEF Filling, Heading
      <3>3. Long(files', current') + Cardinality(Filling') <= Limit
        <4>1. Long(files, current) + Cardinality(Filling') <= Limit
          BY <1>1, <1>2, <1>3, <3>2, StillRoom
        <4>2. QED
          BY <3>1, <4>1
      <3>4. Long(files', previous') + Cardinality(Heading') <= Limit
        <4>1. Long(files, previous) + Cardinality(Heading') <= Limit
          BY <1>1, <1>2, <1>3, <3>2, StillRoom
        <4>2. QED
          BY <3>1, <4>1
      <3>5. QED
        BY <3>3, <3>4
    <2>11. QED
      BY <1>4, <2>3, <2>4, <2>5, <2>7, <2>8, <2>9, <2>10 DEF AppendStep
  <1>5. CASE UNCHANGED <<files, current, previous, writers, open>>
    <2>1. InProgress' = InProgress /\ Filling' = Filling /\ Heading' = Heading
      BY <1>5 DEF InProgress, Filling, Heading
    <2>2. QED
      BY <1>1, <1>5, <2>1 DEF BoundInv
  <1>6. QED
    BY <1>4, <1>5 DEF Next, AppendStep, Find, Scan, archiveVars

(***************************************************************************)
(* The shape of the state, and the bound of the archive: where renames     *)
(* succeed, neither file ever holds more records over its cap than there   *)
(* can be other appends in progress when one writes.  Each of them may have*)
(* compared the size of the file with its cap before the others wrote.     *)
(***************************************************************************)
THEOREM ArchiveTypeCorrect == "renaming" \notin Refused => (ArchiveSpec => []ArchiveTypeOK)
  <1> SUFFICES ASSUME "renaming" \notin Refused
               PROVE  ArchiveSpec => []ArchiveTypeOK
    OBVIOUS
  <1>1. Init => BoundInv
    <2> SUFFICES ASSUME Init
                 PROVE  BoundInv
      OBVIOUS
    <2>1. Shape
      BY InitShape
    <2>2. InProgress = {} /\ Filling = {} /\ Heading = {}
      BY DEF Init, InProgress, Filling, Heading, Pending
    <2>3. Long(files, current) = 0 /\ Long(files, previous) = 0
      BY DEF Init, Long
    <2>4. IsFiniteSet({}) /\ Cardinality({}) = 0
      BY FS_EmptySet
    <2>5. QED
      BY <2>1, <2>2, <2>3, <2>4, ArchiveAssumption DEF BoundInv, Limit
  <1>2. BoundInv /\ [Next]_archiveVars => BoundInv'
    BY BoundInvStep
  <1>3. BoundInv => ArchiveTypeOK
    <2> SUFFICES ASSUME BoundInv
                 PROVE  ArchiveTypeOK
      OBVIOUS
    <2>1. /\ current \in 0 .. Len(files) /\ previous \in 0 .. Len(files)
          /\ files \in Seq(Seq(Traces))
      BY DEF BoundInv, Shape
    <2>2. /\ Size(current) = Long(files, current) /\ Size(previous) = Long(files, previous)
          /\ Long(files, current) \in Nat /\ Long(files, previous) \in Nat
      BY <2>1, SameRecords, FileFacts
    <2>3. Cardinality(Filling) \in Nat /\ Cardinality(Heading) \in Nat
      BY Counted, Members DEF BoundInv
    <2>4. Size(current) <= Limit /\ Size(previous) <= Limit
      BY <2>2, <2>3, ArchiveAssumption DEF BoundInv, Limit
    <2>5. QED
      BY <2>4 DEF ArchiveTypeOK, BoundInv, Shape, Limit
  <1>4. QED
    BY <1>1, <1>2, <1>3, PTL DEF ArchiveSpec

=============================================================================
