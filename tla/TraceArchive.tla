---------------------------- MODULE TraceArchive ----------------------------
(***************************************************************************)
(* The archive of finished traces (warden/trace-archive.ts): a file of one *)
(* record per line, rotated into one previous generation when the next     *)
(* record would take it over its cap.  WardenRunner appends the trace of   *)
(* every finished Run, and nothing orders the appends of different Agents; *)
(* a reader looks a trace up while they go on.                             *)
(*                                                                         *)
(* Every await is a system call, and a step here.  A path names a file, and*)
(* an open file stays the same file when its path is renamed, so files are *)
(* numbered in the order they are created.  Records have the same size,    *)
(* except those too large to archive.                                      *)
(***************************************************************************)
EXTENDS Integers, Sequences, FiniteSets

CONSTANTS
    Traces,     \* the finished traces
    TooLarge,   \* those of them over maxRecordBytes
    Cap,        \* maxBytes, in records
    Refused,    \* the calls of an append the file system may refuse
    MaxWriters  \* bound: appends in progress at one time

ASSUME ArchiveAssumption ==
    /\ TooLarge \subseteq Traces
    /\ Cap \in Nat \ {0} /\ MaxWriters \in Nat \ {0}
    /\ Refused \subseteq {"renaming", "emptying", "opening", "writing"}

VARIABLES
    files,    \* the contents of every file ever created
    current,  \* the file at filePath, or 0
    previous, \* the file at filePath + ".1", or 0
    writers,  \* trace -> where its append call stands
    open,     \* trace -> the file its append has opened
    archived, \* the traces written, in that order
    overlap,  \* history: a rotation has run together with another append
    lookup    \* the find call of the reader, and whether its trace was there

archiveVars == <<files, current, previous, writers, open, archived, overlap,
                 lookup>>

-----------------------------------------------------------------------------
Pending == {"renaming", "emptying", "opening", "writing"}
WriterStates == Pending \cup {"idle", "done", "dropped", "lost"}
NoLookup == [state |-> "none"]

RecordsOf(file) ==
    IF file = 0 THEN {} ELSE {files[file][i] : i \in DOMAIN files[file]}

Size(file) == IF file = 0 THEN 0 ELSE Len(files[file])

Retained == RecordsOf(current) \cup RecordsOf(previous)

InProgress == {t \in Traces : writers[t] \in Pending}
Rotating == {t \in Traces : writers[t] \in {"renaming", "emptying"}}

-----------------------------------------------------------------------------
Init ==
    /\ files = <<>>
    /\ current = 0 /\ previous = 0
    /\ writers = [t \in Traces |-> "idle"]
    /\ open = [t \in Traces |-> 0]
    /\ archived = <<>>
    /\ overlap = FALSE
    /\ lookup = NoLookup

\* Mutant of NeedsRotation: the record to come is not counted.
MutantNeedsRotationLate == current # 0 /\ Size(current) > Cap

\* A missing file needs no rotation.
NeedsRotation == current # 0 /\ Size(current) + 1 > Cap

\* An append is called; after mkdir, stat settles whether to rotate first.
Stat(t) ==
    /\ writers[t] = "idle"
    /\ Cardinality(InProgress) < MaxWriters
    /\ writers' = [writers EXCEPT ![t] =
           IF t \in TooLarge THEN "dropped"
           ELSE IF NeedsRotation THEN "renaming" ELSE "opening"]
    /\ overlap' = (overlap \/ (t \notin TooLarge /\ InProgress # {}
                                 /\ (NeedsRotation \/ Rotating # {})))
    /\ UNCHANGED <<files, current, previous, open, archived, lookup>>

\* Mutant of Rename: the previous generation is kept, the current one dropped.
MutantRenameDropsCurrent(t) ==
    /\ writers[t] = "renaming"
    /\ current' = 0
    /\ writers' = [writers EXCEPT ![t] = "emptying"]
    /\ UNCHANGED <<overlap, files, previous, open, archived, lookup>>

\* Mutant of Rename: the current file is linked, not moved.
MutantRenameLinks(t) ==
    /\ writers[t] = "renaming"
    /\ previous' = current
    /\ writers' = [writers EXCEPT ![t] = "emptying"]
    /\ UNCHANGED <<overlap, files, current, open, archived, lookup>>

\* The current file replaces the previous one.  A rename that fails, because
\* another append has just made it, leaves the append to go on.
Rename(t) ==
    /\ writers[t] = "renaming"
    /\ IF current # 0
       THEN /\ previous' = current
            /\ current' = 0
            /\ writers' = [writers EXCEPT ![t] = "emptying"]
       ELSE /\ writers' = [writers EXCEPT ![t] = "opening"]
            /\ UNCHANGED <<current, previous>>
    /\ UNCHANGED <<overlap, files, open, archived, lookup>>

\* writeFile with an empty string: creates the file, or empties the one there.
Empty(t) ==
    /\ writers[t] = "emptying"
    /\ IF current = 0
       THEN files' = Append(files, <<>>) /\ current' = Len(files) + 1
       ELSE files' = [files EXCEPT ![current] = <<>>] /\ UNCHANGED current
    /\ writers' = [writers EXCEPT ![t] = "opening"]
    /\ UNCHANGED <<overlap, previous, open, archived, lookup>>

\* appendFile opens the file, creating it if it is missing, then writes.
Open(t) ==
    /\ writers[t] = "opening"
    /\ IF current = 0
       THEN files' = Append(files, <<>>) /\ current' = Len(files) + 1
       ELSE UNCHANGED <<files, current>>
    /\ open' = [open EXCEPT ![t] = current']
    /\ writers' = [writers EXCEPT ![t] = "writing"]
    /\ UNCHANGED <<overlap, previous, archived, lookup>>

Write(t) ==
    /\ writers[t] = "writing"
    /\ files' = [files EXCEPT ![open[t]] = Append(@, t)]
    /\ archived' = Append(archived, t)
    /\ writers' = [writers EXCEPT ![t] = "done"]
    /\ UNCHANGED <<overlap, current, previous, open, lookup>>

\* A call of an append is refused: if it belongs to the rotation the append
\* goes on without it, otherwise the trace is given up (WardenRunner swallows
\* the error).
Fail(t) ==
    /\ writers[t] \in Refused
    /\ writers' = [writers EXCEPT ![t] =
           IF @ \in {"renaming", "emptying"} THEN "opening" ELSE "lost"]
    /\ UNCHANGED <<overlap, files, current, previous, open, archived, lookup>>

-----------------------------------------------------------------------------
\* find: the current file first, then the previous one.
Find(t) ==
    /\ lookup.state \in {"none", "found", "missed"}
    /\ lookup' = [state |-> "first", trace |-> t, stored |-> t \in Retained]
    /\ UNCHANGED <<overlap, files, current, previous, writers, open, archived>>

\* Mutant of Looks: the order in which list reads the two files.
MutantLooksBackwards(state) == IF state = "first" THEN previous ELSE current

Looks(state) == IF state = "first" THEN current ELSE previous

Scan ==
    /\ lookup.state \in {"first", "second"}
    /\ lookup' = [lookup EXCEPT !.state =
           IF lookup.trace \in RecordsOf(Looks(@)) THEN "found"
           ELSE IF @ = "first" THEN "second" ELSE "missed"]
    /\ UNCHANGED <<overlap, files, current, previous, writers, open, archived>>

Next ==
    \/ \E t \in Traces : \/ Stat(t) \/ Rename(t) \/ Empty(t) \/ Open(t)
                         \/ Write(t) \/ Fail(t) \/ Find(t)
    \/ Scan

ArchiveSpec == Init /\ [][Next]_archiveVars

-----------------------------------------------------------------------------
(***************************************************************************)
(* The shape of the state, that the two paths never name one file, and that*)
(* the archive is bounded: as long as renames succeed, appends that run    *)
(* together can each pass the size test of the others, but neither         *)
(* generation ever holds more than one record per such append over its cap.*)
(***************************************************************************)
ArchiveTypeOK ==
    /\ files \in Seq(Seq(Traces))
    /\ {current, previous} \subseteq 0 .. Len(files)
    /\ current = previous => current = 0
    /\ writers \in [Traces -> WriterStates]
    /\ open \in [Traces -> 0 .. Len(files)]
    /\ overlap \in BOOLEAN
    /\ Size(current) <= Cap + MaxWriters - 1
    /\ Size(previous) <= Cap + MaxWriters - 1

(***************************************************************************)
(* One previous generation is kept, "so a rotation does not lose recent    *)
(* evidence" (trace-archive.test.ts): as long as no rotation has run       *)
(* together with another append, the last Cap traces written can be read   *)
(* back, whatever appends overlapped otherwise and whichever call of them  *)
(* was refused.                                                            *)
(***************************************************************************)
RecentEvidenceKept ==
    ~overlap => \A i \in DOMAIN archived :
                   i > Len(archived) - Cap => archived[i] \in Retained

(***************************************************************************)
(* A find that comes back empty is right: if the trace was there when the  *)
(* search began, it has aged out, and was not missed because a rotation    *)
(* moved it from one file to the other between the two reads.              *)
(***************************************************************************)
FindMissesNothing ==
    lookup.state = "missed" /\ lookup.stored => lookup.trace \notin Retained

=============================================================================
