------------------------------ MODULE JsonStore ------------------------------
(***************************************************************************)
(* JsonStore (store.ts): one JSON document in memory and in a file that is *)
(* replaced by writing a temporary file and renaming it.  Mutations queue; *)
(* each works on a clone of the document, which is written before it is    *)
(* published.  A document is the sequence of the mutations it contains.    *)
(***************************************************************************)
EXTENDS Integers, Sequences

CONSTANTS
    Mutations,   \* calls of mutate
    Absent,      \* no such file
    Torn         \* a file of which not all was written

ASSUME FilesAssumption ==
    /\ Absent \notin Seq(Mutations) /\ Torn \notin Seq(Mutations)
    /\ Absent # Torn

VARIABLES
    data,     \* the document in memory
    file,     \* the contents of filePath
    tmp,      \* the contents of filePath + ".tmp"
    queue,    \* the calls of mutate that have not settled, oldest first
    phase,    \* where the process and the mutation at the head stand
    answers   \* mutation -> what its caller has been told

vars == <<data, file, tmp, queue, phase, answers>>

-----------------------------------------------------------------------------
\* The clone the head of the queue has changed.
NextDocument == Append(data, queue[1])

Init ==
    /\ data = <<>> /\ file = Absent /\ tmp = Absent
    /\ queue = <<>> /\ phase = "down"
    /\ answers = [m \in Mutations |-> "none"]

\* initialize is awaited before any call of mutate is possible.
Starting == {"down", "creating", "created"}

\* initialize: read the file; if there is none, write an empty document the way
\* any other is written.  A file that does not parse, or a document that cannot
\* be written, keeps the process from starting.
Initialize ==
    /\ phase = "down"
    /\ file # Torn
    /\ IF file = Absent
       THEN tmp' = Torn /\ phase' = "creating" /\ UNCHANGED data
       ELSE data' = file /\ phase' = "idle" /\ UNCHANGED tmp
    /\ UNCHANGED <<file, queue, answers>>

EmptyWritten ==
    /\ phase = "creating"
    /\ tmp' = data
    /\ phase' = "created"
    /\ UNCHANGED <<data, file, queue, answers>>

EmptyRenamed ==
    /\ phase = "created"
    /\ file' = tmp
    /\ tmp' = Absent
    /\ phase' = "idle"
    /\ UNCHANGED <<data, queue, answers>>

Mutate(m) ==
    /\ phase \notin Starting
    /\ answers[m] = "none"
    /\ answers' = [answers EXCEPT ![m] = "pending"]
    /\ queue' = Append(queue, m)
    /\ UNCHANGED <<data, file, tmp, phase>>

\* The mutation at the head has settled; its rejection is kept from the queue.
Settle(answer) ==
    /\ answers' = [answers EXCEPT ![queue[1]] = answer]
    /\ queue' = Tail(queue)
    /\ phase' = "idle"

\* Mutant of Begin: the document is written in place.
MutantBeginInPlace ==
    /\ phase = "idle" /\ queue # <<>>
    /\ file' = Torn /\ phase' = "writing"
    /\ UNCHANGED <<data, tmp, queue, answers>>

\* The mutation may throw; otherwise writeFile opens the temporary file.
Begin ==
    /\ phase = "idle" /\ queue # <<>>
    /\ \/ Settle("refused") /\ UNCHANGED tmp
       \/ tmp' = Torn /\ phase' = "writing" /\ UNCHANGED <<queue, answers>>
    /\ UNCHANGED <<data, file>>

Written ==
    /\ phase = "writing"
    /\ tmp' = NextDocument
    /\ phase' = "renaming"
    /\ UNCHANGED <<data, file, queue, answers>>

Renamed ==
    /\ phase = "renaming"
    /\ file' = tmp
    /\ tmp' = Absent
    /\ phase' = "publishing"
    /\ UNCHANGED <<data, queue, answers>>

\* Mutant of NotPersisted: the document is published although not written.
MutantNotPersistedPublished ==
    /\ phase \in {"writing", "renaming"}
    /\ data' = NextDocument
    /\ Settle("refused")
    /\ UNCHANGED <<file, tmp>>

\* The write or the rename is refused.
NotPersisted ==
    /\ phase \in {"writing", "renaming"}
    /\ Settle("refused")
    /\ UNCHANGED <<data, file, tmp>>

\* Mutant of Publish: the caller is answered but memory keeps the old document.
MutantPublishForgets ==
    /\ phase = "publishing"
    /\ Settle("confirmed")
    /\ UNCHANGED <<data, file, tmp>>

Publish ==
    /\ phase = "publishing"
    /\ data' = NextDocument
    /\ Settle("confirmed")
    /\ UNCHANGED <<file, tmp>>

Crash ==
    /\ phase # "down"
    /\ phase' = "down"
    /\ data' = <<>>
    /\ queue' = <<>>
    /\ answers' = [m \in Mutations |->
                     IF answers[m] = "pending" THEN "lost" ELSE answers[m]]
    /\ UNCHANGED <<file, tmp>>

Next ==
    \/ Initialize \/ EmptyWritten \/ EmptyRenamed
    \/ Begin \/ Written \/ Renamed \/ NotPersisted \/ Publish \/ Crash
    \/ \E m \in Mutations : Mutate(m)

Spec == Init /\ [][Next]_vars

-----------------------------------------------------------------------------
Documents == Seq(Mutations)
Phases == Starting \cup {"idle", "writing", "renaming", "publishing"}

(***************************************************************************)
(* The shape of the state; in particular the database file is never torn,  *)
(* so that a restart always finds a document it can parse.                 *)
(***************************************************************************)
StoreTypeOK ==
    /\ data \in Documents
    /\ file \in Documents \cup {Absent}
    /\ tmp \in Documents \cup {Absent, Torn}
    /\ queue \in Seq(Mutations)
    /\ phase \in Phases
    /\ answers \in [Mutations -> {"none", "pending", "confirmed", "refused", "lost"}]

(***************************************************************************)
(* Readers (snapshot) never see what is not on disk: the document in memory*)
(* is the one in the file, or the one before it while the mutation that    *)
(* made the difference is being published.                                 *)
(***************************************************************************)
MemoryFollowsDisk ==
    phase \notin Starting =>
        file = IF phase = "publishing" THEN NextDocument ELSE data

\* What AtomicStore calls stored: the mutations in the file.
Atomic == INSTANCE AtomicStore WITH stored <- IF file = Absent THEN <<>> ELSE file

\* ARCHITECTURE.md: the store "serializes writes and atomically replaces one
\* JSON file", for any interleaving of calls, refusals and crashes.
ImplementsAtomicStore == Atomic!Spec

=============================================================================
