--------------------------- MODULE JsonStoreProofs ---------------------------
(***************************************************************************)
(* Proofs about JsonStore, for any set of mutations: the shape of the      *)
(* state, that memory follows the disk, and that the file behaves as the   *)
(* atomic store.                                                           *)
(***************************************************************************)
EXTENDS JsonStore, TLAPS

(***************************************************************************)
(* The strengthening.  A queued mutation is pending and queued once; what  *)
(* is in the file has been confirmed, or its caller died with the process, *)
(* or it is the one about to be published.  So a mutation that is renamed  *)
(* into place is new to the file, and one that is refused is not in it.    *)
(***************************************************************************)
InService == phase \in {"writing", "renaming", "publishing"}

QueueIsPending ==
    /\ InService => queue # <<>>
    /\ phase \in Starting => queue = <<>> /\ data = <<>>
    /\ phase \notin Starting => file # Absent
    /\ phase \in {"creating", "created"} => file = Absent
    /\ phase = "created" => tmp = <<>>
    /\ phase = "renaming" => tmp = NextDocument
    /\ \A i \in DOMAIN queue : answers[queue[i]] = "pending"
    /\ \A i, j \in DOMAIN queue : queue[i] = queue[j] => i = j

FileIsAnswered ==
    \A d \in Documents : file = d =>
        \A i \in DOMAIN d : \/ answers[d[i]] \in {"confirmed", "lost"}
                            \/ phase = "publishing" /\ d[i] = queue[1]

StoreInv == StoreTypeOK /\ MemoryFollowsDisk /\ QueueIsPending /\ FileIsAnswered

LEMMA StoreInvInit == Init => StoreInv
  BY FilesAssumption
     DEF Init, StoreInv, StoreTypeOK, MemoryFollowsDisk, QueueIsPending,
         FileIsAnswered, InService, Starting, Documents, Phases

LEMMA StoreInvStep == StoreInv /\ [Next]_vars => StoreInv'
<1> SUFFICES ASSUME StoreInv, [Next]_vars PROVE StoreInv'
  OBVIOUS
<1> USE FilesAssumption
<1> USE DEF StoreInv, StoreTypeOK, MemoryFollowsDisk, QueueIsPending,
            FileIsAnswered, InService, Starting, Documents, Phases, NextDocument
<1>1. CASE Initialize
  <2>1. CASE file = Absent
    BY <1>1, <2>1 DEF Initialize
  <2>2. CASE file # Absent
    <3>1. data' = file /\ file' = file /\ phase' = "idle"
          /\ UNCHANGED <<tmp, queue, answers>>
      BY <1>1, <2>2 DEF Initialize
    <3>2. \A i \in DOMAIN file : answers[file[i]] \in {"confirmed", "lost"}
      BY <1>1, <2>2 DEF Initialize
    <3>3. StoreTypeOK' /\ MemoryFollowsDisk' /\ QueueIsPending'
      BY <1>1, <2>2, <3>1 DEF Initialize
    <3>4. FileIsAnswered'
      BY <3>1, <3>2
    <3> QED BY <3>3, <3>4
  <2> QED BY <2>1, <2>2
<1>2. CASE Begin
  <2>1. CASE Settle("refused") /\ UNCHANGED tmp
    <3>1. StoreTypeOK'
      BY <1>2, <2>1 DEF Begin, Settle
    <3>2. MemoryFollowsDisk'
      BY <1>2, <2>1 DEF Begin, Settle
    <3>3. QueueIsPending'
      BY <1>2, <2>1 DEF Begin, Settle
    <3>4. FileIsAnswered'
      BY <1>2, <2>1 DEF Begin, Settle
    <3> QED BY <3>1, <3>2, <3>3, <3>4
  <2>2. CASE tmp' = Torn /\ phase' = "writing" /\ UNCHANGED <<queue, answers>>
    <3>1. StoreTypeOK'
      BY <1>2, <2>2 DEF Begin
    <3>2. MemoryFollowsDisk'
      BY <1>2, <2>2 DEF Begin
    <3>3. QueueIsPending'
      BY <1>2, <2>2 DEF Begin
    <3>4. FileIsAnswered'
      BY <1>2, <2>2 DEF Begin
    <3> QED BY <3>1, <3>2, <3>3, <3>4
  <2> QED BY <1>2, <2>1, <2>2 DEF Begin
<1>3. CASE Written
  <2>1. StoreTypeOK'
    BY <1>3 DEF Written
  <2>2. MemoryFollowsDisk'
    BY <1>3 DEF Written
  <2>3. QueueIsPending'
    BY <1>3 DEF Written
  <2>4. FileIsAnswered'
    BY <1>3 DEF Written
  <2> QED BY <2>1, <2>2, <2>3, <2>4
<1>4. CASE Renamed
  <2>1. /\ file' = Append(data, queue[1]) /\ file = data
        /\ queue[1] \in Mutations /\ data \in Seq(Mutations)
        /\ UNCHANGED <<data, queue, answers>> /\ phase' = "publishing"
    BY <1>4 DEF Renamed
  <2>2. StoreTypeOK' /\ MemoryFollowsDisk' /\ QueueIsPending'
    <3>1. file' \in Seq(Mutations)
      BY <2>1
    <3>2. tmp' = Absent
      BY <1>4 DEF Renamed
    <3>3. StoreTypeOK'
      BY <2>1, <3>1, <3>2
    <3>4. MemoryFollowsDisk'
      BY <2>1
    <3>5. QueueIsPending'
      <4>1. queue # <<>> /\ file' # Absent
        BY <1>4, <3>1 DEF Renamed
      <4> QED BY <2>1, <4>1
    <3> QED BY <3>3, <3>4, <3>5
  <2>3. \A i \in DOMAIN file' : \/ answers[file'[i]] \in {"confirmed", "lost"}
                                \/ file'[i] = queue[1]
    <3> SUFFICES ASSUME NEW i \in DOMAIN file', file'[i] # queue[1]
                 PROVE  answers[file'[i]] \in {"confirmed", "lost"}
      OBVIOUS
    <3>1. i \in DOMAIN data /\ file'[i] = data[i]
      BY <2>1
    <3>2. phase = "renaming"
      BY <1>4 DEF Renamed
    <3> QED BY <2>1, <3>1, <3>2
  <2>4. FileIsAnswered'
    BY <2>1, <2>3
  <2> QED BY <2>2, <2>4
<1>5. CASE NotPersisted
  <2>1. StoreTypeOK'
    BY <1>5 DEF NotPersisted, Settle
  <2>2. MemoryFollowsDisk'
    BY <1>5 DEF NotPersisted, Settle
  <2>3. QueueIsPending'
    BY <1>5 DEF NotPersisted, Settle
  <2>4. FileIsAnswered'
    BY <1>5 DEF NotPersisted, Settle
  <2> QED BY <2>1, <2>2, <2>3, <2>4
<1>6. CASE Publish
  <2>1. StoreTypeOK'
    BY <1>6 DEF Publish, Settle
  <2>2. MemoryFollowsDisk'
    BY <1>6 DEF Publish, Settle
  <2>3. QueueIsPending'
    BY <1>6 DEF Publish, Settle
  <2>4. FileIsAnswered'
    BY <1>6 DEF Publish, Settle
  <2> QED BY <2>1, <2>2, <2>3, <2>4
<1>7. CASE Crash
  <2>1. StoreTypeOK'
    BY <1>7 DEF Crash
  <2>2. MemoryFollowsDisk'
    BY <1>7 DEF Crash
  <2>3. QueueIsPending'
    BY <1>7 DEF Crash
  <2>4. FileIsAnswered'
    BY <1>7 DEF Crash
  <2> QED BY <2>1, <2>2, <2>3, <2>4
<1>8. ASSUME NEW m \in Mutations, Mutate(m) PROVE StoreInv'
  <2>1. /\ answers[m] = "none" /\ answers' = [answers EXCEPT ![m] = "pending"]
        /\ queue' = Append(queue, m) /\ phase \notin Starting
        /\ UNCHANGED <<data, file, tmp, phase>>
    BY <1>8 DEF Mutate
  <2>2. queue' \in Seq(Mutations) /\ queue' # <<>>
    <3>1. queue \in Seq(Mutations)
      OBVIOUS
    <3>2. queue' \in Seq(Mutations) /\ Len(queue') = Len(queue) + 1
      BY <2>1, <3>1
    <3> QED BY <3>1, <3>2
  <2>3. StoreTypeOK'
    BY <2>1, <2>2
  <2>4. InService => queue'[1] = queue[1]
    BY <2>1
  <2>5. MemoryFollowsDisk'
    BY <2>1, <2>4
  <2>6. \A i \in DOMAIN queue : queue[i] # m
    BY <2>1
  <2>7. QueueIsPending'
    <3>1. phase = "renaming" => tmp' = NextDocument'
      BY <2>1, <2>4
    <3>2. \A i \in DOMAIN queue' : answers'[queue'[i]] = "pending"
      BY <2>1, <2>6
    <3>3. \A i, j \in DOMAIN queue' : queue'[i] = queue'[j] => i = j
      BY <2>1, <2>6
    <3> QED BY <2>1, <2>2, <3>1, <3>2, <3>3
  <2>8. FileIsAnswered'
    BY <2>1, <2>4
  <2> QED BY <2>3, <2>5, <2>7, <2>8
<1>9. CASE EmptyWritten
  <2>1. StoreTypeOK'
    BY <1>9 DEF EmptyWritten
  <2>2. MemoryFollowsDisk'
    BY <1>9 DEF EmptyWritten
  <2>3. QueueIsPending'
    BY <1>9 DEF EmptyWritten
  <2>4. FileIsAnswered'
    BY <1>9 DEF EmptyWritten
  <2> QED BY <2>1, <2>2, <2>3, <2>4
<1>10. CASE EmptyRenamed
  <2>1. /\ file' = <<>> /\ data' = <<>> /\ queue' = <<>> /\ tmp' = Absent
        /\ phase' = "idle" /\ UNCHANGED answers
    BY <1>10 DEF EmptyRenamed
  <2>2. file' \in Seq(Mutations)
    BY <2>1
  <2>3. file' # Absent
    BY <2>2
  <2>4. DOMAIN file' = {}
    BY <2>1
  <2>5. FileIsAnswered'
    BY <2>1, <2>4
  <2>6. StoreTypeOK' /\ MemoryFollowsDisk'
    BY <2>1, <2>2
  <2>7. QueueIsPending'
    BY <2>1, <2>3
  <2> QED BY <2>5, <2>6, <2>7
<1>11. CASE UNCHANGED vars
  BY <1>11 DEF vars
<1> QED
  BY <1>1, <1>2, <1>3, <1>4, <1>5, <1>6, <1>7, <1>8, <1>9, <1>10, <1>11 DEF Next

(***************************************************************************)
(* The state keeps its shape: in particular the database file is never     *)
(* torn, whenever the process dies.                                        *)
(***************************************************************************)
THEOREM StoreTypeCorrect == Spec => []StoreTypeOK
<1>1. StoreInv => StoreTypeOK
  BY DEF StoreInv
<1> QED BY <1>1, StoreInvInit, StoreInvStep, PTL DEF Spec

(***************************************************************************)
(* No reader of snapshot is shown what a crash could take back.            *)
(***************************************************************************)
THEOREM MemoryOnDisk == Spec => []MemoryFollowsDisk
<1>1. StoreInv => MemoryFollowsDisk
  BY DEF StoreInv
<1> QED BY <1>1, StoreInvInit, StoreInvStep, PTL DEF Spec

-----------------------------------------------------------------------------
(***************************************************************************)
(* The refinement: the rename applies the mutation at the head; the answers*)
(* follow; every other step of the process is invisible to the caller.     *)
(***************************************************************************)
LEMMA RefinesInit == Init => Atomic!Init
  BY DEF Init, Atomic!Init

LEMMA RefinesStep == StoreInv /\ [Next]_vars => [Atomic!Next]_(Atomic!storeVars)
<1> SUFFICES ASSUME StoreInv, [Next]_vars
             PROVE  [Atomic!Next]_(Atomic!storeVars)
  OBVIOUS
<1> USE FilesAssumption
<1> USE DEF Atomic!storeVars
<1> DEFINE stored == IF file = Absent THEN <<>> ELSE file
<1>1. CASE Initialize
  BY <1>1 DEF Initialize
<1>12. CASE EmptyWritten
  BY <1>12 DEF EmptyWritten
<1>13. CASE EmptyRenamed
  BY <1>13 DEF EmptyRenamed, StoreInv, QueueIsPending
<1>2. \A m : Atomic!Applied(m) <=> \E i \in DOMAIN stored : stored[i] = m
  BY DEF Atomic!Applied
<1>3. ASSUME phase \in {"idle", "writing", "renaming"}, Settle("refused"),
             UNCHANGED file, queue # <<>>
      PROVE  Atomic!Next
  <2>1. queue[1] \in Mutations /\ answers[queue[1]] = "pending"
    BY <1>3 DEF StoreInv, StoreTypeOK, QueueIsPending
  <2>2. ~Atomic!Applied(queue[1])
    BY <1>2, <1>3, <2>1
       DEF StoreInv, StoreTypeOK, FileIsAnswered, Documents
  <2>3. Atomic!Refuse(queue[1])
    BY <1>3, <2>1, <2>2 DEF Settle, Atomic!Refuse, Atomic!Answer
  <2> QED BY <2>1, <2>3 DEF Atomic!Next
<1>4. CASE Begin
  BY <1>4, <1>3 DEF Begin
<1>5. CASE Written
  BY <1>5 DEF Written
<1>6. CASE Renamed
  <2>1. /\ queue[1] \in Mutations /\ answers[queue[1]] = "pending"
        /\ file' = Append(file, queue[1]) /\ file # Absent /\ file \in Seq(Mutations)
        /\ UNCHANGED answers
    BY <1>6 DEF Renamed, StoreInv, StoreTypeOK, QueueIsPending, InService,
                MemoryFollowsDisk, NextDocument, Documents
  <2>2. ~Atomic!Applied(queue[1])
    BY <1>2, <1>6, <2>1 DEF Renamed, StoreInv, FileIsAnswered, Documents
  <2>3. file' # Absent
    BY <2>1
  <2>4. Atomic!Apply(queue[1])
    BY <2>1, <2>2, <2>3 DEF Atomic!Apply
  <2> QED BY <2>1, <2>4 DEF Atomic!Next
<1>7. CASE NotPersisted
  BY <1>7, <1>3 DEF NotPersisted, StoreInv, QueueIsPending, InService
<1>8. CASE Publish
  <2>1. /\ queue # <<>> /\ queue[1] \in Mutations /\ answers[queue[1]] = "pending"
        /\ file = Append(data, queue[1]) /\ data \in Seq(Mutations)
        /\ file # Absent /\ UNCHANGED file
    BY <1>8 DEF Publish, StoreInv, StoreTypeOK, QueueIsPending, InService,
                MemoryFollowsDisk, NextDocument, Documents
  <2>2. Len(data) + 1 \in DOMAIN file /\ file[Len(data) + 1] = queue[1]
    BY <2>1
  <2>3. Atomic!Applied(queue[1])
    BY <1>2, <2>1, <2>2
  <2>4. Atomic!Confirm(queue[1])
    BY <1>8, <2>1, <2>3 DEF Publish, Settle, Atomic!Confirm, Atomic!Answer
  <2> QED BY <2>1, <2>4 DEF Atomic!Next
<1>9. CASE Crash
  <2>1. Atomic!End
    BY <1>9 DEF Crash, Atomic!End
  <2> QED BY <2>1 DEF Atomic!Next
<1>10. ASSUME NEW m \in Mutations, Mutate(m) PROVE Atomic!Next
  <2>1. Atomic!Submit(m)
    BY <1>10 DEF Mutate, Atomic!Submit, Atomic!Answer
  <2> QED BY <2>1 DEF Atomic!Next
<1>11. CASE UNCHANGED vars
  BY <1>11 DEF vars
<1> QED
  BY <1>1, <1>4, <1>5, <1>6, <1>7, <1>8, <1>9, <1>10, <1>11, <1>12, <1>13 DEF Next

(***************************************************************************)
(* For any set of calls, JsonStore is an atomic store: a confirmed mutation*)
(* is in the file for good, a refused one never gets there.                *)
(***************************************************************************)
THEOREM StoreImplements == Spec => ImplementsAtomicStore
  BY RefinesInit, RefinesStep, StoreInvInit, StoreInvStep, PTL
     DEF Spec, ImplementsAtomicStore, Atomic!Spec

=============================================================================
