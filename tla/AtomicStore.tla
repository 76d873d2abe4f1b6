----------------------------- MODULE AtomicStore -----------------------------
(***************************************************************************)
(* What a store of one document promises its callers: a mutation is applied*)
(* as a whole or not at all, in some order; one that was confirmed has been*)
(* applied, one that was refused never is, and the end of the process takes*)
(* back nothing.                                                           *)
(***************************************************************************)
EXTENDS Integers, Sequences

CONSTANTS Mutations

VARIABLES
    stored,  \* the mutations applied, in order
    answers  \* mutation -> what its caller has been told

storeVars == <<stored, answers>>

Applied(m) == \E i \in DOMAIN stored : stored[i] = m

Init ==
    /\ stored = <<>>
    /\ answers = [m \in Mutations |-> "none"]

Answer(m, from, to) ==
    /\ answers[m] = from
    /\ answers' = [answers EXCEPT ![m] = to]

Submit(m) == Answer(m, "none", "pending") /\ UNCHANGED stored

Apply(m) ==
    /\ answers[m] = "pending" /\ ~Applied(m)
    /\ stored' = Append(stored, m)
    /\ UNCHANGED answers

Confirm(m) == Applied(m) /\ Answer(m, "pending", "confirmed") /\ UNCHANGED stored
Refuse(m) == ~Applied(m) /\ Answer(m, "pending", "refused") /\ UNCHANGED stored

\* The process ends: nobody is left to be answered.
End ==
    /\ answers' = [m \in Mutations |->
                     IF answers[m] = "pending" THEN "lost" ELSE answers[m]]
    /\ UNCHANGED stored

Next == End \/ \E m \in Mutations : Submit(m) \/ Apply(m) \/ Confirm(m) \/ Refuse(m)

Spec == Init /\ [][Next]_storeVars

=============================================================================
