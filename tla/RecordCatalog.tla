--------------------------- MODULE RecordCatalog ---------------------------
(***************************************************************************)
(* What the services that keep a row and a stored file per record promise  *)
(* their callers, whatever they do in between: a record appears once,      *)
(* together with its file, and disappears once, for good and only because  *)
(* somebody asked for it; a DELETE is answered with success only when the  *)
(* record is gone and with 404 only when it is not there.  A call that     *)
(* fails, or is cut short, promises nothing.                               *)
(***************************************************************************)
CONSTANTS
    RowIds,   \* the records that may ever exist
    Deletes   \* the DELETE calls

VARIABLES
    entry,    \* whether each record has appeared and disappeared
    call      \* what each DELETE call asks for and its answer

Entries == {"unborn", "here", "gone"}
Answers == {"pending", "deleted", "missing", "failed"}

\* A call that has not been made yet.
Unasked == [id |-> 0, answer |-> "unasked"]

Init ==
    /\ entry = [id \in RowIds |-> "unborn"]
    /\ call  = [d \in Deletes |-> Unasked]

Appear(id) ==
    /\ entry[id] = "unborn"
    /\ entry' = [entry EXCEPT ![id] = "here"]
    /\ UNCHANGED call

Disappear(id) ==
    /\ entry[id] = "here"
    /\ \E d \in Deletes : call[d] = [id |-> id, answer |-> "pending"]
    /\ entry' = [entry EXCEPT ![id] = "gone"]
    /\ UNCHANGED call

Ask(d, id) ==
    /\ call[d] = Unasked
    /\ call' = [call EXCEPT ![d] = [id |-> id, answer |-> "pending"]]
    /\ UNCHANGED entry

AnswerDeleted(d) ==
    /\ call[d].answer = "pending"
    /\ entry[call[d].id] = "gone"
    /\ call' = [call EXCEPT ![d].answer = "deleted"]
    /\ UNCHANGED entry

AnswerMissing(d) ==
    /\ call[d].answer = "pending"
    /\ entry[call[d].id] # "here"
    /\ call' = [call EXCEPT ![d].answer = "missing"]
    /\ UNCHANGED entry

\* Some calls fail, all that are pending if the process dies.
Fail(D) ==
    /\ \A d \in D : call[d].answer = "pending"
    /\ call' = [d \in Deletes |->
                  IF d \in D THEN [call[d] EXCEPT !.answer = "failed"] ELSE call[d]]
    /\ UNCHANGED entry

Next ==
    \/ \E id \in RowIds : Appear(id) \/ Disappear(id)
    \/ \E d \in Deletes, id \in RowIds : Ask(d, id)
    \/ \E d \in Deletes : AnswerDeleted(d) \/ AnswerMissing(d)
    \/ \E D \in SUBSET Deletes : Fail(D)

Spec == Init /\ [][Next]_<<entry, call>>

=============================================================================
