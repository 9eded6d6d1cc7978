----------------------------- MODULE BatchService -----------------------------
(***************************************************************************)
(* What pkg/batcher promises its callers, without queues, triggers, timers *)
(* or workers: a submitted request is answered together with other pending *)
(* requests of the same hash, by one call of the executor, and its caller  *)
(* returns with the answer at its own position.  A service that is closing *)
(* may leave requests unanswered.                                          *)
(***************************************************************************)
EXTENDS Integers, Sequences, FiniteSets, Functions

CONSTANTS Reqs, Hash, Exec(_), CallError, None

VARIABLES
    phase,      \* "idle", "pending", "answered" or "returned"
    answer,     \* what the executor decided for each request
    closing     \* the process is shutting down

vars == <<phase, answer, closing>>

Init ==
    /\ phase = [r \in Reqs |-> "idle"]
    /\ answer = [r \in Reqs |-> None]
    /\ closing = FALSE

Submit(r) ==
    /\ phase[r] = "idle"
    /\ phase' = [phase EXCEPT ![r] = "pending"]
    /\ UNCHANGED <<answer, closing>>

\* One call of the executor answers a batch of pending requests of one hash.
Batches ==
    {batch \in UNION {[1..n -> Reqs] : n \in 1..Cardinality(Reqs)} : IsInjective(batch)}

Batchable(batch) ==
    /\ \A i \in DOMAIN batch : phase[batch[i]] = "pending"
    /\ \A i, j \in DOMAIN batch : Hash[batch[i]] = Hash[batch[j]]

AnswerBatch(batch) ==
    /\ Batchable(batch)
    /\ phase' = [r \in Reqs |-> IF r \in Range(batch) THEN "answered" ELSE phase[r]]
    /\ \E results \in Exec(batch) :
          answer' = [r \in Reqs |->
                       IF r \in Range(batch)
                       THEN LET i == CHOOSE i \in DOMAIN batch : batch[i] = r
                            IN  IF i <= Len(results) THEN results[i] ELSE CallError
                       ELSE answer[r]]
    /\ UNCHANGED closing

Return(r) ==
    /\ phase[r] = "answered"
    /\ phase' = [phase EXCEPT ![r] = "returned"]
    /\ UNCHANGED <<answer, closing>>

Close ==
    /\ ~closing
    /\ closing' = TRUE
    /\ UNCHANGED <<phase, answer>>

Next ==
    \/ \E r \in Reqs : Submit(r) \/ Return(r)
    \/ \E batch \in Batches : AnswerBatch(batch)
    \/ Close

Spec == Init /\ [][Next]_vars
=============================================================================
