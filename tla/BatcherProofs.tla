---------------------------- MODULE BatcherProofs ----------------------------
(***************************************************************************)
(* Proofs that the batcher keeps its inductive invariant, for any finite   *)
(* set of requests, any hashing, any window size and worker limit, and any *)
(* executor that respects the contract of ExecAssumption.                  *)
(*                                                                         *)
(* The second half proves that the batcher implements BatchService: under  *)
(* the mapping at the end of Batcher, a registration is Submit, the return *)
(* of the executor is AnswerBatch of the worker's whole batch, a receive   *)
(* is Return, and triggers, windows, the swap, the dispatch and the        *)
(* deliveries are invisible.                                               *)
(***************************************************************************)
EXTENDS Batcher, SequenceTheorems, FiniteSetTheorems, TLAPS

-----------------------------------------------------------------------------
(* Facts about the operators *)

\* A bucket of distinct requests is one of the batches the executor's contract
\* speaks of: runCalls never builds a batch outside it.
LEMMA BucketIsBatch ==
  ASSUME NEW s \in Seq(Reqs), s # <<>>, IsInjective(s)
  PROVE  s \in Batches
<1>1. s \in [1..Len(s) -> Reqs] /\ Len(s) \in Nat \ {0}
  BY Zenon, EmptySeq, LenProperties
<1>2. s \in Injection(1..Len(s), Reqs)
  BY Zenon, <1>1 DEF Injection
<1>3. Cardinality(1..Len(s)) <= Cardinality(Reqs)
  BY Zenon, <1>2, FS_Injection, ReqsAssumption
<1>4. Cardinality(1..Len(s)) = Len(s)
  BY <1>1, FS_Interval
<1>5. Cardinality(Reqs) \in Nat
  BY Zenon, ReqsAssumption, FS_CardinalityType
<1>6. Len(s) \in 1..Cardinality(Reqs)
  BY <1>1, <1>3, <1>4, <1>5
<1> QED
  BY Zenon, <1>1, <1>6 DEF Batches

\* What the executor returns for a worker's batch.
LEMMA ExecResults ==
  ASSUME NEW s \in Seq(Reqs), s # <<>>, IsInjective(s), NEW results \in Exec(s)
  PROVE  /\ results \in Seq(Answers)
         /\ Len(results) <= Len(s)
         /\ \A i \in 1..Len(results) : results[i] \in AnswersFor(s[i])
<1>1. PICK n \in 0..Len(s) :
        /\ results \in [1..n -> UNION {AnswersFor(r) : r \in Reqs}]
        /\ \A i \in 1..n : results[i] \in AnswersFor(s[i])
  BY Zenon, BucketIsBatch, ExecAssumption
<1>2. n \in Nat /\ n <= Len(s)
  BY LenProperties
<1>3. results \in [1..n -> Answers]
  BY Zenon, <1>1 DEF Answers
<1>4. results \in Seq(Answers) /\ Len(results) = n
  BY <1>2, <1>3, IsASeq, LenProperties
<1> QED
  BY Zenon, <1>1, <1>2, <1>4

\* The results a worker may send are results, and none is the empty channel.
LEMMA AnswerFacts ==
  /\ CallError \in Answers /\ CallError # None
  /\ \A r \in Reqs : \A a \in AnswersFor(r) : a \in Answers /\ a # None
<1>1. CallError # None /\ \A r \in Reqs : None \notin AnswersFor(r)
  BY Zenon, NoneAssumption
<1>2. CallError \in Answers
  BY Zenon DEF Answers
<1>3. \A r \in Reqs : \A a \in AnswersFor(r) : a \in Answers
  BY Zenon DEF Answers
<1> QED
  BY Zenon, <1>1, <1>2, <1>3

\* Appending a new request to a bucket.
LEMMA AppendRange ==
  ASSUME NEW s \in Seq(Reqs), NEW r \in Reqs
  PROVE  /\ Range(Append(s, r)) = Range(s) \cup {r}
         /\ IsInjective(s) /\ r \notin Range(s) => IsInjective(Append(s, r))
<1>1. /\ DOMAIN s = 1..Len(s)
      /\ DOMAIN Append(s, r) = 1..(Len(s) + 1)
      /\ \A i \in 1..Len(s) : Append(s, r)[i] = s[i]
      /\ Append(s, r)[Len(s) + 1] = r
      /\ Len(s) \in Nat
  BY AppendProperties, LenProperties
<1>2. Range(Append(s, r)) = Range(s) \cup {r}
  BY <1>1 DEF Range
<1>3. ASSUME IsInjective(s), r \notin Range(s)
      PROVE  IsInjective(Append(s, r))
  BY <1>1, <1>3 DEF IsInjective, Range
<1> QED
  BY Zenon, <1>2, <1>3

\* The empty map.
LEMMA NoRequestsFacts ==
  /\ NoRequests \in [Buckets -> Seq(Reqs)]
  /\ \A b \in Buckets : NoRequests[b] = <<>> /\ Range(NoRequests[b]) = {}
  /\ Bucketed(NoRequests)
BY DEF NoRequests, Range, Bucketed, IsInjective

-----------------------------------------------------------------------------
(* Preservation of the invariant, by action *)

\* The part of the invariant that is about where requests are and what they get.
Placement ==
    /\ Bucketed(requests)
    /\ Bucketed(taken)
    /\ WellFormedCalls
    /\ DisjointCalls
    /\ OneHashPerCall
    /\ OnePlace
    /\ OwnChannel
    /\ OwnAnswer

\* A step that moves no request keeps it.
LEMMA QuietStep ==
  ASSUME IInv, UNCHANGED <<requests, taken, calls, requestor, result>>,
         \A r \in Reqs : pc'[r] = "start" <=> pc[r] = "start"
  PROVE  Placement'
<1>1. Bucketed(requests)' /\ Bucketed(taken)'
  BY Zenon DEF IInv, Bucketed
<1>2. WellFormedCalls' /\ DisjointCalls' /\ OneHashPerCall'
  BY Zenon DEF IInv, WellFormedCalls, DisjointCalls, OneHashPerCall, Unanswered
<1>3. \A r \in Reqs : /\ Queued(r)' <=> Queued(r)
                      /\ Taken(r)' <=> Taken(r)
                      /\ InCall(r)' <=> InCall(r)
                      /\ Answered(r)' <=> Answered(r)
  BY Zenon DEF Queued, Taken, InCall, Answered, Unanswered
<1>4. OnePlace'
  BY Zenon, <1>3 DEF IInv, OnePlace
<1>5. OwnChannel' /\ OwnAnswer'
  BY Zenon DEF IInv, OwnChannel, OwnAnswer
<1> QED
  BY Zenon, <1>1, <1>2, <1>4, <1>5 DEF Placement

\* The batcher NewBatcher returns satisfies the invariant.
LEMMA InitIInv == NewBatcher => IInv
<1> SUFFICES ASSUME NewBatcher PROVE IInv
  BY Zenon
<1> USE DEF NewBatcher
<1>1. TypeOK
  <2>1. /\ pc \in [Reqs -> {"start", "trigger", "wait", "returned"}]
        /\ requests \in [Buckets -> Seq(Reqs)]
        /\ taken \in [Buckets -> Seq(Reqs)]
    BY Zenon, NoRequestsFacts
  <2>2. calls \subseteq Call
    BY Zenon
  <2>3. /\ requestor \in [Reqs -> Answers \cup {None}]
        /\ result \in [Reqs -> Answers \cup {None}]
    BY Zenon
  <2>4. /\ trigger \in 0..1 /\ count \in Nat
        /\ run \in {"select", "idle", "take", "dispatch", "drain", "stopped"}
    OBVIOUS
  <2>5. ctxDone \in BOOLEAN
    BY Zenon
  <2> QED
    BY <2>1, <2>2, <2>3, <2>4, <2>5, Zenon DEF TypeOK
<1>2. Bucketed(requests) /\ Bucketed(taken)
  BY Zenon, NoRequestsFacts
<1>3. WellFormedCalls /\ DisjointCalls /\ OneHashPerCall /\ RunPhase
  BY Zenon DEF WellFormedCalls, DisjointCalls, OneHashPerCall, RunPhase
<1>4. OnePlace
  <2>1. \A r \in Reqs : ~Queued(r) /\ ~Taken(r)
    BY Zenon, NoRequestsFacts DEF Queued, Taken
  <2>2. \A r \in Reqs : ~InCall(r) /\ ~Answered(r)
    BY Zenon DEF InCall, Answered
  <2> QED
    BY Zenon, <2>1, <2>2 DEF OnePlace
<1>5. OwnChannel /\ OwnAnswer /\ NoLostWakeup
  BY Zenon DEF OwnChannel, OwnAnswer, NoLostWakeup
<1> QED
  BY Zenon, <1>1, <1>2, <1>3, <1>4, <1>5 DEF IInv

\* Add's append keeps it: the new request joins the bucket of its own hash.
LEMMA AddRegisterStep ==
  ASSUME IInv, NEW r \in Reqs, AddRegister(r)
  PROVE  IInv'
<1> USE DEF AddRegister, runVars
<1>0. Hash[r] \in Buckets
  BY Zenon, HashAssumption
<1>1. ~Queued(r) /\ ~Taken(r) /\ ~InCall(r) /\ ~Answered(r)
  BY Zenon DEF IInv, OnePlace
<1>2. /\ requests[Hash[r]] \in Seq(Reqs)
      /\ \A b \in Buckets : requests'[b] = IF b = Hash[r] THEN Append(requests[b], r) ELSE requests[b]
      /\ requests' \in [Buckets -> Seq(Reqs)]
  BY Zenon, <1>0, AppendProperties DEF IInv, TypeOK
<1>3. TypeOK'
  BY Zenon, <1>2 DEF IInv, TypeOK
<1>4. \A b \in Buckets : Range(requests'[b]) = IF b = Hash[r] THEN Range(requests[b]) \cup {r}
                                               ELSE Range(requests[b])
  BY ZenonT(30), <1>2, AppendRange DEF IInv, TypeOK
<1>5. Bucketed(requests)'
  BY <1>1, <1>2, <1>4, AppendRange DEF IInv, TypeOK, Bucketed, Queued
<1>6. Bucketed(taken)' /\ WellFormedCalls' /\ DisjointCalls' /\ OneHashPerCall' /\ RunPhase'
  BY Zenon DEF IInv, Bucketed, WellFormedCalls, DisjointCalls, OneHashPerCall, RunPhase, Unanswered
<1>7. \A q \in Reqs : /\ Queued(q)' <=> Queued(q) \/ q = r
                      /\ Taken(q)' <=> Taken(q)
                      /\ InCall(q)' <=> InCall(q)
                      /\ Answered(q)' <=> Answered(q)
  <2>1. \A q \in Reqs : Queued(q)' <=> Queued(q) \/ q = r
    <3> HIDE DEF AddRegister
    <3> QED
      BY ZenonT(30), <1>0, <1>4 DEF Queued
  <2>2. UNCHANGED <<taken, calls, requestor, result>>
    BY Zenon
  <2> QED
    BY Zenon, <2>1, <2>2 DEF Taken, InCall, Answered, Unanswered
<1>8. \A q \in Reqs : pc'[q] = IF q = r THEN "trigger" ELSE pc[q]
  BY Zenon DEF IInv, TypeOK
<1>9. OnePlace'
  BY <1>1, <1>7, <1>8 DEF IInv, OnePlace
<1>10. OwnChannel' /\ OwnAnswer'
  BY Zenon DEF IInv, OwnChannel, OwnAnswer
<1>11. NoLostWakeup'
  BY Zenon, <1>7, <1>8 DEF NoLostWakeup
<1> QED
  BY Zenon, <1>3, <1>5, <1>6, <1>9, <1>10, <1>11 DEF IInv

\* Add's send on the trigger channel keeps it.
LEMMA AddTriggerStep ==
  ASSUME IInv, NEW r \in Reqs, AddTrigger(r)
  PROVE  IInv'
<1> USE DEF AddTrigger, runVars
<1>1. Placement'
  <2>1. \A q \in Reqs : pc'[q] = "start" <=> pc[q] = "start"
    BY Zenon DEF IInv, TypeOK
  <2> QED
    BY Zenon, <2>1, QuietStep
<1>2. TypeOK' /\ RunPhase' /\ NoLostWakeup'
  BY DEF IInv, TypeOK, RunPhase, NoLostWakeup
<1> QED
  BY Zenon, <1>1, <1>2 DEF IInv, Placement

\* Add's receive keeps it: the request passes from its channel to its caller.
LEMMA AddReturnStep ==
  ASSUME IInv, NEW r \in Reqs, AddReturn(r)
  PROVE  IInv'
<1> USE DEF AddReturn, runVars
<1>1. TypeOK' /\ RunPhase'
  BY Zenon DEF IInv, TypeOK, RunPhase
<1>2. Bucketed(requests)' /\ Bucketed(taken)' /\ WellFormedCalls' /\ DisjointCalls' /\ OneHashPerCall'
  BY Zenon DEF IInv, Bucketed, WellFormedCalls, DisjointCalls, OneHashPerCall, Unanswered
<1>3. \A q \in Reqs : /\ Queued(q)' <=> Queued(q)
                      /\ Taken(q)' <=> Taken(q)
                      /\ InCall(q)' <=> InCall(q)
                      /\ Answered(q)' <=> Answered(q)
  BY Zenon DEF Queued, Taken, InCall, Answered, Unanswered, IInv, TypeOK
<1>4. \A q \in Reqs : pc'[q] = IF q = r THEN "returned" ELSE pc[q]
  BY Zenon DEF IInv, TypeOK
<1>5. OnePlace'
  BY <1>3, <1>4 DEF IInv, OnePlace
<1>6. OwnChannel' /\ OwnAnswer'
  BY Zenon DEF IInv, TypeOK, OwnChannel, OwnAnswer
<1>7. NoLostWakeup'
  BY Zenon, <1>3, <1>4 DEF IInv, NoLostWakeup
<1> QED
  BY Zenon, <1>1, <1>2, <1>5, <1>6, <1>7 DEF IInv

\* The steps of run and of the process that move no request.
LEMMA RunQuietStep ==
  ASSUME IInv, RunSelectDone \/ RunSelectTrigger \/ WaitForIdle \/ DispatchDone \/ Drain \/ Shutdown
  PROVE  IInv'
<1>1. UNCHANGED <<requests, taken, calls, requestor, result, pc>>
  BY Zenon DEF RunSelectDone, RunSelectTrigger, WaitForIdle, WaitTrigger, WaitReturn, DispatchDone,
         Drain, Shutdown, addVars, runVars
<1>2. Placement'
  BY Zenon, <1>1, QuietStep
<1>3. TypeOK'
  <2>1. /\ trigger' \in 0..1
        /\ run' \in {"select", "idle", "take", "dispatch", "drain", "stopped"}
        /\ count' \in Nat
    BY DEF IInv, TypeOK, RunSelectDone, RunSelectTrigger, WaitForIdle, WaitTrigger, WaitReturn,
           DispatchDone, Drain, Shutdown, runVars
  <2>2. ctxDone' \in BOOLEAN
    BY Zenon DEF IInv, TypeOK, RunSelectDone, RunSelectTrigger, WaitForIdle, WaitTrigger,
           WaitReturn, DispatchDone, Drain, Shutdown
  <2> QED
    BY Zenon, <1>1, <2>1, <2>2 DEF IInv, TypeOK
<1>4. RunPhase'
  BY Zenon, <1>1 DEF IInv, RunPhase, RunSelectDone, RunSelectTrigger, WaitForIdle, WaitTrigger, WaitReturn,
         DispatchDone, Drain, Shutdown, runVars
<1>5. NoLostWakeup'
  <2>1. \A r \in Reqs : Queued(r)' <=> Queued(r)
    BY Zenon, <1>1 DEF Queued
  <2> QED
    BY Zenon, <1>1, <2>1 DEF IInv, NoLostWakeup, RunSelectDone, RunSelectTrigger, WaitForIdle, WaitTrigger,
           WaitReturn, DispatchDone, Drain, Shutdown, runVars
<1> QED
  BY Zenon, <1>2, <1>3, <1>4, <1>5 DEF IInv, Placement

\* The swap in run keeps it: every request passes from the map to the taken buckets.
LEMMA TakeStep ==
  ASSUME IInv, Take
  PROVE  IInv'
<1> USE DEF Take, addVars
<1>1. taken = NoRequests
  BY Zenon DEF IInv, RunPhase
<1>2. TypeOK' /\ RunPhase' /\ NoLostWakeup'
  BY Zenon, NoRequestsFacts DEF IInv, TypeOK, RunPhase, NoLostWakeup
<1>3. Bucketed(requests)' /\ Bucketed(taken)'
  BY Zenon, NoRequestsFacts DEF IInv, Bucketed
<1>4. WellFormedCalls' /\ DisjointCalls' /\ OneHashPerCall' /\ OwnChannel' /\ OwnAnswer'
  BY Zenon DEF IInv, WellFormedCalls, DisjointCalls, OneHashPerCall, Unanswered, OwnChannel, OwnAnswer
<1>5. \A q \in Reqs : /\ ~Queued(q)'
                      /\ ~Taken(q)
                      /\ Taken(q)' <=> Queued(q)
                      /\ InCall(q)' <=> InCall(q)
                      /\ Answered(q)' <=> Answered(q)
  BY Zenon, <1>1, NoRequestsFacts DEF Queued, Taken, InCall, Answered, Unanswered
<1>6. OnePlace'
  BY Zenon, <1>5 DEF IInv, OnePlace
<1> QED
  BY Zenon, <1>2, <1>3, <1>4, <1>6 DEF IInv

\* The worker Dispatch starts is due exactly the requests of its bucket.
LEMMA DispatchStep ==
  ASSUME IInv, NEW b \in Buckets, Dispatch(b)
  PROVE  IInv'
<1> DEFINE c == [reqs |-> taken[b], done |-> FALSE, results |-> <<>>, idx |-> 0]
<1>1. /\ run = "dispatch" /\ run' = run
      /\ taken[b] # <<>> /\ taken[b] \in Seq(Reqs) /\ taken \in [Buckets -> Seq(Reqs)]
      /\ calls' = calls \cup {c}
      /\ taken' = [taken EXCEPT ![b] = <<>>]
      /\ UNCHANGED <<pc, requests, trigger, count, requestor, result, ctxDone>>
  BY Zenon DEF Dispatch, addVars, IInv, TypeOK
<1>2. c \in Call
  BY Zenon, <1>1, EmptySeq DEF Call
<1>3. Unanswered(c) = Range(taken[b])
  BY <1>1, LenProperties DEF Unanswered, Range
<1>4. /\ \A d \in Buckets : Range(taken'[d]) = IF d = b THEN {} ELSE Range(taken[d])
      /\ taken'[b] = <<>>
  BY <1>1 DEF Range
<1>5. TypeOK'
  BY ZenonT(30), <1>1, <1>2, EmptySeq DEF IInv, TypeOK
<1>6. Bucketed(requests)' /\ Bucketed(taken)'
  <2>1. IsInjective(<<>>)
    BY DEF IsInjective
  <2> QED
    BY Zenon, <1>1, <1>4, <2>1 DEF IInv, Bucketed
<1>7. WellFormedCalls'
  BY <1>1, LenProperties DEF IInv, WellFormedCalls, Bucketed
<1>8. \A q \in Reqs : q \in Unanswered(c) => Taken(q) /\ ~InCall(q)
  <2> SUFFICES ASSUME NEW q \in Reqs, q \in Unanswered(c) PROVE Taken(q) /\ ~InCall(q)
    BY Zenon
  <2>1. Taken(q)
    BY Zenon, <1>3 DEF Taken
  <2>2. ~InCall(q)
    BY Zenon, <2>1 DEF IInv, OnePlace
  <2> QED
    BY Zenon, <2>1, <2>2
<1>9. DisjointCalls'
  <2>1. \A d \in calls, q \in Reqs : q \in Unanswered(c) => q \notin Unanswered(d)
    BY Zenon, <1>8 DEF InCall
  <2>2. \A d, e \in calls, q \in Reqs : q \in Unanswered(d) /\ q \in Unanswered(e) => d = e
    BY Zenon DEF IInv, DisjointCalls
  <2>3. \A d, e \in calls', q \in Reqs : q \in Unanswered(d) /\ q \in Unanswered(e) => d = e
    <3> HIDE DEF c
    <3> QED
      BY Zenon, <1>1, <2>1, <2>2
  <2> QED
    BY Zenon, <2>3 DEF DisjointCalls, Unanswered
<1>10. OneHashPerCall'
  BY <1>1 DEF IInv, OneHashPerCall, Bucketed, Range
<1>11. RunPhase' /\ OwnChannel' /\ OwnAnswer'
  BY Zenon, <1>1 DEF IInv, RunPhase, OwnChannel, OwnAnswer
<1>12. \A q \in Reqs : /\ Queued(q)' <=> Queued(q)
                       /\ Taken(q)' <=> Taken(q) /\ q \notin Unanswered(c)
                       /\ InCall(q)' <=> InCall(q) \/ q \in Unanswered(c)
                       /\ Answered(q)' <=> Answered(q)
  <2>1. \A q \in Reqs : (Queued(q)' <=> Queued(q)) /\ (Answered(q)' <=> Answered(q))
    BY Zenon, <1>1 DEF Queued, Answered
  <2>2. \A q \in Reqs : InCall(q)' <=> InCall(q) \/ q \in Unanswered(c)
    <3> HIDE DEF c
    <3> QED
      BY Zenon, <1>1 DEF InCall, Unanswered
  <2>3. \A q \in Reqs : Taken(q)' <=> Taken(q) /\ q \notin Unanswered(c)
    <3>1. \A q \in Reqs, d \in Buckets : q \in Range(taken[d]) => d = Hash[q]
      BY Zenon DEF IInv, Bucketed
    <3>2. \A q \in Reqs : q \in Unanswered(c) <=> q \in Range(taken[b])
      BY Zenon, <1>3
    <3> HIDE DEF c
    <3> QED
      BY Zenon, <1>4, <3>1, <3>2 DEF Taken
  <2> QED
    BY ZenonT(30), <2>1, <2>2, <2>3
<1>13. OnePlace'
  <2> HIDE DEF c
  <2> QED
    BY Zenon, <1>1, <1>8, <1>12 DEF IInv, OnePlace
<1>14. NoLostWakeup'
  BY Zenon, <1>1, <1>12 DEF IInv, NoLostWakeup
<1> QED
  BY Zenon, <1>5, <1>6, <1>7, <1>9, <1>10, <1>11, <1>13, <1>14 DEF IInv

\* A worker that moves on, keeping or answering requests of its own, disturbs no
\* other worker.
LEMMA WorkerStep ==
  ASSUME IInv, NEW c \in calls, NEW d, Unanswered(d) \subseteq Unanswered(c),
         calls' = (calls \ {c}) \cup {d}
  PROVE  /\ DisjointCalls'
         /\ \A q \in Reqs : InCall(q)' <=> InCall(q) /\ (q \in Unanswered(c) => q \in Unanswered(d))
<1>1. \A e, f \in calls, q \in Reqs : q \in Unanswered(e) /\ q \in Unanswered(f) => e = f
  BY Zenon DEF IInv, DisjointCalls
<1>2. \A e, f \in calls', q \in Reqs : q \in Unanswered(e) /\ q \in Unanswered(f) => e = f
  BY Zenon, <1>1
<1>3. DisjointCalls'
  BY Zenon, <1>2 DEF DisjointCalls, Unanswered
<1>4. \A q \in Reqs : (\E e \in calls' : q \in Unanswered(e)) <=>
                        InCall(q) /\ (q \in Unanswered(c) => q \in Unanswered(d))
  BY Zenon, <1>1 DEF InCall
<1>5. \A q \in Reqs : InCall(q)' <=> \E e \in calls' : q \in Unanswered(e)
  BY Zenon DEF InCall, Unanswered
<1> QED
  BY Zenon, <1>3, <1>4, <1>5

\* The return of the executor keeps it.
LEMMA ExecuteStep ==
  ASSUME IInv, NEW c \in calls, Execute(c)
  PROVE  IInv'
<1>1. PICK results \in Exec(c.reqs) :
        calls' = (calls \ {c}) \cup {[c EXCEPT !.done = TRUE, !.results = results]}
  BY ZenonT(30) DEF Execute
<1> DEFINE d == [c EXCEPT !.done = TRUE, !.results = results]
<1>2. /\ ~c.done
      /\ UNCHANGED <<pc, requests, trigger, run, count, taken, requestor, result, ctxDone>>
  BY Zenon DEF Execute, addVars, runVars
<1>3. c \in Call /\ c.reqs # <<>> /\ IsInjective(c.reqs) /\ c.idx = 0
  BY Zenon, <1>2 DEF IInv, TypeOK, WellFormedCalls
<1>4. /\ results \in Seq(Answers)
      /\ Len(results) <= Len(c.reqs)
      /\ \A i \in 1..Len(results) : results[i] \in AnswersFor(c.reqs[i])
  <2>1. c.reqs \in Seq(Reqs)
    BY Zenon, <1>3 DEF Call
  <2> QED
    BY Zenon, <1>3, <2>1, ExecResults
<1>5. /\ d \in Call
      /\ d.reqs = c.reqs /\ d.done = TRUE /\ d.results = results /\ d.idx = c.idx
  BY ZenonT(30), <1>3, <1>4 DEF Call
<1> HIDE DEF d
<1>6. Unanswered(d) = Unanswered(c)
  BY Zenon, <1>5 DEF Unanswered
<1>7. calls' = (calls \ {c}) \cup {d}
  BY Zenon, <1>1 DEF d
<1>8. DisjointCalls' /\ \A q \in Reqs : InCall(q)' <=> InCall(q)
  BY Zenon, <1>6, <1>7, WorkerStep
<1>9. TypeOK'
  BY Zenon, <1>2, <1>5, <1>7 DEF IInv, TypeOK
<1>10. WellFormedCalls'
  <2>1. c.idx <= Len(c.reqs)
    BY Zenon DEF IInv, WellFormedCalls
  <2> QED
    BY Zenon, <1>3, <1>4, <1>5, <1>7, <2>1 DEF IInv, WellFormedCalls
<1>11. OneHashPerCall'
  BY <1>5, <1>7 DEF IInv, OneHashPerCall
<1>12. Bucketed(requests)' /\ Bucketed(taken)' /\ OwnChannel' /\ OwnAnswer'
  BY Zenon, <1>2 DEF IInv, Bucketed, OwnChannel, OwnAnswer
<1>13. RunPhase'
  BY Zenon, <1>2 DEF IInv, RunPhase
<1>14. \A q \in Reqs : /\ Queued(q)' <=> Queued(q)
                       /\ Taken(q)' <=> Taken(q)
                       /\ Answered(q)' <=> Answered(q)
  BY Zenon, <1>2 DEF Queued, Taken, Answered
<1>15. OnePlace' /\ NoLostWakeup'
  BY Zenon, <1>2, <1>8, <1>14 DEF IInv, OnePlace, NoLostWakeup
<1> QED
  BY Zenon, <1>8, <1>9, <1>10, <1>11, <1>12, <1>13, <1>15 DEF IInv

\* A send in runCalls keeps it: one request passes from the worker to its channel.
LEMMA DeliverStep ==
  ASSUME IInv, NEW c \in calls, Deliver(c)
  PROVE  IInv'
<1> DEFINE d == [c EXCEPT !.idx = @ + 1]
           r == c.reqs[c.idx + 1]
           res == ResultAt(c, c.idx + 1)
<1>1. /\ c.done /\ c.idx < Len(c.reqs)
      /\ requestor' = [requestor EXCEPT ![r] = res]
      /\ calls' = (calls \ {c}) \cup {d}
      /\ UNCHANGED <<pc, requests, trigger, run, count, taken, result, ctxDone>>
  BY Zenon DEF Deliver, addVars, runVars
<1>2. /\ c \in Call /\ c.reqs \in Seq(Reqs) /\ c.idx \in Nat /\ Len(c.reqs) \in Nat
      /\ c.results \in Seq(Answers) /\ Len(c.results) \in Nat /\ IsInjective(c.reqs)
  BY Zenon, LenProperties DEF IInv, TypeOK, Call, WellFormedCalls
<1>3. c.idx + 1 \in 1..Len(c.reqs) /\ r \in Reqs
  BY <1>1, <1>2, ElementOfSeq
<1>4. res \in Answers /\ res \in AnswersFor(r) \cup {CallError} /\ res # None
  <2>1. res \in AnswersFor(r) \cup {CallError}
    <3>1. \A i \in 1..Len(c.results) : c.results[i] \in AnswersFor(c.reqs[i])
      BY Zenon, <1>1 DEF IInv, WellFormedCalls
    <3> QED
      BY <1>2, <1>3, <3>1 DEF ResultAt
  <2> HIDE DEF r, res
  <2> QED
    BY Zenon, <1>3, <2>1, AnswerFacts
<1>5. /\ d \in Call
      /\ d.reqs = c.reqs /\ d.done = c.done /\ d.results = c.results /\ d.idx = c.idx + 1
  BY <1>2 DEF Call
<1>6. r \in Unanswered(c) /\ Unanswered(d) = Unanswered(c) \ {r}
  <2>1. DOMAIN c.reqs = 1..Len(c.reqs)
    BY Zenon, <1>2, LenProperties
  <2>2. \A i \in (c.idx + 2)..Len(c.reqs) : c.reqs[i] # r
    BY <1>2, <1>3, <2>1 DEF IsInjective
  <2> HIDE DEF d
  <2> QED
    BY <1>2, <1>3, <1>5, <2>2 DEF Unanswered
<1> HIDE DEF d, r, res
<1>7. DisjointCalls' /\ \A q \in Reqs : InCall(q)' <=> InCall(q) /\ q # r
  <2>1. Unanswered(d) \subseteq Unanswered(c)
    BY Zenon, <1>6
  <2>2. \A q \in Reqs : InCall(q)' <=> InCall(q) /\ (q \in Unanswered(c) => q \in Unanswered(d))
    BY Zenon, <1>1, <2>1, WorkerStep
  <2>3. DisjointCalls'
    BY Zenon, <1>1, <2>1, WorkerStep
  <2>4. \A q \in Reqs : (q \in Unanswered(c) => q \in Unanswered(d)) <=> q # r
    BY Zenon, <1>6
  <2> QED
    BY Zenon, <2>2, <2>3, <2>4
<1>8. InCall(r)
  BY Zenon, <1>6 DEF InCall
<1>9. TypeOK'
  BY Zenon, <1>1, <1>3, <1>4, <1>5 DEF IInv, TypeOK
<1>10. WellFormedCalls'
  <2>1. \A e \in calls :
          /\ e.reqs # <<>> /\ IsInjective(e.reqs)
          /\ e.idx <= Len(e.reqs)
          /\ ~e.done => e.idx = 0
          /\ e.done => /\ Len(e.results) <= Len(e.reqs)
                       /\ \A i \in 1..Len(e.results) : e.results[i] \in AnswersFor(e.reqs[i])
    BY Zenon DEF IInv, WellFormedCalls
  <2>2. d.idx <= Len(d.reqs)
    BY SMTT(30), <1>2, <1>3, <1>5
  <2> QED
    BY <1>1, <1>5, <2>1, <2>2, Zenon DEF WellFormedCalls
<1>11. OneHashPerCall'
  BY <1>1, <1>5 DEF IInv, OneHashPerCall
<1>12. Bucketed(requests)' /\ Bucketed(taken)' /\ OwnAnswer'
  BY Zenon, <1>1 DEF IInv, Bucketed, OwnAnswer
<1>13. OwnChannel'
  BY Zenon, <1>1, <1>3, <1>4 DEF IInv, TypeOK, OwnChannel
<1>14. RunPhase'
  BY Zenon, <1>1 DEF IInv, RunPhase
<1>15. \A q \in Reqs : /\ Queued(q)' <=> Queued(q)
                       /\ Taken(q)' <=> Taken(q)
                       /\ Answered(q)' <=> Answered(q) \/ q = r
  <2>1. \A q \in Reqs : requestor'[q] = IF q = r THEN res ELSE requestor[q]
    BY Zenon, <1>1, <1>3 DEF IInv, TypeOK
  <2> QED
    BY Zenon, <1>1, <1>4, <2>1 DEF Queued, Taken, Answered
<1>16. OnePlace'
  BY Zenon, <1>1, <1>3, <1>7, <1>8, <1>15 DEF IInv, OnePlace
<1>17. NoLostWakeup'
  BY Zenon, <1>1, <1>15 DEF IInv, NoLostWakeup
<1> QED
  BY Zenon, <1>7, <1>9, <1>10, <1>11, <1>12, <1>13, <1>14, <1>16, <1>17 DEF IInv

\* The end of a worker keeps it: nobody is still due an answer from it.
LEMMA FinishStep ==
  ASSUME IInv, NEW c \in calls, Finish(c)
  PROVE  IInv'
<1>1. /\ c.idx = Len(c.reqs)
      /\ calls' = calls \ {c}
      /\ UNCHANGED <<pc, requests, trigger, run, count, taken, requestor, result, ctxDone>>
  BY Zenon DEF Finish, addVars, runVars
<1>2. Unanswered(c) = {}
  <2>1. Len(c.reqs) \in Nat
    BY Zenon, LenProperties DEF IInv, TypeOK, Call
  <2>2. (c.idx + 1)..Len(c.reqs) = {}
    BY <1>1, <2>1
  <2> QED
    BY Zenon, <2>2 DEF Unanswered
<1>3. TypeOK'
  BY Zenon, <1>1 DEF IInv, TypeOK
<1>4. WellFormedCalls' /\ OneHashPerCall' /\ RunPhase'
  BY Zenon, <1>1 DEF IInv, WellFormedCalls, OneHashPerCall, RunPhase
<1>5. DisjointCalls'
  BY Zenon, <1>1 DEF IInv, DisjointCalls, Unanswered
<1>6. Bucketed(requests)' /\ Bucketed(taken)' /\ OwnChannel' /\ OwnAnswer'
  BY Zenon, <1>1 DEF IInv, Bucketed, OwnChannel, OwnAnswer
<1>7. \A q \in Reqs : /\ Queued(q)' <=> Queued(q)
                      /\ Taken(q)' <=> Taken(q)
                      /\ InCall(q)' <=> InCall(q)
                      /\ Answered(q)' <=> Answered(q)
  <2>1. \A q \in Reqs : (\E e \in calls' : q \in Unanswered(e)) <=> InCall(q)
    BY Zenon, <1>1, <1>2 DEF InCall
  <2>2. \A q \in Reqs : InCall(q)' <=> \E e \in calls' : q \in Unanswered(e)
    BY Zenon DEF InCall, Unanswered
  <2> QED
    BY Zenon, <1>1, <2>1, <2>2 DEF Queued, Taken, Answered
<1>8. OnePlace' /\ NoLostWakeup'
  BY Zenon, <1>1, <1>7 DEF IInv, OnePlace, NoLostWakeup
<1> QED
  BY Zenon, <1>3, <1>4, <1>5, <1>6, <1>8 DEF IInv

-----------------------------------------------------------------------------
(* Theorems *)

\* Every step of callers, run, workers and shutdown keeps the invariant.
LEMMA NextIInv == IInv /\ [Next]_vars => IInv'
<1> SUFFICES ASSUME IInv, [Next]_vars PROVE IInv'
  BY Zenon
<1>1. CASE \E r \in Reqs : Add(r)
  BY Zenon, <1>1, AddRegisterStep, AddTriggerStep, AddReturnStep DEF Add
<1>2. CASE Run
  BY Zenon, <1>2, RunQuietStep, TakeStep, DispatchStep DEF Run
<1>3. CASE \E c \in calls : RunCalls(c)
  BY Zenon, <1>3, ExecuteStep, DeliverStep, FinishStep DEF RunCalls
<1>4. CASE Shutdown
  BY Zenon, <1>4, RunQuietStep
<1>5. CASE UNCHANGED vars
  <2>1. Placement'
    BY Zenon, <1>5, QuietStep DEF vars
  <2>2. TypeOK' /\ RunPhase'
    BY Zenon, <1>5 DEF vars, IInv, TypeOK, RunPhase
  <2>3. NoLostWakeup'
    BY Zenon, <1>5 DEF vars, IInv, NoLostWakeup, Queued
  <2> QED
    BY Zenon, <2>1, <2>2, <2>3 DEF IInv, Placement
<1> QED
  BY Zenon, <1>1, <1>2, <1>3, <1>4, <1>5 DEF Next

\* The inductive invariant of the batcher holds in every behaviour of Add, run and
\* runCalls, for any requests, hashes, limits and executor.
THEOREM Invariance == Spec => []IInv
BY InitIInv, NextIInv, PTL DEF Spec

\* A caller that has returned holds a result, and only then: the receive in Add is
\* the last thing it does, and no worker sends to it again.
LEMMA NextReturned ==
  IInv /\ ReturnedWithResult /\ [Next]_vars => ReturnedWithResult'
<1> SUFFICES ASSUME IInv, ReturnedWithResult, [Next]_vars
             PROVE  ReturnedWithResult'
  BY Zenon
<1> USE DEF ReturnedWithResult
<1>1. ASSUME NEW r \in Reqs, AddRegister(r) \/ AddTrigger(r)
      PROVE  ReturnedWithResult'
  BY Zenon, <1>1 DEF AddRegister, AddTrigger, IInv, TypeOK
<1>2. ASSUME NEW r \in Reqs, AddReturn(r)
      PROVE  ReturnedWithResult'
  BY Zenon, <1>2 DEF AddReturn, IInv, TypeOK
<1>3. CASE Run \/ Shutdown \/ UNCHANGED vars
  BY ZenonT(30), <1>3 DEF Run, RunSelectDone, RunSelectTrigger, WaitForIdle, WaitTrigger, WaitReturn,
              Take, Dispatch, DispatchDone, Drain, Shutdown, addVars, vars
<1>4. ASSUME NEW c \in calls, Execute(c) \/ Finish(c)
      PROVE  ReturnedWithResult'
  BY ZenonT(30), <1>4 DEF Execute, Finish, addVars
<1>5. ASSUME NEW c \in calls, Deliver(c)
      PROVE  ReturnedWithResult'
  <2> DEFINE q == c.reqs[c.idx + 1]
  <2>1. c.reqs \in Seq(Reqs) /\ c.idx \in Nat /\ Len(c.reqs) \in Nat
    BY Zenon, LenProperties DEF IInv, TypeOK, Call
  <2>2. c.idx + 1 \in 1..Len(c.reqs) /\ q \in Reqs
    BY SMTT(30), <1>5, <2>1, ElementOfSeq DEF Deliver
  <2>3. InCall(q)
    BY SMTT(30), <2>2 DEF InCall, Unanswered
  <2>4. result[q] = None
    BY Zenon, <2>2, <2>3 DEF IInv, OnePlace, Answered
  <2>5. \A r \in Reqs : r # q => requestor'[r] = requestor[r]
    BY Zenon, <1>5 DEF Deliver, IInv, TypeOK
  <2> QED
    BY Zenon, <1>5, <2>4, <2>5 DEF Deliver, addVars
<1> QED
  BY Zenon, <1>1, <1>2, <1>3, <1>4, <1>5 DEF Next, Add, RunCalls

\* runCalls never blocks on a requestor channel, which has room for one result.
LEMMA WorkersNeverBlock == IInv => WorkerNeverBlocks
<1> SUFFICES ASSUME IInv, NEW c \in calls, c.done, c.idx < Len(c.reqs)
             PROVE  requestor[c.reqs[c.idx + 1]] = None
  BY Zenon DEF WorkerNeverBlocks
<1>1. c.reqs \in Seq(Reqs) /\ c.idx \in Nat /\ Len(c.reqs) \in Nat
  BY Zenon, LenProperties DEF IInv, TypeOK, Call
<1>2. c.idx + 1 \in 1..Len(c.reqs) /\ c.reqs[c.idx + 1] \in Reqs
  BY <1>1, ElementOfSeq
<1>3. InCall(c.reqs[c.idx + 1])
  BY <1>2 DEF InCall, Unanswered
<1> QED
  BY Zenon, <1>2, <1>3 DEF IInv, OnePlace, Answered

\* When run has stopped, every request it ever took has its answer.
LEMMA Drained == IInv => DrainedOnStop
<1> SUFFICES ASSUME IInv, run = "stopped", NEW r \in Reqs
             PROVE  pc[r] = "start" \/ Queued(r) \/ Answered(r)
  BY Zenon DEF DrainedOnStop
<1>1. ~InCall(r)
  BY Zenon DEF IInv, RunPhase, InCall
<1>2. ~Taken(r)
  BY Zenon, NoRequestsFacts DEF IInv, RunPhase, Taken
<1> QED
  BY Zenon, <1>1, <1>2 DEF IInv, OnePlace

\* The safety of the batcher: whatever the interleaving of callers, run, workers and
\* shutdown, a registered request is in exactly one place, a caller returns with a
\* result about its own request, batches have one hash, no wakeup is lost, no worker
\* blocks on a caller, and run leaves nothing unanswered that it has taken.
THEOREM BatcherSafety == Spec => []BatcherInv
<1>1. NewBatcher => ReturnedWithResult
  BY Zenon DEF NewBatcher, ReturnedWithResult
<1>2. IInv /\ ReturnedWithResult => BatcherInv
  BY Zenon, WorkersNeverBlock, Drained DEF BatcherInv
<1> QED
  BY <1>1, <1>2, InitIInv, NextIInv, NextReturned, PTL DEF Spec

-----------------------------------------------------------------------------
(* The refinement mapping without its choices *)

\* What AnswerOf is in each place a request can be; the choices in its definition
\* are of the one worker, and the one position in its batch, that a request has.
AnswerChar ==
    \A r \in Reqs :
        /\ result[r] # None => AnswerOf(r) = result[r]
        /\ result[r] = None /\ requestor[r] # None => AnswerOf(r) = requestor[r]
        /\ \A c \in calls : \A i \in (c.idx + 1)..Len(c.reqs) :
              c.done /\ c.reqs[i] = r => AnswerOf(r) = ResultAt(c, i)
        /\ ~Answered(r) /\ (\A c \in calls : ~Decided(c, r)) => AnswerOf(r) = None

\* The facts about a worker that the steps below share.
LEMMA CallFacts ==
  ASSUME IInv, NEW c \in calls
  PROVE  /\ c = [reqs |-> c.reqs, done |-> c.done, results |-> c.results, idx |-> c.idx]
         /\ c.reqs \in Seq(Reqs) /\ c.reqs # <<>> /\ IsInjective(c.reqs)
         /\ c.done \in BOOLEAN /\ c.results \in Seq(Answers)
         /\ c.idx \in Nat /\ Len(c.reqs) \in Nat /\ c.idx <= Len(c.reqs)
         /\ DOMAIN c.reqs = 1..Len(c.reqs)
         /\ \A i \in (c.idx + 1)..Len(c.reqs) :
               i \in 1..Len(c.reqs) /\ c.reqs[i] \in Reqs /\ c.reqs[i] \in Unanswered(c)
<1>1. c \in Call
  BY Zenon DEF IInv, TypeOK
<1>2. c.reqs # <<>> /\ IsInjective(c.reqs) /\ c.idx <= Len(c.reqs)
  BY Zenon DEF IInv, WellFormedCalls
<1>3. /\ c.reqs \in Seq(Reqs) /\ c.idx \in Nat /\ Len(c.reqs) \in Nat
      /\ DOMAIN c.reqs = 1..Len(c.reqs)
  BY Zenon, <1>1, LenProperties DEF Call
<1>4. \A i \in (c.idx + 1)..Len(c.reqs) : i \in 1..Len(c.reqs) /\ c.reqs[i] \in Reqs
  BY <1>3, ElementOfSeq
<1>5. \A i \in (c.idx + 1)..Len(c.reqs) : c.reqs[i] \in Unanswered(c)
  BY Zenon DEF Unanswered
<1> QED
  BY Zenon, <1>1, <1>2, <1>3, <1>4, <1>5 DEF Call

\* The mapping's choices are determined.
LEMMA AnswerCharHolds == IInv => AnswerChar
<1> SUFFICES ASSUME IInv, NEW r \in Reqs
             PROVE  /\ result[r] # None => AnswerOf(r) = result[r]
                    /\ result[r] = None /\ requestor[r] # None => AnswerOf(r) = requestor[r]
                    /\ \A c \in calls : \A i \in (c.idx + 1)..Len(c.reqs) :
                          c.done /\ c.reqs[i] = r => AnswerOf(r) = ResultAt(c, i)
                    /\ ~Answered(r) /\ (\A c \in calls : ~Decided(c, r)) => AnswerOf(r) = None
  BY Zenon DEF AnswerChar
<1>1. result[r] # None => AnswerOf(r) = result[r]
  BY Zenon DEF AnswerOf
<1>2. result[r] = None /\ requestor[r] # None => AnswerOf(r) = requestor[r]
  BY Zenon DEF AnswerOf
<1>3. ASSUME NEW c \in calls, NEW i \in (c.idx + 1)..Len(c.reqs), c.done, c.reqs[i] = r
      PROVE  AnswerOf(r) = ResultAt(c, i)
  <2>1. i \in DOMAIN c.reqs /\ IsInjective(c.reqs) /\ r \in Unanswered(c)
    BY Zenon, <1>3, CallFacts
  <2>2. Decided(c, r)
    BY Zenon, <1>3, <2>1 DEF Decided
  <2>3. \A d \in calls : Decided(d, r) => d = c
    BY Zenon, <2>1 DEF Decided, IInv, DisjointCalls
  <2>4. c = CHOOSE d \in calls : Decided(d, r)
    BY Zenon, <2>2, <2>3
  <2>5. \A j \in DOMAIN c.reqs : c.reqs[j] = r => j = i
    BY Zenon, <1>3, <2>1 DEF IsInjective
  <2>6. i = CHOOSE j \in DOMAIN c.reqs : c.reqs[j] = r
    BY Zenon, <1>3, <2>1, <2>5
  <2>7. ~Answered(r)
    BY Zenon, <2>1 DEF IInv, OnePlace, InCall
  <2> QED
    BY Zenon, <2>2, <2>4, <2>6, <2>7 DEF AnswerOf, Answered
<1>4. ~Answered(r) /\ (\A c \in calls : ~Decided(c, r)) => AnswerOf(r) = None
  BY Zenon DEF AnswerOf, Answered
<1> QED
  BY Zenon, <1>1, <1>2, <1>3, <1>4

\* The same after a step.
LEMMA AnswerCharAfter == IInv' => AnswerChar'
BY AnswerCharHolds, PTL

-----------------------------------------------------------------------------
(* The mapping of each step *)

\* A step that touches neither channel nor returned result, and the workers' decided
\* answers only in form, changes no answer.
LEMMA SameAnswers ==
  ASSUME IInv, IInv', UNCHANGED <<requestor, result>>,
         \A c \in calls : c.done /\ Unanswered(c) # {} => c \in calls',
         \A c \in calls' : c.done => c \in calls
  PROVE  \A r \in Reqs : AnswerOf(r)' = AnswerOf(r)
<1> SUFFICES ASSUME NEW r \in Reqs PROVE AnswerOf(r)' = AnswerOf(r)
  BY Zenon
<1>1. AnswerChar /\ AnswerChar'
  BY Zenon, AnswerCharHolds, AnswerCharAfter
<1>2. CASE Answered(r)
  BY Zenon, <1>1, <1>2 DEF AnswerChar, Answered
<1>3. CASE ~Answered(r) /\ \E c \in calls : Decided(c, r)
  <2>1. PICK c \in calls : c.done /\ r \in Unanswered(c)
    BY Zenon, <1>3 DEF Decided
  <2>2. PICK i \in (c.idx + 1)..Len(c.reqs) : c.reqs[i] = r
    BY Zenon, <2>1 DEF Unanswered
  <2>3. c \in calls'
    BY Zenon, <2>1
  <2>4. AnswerOf(r) = ResultAt(c, i)
    BY ZenonT(30), <1>1, <2>1, <2>2 DEF AnswerChar
  <2>5. AnswerOf(r)' = ResultAt(c, i)
    BY Zenon, <1>1, <2>1, <2>2, <2>3 DEF AnswerChar, ResultAt
  <2> QED
    BY Zenon, <2>4, <2>5
<1>4. CASE ~Answered(r) /\ \A c \in calls : ~Decided(c, r)
  <2>1. \A c \in calls' : ~Decided(c, r)
    BY Zenon, <1>4 DEF Decided
  <2>2. ~Answered(r)' /\ \A c \in calls' : ~Decided(c, r)'
    BY Zenon, <1>4, <2>1 DEF Answered, Decided, Unanswered
  <2>3. AnswerOf(r)' = None
    BY Zenon, <1>1, <2>2 DEF AnswerChar
  <2> QED
    BY Zenon, <1>1, <1>4, <2>3 DEF AnswerChar
<1> QED
  BY Zenon, <1>2, <1>3, <1>4

\* Callers see nothing of a step that changes no answer and moves no caller.
LEMMA Invisible ==
  ASSUME \A r \in Reqs : AnswerOf(r)' = AnswerOf(r),
         \A r \in Reqs : \/ pc'[r] = pc[r]
                         \/ pc[r] = "trigger" /\ pc'[r] = "wait",
         UNCHANGED ctxDone
  PROVE  UNCHANGED Service!vars
<1>1. \A r \in Reqs : Phase(r)' = Phase(r)
  BY Zenon DEF Phase
<1> QED
  BY Zenon, <1>1 DEF Service!vars

\* Registering a request submits it.
LEMMA AddRegisterMaps ==
  ASSUME IInv, IInv', NEW r \in Reqs, AddRegister(r)
  PROVE  Service!Submit(r)
<1>1. UNCHANGED <<calls, requestor, result, ctxDone>> /\ pc[r] = "start"
  BY Zenon DEF AddRegister
<1>2. \A q \in Reqs : AnswerOf(q)' = AnswerOf(q)
  BY Zenon, <1>1, SameAnswers
<1>3. AnswerOf(r) = None
  <2>1. ~Answered(r) /\ ~InCall(r)
    BY ZenonT(30), <1>1 DEF IInv, OnePlace
  <2>2. \A c \in calls : ~Decided(c, r)
    BY Zenon, <2>1 DEF InCall, Decided
  <2> QED
    BY Zenon, <2>1, <2>2, AnswerCharHolds DEF AnswerChar
<1>4. Phase(r) = "idle" /\ Phase(r)' = "pending"
  <2>1. pc'[r] = "trigger"
    BY Zenon DEF AddRegister, IInv, TypeOK
  <2> QED
    BY Zenon, <1>1, <1>2, <1>3, <2>1 DEF Phase
<1>5. \A q \in Reqs : q # r => Phase(q)' = Phase(q)
  <2>1. \A q \in Reqs : q # r => pc'[q] = pc[q]
    BY Zenon DEF AddRegister, IInv, TypeOK
  <2> QED
    BY Zenon, <1>2, <2>1 DEF Phase
<1> QED
  BY ZenonT(30), <1>1, <1>2, <1>4, <1>5 DEF Service!Submit

\* Receiving the result is the caller's return.
LEMMA AddReturnMaps ==
  ASSUME IInv, IInv', ReturnedWithResult, NEW r \in Reqs, AddReturn(r)
  PROVE  Service!Return(r)
<1>1. /\ pc[r] = "wait" /\ requestor[r] # None /\ result[r] = None
      /\ UNCHANGED <<calls, ctxDone>>
      /\ pc'[r] = "returned" /\ result'[r] = requestor[r]
      /\ \A q \in Reqs : q # r => /\ pc'[q] = pc[q] /\ result'[q] = result[q]
                                  /\ requestor'[q] = requestor[q]
  BY Zenon DEF AddReturn, ReturnedWithResult, IInv, TypeOK
<1>2. AnswerChar /\ AnswerChar'
  BY Zenon, AnswerCharHolds, AnswerCharAfter
<1>3. AnswerOf(r) = requestor[r] /\ AnswerOf(r)' = requestor[r]
  <2>1. result[r] = None /\ requestor[r] # None /\ result'[r] = requestor[r]
    BY Zenon, <1>1
  <2>2. AnswerOf(r) = requestor[r]
    BY Zenon, <1>2, <2>1 DEF AnswerChar
  <2>3. AnswerOf(r)' = requestor[r]
    BY Zenon, <1>2, <2>1 DEF AnswerChar
  <2> QED BY Zenon, <2>2, <2>3
<1>4. ASSUME NEW q \in Reqs, q # r PROVE AnswerOf(q)' = AnswerOf(q)
  <2>1. result'[q] = result[q] /\ requestor'[q] = requestor[q]
    BY Zenon, <1>1, <1>4
  <2>2. calls' = calls
    BY Zenon, <1>1
  <2> QED BY <2>1, <2>2 DEF AnswerOf, Decided, Unanswered, ResultAt
<1>5. \A q \in Reqs : AnswerOf(q)' = AnswerOf(q)
  BY Zenon, <1>3, <1>4
<1>6. Phase(r) = "answered" /\ Phase(r)' = "returned"
  BY Zenon, <1>1, <1>3 DEF Phase
<1>7. \A q \in Reqs : q # r => Phase(q)' = Phase(q)
  BY Zenon, <1>1, <1>5 DEF Phase
<1> QED
  BY ZenonT(30), <1>1, <1>5, <1>6, <1>7 DEF Service!Return

\* The executor's return decides the answer of every request of the worker's batch,
\* all of which were pending, by its position; and nobody else's.
LEMMA ExecuteDecides ==
  ASSUME IInv, IInv', ReturnedWithResult, NEW c \in calls, NEW results \in Exec(c.reqs),
         ~c.done, UNCHANGED <<pc, result, requestor, ctxDone>>,
         calls' = (calls \ {c}) \cup {[c EXCEPT !.done = TRUE, !.results = results]}
  PROVE  /\ c.reqs \in Batches
         /\ \A i \in 1..Len(c.reqs) :
               /\ AnswerOf(c.reqs[i]) = None
               /\ AnswerOf(c.reqs[i])' = IF i <= Len(results) THEN results[i] ELSE CallError
               /\ Phase(c.reqs[i]) = "pending" /\ Phase(c.reqs[i])' = "answered"
         /\ \A r \in Reqs : r \notin Range(c.reqs) =>
               AnswerOf(r)' = AnswerOf(r) /\ Phase(r)' = Phase(r)
<1> DEFINE d == [c EXCEPT !.done = TRUE, !.results = results]
<1>1. calls' = (calls \ {c}) \cup {d}
  BY Zenon
<1>2. /\ ~c.done /\ c.idx = 0 /\ UNCHANGED <<pc, result, requestor, ctxDone>>
      /\ d.reqs = c.reqs /\ d.done /\ d.results = results /\ d.idx = 0
  <2>1. ~c.done /\ UNCHANGED <<pc, result, requestor, ctxDone>>
    BY Zenon
  <2>2. c.idx = 0
    BY Zenon, <2>1 DEF IInv, WellFormedCalls
  <2>3. d.reqs = c.reqs /\ d.done /\ d.results = results /\ d.idx = c.idx
    BY CallFacts
  <2> QED
    BY Zenon, <2>1, <2>2, <2>3
<1>3. /\ c.reqs \in Seq(Reqs) /\ c.reqs # <<>> /\ IsInjective(c.reqs)
      /\ DOMAIN c.reqs = 1..Len(c.reqs) /\ Len(c.reqs) \in Nat
      /\ \A i \in 1..Len(c.reqs) : c.reqs[i] \in Reqs /\ c.reqs[i] \in Unanswered(c)
  BY <1>2, CallFacts
<1>4. c.reqs \in Batches
  BY Zenon, <1>3, BucketIsBatch
<1> HIDE DEF d
<1>5. d \in calls' /\ \A e \in calls' : e = d \/ e \in calls \ {c}
  BY Zenon, <1>1
<1>6. AnswerChar /\ AnswerChar'
  BY Zenon, AnswerCharHolds, AnswerCharAfter
<1>7. ASSUME NEW i \in 1..Len(c.reqs)
      PROVE  /\ AnswerOf(c.reqs[i]) = None
             /\ AnswerOf(c.reqs[i])' = IF i <= Len(results) THEN results[i] ELSE CallError
             /\ Phase(c.reqs[i]) = "pending" /\ Phase(c.reqs[i])' = "answered"
  <2> DEFINE r == c.reqs[i]
  <2>1. r \in Reqs /\ r \in Unanswered(c) /\ InCall(r)
    BY Zenon, <1>3, <1>7 DEF InCall
  <2>2. ~Answered(r) /\ pc[r] # "start" /\ pc[r] # "returned"
    BY Zenon, <2>1 DEF IInv, OnePlace, Answered, ReturnedWithResult
  <2>3. \A e \in calls : ~Decided(e, r)
    BY Zenon, <1>2, <2>1 DEF Decided, IInv, DisjointCalls
  <2>4. AnswerOf(r) = None
    BY Zenon, <1>6, <2>1, <2>2, <2>3 DEF AnswerChar
  <2>5. AnswerOf(r)' = ResultAt(d, i)
    <3>1. i \in (d.idx + 1)..Len(d.reqs) /\ d.reqs[i] = r
      BY <1>2, <1>3, <1>7
    <3>2. (d.done /\ d.reqs[i] = r) => AnswerOf(r)' = ResultAt(d, i)
      BY Zenon, <1>5, <1>6, <2>1, <3>1 DEF AnswerChar, ResultAt
    <3> QED
      BY Zenon, <1>2, <3>1, <3>2
  <2>6. ResultAt(d, i) # None
    <3>1. /\ results \in Seq(Answers) /\ Len(results) <= Len(c.reqs)
                  /\ \A j \in 1..Len(results) : results[j] \in AnswersFor(c.reqs[j])
      BY Zenon, <1>3, ExecResults
    <3>2. Len(results) \in Nat
      BY Zenon, <3>1, LenProperties
    <3>3. i <= Len(results) => results[i] \in AnswersFor(r)
      BY <1>7, <3>1, <3>2
    <3> QED
      BY Zenon, <1>2, <2>1, <3>3, AnswerFacts DEF ResultAt
  <2>7. pc'[r] = pc[r]
    BY Zenon, <1>2
  <2> QED
    BY Zenon, <1>2, <2>1, <2>2, <2>4, <2>5, <2>6, <2>7 DEF Phase, ResultAt
<1>8. ASSUME NEW r \in Reqs, r \notin Range(c.reqs)
      PROVE  AnswerOf(r)' = AnswerOf(r) /\ Phase(r)' = Phase(r)
  <2>1. r \notin Unanswered(c) /\ r \notin Unanswered(d)
    BY <1>2, <1>3, <1>8 DEF Unanswered, Range
  <2>2. \A e \in calls : Decided(e, r) => e \in calls'
    BY Zenon, <1>1, <2>1 DEF Decided
  <2>3. \A e \in calls' : Decided(e, r) => e \in calls
    BY Zenon, <1>5, <2>1 DEF Decided
  <2>4. AnswerOf(r)' = AnswerOf(r)
    <3>1. CASE Answered(r)
      BY <1>2, <1>6, <3>1 DEF AnswerChar, Answered
    <3>2. CASE ~Answered(r) /\ \E e \in calls : Decided(e, r)
      <4>1. PICK e \in calls : Decided(e, r)
        BY Zenon, <3>2
      <4>2. PICK i \in (e.idx + 1)..Len(e.reqs) : e.reqs[i] = r
        BY Zenon, <4>1 DEF Decided, Unanswered
      <4>3. AnswerOf(r) = ResultAt(e, i)
        BY Zenon, <1>6, <4>1, <4>2 DEF AnswerChar, Decided
      <4>4. AnswerOf(r)' = ResultAt(e, i)
        BY Zenon, <1>6, <2>2, <4>1, <4>2 DEF AnswerChar, Decided, ResultAt
      <4> QED
        BY Zenon, <4>3, <4>4
    <3>3. CASE ~Answered(r) /\ \A e \in calls : ~Decided(e, r)
      <4>1. ~Answered(r)' /\ \A e \in calls' : ~Decided(e, r)'
        BY Zenon, <1>2, <2>3, <3>3 DEF Answered, Decided, Unanswered
      <4> QED
        BY Zenon, <1>6, <3>3, <4>1 DEF AnswerChar
    <3> QED
      BY Zenon, <3>1, <3>2, <3>3
  <2> QED
    BY Zenon, <1>2, <2>4 DEF Phase
<1> QED
  BY Zenon, <1>4, <1>7, <1>8

\* The executor's return answers the worker's batch, all of it and at once.
LEMMA ExecuteMaps ==
  ASSUME IInv, IInv', ReturnedWithResult, NEW c \in calls, Execute(c)
  PROVE  c.reqs \in Batches /\ Service!AnswerBatch(c.reqs)
<1>1. PICK results \in Exec(c.reqs) :
        calls' = (calls \ {c}) \cup {[c EXCEPT !.done = TRUE, !.results = results]}
  BY ZenonT(30) DEF Execute
<1>2. ~c.done /\ UNCHANGED <<pc, result, requestor, ctxDone>>
  BY Zenon DEF Execute, addVars
<1>3. /\ IsInjective(c.reqs) /\ DOMAIN c.reqs = 1..Len(c.reqs)
      /\ \A i \in 1..Len(c.reqs) : c.reqs[i] \in Reqs
  BY Zenon, CallFacts, ElementOfSeq
<1>4. c.reqs \in Batches
  BY ZenonT(30), <1>1, <1>2, ExecuteDecides
<1>5. ASSUME NEW i \in 1..Len(c.reqs)
      PROVE  /\ AnswerOf(c.reqs[i])' = IF i <= Len(results) THEN results[i] ELSE CallError
             /\ Phase(c.reqs[i]) = "pending" /\ Phase(c.reqs[i])' = "answered"
  BY ZenonT(30), <1>1, <1>2, ExecuteDecides
<1>6. ASSUME NEW r \in Reqs, r \notin Range(c.reqs)
      PROVE  AnswerOf(r)' = AnswerOf(r) /\ Phase(r)' = Phase(r)
  BY ZenonT(30), <1>1, <1>2, <1>6, ExecuteDecides
<1>7. \A i \in DOMAIN c.reqs : (CHOOSE j \in DOMAIN c.reqs : c.reqs[j] = c.reqs[i]) = i
  BY Zenon, <1>3 DEF IsInjective
<1>8. ASSUME NEW r \in Reqs
       PROVE  /\ Phase(r)' = IF r \in Range(c.reqs) THEN "answered" ELSE Phase(r)
              /\ AnswerOf(r)' = IF r \in Range(c.reqs)
                                THEN LET i == CHOOSE i \in DOMAIN c.reqs : c.reqs[i] = r
                                     IN  IF i <= Len(results) THEN results[i] ELSE CallError
                                ELSE AnswerOf(r)
  <2>1. CASE r \notin Range(c.reqs)
    BY Zenon, <1>6, <2>1
  <2>2. CASE r \in Range(c.reqs)
    <3>1. PICK i \in 1..Len(c.reqs) : c.reqs[i] = r
      BY Zenon, <1>3, <2>2 DEF Range
    <3>2. (CHOOSE j \in DOMAIN c.reqs : c.reqs[j] = r) = i
      BY <1>3, <1>7, <3>1
    <3> QED
      BY Zenon, <1>5, <2>2, <3>1, <3>2
  <2> QED
    BY Zenon, <2>1, <2>2
<1>9. \A i, j \in DOMAIN c.reqs : Hash[c.reqs[i]] = Hash[c.reqs[j]]
  BY Zenon DEF IInv, OneHashPerCall
<1>10. Service!Batchable(c.reqs)
  BY Zenon, <1>3, <1>5, <1>9 DEF Service!Batchable
<1>11. Service!Range(c.reqs) = Range(c.reqs)
  BY Zenon DEF Service!Range, Range
<1>12. [r \in Reqs |-> Phase(r)]'
         = [r \in Reqs |-> IF r \in Service!Range(c.reqs) THEN "answered"
                           ELSE [q \in Reqs |-> Phase(q)][r]]
  BY Zenon, <1>8, <1>11
<1>13. [r \in Reqs |-> AnswerOf(r)]'
         = [r \in Reqs |-> IF r \in Service!Range(c.reqs)
                           THEN LET i == CHOOSE i \in DOMAIN c.reqs : c.reqs[i] = r
                                IN  IF i <= Len(results) THEN results[i] ELSE CallError
                           ELSE [q \in Reqs |-> AnswerOf(q)][r]]
  BY Zenon, <1>8, <1>11
<1>14. results \in Exec(c.reqs) /\ UNCHANGED ctxDone
  BY Zenon, <1>1, <1>2
<1>15. Service!AnswerBatch(c.reqs)
  BY <1>10, <1>12, <1>13, <1>14, Zenon DEF Service!AnswerBatch
<1> QED
  BY Zenon, <1>4, <1>15

\* Delivering a decided answer, which Add has yet to receive, is invisible.
LEMMA DeliverMaps ==
  ASSUME IInv, IInv', NEW c \in calls, Deliver(c)
  PROVE  UNCHANGED Service!vars
<1> DEFINE d == [c EXCEPT !.idx = @ + 1]
           k == c.idx + 1
<1>1. /\ c.done /\ UNCHANGED <<pc, result, ctxDone>>
      /\ c.reqs[k] \in Reqs /\ k \in (c.idx + 1)..Len(c.reqs) /\ k \in DOMAIN c.reqs
      /\ c.reqs[k] \in Unanswered(c) /\ IsInjective(c.reqs)
      /\ c.idx \in Nat /\ Len(c.reqs) \in Nat /\ DOMAIN c.reqs = 1..Len(c.reqs)
      /\ calls' = (calls \ {c}) \cup {d}
      /\ d.reqs = c.reqs /\ d.done = c.done /\ d.results = c.results /\ d.idx = k
  <2>1. /\ c.done /\ UNCHANGED <<pc, result, ctxDone>> /\ c.idx < Len(c.reqs)
        /\ calls' = (calls \ {c}) \cup {d}
    BY Zenon DEF Deliver, addVars
  <2>2. c.idx \in Nat /\ Len(c.reqs) \in Nat
    BY Zenon, CallFacts
  <2>3. k \in (c.idx + 1)..Len(c.reqs)
    BY <2>1, <2>2
  <2>4. d.reqs = c.reqs /\ d.done = c.done /\ d.results = c.results /\ d.idx = k
    BY CallFacts
  <2> QED
    BY ZenonT(30), <2>1, <2>2, <2>3, <2>4, CallFacts
<1>2. /\ requestor'[c.reqs[k]] = ResultAt(c, k)
      /\ \A r \in Reqs : r # c.reqs[k] => requestor'[r] = requestor[r]
  BY Zenon, <1>1 DEF Deliver, IInv, TypeOK
<1> HIDE DEF d
<1>3. AnswerChar /\ AnswerChar'
  BY Zenon, AnswerCharHolds, AnswerCharAfter
<1>4. Unanswered(d) \subseteq Unanswered(c)
  BY <1>1 DEF Unanswered
<1>5. AnswerOf(c.reqs[k])' = AnswerOf(c.reqs[k])
  <2>1. AnswerOf(c.reqs[k]) = ResultAt(c, k)
    BY Zenon, <1>1, <1>3 DEF AnswerChar
  <2>2. InCall(c.reqs[k])
    BY Zenon, <1>1 DEF InCall
  <2>3. result[c.reqs[k]] = None
    BY ZenonT(30), <1>1, <2>2 DEF IInv, OnePlace, Answered
  <2>4. ResultAt(c, k) # None
    <3>1. /\ c.results \in Seq(Answers) /\ Len(c.results) \in Nat
      BY Zenon, CallFacts, LenProperties
    <3>2. k <= Len(c.results) => c.results[k] \in AnswersFor(c.reqs[k])
      <4>1. WellFormedCalls
        BY Zenon DEF IInv
      <4> QED BY <1>1, <3>1, <4>1 DEF WellFormedCalls
    <3> QED
      BY Zenon, <1>1, <3>2, AnswerFacts DEF ResultAt
  <2> QED
    <3>1. result'[c.reqs[k]] = None /\ requestor'[c.reqs[k]] = ResultAt(c, k) /\ c.reqs[k] \in Reqs
      BY ZenonT(30), <1>1, <1>2, <2>3
    <3> QED BY ZenonT(30), <1>3, <2>1, <2>4, <3>1 DEF AnswerChar
<1>6. ASSUME NEW r \in Reqs, r # c.reqs[k]
      PROVE  AnswerOf(r)' = AnswerOf(r)
  <2>1. CASE Answered(r)
    <3>1. result'[r] = result[r] /\ requestor'[r] = requestor[r]
      BY ZenonT(30), <1>1, <1>2, <1>6
    <3> QED BY Zenon, <1>3, <1>6, <2>1, <3>1 DEF AnswerChar, Answered
  <2>2. CASE ~Answered(r) /\ \E e \in calls : Decided(e, r)
    <3>1. PICK e \in calls : Decided(e, r)
      BY Zenon, <2>2
    <3>2. PICK i \in (e.idx + 1)..Len(e.reqs) : e.reqs[i] = r
      BY Zenon, <3>1 DEF Decided, Unanswered
    <3>3. AnswerOf(r) = ResultAt(e, i)
      BY ZenonT(30), <1>3, <3>1, <3>2 DEF AnswerChar, Decided
    <3>4. CASE e # c
      BY ZenonT(30), <1>1, <1>3, <3>1, <3>2, <3>3, <3>4 DEF AnswerChar, Decided, ResultAt
    <3>5. CASE e = c
      <4>1. i # k
        BY Zenon, <1>6, <3>2, <3>5
      <4>2. d \in calls' /\ i \in (d.idx + 1)..Len(d.reqs) /\ d.reqs[i] = r
        <5>1. d \in calls'
          BY ZenonT(30), <1>1
        <5>2. d.idx = k /\ d.reqs = c.reqs /\ c.idx \in Nat /\ Len(c.reqs) \in Nat
          BY ZenonT(30), <1>1
        <5> QED BY <3>2, <3>5, <4>1, <5>1, <5>2
      <4>3. AnswerOf(r)' = ResultAt(d, i)
        BY ZenonT(30), <1>1, <1>3, <4>2 DEF AnswerChar, ResultAt
      <4> QED
        BY ZenonT(30), <1>1, <3>3, <3>5, <4>3 DEF ResultAt
    <3> QED
      BY Zenon, <3>4, <3>5
  <2>3. CASE ~Answered(r) /\ \A e \in calls : ~Decided(e, r)
    <3>1. \A e \in calls' : ~Decided(e, r)
      BY ZenonT(30), <1>1, <1>4, <2>3 DEF Decided
    <3>2. ~Answered(r)' /\ \A e \in calls' : ~Decided(e, r)'
      BY Zenon, <1>1, <1>2, <1>6, <2>3, <3>1 DEF Answered, Decided, Unanswered
    <3> QED
      BY ZenonT(30), <1>3, <2>3, <3>2 DEF AnswerChar
  <2> QED
    BY Zenon, <2>1, <2>2, <2>3
<1> QED
  BY Zenon, <1>1, <1>5, <1>6, Invisible

\* The start and the end of a worker decide nothing.
LEMMA WorkerMaps ==
  ASSUME IInv, IInv', (\E b \in Buckets : Dispatch(b)) \/ (\E c \in calls : Finish(c))
  PROVE  UNCHANGED Service!vars
<1>1. UNCHANGED <<pc, result, requestor, ctxDone>>
  BY Zenon DEF Dispatch, Finish, addVars
<1>2. CASE \E b \in Buckets : Dispatch(b)
  BY <1>1, <1>2, SameAnswers, Invisible DEF Dispatch
<1>3. CASE \E c \in calls : Finish(c)
  <2>1. PICK c \in calls : c.done /\ c.idx = Len(c.reqs) /\ calls' = calls \ {c}
    BY Zenon, <1>3 DEF Finish
  <2>2. Unanswered(c) = {}
    BY <2>1, CallFacts DEF Unanswered
  <2> QED
    BY Zenon, <1>1, <2>1, <2>2, SameAnswers, Invisible
<1> QED
  BY Zenon, <1>2, <1>3

\* Triggers, the batching window and the swap decide nothing either.
LEMMA QuietMaps ==
  ASSUME IInv, IInv', UNCHANGED <<calls, requestor, result, ctxDone>>,
         \A r \in Reqs : pc'[r] = pc[r] \/ (pc[r] = "trigger" /\ pc'[r] = "wait")
  PROVE  UNCHANGED Service!vars
BY Zenon, SameAnswers, Invisible

\* Cancelling the context closes the service.
LEMMA ShutdownMaps ==
  ASSUME IInv, IInv', Shutdown
  PROVE  Service!Close
<1>1. /\ UNCHANGED <<pc, calls, requestor, result>>
      /\ ~ctxDone /\ ctxDone' = TRUE
  BY Zenon DEF Shutdown, addVars
<1>2. \A r \in Reqs : AnswerOf(r)' = AnswerOf(r)
  BY Zenon, <1>1, SameAnswers
<1>3. \A r \in Reqs : Phase(r)' = Phase(r)
  BY Zenon, <1>1, <1>2 DEF Phase
<1> QED
  BY Zenon, <1>1, <1>2, <1>3 DEF Service!Close

-----------------------------------------------------------------------------
(* The refinement *)

\* A batcher that has just been created is an idle service.
LEMMA InitMaps == NewBatcher => Service!Init
<1> SUFFICES ASSUME NewBatcher PROVE Service!Init
  BY Zenon
<1>1. \A r \in Reqs : AnswerOf(r) = None /\ Phase(r) = "idle"
  BY Zenon DEF NewBatcher, AnswerOf, Phase
<1> QED
  BY Zenon, <1>1 DEF NewBatcher, Service!Init

\* Every step of the batcher is a step of the service, or none.
LEMMA StepMaps ==
  IInv /\ IInv' /\ ReturnedWithResult /\ [Next]_vars => [Service!Next]_(Service!vars)
<1> SUFFICES ASSUME IInv, IInv', ReturnedWithResult, [Next]_vars
             PROVE  [Service!Next]_(Service!vars)
  BY Zenon
<1>1. ASSUME NEW r \in Reqs, AddRegister(r)
      PROVE  Service!Next
  BY Zenon, <1>1, AddRegisterMaps DEF Service!Next
<1>2. ASSUME NEW r \in Reqs, AddTrigger(r)
      PROVE  UNCHANGED Service!vars
  <2>1. /\ UNCHANGED <<calls, requestor, result, ctxDone>>
        /\ \A q \in Reqs : pc'[q] = pc[q] \/ (pc[q] = "trigger" /\ pc'[q] = "wait")
    BY Zenon, <1>2 DEF AddTrigger, IInv, TypeOK
  <2> QED
    BY Zenon, <2>1, QuietMaps
<1>3. ASSUME NEW r \in Reqs, AddReturn(r)
      PROVE  Service!Next
  BY Zenon, <1>3, AddReturnMaps DEF Service!Next
<1>4. ASSUME NEW c \in calls, Execute(c)
      PROVE  Service!Next
  <2>1. c.reqs \in UNION {[1..n -> Reqs] : n \in 1..Cardinality(Reqs)} /\ IsInjective(c.reqs)
    BY Zenon, <1>4, ExecuteMaps DEF Batches
  <2>2. Service!IsInjective(c.reqs)
    BY Zenon, <2>1 DEF IsInjective, Service!IsInjective
  <2>3. Service!Cardinality(Reqs) = Cardinality(Reqs)
    BY Zenon DEF Service!Cardinality, Cardinality
  <2>4. c.reqs \in Service!Batches
    BY Zenon, <2>1, <2>2, <2>3 DEF Service!Batches
  <2> QED
    BY Zenon, <1>4, <2>4, ExecuteMaps DEF Service!Next
<1>5. ASSUME NEW c \in calls, Deliver(c) \/ Finish(c)
      PROVE  UNCHANGED Service!vars
  BY Zenon, <1>5, DeliverMaps, WorkerMaps
<1>6. CASE \/ RunSelectDone \/ RunSelectTrigger \/ WaitForIdle \/ Take
           \/ DispatchDone \/ Drain \/ UNCHANGED vars
  <2>1. UNCHANGED <<pc, calls, requestor, result, ctxDone>>
    BY Zenon, <1>6 DEF RunSelectDone, RunSelectTrigger, WaitForIdle, WaitTrigger, WaitReturn, Take,
                DispatchDone, Drain, addVars, vars
  <2> QED
    BY Zenon, <2>1, QuietMaps
<1>7. CASE \E b \in Buckets : Dispatch(b)
  BY Zenon, <1>7, WorkerMaps
<1>8. CASE Shutdown
  BY Zenon, <1>8, ShutdownMaps DEF Service!Next
<1> QED
  BY Zenon, <1>1, <1>2, <1>3, <1>4, <1>5, <1>6, <1>7, <1>8 DEF Next, Add, Run, RunCalls

\* The batcher implements BatchService, for any requests, hashes, limits and executor:
\* callers of Add cannot tell the queue, the triggers, the batching windows and the
\* workers of batcher.go from a service that answers each pending request once, with
\* others of its hash, by one call of the executor, and by position.
THEOREM ServiceRefinement == Spec => ServiceSafety
<1>1. NewBatcher => ReturnedWithResult
  BY Zenon DEF NewBatcher, ReturnedWithResult
<1> QED
  BY <1>1, InitIInv, NextIInv, NextReturned, InitMaps, StepMaps, PTL
     DEF Spec, ServiceSafety, Service!Spec
=============================================================================
