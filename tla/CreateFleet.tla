----------------------------- MODULE CreateFleet -----------------------------
(***************************************************************************)
(* The CreateFleet batcher of pkg/batcher/createfleet.go: the batcher of   *)
(* module Batcher whose executor asks EC2 for as many instances as there   *)
(* are requests in the batch and deals them out, one to a request.         *)
(*                                                                         *)
(* The fleet of a batch is named after the first request of the batch, and *)
(* its k-th instance is the pair of that name and k.  A result holds the   *)
(* error of the call, the instances (a sequence of at most one) and the    *)
(* set of fleet errors.                                                    *)
(***************************************************************************)
EXTENDS Batcher, SequencesExt

CONSTANT MaxExtra   \* how many instances above the request EC2 may return

\* The instances EC2 has started: each with whether it is within the number that
\* was asked for and whether the call that started it returned normally.
VARIABLE launched

fleetVars == <<vars, launched>>

-----------------------------------------------------------------------------

\* The k-th of n instances of a batch's fleet, in order.
FleetInstances(batch, n) == [k \in 1..n |-> <<batch[1], k>>]

\* An answer of EC2: the call's error, the instances grouped into reservations,
\* and the fleet errors.  An error may hide instances that were started.
CreateFleetOutputs(batch, n) ==
    LET ids == FleetInstances(batch, n)
    IN  {[err |-> TRUE, Instances |-> <<ids>>, Errors |-> {}]} \cup
        {[err |-> FALSE,
          Instances |-> <<SubSeq(ids, 1, m), SubSeq(ids, m + 1, n)>>,
          Errors |-> errors] : m \in 0..n, errors \in {{}, {"ICE"}}}

\* Single-instance results, in the order of the requests; instances beyond the
\* number of requests are ignored.
InstanceResults(batch, ids, errors) ==
    [i \in 1..Min({Len(ids), Len(batch)}) |->
        [Err |-> FALSE, Instances |-> <<ids[i]>>, Errors |-> errors]]

\* The remaining requests get the fleet errors, or a made-up one if there is none.
ErrorResults(n, errors) ==
    [i \in 1..n |->
        [Err |-> FALSE, Instances |-> <<>>,
         Errors |-> IF errors = {} THEN {"too few instances returned"} ELSE errors]]

\* Mutant: only the first reservation is dealt out.
execFirstReservation(batch, output) ==
    IF output.err
    THEN [i \in 1..Len(batch) |-> [Err |-> TRUE, Instances |-> <<>>, Errors |-> {}]]
    ELSE LET dealt == InstanceResults(batch, output.Instances[1], output.Errors)
         IN  dealt \o ErrorResults(Len(batch) - Len(dealt), output.Errors)

\* One result for each request, from the output of the call or from its error.
execCreateFleetBatch(batch, output) ==
    IF output.err
    THEN [i \in 1..Len(batch) |-> [Err |-> TRUE, Instances |-> <<>>, Errors |-> {}]]
    ELSE LET dealt == InstanceResults(batch, FlattenSeq(output.Instances), output.Errors)
         IN  dealt \o ErrorResults(Len(batch) - Len(dealt), output.Errors)

\* The executor of module Batcher is this one, and the batcher's own error is none of
\* its results.
ASSUME FleetAssumption ==
    /\ MaxExtra \in Nat
    /\ \A r \in Reqs : CallError \notin AnswersFor(r)
    /\ \A batch \in Batches : \A n \in 0..(Len(batch) + MaxExtra) :
          \A output \in CreateFleetOutputs(batch, n) :
             execCreateFleetBatch(batch, output) \in Exec(batch)

\* Execute with this executor: one call of EC2 for the whole batch.
ExecuteFleet(c) ==
    /\ ~c.done
    /\ \E n \in 0..(Len(c.reqs) + MaxExtra) :
       \E output \in CreateFleetOutputs(c.reqs, n) :
          /\ calls' = (calls \ {c}) \cup
                {[c EXCEPT !.done = TRUE, !.results = execCreateFleetBatch(c.reqs, output)]}
          /\ launched' = launched \cup
                {[id |-> <<c.reqs[1], k>>, asked |-> k <= Len(c.reqs), ok |-> ~output.err] : k \in 1..n}
    /\ UNCHANGED <<addVars, requests, trigger, runVars, requestor, ctxDone>>

FleetInit == NewBatcher /\ launched = {}

FleetNext ==
    \/ /\ \/ \E r \in Reqs : Add(r)
          \/ Run
          \/ \E c \in calls : Deliver(c) \/ Finish(c)
          \/ Shutdown
       /\ UNCHANGED launched
    \/ \E c \in calls : ExecuteFleet(c)

FleetSpec == FleetInit /\ [][FleetNext]_fleetVars

-----------------------------------------------------------------------------
(* Properties *)

\* The results a request has been given, in its channel or by its Add.
Given(r) == {requestor[r], result[r]} \ {None}

\* Those still in the hands of a worker.
Pending(c) == {c.results[i] : i \in {j \in DOMAIN c.results : c.done /\ j > c.idx}}

\* Two callers of CreateFleet never get the same instance, whatever batches their
\* requests end up in and whatever order workers deliver in: a NodeClaim owns its
\* instance alone.
NoSharedInstance ==
    \A r, q \in Reqs : r # q =>
        \A a \in Given(r) \ {CallError}, b \in Given(q) \ {CallError} :
            a.Instances # <<>> => a.Instances # b.Instances

\* An instance EC2 started because a request asked for it, and reported, is in the
\* hands of a worker or of exactly the caller it was dealt to; only surplus
\* instances ("received more instances than requested, ignoring instance") and
\* those of a failed call are left to garbage collection.
NoInstanceForgotten ==
    \A i \in launched : i.asked /\ i.ok =>
        \E res \in (UNION {Given(r) : r \in Reqs}) \cup (UNION {Pending(c) : c \in calls}) :
            res # CallError /\ res.Instances = <<i.id>>

\* The executor answers every request of the batch, and an answer without an
\* instance says why: the caller, which reads the fleet errors to mark offerings
\* unavailable, never sees an empty answer or the batcher's "error making call".
NoEmptyAnswer ==
    \A r \in Reqs : \A a \in Given(r) :
        a # CallError /\ (a.Err \/ a.Instances # <<>> \/ a.Errors # {})

\* The inductive form, about answers from the moment they are decided: each says
\* something, and its instance is nobody else's, because the fleet it is from is named
\* after a request that has been decided as well.
Says(a) == a # CallError /\ (a.Err \/ a.Instances # <<>> \/ a.Errors # {})

DecidedReqs == {r \in Reqs : AnswerOf(r) # None}

InstancesDealt ==
    /\ \A r \in DecidedReqs :
          /\ Says(AnswerOf(r))
          /\ AnswerOf(r).Instances # <<>> =>
                \E q \in DecidedReqs : \E k \in 1..Cardinality(Reqs) : AnswerOf(r).Instances = << <<q, k>> >>
    /\ \A r, q \in DecidedReqs :
          AnswerOf(r).Instances # <<>> /\ AnswerOf(r).Instances = AnswerOf(q).Instances => r = q
    /\ \A i \in launched : i.asked /\ i.ok =>
          \E r \in DecidedReqs : AnswerOf(r).Instances = <<i.id>>

\* Safety of the CreateFleet executor behind the batcher: instances that were asked
\* for are dealt out, each to one caller, and an answer without one says why.
FleetInv == InstancesDealt /\ NoSharedInstance /\ NoInstanceForgotten /\ NoEmptyAnswer
=============================================================================
