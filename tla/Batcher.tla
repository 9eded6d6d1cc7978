------------------------------- MODULE Batcher -------------------------------
(***************************************************************************)
(* The request batcher of pkg/batcher/batcher.go.  Callers of Add register *)
(* a request under the hash of its input, send on the trigger channel and  *)
(* wait on a channel of their own.  One goroutine (run) collects triggers  *)
(* until the batching window closes, takes every registered request and    *)
(* hands each bucket to a worker, which runs the BatchExecutor once and    *)
(* delivers the results by position.                                       *)
(*                                                                         *)
(* A step of the model is one of the code's atomic steps: a critical       *)
(* section of b.mu, one channel operation, the start or the end of a       *)
(* worker, one call of the executor.  A request is a model value; what it  *)
(* asks for is left to the constants Hash and Exec.                        *)
(***************************************************************************)
EXTENDS Integers, Sequences, FiniteSets, Functions

CONSTANTS
    Reqs,               \* the calls of Add; each happens at most once
    Buckets,            \* the hashes of their inputs
    Hash,               \* RequestHasher, a function from Reqs to Buckets
    MaxItems,           \* Options.MaxItems; 0 means no limit
    MaxRequestWorkers,  \* the limit set on the worker group
    Exec(_),            \* BatchExecutor: the result slices it may return
    AnswersFor(_),      \* the results that are about a given request
    CallError,          \* Result{Err: "error making call"}
    None                \* an empty channel, a result not yet received

ASSUME ReqsAssumption == IsFiniteSet(Reqs)

ASSUME HashAssumption == Hash \in [Reqs -> Buckets]

ASSUME LimitAssumption ==
    /\ MaxItems \in Nat
    /\ MaxRequestWorkers \in Nat \ {0}

ASSUME NoneAssumption ==
    /\ None # CallError
    /\ \A r \in Reqs : None \notin AnswersFor(r)

\* The batches that can be formed: no request occurs twice in one.
Batches ==
    {batch \in UNION {[1..n -> Reqs] : n \in 1..Cardinality(Reqs)} : IsInjective(batch)}

\* The contract stated at the type BatchExecutor: the results are in the order
\* of the inputs, and there are no more results than inputs.
ASSUME ExecAssumption ==
    \A batch \in Batches : \A results \in Exec(batch) :
        \E n \in 0..Len(batch) :
            /\ results \in [1..n -> UNION {AnswersFor(r) : r \in Reqs}]
            /\ \A i \in 1..n : results[i] \in AnswersFor(batch[i])

VARIABLES
    pc,         \* where each call of Add stands
    requests,   \* b.requests: the registered requests of each bucket
    trigger,    \* the number of tokens in the trigger channel, capacity 1
    run,        \* where the run goroutine stands
    count,      \* the triggers counted by waitForIdle
    taken,      \* the buckets run has taken and not yet given to a worker
    calls,      \* the workers inside runCalls
    requestor,  \* the content of each request's channel, capacity 1
    result,     \* what each call of Add has returned
    ctxDone     \* b.ctx is cancelled

addVars == <<pc, result>>
runVars == <<run, count, taken>>
vars == <<pc, requests, trigger, run, count, taken, calls, requestor, result, ctxDone>>

-----------------------------------------------------------------------------

Answers == (UNION {AnswersFor(r) : r \in Reqs}) \cup {CallError}

NoRequests == [b \in Buckets |-> <<>>]

\* A worker: the requests it was given, whether the executor has returned, the
\* results it returned and the number of requests already answered.
Call == [reqs: Seq(Reqs), done: BOOLEAN, results: Seq(Answers), idx: Nat]

NewBatcher ==
    /\ pc = [r \in Reqs |-> "start"]
    /\ requests = NoRequests
    /\ trigger = 0
    /\ run = "select"
    /\ count = 0
    /\ taken = NoRequests
    /\ calls = {}
    /\ requestor = [r \in Reqs |-> None]
    /\ result = [r \in Reqs |-> None]
    /\ ctxDone = FALSE

-----------------------------------------------------------------------------
(* Add, by its callers *)

\* Mutant: the request is filed under a fixed hash.
AddRegisterOneBucket(r) ==
    /\ pc[r] = "start"
    /\ requests' = [requests EXCEPT ![CHOOSE b \in Buckets : TRUE] = Append(@, r)]
    /\ pc' = [pc EXCEPT ![r] = "trigger"]
    /\ UNCHANGED <<trigger, runVars, calls, requestor, result, ctxDone>>

\* Append the request to its bucket, under b.mu.
AddRegister(r) ==
    /\ pc[r] = "start"
    /\ requests' = [requests EXCEPT ![Hash[r]] = Append(@, r)]
    /\ pc' = [pc EXCEPT ![r] = "trigger"]
    /\ UNCHANGED <<trigger, runVars, calls, requestor, result, ctxDone>>

\* Send on the trigger channel, which blocks while the buffer is full.
AddTrigger(r) ==
    /\ pc[r] = "trigger"
    /\ trigger = 0
    /\ trigger' = 1
    /\ pc' = [pc EXCEPT ![r] = "wait"]
    /\ UNCHANGED <<requests, runVars, calls, requestor, result, ctxDone>>

\* Receive the result and return it.
AddReturn(r) ==
    /\ pc[r] = "wait"
    /\ requestor[r] # None
    /\ requestor' = [requestor EXCEPT ![r] = None]
    /\ result' = [result EXCEPT ![r] = requestor[r]]
    /\ pc' = [pc EXCEPT ![r] = "returned"]
    /\ UNCHANGED <<requests, trigger, runVars, calls, ctxDone>>

-----------------------------------------------------------------------------
(* The run goroutine *)

\* select: the context is done; wait for the workers, then return.  With a
\* trigger pending as well, select may take either case.
RunSelectDone ==
    /\ run = "select"
    /\ ctxDone
    /\ run' = "drain"
    /\ UNCHANGED <<addVars, requests, trigger, count, taken, calls, requestor, ctxDone>>

\* select: a trigger opens a batching window.
RunSelectTrigger ==
    /\ run = "select"
    /\ trigger = 1
    /\ trigger' = 0
    /\ run' = "idle"
    /\ count' = 1
    /\ UNCHANGED <<addVars, requests, taken, calls, requestor, ctxDone>>

\* The condition of waitForIdle's loop.
WindowOpen == MaxItems = 0 \/ count < MaxItems

\* waitForIdle: one more trigger.
WaitTrigger ==
    /\ run = "idle"
    /\ WindowOpen
    /\ trigger = 1
    /\ trigger' = 0
    /\ count' = count + 1
    /\ UNCHANGED <<addVars, requests, run, taken, calls, requestor, ctxDone>>

\* waitForIdle returns: the window is full, a timer fires or the context is
\* done.  The timers run freely, so the step is always possible.
WaitReturn ==
    /\ run = "idle"
    /\ run' = "take"
    /\ UNCHANGED <<addVars, requests, trigger, count, taken, calls, requestor, ctxDone>>

\* Mutant: a window takes a single bucket.
TakeOneBucket ==
    /\ run = "take"
    /\ \E b \in Buckets :
          /\ taken' = [NoRequests EXCEPT ![b] = requests[b]]
          /\ requests' = [requests EXCEPT ![b] = <<>>]
    /\ run' = "dispatch"
    /\ UNCHANGED <<addVars, trigger, count, calls, requestor, ctxDone>>

\* Swap b.requests for an empty map, under b.mu.
Take ==
    /\ run = "take"
    /\ taken' = requests
    /\ requests' = NoRequests
    /\ run' = "dispatch"
    /\ UNCHANGED <<addVars, trigger, count, calls, requestor, ctxDone>>

\* requestWorkers.Go for one bucket, in the map's arbitrary order; it blocks
\* while the worker limit is reached.
Dispatch(b) ==
    /\ run = "dispatch"
    /\ taken[b] # <<>>
    /\ Cardinality(calls) < MaxRequestWorkers
    /\ calls' = calls \cup {[reqs |-> taken[b], done |-> FALSE, results |-> <<>>, idx |-> 0]}
    /\ taken' = [taken EXCEPT ![b] = <<>>]
    /\ UNCHANGED <<addVars, requests, trigger, run, count, requestor, ctxDone>>

\* Every bucket has its worker: back to the select.
DispatchDone ==
    /\ run = "dispatch"
    /\ taken = NoRequests
    /\ run' = "select"
    /\ UNCHANGED <<addVars, requests, trigger, count, taken, calls, requestor, ctxDone>>

\* requestWorkers.Wait returns, and so does run.
Drain ==
    /\ run = "drain"
    /\ calls = {}
    /\ run' = "stopped"
    /\ UNCHANGED <<addVars, requests, trigger, count, taken, calls, requestor, ctxDone>>

-----------------------------------------------------------------------------
(* runCalls, by the workers *)

\* The executor returns its results.
Execute(c) ==
    /\ ~c.done
    /\ \E results \in Exec(c.reqs) :
          calls' = (calls \ {c}) \cup {[c EXCEPT !.done = TRUE, !.results = results]}
    /\ UNCHANGED <<addVars, requests, trigger, runVars, requestor, ctxDone>>

\* What the request at position i of the batch is sent: the result at the same
\* position, and an error once the results are used up.
ResultAt(c, i) == IF i <= Len(c.results) THEN c.results[i] ELSE CallError

\* Send one result; a send on a full channel would block.
Deliver(c) ==
    /\ c.done
    /\ c.idx < Len(c.reqs)
    /\ LET r == c.reqs[c.idx + 1]
       IN  /\ requestor[r] = None
           /\ requestor' = [requestor EXCEPT ![r] = ResultAt(c, c.idx + 1)]
    /\ calls' = (calls \ {c}) \cup {[c EXCEPT !.idx = @ + 1]}
    /\ UNCHANGED <<addVars, requests, trigger, runVars, ctxDone>>

\* Mutant: the worker keeps its place in the group.
FinishKeepsPlace(c) ==
    /\ c.done
    /\ c.idx = Len(c.reqs)
    /\ UNCHANGED vars

\* The worker ends and gives back its place in the group.
Finish(c) ==
    /\ c.done
    /\ c.idx = Len(c.reqs)
    /\ calls' = calls \ {c}
    /\ UNCHANGED <<addVars, requests, trigger, runVars, requestor, ctxDone>>

-----------------------------------------------------------------------------

\* The process is asked to stop.
Shutdown ==
    /\ ~ctxDone
    /\ ctxDone' = TRUE
    /\ UNCHANGED <<addVars, requests, trigger, runVars, calls, requestor>>

Add(r) == AddRegister(r) \/ AddTrigger(r) \/ AddReturn(r)

WaitForIdle == WaitTrigger \/ WaitReturn

Run ==
    \/ RunSelectDone
    \/ RunSelectTrigger
    \/ WaitForIdle
    \/ Take
    \/ \E b \in Buckets : Dispatch(b)
    \/ DispatchDone
    \/ Drain

RunCalls(c) == Execute(c) \/ Deliver(c) \/ Finish(c)

Next ==
    \/ \E r \in Reqs : Add(r)
    \/ Run
    \/ \E c \in calls : RunCalls(c)
    \/ Shutdown

Spec == NewBatcher /\ [][Next]_vars

\* Fairness.  The Go scheduler runs every goroutine that can run; the timers of
\* waitForIdle fire; an AWS call ends, with an error at the latest.  A select with
\* several ready cases chooses at random, which is why waitForIdle's timers and
\* the Done case are each treated fairly.  Nothing forces a caller to call Add or
\* the process to stop.
Fairness ==
    /\ \A r \in Reqs : WF_vars(AddTrigger(r)) /\ WF_vars(AddReturn(r))
    /\ WF_vars(Run)
    /\ WF_vars(WaitReturn)
    /\ WF_vars(RunSelectDone)
    /\ WF_vars(\E c \in calls : RunCalls(c))

FairSpec == Spec /\ Fairness

-----------------------------------------------------------------------------
(* Properties *)

TypeOK ==
    /\ pc \in [Reqs -> {"start", "trigger", "wait", "returned"}]
    /\ requests \in [Buckets -> Seq(Reqs)]
    /\ trigger \in 0..1
    /\ run \in {"select", "idle", "take", "dispatch", "drain", "stopped"}
    /\ count \in Nat
    /\ taken \in [Buckets -> Seq(Reqs)]
    /\ calls \subseteq Call
    /\ requestor \in [Reqs -> Answers \cup {None}]
    /\ result \in [Reqs -> Answers \cup {None}]
    /\ ctxDone \in BOOLEAN

\* The places a request can be between Add's append and its answer.
Queued(r) == \E b \in Buckets : r \in Range(requests[b])
Taken(r) == \E b \in Buckets : r \in Range(taken[b])
Unanswered(c) == {c.reqs[i] : i \in (c.idx + 1)..Len(c.reqs)}
InCall(r) == \E c \in calls : r \in Unanswered(c)
Answered(r) == requestor[r] # None \/ result[r] # None

\* A request that was registered is in exactly one place: the map, the buckets
\* run has taken, one worker that has yet to answer it, or answered.  So Add's
\* append, the swap in run and the closure given to the worker neither lose a
\* request nor duplicate it, and the executor sees it at most once.
OnePlace ==
    \A r \in Reqs :
        IF pc[r] = "start"
        THEN ~Queued(r) /\ ~Taken(r) /\ ~InCall(r) /\ ~Answered(r)
        ELSE /\ Queued(r) \/ Taken(r) \/ InCall(r) \/ Answered(r)
             /\ Queued(r) => ~Taken(r) /\ ~InCall(r) /\ ~Answered(r)
             /\ Taken(r) => ~InCall(r) /\ ~Answered(r)
             /\ InCall(r) => ~Answered(r)

\* A caller of Add gets a result about its own request, or the "error making
\* call" that runCalls gives to requests the executor left without a result.
OwnAnswer ==
    \A r \in Reqs : result[r] \in AnswersFor(r) \cup {CallError, None}

\* The comment on requestor in Add: the buffered channel ensures "that the exec
\* runner can always write the result out preventing any single caller from
\* blocking the others".  The channel a worker is about to write to is empty.
WorkerNeverBlocks ==
    \A c \in calls :
        c.done /\ c.idx < Len(c.reqs) => requestor[c.reqs[c.idx + 1]] = None

\* Requests wait in the map only while a trigger is pending, a batching window
\* is open or about to be taken, or a caller is still to send its trigger.  Add
\* appends before it triggers, so run cannot sleep through a request.
NoLostWakeup ==
    run \in {"select", "dispatch"} /\ requests # NoRequests =>
        \/ trigger = 1
        \/ \E r \in Reqs : pc[r] = "trigger" /\ Queued(r)

\* A worker executes requests of one hash only, so the call built from the first
\* input of the batch stands for all of them.
OneHashPerCall ==
    \A c \in calls : \A i, j \in DOMAIN c.reqs : Hash[c.reqs[i]] = Hash[c.reqs[j]]

\* run returns only after requestWorkers.Wait: when it has stopped, a request is
\* unanswered only if it was still in the map.
DrainedOnStop ==
    run = "stopped" => \A r \in Reqs : pc[r] = "start" \/ Queued(r) \/ Answered(r)

\* Every registered request is answered to its caller, unless the process is
\* shutting down.
EveryAddReturns ==
    \A r \in Reqs : (pc[r] # "start") ~> (pc[r] = "returned" \/ ctxDone)

\* A request run has taken is answered even if the process is shutting down, by
\* way of the wait for the workers.
TakenIsAnswered ==
    \A r \in Reqs : (Taken(r) \/ InCall(r)) ~> Answered(r)

\* Cancelling the context ends the run goroutine.
ShutdownStops == ctxDone ~> (run = "stopped")

\* Liveness of the batcher: callers return, what run has taken is answered also in
\* a shutdown, and run ends.
BatcherLive == EveryAddReturns /\ TakenIsAnswered /\ ShutdownStops

-----------------------------------------------------------------------------
(* The inductive invariant: what each piece of state holds on its own, ... *)

\* The map and the taken buckets hold distinct requests under their own hash.
Bucketed(m) ==
    \A b \in Buckets : IsInjective(m[b]) /\ \A r \in Range(m[b]) : Hash[r] = b

\* A worker's batch is not empty and has no duplicates, its results are in the
\* order of its requests, and it answers nobody before the executor has returned.
WellFormedCalls ==
    \A c \in calls :
        /\ c.reqs # <<>> /\ IsInjective(c.reqs)
        /\ c.idx <= Len(c.reqs)
        /\ ~c.done => c.idx = 0
        /\ c.done => /\ Len(c.results) <= Len(c.reqs)
                     /\ \A i \in 1..Len(c.results) : c.results[i] \in AnswersFor(c.reqs[i])

\* No request is due an answer from two workers.
DisjointCalls ==
    \A c, d \in calls : \A r \in Reqs : r \in Unanswered(c) /\ r \in Unanswered(d) => c = d

\* ... and how the program counters relate to it.
RunPhase ==
    /\ run # "dispatch" => taken = NoRequests
    /\ run = "stopped" => calls = {}

OwnChannel ==
    \A r \in Reqs : requestor[r] \in AnswersFor(r) \cup {CallError, None}

IInv ==
    /\ TypeOK
    /\ Bucketed(requests)
    /\ Bucketed(taken)
    /\ WellFormedCalls
    /\ DisjointCalls
    /\ OneHashPerCall
    /\ RunPhase
    /\ OnePlace
    /\ OwnChannel
    /\ OwnAnswer
    /\ NoLostWakeup

\* Add returns when it has received, never without a result, and nothing more is
\* sent to it.
ReturnedWithResult ==
    \A r \in Reqs :
        /\ pc[r] = "returned" <=> result[r] # None
        /\ result[r] # None => requestor[r] = None

\* Safety of Add, run and runCalls: the inductive invariant, in which a request is
\* in one place, answers go to whom they are about and no wakeup is lost, and with
\* it: callers return with a result, no worker blocks on a caller, and run stops
\* only when all that it took is answered.
BatcherInv == IInv /\ ReturnedWithResult /\ WorkerNeverBlocks /\ DrainedOnStop

-----------------------------------------------------------------------------
(* Refinement of BatchService *)

\* The answer is decided when the executor returns, before it is delivered.
Decided(c, r) == c.done /\ r \in Unanswered(c)

AnswerOf(r) ==
    IF result[r] # None THEN result[r]
    ELSE IF requestor[r] # None THEN requestor[r]
    ELSE IF \E c \in calls : Decided(c, r)
         THEN LET c == CHOOSE c \in calls : Decided(c, r)
              IN  ResultAt(c, CHOOSE i \in DOMAIN c.reqs : c.reqs[i] = r)
         ELSE None

Phase(r) ==
    CASE pc[r] = "start" -> "idle"
      [] pc[r] = "returned" -> "returned"
      [] pc[r] \notin {"start", "returned"} ->
            IF AnswerOf(r) # None THEN "answered" ELSE "pending"

Service == INSTANCE BatchService WITH
    phase <- [r \in Reqs |-> Phase(r)],
    answer <- [r \in Reqs |-> AnswerOf(r)],
    closing <- ctxDone

\* The batcher implements BatchService: whatever the interleaving of callers, run
\* and workers, callers see one executor call per batch of same-hash requests,
\* each request in one batch, and answers by position.
ServiceSafety == Service!Spec
=============================================================================
