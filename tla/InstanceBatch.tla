---------------------------- MODULE InstanceBatch ----------------------------
(***************************************************************************)
(* The executors behind the TerminateInstances and DescribeInstances       *)
(* batchers (pkg/batcher/terminateinstances.go, describeinstances.go).     *)
(* Each makes one call of EC2 for all the instances of a batch, answers    *)
(* the requests whose instance that call accounts for, and asks for each   *)
(* remaining instance again on a goroutine of its own.  Several requests   *)
(* of a batch may name the same instance.                                  *)
(***************************************************************************)
EXTENDS Integers, Sequences, FiniteSets, Functions

CONSTANTS
    Ids,        \* instance ids
    MaxInputs   \* bound on the size of a batch

\* An instance id is not empty: the zero Result names no instance.
ASSUME IdsAssumption == "" \notin Ids

VARIABLES
    api,        \* the executor: "terminate" or "describe"
    inputs,     \* the instance each request of the batch asks for
    results,    \* the result slice; a zero Result until it is written
    missing,    \* stillRunning, missingInstanceIDs
    step,       \* "aggregate", "retry" or "returned"
    retrying,   \* the instances whose goroutine has not finished
    ec2State    \* EC2: the state of each instance

batchVars == <<api, inputs, results, missing, step, retrying, ec2State>>

-----------------------------------------------------------------------------
(* EC2, as the executors use it *)

States == {"running", "protected", "shutting-down", "terminated", "gone"}

\* The states the code counts as a successful termination.
Terminating == {"shutting-down", "terminated"}

TerminateOne(s) == IF s = "running" THEN "shutting-down" ELSE s

\* An instance ends on its own, or EC2 forgets one that has ended.
InstanceEnds(i) ==
    /\ step # "returned"
    /\ ec2State' = [ec2State EXCEPT ![i] = CASE @ = "running" -> "shutting-down"
                                       [] @ = "shutting-down" -> "terminated"
                                       [] OTHER -> "gone"]
    /\ ec2State[i] # ec2State'[i]
    /\ ec2State[i] # "protected"
    /\ UNCHANGED <<api, inputs, results, missing, step, retrying>>

\* The calls that may fail for a reason of their own (throttling, a network error).
Transient == "transient"

\* What a call for the single instance i can return: an error, or the state of i.
\* DescribeInstances may not show an instance that exists (its view is eventually
\* consistent); with no match its output is empty, which is not an error.
SingleOutcomes(i) ==
    {[err |-> Transient, id |-> i, found |-> FALSE]} \cup
    IF api = "describe"
    THEN {[err |-> "none", id |-> i, found |-> shown] : shown \in {FALSE, ec2State[i] # "gone"}}
    ELSE CASE ec2State[i] = "protected" -> {[err |-> "protected", id |-> i, found |-> FALSE]}
           [] ec2State[i] = "gone" -> {[err |-> "notfound", id |-> i, found |-> FALSE]}
           [] OTHER -> {[err |-> "none", id |-> i, found |-> TRUE]}

-----------------------------------------------------------------------------

Zero == [err |-> "none", id |-> "", found |-> FALSE]

Found(i) == [err |-> "none", id |-> i, found |-> TRUE]

BatchInit ==
    /\ api \in {"terminate", "describe"}
    /\ inputs \in UNION {[1..n -> Ids] : n \in 1..MaxInputs}
    /\ results = [r \in DOMAIN inputs |-> Zero]
    /\ missing = Range(inputs)
    /\ step = "aggregate"
    /\ retrying = {}
    /\ ec2State \in [Ids -> States]

\* Mutant: only the first request for an instance is filled in.
PopulateFirst(S, res) ==
    [r \in DOMAIN inputs |->
        IF inputs[r] \in S /\ \A q \in 1..(r - 1) : inputs[q] # inputs[r]
        THEN res[inputs[r]] ELSE results[r]]

\* "Find all indexes where we are requesting this instance and populate with the
\* result": every request for an instance in S gets that instance's result.
Populate(S, res) ==
    [r \in DOMAIN inputs |-> IF inputs[r] \in S THEN res[inputs[r]] ELSE results[r]]

\* Mutant: every instance of the batch is asked for again.
StartRetriesAll(left) ==
    /\ missing' = left
    /\ retrying' = Range(inputs)
    /\ step' = "retry"

\* The goroutines for the instances still missing are started.
StartRetries(left) ==
    /\ missing' = left
    /\ retrying' = left
    /\ step' = "retry"

\* TerminateInstances for the whole batch.  If an instance cannot be terminated the
\* call fails and its output is nil, although EC2 may have terminated some of the
\* others (those of other zones) by then.
TerminateAggregate ==
    /\ api = "terminate"
    /\ step = "aggregate"
    /\ \E S \in SUBSET Range(inputs) :
          /\ \A i \in S : ec2State[i] \notin {"protected", "gone"}
          /\ ec2State' = [i \in Ids |-> IF i \in S THEN TerminateOne(ec2State[i]) ELSE ec2State[i]]
          /\ \/ /\ results' = results     \* err, output = nil
                /\ StartRetries(missing)
             \/ /\ S = Range(inputs)
                /\ LET ended == {i \in S : ec2State'[i] \in Terminating}
                   IN  /\ results' = Populate(ended, [i \in ended |-> Found(i)])
                       /\ StartRetries(missing \ ended)
    /\ UNCHANGED <<api, inputs>>

\* One page of DescribeInstances: it shows some of the instances that exist.
DescribePage ==
    /\ api = "describe"
    /\ step = "aggregate"
    /\ \E S \in SUBSET {i \in missing : ec2State[i] # "gone"} :
          /\ S # {}
          /\ results' = Populate(S, [i \in S |-> Found(i)])
          /\ missing' = missing \ S
    /\ UNCHANGED <<api, inputs, step, retrying, ec2State>>

\* No more pages, or a page that failed.
DescribeEnd ==
    /\ api = "describe"
    /\ step = "aggregate"
    /\ StartRetries(missing)
    /\ UNCHANGED <<api, inputs, results, ec2State>>

\* The goroutine of instance i makes its own call and fills in the results.
Retry(i) ==
    /\ step = "retry"
    /\ i \in retrying
    /\ \E out \in SingleOutcomes(i) :
          /\ results' = Populate({i}, [j \in {i} |-> out])
          /\ ec2State' = IF api = "terminate" /\ out.err = "none"
                      THEN [ec2State EXCEPT ![i] = TerminateOne(@)]
                      ELSE ec2State
    /\ retrying' = retrying \ {i}
    /\ UNCHANGED <<api, inputs, missing, step>>

\* wg.Wait returns and so does the executor.
BatchReturn ==
    /\ step = "retry"
    /\ retrying = {}
    /\ step' = "returned"
    /\ UNCHANGED <<api, inputs, results, missing, retrying, ec2State>>

BatchNext ==
    \/ TerminateAggregate
    \/ DescribePage
    \/ DescribeEnd
    \/ \E i \in Ids : Retry(i) \/ InstanceEnds(i)
    \/ BatchReturn

BatchSpec == BatchInit /\ [][BatchNext]_batchVars

-----------------------------------------------------------------------------
(* Properties *)

\* Type correctness; only instances that are missing are asked for again.
BatchTypeOK ==
    /\ api \in {"terminate", "describe"}
    /\ inputs \in UNION {[1..n -> Ids] : n \in 1..MaxInputs}
    /\ results \in [DOMAIN inputs ->
          [err: {"none", Transient, "protected", "notfound"}, id: Ids \cup {""}, found: BOOLEAN]]
    /\ missing \subseteq Ids
    /\ step \in {"aggregate", "retry", "returned"}
    /\ retrying \subseteq missing
    /\ ec2State \in [Ids -> States]

\* Every request of the batch, the duplicates included, is answered, and about the
\* instance it named: the slice is returned with no zero Result, which a caller
\* would read as a success with no output.
EverySlotAnswered ==
    step = "returned" => \A r \in DOMAIN inputs : results[r].id = inputs[r]

\* A caller of TerminateInstances that gets no error has its instance terminating,
\* whichever of the two calls answered it and whatever happened to the rest of the
\* batch.
SuccessMeansTerminating ==
    api = "terminate" =>
        \A r \in DOMAIN inputs :
            results[r].id = inputs[r] /\ results[r].err = "none" =>
                ec2State[inputs[r]] \in Terminating \cup {"gone"}

\* "A single instance failure can result in all of an availability zone's instances
\* failing": the retries confine it.  An error that EC2 blames on an instance is
\* reported only for requests that name that instance.
FailureIsOwn ==
    \A r \in DOMAIN inputs :
        /\ results[r].err = "protected" => ec2State[inputs[r]] = "protected"
        /\ results[r].err = "notfound" => ec2State[inputs[r]] = "gone"

\* An instance that the aggregated call accounted for keeps that answer: no retry
\* overwrites it with an error or an empty output.
AnswerKept ==
    [][\A r \in DOMAIN inputs : results[r].found => results'[r] = results[r]]_batchVars

\* What the result slice holds while the calls are made: a request whose instance
\* was found has it, one whose instance is still to be asked for has the zero Result,
\* and one whose goroutine is done has an answer about its own instance.
SlotsFollow ==
    /\ \A r \in DOMAIN inputs :
          /\ results[r] = Zero \/ results[r].id = inputs[r]
          /\ results[r].found => results[r] = Found(inputs[r])
          /\ inputs[r] \notin missing => results[r] = Found(inputs[r])
          /\ step = "aggregate" /\ inputs[r] \in missing => results[r] = Zero
          /\ inputs[r] \in retrying => results[r] = Zero
          /\ step # "aggregate" /\ inputs[r] \notin retrying => results[r].id = inputs[r]
    /\ step # "retry" => retrying = {}

\* Safety of the executors of TerminateInstances and DescribeInstances: every
\* request hears about its own instance, and what it hears is true.
InstanceBatchInv ==
    BatchTypeOK /\ SlotsFollow /\ EverySlotAnswered /\ SuccessMeansTerminating /\ FailureIsOwn
=============================================================================
