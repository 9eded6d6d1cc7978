--------------------------- MODULE ExecutorProofs ----------------------------
(***************************************************************************)
(* Proofs about the executors of the three batchers, for batches of any    *)
(* size.                                                                   *)
(*                                                                         *)
(* CreateFleet deals out instances: for any number of NodeClaims, in       *)
(* whatever batches their requests end up, no instance goes to two of them *)
(* and none that was asked for is forgotten.  A fleet is named after the   *)
(* first request of its batch, and a request is in one batch only, by the  *)
(* invariant of the batcher; so two instances that are dealt out differ in *)
(* their fleet or in their position.                                       *)
(*                                                                         *)
(* TerminateInstances and DescribeInstances answer every request of a      *)
(* batch with the truth about its own instance, whatever duplicates the    *)
(* batch contains and whatever EC2 does in the meantime.                   *)
(***************************************************************************)
EXTENDS CreateFleet, InstanceBatch, BatcherProofs

-----------------------------------------------------------------------------
(* What the executor returns *)

\* The reservations of an answer, taken one after the other.
LEMMA FlattenTwo ==
  ASSUME NEW s, Len(s) = 2
  PROVE  FlattenSeq(s) = s[1] \o s[2]
<1> DEFINE flatten == CHOOSE f : f = [i \in 1..Len(s) |-> IF i = 1 THEN s[i] ELSE f[i - 1] \o s[i]]
           g == [i \in 1..2 |-> IF i = 1 THEN s[1] ELSE s[1] \o s[2]]
<1>1. g = [i \in 1..Len(s) |-> IF i = 1 THEN s[i] ELSE g[i - 1] \o s[i]]
  OBVIOUS
<1>2. FlattenSeq(s) = flatten[2]
  BY DEF FlattenSeq
<1>3. flatten = [i \in 1..Len(s) |-> IF i = 1 THEN s[i] ELSE flatten[i - 1] \o s[i]]
  BY <1>1, Zenon
<1> HIDE DEF flatten
<1>4. flatten[1] = s[1]
  BY <1>3
<1>5. flatten[2] = flatten[1] \o s[2]
  BY <1>3
<1> QED
  BY Zenon, <1>2, <1>4, <1>5

\* The instances of an answer, in order, whatever reservations they are grouped in.
LEMMA FleetFlattened ==
  ASSUME NEW batch, NEW n \in Nat, NEW m \in 0..n
  PROVE  LET ids == FleetInstances(batch, n)
         IN  FlattenSeq(<<SubSeq(ids, 1, m), SubSeq(ids, m + 1, n)>>) = ids
<1> DEFINE ids == FleetInstances(batch, n)
           T == {batch[1]} \X Nat
<1>1. ids \in [1..n -> T]
  BY DEF FleetInstances
<1>2. ids \in Seq(T) /\ Len(ids) = n
  BY <1>1
<1> HIDE DEF ids
<1>3. FlattenSeq(<<SubSeq(ids, 1, m), SubSeq(ids, m + 1, n)>>)
        = SubSeq(ids, 1, m) \o SubSeq(ids, m + 1, n)
  <2> DEFINE s == <<SubSeq(ids, 1, m), SubSeq(ids, m + 1, n)>>
  <2>1. Len(s) = 2 /\ s[1] = SubSeq(ids, 1, m) /\ s[2] = SubSeq(ids, m + 1, n)
    BY Zenon
  <2> HIDE DEF s
  <2>2. FlattenSeq(s) = s[1] \o s[2]
    BY ZenonT(30), <2>1, FlattenTwo
  <2> QED
    BY ZenonT(30), <2>1, <2>2 DEF s
<1>4. SubSeq(ids, 1, m) \o SubSeq(ids, m + 1, n) = SubSeq(ids, 1, n)
  <2>1. 1 \in 1..(Len(ids) + 1) /\ m \in (1 - 1)..Len(ids) /\ n \in m..Len(ids)
    BY <1>2
  <2> HIDE DEF T
  <2> QED
    BY <1>2, <2>1, ConcatAdjacentSubSeq, Zenon
<1>5. SubSeq(ids, 1, n) = ids
  BY Zenon, <1>2, SubSeqFull
<1> QED
  BY ZenonT(30), <1>3, <1>4, <1>5 DEF ids

\* What execCreateFleetBatch returns: one result for each request.  An error goes to
\* all; otherwise the k-th request gets the k-th instance while there are instances,
\* and a reason once there are none.
LEMMA FleetResults ==
  ASSUME NEW batch \in Seq(Reqs), NEW n \in Nat, NEW output \in CreateFleetOutputs(batch, n)
  PROVE  /\ Len(execCreateFleetBatch(batch, output)) = Len(batch)
         /\ \A i \in 1..Len(batch) :
               LET res == execCreateFleetBatch(batch, output)[i]
               IN  \/ output.err /\ res.Err /\ res.Instances = <<>>
                   \/ ~output.err /\ i <= n /\ res.Instances = << <<batch[1], i>> >>
                   \/ ~output.err /\ i > n /\ res.Instances = <<>> /\ res.Errors # {}
<1>0. Len(batch) \in Nat
  BY Zenon, LenProperties
<1>1. CASE output.err
  <2>1. execCreateFleetBatch(batch, output)
          = [i \in 1..Len(batch) |-> [Err |-> TRUE, Instances |-> <<>>, Errors |-> {}]]
    BY Zenon, <1>1 DEF execCreateFleetBatch
  <2> QED
    BY <1>0, <1>1, <2>1
<1>2. ASSUME NEW m \in 0..n, NEW errors \in {{}, {"ICE"}},
             LET ids == FleetInstances(batch, n)
             IN  output = [err |-> FALSE,
                           Instances |-> <<SubSeq(ids, 1, m), SubSeq(ids, m + 1, n)>>,
                           Errors |-> errors]
      PROVE  /\ Len(execCreateFleetBatch(batch, output)) = Len(batch)
             /\ \A i \in 1..Len(batch) :
                   LET res == execCreateFleetBatch(batch, output)[i]
                   IN  \/ i <= n /\ res.Instances = << <<batch[1], i>> >>
                       \/ i > n /\ res.Instances = <<>> /\ res.Errors # {}
  <2> DEFINE ids == FleetInstances(batch, n)
             least == IF n <= Len(batch) THEN n ELSE Len(batch)
             dealt == [i \in 1..least |-> [Err |-> FALSE, Instances |-> <<ids[i]>>, Errors |-> errors]]
             rest == ErrorResults(Len(batch) - least, errors)
  <2>1. /\ output.err = FALSE /\ output.Errors = errors
        /\ output.Instances = <<SubSeq(ids, 1, m), SubSeq(ids, m + 1, n)>>
    BY Zenon, <1>2
  <2>2. FlattenSeq(output.Instances) = ids
    BY Zenon, <2>1, FleetFlattened
  <2>3. Len(ids) = n /\ \A i \in 1..n : ids[i] = <<batch[1], i>>
    BY DEF FleetInstances
  <2>4. Min({n, Len(batch)}) = least /\ least \in Nat /\ least <= Len(batch)
    <3>1. \A x \in {n, Len(batch)} : (\A y \in {n, Len(batch)} : x =< y) => x = least
      BY <1>0
    <3>2. least \in {n, Len(batch)} /\ \A y \in {n, Len(batch)} : least =< y
      BY <1>0
    <3> QED
      BY Zenon, <1>0, <3>1, <3>2 DEF Min
  <2>5. InstanceResults(batch, FlattenSeq(output.Instances), output.Errors) = dealt
    BY ZenonT(30), <2>1, <2>2, <2>3, <2>4 DEF InstanceResults
  <2>6. Len(dealt) = least
    BY <2>4
  <2>7. execCreateFleetBatch(batch, output) = dealt \o rest
    BY ZenonT(30), <2>1, <2>5, <2>6 DEF execCreateFleetBatch
  <2> DEFINE T == [Err: {FALSE}, Instances: {<<ids[i]>> : i \in 1..n} \cup {<<>>},
                   Errors: {errors, {"too few instances returned"}}]
  <2>8. dealt \in Seq(T)
    <3>1. \A i \in 1..least :
            [Err |-> FALSE, Instances |-> <<ids[i]>>, Errors |-> errors] \in T
      BY <1>0, <2>4
    <3> HIDE DEF T
    <3> QED
      BY <2>4, <3>1
  <2>9. rest \in Seq(T) /\ Len(rest) = Len(batch) - least
        /\ \A i \in 1..Len(rest) : rest[i].Instances = <<>> /\ rest[i].Errors # {}
    <3> DEFINE e == [Err |-> FALSE, Instances |-> <<>>,
                     Errors |-> IF errors = {} THEN {"too few instances returned"} ELSE errors]
    <3>1. e \in T /\ e.Instances = <<>> /\ e.Errors # {}
      BY ZenonT(30)
    <3>2. rest = [i \in 1..(Len(batch) - least) |-> e]
      BY Zenon DEF ErrorResults
    <3> HIDE DEF T, e, rest
    <3>3. Len(batch) - least \in Nat
      BY <1>0, <2>4
    <3>4. rest \in Seq(T) /\ Len(rest) = Len(batch) - least
      BY <3>1, <3>2, <3>3
    <3>5. \A i \in 1..Len(rest) : rest[i] = e
      BY <3>2, <3>3, <3>4
    <3> QED
      BY ZenonT(30), <3>1, <3>4, <3>5
  <2> HIDE DEF T, rest
  <2>10. /\ Len(dealt \o rest) = Len(batch)
         /\ \A i \in 1..Len(batch) :
               (dealt \o rest)[i] = IF i <= least THEN dealt[i] ELSE rest[i - least]
    BY <1>0, <2>4, <2>6, <2>8, <2>9, ConcatProperties
  <2>11. ASSUME NEW i \in 1..Len(batch)
         PROVE  LET res == execCreateFleetBatch(batch, output)[i]
                IN  \/ i <= n /\ res.Instances = << <<batch[1], i>> >>
                    \/ i > n /\ res.Instances = <<>> /\ res.Errors # {}
    <3>1. CASE i <= least
      <4>1. execCreateFleetBatch(batch, output)[i] = dealt[i]
        BY Zenon, <2>7, <2>10, <3>1
      <4>2. dealt[i].Instances = <<ids[i]>> /\ i \in 1..n /\ i <= n
        BY <1>0, <2>4, <3>1
      <4> QED
        BY ZenonT(30), <2>3, <4>1, <4>2
    <3>2. CASE ~(i <= least)
      <4>1. execCreateFleetBatch(batch, output)[i] = rest[i - least]
        BY Zenon, <2>7, <2>10, <3>2
      <4>2. i - least \in 1..Len(rest) /\ i > n
        BY <1>0, <2>4, <2>9, <3>2
      <4> QED
        BY Zenon, <2>9, <4>1, <4>2
    <3> QED
      BY Zenon, <3>1, <3>2
  <2>12. Len(execCreateFleetBatch(batch, output)) = Len(batch)
    BY <2>7, <2>10
  <2> HIDE DEF dealt, least, ids
  <2> QED
    BY <2>11, <2>12, Zenon
<1>3. CASE ~output.err
  <2>1. \E m \in 0..n, errors \in {{}, {"ICE"}} :
           LET ids == FleetInstances(batch, n)
           IN  output = [err |-> FALSE,
                         Instances |-> <<SubSeq(ids, 1, m), SubSeq(ids, m + 1, n)>>,
                         Errors |-> errors]
    BY <1>3 DEF CreateFleetOutputs
  <2> QED
    BY ZenonT(30), <1>2, <1>3, <2>1
<1> QED
  BY Zenon, <1>1, <1>3

-----------------------------------------------------------------------------
(* The CreateFleet batcher is a batcher *)

\* Its steps are steps of the batcher, with this executor.
LEMMA FleetIsBatcher ==
  IInv /\ [FleetNext]_fleetVars => [Next]_vars
<1> SUFFICES ASSUME IInv, [FleetNext]_fleetVars PROVE [Next]_vars
  BY Zenon
<1>1. ASSUME NEW c \in calls, ExecuteFleet(c) PROVE Execute(c)
  <2>1. \E n \in 0..(Len(c.reqs) + MaxExtra) : \E output \in CreateFleetOutputs(c.reqs, n) :
          calls' = (calls \ {c}) \cup
             {[c EXCEPT !.done = TRUE, !.results = execCreateFleetBatch(c.reqs, output)]}
    BY ZenonT(30), <1>1 DEF ExecuteFleet
  <2>2. c.reqs \in Batches
    BY Zenon, CallFacts, BucketIsBatch
  <2>3. \A n \in 0..(Len(c.reqs) + MaxExtra) : \A output \in CreateFleetOutputs(c.reqs, n) :
          execCreateFleetBatch(c.reqs, output) \in Exec(c.reqs)
    BY Zenon, <2>2, FleetAssumption
  <2> QED
    BY ZenonT(30), <1>1, <2>1, <2>3 DEF ExecuteFleet, Execute
<1> QED
  BY Zenon, <1>1 DEF FleetNext, Next, RunCalls, fleetVars

\* Only the executor decides answers.
LEMMA AnswersStand ==
  ASSUME IInv, IInv', ReturnedWithResult,
         \/ \E r \in Reqs : Add(r)
         \/ Run
         \/ \E c \in calls : Deliver(c) \/ Finish(c)
         \/ Shutdown
         \/ UNCHANGED vars
  PROVE  \A r \in Reqs : AnswerOf(r)' = AnswerOf(r)
<1>1. \/ \E r \in Reqs : Service!Submit(r) \/ Service!Return(r)
      \/ Service!Close
      \/ UNCHANGED Service!vars
  <2>1. CASE \E r \in Reqs : AddTrigger(r)
    <3>1. /\ UNCHANGED <<calls, requestor, result, ctxDone>>
          /\ \A q \in Reqs : pc'[q] = pc[q] \/ (pc[q] = "trigger" /\ pc'[q] = "wait")
      BY Zenon, <2>1 DEF AddTrigger, IInv, TypeOK
    <3> QED
      BY Zenon, <3>1, QuietMaps
  <2>2. CASE \/ RunSelectDone \/ RunSelectTrigger \/ WaitForIdle \/ Take
             \/ DispatchDone \/ Drain \/ UNCHANGED vars
    <3>1. UNCHANGED <<pc, calls, requestor, result, ctxDone>>
      BY Zenon, <2>2 DEF RunSelectDone, RunSelectTrigger, WaitForIdle, WaitTrigger, WaitReturn, Take,
                  DispatchDone, Drain, addVars, vars
    <3> QED
      BY Zenon, <3>1, QuietMaps
  <2>3. CASE Shutdown
    BY Zenon, <2>3, ShutdownMaps
  <2> QED
    BY Zenon, <2>1, <2>2, <2>3, AddRegisterMaps, AddReturnMaps, WorkerMaps, DeliverMaps DEF Add, Run
<1>2. [r \in Reqs |-> AnswerOf(r)]' = [r \in Reqs |-> AnswerOf(r)]
  BY ZenonT(30), <1>1 DEF Service!Submit, Service!Return, Service!Close, Service!vars
<1> QED
  BY Zenon, <1>2

-----------------------------------------------------------------------------
(* Instances are dealt out *)

\* No instance at the start.
LEMMA FleetInitDealt == FleetInit => InstancesDealt
BY Zenon DEF FleetInit, NewBatcher, InstancesDealt, DecidedReqs, AnswerOf

\* A step that decides nothing and launches nothing.
LEMMA StandingDealt ==
  ASSUME InstancesDealt, UNCHANGED launched, \A r \in Reqs : AnswerOf(r)' = AnswerOf(r)
  PROVE  InstancesDealt'
<1>1. DecidedReqs' = DecidedReqs /\ \A r \in DecidedReqs : AnswerOf(r)' = AnswerOf(r)
  BY Zenon DEF DecidedReqs
<1> QED
  BY <1>1 DEF InstancesDealt, Says

\* The answer of EC2 to a batch.
LEMMA ExecuteDealt ==
  ASSUME IInv, IInv', ReturnedWithResult, InstancesDealt, NEW c \in calls, ExecuteFleet(c)
  PROVE  InstancesDealt'
<1>0. PICK n \in 0..(Len(c.reqs) + MaxExtra) : \E output \in CreateFleetOutputs(c.reqs, n) :
        /\ calls' = (calls \ {c}) \cup
             {[c EXCEPT !.done = TRUE, !.results = execCreateFleetBatch(c.reqs, output)]}
        /\ launched' = launched \cup
             {[id |-> <<c.reqs[1], k>>, asked |-> k <= Len(c.reqs), ok |-> ~output.err] : k \in 1..n}
  BY ZenonT(30) DEF ExecuteFleet
<1>1. PICK output \in CreateFleetOutputs(c.reqs, n) :
        /\ calls' = (calls \ {c}) \cup
             {[c EXCEPT !.done = TRUE, !.results = execCreateFleetBatch(c.reqs, output)]}
        /\ launched' = launched \cup
             {[id |-> <<c.reqs[1], k>>, asked |-> k <= Len(c.reqs), ok |-> ~output.err] : k \in 1..n}
  BY ZenonT(30), <1>0
<1> DEFINE B == c.reqs
           res == execCreateFleetBatch(B, output)
<1>2. /\ B \in Seq(Reqs) /\ B # <<>> /\ IsInjective(B) /\ B \in Batches
      /\ Len(B) \in Nat \ {0} /\ DOMAIN B = 1..Len(B) /\ \A i \in 1..Len(B) : B[i] \in Reqs
      /\ n \in Nat /\ Len(B) <= Cardinality(Reqs) /\ Cardinality(Reqs) \in Nat
  <2>1. B \in Seq(Reqs) /\ B # <<>> /\ IsInjective(B)
    BY Zenon, CallFacts
  <2>2. B \in Batches
    BY Zenon, <2>1, BucketIsBatch
  <2>3. Len(B) \in Nat \ {0} /\ DOMAIN B = 1..Len(B) /\ \A i \in 1..Len(B) : B[i] \in Reqs
    BY Zenon, <2>1, EmptySeq, LenProperties, ElementOfSeq
  <2>4. Cardinality(Reqs) \in Nat
    BY Zenon, ReqsAssumption, FS_CardinalityType
  <2>5. Len(B) <= Cardinality(Reqs)
    <3>1. PICK m \in 1..Cardinality(Reqs) : B \in [1..m -> Reqs]
      BY Zenon, <2>2 DEF Batches
    <3>2. 1..m = 1..Len(B) /\ m \in Nat
      BY <2>3, <2>4, <3>1
    <3> QED
      BY <2>3, <2>4, <3>1, <3>2
  <2> QED
    BY <2>1, <2>2, <2>3, <2>4, <2>5, FleetAssumption
<1>3. /\ ~c.done /\ UNCHANGED <<pc, result, requestor, ctxDone>>
      /\ res \in Exec(B)
  BY Zenon, <1>2, FleetAssumption DEF ExecuteFleet, addVars
<1>4. /\ Len(res) = Len(B)
      /\ \A i \in 1..Len(B) :
            \/ output.err /\ res[i].Err /\ res[i].Instances = <<>>
            \/ ~output.err /\ i <= n /\ res[i].Instances = << <<B[1], i>> >>
            \/ ~output.err /\ i > n /\ res[i].Instances = <<>> /\ res[i].Errors # {}
  BY Zenon, <1>2, FleetResults
<1>5. \A i \in 1..Len(B) : res[i] # CallError /\ res[i] # None
  <2>1. \A i \in 1..Len(B) : res[i] \in AnswersFor(B[i])
    BY Zenon, <1>2, <1>3, <1>4, ExecResults
  <2> QED
    BY Zenon, <1>2, <2>1, FleetAssumption, NoneAssumption
<1>6. /\ \A i \in 1..Len(B) : AnswerOf(B[i]) = None /\ AnswerOf(B[i])' = res[i]
      /\ \A r \in Reqs : r \notin Range(B) => AnswerOf(r)' = AnswerOf(r)
  <2> HIDE DEF res
  <2>1. /\ \A i \in 1..Len(B) :
              /\ AnswerOf(B[i]) = None
              /\ AnswerOf(B[i])' = IF i <= Len(res) THEN res[i] ELSE CallError
        /\ \A r \in Reqs : r \notin Range(B) => AnswerOf(r)' = AnswerOf(r)
    BY ZenonT(30), <1>1, <1>3, ExecuteDecides DEF res
  <2> QED
    BY <1>2, <1>4, <2>1
<1> HIDE DEF res, B
<1>7. /\ DecidedReqs' = DecidedReqs \cup Range(B)
      /\ \A r \in DecidedReqs : r \notin Range(B) /\ AnswerOf(r)' = AnswerOf(r)
      /\ \A r \in Range(B) : \E i \in 1..Len(B) : r = B[i] /\ AnswerOf(r)' = res[i]
      /\ \A i \in 1..Len(B) : B[i] \in Range(B)
      /\ B[1] \in Range(B)
  <2>1. \A i \in 1..Len(B) : B[i] \in Range(B)
    BY Zenon, <1>2 DEF Range
  <2>2. \A r \in Range(B) : \E i \in 1..Len(B) : r = B[i] /\ AnswerOf(r)' = res[i]
    BY Zenon, <1>2, <1>6 DEF Range
  <2>3. \A r \in DecidedReqs : r \notin Range(B) /\ AnswerOf(r)' = AnswerOf(r)
    BY Zenon, <1>2, <1>6 DEF DecidedReqs, Range
  <2>4. \A r \in Reqs : r \in DecidedReqs' <=> r \in DecidedReqs \cup Range(B)
    BY <1>5, <1>6, <2>2, <2>3 DEF DecidedReqs
  <2>5. DecidedReqs' \subseteq Reqs /\ DecidedReqs \subseteq Reqs /\ Range(B) \subseteq Reqs
    BY Zenon, <1>2 DEF DecidedReqs, Range
  <2> QED
    BY <1>2, <2>1, <2>2, <2>3, <2>4, <2>5
<1>8. ASSUME NEW i \in 1..Len(B)
      PROVE  /\ Says(res[i])
             /\ res[i].Instances # <<>> => res[i].Instances = << <<B[1], i>> >>
  <2>1. CASE res[i].Err /\ res[i].Instances = <<>>
    BY <1>5, <2>1, Zenon DEF Says
  <2>2. CASE res[i].Instances = << <<B[1], i>> >>
    <3>1. res[i].Instances # <<>>
      BY <2>2
    <3> QED
      BY <1>5, <2>2, <3>1, Zenon DEF Says
  <2>3. CASE res[i].Instances = <<>> /\ res[i].Errors # {}
    BY <1>5, <2>3, Zenon DEF Says
  <2> QED
    BY <1>4, <2>1, <2>2, <2>3, Zenon
<1>9. \A r \in DecidedReqs' :
        /\ Says(AnswerOf(r)')
        /\ AnswerOf(r)'.Instances # <<>> =>
              \E q \in DecidedReqs' : \E k \in 1..Cardinality(Reqs) :
                 AnswerOf(r)'.Instances = << <<q, k>> >>
  <2>1. ASSUME NEW r \in DecidedReqs
        PROVE  /\ Says(AnswerOf(r)')
               /\ AnswerOf(r)'.Instances # <<>> =>
                     \E q \in DecidedReqs' : \E k \in 1..Cardinality(Reqs) :
                        AnswerOf(r)'.Instances = << <<q, k>> >>
    BY <1>7 DEF InstancesDealt
  <2>2. ASSUME NEW r \in Range(B)
        PROVE  /\ Says(AnswerOf(r)')
               /\ AnswerOf(r)'.Instances # <<>> =>
                     \E q \in DecidedReqs' : \E k \in 1..Cardinality(Reqs) :
                        AnswerOf(r)'.Instances = << <<q, k>> >>
    <3>1. PICK i \in 1..Len(B) : AnswerOf(r)' = res[i]
      BY Zenon, <1>7
    <3>2. B[1] \in DecidedReqs' /\ i \in 1..Cardinality(Reqs)
      BY <1>2, <1>7
    <3> QED
      BY Zenon, <1>8, <3>1, <3>2
  <2> QED
    BY Zenon, <1>7, <2>1, <2>2
<1>10. ASSUME NEW r \in DecidedReqs', NEW q \in DecidedReqs',
              AnswerOf(r)'.Instances # <<>>, AnswerOf(r)'.Instances = AnswerOf(q)'.Instances
       PROVE  r = q
  <2>1. \A a \in DecidedReqs : AnswerOf(a)'.Instances # <<>> =>
           \E p \in Reqs : \E k \in Nat : p # B[1] /\ AnswerOf(a)'.Instances = << <<p, k>> >>
    <3> SUFFICES ASSUME NEW a \in DecidedReqs, AnswerOf(a).Instances # <<>>
                 PROVE  \E p \in Reqs : \E k \in Nat :
                           p # B[1] /\ AnswerOf(a).Instances = << <<p, k>> >>
      BY <1>7
    <3>1. PICK p \in DecidedReqs, k \in 1..Cardinality(Reqs) : AnswerOf(a).Instances = << <<p, k>> >>
      BY Zenon DEF InstancesDealt
    <3>2. p # B[1] /\ k \in Nat /\ p \in Reqs
      BY <1>2, <1>7 DEF DecidedReqs
    <3> QED
      BY Zenon, <3>1, <3>2
  <2>2. \A a \in Range(B) : AnswerOf(a)'.Instances # <<>> =>
           \E i \in 1..Len(B) : a = B[i] /\ AnswerOf(a)'.Instances = << <<B[1], i>> >>
    BY SMTT(30), <1>7, <1>8
  <2>3. CASE r \in DecidedReqs /\ q \in DecidedReqs
    BY SMTT(30), <1>7, <1>10, <2>3 DEF InstancesDealt
  <2>4. CASE r \in Range(B) /\ q \in Range(B)
    <3>1. PICK i \in 1..Len(B) : r = B[i] /\ AnswerOf(r)'.Instances = << <<B[1], i>> >>
      BY Zenon, <1>10, <2>2, <2>4
    <3>2. PICK j \in 1..Len(B) : q = B[j] /\ AnswerOf(q)'.Instances = << <<B[1], j>> >>
      BY Zenon, <1>10, <2>2, <2>4
    <3> QED
      BY SMTT(30), <1>10, <3>1, <3>2
  <2>5. CASE \/ r \in DecidedReqs /\ q \in Range(B)
             \/ r \in Range(B) /\ q \in DecidedReqs
    BY <1>10, <2>1, <2>2, <2>5
  <2> QED
    BY Zenon, <1>7, <2>3, <2>4, <2>5
<1>11. ASSUME NEW l \in launched', l.asked, l.ok
       PROVE  \E r \in DecidedReqs' : AnswerOf(r)'.Instances = <<l.id>>
  <2>1. CASE l \in launched
    <3>1. PICK r \in DecidedReqs : AnswerOf(r).Instances = <<l.id>>
      BY <1>11, <2>1, Zenon DEF InstancesDealt
    <3> QED
      BY Zenon, <1>7, <3>1
  <2>2. CASE l \notin launched
    <3>1. PICK k \in 1..n : l = [id |-> <<B[1], k>>, asked |-> k <= Len(B), ok |-> ~output.err]
      BY Zenon, <1>1, <2>2 DEF B
    <3>2. k \in 1..Len(B) /\ k <= n /\ ~output.err /\ l.id = <<B[1], k>>
      <4>1. l.asked = (k <= Len(B)) /\ l.ok = ~output.err /\ l.id = <<B[1], k>>
        BY Zenon, <3>1
      <4>2. k <= Len(B) /\ ~output.err
        BY <1>11, <4>1, Zenon
      <4> QED
        BY <1>2, <4>1, <4>2
    <3>3. res[k].Instances = <<l.id>>
      BY SMTT(30), <1>2, <1>4, <3>2
    <3>4. B[k] \in DecidedReqs' /\ AnswerOf(B[k])' = res[k]
      BY Zenon, <1>6, <1>7, <3>2
    <3> QED
      BY Zenon, <3>3, <3>4
  <2> QED
    BY Zenon, <2>1, <2>2
<1> QED
  BY ZenonT(30), <1>9, <1>10, <1>11 DEF InstancesDealt, Says

-----------------------------------------------------------------------------
(* What the invariant means for callers *)

\* What a request has been given is the answer that was decided for it.
LEMMA GivenIsAnswer ==
  ASSUME IInv, ReturnedWithResult, NEW r \in Reqs, NEW a \in Given(r)
  PROVE  r \in DecidedReqs /\ a = AnswerOf(r)
<1>1. AnswerChar
  BY Zenon, AnswerCharHolds
<1> QED
  BY Zenon, <1>1 DEF AnswerChar, ReturnedWithResult, Given, DecidedReqs

\* A decided answer is with its caller, in the channel or still with the worker.
LEMMA AnswerIsSomewhere ==
  ASSUME IInv, NEW r \in DecidedReqs, AnswerOf(r) # CallError
  PROVE  AnswerOf(r) \in Given(r) \/ \E c \in calls : AnswerOf(r) \in Pending(c)
<1>1. AnswerChar /\ r \in Reqs /\ AnswerOf(r) # None
  BY Zenon, AnswerCharHolds DEF DecidedReqs
<1>2. CASE Answered(r)
  BY Zenon, <1>1, <1>2 DEF AnswerChar, Answered, Given
<1>3. CASE ~Answered(r)
  <2>1. PICK c \in calls : c.done /\ r \in Unanswered(c)
    BY Zenon, <1>1, <1>3 DEF AnswerChar, Decided
  <2>2. PICK i \in (c.idx + 1)..Len(c.reqs) : c.reqs[i] = r
    BY Zenon, <2>1 DEF Unanswered
  <2>3. AnswerOf(r) = ResultAt(c, i)
    BY Zenon, <1>1, <2>1, <2>2 DEF AnswerChar
  <2>4. c.idx \in Nat /\ Len(c.reqs) \in Nat /\ i \in 1..Len(c.reqs) /\ i > c.idx
        /\ c.results \in Seq(Answers)
    BY <2>2, CallFacts
  <2>5. i <= Len(c.results) /\ AnswerOf(r) = c.results[i]
    BY Zenon, <2>3 DEF ResultAt
  <2>6. i \in DOMAIN c.results
    BY <2>4, <2>5, LenProperties
  <2> QED
    BY Zenon, <2>1, <2>4, <2>5, <2>6 DEF Pending
<1> QED
  BY Zenon, <1>2, <1>3

LEMMA DealtIsSafe == IInv /\ ReturnedWithResult /\ InstancesDealt => FleetInv
<1> SUFFICES ASSUME IInv, ReturnedWithResult, InstancesDealt PROVE FleetInv
  BY Zenon
<1>1. NoSharedInstance
  BY GivenIsAnswer DEF NoSharedInstance, InstancesDealt
<1>2. NoEmptyAnswer
  BY GivenIsAnswer, Zenon DEF NoEmptyAnswer, InstancesDealt, Says
<1>3. NoInstanceForgotten
  <2> SUFFICES ASSUME NEW i \in launched, i.asked, i.ok
               PROVE  \E res \in (UNION {Given(r) : r \in Reqs}) \cup (UNION {Pending(c) : c \in calls}) :
                         res # CallError /\ res.Instances = <<i.id>>
    BY Zenon DEF NoInstanceForgotten
  <2>1. PICK r \in DecidedReqs : AnswerOf(r).Instances = <<i.id>>
    BY Zenon DEF InstancesDealt
  <2>2. AnswerOf(r) # CallError /\ r \in Reqs
    BY Zenon DEF InstancesDealt, Says, DecidedReqs
  <2>3. AnswerOf(r) \in Given(r) \/ \E c \in calls : AnswerOf(r) \in Pending(c)
    BY Zenon, <2>2, AnswerIsSomewhere
  <2> QED
    BY Zenon, <2>1, <2>2, <2>3
<1> QED
  BY Zenon, <1>1, <1>2, <1>3 DEF FleetInv

LEMMA NextDealt ==
  IInv /\ IInv' /\ ReturnedWithResult /\ InstancesDealt /\ [FleetNext]_fleetVars => InstancesDealt'
<1> SUFFICES ASSUME IInv, IInv', ReturnedWithResult, InstancesDealt, [FleetNext]_fleetVars
             PROVE  InstancesDealt'
  BY Zenon
<1>1. CASE \E c \in calls : ExecuteFleet(c)
  BY Zenon, <1>1, ExecuteDealt
<1>2. CASE ~\E c \in calls : ExecuteFleet(c)
  <2>1. UNCHANGED launched
    BY Zenon, <1>2 DEF FleetNext, fleetVars
  <2>2. \/ \E r \in Reqs : Add(r)
        \/ Run
        \/ \E c \in calls : Deliver(c) \/ Finish(c)
        \/ Shutdown
        \/ UNCHANGED vars
    BY Zenon, <1>2 DEF FleetNext, fleetVars
  <2> QED
    BY Zenon, <2>1, <2>2, AnswersStand, StandingDealt
<1> QED
  BY Zenon, <1>1, <1>2

\* The safety of CreateFleet behind the batcher (pkg/batcher/createfleet.go): however
\* requests fall into batches and workers interleave, no two callers get the same
\* instance, every instance that was asked for and reported is with its caller or on
\* the way to it, and an answer without an instance says why.
THEOREM FleetSafety == FleetSpec => []FleetInv
<1>1. FleetInit => IInv /\ ReturnedWithResult /\ InstancesDealt
  BY Zenon, InitIInv, FleetInitDealt DEF FleetInit, NewBatcher, ReturnedWithResult
<1>2. IInv /\ [FleetNext]_fleetVars => IInv'
  BY Zenon, FleetIsBatcher, NextIInv
<1>3. IInv /\ ReturnedWithResult /\ [FleetNext]_fleetVars => ReturnedWithResult'
  BY Zenon, FleetIsBatcher, NextReturned
<1> QED
  BY <1>1, <1>2, <1>3, NextDealt, DealtIsSafe, PTL DEF FleetSpec

-----------------------------------------------------------------------------
(* Facts about the operators *)

\* The results the executors write.
Result == [err: {"none", Transient, "protected", "notfound"}, id: Ids \cup {""}, found: BOOLEAN]

\* What Populate does to a request, where it keeps the type of the slice.
LEMMA PopulateFacts ==
  ASSUME NEW S, NEW res, results \in [DOMAIN inputs -> Result],
         \A r \in DOMAIN inputs : inputs[r] \in S => res[inputs[r]] \in Result
  PROVE  /\ Populate(S, res) \in [DOMAIN inputs -> Result]
         /\ \A r \in DOMAIN inputs :
               Populate(S, res)[r] = IF inputs[r] \in S THEN res[inputs[r]] ELSE results[r]
BY Zenon DEF Populate

\* An answer about one instance names it, and a blame or a success is what EC2 says.
LEMMA SingleFacts ==
  ASSUME NEW i \in Ids, ec2State \in [Ids -> States], api \in {"terminate", "describe"},
         NEW out \in SingleOutcomes(i)
  PROVE  /\ out \in Result /\ out.id = i
         /\ out.found => out = Found(i)
         /\ out.err = "protected" => ec2State[i] = "protected"
         /\ out.err = "notfound" => ec2State[i] = "gone"
         /\ api = "terminate" /\ out.err = "none" =>
               TerminateOne(ec2State[i]) \in Terminating
<1>1. ec2State[i] \in States
  BY Zenon
<1>2. CASE out = [err |-> Transient, id |-> i, found |-> FALSE]
  BY ZenonT(30), <1>2 DEF Result, Transient
<1>3. ASSUME api = "describe", NEW shown \in BOOLEAN,
             out = [err |-> "none", id |-> i, found |-> shown]
      PROVE  /\ out \in Result /\ out.id = i
             /\ out.found => out = Found(i)
             /\ out.err = "none"
  BY ZenonT(30), <1>3 DEF Result, Found
<1>4. CASE api = "terminate" /\ ec2State[i] = "protected"
           /\ out = [err |-> "protected", id |-> i, found |-> FALSE]
  BY ZenonT(30), <1>4 DEF Result
<1>5. CASE api = "terminate" /\ ec2State[i] = "gone"
           /\ out = [err |-> "notfound", id |-> i, found |-> FALSE]
  BY ZenonT(30), <1>5 DEF Result
<1>6. CASE api = "terminate" /\ ec2State[i] \in {"running", "shutting-down", "terminated"}
           /\ out = [err |-> "none", id |-> i, found |-> TRUE]
  BY ZenonT(30), <1>6 DEF Result, Found, TerminateOne, Terminating
<1>7. CASE api = "describe"
  <2>1. \/ out = [err |-> Transient, id |-> i, found |-> FALSE]
        \/ \E shown \in BOOLEAN : out = [err |-> "none", id |-> i, found |-> shown]
    BY ZenonT(30), <1>7 DEF SingleOutcomes
  <2> QED
    BY Zenon, <1>2, <1>3, <1>7, <2>1
<1>8. CASE api = "terminate"
  BY Zenon, <1>1, <1>2, <1>4, <1>5, <1>6, <1>8 DEF SingleOutcomes, States
<1> QED
  BY Zenon, <1>7, <1>8

\* A request's zero Result is not an answer.
LEMMA ZeroFacts ==
  /\ Zero \in Result /\ Zero.id \notin Ids /\ ~Zero.found /\ Zero.err = "none"
  /\ \A i \in Ids : /\ Found(i) \in Result /\ Found(i).id = i /\ Found(i).found
                    /\ Found(i).err = "none"
BY ZenonT(30), IdsAssumption DEF Zero, Found, Result, Transient

\* The requests of a batch name instances.
LEMMA InputFacts ==
  ASSUME BatchTypeOK
  PROVE  /\ \A r \in DOMAIN inputs : inputs[r] \in Ids
         /\ results \in [DOMAIN inputs -> Result]
         /\ Range(inputs) \subseteq Ids
         /\ \A r \in DOMAIN inputs : inputs[r] \in Range(inputs)
<1>1. PICK n \in 1..MaxInputs : inputs \in [1..n -> Ids]
  BY ZenonT(30) DEF BatchTypeOK
<1> QED
  BY ZenonT(30), <1>1 DEF BatchTypeOK, Result, Range

\* EC2 forgets no failure and undoes no termination.
EC2Moves ==
    \A i \in Ids :
        /\ ec2State[i] \in Terminating \cup {"gone"} => ec2State'[i] \in Terminating \cup {"gone"}
        /\ ec2State[i] = "protected" => ec2State'[i] = "protected"
        /\ ec2State[i] = "gone" => ec2State'[i] = "gone"

-----------------------------------------------------------------------------
(* Preservation of the invariant, by action *)

\* What the returned slice holds follows from how it was filled.
LEMMA SlotsAnswered ==
  ASSUME SlotsFollow
  PROVE  EverySlotAnswered
BY Zenon DEF SlotsFollow, EverySlotAnswered

\* A batch starts with zero Results and everything missing.
LEMMA BatchInitInv == BatchInit => InstanceBatchInv
<1> SUFFICES ASSUME BatchInit PROVE InstanceBatchInv
  BY Zenon
<1>1. BatchTypeOK
  <2>1. PICK n \in 1..MaxInputs : inputs \in [1..n -> Ids]
    BY Zenon DEF BatchInit
  <2>2. missing \subseteq Ids
    BY Zenon, <2>1 DEF BatchInit, Range
  <2>3. results \in [DOMAIN inputs -> Result]
    BY Zenon, ZeroFacts DEF BatchInit
  <2> QED
    BY ZenonT(30), <2>2, <2>3 DEF BatchInit, BatchTypeOK, Result
<1>2. SlotsFollow
  BY Zenon, ZeroFacts DEF BatchInit, SlotsFollow, Range
<1>3. SuccessMeansTerminating /\ FailureIsOwn
  BY Zenon, <1>1, ZeroFacts, InputFacts DEF BatchInit, SuccessMeansTerminating, FailureIsOwn
<1> QED
  BY Zenon, <1>1, <1>2, <1>3, SlotsAnswered DEF InstanceBatchInv

\* The single call for the whole batch.
LEMMA TerminateAggregateStep ==
  ASSUME InstanceBatchInv, TerminateAggregate
  PROVE  InstanceBatchInv'
<1>1. PICK S \in SUBSET Range(inputs) :
        /\ \A i \in S : ec2State[i] \notin {"protected", "gone"}
        /\ ec2State' = [i \in Ids |-> IF i \in S THEN TerminateOne(ec2State[i]) ELSE ec2State[i]]
        /\ \/ results' = results /\ StartRetries(missing)
           \/ /\ S = Range(inputs)
              /\ LET ended == {i \in S : ec2State'[i] \in Terminating}
                 IN  /\ results' = Populate(ended, [i \in ended |-> Found(i)])
                     /\ StartRetries(missing \ ended)
  BY ZenonT(30) DEF TerminateAggregate
<1> DEFINE ended == {i \in S : ec2State'[i] \in Terminating}
<1>2. /\ api = "terminate" /\ step = "aggregate" /\ UNCHANGED <<api, inputs>>
      /\ BatchTypeOK /\ SlotsFollow
  BY Zenon DEF TerminateAggregate, InstanceBatchInv
<1>3. ec2State' \in [Ids -> States] /\ EC2Moves
  BY ZenonT(30), <1>1, <1>2 DEF BatchTypeOK, EC2Moves, TerminateOne, States, Terminating
<1>4. CASE results' = results /\ StartRetries(missing)
  <2>1. BatchTypeOK'
    BY ZenonT(30), <1>2, <1>3, <1>4 DEF BatchTypeOK, StartRetries
  <2>2. SlotsFollow'
    BY Zenon, <1>2, <1>4, InputFacts, ZeroFacts DEF SlotsFollow, StartRetries
  <2>3. SuccessMeansTerminating' /\ FailureIsOwn'
    BY Zenon, <1>2, <1>3, <1>4, InputFacts
       DEF InstanceBatchInv, SuccessMeansTerminating, FailureIsOwn, EC2Moves
  <2>4. EverySlotAnswered'
    BY Zenon, <1>4 DEF StartRetries, EverySlotAnswered
  <2> QED
    BY Zenon, <2>1, <2>2, <2>3, <2>4 DEF InstanceBatchInv
<1>5. CASE /\ results' = Populate(ended, [i \in ended |-> Found(i)])
           /\ StartRetries(missing \ ended)
  <2>1. \A i \in ended : i \in Ids /\ ec2State'[i] \in Terminating
    BY Zenon, <1>2, InputFacts
  <2> HIDE DEF ended
  <2>2. /\ results' \in [DOMAIN inputs -> Result]
        /\ \A r \in DOMAIN inputs :
              results'[r] = IF inputs[r] \in ended THEN Found(inputs[r]) ELSE results[r]
    BY <1>2, <1>5, <2>1, InputFacts, ZeroFacts, PopulateFacts
  <2>3. BatchTypeOK'
    BY ZenonT(30), <1>2, <1>3, <1>5, <2>2 DEF BatchTypeOK, StartRetries, Result
  <2>4. SlotsFollow'
    BY <1>2, <1>5, <2>1, <2>2, InputFacts, ZeroFacts DEF SlotsFollow, StartRetries
  <2>5. SuccessMeansTerminating' /\ FailureIsOwn'
    BY <1>2, <1>3, <2>1, <2>2, InputFacts, ZeroFacts
       DEF InstanceBatchInv, SuccessMeansTerminating, FailureIsOwn, EC2Moves
  <2>6. EverySlotAnswered'
    BY Zenon, <1>5 DEF StartRetries, EverySlotAnswered
  <2> QED
    BY Zenon, <2>3, <2>4, <2>5, <2>6 DEF InstanceBatchInv
<1> QED
  BY Zenon, <1>1, <1>4, <1>5

\* A page of DescribeInstances.
LEMMA DescribePageStep ==
  ASSUME InstanceBatchInv, DescribePage
  PROVE  InstanceBatchInv'
<1>1. PICK S \in SUBSET {i \in missing : ec2State[i] # "gone"} :
        results' = Populate(S, [i \in S |-> Found(i)]) /\ missing' = missing \ S
  BY Zenon DEF DescribePage
<1>2. /\ api = "describe" /\ step = "aggregate"
      /\ UNCHANGED <<api, inputs, step, retrying, ec2State>>
      /\ BatchTypeOK /\ SlotsFollow /\ FailureIsOwn
  BY Zenon DEF DescribePage, InstanceBatchInv
<1>3. \A i \in S : i \in Ids /\ i \in missing
  BY ZenonT(30), <1>2 DEF BatchTypeOK
<1>4. /\ results' \in [DOMAIN inputs -> Result]
      /\ \A r \in DOMAIN inputs :
            results'[r] = IF inputs[r] \in S THEN Found(inputs[r]) ELSE results[r]
  BY <1>1, <1>2, <1>3, InputFacts, ZeroFacts, PopulateFacts
<1>5. BatchTypeOK'
  BY ZenonT(30), <1>1, <1>2, <1>4 DEF BatchTypeOK, SlotsFollow, Result
<1>6. SlotsFollow'
  BY <1>1, <1>2, <1>3, <1>4, InputFacts, ZeroFacts DEF SlotsFollow
<1>7. SuccessMeansTerminating' /\ FailureIsOwn'
  BY <1>2, <1>4, InputFacts, ZeroFacts DEF SuccessMeansTerminating, FailureIsOwn
<1>8. EverySlotAnswered'
  BY Zenon, <1>2 DEF EverySlotAnswered
<1> QED
  BY Zenon, <1>5, <1>6, <1>7, <1>8 DEF InstanceBatchInv

\* The goroutines start.
LEMMA DescribeEndStep ==
  ASSUME InstanceBatchInv, DescribeEnd
  PROVE  InstanceBatchInv'
<1>1. /\ step = "aggregate" /\ StartRetries(missing)
      /\ UNCHANGED <<api, inputs, results, ec2State>>
      /\ BatchTypeOK /\ SlotsFollow
  BY Zenon DEF DescribeEnd, InstanceBatchInv
<1>2. BatchTypeOK'
  BY ZenonT(30), <1>1 DEF BatchTypeOK, StartRetries
<1>3. SlotsFollow'
  BY Zenon, <1>1, InputFacts, ZeroFacts DEF SlotsFollow, StartRetries
<1>4. SuccessMeansTerminating' /\ FailureIsOwn' /\ EverySlotAnswered'
  BY Zenon, <1>1 DEF InstanceBatchInv, SuccessMeansTerminating, FailureIsOwn, EverySlotAnswered,
              StartRetries
<1> QED
  BY Zenon, <1>2, <1>3, <1>4 DEF InstanceBatchInv

\* A goroutine fills in the results of its instance.
LEMMA RetryStep ==
  ASSUME InstanceBatchInv, NEW i \in Ids, Retry(i)
  PROVE  InstanceBatchInv'
<1>1. PICK out \in SingleOutcomes(i) :
        /\ results' = Populate({i}, [j \in {i} |-> out])
        /\ ec2State' = IF api = "terminate" /\ out.err = "none"
                       THEN [ec2State EXCEPT ![i] = TerminateOne(@)]
                       ELSE ec2State
  BY ZenonT(30) DEF Retry
<1>2. /\ step = "retry" /\ i \in retrying /\ retrying' = retrying \ {i}
      /\ UNCHANGED <<api, inputs, missing, step>>
      /\ BatchTypeOK /\ SlotsFollow
  BY Zenon DEF Retry, InstanceBatchInv
<1>3. /\ out \in Result /\ out.id = i
      /\ out.found => out = Found(i)
      /\ out.err = "protected" => ec2State[i] = "protected"
      /\ out.err = "notfound" => ec2State[i] = "gone"
      /\ api = "terminate" /\ out.err = "none" => TerminateOne(ec2State[i]) \in Terminating
  BY ZenonT(30), <1>2, SingleFacts DEF BatchTypeOK
<1>4. /\ results' \in [DOMAIN inputs -> Result]
      /\ \A r \in DOMAIN inputs :
            results'[r] = IF inputs[r] = i THEN out ELSE results[r]
  BY <1>1, <1>2, <1>3, InputFacts, PopulateFacts
<1>5. /\ ec2State' \in [Ids -> States] /\ EC2Moves
      /\ api = "terminate" /\ out.err = "none" => ec2State'[i] \in Terminating
      /\ out.err # "none" => ec2State' = ec2State
  BY ZenonT(30), <1>1, <1>2, <1>3 DEF BatchTypeOK, EC2Moves, TerminateOne, States, Terminating
<1>6. BatchTypeOK'
  BY ZenonT(30), <1>2, <1>4, <1>5 DEF BatchTypeOK, Result
<1>7. SlotsFollow'
  <2> SUFFICES ASSUME NEW r \in DOMAIN inputs
               PROVE  /\ results'[r] = Zero \/ results'[r].id = inputs[r]
                      /\ results'[r].found => results'[r] = Found(inputs[r])
                      /\ inputs[r] \notin missing => results'[r] = Found(inputs[r])
                      /\ inputs[r] \in retrying' => results'[r] = Zero
                      /\ inputs[r] \notin retrying' => results'[r].id = inputs[r]
    BY Zenon, <1>2 DEF SlotsFollow
  <2>1. CASE inputs[r] = i
    <3>1. i \in missing /\ i \notin retrying' /\ results'[r] = out
      BY ZenonT(30), <1>2, <1>4, <2>1 DEF BatchTypeOK
    <3> QED
      BY Zenon, <1>3, <2>1, <3>1
  <2>2. CASE inputs[r] # i
    BY Zenon, <1>2, <1>4, <2>2 DEF SlotsFollow
  <2> QED
    BY Zenon, <2>1, <2>2
<1>8. SuccessMeansTerminating'
  BY <1>2, <1>3, <1>4, <1>5, InputFacts DEF InstanceBatchInv, SuccessMeansTerminating, EC2Moves
<1>9. FailureIsOwn'
  BY Zenon, <1>2, <1>3, <1>4, <1>5, InputFacts DEF InstanceBatchInv, FailureIsOwn, EC2Moves
<1>10. EverySlotAnswered'
  BY Zenon, <1>2 DEF EverySlotAnswered
<1> QED
  BY Zenon, <1>6, <1>7, <1>8, <1>9, <1>10 DEF InstanceBatchInv

\* What instances do on their own, or after the executor, takes nothing back.
LEMMA InstanceEndsStep ==
  ASSUME InstanceBatchInv, NEW i \in Ids, InstanceEnds(i)
  PROVE  InstanceBatchInv'
<1>1. UNCHANGED <<api, inputs, results, missing, step, retrying>> /\ BatchTypeOK
  BY Zenon DEF InstanceEnds, InstanceBatchInv
<1>2. ec2State' \in [Ids -> States] /\ EC2Moves
  BY ZenonT(30), <1>1 DEF InstanceEnds, BatchTypeOK, EC2Moves, States, Terminating
<1>3. BatchTypeOK' /\ SlotsFollow' /\ EverySlotAnswered'
  BY ZenonT(30), <1>1, <1>2 DEF InstanceBatchInv, BatchTypeOK, SlotsFollow, EverySlotAnswered
<1>4. SuccessMeansTerminating' /\ FailureIsOwn'
  BY ZenonT(30), <1>1, <1>2, InputFacts
     DEF InstanceBatchInv, SuccessMeansTerminating, FailureIsOwn, EC2Moves
<1> QED
  BY Zenon, <1>3, <1>4 DEF InstanceBatchInv

\* wg.Wait returns when every goroutine has filled in its results.
LEMMA BatchReturnStep ==
  ASSUME InstanceBatchInv, BatchReturn \/ UNCHANGED batchVars
  PROVE  InstanceBatchInv'
<1>1. /\ UNCHANGED <<api, inputs, results, missing, retrying, ec2State>>
      /\ \/ step' = step
         \/ step = "retry" /\ step' = "returned" /\ retrying = {}
  BY Zenon DEF BatchReturn, batchVars
<1>2. BatchTypeOK' /\ SlotsFollow'
  BY ZenonT(30), <1>1 DEF InstanceBatchInv, BatchTypeOK, SlotsFollow
<1>3. SuccessMeansTerminating' /\ FailureIsOwn'
  BY Zenon, <1>1 DEF InstanceBatchInv, SuccessMeansTerminating, FailureIsOwn
<1>4. EverySlotAnswered'
  BY Zenon, <1>1 DEF InstanceBatchInv, SlotsFollow, EverySlotAnswered
<1> QED
  BY Zenon, <1>2, <1>3, <1>4 DEF InstanceBatchInv

-----------------------------------------------------------------------------
(* Theorems *)

\* Every step of the executor, its goroutines and EC2 keeps the invariant.
LEMMA BatchNextInv == InstanceBatchInv /\ [BatchNext]_batchVars => InstanceBatchInv'
BY Zenon, TerminateAggregateStep, DescribePageStep, DescribeEndStep, RetryStep, InstanceEndsStep,
   BatchReturnStep DEF BatchNext

\* execTerminateInstancesBatch and execDescribeInstancesBatch: every request of a
\* batch, duplicates included, is answered about its own instance; no error means that
\* the instance is terminating; an error blamed on an instance reaches only those
\* that named it.
THEOREM InstanceBatchSafety == BatchSpec => []InstanceBatchInv
BY BatchInitInv, BatchNextInv, PTL DEF BatchSpec

\* A goroutine for a missing instance overwrites no answer of the aggregated call.
THEOREM AnswersAreKept == BatchSpec => AnswerKept
<1> DEFINE Keeps == \A r \in DOMAIN inputs : results[r].found => results'[r] = results[r]
<1>1. InstanceBatchInv /\ [BatchNext]_batchVars => [Keeps]_batchVars
  <2> SUFFICES ASSUME InstanceBatchInv, BatchNext, NEW r \in DOMAIN inputs, results[r].found
               PROVE  results'[r] = results[r]
    BY Zenon
  <2>1. /\ results[r] = Found(inputs[r]) /\ results[r] # Zero
        /\ results \in [DOMAIN inputs -> Result] /\ inputs[r] \in Ids
    BY Zenon, InputFacts, ZeroFacts DEF InstanceBatchInv, SlotsFollow
  <2>2. CASE TerminateAggregate
    BY ZenonT(30), <2>1, <2>2 DEF TerminateAggregate, Populate
  <2>3. CASE DescribePage
    BY Zenon, <2>1, <2>3 DEF DescribePage, Populate
  <2>4. CASE DescribeEnd \/ BatchReturn \/ \E i \in Ids : InstanceEnds(i)
    BY Zenon, <2>4 DEF DescribeEnd, BatchReturn, InstanceEnds
  <2>5. ASSUME NEW i \in Ids, Retry(i) PROVE results'[r] = results[r]
    <3>1. inputs[r] # i
      BY Zenon, <2>1, <2>5 DEF Retry, InstanceBatchInv, SlotsFollow
    <3> QED
      BY Zenon, <2>5, <3>1 DEF Retry, Populate
  <2> QED
    BY Zenon, <2>2, <2>3, <2>4, <2>5 DEF BatchNext
<1> QED
  BY <1>1, BatchInitInv, BatchNextInv, PTL DEF BatchSpec, AnswerKept
=============================================================================
