----------------------------- MODULE CacheProofs -----------------------------
(***************************************************************************)
(* Proofs about two caches.  The capacity reservation provider counts in   *)
(* range and returns each slot once, for any number of instances, queries  *)
(* and slots.  A launch template in use is not deleted by the eviction of  *)
(* an earlier item, for any number of launches and templates.              *)
(***************************************************************************)
EXTENDS CapacityReservation, LaunchTemplate, FiniteSetTheorems, TLAPS

-----------------------------------------------------------------------------
(* Capacity reservations *)

LEMMA Counting ==
  ASSUME NEW S \in SUBSET Instances, NEW i \in Instances
  PROVE  /\ IsFiniteSet(S) /\ Cardinality(S) \in Nat /\ Cardinality(S) <= Cardinality(Instances)
         /\ Cardinality(S \cup {i}) <= Cardinality(S) + 1
         /\ i \notin S => Cardinality(S \cup {i}) = Cardinality(S) + 1
         /\ Cardinality(S \ {i}) <= Cardinality(S)
         /\ Cardinality(S \ {i}) \in Nat
<1>1. IsFiniteSet(S) /\ Cardinality(S) <= Cardinality(Instances)
  BY Zenon, FS_Subset, CapacityAssumption
<1>2. Cardinality(S) \in Nat
  BY Zenon, <1>1, FS_CardinalityType
<1>3. IsFiniteSet(S \ {i}) /\ Cardinality(S \ {i}) <= Cardinality(S)
  BY Zenon, <1>1, FS_Subset
<1>4. i \notin S => Cardinality(S \cup {i}) = Cardinality(S) + 1
  BY Zenon, <1>1, FS_AddElement
<1>5. i \in S => Cardinality(S \cup {i}) = Cardinality(S)
  <2>1. i \in S => S \cup {i} = S
    BY Zenon
  <2> QED
    BY <2>1, Zenon
<1>6. Cardinality(S \ {i}) \in Nat
  BY Zenon, <1>3, FS_CardinalityType
<1>7. Cardinality(S \cup {i}) <= Cardinality(S) + 1
  BY <1>2, <1>4, <1>5
<1> QED
  BY Zenon, <1>1, <1>2, <1>3, <1>4, <1>6, <1>7

\* What the sets that are counted are, in numbers.
LEMMA Counted ==
  ASSUME ReservationInv
  PROVE  /\ Cardinality(Running) \in Nat /\ Available \in 0..Capacity
         /\ Cardinality(Returned) \in Nat /\ Cardinality(Returned) <= Cardinality(Instances)
         /\ Cardinality(Instances) \in Nat
<1>1. Cardinality(Instances) \in Nat
  BY Zenon, CapacityAssumption, FS_CardinalityType
<1>2. Cardinality(Running) \in Nat /\ Cardinality(Returned) \in Nat
      /\ Cardinality(Returned) <= Cardinality(Instances)
  BY Zenon, CapacityAssumption, FS_Subset, FS_CardinalityType DEF Running, Returned
<1> QED
  BY <1>1, <1>2, CapacityAssumption DEF ReservationInv, SlotsAccounted, ReservationTypeOK, Available

\* EC2: launches only into a free slot, ends free one.
LEMMA EnvironmentStep ==
  ASSUME ReservationInv,
         \/ Tick \/ OtherLaunch \/ OtherEnd \/ AvailabilityExpire
         \/ \E q \in Queries : QueryExpire(q)
         \/ \E i \in Instances : InstanceEnds(i) \/ TerminationExpire(i) \/ DeleteRunning(i)
  PROVE  ReservationInv'
<1> USE CapacityAssumption
<1>1. CASE Tick
  BY <1>1 DEF Tick, ReservationInv, ReservationTypeOK, SlotReturnedOnce, SlotsAccounted, Running, Returned
<1>2. CASE OtherLaunch \/ OtherEnd
  <2>1. Running' = Running /\ Returned' = Returned
    BY Zenon, <1>2 DEF OtherLaunch, OtherEnd, Running, Returned
  <2>2. others' \in 0..MaxOthers /\ others' + Cardinality(Running) <= Capacity
    BY <1>2, Counted
       DEF OtherLaunch, OtherEnd, Available, ReservationInv, ReservationTypeOK, SlotsAccounted
  <2> QED
    BY Zenon, <1>2, <2>1, <2>2
       DEF OtherLaunch, OtherEnd, ReservationInv, ReservationTypeOK, SlotReturnedOnce, SlotsAccounted
<1>3. CASE AvailabilityExpire \/ \E q \in Queries : QueryExpire(q)
  BY ZenonT(30), <1>3 DEF AvailabilityExpire, QueryExpire, ReservationInv, ReservationTypeOK, SlotReturnedOnce,
              SlotsAccounted, Running, Returned
<1>4. ASSUME NEW i \in Instances, InstanceEnds(i) \/ DeleteRunning(i)
      PROVE  ReservationInv'
  <2>1. Running' = Running \ {i}
    BY Zenon, <1>4 DEF InstanceEnds, DeleteRunning, Running, ReservationInv, ReservationTypeOK
  <2>2. Cardinality(Running') <= Cardinality(Running) /\ Cardinality(Running') \in Nat
    BY ZenonT(30), <2>1, Counting DEF Running
  <2>3. ReservationTypeOK'
    BY ZenonT(30), <1>4 DEF InstanceEnds, DeleteRunning, ReservationInv, ReservationTypeOK
  <2>4. SlotReturnedOnce' /\ Returned' = Returned
    BY Zenon, <1>4 DEF InstanceEnds, DeleteRunning, ReservationInv, SlotReturnedOnce, Returned
  <2>5. others' + Cardinality(Running') <= Capacity
    BY <1>4, <2>2, Counted DEF InstanceEnds, DeleteRunning, ReservationInv, ReservationTypeOK, SlotsAccounted
  <2> QED
    BY Zenon, <1>4, <2>3, <2>4, <2>5 DEF InstanceEnds, DeleteRunning, ReservationInv, SlotsAccounted
<1>5. ASSUME NEW i \in Instances, TerminationExpire(i)
      PROVE  ReservationInv'
  BY Zenon, <1>5 DEF TerminationExpire, ReservationInv, ReservationTypeOK, SlotReturnedOnce, SlotsAccounted,
              Running, Returned
<1> QED
  BY Zenon, <1>1, <1>2, <1>3, <1>4, <1>5

\* List: what it stores was counted by EC2, however long ago.
LEMMA ListStepInv ==
  ASSUME ReservationInv, ListStep
  PROVE  ReservationInv'
<1> USE CapacityAssumption
<1>1. UNCHANGED <<machine, others, terminationCache, claim, returned, clock, create>>
  BY ZenonT(30) DEF ListStep, ListStart, ListDescribe, ListError, SyncNow, SyncStore
<1>2. Running' = Running /\ Returned' = Returned /\ SlotReturnedOnce'
  BY Zenon, <1>1 DEF Running, Returned, ReservationInv, SlotReturnedOnce
<1>3. Available \in 0..Capacity /\ Cardinality(Returned) \in Nat /\ Cardinality(Instances) \in Nat
  BY Zenon, Counted
<1>4. CASE (\E q \in Queries : ListStart(q)) \/ ListDescribe \/ ListError \/ SyncNow
  <2> DEFINE Lists == [pc: {"unlocked", "describe", "sync", "store"}, query: Queries \cup {NoEntry},
                       count: 0..Capacity, now: 0..MaxClock]
  <2>0. list \in Lists /\ clock \in 0..MaxClock /\ (list.pc # "unlocked" => list.query \in Queries)
    BY Zenon DEF ReservationInv, ReservationTypeOK, SlotsAccounted
  <2>1. list' \in Lists /\ (list'.pc # "unlocked" => list'.query \in Queries)
    <3>1. CASE \E q \in Queries : ListStart(q)
      <4>1. PICK q \in Queries :
              list' = [pc |-> "describe", query |-> q, count |-> 0, now |-> 0]
        BY ZenonT(30), <3>1 DEF ListStart, Unlocked
      <4> QED
        BY <4>1
    <3>2. CASE ListDescribe
      BY ZenonT(30), <1>3, <2>0, <3>2 DEF ListDescribe
    <3>3. CASE ListError
      BY <3>3 DEF ListError, Unlocked
    <3>4. CASE SyncNow
      BY ZenonT(30), <2>0, <3>4 DEF SyncNow
    <3> QED
      BY Zenon, <1>4, <3>1, <3>2, <3>3, <3>4
  <2>2. UNCHANGED <<availabilityCache, reservationCache>>
    BY ZenonT(30), <1>4 DEF ListStart, ListDescribe, ListError, SyncNow
  <2> QED
    BY Zenon, <1>1, <1>2, <2>1, <2>2 DEF ReservationInv, ReservationTypeOK, SlotsAccounted
<1>5. CASE SyncStore
  <2>1. list.pc = "store" /\ list.query \in Queries /\ list.count \in 0..Capacity
        /\ list.now \in 0..MaxClock
    BY Zenon, <1>5 DEF SyncStore, ReservationInv, ReservationTypeOK, SlotsAccounted
  <2>2. availabilityCache' \in [count: 0..(Capacity + Cardinality(Instances)), syncTime: 0..MaxClock]
        /\ availabilityCache'.count <= Capacity + Cardinality(Returned)
    BY <1>3, <1>5, <2>1 DEF SyncStore, Entry
  <2>3. list' = Unlocked /\ reservationCache' \subseteq Queries
    BY Zenon, <1>5, <2>1 DEF SyncStore, ReservationInv, ReservationTypeOK
  <2> QED
    BY <1>1, <1>2, <2>2, <2>3 DEF Unlocked, ReservationInv, ReservationTypeOK, SlotsAccounted
<1> QED
  BY Zenon, <1>4, <1>5 DEF ListStep

\* Create: the launch takes a free slot of EC2, and its mark only lowers the count.
LEMMA CreateStepInv ==
  ASSUME ReservationInv, NEW i \in Instances, CreateStep(i)
  PROVE  ReservationInv'
<1> USE CapacityAssumption
<1> DEFINE Creates == [pc: {"idle", "fleet", "launched", "exceeded", "failed", "mark", "done"},
                       now: 0..MaxClock]
           Entries == [count: 0..(Capacity + Cardinality(Instances)), syncTime: 0..MaxClock]
<1>1. /\ UNCHANGED <<others, clock, terminationCache, reservationCache, list, claim, returned>>
      /\ Returned' = Returned /\ SlotReturnedOnce'
  BY Zenon DEF CreateStep, SelectReserved, FleetLaunch, FleetExceeded, SetAvailableInstanceCount,
         MarkLaunchedNow, MarkLaunched, Returned, SlotReturnedOnce, ReservationInv
<1>2. create' \in [Instances -> Creates]
  <2>1. create \in [Instances -> Creates] /\ clock \in 0..MaxClock
    BY Zenon DEF ReservationInv, ReservationTypeOK
  <2>2. \E pc \in {"idle", "fleet", "launched", "exceeded", "failed", "mark", "done"} :
           create' = [create EXCEPT ![i].pc = pc] \/ create' = [create EXCEPT ![i] = [pc |-> pc, now |-> clock]]
    BY Zenon DEF CreateStep, SelectReserved, FleetLaunch, FleetExceeded, SetAvailableInstanceCount,
           MarkLaunchedNow, MarkLaunched
  <2> QED
    BY <2>1, <2>2
<1>3. /\ machine' \in [Instances -> {"none", "running", "gone"}]
      /\ others + Cardinality(Running') <= Capacity
  <2>1. CASE FleetLaunch(i)
    <3>1. Running' = Running \cup {i} /\ machine' \in [Instances -> {"none", "running", "gone"}]
      BY <2>1 DEF FleetLaunch, Running, ReservationInv, ReservationTypeOK
    <3>2. Cardinality(Running') <= Cardinality(Running) + 1 /\ Cardinality(Running) \in Nat
      BY ZenonT(30), <3>1, Counting, Counted DEF Running
    <3>3. Available > 0 /\ others \in Nat
      BY <2>1 DEF FleetLaunch, ReservationInv, ReservationTypeOK
    <3>4. Cardinality(Running') \in Nat
      BY ZenonT(30), Counting DEF Running
    <3> QED
      BY <3>1, <3>2, <3>3, <3>4 DEF Available
  <2>2. CASE ~FleetLaunch(i)
    <3>1. machine' = machine
      BY Zenon, <2>2 DEF CreateStep, SelectReserved, FleetExceeded, SetAvailableInstanceCount,
                  MarkLaunchedNow, MarkLaunched
    <3>2. Running' = Running
      BY Zenon, <3>1 DEF Running
    <3> QED
      BY Zenon, <3>1, <3>2 DEF ReservationInv, ReservationTypeOK, SlotsAccounted
  <2> QED
    BY Zenon, <2>1, <2>2
<1>4. availabilityCache' # NoEntry =>
        availabilityCache' \in Entries /\ availabilityCache'.count <= Capacity + Cardinality(Returned)
  <2>1. /\ availabilityCache # NoEntry =>
              availabilityCache \in Entries /\ availabilityCache.count <= Capacity + Cardinality(Returned)
        /\ clock \in 0..MaxClock
    BY Zenon DEF ReservationInv, ReservationTypeOK, SlotsAccounted
  <2>2. Cardinality(Returned) \in Nat /\ Cardinality(Instances) \in Nat
    BY Zenon, Counted
  <2>3. CASE SetAvailableInstanceCount(i)
    BY <2>1, <2>2, <2>3 DEF SetAvailableInstanceCount, Entry
  <2>4. CASE MarkLaunched(i)
    <3>1. availabilityCache' = Launched(availabilityCache, create[i].now)
      BY Zenon, <2>4 DEF MarkLaunched
    <3>2. CASE availabilityCache' = availabilityCache
      BY Zenon, <2>1, <3>2
    <3>3. CASE /\ availabilityCache # NoEntry /\ availabilityCache.count # 0
               /\ availabilityCache' = [availabilityCache EXCEPT !.count = @ - 1]
      BY <2>1, <2>2, <3>3
    <3> QED
      BY Zenon, <3>1, <3>2, <3>3 DEF Launched
  <2>5. CASE ~SetAvailableInstanceCount(i) /\ ~MarkLaunched(i)
    <3>1. availabilityCache' = availabilityCache
      BY Zenon, <2>5 DEF CreateStep, SelectReserved, FleetLaunch, FleetExceeded, MarkLaunchedNow
    <3> QED
      BY Zenon, <2>1, <3>1
  <2> QED
    BY Zenon, <2>3, <2>4, <2>5
<1> QED
  BY Zenon, <1>1, <1>2, <1>3, <1>4 DEF ReservationInv, ReservationTypeOK, SlotsAccounted

\* Delete: a slot is returned by the one Delete that puts its instance into the
\* termination cache, and the count grows with the set of returned slots.
LEMMA DeleteStepInv ==
  ASSUME ReservationInv, NEW i \in Instances, DeleteStep(i)
  PROVE  ReservationInv'
<1> USE CapacityAssumption
<1>1. CASE DeleteRunning(i)
  BY Zenon, <1>1, EnvironmentStep
<1>2. CASE DeleteClaim(i) \/ RemoveClaim(i)
  <2>1. /\ UNCHANGED <<machine, others, clock, availabilityCache, terminationCache, reservationCache,
                       list, create, returned>>
        /\ Running' = Running /\ Returned' = Returned
    BY Zenon, <1>2 DEF DeleteClaim, RemoveClaim, Running, Returned
  <2>2. /\ claim' \in [Instances -> {"live", "deleted", "removed"}]
        /\ \A j \in Instances : claim[j] = "removed" => claim'[j] = "removed"
    BY Zenon, <1>2 DEF DeleteClaim, RemoveClaim, ReservationInv, ReservationTypeOK
  <2> QED
    BY Zenon, <2>1, <2>2 DEF ReservationInv, ReservationTypeOK, SlotReturnedOnce, SlotsAccounted, Returned
<1>3. CASE MarkTerminated(i)
  <2>1. /\ UNCHANGED <<machine, others, clock, reservationCache, list, create, claim>>
        /\ Running' = Running /\ terminationCache' = terminationCache \cup {i}
        /\ i \notin terminationCache /\ claim[i] = "deleted"
    BY Zenon, <1>3 DEF MarkTerminated, Running
  <2>2. i \notin Returned /\ returned[i] = 0 /\ returned \in [Instances -> Nat]
    BY <2>1 DEF ReservationInv, ReservationTypeOK, SlotsAccounted, Returned
  <2>3. CASE availabilityCache = NoEntry
    <3>1. UNCHANGED <<availabilityCache, returned>>
      BY Zenon, <1>3, <2>3 DEF MarkTerminated
    <3> QED
      BY Zenon, <2>1, <2>3, <3>1 DEF ReservationInv, ReservationTypeOK, SlotReturnedOnce, SlotsAccounted, Returned
  <2>4. CASE availabilityCache # NoEntry
    <3>1. /\ availabilityCache' = [availabilityCache EXCEPT !.count = @ + 1]
          /\ returned' = [returned EXCEPT ![i] = 1]
      BY <1>3, <2>2, <2>4 DEF MarkTerminated
    <3>2. Returned' = Returned \cup {i} /\ returned' \in [Instances -> Nat] /\ SlotReturnedOnce'
      BY <2>2, <3>1 DEF Returned, ReservationInv, SlotReturnedOnce
    <3>3. /\ Cardinality(Returned') = Cardinality(Returned) + 1 /\ Cardinality(Returned) \in Nat
          /\ Cardinality(Returned') <= Cardinality(Instances) /\ Cardinality(Instances) \in Nat
      BY Zenon, <2>2, <3>2, Counting, Counted DEF Returned
    <3>4. /\ availabilityCache \in [count: 0..(Capacity + Cardinality(Instances)), syncTime: 0..MaxClock]
          /\ availabilityCache.count <= Capacity + Cardinality(Returned)
      BY Zenon, <2>4 DEF ReservationInv, ReservationTypeOK, SlotsAccounted
    <3>5. /\ availabilityCache' \in [count: 0..(Capacity + Cardinality(Instances)), syncTime: 0..MaxClock]
          /\ availabilityCache'.count <= Capacity + Cardinality(Returned')
      BY <3>1, <3>3, <3>4
    <3>6. \A j \in Returned' : j \in terminationCache' \/ claim'[j] = "removed"
      BY Zenon, <2>1, <3>2 DEF ReservationInv, SlotsAccounted
    <3> QED
      BY Zenon, <2>1, <3>2, <3>5, <3>6 DEF ReservationInv, ReservationTypeOK, SlotsAccounted
  <2> QED
    BY Zenon, <2>3, <2>4
<1> QED
  BY Zenon, <1>1, <1>2, <1>3 DEF DeleteStep

\* The safety of the capacity reservation provider (providers/capacityreservation):
\* whatever polls, launches, failures, expiries and repeated Deletes interleave, the
\* count stays between zero and the reservation's size plus the slots returned since,
\* and no slot is returned twice.
THEOREM ReservationSafety == ReservationSpec => []ReservationInv
<1>1. ReservationInit => ReservationInv
  <2> SUFFICES ASSUME ReservationInit PROVE ReservationInv
    BY Zenon
  <2>1. Running = {} /\ Returned = {} /\ Cardinality({}) = 0
    BY FS_EmptySet DEF ReservationInit, Running, Returned
  <2>2. Cardinality(Running) = 0
    BY <2>1, Zenon
  <2> QED
    BY <2>1, <2>2, CapacityAssumption
       DEF ReservationInit, Unlocked, ReservationInv, ReservationTypeOK, SlotReturnedOnce, SlotsAccounted
<1>2. ReservationInv /\ [ReservationNext]_reservationVars => ReservationInv'
  <2> SUFFICES ASSUME ReservationInv, [ReservationNext]_reservationVars PROVE ReservationInv'
    BY Zenon
  <2>1. CASE UNCHANGED reservationVars
    BY Zenon, <2>1 DEF reservationVars, ReservationInv, ReservationTypeOK, SlotReturnedOnce, SlotsAccounted,
                Running, Returned
  <2> QED
    BY Zenon, <2>1, EnvironmentStep, ListStepInv, CreateStepInv, DeleteStepInv DEF ReservationNext
<1> QED
  BY <1>1, <1>2, PTL DEF ReservationSpec

-----------------------------------------------------------------------------
(* Launch templates *)

Tracking == TemplateTypeOK /\ TemplatesTracked

-----------------------------------------------------------------------------
(* Types *)

Steps == Ended \cup {"begin", "ensure", "create", "set", "fleet", "invalidate", "delete", "restore"}

\* Updates of a launch are launches.
LEMMA ProgressUpdates ==
  ASSUME NEW f \in [Launches -> Progress], NEW l \in Launches, NEW p \in Steps
  PROVE  /\ [f EXCEPT ![l].pc = p] \in [Launches -> Progress]
         /\ \A s \in SUBSET Names :
              /\ [f EXCEPT ![l].todo = s] \in [Launches -> Progress]
              /\ [f EXCEPT ![l].pc = p, ![l].todo = s] \in [Launches -> Progress]
         /\ \A n \in Names \cup {NoTemplate} : [f EXCEPT ![l].pc = p, ![l].name = n] \in [Launches -> Progress]
         /\ \A i \in Ids \cup {NoTemplate} : [f EXCEPT ![l].pc = p, ![l].id = i] \in [Launches -> Progress]
<1>1. f[l] \in Progress
  BY Zenon
<1> SUFFICES ASSUME NEW s \in SUBSET Names, NEW n \in Names \cup {NoTemplate}, NEW i \in Ids \cup {NoTemplate}
             PROVE  /\ [f EXCEPT ![l].pc = p] \in [Launches -> Progress]
                    /\ [f EXCEPT ![l].todo = s] \in [Launches -> Progress]
                    /\ [f EXCEPT ![l].pc = p, ![l].todo = s] \in [Launches -> Progress]
                    /\ [f EXCEPT ![l].pc = p, ![l].name = n] \in [Launches -> Progress]
                    /\ [f EXCEPT ![l].pc = p, ![l].id = i] \in [Launches -> Progress]
  BY Zenon
<1>2. /\ [f[l] EXCEPT !.pc = p] \in Progress
      /\ [f[l] EXCEPT !.todo = s] \in Progress
      /\ [f[l] EXCEPT !.pc = p, !.todo = s] \in Progress
      /\ [f[l] EXCEPT !.pc = p, !.name = n] \in Progress
      /\ [f[l] EXCEPT !.pc = p, !.id = i] \in Progress
  BY ZenonT(30), <1>1 DEF Progress, Steps
<1> QED
  BY Zenon, <1>2

\* So is a launch that has found a template, or that none is there (ensureLaunchTemplate).
LEMMA FoundUpdates ==
  ASSUME NEW q \in Progress, NEW p \in Steps, NEW n \in Names, NEW i \in Ids \cup {NoTemplate}
  PROVE  [q EXCEPT !.pc = p, !.name = n, !.id = i] \in Progress
BY ZenonT(30) DEF Progress, Steps

\* So are updates that name a template.
LEMMA NamedUpdates ==
  ASSUME NEW f \in [Launches -> Progress], NEW l \in Launches, NEW p \in Steps,
         NEW n \in Names \cup {NoTemplate}
  PROVE  /\ \A s \in SUBSET Names :
               [f EXCEPT ![l].pc = p, ![l].todo = s, ![l].name = n] \in [Launches -> Progress]
         /\ \A i \in Ids \cup {NoTemplate} :
               [f EXCEPT ![l].pc = p, ![l].name = n, ![l].id = i] \in [Launches -> Progress]
         /\ \A s \in SUBSET Names, i \in Ids \cup {NoTemplate} :
               [f EXCEPT ![l].pc = p, ![l].todo = s, ![l].name = n, ![l].id = i] \in [Launches -> Progress]
<1>1. f[l] \in Progress
  BY Zenon
<1> SUFFICES ASSUME NEW s \in SUBSET Names, NEW i \in Ids \cup {NoTemplate}
             PROVE  /\ [f EXCEPT ![l].pc = p, ![l].todo = s, ![l].name = n] \in [Launches -> Progress]
                    /\ [f EXCEPT ![l].pc = p, ![l].name = n, ![l].id = i] \in [Launches -> Progress]
                    /\ [f EXCEPT ![l].pc = p, ![l].todo = s, ![l].name = n, ![l].id = i] \in [Launches -> Progress]
  BY Zenon
<1>2. /\ [f[l] EXCEPT !.pc = p, !.todo = s, !.name = n] \in Progress
      /\ [f[l] EXCEPT !.pc = p, !.name = n, !.id = i] \in Progress
      /\ [f[l] EXCEPT !.pc = p, !.todo = s, !.name = n, !.id = i] \in Progress
  BY ZenonT(30), <1>1 DEF Progress, Steps
<1> QED
  BY Zenon, <1>2

-----------------------------------------------------------------------------
(* The start *)

LEMMA InitTracked == TemplateInit => Tracking
<1> SUFFICES ASSUME TemplateInit PROVE Tracking
  BY Zenon
<1>1. Cardinality(Earlier) \in Nat
  BY Zenon, NeedsAssumption, FS_CardinalityType
<1>2. PICK S \in SUBSET Earlier : \E f \in [Earlier -> 1..Cardinality(Earlier)] :
          /\ \A m, n \in Earlier : f[m] = f[n] => m = n
          /\ ec2 = [n \in Names |-> IF n \in S THEN f[n] ELSE NoTemplate]
  BY Zenon DEF TemplateInit
<1>3. PICK f \in [Earlier -> 1..Cardinality(Earlier)] :
          /\ \A m, n \in Earlier : f[m] = f[n] => m = n
          /\ ec2 = [n \in Names |-> IF n \in S THEN f[n] ELSE NoTemplate]
  BY Zenon, <1>2
<1>4. \A n \in Names : ec2[n] # NoTemplate =>
         ec2[n] \in 1..(nextId - 1) /\ \A m \in Names : ec2[m] = ec2[n] => m = n
  BY <1>1, <1>3, NeedsAssumption DEF TemplateInit
<1>5. TemplateTypeOK
  <2>1. \A l \in Launches : Begin(l) \in Progress
    BY NeedsAssumption DEF Begin, Progress, Ended
  <2>2. launch \in [Launches -> Progress]
    BY Zenon, <2>1 DEF TemplateInit
  <2>3. ec2 \in [Names -> Ids \cup {NoTemplate}] /\ nextId \in 1..(MaxId + 1)
    BY <1>1, <1>3, NeedsAssumption DEF TemplateInit, Ids
  <2> QED
    BY Zenon, <2>2, <2>3 DEF TemplateInit, TemplateTypeOK
<1>6. LockIsHeld
  BY Zenon, NeedsAssumption DEF TemplateInit, LockIsHeld, Begin, IdleJanitor
<1>7. IdsAreApart
  BY Zenon, <1>4 DEF TemplateInit, IdsAreApart, Apart
<1>8. CacheTracks
  BY Zenon DEF TemplateInit, CacheTracks, Begin
<1>9. UseIsSafe
  BY ZenonT(30) DEF TemplateInit, UseIsSafe, Begin, InUse, IdleJanitor
<1> QED
  BY Zenon, <1>5, <1>6, <1>7, <1>8, <1>9 DEF Tracking, TemplatesTracked

-----------------------------------------------------------------------------
(* The launches *)

\* A step of a launch that changes neither EC2 nor the cache, and begins to use only
\* what is cached.
LEMMA LaunchMoves ==
  ASSUME Tracking, TemplateTypeOK', LockIsHeld', NEW l \in Launches,
         UNCHANGED <<ec2, nextId, cache, evicted, janitor, hydrate, dropped>>,
         \A k \in Launches \ {l} : launch'[k] = launch[k],
         launch[l].pc # "set",
         launch'[l].pc = "set" =>
            launch'[l].name \in Names /\ ec2[launch'[l].name] # NoTemplate /\ launch'[l].id = ec2[launch'[l].name],
         \A n \in Names : InUse(n)' => InUse(n) \/ (Hit(n) /\ janitor.pc # "delete")
  PROVE  Tracking'
<1>1. IdsAreApart'
  BY Zenon DEF Tracking, TemplatesTracked, IdsAreApart, Apart
<1>2. \A n \in Names : (Setting(n) => Setting(n)') /\ (Gone(n)' <=> Gone(n)) /\ (Hit(n)' <=> Hit(n))
  BY Zenon DEF Setting, Gone, Hit
<1>3. \A n \in Names : Tracked(n) => Tracked(n)'
  BY Zenon, <1>2 DEF Tracked
<1>4. CacheTracks'
  <2>1. /\ \A n \in Names : cache'[n] # NoTemplate => Tracked(n)'
        /\ \A n \in Names : cache'[n] # NoTemplate /\ ~cache'[n].live => hydrate'.pc = "done"
        /\ hydrate'.pc # "store" => hydrate'.page = {}
    BY Zenon, <1>3 DEF Tracking, TemplatesTracked, CacheTracks
  <2>2. \A item \in hydrate'.page : item.id # ec2'[item.name] => Tracked(item.name)'
    BY Zenon, <1>3 DEF Tracking, TemplatesTracked, CacheTracks, TemplateTypeOK
  <2>3. \A k \in Launches : (launch[k].pc = "set" =>
          Apart(launch[k].name, launch[k].id) /\ ec2[launch[k].name] \in {launch[k].id, NoTemplate})'
    BY DEF Tracking, TemplatesTracked, CacheTracks, IdsAreApart, Apart
  <2> QED
    BY Zenon, <2>1, <2>2, <2>3 DEF CacheTracks
<1>5. UseIsSafe'
  BY ZenonT(30), <1>2 DEF Tracking, TemplatesTracked, UseIsSafe, Gone
<1> QED
  BY Zenon, <1>1, <1>4, <1>5 DEF Tracking, TemplatesTracked

LEMMA EnsureStep ==
  ASSUME Tracking, NEW l \in Launches, NEW n,
         \/ EnsureAll(l) \/ (n \in Names /\ (EnsureCached(l, n) \/ EnsureDescribe(l, n)))
         \/ EnsureError(l) \/ EnsureReturn(l)
  PROVE  Tracking'
<1> USE DEF Lock, Unlock
<1>1. CASE EnsureAll(l)
  <2>1. launch' \in [Launches -> Progress]
    <3>1. launch \in [Launches -> Progress] /\ Needs[l] \in SUBSET Names
          /\ launch[l].todo \ {n} \in SUBSET Names
      BY Zenon, NeedsAssumption DEF Tracking, TemplateTypeOK, Progress
    <3> QED
      BY <1>1, <3>1, ProgressUpdates, Zenon DEF EnsureAll, Steps, Ended
  <2>2. TemplateTypeOK'
    BY Zenon, <1>1, <2>1 DEF EnsureAll, Tracking, TemplateTypeOK
  <2>3. /\ launch'[l].pc = "ensure" /\ launch'[l].todo = Needs[l]
        /\ \A k \in Launches \ {l} : launch'[k] = launch[k]
    BY Zenon, <1>1 DEF EnsureAll, Tracking, TemplateTypeOK, Progress
  <2>4. LockIsHeld'
    BY ZenonT(30), <1>1, <2>3, NeedsAssumption DEF EnsureAll, Tracking, TemplatesTracked, LockIsHeld
  <2>5. \A m \in Names : InUse(m)' => InUse(m)
    BY Zenon, <2>3 DEF InUse
  <2> QED
    BY ZenonT(30), <1>1, <2>2, <2>3, <2>4, <2>5, LaunchMoves DEF EnsureAll
<1>2. CASE n \in Names /\ EnsureCached(l, n)
  <2>1. launch' \in [Launches -> Progress]
    <3>1. launch \in [Launches -> Progress] /\ Needs[l] \in SUBSET Names
          /\ launch[l].todo \ {n} \in SUBSET Names
      BY Zenon, NeedsAssumption DEF Tracking, TemplateTypeOK, Progress
    <3> QED
      BY <1>2, <3>1, ProgressUpdates, Zenon DEF EnsureCached, Steps, Ended
  <2>2. TemplateTypeOK'
    BY Zenon, <1>2, <2>1 DEF EnsureCached, Tracking, TemplateTypeOK
  <2>3. /\ launch'[l].pc = "ensure" /\ launch'[l].name = launch[l].name
        /\ launch'[l].todo = launch[l].todo \ {n}
        /\ \A k \in Launches \ {l} : launch'[k] = launch[k]
    BY Zenon, <1>2 DEF EnsureCached, Tracking, TemplateTypeOK, Progress
  <2>4. LockIsHeld'
    BY Zenon, <1>2, <2>3 DEF EnsureCached, Tracking, TemplatesTracked, LockIsHeld
  <2>5. \A m \in Names : InUse(m)' => InUse(m) \/ m = n
    BY Zenon, <1>2, <2>3 DEF InUse, EnsureCached
  <2>6. janitor.pc # "delete"
    BY Zenon, <1>2, NeedsAssumption DEF EnsureCached, Tracking, TemplatesTracked, LockIsHeld
  <2> QED
    BY Zenon, <1>2, <2>2, <2>3, <2>4, <2>5, <2>6, LaunchMoves DEF EnsureCached
<1>3. CASE n \in Names /\ EnsureDescribe(l, n)
  <2>1. launch' \in [Launches -> Progress]
    <3>1. launch \in [Launches -> Progress] /\ Needs[l] \in SUBSET Names
          /\ ec2[n] \in Ids \cup {NoTemplate} /\ launch[l].todo \ {n} \in SUBSET Names
      BY Zenon, <1>3, NeedsAssumption DEF Tracking, TemplateTypeOK, Progress
    <3> QED
      <4> DEFINE p == IF ec2[n] = NoTemplate THEN "create" ELSE "set"
      <4>1. n \in Names /\ p \in Steps /\ launch' = [launch EXCEPT ![l].pc = p, ![l].name = n, ![l].id = ec2[n]]
        BY Zenon, <1>3 DEF EnsureDescribe, Steps
      <4> HIDE DEF p
      <4>2. launch[l] \in Progress
        BY Zenon, <3>1
      <4>3. [launch[l] EXCEPT !.pc = p, !.name = n, !.id = ec2[n]] \in Progress
        BY ZenonT(30), <3>1, <4>1, <4>2, FoundUpdates
      <4> QED
        BY Zenon, <3>1, <4>1, <4>3
  <2>2. TemplateTypeOK'
    BY Zenon, <1>3, <2>1 DEF EnsureDescribe, Tracking, TemplateTypeOK
  <2>3. /\ launch'[l].pc = IF ec2[n] = NoTemplate THEN "create" ELSE "set"
        /\ launch'[l].name = n /\ launch'[l].id = ec2[n] /\ launch'[l].todo = launch[l].todo
        /\ \A k \in Launches \ {l} : launch'[k] = launch[k]
    BY Zenon, <1>3 DEF EnsureDescribe, Tracking, TemplateTypeOK, Progress
  <2>4. LockIsHeld'
    BY ZenonT(30), <1>3, <2>3 DEF EnsureDescribe, Tracking, TemplatesTracked, LockIsHeld
  <2>5. \A m \in Names : InUse(m)' => InUse(m)
    <3>1. launch[l].pc = "ensure"
      BY Zenon, <1>3 DEF EnsureDescribe
    <3> QED
      BY Zenon, <2>3, <3>1 DEF InUse
  <2> QED
    <3>1. launch'[l].pc = "set" => ec2[n] # NoTemplate
      BY Zenon, <2>3
    <3>2. UNCHANGED <<ec2, nextId, cache, evicted, janitor, hydrate, dropped>> /\ launch[l].pc # "set"
      BY Zenon, <1>3 DEF EnsureDescribe
    <3> QED
      BY Zenon, <1>3, <2>2, <2>3, <2>4, <2>5, <3>1, <3>2, LaunchMoves
<1>4. CASE EnsureError(l)
  <2>1. launch' \in [Launches -> Progress]
    <3>1. launch \in [Launches -> Progress] /\ Needs[l] \in SUBSET Names
          /\ launch[l].todo \ {n} \in SUBSET Names
      BY Zenon, NeedsAssumption DEF Tracking, TemplateTypeOK, Progress
    <3> QED
      BY <1>4, <3>1, ProgressUpdates, Zenon DEF EnsureError, Steps, Ended
  <2>2. TemplateTypeOK'
    BY Zenon, <1>4, <2>1 DEF EnsureError, Tracking, TemplateTypeOK
  <2>3. launch'[l].pc = "error" /\ \A k \in Launches \ {l} : launch'[k] = launch[k]
    BY Zenon, <1>4 DEF EnsureError, Tracking, TemplateTypeOK, Progress
  <2>4. LockIsHeld'
    BY ZenonT(30), <1>4, <2>3, NeedsAssumption DEF EnsureError, Tracking, TemplatesTracked, LockIsHeld
  <2>5. \A m \in Names : InUse(m)' => InUse(m)
    BY Zenon, <2>3 DEF InUse
  <2> QED
    BY ZenonT(30), <1>4, <2>2, <2>3, <2>4, <2>5, LaunchMoves DEF EnsureError
<1>5. CASE EnsureReturn(l)
  <2>1. launch' \in [Launches -> Progress]
    <3>1. launch \in [Launches -> Progress] /\ Needs[l] \in SUBSET Names
          /\ launch[l].todo \ {n} \in SUBSET Names
      BY Zenon, NeedsAssumption DEF Tracking, TemplateTypeOK, Progress
    <3> QED
      BY <1>5, <3>1, ProgressUpdates, Zenon DEF EnsureReturn, Steps, Ended
  <2>2. TemplateTypeOK'
    BY Zenon, <1>5, <2>1 DEF EnsureReturn, Tracking, TemplateTypeOK
  <2>3. launch'[l].pc = "fleet" /\ \A k \in Launches \ {l} : launch'[k] = launch[k]
    BY Zenon, <1>5 DEF EnsureReturn, Tracking, TemplateTypeOK, Progress
  <2>4. LockIsHeld'
    BY Zenon, <1>5, <2>3, NeedsAssumption DEF EnsureReturn, Tracking, TemplatesTracked, LockIsHeld
  <2>5. \A m \in Names : InUse(m)' => InUse(m)
    BY Zenon, <1>5, <2>3 DEF InUse, EnsureReturn
  <2> QED
    BY Zenon, <1>5, <2>2, <2>3, <2>4, <2>5, LaunchMoves DEF EnsureReturn
<1> QED
  BY Zenon, <1>1, <1>2, <1>3, <1>4, <1>5

LEMMA FleetStep ==
  ASSUME Tracking, NEW l \in Launches, NEW n,
         \/ CreateFleet(l) \/ FleetNotFound(l) \/ (n \in Names /\ InvalidateCache(l, n))
         \/ InvalidateReturn(l) \/ Retry(l) \/ GiveUp(l)
  PROVE  Tracking'
<1> USE DEF Lock, Unlock
<1>1. CASE CreateFleet(l)
  <2>1. launch' \in [Launches -> Progress]
    <3>1. launch \in [Launches -> Progress] /\ Needs[l] \in SUBSET Names
          /\ launch[l].todo \ {launch[l].name} \in SUBSET Names
      BY Zenon, NeedsAssumption DEF Tracking, TemplateTypeOK, Progress
    <3> QED
      BY <1>1, <3>1, ProgressUpdates, Zenon DEF CreateFleet, Steps, Ended
  <2>2. TemplateTypeOK'
    BY Zenon, <1>1, <2>1 DEF CreateFleet, Tracking, TemplateTypeOK
  <2>3. launch'[l].pc = "launched"
        /\ \A k \in Launches \ {l} : launch'[k] = launch[k]
    BY Zenon, <1>1 DEF CreateFleet, Tracking, TemplateTypeOK, Progress
  <2>4. LockIsHeld'
    BY Zenon, <1>1, <2>3, NeedsAssumption DEF CreateFleet, Tracking, TemplatesTracked, LockIsHeld
  <2>5. \A m \in Names : InUse(m)' => InUse(m)
    BY Zenon, <2>3 DEF InUse
  <2> QED
    BY Zenon, <1>1, <2>2, <2>3, <2>4, <2>5, LaunchMoves DEF CreateFleet
<1>2. CASE FleetNotFound(l)
  <2>1. launch' \in [Launches -> Progress]
    <3>1. launch \in [Launches -> Progress] /\ Needs[l] \in SUBSET Names
          /\ launch[l].todo \ {launch[l].name} \in SUBSET Names
      BY Zenon, NeedsAssumption DEF Tracking, TemplateTypeOK, Progress
    <3> QED
      BY <1>2, <3>1, ProgressUpdates, Zenon DEF FleetNotFound, Steps, Ended
  <2>2. TemplateTypeOK'
    BY Zenon, <1>2, <2>1 DEF FleetNotFound, Tracking, TemplateTypeOK
  <2>3. launch'[l].pc = "invalidate"
        /\ \A k \in Launches \ {l} : launch'[k] = launch[k]
    BY Zenon, <1>2 DEF FleetNotFound, Tracking, TemplateTypeOK, Progress
  <2>4. LockIsHeld'
    BY ZenonT(30), <1>2, <2>3, NeedsAssumption DEF FleetNotFound, Tracking, TemplatesTracked, LockIsHeld
  <2>5. \A m \in Names : InUse(m)' => InUse(m)
    BY Zenon, <2>3 DEF InUse
  <2> QED
    BY ZenonT(30), <1>2, <2>2, <2>3, <2>4, <2>5, LaunchMoves DEF FleetNotFound
<1>3. CASE n \in Names /\ InvalidateCache(l, n)
  <2>1. launch' \in [Launches -> Progress]
    <3>1. launch \in [Launches -> Progress] /\ Needs[l] \in SUBSET Names
          /\ launch[l].todo \ {launch[l].name} \in SUBSET Names
      BY Zenon, NeedsAssumption DEF Tracking, TemplateTypeOK, Progress
    <3> QED
      BY <1>3, <3>1, ProgressUpdates, Zenon DEF InvalidateCache, Steps, Ended
  <2>2. TemplateTypeOK'
    BY ZenonT(30), <1>3, <2>1 DEF InvalidateCache, Tracking, TemplateTypeOK
  <2>3. launch'[l].pc = "delete" /\ launch'[l].name = n
        /\ \A k \in Launches \ {l} : launch'[k] = launch[k]
    BY Zenon, <1>3 DEF InvalidateCache, Tracking, TemplateTypeOK, Progress
  <2>4. LockIsHeld'
    BY ZenonT(30), <1>3, <2>3, NeedsAssumption DEF InvalidateCache, Tracking, TemplatesTracked, LockIsHeld
  <2>5. \A m \in Names : InUse(m)' => InUse(m)
    BY Zenon, <2>3 DEF InUse
  <2> QED
    BY ZenonT(30), <1>3, <2>2, <2>3, <2>4, <2>5, LaunchMoves DEF InvalidateCache
<1>4. CASE InvalidateReturn(l)
  <2>1. launch' \in [Launches -> Progress]
    <3>1. launch \in [Launches -> Progress] /\ Needs[l] \in SUBSET Names
          /\ launch[l].todo \ {launch[l].name} \in SUBSET Names
      BY Zenon, NeedsAssumption DEF Tracking, TemplateTypeOK, Progress
    <3> QED
      BY <1>4, <3>1, NamedUpdates, Zenon DEF InvalidateReturn, Steps, Ended
  <2>2. TemplateTypeOK'
    BY Zenon, <1>4, <2>1 DEF InvalidateReturn, Tracking, TemplateTypeOK
  <2>3. launch'[l].pc = "invalidate"
        /\ \A k \in Launches \ {l} : launch'[k] = launch[k]
    BY <1>4 DEF InvalidateReturn, Tracking, TemplateTypeOK, Progress
  <2>4. LockIsHeld'
    BY ZenonT(30), <1>4, <2>3, NeedsAssumption DEF InvalidateReturn, Tracking, TemplatesTracked, LockIsHeld
  <2>5. \A m \in Names : InUse(m)' => InUse(m)
    BY Zenon, <2>3 DEF InUse
  <2> QED
    BY ZenonT(30), <1>4, <2>2, <2>3, <2>4, <2>5, LaunchMoves DEF InvalidateReturn
<1>5. CASE Retry(l)
  <2>1. launch' \in [Launches -> Progress]
    <3>1. launch \in [Launches -> Progress] /\ Needs[l] \in SUBSET Names
          /\ launch[l].todo \ {launch[l].name} \in SUBSET Names
      BY Zenon, NeedsAssumption DEF Tracking, TemplateTypeOK, Progress
    <3> QED
      <4> DEFINE r == [Begin(l) EXCEPT !.try = 2]
      <4>1. r \in Progress
        BY <3>1 DEF Begin, Progress, Ended
      <4>2. launch' = [launch EXCEPT ![l] = r]
        BY Zenon, <1>5 DEF Retry
      <4> HIDE DEF r
      <4> QED
        BY Zenon, <3>1, <4>1, <4>2
  <2>2. TemplateTypeOK'
    BY Zenon, <1>5, <2>1 DEF Retry, Tracking, TemplateTypeOK
  <2>3. launch'[l].pc = "begin"
        /\ \A k \in Launches \ {l} : launch'[k] = launch[k]
    BY Zenon, <1>5 DEF Retry, Begin, Tracking, TemplateTypeOK, Progress
  <2>4. LockIsHeld'
    BY Zenon, <1>5, <2>3, NeedsAssumption DEF Retry, Tracking, TemplatesTracked, LockIsHeld
  <2>5. \A m \in Names : InUse(m)' => InUse(m)
    BY Zenon, <2>3 DEF InUse
  <2> QED
    BY Zenon, <1>5, <2>2, <2>3, <2>4, <2>5, LaunchMoves DEF Retry
<1>6. CASE GiveUp(l)
  <2>1. launch' \in [Launches -> Progress]
    <3>1. launch \in [Launches -> Progress] /\ Needs[l] \in SUBSET Names
          /\ launch[l].todo \ {launch[l].name} \in SUBSET Names
      BY Zenon, NeedsAssumption DEF Tracking, TemplateTypeOK, Progress
    <3> QED
      BY <1>6, <3>1, ProgressUpdates, Zenon DEF GiveUp, Steps, Ended
  <2>2. TemplateTypeOK'
    BY Zenon, <1>6, <2>1 DEF GiveUp, Tracking, TemplateTypeOK
  <2>3. launch'[l].pc = "notFound"
        /\ \A k \in Launches \ {l} : launch'[k] = launch[k]
    BY Zenon, <1>6 DEF GiveUp, Tracking, TemplateTypeOK, Progress
  <2>4. LockIsHeld'
    BY Zenon, <1>6, <2>3, NeedsAssumption DEF GiveUp, Tracking, TemplatesTracked, LockIsHeld
  <2>5. \A m \in Names : InUse(m)' => InUse(m)
    BY Zenon, <2>3 DEF InUse
  <2> QED
    BY Zenon, <1>6, <2>2, <2>3, <2>4, <2>5, LaunchMoves DEF GiveUp
<1> QED
  BY Zenon, <1>1, <1>2, <1>3, <1>4, <1>5, <1>6

LEMMA TemplateCreateStep ==
  ASSUME Tracking, NEW l \in Launches, CreateLaunchTemplate(l)
  PROVE  Tracking'
<1>0. PICK n \in Names : n = launch[l].name
  BY Zenon DEF Tracking, TemplatesTracked, LockIsHeld, CreateLaunchTemplate
<1>1. /\ launch[l].pc = "create" /\ lock = l /\ janitor.pc # "delete"
      /\ nextId \in 1..MaxId
  BY NeedsAssumption DEF Tracking, TemplatesTracked, LockIsHeld, CreateLaunchTemplate, TemplateTypeOK
<1>2. launch' \in [Launches -> Progress]
  <2>1. launch \in [Launches -> Progress] /\ nextId \in Ids \cup {NoTemplate}
    BY Zenon, <1>1 DEF Tracking, TemplateTypeOK, Ids
  <2> QED
    BY <2>1, ProgressUpdates, Zenon DEF CreateLaunchTemplate, Steps
<1>3. /\ launch'[l].pc = "set" /\ launch'[l].name = n /\ launch'[l].id = nextId
      /\ launch'[l].todo = launch[l].todo
      /\ \A k \in Launches \ {l} : launch'[k] = launch[k]
  BY <1>0 DEF CreateLaunchTemplate, Tracking, TemplateTypeOK, Progress
<1>4. /\ ec2'[n] = nextId /\ \A m \in Names \ {n} : ec2'[m] = ec2[m]
      /\ nextId' = nextId + 1
      /\ UNCHANGED <<cache, onEvicted, evicted, janitor, lock, hydrate, outOfSync, dropped>>
  BY Zenon, <1>0, <1>1 DEF CreateLaunchTemplate, Tracking, TemplateTypeOK
<1>5. TemplateTypeOK'
  <2>1. ec2' \in [Names -> Ids \cup {NoTemplate}] /\ nextId' \in 1..(MaxId + 1)
    BY <1>0, <1>1, NeedsAssumption DEF CreateLaunchTemplate, Tracking, TemplateTypeOK, Ids
  <2> QED
    BY Zenon, <1>2, <1>4, <2>1 DEF Tracking, TemplateTypeOK
<1>6. LockIsHeld'
  BY Zenon, <1>1, <1>3, <1>4 DEF Tracking, TemplatesTracked, LockIsHeld
<1>7. \A m \in Names, id \in 1..(nextId - 1) : Apart(m, id) => Apart(m, id)'
  BY SMTT(30), <1>1, <1>4 DEF Apart
<1>8. Apart(n, launch[l].id)'
  <2>1. \A m \in Names : ec2[m] # NoTemplate => ec2[m] < nextId
    BY <1>1 DEF Tracking, TemplatesTracked, IdsAreApart, Apart
  <2> QED
    BY <1>1, <1>3, <1>4, <2>1, NeedsAssumption DEF Apart, Ids
<1>9. IdsAreApart'
  <2>1. \A m \in Names : ec2'[m] # NoTemplate => (Apart(m, ec2[m]))'
    BY SMTT(30), <1>1, <1>3, <1>4, <1>7, <1>8 DEF Tracking, TemplatesTracked, IdsAreApart, Apart
  <2>2. \A m \in Names : (cache[m] # NoTemplate => Apart(m, cache[m].id))'
    BY <1>4, <1>7 DEF Tracking, TemplatesTracked, IdsAreApart, Apart
  <2>3. \A item \in evicted \cup hydrate.page : Apart(item.name, item.id)'
    BY SMTT(30), <1>4, <1>7 DEF Tracking, TemplatesTracked, IdsAreApart, TemplateTypeOK, Apart
  <2>4. (janitor # IdleJanitor => Apart(janitor.item.name, janitor.item.id))'
    BY SMTT(30), <1>4, <1>7 DEF Tracking, TemplatesTracked, IdsAreApart, TemplateTypeOK, Apart
  <2>5. dropped \subseteq 1..(nextId' - 1)
    BY SMTT(30), <1>1, <1>4 DEF Tracking, TemplatesTracked, IdsAreApart
  <2> QED
    BY Zenon, <1>4, <2>1, <2>2, <2>3, <2>4, <2>5 DEF IdsAreApart
<1>10. \A m \in Names : /\ Setting(m) => Setting(m)'
                        /\ m # n => (Gone(m)' <=> Gone(m))
                        /\ Hit(m)' <=> Hit(m)
  BY Zenon, <1>1, <1>3, <1>4 DEF Setting, Gone, Hit
<1>11. Setting(n)'
  BY Zenon, <1>1, <1>3, <1>4 DEF Setting
<1>12. CacheTracks'
  <2>1. \A m \in Names : Tracked(m) => Tracked(m)'
    BY Zenon, <1>4, <1>10, <1>11 DEF Tracked
  <2>2. \A item \in hydrate.page : item.id # ec2'[item.name] => Tracked(item.name)'
    BY ZenonT(30), <1>4, <1>11, <2>1 DEF Tracking, TemplatesTracked, CacheTracks, TemplateTypeOK, Tracked
  <2>3. \A k \in Launches : (launch[k].pc = "set" =>
          Apart(launch[k].name, launch[k].id) /\ ec2[launch[k].name] \in {launch[k].id, NoTemplate})'
    <3>1. \A k \in Launches \ {l} : launch[k].pc # "set"
      BY Zenon, <1>1 DEF Tracking, TemplatesTracked, LockIsHeld
    <3> QED
      BY ZenonT(30), <1>3, <1>4, <1>8, <3>1
  <2> QED
    BY Zenon, <1>4, <2>1, <2>2, <2>3 DEF Tracking, TemplatesTracked, CacheTracks
<1>13. UseIsSafe'
  <2>1. \A m \in Names : InUse(m)' => InUse(m)
    BY Zenon, <1>1, <1>3 DEF InUse
  <2> QED
    BY ZenonT(30), <1>1, <1>4, <1>10, <1>11, <2>1 DEF Tracking, TemplatesTracked, UseIsSafe
<1> QED
  BY Zenon, <1>5, <1>6, <1>9, <1>12, <1>13 DEF Tracking, TemplatesTracked

\* A step that keeps EC2, the ids it has given and what the other goroutines hold
\* keeps the ids apart, if what it stores has its own.
LEMMA ApartStays ==
  ASSUME Tracking, UNCHANGED <<ec2, nextId>>,
         \A n \in Names : cache'[n] # NoTemplate => cache'[n] = cache[n] \/ Apart(n, cache'[n].id),
         \A item \in evicted' \cup hydrate'.page :
            item \in evicted \cup hydrate.page \/ Apart(item.name, item.id),
         janitor' # IdleJanitor => \/ janitor'.item = janitor.item /\ janitor # IdleJanitor
                                   \/ Apart(janitor'.item.name, janitor'.item.id),
         dropped' \subseteq 1..(nextId - 1)
  PROVE  IdsAreApart'
BY Zenon DEF Tracking, TemplatesTracked, IdsAreApart, Apart

LEMMA SetStep ==
  ASSUME Tracking, NEW l \in Launches, EnsureSet(l)
  PROVE  Tracking'
<1>0. PICK n \in Names, id \in Ids : n = launch[l].name /\ id = launch[l].id
  <2>1. launch[l].id \in 1..(nextId - 1) /\ nextId \in 1..(MaxId + 1)
    BY Zenon DEF Tracking, TemplatesTracked, CacheTracks, Apart, EnsureSet, TemplateTypeOK
  <2> QED
    BY <2>1, NeedsAssumption DEF Tracking, TemplatesTracked, LockIsHeld, EnsureSet, Ids
<1>1. /\ launch[l].pc = "set" /\ lock = l /\ janitor.pc # "delete"
      /\ ec2[n] \in {id, NoTemplate} /\ Apart(n, id)
      /\ \A k \in Launches \ {l} : launch[k].pc # "set"
  BY Zenon, <1>0, NeedsAssumption DEF Tracking, TemplatesTracked, LockIsHeld, CacheTracks, EnsureSet
<1>2. launch' \in [Launches -> Progress]
  <2>1. launch \in [Launches -> Progress] /\ launch[l].todo \ {launch[l].name} \in SUBSET Names
    BY Zenon DEF Tracking, TemplateTypeOK, Progress
  <2> QED
    <3> DEFINE todo == launch[l].todo \ {launch[l].name}
    <3>1. launch' = [launch EXCEPT ![l].pc = "ensure", ![l].todo = todo,
                                   ![l].name = NoTemplate, ![l].id = NoTemplate]
      BY Zenon DEF EnsureSet
    <3>2. todo \in SUBSET Names /\ "ensure" \in Steps
      BY Zenon, <2>1 DEF Steps
    <3>3. NoTemplate \in Names \cup {NoTemplate} /\ NoTemplate \in Ids \cup {NoTemplate}
      BY Zenon
    <3> HIDE DEF todo
    <3> QED
      BY <2>1, <3>1, <3>2, <3>3, NamedUpdates, Zenon
<1>3. /\ launch'[l].pc = "ensure" /\ launch'[l].todo = launch[l].todo \ {n}
      /\ \A k \in Launches \ {l} : launch'[k] = launch[k]
  BY Zenon, <1>0 DEF EnsureSet, Tracking, TemplateTypeOK, Progress
<1>4. /\ cache'[n] = Cached(id, TRUE) /\ \A m \in Names \ {n} : cache'[m] = cache[m]
      /\ UNCHANGED <<ec2, nextId, onEvicted, evicted, janitor, lock, hydrate, outOfSync, dropped>>
  BY ZenonT(30), <1>0 DEF EnsureSet, Tracking, TemplateTypeOK
<1>5. /\ cache'[n] # NoTemplate /\ cache'[n].id = id /\ cache'[n].live
      /\ cache'[n] \in [id: Ids, live: BOOLEAN]
  <2>1. Cached(id, TRUE).id = id /\ Cached(id, TRUE).live = TRUE
    BY Zenon DEF Cached
  <2>2. Cached(id, TRUE) \in [id: Ids, live: BOOLEAN]
    BY Zenon DEF Cached
  <2>3. Cached(id, TRUE) # NoTemplate
    BY <2>2, NeedsAssumption, Zenon
  <2> QED
    BY <1>4, <2>1, <2>2, <2>3, Zenon
<1>6. TemplateTypeOK'
  <2>1. cache' \in [Names -> [id: Ids, live: BOOLEAN] \cup {NoTemplate}]
    <3> DEFINE S == [id: Ids, live: BOOLEAN] \cup {NoTemplate}
    <3>1. cache \in [Names -> S] /\ cache' = [cache EXCEPT ![n] = cache'[n]] /\ cache'[n] \in S
      BY ZenonT(30), <1>0, <1>4, <1>5 DEF EnsureSet, Tracking, TemplateTypeOK
    <3> HIDE DEF S
    <3>2. cache' \in [Names -> S]
      BY Zenon, <3>1
    <3> QED
      BY Zenon, <3>2 DEF S
  <2> QED
    BY Zenon, <1>2, <1>4, <2>1 DEF Tracking, TemplateTypeOK
<1>7. LockIsHeld'
  BY Zenon, <1>1, <1>3, <1>4 DEF Tracking, TemplatesTracked, LockIsHeld
<1>8. IdsAreApart'
  <2>1. dropped' \subseteq 1..(nextId - 1)
    BY Zenon, <1>4 DEF Tracking, TemplatesTracked, IdsAreApart
  <2> QED
    BY ZenonT(30), <1>1, <1>4, <1>5, <2>1, ApartStays
<1>9. \A m \in Names : /\ Gone(m)' <=> Gone(m)
                       /\ m # n => ~Setting(m) /\ (Hit(m)' <=> Hit(m))
  BY Zenon, <1>0, <1>1, <1>4 DEF Setting, Gone, Hit
<1>10. Tracked(n)' /\ Hit(n)'
  BY ZenonT(30), <1>1, <1>4, <1>5 DEF Tracked, Gone, Hit
<1>11. CacheTracks'
  <2>1. \A m \in Names : Tracked(m) => Tracked(m)'
    BY ZenonT(30), <1>4, <1>9, <1>10 DEF Tracked
  <2>2. \A item \in hydrate.page : item.id # ec2'[item.name] => Tracked(item.name)'
    BY ZenonT(30), <1>4, <2>1 DEF Tracking, TemplatesTracked, CacheTracks, TemplateTypeOK
  <2>3. \A m \in Names : cache'[m] # NoTemplate => Tracked(m)'
    BY Zenon, <1>4, <1>10, <2>1 DEF Tracking, TemplatesTracked, CacheTracks
  <2>4. \A m \in Names : cache'[m] # NoTemplate /\ ~cache'[m].live => hydrate.pc = "done"
    BY ZenonT(30), <1>4, <1>5 DEF Tracking, TemplatesTracked, CacheTracks
  <2>5. \A k \in Launches : launch'[k].pc # "set"
    BY Zenon, <1>1, <1>3
  <2> QED
    BY ZenonT(30), <1>4, <2>2, <2>3, <2>4, <2>5 DEF Tracking, TemplatesTracked, CacheTracks
<1>12. UseIsSafe'
  <2>1. \A m \in Names : InUse(m)' => InUse(m) \/ m = n
    BY ZenonT(30), <1>1, <1>3 DEF InUse
  <2> QED
    BY ZenonT(30), <1>1, <1>4, <1>9, <1>10, <2>1 DEF Tracking, TemplatesTracked, UseIsSafe
<1> QED
  BY Zenon, <1>6, <1>7, <1>8, <1>11, <1>12 DEF Tracking, TemplatesTracked

LEMMA InvalidateStep ==
  ASSUME Tracking, NEW l \in Launches, InvalidateDelete(l)
  PROVE  Tracking'
<1>0. PICK n \in Names : n = launch[l].name
  BY Zenon DEF Tracking, TemplatesTracked, LockIsHeld, InvalidateDelete
<1>1. /\ launch[l].pc = "delete" /\ lock = l /\ janitor.pc # "delete"
      /\ \A k \in Launches : launch[k].pc # "set"
  BY Zenon, NeedsAssumption DEF Tracking, TemplatesTracked, LockIsHeld, InvalidateDelete
<1>2. launch' \in [Launches -> Progress]
  <2>1. launch \in [Launches -> Progress]
    BY Zenon DEF Tracking, TemplateTypeOK
  <2> QED
    BY <2>1, ProgressUpdates, Zenon DEF InvalidateDelete, Steps
<1>3. /\ launch'[l].pc = "restore" /\ launch'[l].name = n
      /\ \A k \in Launches \ {l} : launch'[k] = launch[k]
  BY Zenon, <1>0 DEF InvalidateDelete, Tracking, TemplateTypeOK, Progress
<1>4. /\ cache'[n] = NoTemplate /\ \A m \in Names \ {n} : cache'[m] = cache[m]
      /\ dropped' = dropped \cup Abandoned(n)
      /\ UNCHANGED <<ec2, nextId, onEvicted, evicted, janitor, lock, hydrate, outOfSync>>
  BY Zenon, <1>0 DEF InvalidateDelete, Tracking, TemplateTypeOK
<1>5. Abandoned(n) \subseteq 1..(nextId - 1)
  BY Zenon DEF Tracking, TemplatesTracked, IdsAreApart, Apart, Abandoned
<1>6. TemplateTypeOK'
  <2>1. cache' \in [Names -> [id: Ids, live: BOOLEAN] \cup {NoTemplate}]
    BY Zenon, <1>0 DEF InvalidateDelete, Tracking, TemplateTypeOK
  <2>2. 1..(nextId - 1) \subseteq Ids
    BY SMTT(30), NeedsAssumption DEF Tracking, TemplateTypeOK, Ids
  <2>3. dropped' \subseteq Ids
    BY Zenon, <1>4, <1>5, <2>2 DEF Tracking, TemplateTypeOK
  <2> QED
    BY Zenon, <1>2, <1>4, <2>1, <2>3 DEF Tracking, TemplateTypeOK
<1>7. LockIsHeld'
  BY Zenon, <1>1, <1>3, <1>4 DEF Tracking, TemplatesTracked, LockIsHeld
<1>8. IdsAreApart'
  <2>1. dropped' \subseteq 1..(nextId - 1)
    BY ZenonT(30), <1>4, <1>5 DEF Tracking, TemplatesTracked, IdsAreApart
  <2> QED
    BY Zenon, <1>4, <2>1, ApartStays
<1>9. \A m \in Names : /\ Gone(m) => Gone(m)'
                       /\ ~Setting(m)
                       /\ m # n => (Hit(m)' <=> Hit(m))
  BY Zenon, <1>1, <1>4 DEF Setting, Gone, Hit
<1>10. cache[n] # NoTemplate => Gone(n)'
  BY Zenon, <1>4, <1>9 DEF Tracking, TemplatesTracked, CacheTracks, Tracked, Gone, Abandoned
<1>11. CacheTracks'
  <2>1. \A m \in Names : Tracked(m) => Tracked(m)'
    BY Zenon, <1>4, <1>9, <1>10 DEF Tracked
  <2>2. \A item \in hydrate.page : item.id # ec2'[item.name] => Tracked(item.name)'
    BY Zenon, <1>4, <2>1 DEF Tracking, TemplatesTracked, CacheTracks, TemplateTypeOK
  <2>3. /\ \A m \in Names : cache'[m] # NoTemplate => Tracked(m)'
        /\ \A m \in Names : cache'[m] # NoTemplate /\ ~cache'[m].live => hydrate.pc = "done"
    BY ZenonT(30), <1>4, <2>1 DEF Tracking, TemplatesTracked, CacheTracks
  <2>4. \A k \in Launches : launch'[k].pc # "set"
    BY Zenon, <1>1, <1>3
  <2> QED
    BY ZenonT(30), <1>4, <2>2, <2>3, <2>4 DEF Tracking, TemplatesTracked, CacheTracks
<1>12. UseIsSafe'
  <2>1. \A m \in Names : InUse(m)' => InUse(m)
    BY Zenon, <1>1, <1>3 DEF InUse
  <2>2. Hit(n) => Gone(n)'
    BY Zenon, <1>10 DEF Hit
  <2> QED
    BY Zenon, <1>1, <1>4, <1>9, <2>1, <2>2 DEF Tracking, TemplatesTracked, UseIsSafe
<1> QED
  BY Zenon, <1>6, <1>7, <1>8, <1>11, <1>12 DEF Tracking, TemplatesTracked

-----------------------------------------------------------------------------
(* The cleanup, hydration and those who delete *)

\* A step of another goroutine that creates nothing, evicts no live item and does not
\* begin to delete.
LEMMA LaunchesStay ==
  ASSUME Tracking, TemplateTypeOK', LockIsHeld', IdsAreApart', UNCHANGED <<nextId, launch>>,
         \A n \in Names : ec2'[n] = NoTemplate \/ (ec2'[n] = ec2[n] /\ (ec2[n] \in dropped => ec2[n] \in dropped')),
         \A n \in Names : Hit(n) => Hit(n)',
         \A n \in Names : cache'[n] # NoTemplate => Tracked(n)',
         \A n \in Names : cache'[n] # NoTemplate /\ ~cache'[n].live => hydrate'.pc = "done",
         \A item \in hydrate'.page : item.id # ec2'[item.name] => Tracked(item.name)',
         hydrate'.pc # "store" => hydrate'.page = {},
         janitor'.pc = "delete" => janitor' = janitor
  PROVE  Tracking'
<1>1. \A n \in Names : (Gone(n) => Gone(n)') /\ (Setting(n) => Setting(n)' \/ Gone(n)') /\ (InUse(n)' <=> InUse(n))
  BY Zenon DEF Gone, Setting, InUse
<1>2. \A l \in Launches : (launch[l].pc = "set" =>
         Apart(launch[l].name, launch[l].id) /\ ec2[launch[l].name] \in {launch[l].id, NoTemplate})'
  <2> SUFFICES ASSUME NEW l \in Launches, launch[l].pc = "set"
               PROVE  (Apart(launch[l].name, launch[l].id) /\ ec2[launch[l].name] \in {launch[l].id, NoTemplate})'
    BY ZenonT(30)
  <2>1. launch[l].name \in Names
    BY Zenon DEF Tracking, TemplatesTracked, LockIsHeld
  <2>2. launch[l].id \in 1..(nextId - 1) /\ launch[l].id # NoTemplate
    <3>1. launch[l].id \in 1..(nextId - 1) /\ nextId \in 1..(MaxId + 1)
      BY ZenonT(30) DEF Tracking, TemplatesTracked, CacheTracks, Apart, TemplateTypeOK
    <3> QED
      BY <3>1, NeedsAssumption DEF Ids
  <2> QED
    BY Zenon, <2>1, <2>2 DEF Tracking, TemplatesTracked, CacheTracks, Apart
<1>3. CacheTracks'
  BY ZenonT(30), <1>2 DEF CacheTracks
<1>4. UseIsSafe'
  <2>1. \A n \in Names : InUse(n)' => Hit(n)' \/ Gone(n)' \/ Setting(n)'
    BY Zenon, <1>1 DEF Tracking, TemplatesTracked, UseIsSafe
  <2>2. janitor'.pc = "delete" => \A n \in Names : InUse(n)' /\ ec2'[n] = janitor'.item.id => Gone(n)'
    BY Zenon, <1>1 DEF Tracking, TemplatesTracked, UseIsSafe, Gone
  <2> QED
    BY ZenonT(30), <2>1, <2>2 DEF UseIsSafe
<1> QED
  BY Zenon, <1>3, <1>4 DEF Tracking, TemplatesTracked

LEMMA DeleteExpiredStep ==
  ASSUME Tracking, DeleteExpired
  PROVE  Tracking'
<1>1. /\ cache' = [n \in Names |-> IF n \in Expired THEN NoTemplate ELSE cache[n]]
      /\ evicted' = {} \/ evicted' = {Item(n, cache[n].id) : n \in Expired}
      /\ dropped' = dropped \/ dropped' = dropped \cup UNION {Abandoned(n) : n \in Expired}
      /\ janitor = IdleJanitor /\ hydrate.pc = "done" /\ hydrate.page = {}
      /\ UNCHANGED <<ec2, nextId, onEvicted, janitor, lock, launch, hydrate, outOfSync>>
  BY Zenon DEF DeleteExpired, Expired, Tracking, TemplatesTracked, CacheTracks
<1>2. \A n \in Expired : n \in Names /\ cache[n] # NoTemplate /\ ~cache[n].live
                         /\ Apart(n, cache[n].id) /\ cache[n].id \in Ids
  BY Zenon DEF Expired, Tracking, TemplatesTracked, IdsAreApart, TemplateTypeOK
<1>3. dropped' \subseteq 1..(nextId - 1) /\ dropped' \subseteq Ids /\ dropped \subseteq dropped'
  <2>1. UNION {Abandoned(n) : n \in Expired} \subseteq 1..(nextId - 1) \cap Ids
    BY ZenonT(30), <1>2 DEF Abandoned, Apart
  <2> QED
    BY ZenonT(30), <1>1, <2>1 DEF Tracking, TemplatesTracked, IdsAreApart, TemplateTypeOK
<1>4. evicted' \subseteq [name: Names, id: Ids] /\ \A item \in evicted' : Apart(item.name, item.id)
  BY SMTT(30), <1>1, <1>2 DEF Item
<1>5. TemplateTypeOK'
  <2>1. cache' \in [Names -> [id: Ids, live: BOOLEAN] \cup {NoTemplate}]
    BY Zenon, <1>1 DEF Tracking, TemplateTypeOK
  <2> QED
    BY Zenon, <1>1, <1>3, <1>4, <2>1 DEF Tracking, TemplateTypeOK
<1>6. LockIsHeld'
  BY Zenon, <1>1 DEF Tracking, TemplatesTracked, LockIsHeld
<1>7. IdsAreApart'
  <2>1. \A n \in Names : cache'[n] # NoTemplate => cache'[n] = cache[n]
    BY ZenonT(30), <1>1
  <2> QED
    BY ZenonT(30), <1>1, <1>3, <1>4, <2>1, ApartStays
<1>8. \A n \in Names : Hit(n) => Hit(n)'
  BY Zenon, <1>1, <1>2 DEF Hit
<1>9. \A n \in Names : cache'[n] # NoTemplate => Tracked(n)'
  <2> SUFFICES ASSUME NEW n \in Names, cache'[n] # NoTemplate PROVE Tracked(n)'
    BY Zenon
  <2>1. cache'[n] = cache[n]
    BY Zenon, <1>1
  <2>2. Tracked(n)
    BY Zenon, <2>1 DEF Tracking, TemplatesTracked, CacheTracks
  <2> QED
    BY Zenon, <1>1, <1>3, <2>1, <2>2 DEF Tracked, Gone, Setting
<1> QED
  BY Zenon, <1>1, <1>3, <1>5, <1>6, <1>7, <1>8, <1>9, LaunchesStay DEF IdleJanitor

LEMMA EvictedStep ==
  ASSUME Tracking, NEW item \in evicted, CallOnEvicted(item)
  PROVE  Tracking'
<1>1. /\ janitor = IdleJanitor /\ janitor' = [pc |-> "called", item |-> item]
      /\ evicted' = evicted \ {item}
      /\ UNCHANGED <<ec2, nextId, cache, onEvicted, lock, launch, hydrate, outOfSync, dropped>>
      /\ item \in [name: Names, id: Ids] /\ Apart(item.name, item.id)
  BY Zenon DEF CallOnEvicted, Tracking, TemplatesTracked, IdsAreApart, TemplateTypeOK
<1>2. TemplateTypeOK'
  BY ZenonT(30), <1>1 DEF Tracking, TemplateTypeOK
<1>3. LockIsHeld'
  BY Zenon, <1>1 DEF Tracking, TemplatesTracked, LockIsHeld, IdleJanitor
<1>4. IdsAreApart'
  BY ZenonT(30), <1>1 DEF Tracking, TemplatesTracked, IdsAreApart, Apart
<1>5. \A n \in Names : (Hit(n) => Hit(n)') /\ (Tracked(n) => Tracked(n)')
  BY ZenonT(30), <1>1 DEF Hit, Tracked, Gone, Setting
<1>6. \A i \in hydrate.page : i.name \in Names
  BY Zenon DEF Tracking, TemplateTypeOK
<1>7. CacheTracks
  BY Zenon DEF Tracking, TemplatesTracked
<1> QED
  BY ZenonT(30), <1>1, <1>2, <1>3, <1>4, <1>5, <1>6, <1>7, LaunchesStay DEF CacheTracks

\* The heart of it: no launch holds the lock, so what is in use and not let go of is
\* cached, and the item's name is not.
LEMMA CallbackStep ==
  ASSUME Tracking, CachedEvictedFunc
  PROVE  Tracking'
<1>1. /\ janitor.pc = "called" /\ lock = NoTemplate
      /\ UNCHANGED <<ec2, nextId, cache, onEvicted, evicted, launch, hydrate, outOfSync, dropped>>
      /\ \/ janitor' = IdleJanitor /\ lock' = lock
         \/ ~Hit(janitor.item.name) /\ lock' = Janitor /\ janitor' = [janitor EXCEPT !.pc = "delete"]
  BY Zenon DEF CachedEvictedFunc, Lock
<1>2. /\ janitor \in [pc: {"called", "delete"}, item: [name: Names, id: Ids]]
      /\ Apart(janitor.item.name, janitor.item.id)
  BY <1>1 DEF Tracking, TemplatesTracked, IdsAreApart, TemplateTypeOK, IdleJanitor
<1>3. \A l \in Launches : launch[l].pc \notin {"ensure", "create", "set", "delete", "restore"}
  BY Zenon, <1>1, NeedsAssumption DEF Tracking, TemplatesTracked, LockIsHeld
<1>4. TemplateTypeOK'
  BY Zenon, <1>1, <1>2 DEF Tracking, TemplateTypeOK
<1>5. LockIsHeld'
  BY <1>1, <1>2, <1>3, NeedsAssumption DEF Tracking, TemplatesTracked, LockIsHeld, IdleJanitor
<1>6. IdsAreApart'
  BY Zenon, <1>1, <1>2 DEF Tracking, TemplatesTracked, IdsAreApart, Apart
<1>7. \A n \in Names : /\ Hit(n)' <=> Hit(n)
                       /\ Tracked(n)' <=> Tracked(n)
                       /\ Gone(n)' <=> Gone(n)
                       /\ InUse(n)' <=> InUse(n)
                       /\ ~Setting(n)
  BY Zenon, <1>1, <1>3 DEF Hit, Tracked, Gone, Setting, InUse
<1>8. CacheTracks'
  BY Zenon, <1>1, <1>3, <1>7 DEF Tracking, TemplatesTracked, CacheTracks, TemplateTypeOK
<1>9. UseIsSafe'
  <2>1. \A n \in Names : InUse(n) => Hit(n) \/ Gone(n)
    BY ZenonT(30), <1>7 DEF Tracking, TemplatesTracked, UseIsSafe
  <2>2. janitor'.pc = "delete" => \A n \in Names : InUse(n) /\ ec2[n] = janitor.item.id => Gone(n)
    BY <1>1, <1>2, <2>1 DEF Apart, IdleJanitor
  <2>3. janitor'.pc = "delete" => janitor'.item = janitor.item
    BY SMTT(30), <1>1, <1>2 DEF IdleJanitor
  <2> QED
    BY Zenon, <1>1, <1>7, <2>1, <2>2, <2>3 DEF UseIsSafe
<1> QED
  BY Zenon, <1>4, <1>5, <1>6, <1>8, <1>9 DEF Tracking, TemplatesTracked

LEMMA TemplateDeleteStep ==
  ASSUME Tracking, DeleteLaunchTemplate \/ DeleteError
  PROVE  Tracking'
<1>1. /\ janitor.pc = "delete" /\ lock = Janitor /\ lock' = NoTemplate /\ janitor' = IdleJanitor
      /\ UNCHANGED <<nextId, cache, onEvicted, evicted, launch, hydrate, outOfSync>>
      /\ ec2' = ec2 \/ ec2' = [n \in Names |-> IF ec2[n] = janitor.item.id THEN NoTemplate ELSE ec2[n]]
      /\ dropped' = dropped \/ dropped' = dropped \cup {janitor.item.id}
  BY Zenon DEF DeleteLaunchTemplate, DeleteError, Unlock
<1>2. janitor.item.id \in Ids /\ janitor.item.id \in 1..(nextId - 1)
  BY <1>1 DEF Tracking, TemplatesTracked, IdsAreApart, Apart, TemplateTypeOK, IdleJanitor
<1>3. \A n \in Names : ec2'[n] \in {ec2[n], NoTemplate}
  BY Zenon, <1>1
<1>4. TemplateTypeOK'
  <2>1. ec2' \in [Names -> Ids \cup {NoTemplate}]
    BY Zenon, <1>1 DEF Tracking, TemplateTypeOK
  <2> QED
    BY Zenon, <1>1, <1>2, <2>1 DEF Tracking, TemplateTypeOK
<1>5. LockIsHeld'
  BY Zenon, <1>1, NeedsAssumption DEF Tracking, TemplatesTracked, LockIsHeld, IdleJanitor
<1>6. \A n \in Names, id \in 1..(nextId - 1) : Apart(n, id) => Apart(n, id)'
  <2>1. NoTemplate \notin 1..(nextId - 1)
    BY NeedsAssumption DEF Tracking, TemplateTypeOK, Ids
  <2> QED
    BY Zenon, <1>1, <1>3, <2>1 DEF Apart
<1>7. IdsAreApart'
  <2>1. \A n \in Names : (ec2[n] # NoTemplate => Apart(n, ec2[n]))'
    BY SMTT(30), <1>3, <1>6 DEF Tracking, TemplatesTracked, IdsAreApart, Apart
  <2>2. \A n \in Names : (cache[n] # NoTemplate => Apart(n, cache[n].id))'
    BY SMTT(30), <1>1, <1>6 DEF Tracking, TemplatesTracked, IdsAreApart, Apart
  <2>3. \A item \in evicted \cup hydrate.page : Apart(item.name, item.id)'
    BY <1>1, <1>6 DEF Tracking, TemplatesTracked, IdsAreApart, TemplateTypeOK, Apart
  <2>4. dropped' \subseteq 1..(nextId - 1)
    BY Zenon, <1>1, <1>2 DEF Tracking, TemplatesTracked, IdsAreApart
  <2> QED
    BY Zenon, <1>1, <2>1, <2>2, <2>3, <2>4 DEF IdsAreApart
<1>8. \A n \in Names : (Hit(n) => Hit(n)') /\ (Tracked(n) => Tracked(n)')
  BY Zenon, <1>1, <1>3 DEF Hit, Tracked, Gone, Setting
<1>9. \A item \in hydrate'.page : item.id # ec2'[item.name] => Tracked(item.name)'
  <2> SUFFICES ASSUME NEW item \in hydrate.page, item.id # ec2'[item.name] PROVE Tracked(item.name)'
    BY Zenon, <1>1
  <2>1. item.name \in Names
    BY Zenon DEF Tracking, TemplateTypeOK
  <2>2. CASE ec2'[item.name] = NoTemplate
    BY Zenon, <2>2 DEF Tracked, Gone
  <2>3. CASE ec2'[item.name] = ec2[item.name]
    BY Zenon, <1>8, <2>1, <2>3 DEF Tracking, TemplatesTracked, CacheTracks
  <2> QED
    BY Zenon, <1>3, <2>1, <2>2, <2>3
<1>10. CacheTracks /\ dropped \subseteq dropped'
  BY Zenon, <1>1 DEF Tracking, TemplatesTracked
<1> QED
  BY Zenon, <1>1, <1>3, <1>4, <1>5, <1>7, <1>8, <1>9, <1>10, LaunchesStay DEF CacheTracks, IdleJanitor

LEMMA CallNilStep ==
  ASSUME Tracking, CallNil
  PROVE  Tracking'
<1>1. \A l \in Launches : Begin(l) \in Progress
  BY SMTT(30), NeedsAssumption DEF Begin, Progress, Ended
<1>2. launch' \in [Launches -> Progress]
  BY Zenon, <1>1 DEF CallNil, Tracking, TemplateTypeOK
<1>3. \A l \in Launches : launch'[l].pc \in Ended \cup {"begin"}
  BY Zenon DEF CallNil, Begin
<1>4. TemplateTypeOK'
  BY Zenon, <1>2 DEF CallNil, Tracking, TemplateTypeOK
<1>5. LockIsHeld'
  BY Zenon, <1>3, NeedsAssumption DEF CallNil, LockIsHeld, Ended, IdleJanitor
<1>6. IdsAreApart'
  BY Zenon DEF CallNil, Tracking, TemplatesTracked, IdsAreApart, Apart
<1>7. CacheTracks'
  BY ZenonT(30), <1>3 DEF CallNil, CacheTracks, Ended
<1>8. UseIsSafe'
  BY Zenon, <1>3 DEF CallNil, UseIsSafe, InUse, Ended, IdleJanitor
<1> QED
  BY Zenon, <1>4, <1>5, <1>6, <1>7, <1>8 DEF Tracking, TemplatesTracked

LEMMA HydrateBegins ==
  ASSUME Tracking, HydrateList \/ HydrateError
  PROVE  Tracking'
<1> DEFINE found == {m \in Names : ec2[m] # NoTemplate}
<1>1. /\ UNCHANGED <<ec2, nextId, cache, onEvicted, evicted, janitor, lock, launch, outOfSync>>
      /\ hydrate.pc = "list"
      /\ \/ hydrate' = [pc |-> "store", page |-> {Item(n, ec2[n]) : n \in found}] /\ dropped' = dropped
         \/ hydrate' = [pc |-> "done", page |-> {}] /\ dropped' = dropped \cup {ec2[n] : n \in found}
  BY ZenonT(30) DEF HydrateList, HydrateError
<1>2. \A n \in found : n \in Names /\ ec2[n] \in Ids /\ Apart(n, ec2[n])
  BY Zenon DEF Tracking, TemplatesTracked, IdsAreApart, TemplateTypeOK
<1> HIDE DEF found
<1>3. \A item \in hydrate'.page : item \in [name: Names, id: Ids] /\ item.id = ec2[item.name] /\ Apart(item.name, item.id)
  BY SMTT(30), <1>1, <1>2 DEF Item
<1>4. dropped' \subseteq Ids /\ dropped' \subseteq 1..(nextId - 1) /\ dropped \subseteq dropped'
  BY SMTT(30), <1>1, <1>2 DEF Tracking, TemplatesTracked, IdsAreApart, TemplateTypeOK, Apart
<1>5. TemplateTypeOK'
  <2>1. hydrate' \in [pc: {"list", "store", "done"}, page: SUBSET [name: Names, id: Ids]]
    BY SMTT(30), <1>1, <1>3
  <2> QED
    BY Zenon, <1>1, <1>4, <2>1 DEF Tracking, TemplateTypeOK
<1>6. LockIsHeld'
  BY ZenonT(30), <1>1 DEF Tracking, TemplatesTracked, LockIsHeld
<1>7. IdsAreApart'
  BY ZenonT(30), <1>1, <1>3, <1>4, ApartStays
<1>8. \A n \in Names : (Hit(n) => Hit(n)') /\ (Tracked(n) => Tracked(n)')
  BY Zenon, <1>1, <1>4 DEF Hit, Tracked, Gone, Setting
<1>9. CacheTracks
  BY Zenon DEF Tracking, TemplatesTracked
<1>10. \A n \in Names : cache[n] # NoTemplate => cache[n].live
  BY Zenon, <1>1, <1>9 DEF CacheTracks
<1> QED
  BY SMTT(30), <1>1, <1>3, <1>4, <1>5, <1>6, <1>7, <1>8, <1>9, <1>10, LaunchesStay DEF CacheTracks

LEMMA HydrateStoreStep ==
  ASSUME Tracking, HydrateStore
  PROVE  Tracking'
<1>0. CacheTracks
  BY Zenon DEF Tracking, TemplatesTracked
<1>1. UNCHANGED <<ec2, nextId, onEvicted, evicted, janitor, lock, launch>> /\ hydrate.pc = "store"
  BY Zenon DEF HydrateStore
<1>2. LockIsHeld'
  BY Zenon, <1>1 DEF Tracking, TemplatesTracked, LockIsHeld
<1>3. CASE hydrate.page = {}
  <2>1. hydrate' = [hydrate EXCEPT !.pc = "done"] /\ UNCHANGED <<cache, outOfSync, dropped>>
    BY Zenon, <1>3 DEF HydrateStore
  <2>2. hydrate'.pc = "done" /\ hydrate'.page = {}
    BY Zenon, <1>3, <2>1 DEF Tracking, TemplateTypeOK
  <2>3. TemplateTypeOK'
    BY Zenon, <1>1, <2>1 DEF Tracking, TemplateTypeOK
  <2>4. IdsAreApart'
    <3>1. dropped' \subseteq 1..(nextId - 1)
      BY Zenon, <2>1 DEF Tracking, TemplatesTracked, IdsAreApart
    <3> QED
      BY Zenon, <1>1, <2>1, <2>2, <3>1, ApartStays
  <2>5. \A n \in Names : (Hit(n) => Hit(n)') /\ (Tracked(n) => Tracked(n)')
    BY Zenon, <1>1, <2>1 DEF Hit, Tracked, Gone, Setting
  <2> QED
    BY Zenon, <1>0, <1>1, <1>2, <2>1, <2>2, <2>3, <2>4, <2>5, LaunchesStay DEF CacheTracks
<1>4. CASE hydrate.page # {}
  <2>1. PICK item \in hydrate.page :
           /\ cache' = [cache EXCEPT ![item.name] = Cached(item.id, TRUE)]
           /\ hydrate' = [hydrate EXCEPT !.page = @ \ {item}]
           /\ outOfSync' = IF ec2[item.name] = item.id THEN outOfSync ELSE outOfSync + 1
           /\ dropped' = dropped \cup (Abandoned(item.name) \ {item.id})
    BY ZenonT(30), <1>4 DEF HydrateStore
  <2>2. PICK n \in Names, id \in Ids : n = item.name /\ id = item.id
    BY Zenon DEF Tracking, TemplateTypeOK
  <2>3. Apart(n, id) /\ (id # ec2[n] => Tracked(n))
    BY Zenon, <1>0, <2>2 DEF Tracking, TemplatesTracked, IdsAreApart, CacheTracks
  <2>4. /\ Cached(id, TRUE).id = id /\ Cached(id, TRUE).live = TRUE
        /\ Cached(id, TRUE) \in [id: Ids, live: BOOLEAN]
    BY Zenon DEF Cached
  <2>5. Cached(id, TRUE) # NoTemplate
    BY <2>4, NeedsAssumption, Zenon
  <2>6. /\ cache'[n] = Cached(id, TRUE) /\ \A m \in Names \ {n} : cache'[m] = cache[m]
        /\ hydrate'.pc = "store" /\ hydrate'.page = hydrate.page \ {item}
    BY ZenonT(30), <1>1, <2>1, <2>2 DEF Tracking, TemplateTypeOK
  <2>7. cache'[n] # NoTemplate /\ cache'[n].id = id /\ cache'[n].live
    BY <2>4, <2>5, <2>6, Zenon
  <2>8. dropped' \subseteq 1..(nextId - 1) /\ dropped' \subseteq Ids /\ dropped \subseteq dropped'
    <3>1. Abandoned(n) \subseteq 1..(nextId - 1) /\ Abandoned(n) \subseteq Ids
      BY DEF Abandoned, Tracking, TemplatesTracked, IdsAreApart, Apart, TemplateTypeOK
    <3> QED
      BY Zenon, <2>1, <2>2, <3>1 DEF Tracking, TemplatesTracked, IdsAreApart, TemplateTypeOK
  <2>9. TemplateTypeOK'
    <3>1. cache' \in [Names -> [id: Ids, live: BOOLEAN] \cup {NoTemplate}]
      <4> DEFINE S == [id: Ids, live: BOOLEAN] \cup {NoTemplate}
                 r == Cached(id, TRUE)
      <4>1. cache \in [Names -> S] /\ cache' = [cache EXCEPT ![n] = r] /\ r \in S
        BY ZenonT(30), <2>1, <2>2, <2>4 DEF Tracking, TemplateTypeOK
      <4> HIDE DEF S, r
      <4>2. cache' \in [Names -> S]
        BY Zenon, <4>1
      <4> QED
        BY Zenon, <4>2 DEF S
    <3>2. hydrate' \in [pc: {"list", "store", "done"}, page: SUBSET [name: Names, id: Ids]] /\ outOfSync' \in Nat
      BY <2>1 DEF Tracking, TemplateTypeOK
    <3> QED
      BY Zenon, <1>1, <2>8, <3>1, <3>2 DEF Tracking, TemplateTypeOK
  <2>10. IdsAreApart'
    BY ZenonT(30), <1>1, <2>3, <2>6, <2>7, <2>8, ApartStays
  <2>11. \A m \in Names : Hit(m) => Hit(m)'
    BY ZenonT(30), <2>6, <2>7 DEF Hit
  <2>12. Tracked(n)'
    <3>1. CASE id = ec2[n]
      BY Zenon, <1>1, <2>7, <3>1 DEF Tracked
    <3>2. CASE id # ec2[n]
      <4>1. Gone(n) \/ Setting(n) \/ ec2[n] \in dropped'
        BY Zenon, <2>1, <2>2, <2>3, <3>2 DEF Tracked, Abandoned
      <4> QED
        BY Zenon, <1>1, <2>8, <4>1 DEF Tracked, Gone, Setting
    <3> QED
      BY Zenon, <3>1, <3>2
  <2>13. \A m \in Names : Tracked(m) => Tracked(m)'
    BY ZenonT(30), <1>1, <2>6, <2>8, <2>12 DEF Tracked, Gone, Setting
  <2>14. \A m \in Names : cache'[m] # NoTemplate => Tracked(m)'
    BY ZenonT(30), <1>0, <2>6, <2>12, <2>13 DEF CacheTracks
  <2>15. \A m \in Names : cache'[m] # NoTemplate /\ ~cache'[m].live => hydrate'.pc = "done"
    BY ZenonT(30), <1>0, <1>1, <2>6, <2>7 DEF CacheTracks
  <2>16. \A i \in hydrate'.page : i.id # ec2'[i.name] => Tracked(i.name)'
    BY ZenonT(30), <1>0, <1>1, <2>6, <2>13 DEF CacheTracks, Tracking, TemplateTypeOK
  <2> QED
    BY ZenonT(30), <1>1, <1>2, <2>6, <2>8, <2>9, <2>10, <2>11, <2>14, <2>15, <2>16, LaunchesStay
<1> QED
  BY Zenon, <1>3, <1>4

\* An item in use is not expired: ExpireTemplate waits for its launches.
LEMMA ExpireStep ==
  ASSUME Tracking, NEW n \in Names, ExpireTemplate(n)
  PROVE  Tracking'
<1>1. /\ UNCHANGED <<ec2, nextId, onEvicted, evicted, janitor, lock, launch, hydrate, outOfSync, dropped>>
      /\ ~InUse(n) /\ hydrate.pc = "done" /\ Hit(n)
      /\ cache' = [cache EXCEPT ![n].live = FALSE]
  BY Zenon DEF ExpireTemplate, Recent
<1>2. cache[n] \in [id: Ids, live: BOOLEAN]
  BY Zenon, <1>1 DEF Tracking, TemplateTypeOK, Hit
<1>3. [cache[n] EXCEPT !.live = FALSE] \in [id: Ids, live: BOOLEAN]
      /\ [cache[n] EXCEPT !.live = FALSE].id = cache[n].id
  BY ZenonT(30), <1>2
<1>4. /\ cache'[n] \in [id: Ids, live: BOOLEAN] /\ cache'[n].id = cache[n].id
      /\ \A m \in Names \ {n} : cache'[m] = cache[m]
  BY Zenon, <1>1, <1>3 DEF Tracking, TemplateTypeOK
<1>5. TemplateTypeOK'
  <2>1. cache' \in [Names -> [id: Ids, live: BOOLEAN] \cup {NoTemplate}]
    <3> DEFINE S == [id: Ids, live: BOOLEAN] \cup {NoTemplate}
               r == [cache[n] EXCEPT !.live = FALSE]
    <3>1. cache \in [Names -> S] /\ cache' = [cache EXCEPT ![n] = r] /\ r \in S
      BY Zenon, <1>1, <1>3 DEF Tracking, TemplateTypeOK
    <3> HIDE DEF S, r
    <3>2. cache' \in [Names -> S]
      BY Zenon, <3>1
    <3> QED
      BY Zenon, <3>2 DEF S
  <2> QED
    BY Zenon, <1>1, <2>1 DEF Tracking, TemplateTypeOK
<1>6. LockIsHeld'
  BY Zenon, <1>1 DEF Tracking, TemplatesTracked, LockIsHeld
<1>7. cache[n] # NoTemplate
  BY Zenon, <1>1 DEF Hit
<1>8. IdsAreApart'
  <2>1. dropped' \subseteq 1..(nextId - 1) /\ Apart(n, cache'[n].id)
    BY Zenon, <1>1, <1>4, <1>7 DEF Tracking, TemplatesTracked, IdsAreApart
  <2> QED
    BY Zenon, <1>1, <1>4, <2>1, ApartStays
<1>9. cache'[n] # NoTemplate
  BY <1>4, NeedsAssumption, Zenon
<1>10. \A m \in Names : /\ Tracked(m) => Tracked(m)'
                        /\ Gone(m)' <=> Gone(m)
                        /\ Setting(m)' <=> Setting(m)
                        /\ InUse(m)' <=> InUse(m)
                        /\ m # n => (Hit(m)' <=> Hit(m))
  BY Zenon, <1>1, <1>4, <1>9 DEF Tracked, Gone, Setting, InUse, Hit
<1>11. CacheTracks'
  <2>1. \A m \in Names : cache'[m] # NoTemplate => Tracked(m)'
    BY ZenonT(30), <1>4, <1>7, <1>10 DEF Tracking, TemplatesTracked, CacheTracks
  <2>2. \A item \in hydrate.page : item.id # ec2'[item.name] => Tracked(item.name)'
    BY Zenon, <1>1, <1>10 DEF Tracking, TemplatesTracked, CacheTracks, TemplateTypeOK
  <2>3. \A l \in Launches : (launch[l].pc = "set" =>
          Apart(launch[l].name, launch[l].id) /\ ec2[launch[l].name] \in {launch[l].id, NoTemplate})'
    BY Zenon, <1>1 DEF Tracking, TemplatesTracked, CacheTracks, Apart
  <2> QED
    BY Zenon, <1>1, <2>1, <2>2, <2>3 DEF Tracking, TemplatesTracked, CacheTracks
<1>12. UseIsSafe'
  BY Zenon, <1>1, <1>10 DEF Tracking, TemplatesTracked, UseIsSafe
<1> QED
  BY Zenon, <1>5, <1>6, <1>8, <1>11, <1>12 DEF Tracking, TemplatesTracked

LEMMA DeleteAllStep ==
  ASSUME Tracking, NEW n \in Names, DeleteAll(n)
  PROVE  Tracking'
<1>1. /\ UNCHANGED <<nextId, cache, onEvicted, evicted, janitor, lock, launch, hydrate>>
      /\ ec2' = [ec2 EXCEPT ![n] = NoTemplate] /\ outOfSync' = outOfSync + 1
      /\ dropped' = dropped \ {ec2[n]}
  BY Zenon DEF DeleteAll
<1>2. \A m \in Names : ec2'[m] \in {ec2[m], NoTemplate}
  BY Zenon, <1>1 DEF Tracking, TemplateTypeOK
<1>3. TemplateTypeOK'
  BY SMTT(30), <1>1 DEF Tracking, TemplateTypeOK
<1>4. LockIsHeld'
  BY Zenon, <1>1 DEF Tracking, TemplatesTracked, LockIsHeld
<1>5. \A m \in Names, id \in 1..(nextId - 1) : Apart(m, id) => Apart(m, id)'
  <2>1. NoTemplate \notin 1..(nextId - 1)
    BY SMTT(30), NeedsAssumption DEF Tracking, TemplateTypeOK, Ids
  <2> QED
    BY Zenon, <1>1, <1>2, <2>1 DEF Apart
<1>6. IdsAreApart'
  <2>1. \A m \in Names : (ec2[m] # NoTemplate => Apart(m, ec2[m]))'
    BY <1>2, <1>5 DEF Tracking, TemplatesTracked, IdsAreApart, Apart
  <2>2. \A m \in Names : (cache[m] # NoTemplate => Apart(m, cache[m].id))'
    BY ZenonT(30), <1>1, <1>5 DEF Tracking, TemplatesTracked, IdsAreApart, Apart
  <2>3. \A item \in evicted \cup hydrate.page : Apart(item.name, item.id)'
    BY SMTT(30), <1>1, <1>5 DEF Tracking, TemplatesTracked, IdsAreApart, TemplateTypeOK, Apart
  <2>4. (janitor # IdleJanitor => Apart(janitor.item.name, janitor.item.id))'
    BY <1>1, <1>5 DEF Tracking, TemplatesTracked, IdsAreApart, TemplateTypeOK, Apart
  <2>5. dropped' \subseteq 1..(nextId - 1)
    BY ZenonT(30), <1>1 DEF Tracking, TemplatesTracked, IdsAreApart
  <2> QED
    BY Zenon, <1>1, <2>1, <2>2, <2>3, <2>4, <2>5 DEF IdsAreApart
<1>0. \A m \in Names : ec2'[m] = NoTemplate \/ (ec2'[m] = ec2[m] /\ (ec2[m] \in dropped => ec2[m] \in dropped'))
  <2>1. \A m \in Names : ec2[m] = ec2[n] => m = n
    BY Zenon DEF DeleteAll, Tracking, TemplatesTracked, IdsAreApart, Apart
  <2> QED
    BY Zenon, <1>1, <2>1 DEF Tracking, TemplateTypeOK
<1>7. \A m \in Names : (Hit(m) => Hit(m)') /\ (Tracked(m) => Tracked(m)')
  BY Zenon, <1>0, <1>1 DEF Hit, Tracked, Gone, Setting
<1>8. \A item \in hydrate.page : item.id # ec2'[item.name] => Tracked(item.name)'
  <2> SUFFICES ASSUME NEW item \in hydrate.page, item.id # ec2'[item.name] PROVE Tracked(item.name)'
    BY Zenon
  <2>1. item.name \in Names
    BY Zenon DEF Tracking, TemplateTypeOK
  <2>2. CASE ec2'[item.name] = NoTemplate
    BY Zenon, <2>2 DEF Tracked, Gone
  <2>3. CASE ec2'[item.name] = ec2[item.name]
    BY Zenon, <1>7, <2>1, <2>3 DEF Tracking, TemplatesTracked, CacheTracks
  <2> QED
    BY Zenon, <1>2, <2>1, <2>2, <2>3
<1>9. CacheTracks
  BY Zenon DEF Tracking, TemplatesTracked
<1> QED
  BY ZenonT(30), <1>0, <1>1, <1>3, <1>4, <1>6, <1>7, <1>8, <1>9, LaunchesStay DEF CacheTracks

-----------------------------------------------------------------------------
(* The theorems *)

LEMMA NextTracked == Tracking /\ [TemplateNext]_templateVars => Tracking'
<1> SUFFICES ASSUME Tracking, [TemplateNext]_templateVars PROVE Tracking'
  BY Zenon
<1>1. ASSUME NEW l \in Launches, LaunchStep(l) PROVE Tracking'
  <2>1. CASE \E n \in Names : EnsureCached(l, n) \/ EnsureDescribe(l, n) \/ InvalidateCache(l, n)
    BY Zenon, <2>1, EnsureStep, FleetStep
  <2>2. CASE CreateLaunchTemplate(l) \/ EnsureSet(l) \/ InvalidateDelete(l)
    BY Zenon, <2>2, TemplateCreateStep, SetStep, InvalidateStep
  <2>3. CASE \/ EnsureAll(l) \/ EnsureError(l) \/ EnsureReturn(l) \/ CreateFleet(l)
             \/ FleetNotFound(l) \/ InvalidateReturn(l) \/ Retry(l) \/ GiveUp(l)
    BY Zenon, <2>3, EnsureStep, FleetStep
  <2> QED
    BY Zenon, <1>1, <2>1, <2>2, <2>3 DEF LaunchStep
<1>2. CASE JanitorStep
  BY Zenon, <1>2, DeleteExpiredStep, CallNilStep, CallbackStep, TemplateDeleteStep, EvictedStep DEF JanitorStep
<1>3. CASE HydrateStep
  BY Zenon, <1>3, HydrateBegins, HydrateStoreStep DEF HydrateStep
<1>4. CASE \E n \in Names : ExpireTemplate(n) \/ DeleteAll(n)
  BY Zenon, <1>4, ExpireStep, DeleteAllStep
<1>5. CASE UNCHANGED templateVars
  <2> USE <1>5 DEF templateVars
  <2>1. TemplateTypeOK'
    BY Zenon DEF Tracking, TemplateTypeOK
  <2>2. LockIsHeld'
    BY ZenonT(30) DEF Tracking, TemplatesTracked, LockIsHeld
  <2>3. IdsAreApart'
    BY Zenon DEF Tracking, TemplatesTracked, IdsAreApart, Apart
  <2>4. CacheTracks'
    BY ZenonT(30) DEF Tracking, TemplatesTracked, CacheTracks, Tracked, Gone, Setting, Apart
  <2>5. UseIsSafe'
    BY ZenonT(30) DEF Tracking, TemplatesTracked, UseIsSafe, InUse, Hit, Gone, Setting
  <2> QED
    BY Zenon, <2>1, <2>2, <2>3, <2>4, <2>5 DEF Tracking, TemplatesTracked
<1> QED
  BY Zenon, <1>1, <1>2, <1>3, <1>4, <1>5 DEF TemplateNext

\* The cache keeps track of every template: one that is in EC2 is what the cache has
\* for its name, is about to be put there, or was let go of; what a launch uses is
\* cached; ids of different names differ; and the lock is held by one.
THEOREM TemplatesAreTracked == TemplateSpec => [](TemplateTypeOK /\ TemplatesTracked)
<1>1. TemplateSpec => []Tracking
  BY InitTracked, NextTracked, PTL DEF TemplateSpec
<1> QED
  BY <1>1, PTL DEF Tracking

\* The only steps that delete are the callback's, which spares what is in use and was
\* not let go of, and those of others, which put the cache out of step.
LEMMA DeletionIsSafe ==
  ASSUME Tracking, TemplateNext, NEW n \in Names,
         InUse(n), ec2[n] \notin dropped \cup {NoTemplate}, ec2'[n] = NoTemplate
  PROVE  outOfSync' # outOfSync
<1>1. CASE ec2' = ec2
  BY Zenon, <1>1
<1>2. ASSUME NEW l \in Launches, CreateLaunchTemplate(l) PROVE FALSE
  <2>1. launch[l].name \in Names /\ nextId \in Ids
    BY SMTT(30), <1>2, NeedsAssumption DEF CreateLaunchTemplate, Tracking, TemplatesTracked, LockIsHeld, TemplateTypeOK, Ids
  <2> QED
    BY Zenon, <1>2, <2>1, NeedsAssumption DEF CreateLaunchTemplate, Tracking, TemplateTypeOK
<1>3. CASE DeleteLaunchTemplate
  BY Zenon, <1>3 DEF DeleteLaunchTemplate, Tracking, TemplatesTracked, UseIsSafe, Gone
<1>4. CASE \E m \in Names : DeleteAll(m)
  BY <1>4 DEF DeleteAll, Tracking, TemplateTypeOK
<1>5. ec2' = ec2 \/ (\E l \in Launches : CreateLaunchTemplate(l)) \/ DeleteLaunchTemplate
      \/ \E m \in Names : DeleteAll(m)
  BY ZenonT(30) DEF TemplateNext, LaunchStep, JanitorStep, HydrateStep, EnsureAll, EnsureSet, EnsureError, EnsureReturn,
         CreateFleet, FleetNotFound, InvalidateDelete, InvalidateReturn, Retry, GiveUp, EnsureCached,
         EnsureDescribe, InvalidateCache, DeleteExpired, CallNil, CachedEvictedFunc, DeleteError,
         CallOnEvicted, HydrateList, HydrateError, HydrateStore, ExpireTemplate
<1> QED
  BY Zenon, <1>1, <1>2, <1>3, <1>4, <1>5

\* A launch template that a launch has ensured and is using is not deleted by the
\* eviction of an earlier cache item, unless the cache has let go of it, whatever the
\* launches, the templates they share and the order of their steps.
THEOREM TemplatesInUseStay == TemplateSpec => NotDeletedInUse
<1>1. TemplateSpec => []Tracking
  BY InitTracked, NextTracked, PTL DEF TemplateSpec
<1> DEFINE A == \A n \in Names :
                   InUse(n) /\ ec2[n] \notin dropped \cup {NoTemplate} /\ ec2'[n] = NoTemplate => outOfSync' # outOfSync
<1>2. Tracking /\ [TemplateNext]_templateVars => [A]_templateVars
  BY Zenon, DeletionIsSafe
<1> HIDE DEF A
<1>3. TemplateSpec => [][A]_templateVars
  BY <1>1, <1>2, PTL DEF TemplateSpec
<1> QED
  BY Zenon, <1>3 DEF NotDeletedInUse, A
=============================================================================
