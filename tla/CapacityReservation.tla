------------------------- MODULE CapacityReservation -------------------------
(***************************************************************************)
(* The number of free instances of a capacity reservation, as the provider *)
(* keeps it between polls of EC2 (pkg/providers/capacityreservation), with *)
(* the callers that change it: List from the NodeClass controller, Create  *)
(* and Delete of the cloud provider, and the launch path when EC2 says the *)
(* reservation is full.  One reservation, found by several queries.        *)
(*                                                                         *)
(* The clock is a counter that may advance at any moment; code reads it at *)
(* the point the source does, before or under the lock.                    *)
(***************************************************************************)
EXTENDS Integers, FiniteSets

CONSTANTS
    Instances,  \* the instances NodeClaims may be launched as
    Queries,    \* selector queries that match the reservation
    Capacity,   \* the size of the reservation
    MaxClock,   \* bound on the clock
    MaxOthers,  \* bound on the use of the reservation by others
    NoEntry

ASSUME CapacityAssumption ==
    /\ IsFiniteSet(Instances)
    /\ Capacity \in Nat \ {0}
    /\ MaxClock \in Nat
    /\ MaxOthers \in Nat

VARIABLES
    machine,            \* EC2: each instance is "none", "running" or "gone"
    others,             \* EC2: instances of other owners in the reservation
    clock,
    availabilityCache,  \* the entry, or NoEntry
    terminationCache,   \* instances whose slot was already returned
    reservationCache,   \* the queries whose result is cached
    list,               \* the List that holds the provider's lock
    create,             \* the cloud provider's Create of each NodeClaim
    claim,              \* the NodeClaim: "live", "deleted" or "removed"
    returned            \* history: how often each instance's slot was returned

reservationVars == <<machine, others, clock, availabilityCache, terminationCache, reservationCache,
          list, create, claim, returned>>

-----------------------------------------------------------------------------

Entry(n, t) == [count |-> n, syncTime |-> t]

Running == {i \in Instances : machine[i] = "running"}

Available == Capacity - others - Cardinality(Running)

\* No List is running.
Unlocked == [pc |-> "unlocked", query |-> NoEntry, count |-> 0, now |-> 0]

ReservationInit ==
    /\ machine = [i \in Instances |-> "none"]
    /\ others = 0
    /\ clock = 0
    /\ availabilityCache = NoEntry
    /\ terminationCache = {}
    /\ reservationCache = {}
    /\ list = Unlocked
    /\ create = [i \in Instances |-> [pc |-> "idle", now |-> 0]]
    /\ claim = [i \in Instances |-> "live"]
    /\ returned = [i \in Instances |-> 0]

-----------------------------------------------------------------------------
(* The environment *)

Tick ==
    /\ clock < MaxClock
    /\ clock' = clock + 1
    /\ UNCHANGED <<machine, others, availabilityCache, terminationCache, reservationCache, list, create, claim, returned>>

\* The reservation is shared: others launch into it and leave it.
OtherLaunch ==
    /\ others < MaxOthers
    /\ Available > 0
    /\ others' = others + 1
    /\ UNCHANGED <<machine, clock, availabilityCache, terminationCache, reservationCache, list, create, claim, returned>>

OtherEnd ==
    /\ others > 0
    /\ others' = others - 1
    /\ UNCHANGED <<machine, clock, availabilityCache, terminationCache, reservationCache, list, create, claim, returned>>

\* An instance whose launch is known ends; EC2 frees its slot.
InstanceEnds(i) ==
    /\ machine[i] = "running"
    /\ create[i].pc = "done"
    /\ machine' = [machine EXCEPT ![i] = "gone"]
    /\ UNCHANGED <<others, clock, availabilityCache, terminationCache, reservationCache, list, create, claim, returned>>

\* The result of a query is forgotten after its TTL.
QueryExpire(q) ==
    /\ q \in reservationCache
    /\ reservationCache' = reservationCache \ {q}
    /\ UNCHANGED <<machine, others, clock, availabilityCache, terminationCache, list, create, claim, returned>>

\* The entry is forgotten if no poll succeeds within its TTL, 24 hours.
AvailabilityExpire ==
    /\ availabilityCache # NoEntry
    /\ availabilityCache' = NoEntry
    /\ UNCHANGED <<machine, others, clock, terminationCache, reservationCache, list, create, claim, returned>>

\* A terminated instance is forgotten after its TTL, 15 minutes: by then its
\* NodeClaim is gone and nobody deletes it again.
TerminationExpire(i) ==
    /\ i \in terminationCache
    /\ claim[i] = "removed"
    /\ terminationCache' = terminationCache \ {i}
    /\ UNCHANGED <<machine, others, clock, availabilityCache, reservationCache, list, create, claim, returned>>

-----------------------------------------------------------------------------
(* List *)

\* Take the lock; the query is not cached.
ListStart(q) ==
    /\ list.pc = "unlocked"
    /\ q \notin reservationCache
    /\ list' = [Unlocked EXCEPT !.pc = "describe", !.query = q]
    /\ UNCHANGED <<machine, others, clock, availabilityCache, terminationCache, reservationCache, create, claim, returned>>

\* DescribeCapacityReservations answers with the count of this moment ...
ListDescribe ==
    /\ list.pc = "describe"
    /\ list' = [list EXCEPT !.pc = "sync", !.count = Available]
    /\ UNCHANGED <<machine, others, clock, availabilityCache, terminationCache, reservationCache, create, claim, returned>>

\* ... or fails, and List returns the error.
ListError ==
    /\ list.pc = "describe"
    /\ list' = Unlocked
    /\ UNCHANGED <<machine, others, clock, availabilityCache, terminationCache, reservationCache, create, claim, returned>>

\* syncAvailability reads the clock before it takes the lock ...
SyncNow ==
    /\ list.pc = "sync"
    /\ list' = [list EXCEPT !.pc = "store", !.now = clock]
    /\ UNCHANGED <<machine, others, clock, availabilityCache, terminationCache, reservationCache, create, claim, returned>>

\* Mutant: an entry that is there is not replaced.
SyncStoreOnce ==
    /\ list.pc = "store"
    /\ availabilityCache' = IF availabilityCache = NoEntry THEN Entry(list.count, list.now) ELSE availabilityCache
    /\ reservationCache' = reservationCache \cup {list.query}
    /\ list' = Unlocked
    /\ UNCHANGED <<machine, others, clock, terminationCache, create, claim, returned>>

\* ... and replaces the entry.  The query's result is cached, and List returns.
SyncStore ==
    /\ list.pc = "store"
    /\ availabilityCache' = Entry(list.count, list.now)
    /\ reservationCache' = reservationCache \cup {list.query}
    /\ list' = Unlocked
    /\ UNCHANGED <<machine, others, clock, terminationCache, create, claim, returned>>

-----------------------------------------------------------------------------
(* Create *)

GetAvailableInstanceCount == IF availabilityCache = NoEntry THEN 0 ELSE availabilityCache.count

\* The reserved offering is available, and the launch selects it.
SelectReserved(i) ==
    /\ create[i].pc = "idle"
    /\ claim[i] = "live"
    /\ GetAvailableInstanceCount # 0
    /\ create' = [create EXCEPT ![i].pc = "fleet"]
    /\ UNCHANGED <<machine, others, clock, availabilityCache, terminationCache, reservationCache, list, claim, returned>>

\* CreateFleet starts the instance in the reservation ...
FleetLaunch(i) ==
    /\ create[i].pc = "fleet"
    /\ Available > 0
    /\ machine' = [machine EXCEPT ![i] = "running"]
    /\ create' = [create EXCEPT ![i].pc = "launched"]
    /\ UNCHANGED <<others, clock, availabilityCache, terminationCache, reservationCache, list, claim, returned>>

\* ... or fails with ReservationCapacityExceeded: the NodeClaim is given up, ...
FleetExceeded(i) ==
    /\ create[i].pc = "fleet"
    /\ Available = 0
    /\ create' = [create EXCEPT ![i].pc = "exceeded"]
    /\ UNCHANGED <<machine, others, clock, availabilityCache, terminationCache, reservationCache, list, claim, returned>>

\* ... and SetAvailableInstanceCount forces the count to zero.
SetAvailableInstanceCount(i) ==
    /\ create[i].pc = "exceeded"
    /\ availabilityCache' = Entry(0, clock)
    /\ create' = [create EXCEPT ![i].pc = "failed"]
    /\ UNCHANGED <<machine, others, clock, terminationCache, reservationCache, list, claim, returned>>

\* MarkLaunched reads the clock before it takes the lock.
MarkLaunchedNow(i) ==
    /\ create[i].pc = "launched"
    /\ create' = [create EXCEPT ![i] = [pc |-> "mark", now |-> clock]]
    /\ UNCHANGED <<machine, others, clock, availabilityCache, terminationCache, reservationCache, list, claim, returned>>

\* The entry MarkLaunched leaves, for a clock read at t.
Launched(entry, t) ==
    IF entry # NoEntry /\ ~(entry.syncTime > t) /\ entry.count # 0
    THEN [entry EXCEPT !.count = @ - 1]
    ELSE entry

\* The launch is counted, under the lock.
MarkLaunched(i) ==
    /\ create[i].pc = "mark"
    /\ availabilityCache' = Launched(availabilityCache, create[i].now)
    /\ create' = [create EXCEPT ![i].pc = "done"]
    /\ UNCHANGED <<machine, others, clock, terminationCache, reservationCache, list, claim, returned>>

-----------------------------------------------------------------------------
(* Delete *)

\* The NodeClaim is deleted; from now on Delete is called until it is removed.
DeleteClaim(i) ==
    /\ claim[i] = "live"
    /\ create[i].pc = "done"
    /\ claim' = [claim EXCEPT ![i] = "deleted"]
    /\ UNCHANGED <<machine, others, clock, availabilityCache, terminationCache, reservationCache, list, create, returned>>

\* Delete of an instance that still runs terminates it.
DeleteRunning(i) ==
    /\ claim[i] = "deleted"
    /\ machine[i] = "running"
    /\ machine' = [machine EXCEPT ![i] = "gone"]
    /\ UNCHANGED <<others, clock, availabilityCache, terminationCache, reservationCache, list, create, claim, returned>>

\* Mutant: every Delete that finds no instance returns the slot.
MarkTerminatedAlways(i) ==
    /\ claim[i] = "deleted"
    /\ machine[i] = "gone"
    /\ availabilityCache # NoEntry
    /\ returned[i] < 2
    /\ availabilityCache' = [availabilityCache EXCEPT !.count = @ + 1]
    /\ returned' = [returned EXCEPT ![i] = @ + 1]
    /\ UNCHANGED <<machine, others, clock, terminationCache, reservationCache, list, create, claim>>

\* Delete finds no instance, so MarkTerminated returns its slot, once.
MarkTerminated(i) ==
    /\ claim[i] = "deleted"
    /\ machine[i] = "gone"
    /\ i \notin terminationCache
    /\ terminationCache' = terminationCache \cup {i}
    /\ IF availabilityCache = NoEntry
       THEN UNCHANGED <<availabilityCache, returned>>
       ELSE /\ availabilityCache' = [availabilityCache EXCEPT !.count = @ + 1]
            /\ returned' = [returned EXCEPT ![i] = @ + 1]
    /\ UNCHANGED <<machine, others, clock, reservationCache, list, create, claim>>

\* The core controller saw the NotFound of a Delete, and removes the NodeClaim.
RemoveClaim(i) ==
    /\ claim[i] = "deleted"
    /\ i \in terminationCache
    /\ claim' = [claim EXCEPT ![i] = "removed"]
    /\ UNCHANGED <<machine, others, clock, availabilityCache, terminationCache, reservationCache, list, create, returned>>

-----------------------------------------------------------------------------

ListStep == (\E q \in Queries : ListStart(q)) \/ ListDescribe \/ ListError \/ SyncNow \/ SyncStore

CreateStep(i) ==
    SelectReserved(i) \/ FleetLaunch(i) \/ FleetExceeded(i) \/ SetAvailableInstanceCount(i)
        \/ MarkLaunchedNow(i) \/ MarkLaunched(i)

DeleteStep(i) == DeleteClaim(i) \/ DeleteRunning(i) \/ MarkTerminated(i) \/ RemoveClaim(i)

ReservationNext ==
    \/ Tick \/ OtherLaunch \/ OtherEnd \/ AvailabilityExpire
    \/ \E q \in Queries : QueryExpire(q)
    \/ ListStep
    \/ \E i \in Instances : InstanceEnds(i) \/ TerminationExpire(i) \/ CreateStep(i) \/ DeleteStep(i)

ReservationSpec == ReservationInit /\ [][ReservationNext]_reservationVars

\* The NodeClass controller polls at least once a minute, the query cache lapses
\* within a minute, and EC2 does not fail for ever.
FairReservationSpec ==
    /\ ReservationSpec
    /\ WF_reservationVars(\E q \in Queries : ListStart(q))
    /\ SF_reservationVars(ListDescribe)
    /\ WF_reservationVars(SyncNow)
    /\ WF_reservationVars(SyncStore)
    /\ \A q \in Queries : WF_reservationVars(QueryExpire(q))

-----------------------------------------------------------------------------
(* Properties *)

ReservationTypeOK ==
    /\ machine \in [Instances -> {"none", "running", "gone"}]
    /\ others \in 0..MaxOthers
    /\ clock \in 0..MaxClock
    /\ availabilityCache # NoEntry =>
          availabilityCache \in [count: 0..(Capacity + Cardinality(Instances)), syncTime: 0..MaxClock]
    /\ terminationCache \subseteq Instances
    /\ reservationCache \subseteq Queries
    /\ list \in [pc: {"unlocked", "describe", "sync", "store"}, query: Queries \cup {NoEntry},
                 count: 0..Capacity, now: 0..MaxClock]
    /\ create \in [Instances -> [pc: {"idle", "fleet", "launched", "exceeded", "failed", "mark", "done"},
                                 now: 0..MaxClock]]
    /\ claim \in [Instances -> {"live", "deleted", "removed"}]
    /\ returned \in [Instances -> Nat]

\* "Delete keeps returning NotFound after the instance is gone, so only return its
\* slot once": however many Deletes of a NodeClaim find no instance, MarkTerminated
\* counts it once.
SlotReturnedOnce == \A i \in Instances : returned[i] <= 1

\* A count of zero does not outlive the reason for it.  Whatever launches, failures
\* and late marks have done to the count, polling makes a reservation that has
\* free instances usable again.
UsableAgain == ~<>[](Available > 0 /\ GetAvailableInstanceCount = 0)

\* Why: List stores under its own query; EC2 does not overfill the reservation; a slot that was returned is remembered
\* as long as its NodeClaim can be deleted; and a count that exceeds the reservation
\* does so only by slots returned since it was read.
Returned == {i \in Instances : returned[i] > 0}

SlotsAccounted ==
    /\ list.pc # "unlocked" => list.query \in Queries
    /\ others + Cardinality(Running) <= Capacity
    /\ \A i \in Returned : i \in terminationCache \/ claim[i] = "removed"
    /\ availabilityCache # NoEntry => availabilityCache.count <= Capacity + Cardinality(Returned)

\* Safety of the capacity reservation provider: counts stay in range, and a slot is
\* returned once.
ReservationInv == ReservationTypeOK /\ SlotReturnedOnce /\ SlotsAccounted
=============================================================================
