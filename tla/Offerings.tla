------------------------------ MODULE Offerings ------------------------------
(***************************************************************************)
(* The offerings of one instance type: the cache of unavailable offerings  *)
(* (pkg/cache/unavailableofferings.go) and the resolver that answers       *)
(* GetInstanceTypes from it through a cache of its own                     *)
(* (pkg/providers/instancetype/offering/base_resolver.go).                 *)
(*                                                                         *)
(* The resolver may reuse what it computed earlier for the same NodeClass  *)
(* when the sequence number of the unavailable offerings has not moved.    *)
(* Time is abstracted: an entry's TTL may run out at any moment.  An       *)
(* offering is a pair of a capacity type and a zone.  Different NodeClass  *)
(* values stand for different cache keys of the resolver.                  *)
(***************************************************************************)
EXTENDS Integers, Sequences, FiniteSets

CONSTANTS
    Procs,          \* reconcilers that call GetInstanceTypes
    Classes,        \* NodeClasses
    AllOfferings,   \* <<capacity type, zone>> of the instance type
    SubnetsOf,      \* SubnetsOf[c][z]: the subnets of NodeClass c in zone z
    PlacementGroup, \* PlacementGroup[c]: its placement group, or None
    Signals,        \* the entries that launches and interruptions may add
    MaxMarks,       \* bound on the number of marks
    None

VARIABLES
    entry,      \* the three go-caches: "absent", "live" or "expired" by key
    seqNum,     \* the three sequence counters
    marking,    \* keys that are set, their counter not yet advanced
    evicting,   \* keys that are removed, their OnEvicted not yet run
    marks,      \* how many marks there have been
    Cache,      \* the available offerings cached for each NodeClass, or None; with them,
                \* as history, the sequence number the call that computed them had read
    lastSeqNum, \* LastUnavailableOfferingsSeqNum of the instance type
    proc,       \* the local state of each reconciler, with the number of its answer as history
    held,       \* history: keys in force throughout the call, or since it returned
    gone        \* history: keys absent throughout the call

offeringVars == <<entry, seqNum, marking, evicting, marks, Cache, lastSeqNum, proc, held, gone>>

-----------------------------------------------------------------------------

Counters == <<"offering", "capacityType", "subnet">>

\* The keys of the offering cache, scoped to a placement group and a partition.
OfferingKey(o, pg, part) == [kind |-> "offering", what |-> o, pg |-> pg, part |-> part]
CapacityTypeKey(ct) == [kind |-> "capacityType", what |-> ct, pg |-> None, part |-> None]
SubnetKey(s) == [kind |-> "subnet", what |-> s, pg |-> None, part |-> None]

\* Signals are such keys.
ASSUME SignalsAssumption ==
    \A k \in Signals : k \in {OfferingKey(k.what, k.pg, k.part), CapacityTypeKey(k.what), SubnetKey(k.what)}
ASSUME MarksAssumption == IsFiniteSet(Signals) /\ MaxMarks \in Nat

\* IsUnavailable for an offering in one scope, given the entries in force.
IsUnavailable(live, c, o, pg) ==
    LET subnets == SubnetsOf[c][o[2]]
    IN  \/ OfferingKey(o, pg, None) \in live
        \/ CapacityTypeKey(o[1]) \in live
        \/ subnets # {} /\ \A s \in subnets : SubnetKey(s) \in live

\* The resolver checks the general scope and that of the placement group.
Unavailable(live, c, o) ==
    \/ IsUnavailable(live, c, o, None)
    \/ PlacementGroup[c] # None /\ IsUnavailable(live, c, o, PlacementGroup[c])

Live == {k \in Signals : entry[k] = "live"}

IdleResolver == [pc |-> "idle", class |-> None, last |-> -1, seq |-> 0, read |-> 0,
         todo |-> {}, avail |-> {}, number |-> -1]

OfferingsInit ==
    /\ entry = [k \in Signals |-> "absent"]
    /\ seqNum = [n \in {"offering", "capacityType", "subnet"} |-> 0]
    /\ marking = {}
    /\ evicting = {}
    /\ marks = 0
    /\ Cache = [c \in Classes |-> None]
    /\ lastSeqNum = -1
    /\ proc = [p \in Procs |-> IdleResolver]
    /\ held = [p \in Procs |-> {}]
    /\ gone = [p \in Procs |-> {}]

\* Keys that count as in force, or as absent, once their counter has advanced.
Settled == {k \in Signals : entry[k] = "live" /\ k \notin marking}
Absent == {k \in Signals : entry[k] = "absent" /\ k \notin evicting \cup marking}

\* The history variables follow every step that does not start a call.
Track ==
    /\ held' = [p \in Procs |-> IF proc[p].pc = "idle" /\ proc'[p].pc # "idle"
                                THEN Settled' ELSE held[p] \cap Settled']
    /\ gone' = [p \in Procs |-> IF proc[p].pc = "idle" /\ proc'[p].pc # "idle"
                                THEN Absent' ELSE gone[p] \cap Absent']

-----------------------------------------------------------------------------
(* UnavailableOfferings *)

\* MarkUnavailable, MarkCapacityTypeUnavailable, MarkSubnetUnavailable: first
\* the entry is set, with a fresh TTL, ...
MarkSet(k) ==
    /\ marks < MaxMarks
    /\ k \notin marking
    /\ entry' = [entry EXCEPT ![k] = "live"]
    /\ marking' = marking \cup {k}
    /\ marks' = marks + 1
    /\ UNCHANGED <<seqNum, evicting, Cache, lastSeqNum, proc>>
    /\ Track

\* ... then the sequence number advances.
MarkBump(k) ==
    /\ k \in marking
    /\ seqNum' = [seqNum EXCEPT ![k.kind] = @ + 1]
    /\ marking' = marking \ {k}
    /\ UNCHANGED <<entry, evicting, marks, Cache, lastSeqNum, proc>>
    /\ Track

\* The TTL of an entry runs out: from now on Get does not find it.
ExpireMark(k) ==
    /\ entry[k] = "live"
    /\ entry' = [entry EXCEPT ![k] = "expired"]
    /\ UNCHANGED <<seqNum, marking, evicting, marks, Cache, lastSeqNum, proc>>
    /\ Track

\* The cleanup of go-cache removes an expired entry under its lock ...
EvictMark(k) ==
    /\ entry[k] = "expired"
    /\ k \notin evicting
    /\ entry' = [entry EXCEPT ![k] = "absent"]
    /\ evicting' = evicting \cup {k}
    /\ UNCHANGED <<seqNum, marking, marks, Cache, lastSeqNum, proc>>
    /\ Track

\* Mutant: the sequence number does not advance on eviction.
OnEvictedSilent(k) ==
    /\ k \in evicting
    /\ evicting' = evicting \ {k}
    /\ UNCHANGED <<entry, seqNum, marking, marks, Cache, lastSeqNum, proc>>
    /\ Track

\* ... and calls OnEvicted after it has released the lock.
OnEvicted(k) ==
    /\ k \in evicting
    /\ seqNum' = [seqNum EXCEPT ![k.kind] = @ + 1]
    /\ evicting' = evicting \ {k}
    /\ UNCHANGED <<entry, marking, marks, Cache, lastSeqNum, proc>>
    /\ Track

\* Delete removes an unscoped offering entry and calls OnEvicted likewise.
Delete(k) ==
    /\ k.kind = "offering" /\ k.pg = None
    /\ entry[k] # "absent"
    /\ k \notin evicting
    /\ entry' = [entry EXCEPT ![k] = "absent"]
    /\ evicting' = evicting \cup {k}
    /\ UNCHANGED <<seqNum, marking, marks, Cache, lastSeqNum, proc>>
    /\ Track

-----------------------------------------------------------------------------
(* ResolveOfferings *)

\* Load the sequence number that goes with the cached offerings.
Resolve(p, c) ==
    /\ proc[p].pc = "idle"
    /\ proc' = [proc EXCEPT ![p] = [IdleResolver EXCEPT !.pc = "seq", !.class = c, !.last = lastSeqNum]]
    /\ UNCHANGED <<entry, seqNum, marking, evicting, marks, Cache, lastSeqNum>>
    /\ Track

\* SeqNum adds up the three counters, read one after the other.
SeqNum(p) ==
    /\ proc[p].pc = "seq"
    /\ LET n == proc[p].read + 1
       IN  proc' = [proc EXCEPT ![p].seq = @ + seqNum[Counters[n]],
                                ![p].read = n,
                                ![p].pc = IF n = Len(Counters) THEN "get" ELSE "seq"]
    /\ UNCHANGED <<entry, seqNum, marking, evicting, marks, Cache, lastSeqNum>>
    /\ Track

\* Reuse the cached offerings if there are some and the numbers agree.
CanReuse(p) ==
    /\ Cache[proc[p].class] # None
    /\ proc[p].last = proc[p].seq

CacheGet(p) ==
    /\ proc[p].pc = "get"
    /\ proc' = [proc EXCEPT ![p] =
                  IF CanReuse(p)
                  THEN [@ EXCEPT !.pc = "returned", !.avail = Cache[proc[p].class].avail,
                                 !.number = Cache[proc[p].class].number]
                  ELSE [@ EXCEPT !.pc = "compute", !.todo = AllOfferings, !.number = proc[p].seq]]
    /\ UNCHANGED <<entry, seqNum, marking, evicting, marks, Cache, lastSeqNum>>
    /\ Track

\* Build one offering, reading the entries in force now.
Compute(p, o) ==
    /\ proc[p].pc = "compute"
    /\ o \in proc[p].todo
    /\ proc' = [proc EXCEPT ![p].todo = @ \ {o},
                            ![p].avail = IF Unavailable(Live, proc[p].class, o) THEN @ ELSE @ \cup {o}]
    /\ UNCHANGED <<entry, seqNum, marking, evicting, marks, Cache, lastSeqNum>>
    /\ Track

\* Cache the offerings ...
CacheSet(p) ==
    /\ proc[p].pc = "compute"
    /\ proc[p].todo = {}
    /\ Cache' = [Cache EXCEPT ![proc[p].class] = [avail |-> proc[p].avail, number |-> proc[p].seq]]
    /\ proc' = [proc EXCEPT ![p].pc = "store"]
    /\ UNCHANGED <<entry, seqNum, marking, evicting, marks, lastSeqNum>>
    /\ Track

\* Mutant: the sequence number stored is the one at the end of the call.
StoreSeqNumLate(p) ==
    /\ proc[p].pc = "store"
    /\ lastSeqNum' = seqNum["offering"] + seqNum["capacityType"] + seqNum["subnet"]
    /\ proc' = [proc EXCEPT ![p].pc = "returned"]
    /\ UNCHANGED <<entry, seqNum, marking, evicting, marks, Cache>>
    /\ Track

\* ... and then store the sequence number read at the beginning.
StoreSeqNum(p) ==
    /\ proc[p].pc = "store"
    /\ lastSeqNum' = proc[p].seq
    /\ proc' = [proc EXCEPT ![p].pc = "returned"]
    /\ UNCHANGED <<entry, seqNum, marking, evicting, marks, Cache>>
    /\ Track

\* The caller is done with the offerings.
Return(p) ==
    /\ proc[p].pc = "returned"
    /\ proc' = [proc EXCEPT ![p] = IdleResolver]
    /\ UNCHANGED <<entry, seqNum, marking, evicting, marks, Cache, lastSeqNum>>
    /\ Track

\* The TTL of cached offerings runs out.
CacheExpire(c) ==
    /\ Cache[c] # None
    /\ Cache' = [Cache EXCEPT ![c] = None]
    /\ UNCHANGED <<entry, seqNum, marking, evicting, marks, lastSeqNum, proc>>
    /\ Track

-----------------------------------------------------------------------------

ResolveStep(p) ==
    \/ \E c \in Classes : Resolve(p, c)
    \/ SeqNum(p)
    \/ CacheGet(p)
    \/ \E o \in AllOfferings : Compute(p, o)
    \/ CacheSet(p)
    \/ StoreSeqNum(p)
    \/ Return(p)

OfferingsNext ==
    \/ \E k \in Signals :
          MarkSet(k) \/ MarkBump(k) \/ ExpireMark(k) \/ EvictMark(k) \/ OnEvicted(k) \/ Delete(k)
    \/ \E p \in Procs : ResolveStep(p)
    \/ \E c \in Classes : CacheExpire(c)

OfferingsSpec == OfferingsInit /\ [][OfferingsNext]_offeringVars

\* Time passes, the cleanup of go-cache runs every 10 seconds, a mark in progress
\* is completed, and reconcilers keep calling GetInstanceTypes for each NodeClass.
\* The 5 minute TTL of the resolver's cache is not relied on.
FairOfferingsSpec ==
    /\ OfferingsSpec
    /\ \A k \in Signals :
          WF_offeringVars(MarkBump(k)) /\ WF_offeringVars(ExpireMark(k)) /\ WF_offeringVars(EvictMark(k)) /\ WF_offeringVars(OnEvicted(k))
    /\ \A p \in Procs : WF_offeringVars(ResolveStep(p))

-----------------------------------------------------------------------------
(* Properties *)

OfferingsTypeOK ==
    /\ entry \in [Signals -> {"absent", "live", "expired"}]
    /\ seqNum \in [{"offering", "capacityType", "subnet"} -> 0..(2 * MaxMarks)]
    /\ marking \subseteq Signals
    /\ evicting \subseteq Signals
    /\ marks \in 0..MaxMarks
    /\ Cache \in [Classes -> [avail: SUBSET AllOfferings, number: 0..(2 * MaxMarks)] \cup {None}]
    /\ lastSeqNum \in -1..(2 * MaxMarks)
    /\ proc \in [Procs -> [pc: {"idle", "seq", "get", "compute", "store", "returned"},
                           class: Classes \cup {None}, last: -1..(2 * MaxMarks),
                           seq: 0..(2 * MaxMarks), read: 0..3, todo: SUBSET AllOfferings,
                           avail: SUBSET AllOfferings, number: -1..(2 * MaxMarks)]]
    /\ held \in [Procs -> SUBSET Signals]
    /\ gone \in [Procs -> SUBSET Signals]

\* What the entries mean for an offering of NodeClass c: one for the offering
\* itself, made for everybody or for the placement group of c as a whole, one for
\* its capacity type, or one for each of the subnets c has in the zone.
Blocked(live, c, o) ==
    \/ \E k \in live :
          \/ k.kind = "offering" /\ k.what = o /\ k.pg \in {None, PlacementGroup[c]} /\ k.part = None
          \/ k.kind = "capacityType" /\ k.what = o[1]
    \/ SubnetsOf[c][o[2]] # {} /\ SubnetsOf[c][o[2]] \subseteq {k.what : k \in {j \in live : j.kind = "subnet"}}

\* What a call returned agrees with the entries that did not change while it ran:
\* nothing marked before the call and in force throughout is offered as available,
\* and nothing is withheld unless an entry for it was there at some point.
Fresh(p) ==
    \A o \in AllOfferings :
        /\ Blocked(held[p], proc[p].class, o) => o \notin proc[p].avail
        /\ ~Blocked(Signals \ gone[p], proc[p].class, o) => o \in proc[p].avail

\* The comment on UnavailableOfferings: "These offerings are ignored as long as
\* they are in the cache on GetInstanceTypes responses", and they are offered
\* again once their entry is removed, whether or not the answer was cached.
ResultIsFresh == \A p \in Procs : proc[p].pc = "returned" => Fresh(p)

\* Whatever other calls, for whatever NodeClasses, run at the same time: an
\* answer is fresh if it was computed in the call or, taken from the cache, if
\* the call has read the number that the computation of that answer had read.
\* So all the calls of ResolveOfferings can get wrong is the number they compare
\* with, which is one for all NodeClasses and reconcilers of the instance type.
OwnNumberIsFresh ==
    \A p \in Procs : proc[p].pc = "returned" /\ proc[p].number = proc[p].seq => Fresh(p)

\* Marks being bounded, all entries are evicted in the end, and from some point on
\* every answer offers everything: OnEvicted invalidates the cached answers.
OfferedAgain ==
    <>[](\A p \in Procs : proc[p].pc = "returned" => proc[p].avail = AllOfferings)

\* One reconciler that asks for one NodeClass: the number is compared with that of
\* the answer it goes with.
SoleCaller == \E p \in Procs, c \in Classes : Procs = {p} /\ Classes = {c}

\* Safety of the resolver's cache: well-formed, its answers agree with the
\* unavailable-offerings cache whenever the number the call read is the answer's
\* own, and for a sole caller it always is.
OfferingsInv == OfferingsTypeOK /\ OwnNumberIsFresh /\ (SoleCaller => ResultIsFresh)
=============================================================================
