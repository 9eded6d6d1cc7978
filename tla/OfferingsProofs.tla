--------------------------- MODULE OfferingsProofs ---------------------------
(***************************************************************************)
(* The answers of the offerings resolver, for every number of reconcilers   *)
(* and of NodeClasses: an answer is fresh if the call that returns it read   *)
(* the number its computation had read.  The resolver compares with the last *)
(* number stored for the instance type, by whatever call, so that the         *)
(* condition holds of every answer for a sole caller, and in the run           *)
(* offerings_two_classes it fails.                                           *)
(*                                                                         *)
(* An answer was computed, offering by offering, from the entries in force  *)
(* at some moments after the counters were read.  Since then an entry that  *)
(* was not in force may have come into force, and one that was may have     *)
(* gone, only in a step that advances a counter.  A call that starts after  *)
(* such a step reads counters whose sum is greater; in a call that had      *)
(* started before, the entry did not hold, or was not gone, throughout.     *)
(***************************************************************************)
EXTENDS Offerings, FiniteSetTheorems, TLAPS

Kinds3 == {"offering", "capacityType", "subnet"}
Counts == [Kinds3 -> Nat]
Total(v) == v["offering"] + v["capacityType"] + v["subnet"]

\* What the counters that are not among the first n add up to, and what the sum
\* a call is reading will be at least.
Unread(n) == (IF n < 1 THEN seqNum["offering"] ELSE 0) + (IF n < 2 THEN seqNum["capacityType"] ELSE 0)
                 + (IF n < 3 THEN seqNum["subnet"] ELSE 0)
Reach(p) == proc[p].seq + Unread(proc[p].read)

Reading(p) == proc[p].pc \in {"seq", "get"}

\* The entries each offering was computed from.
Pasts == [AllOfferings -> SUBSET Signals]

\* The entries X include those that held and none of those that were gone.
Agrees(H, G, X) == H \subseteq X /\ G \cap X = {}

\* The offerings av of S are those available by the entries of L, read by a call
\* with the number n: if L disagrees with what is in force or gone now, or
\* throughout a call that reads its number, n is behind.
Snapshot(L, c, av, n, S) ==
    /\ n =< Total(seqNum)
    /\ \A o \in S : (o \in av) <=> ~ Unavailable(L[o], c, o)
    /\ \A o \in S : Agrees(Settled, Absent, L[o]) \/ n < Total(seqNum)
    /\ \A o \in S : \A p \in Procs : Reading(p) => Agrees(held[p], gone[p], L[o]) \/ n < Reach(p)

CachedWell(c) ==
    Cache[c] # None => \E L \in Pasts : Snapshot(L, c, Cache[c].avail, Cache[c].number, AllOfferings)

\* While the offerings are computed, and until the sequence number is stored.
ComputedWell(p) ==
    \E L \in Pasts :
        /\ Snapshot(L, proc[p].class, proc[p].avail, proc[p].seq, AllOfferings \ proc[p].todo)
        /\ \A o \in AllOfferings \ proc[p].todo : Agrees(held[p], gone[p], L[o])

InCall(p) ==
    /\ proc[p].pc # "idle" => proc[p].class \in Classes
    /\ proc[p].pc = "seq" => proc[p].read \in 0 .. 2
    /\ proc[p].pc = "get" => proc[p].read = 3
    /\ Reading(p) => proc[p].avail = {} /\ Reach(p) =< Total(seqNum)
    /\ proc[p].pc = "compute" => proc[p].avail \cap proc[p].todo = {}
    /\ proc[p].pc = "store" => proc[p].todo = {}
    /\ held[p] \subseteq Settled /\ gone[p] \subseteq Absent

CallWell(p) ==
    /\ InCall(p)
    /\ proc[p].pc \in {"compute", "store"} => ComputedWell(p)
    /\ proc[p].pc = "returned" /\ proc[p].number = proc[p].seq => Fresh(p)

\* Every counter step is one of a mark or of an eviction, and every eviction one of a mark.
Present == {k \in Signals : entry[k] # "absent"}
StepsBounded == Total(seqNum) + Cardinality(marking) + Cardinality(evicting) + Cardinality(Present) =< 2 * marks

\* The number stored is that of the cached answer, when there is one caller.
NumbersAgree(p, c) ==
    /\ proc[p].pc \notin {"compute", "store"} /\ Cache[c] # None => Cache[c].number = lastSeqNum
    /\ Reading(p) => proc[p].last = lastSeqNum
    /\ proc[p].pc \in {"compute", "store"} => proc[p].number = proc[p].seq
    /\ proc[p].pc = "store" /\ Cache[c] # None => Cache[c].number = proc[p].seq
    /\ proc[p].pc = "returned" => proc[p].number = proc[p].seq

OfferingsIInv ==
    /\ OfferingsTypeOK /\ StepsBounded
    /\ \A p \in Procs : CallWell(p)
    /\ \A c \in Classes : CachedWell(c)
    /\ SoleCaller => \A p \in Procs, c \in Classes : NumbersAgree(p, c)

-----------------------------------------------------------------------------
(* The keys, and what they block *)

LEMMA KeyFacts ==
  ASSUME NEW k \in Signals
  PROVE  /\ k.kind \in Kinds3
         /\ k.kind = "offering" => k = OfferingKey(k.what, k.pg, k.part)
         /\ k.kind = "capacityType" => k = CapacityTypeKey(k.what)
         /\ k.kind = "subnet" => k = SubnetKey(k.what)
<1>1. k = OfferingKey(k.what, k.pg, k.part) \/ k = CapacityTypeKey(k.what) \/ k = SubnetKey(k.what)
  BY Zenon, SignalsAssumption
<1>2. CASE k = OfferingKey(k.what, k.pg, k.part)
  BY <1>2 DEF OfferingKey, Kinds3
<1>3. CASE k = CapacityTypeKey(k.what)
  BY <1>3 DEF CapacityTypeKey, Kinds3
<1>4. CASE k = SubnetKey(k.what)
  BY <1>4 DEF SubnetKey, Kinds3
<1> QED BY Zenon, <1>1, <1>2, <1>3, <1>4

\* The lookups of the resolver find what the entries mean.
LEMMA BlockedIsUnavailable ==
  ASSUME NEW live \in SUBSET Signals, NEW c, NEW o
  PROVE  Blocked(live, c, o) <=> Unavailable(live, c, o)
<1> DEFINE subnets == SubnetsOf[c][o[2]]
           Named == {k.what : k \in {j \in live : j.kind = "subnet"}}
<1>1. \A s : s \in Named <=> SubnetKey(s) \in live
  <2> TAKE s
  <2>1. ASSUME s \in Named PROVE SubnetKey(s) \in live
    <3>1. PICK k \in live : k.kind = "subnet" /\ k.what = s
      BY Zenon, <2>1
    <3> QED BY Zenon, <3>1, KeyFacts
  <2>2. ASSUME SubnetKey(s) \in live PROVE s \in Named
    <3>1. SubnetKey(s).kind = "subnet" /\ SubnetKey(s).what = s
      BY Zenon DEF SubnetKey
    <3> QED BY Zenon, <2>2, <3>1
  <2> QED BY Zenon, <2>1, <2>2
<1>2. \A ct : (\E k \in live : k.kind = "capacityType" /\ k.what = ct) <=> CapacityTypeKey(ct) \in live
  <2> TAKE ct
  <2>1. CapacityTypeKey(ct).kind = "capacityType" /\ CapacityTypeKey(ct).what = ct
    BY Zenon DEF CapacityTypeKey
  <2> QED BY Zenon, <2>1, KeyFacts
<1>3. \A g : (\E k \in live : k.kind = "offering" /\ k.what = o /\ k.pg = g /\ k.part = None)
                 <=> OfferingKey(o, g, None) \in live
  <2> TAKE g
  <2> DEFINE key == OfferingKey(o, g, None)
  <2>1. key.kind = "offering" /\ key.what = o /\ key.pg = g /\ key.part = None
    BY Zenon DEF OfferingKey
  <2>2. \A k \in live : k.kind = "offering" => k = OfferingKey(k.what, k.pg, k.part)
    BY Zenon, KeyFacts
  <2> QED BY Zenon, <2>1, <2>2
<1>4. Blocked(live, c, o) <=>
         \/ \E k \in live : k.kind = "offering" /\ k.what = o /\ k.pg = None /\ k.part = None
         \/ \E k \in live : k.kind = "offering" /\ k.what = o /\ k.pg = PlacementGroup[c] /\ k.part = None
         \/ \E k \in live : k.kind = "capacityType" /\ k.what = o[1]
         \/ subnets # {} /\ subnets \subseteq Named
  BY Zenon DEF Blocked
<1>5. Unavailable(live, c, o) <=>
         \/ OfferingKey(o, None, None) \in live
         \/ OfferingKey(o, PlacementGroup[c], None) \in live
         \/ CapacityTypeKey(o[1]) \in live
         \/ subnets # {} /\ \A s \in subnets : SubnetKey(s) \in live
  <2> DEFINE open(g) == OfferingKey(o, g, None) \in live
             rest == CapacityTypeKey(o[1]) \in live \/ (subnets # {} /\ \A s \in subnets : SubnetKey(s) \in live)
  <2>1. \A g : IsUnavailable(live, c, o, g) <=> open(g) \/ rest
    BY Zenon DEF IsUnavailable
  <2> HIDE DEF open, rest
  <2>2. Unavailable(live, c, o) <=> open(None) \/ open(PlacementGroup[c]) \/ rest
    BY Zenon, <2>1 DEF Unavailable
  <2> QED BY Zenon, <2>2 DEF open, rest
<1>6. (subnets \subseteq Named) <=> (\A s \in subnets : SubnetKey(s) \in live)
  <2> HIDE DEF subnets, Named
  <2> QED BY <1>1, Zenon
<1>7. (\E k \in live : k.kind = "offering" /\ k.what = o /\ k.pg = None /\ k.part = None)
         <=> OfferingKey(o, None, None) \in live
  BY <1>3, Zenon
<1>8. (\E k \in live : k.kind = "offering" /\ k.what = o /\ k.pg = PlacementGroup[c] /\ k.part = None)
         <=> OfferingKey(o, PlacementGroup[c], None) \in live
  BY <1>3, Zenon
<1>9. (\E k \in live : k.kind = "capacityType" /\ k.what = o[1]) <=> CapacityTypeKey(o[1]) \in live
  BY <1>2, Zenon
<1> HIDE DEF subnets, Named
<1>10. (subnets # {} /\ subnets \subseteq Named) <=> (subnets # {} /\ \A s \in subnets : SubnetKey(s) \in live)
  BY Zenon, <1>6
<1> QED BY <1>4, <1>5, <1>7, <1>8, <1>9, <1>10, Zenon

LEMMA BlockedGrows ==
  ASSUME NEW S, NEW T, S \subseteq T, NEW c, NEW o
  PROVE  Blocked(S, c, o) => Blocked(T, c, o)
<1>1. {k.what : k \in {j \in S : j.kind = "subnet"}} \subseteq {k.what : k \in {j \in T : j.kind = "subnet"}}
  BY Zenon
<1> DEFINE N(X) == {k.what : k \in {j \in X : j.kind = "subnet"}}
           K(X) == \E k \in X : \/ k.kind = "offering" /\ k.what = o /\ k.pg \in {None, PlacementGroup[c]} /\ k.part = None
                                \/ k.kind = "capacityType" /\ k.what = o[1]
<1>2. \A X : Blocked(X, c, o) <=> K(X) \/ (SubnetsOf[c][o[2]] # {} /\ SubnetsOf[c][o[2]] \subseteq N(X))
  BY Zenon DEF Blocked
<1>3. K(S) => K(T)
  BY Zenon
<1> HIDE DEF N, K
<1> QED BY Zenon, <1>1, <1>2, <1>3 DEF N

\* What was computed from entries that include what held, and nothing of what was gone, is fresh.
LEMMA ComputedIsFresh ==
  ASSUME NEW c, NEW o, NEW av, NEW L \in SUBSET Signals, (o \in av) <=> ~ Unavailable(L, c, o),
         NEW H, NEW G, H \subseteq L, G \cap L = {}
  PROVE  /\ Blocked(H, c, o) => o \notin av
         /\ ~ Blocked(Signals \ G, c, o) => o \in av
<1>1. Blocked(L, c, o) <=> Unavailable(L, c, o)
  BY Zenon, BlockedIsUnavailable
<1>2. Blocked(H, c, o) => Blocked(L, c, o)
  BY Zenon, BlockedGrows
<1>3. Blocked(L, c, o) => Blocked(Signals \ G, c, o)
  <2>1. L \subseteq Signals \ G
    BY Zenon
  <2> QED BY Zenon, <2>1, BlockedGrows
<1> QED BY Zenon, <1>1, <1>2, <1>3

-----------------------------------------------------------------------------
(* The steps of the cache of unavailable offerings *)

\* The types of its state, without the bounds.
EntriesOK ==
    /\ entry \in [Signals -> {"absent", "live", "expired"}] /\ seqNum \in Counts
    /\ marking \subseteq Signals /\ evicting \subseteq Signals /\ marks \in 0 .. MaxMarks

\* A key settles, or is absent, only in a step that advances its counter.
Moves ==
    /\ \A n \in Kinds3 : seqNum[n] =< seqNum'[n]
    /\ \A k \in Signals : (k \in Settled' /\ k \notin Settled) \/ (k \in Absent' /\ k \notin Absent)
                              => seqNum[k.kind] < seqNum'[k.kind]

EntryStep(k) == MarkSet(k) \/ MarkBump(k) \/ ExpireMark(k) \/ EvictMark(k) \/ OnEvicted(k) \/ Delete(k)

LEMMA EntryTypes ==
  ASSUME EntriesOK, NEW k \in Signals, EntryStep(k)
  PROVE  EntriesOK' /\ Moves
<1>0. k.kind \in Kinds3
  BY Zenon, KeyFacts
<1>1. CASE MarkSet(k)
  <2>1. EntriesOK'
    BY <1>1, MarksAssumption DEF MarkSet, EntriesOK, Counts
  <2>2. Moves
    BY <1>1 DEF MarkSet, EntriesOK, Counts, Moves, Settled, Absent
  <2> QED BY Zenon, <2>1, <2>2
<1>2. CASE MarkBump(k)
  <2>1. EntriesOK'
    BY <1>0, <1>2 DEF MarkBump, EntriesOK, Counts
  <2>2. Moves
    BY <1>0, <1>2 DEF MarkBump, EntriesOK, Counts, Moves, Settled, Absent
  <2> QED BY Zenon, <2>1, <2>2
<1>3. CASE ExpireMark(k)
  <2>1. EntriesOK'
    BY Zenon, <1>3 DEF ExpireMark, EntriesOK, Counts
  <2>2. Moves
    BY <1>3 DEF ExpireMark, EntriesOK, Counts, Moves, Settled, Absent
  <2> QED BY Zenon, <2>1, <2>2
<1>4. CASE EvictMark(k) \/ Delete(k)
  <2>1. EntriesOK'
    BY Zenon, <1>4 DEF EvictMark, Delete, EntriesOK, Counts
  <2>2. Moves
    BY <1>4 DEF EvictMark, Delete, EntriesOK, Counts, Moves, Settled, Absent
  <2> QED BY Zenon, <2>1, <2>2
<1>5. CASE OnEvicted(k)
  <2>1. EntriesOK'
    BY <1>0, <1>5 DEF OnEvicted, EntriesOK, Counts
  <2>2. Moves
    BY <1>0, <1>5 DEF OnEvicted, EntriesOK, Counts, Moves, Settled, Absent
  <2> QED BY Zenon, <2>1, <2>2
<1> QED BY Zenon, <1>1, <1>2, <1>3, <1>4, <1>5 DEF EntryStep

LEMMA Finite ==
  ASSUME NEW S \in SUBSET Signals
  PROVE  IsFiniteSet(S) /\ Cardinality(S) \in Nat
  BY Zenon, MarksAssumption, FS_Subset, FS_CardinalityType

LEMMA Added ==
  ASSUME NEW S \in SUBSET Signals, NEW k \in Signals
  PROVE  /\ k \notin S => Cardinality(S \cup {k}) = Cardinality(S) + 1
         /\ Cardinality(S \cup {k}) =< Cardinality(S) + 1
         /\ k \in S => Cardinality(S \ {k}) = Cardinality(S) - 1
<1>1. IsFiniteSet(S) /\ Cardinality(S) \in Nat
  BY Zenon, Finite
<1>2. Cardinality(S \cup {k}) = IF k \in S THEN Cardinality(S) ELSE Cardinality(S) + 1
  BY Zenon, <1>1, FS_AddElement
<1>3. Cardinality(S \ {k}) = IF k \in S THEN Cardinality(S) - 1 ELSE Cardinality(S)
  BY ZenonT(30), <1>1, FS_RemoveElement
<1> QED BY <1>1, <1>2, <1>3

LEMMA StepsStayBounded ==
  ASSUME EntriesOK, StepsBounded, NEW k \in Signals, EntryStep(k)
  PROVE  StepsBounded'
<1> DEFINE t == Total(seqNum)
           m == Cardinality(marking)
           e == Cardinality(evicting)
           q == Cardinality(Present)
<1>0. /\ k.kind \in Kinds3 /\ t \in Nat /\ m \in Nat /\ e \in Nat /\ q \in Nat /\ marks \in Nat
      /\ marking \in SUBSET Signals /\ evicting \in SUBSET Signals /\ Present \in SUBSET Signals
      /\ t + m + e + q =< 2 * marks
  BY KeyFacts, Finite DEF EntriesOK, Total, Counts, Kinds3, StepsBounded, Present
<1>1. CASE MarkSet(k)
  <2>1. Present' = Present \cup {k}
    BY Zenon, <1>1 DEF MarkSet, Present, EntriesOK
  <2>2. q' =< q + 1 /\ m' = m + 1 /\ e' = e /\ t' = t /\ marks' = marks + 1 /\ q' \in Nat
    <3>1. Present' \in SUBSET Signals
      BY Zenon, <1>0, <2>1
    <3>2. q' \in Nat
      BY <3>1, Finite, Zenon
    <3> QED BY ZenonT(30), <1>0, <1>1, <2>1, <3>2, Added DEF MarkSet
  <2> HIDE DEF t, m, e, q
  <2>3. t' + m' + e' + q' =< 2 * marks'
    <3>1. \A a, b, c, d, x, n \in Nat : a + b + c + d =< 2 * n /\ x =< d + 1 => a + (b + 1) + c + x =< 2 * (n + 1)
      OBVIOUS
    <3> QED BY <1>0, <2>2, <3>1, Zenon
  <2> QED BY Zenon, <2>3 DEF StepsBounded, t, m, e, q
<1>2. ASSUME k.kind \in Kinds3, seqNum' = [seqNum EXCEPT ![k.kind] = @ + 1] PROVE t' = t + 1
  BY <1>2 DEF EntriesOK, Total, Counts, Kinds3
<1>3. CASE MarkBump(k)
  <2>1. Present' = Present
    BY Zenon, <1>3 DEF MarkBump, Present
  <2>2. q' = q /\ m' = m - 1 /\ e' = e /\ t' = t + 1 /\ marks' = marks
    BY Zenon, <1>0, <1>2, <1>3, <2>1, Added DEF MarkBump
  <2> HIDE DEF t, m, e, q
  <2>3. t' + m' + e' + q' =< 2 * marks'
    BY <1>0, <2>2
  <2> QED BY Zenon, <2>3 DEF StepsBounded, t, m, e, q
<1>4. CASE ExpireMark(k)
  <2>1. Present' = Present
    BY Zenon, <1>4 DEF ExpireMark, Present, EntriesOK
  <2> QED BY Zenon, <1>4, <2>1 DEF ExpireMark, StepsBounded
<1>5. CASE EvictMark(k) \/ Delete(k)
  <2>1. Present' = Present \ {k} /\ k \in Present /\ k \notin evicting
    BY Zenon, <1>5 DEF EvictMark, Delete, Present, EntriesOK
  <2>2. q' = q - 1 /\ m' = m /\ e' = e + 1 /\ t' = t /\ marks' = marks
    BY Zenon, <1>0, <1>5, <2>1, Added DEF EvictMark, Delete
  <2> HIDE DEF t, m, e, q
  <2>3. t' + m' + e' + q' =< 2 * marks'
    BY <1>0, <2>2
  <2> QED BY Zenon, <2>3 DEF StepsBounded, t, m, e, q
<1>6. CASE OnEvicted(k)
  <2>1. Present' = Present
    BY Zenon, <1>6 DEF OnEvicted, Present
  <2>2. q' = q /\ m' = m /\ e' = e - 1 /\ t' = t + 1 /\ marks' = marks
    BY Zenon, <1>0, <1>2, <1>6, <2>1, Added DEF OnEvicted
  <2> HIDE DEF t, m, e, q
  <2>3. t' + m' + e' + q' =< 2 * marks'
    BY <1>0, <2>2
  <2> QED BY Zenon, <2>3 DEF StepsBounded, t, m, e, q
<1> QED BY Zenon, <1>1, <1>3, <1>4, <1>5, <1>6 DEF EntryStep

\* So the counters are bounded, and with them what the calls read from them.
SumsBounded ==
    /\ seqNum \in [Kinds3 -> 0 .. (2 * MaxMarks)]
    /\ Total(seqNum) \in Nat /\ Total(seqNum) =< 2 * MaxMarks

LEMMA CountersBounded == EntriesOK /\ StepsBounded => SumsBounded
<1> SUFFICES ASSUME EntriesOK, StepsBounded PROVE SumsBounded
  BY Zenon
<1>1. /\ Cardinality(marking) \in Nat /\ Cardinality(evicting) \in Nat /\ Cardinality(Present) \in Nat
      /\ seqNum["offering"] \in Nat /\ seqNum["capacityType"] \in Nat /\ seqNum["subnet"] \in Nat
      /\ marks \in Nat /\ marks =< MaxMarks /\ MaxMarks \in Nat
  BY Finite, MarksAssumption DEF EntriesOK, Present, Counts, Kinds3
<1>2. Total(seqNum) =< 2 * MaxMarks /\ Total(seqNum) \in Nat
  BY <1>1 DEF StepsBounded, Total
<1>3. \A n \in Kinds3 : seqNum[n] =< Total(seqNum)
  BY <1>1 DEF Kinds3, Total
<1>4. seqNum \in [Kinds3 -> 0 .. (2 * MaxMarks)]
  <2>1. \A n \in Kinds3 : seqNum[n] \in Nat /\ seqNum[n] =< 2 * MaxMarks
    BY <1>1, <1>2, <1>3 DEF EntriesOK, Counts
  <2> QED BY <1>1, <2>1 DEF EntriesOK, Counts
<1> QED BY Zenon, <1>2, <1>4 DEF SumsBounded

\* What is left to read.
LEMMA UnreadFacts ==
  ASSUME EntriesOK
  PROVE  /\ Total(seqNum) \in Nat /\ Unread(0) = Total(seqNum) /\ Unread(3) = 0
         /\ \A i \in 0 .. 3 : Unread(i) \in Nat /\ Unread(i) =< Total(seqNum)
         /\ \A i \in 0 .. 2 : Unread(i) = seqNum[Counters[i + 1]] + Unread(i + 1) /\ seqNum[Counters[i + 1]] \in Nat
<1>1. seqNum["offering"] \in Nat /\ seqNum["capacityType"] \in Nat /\ seqNum["subnet"] \in Nat
  BY Zenon DEF EntriesOK, Counts, Kinds3
<1>2. Counters[1] = "offering" /\ Counters[2] = "capacityType" /\ Counters[3] = "subnet"
  BY DEF Counters
<1>3. /\ Unread(0) = Total(seqNum) /\ Total(seqNum) \in Nat
      /\ Unread(1) = seqNum["capacityType"] + seqNum["subnet"]
      /\ Unread(2) = seqNum["subnet"] /\ Unread(3) = 0
  BY <1>1 DEF Unread, Total
<1>4. \A i \in 0 .. 3 : Unread(i) \in Nat /\ Unread(i) =< Total(seqNum)
  <2>1. \A i \in 0 .. 3 : i = 0 \/ i = 1 \/ i = 2 \/ i = 3
    OBVIOUS
  <2> QED BY <1>1, <1>3, <2>1 DEF Total
<1>5. \A i \in 0 .. 2 : Unread(i) = seqNum[Counters[i + 1]] + Unread(i + 1) /\ seqNum[Counters[i + 1]] \in Nat
  <2> SUFFICES ASSUME NEW i \in 0 .. 2
               PROVE  Unread(i) = seqNum[Counters[i + 1]] + Unread(i + 1) /\ seqNum[Counters[i + 1]] \in Nat
    BY Zenon
  <2>1. CASE i = 0
    BY <1>1, <1>2, <1>3, <2>1 DEF Total
  <2>2. CASE i = 1
    BY <1>1, <1>2, <1>3, <2>2
  <2>3. CASE i = 2
    BY <1>1, <1>2, <1>3, <2>3
  <2> QED BY <2>1, <2>2, <2>3
<1> QED BY Zenon, <1>3, <1>4, <1>5

\* A step of the counters moves their sum at least as far as what is left to read.
LEMMA SumsMove ==
  ASSUME EntriesOK, EntriesOK', Moves
  PROVE  /\ Total(seqNum) \in Nat /\ Total(seqNum') \in Nat /\ Total(seqNum) =< Total(seqNum')
         /\ \A k \in Signals : (k \in Settled' /\ k \notin Settled) \/ (k \in Absent' /\ k \notin Absent)
                                   => Total(seqNum) < Total(seqNum')
         /\ \A i \in 0 .. 3 : /\ Unread(i) \in Nat /\ Unread(i)' \in Nat /\ Unread(i) =< Unread(i)'
                              /\ Unread(i)' + Total(seqNum) =< Unread(i) + Total(seqNum')
<1>1. /\ seqNum["offering"] \in Nat /\ seqNum["capacityType"] \in Nat /\ seqNum["subnet"] \in Nat
      /\ seqNum'["offering"] \in Nat /\ seqNum'["capacityType"] \in Nat /\ seqNum'["subnet"] \in Nat
  BY Zenon DEF EntriesOK, Counts, Kinds3
<1>2. /\ seqNum["offering"] =< seqNum'["offering"] /\ seqNum["capacityType"] =< seqNum'["capacityType"]
      /\ seqNum["subnet"] =< seqNum'["subnet"]
  BY Zenon DEF Moves, Kinds3
<1>3. Total(seqNum) \in Nat /\ Total(seqNum') \in Nat /\ Total(seqNum) =< Total(seqNum')
  BY <1>1, <1>2 DEF Total
<1>4. ASSUME NEW n \in Kinds3, seqNum[n] < seqNum'[n] PROVE Total(seqNum) < Total(seqNum')
  <2>1. n = "offering" \/ n = "capacityType" \/ n = "subnet"
    BY Zenon DEF Kinds3
  <2> QED BY <1>1, <1>2, <1>4, <2>1 DEF Total
<1>5. \A k \in Signals : (k \in Settled' /\ k \notin Settled) \/ (k \in Absent' /\ k \notin Absent)
                             => Total(seqNum) < Total(seqNum')
  BY Zenon, <1>4, KeyFacts DEF Moves
<1>6. ASSUME NEW i \in 0 .. 3
      PROVE  /\ Unread(i) \in Nat /\ Unread(i)' \in Nat /\ Unread(i) =< Unread(i)'
             /\ Unread(i)' + Total(seqNum) =< Unread(i) + Total(seqNum')
  BY <1>1, <1>2 DEF Unread, Total
<1> QED BY Zenon, <1>3, <1>5, <1>6

-----------------------------------------------------------------------------
(* What every step keeps of the calls and of the cached answers *)

\* What held, or was gone, throughout a call does so until now.
Followed ==
    /\ held' \in [Procs -> SUBSET Signals] /\ gone' \in [Procs -> SUBSET Signals]
    /\ \A p \in Procs :
          /\ held'[p] \subseteq Settled' /\ gone'[p] \subseteq Absent'
          /\ proc[p].pc # "idle" \/ proc'[p].pc = "idle" => held'[p] \subseteq held[p] /\ gone'[p] \subseteq gone[p]

LEMMA Tracked == Track => Followed
<1> SUFFICES ASSUME Track PROVE Followed
  BY Zenon
<1>1. held' = [q \in Procs |-> IF proc[q].pc = "idle" /\ proc'[q].pc # "idle" THEN Settled' ELSE held[q] \cap Settled']
      /\ gone' = [q \in Procs |-> IF proc[q].pc = "idle" /\ proc'[q].pc # "idle" THEN Absent' ELSE gone[q] \cap Absent']
  BY Zenon DEF Track
<1>2. Settled' \subseteq Signals /\ Absent' \subseteq Signals
  BY Zenon DEF Settled, Absent
<1> QED BY Zenon, <1>1, <1>2 DEF Followed

\* A call that reads the counters has started now, or goes on.
Starts(p) == held'[p] \subseteq Settled' /\ gone'[p] \subseteq Absent' /\ Reach(p)' = Total(seqNum')
GoesOn(p) ==
    /\ Reading(p) /\ Reach(p) \in Nat /\ Reach(p)' \in Nat /\ Reach(p) =< Reach(p)'
    /\ held'[p] \subseteq held[p] /\ gone'[p] \subseteq gone[p]
ReadersMove == \A p \in Procs : Reading(p)' => Starts(p) \/ GoesOn(p)

LEMMA SnapshotStays ==
  ASSUME EntriesOK, EntriesOK', Moves, ReadersMove,
         NEW L, NEW c, NEW av, NEW n \in Nat, NEW S, Snapshot(L, c, av, n, S)
  PROVE  Snapshot(L, c, av, n, S)'
<1>1. /\ Total(seqNum) \in Nat /\ Total(seqNum') \in Nat /\ Total(seqNum) =< Total(seqNum')
      /\ \A k \in Signals : (k \in Settled' /\ k \notin Settled) \/ (k \in Absent' /\ k \notin Absent)
                                => Total(seqNum) < Total(seqNum')
  BY Zenon, SumsMove
<1>2. n =< Total(seqNum)
  BY Zenon DEF Snapshot
<1>3. n =< Total(seqNum') /\ (n < Total(seqNum) \/ Total(seqNum) < Total(seqNum') => n < Total(seqNum'))
  BY <1>1, <1>2
<1>4. ASSUME NEW o \in S PROVE Agrees(Settled', Absent', L[o]) \/ n < Total(seqNum')
  <2>1. CASE Settled' \subseteq Settled /\ Absent' \subseteq Absent
    <3>1. Agrees(Settled, Absent, L[o]) \/ n < Total(seqNum)
      BY Zenon DEF Snapshot
    <3> QED BY Zenon, <1>3, <2>1, <3>1 DEF Agrees
  <2>2. CASE ~ (Settled' \subseteq Settled /\ Absent' \subseteq Absent)
    <3>1. Settled' \subseteq Signals /\ Absent' \subseteq Signals
      BY Zenon DEF Settled, Absent
    <3>2. Total(seqNum) < Total(seqNum')
      BY Zenon, <1>1, <2>2, <3>1
    <3> QED BY Zenon, <1>3, <3>2
  <2> QED BY Zenon, <2>1, <2>2
<1>5. ASSUME NEW o \in S, NEW p \in Procs, Reading(p)'
      PROVE  Agrees(held'[p], gone'[p], L[o]) \/ n < Reach(p)'
  <2>1. CASE Starts(p)
    BY Zenon, <1>4, <2>1 DEF Starts, Agrees
  <2>2. CASE GoesOn(p)
    <3>1. Agrees(held[p], gone[p], L[o]) \/ n < Reach(p)
      BY Zenon, <2>2 DEF Snapshot, GoesOn
    <3>2. n < Reach(p) => n < Reach(p)'
      <4>1. Reach(p) \in Nat /\ Reach(p)' \in Nat /\ Reach(p) =< Reach(p)'
        BY Zenon, <2>2 DEF GoesOn
      <4>2. \A a, b, d \in Nat : a < b /\ b =< d => a < d
        OBVIOUS
      <4> QED BY <4>1, <4>2, Zenon
    <3> QED BY Zenon, <2>2, <3>1, <3>2 DEF GoesOn, Agrees
  <2> QED BY Zenon, <1>5, <2>1, <2>2 DEF ReadersMove
<1>6. \A o \in S : (o \in av) <=> ~ Unavailable(L[o], c, o)
  BY Zenon DEF Snapshot
<1> QED BY Zenon, <1>3, <1>4, <1>5, <1>6 DEF Snapshot

Answers == [avail : SUBSET AllOfferings, number : 0 .. (2 * MaxMarks)]

ProcStates ==
    [pc : {"idle", "seq", "get", "compute", "store", "returned"}, class : Classes \cup {None},
     last : -1 .. (2 * MaxMarks), seq : 0 .. (2 * MaxMarks), read : 0 .. 3,
     todo : SUBSET AllOfferings, avail : SUBSET AllOfferings, number : -1 .. (2 * MaxMarks)]

LEMMA TypeParts ==
  OfferingsTypeOK =>
      /\ EntriesOK /\ Cache \in [Classes -> Answers \cup {None}] /\ lastSeqNum \in -1 .. (2 * MaxMarks)
      /\ proc \in [Procs -> ProcStates]
<1> SUFFICES ASSUME OfferingsTypeOK
             PROVE  /\ EntriesOK /\ Cache \in [Classes -> Answers \cup {None}] /\ lastSeqNum \in -1 .. (2 * MaxMarks)
                    /\ proc \in [Procs -> ProcStates]
  BY Zenon
<1>1. EntriesOK
  <2>1. \A v \in [Kinds3 -> 0 .. (2 * MaxMarks)] : v \in Counts
    BY MarksAssumption DEF Counts
  <2> QED BY Zenon, <2>1 DEF OfferingsTypeOK, EntriesOK, Kinds3
<1> QED BY Zenon, <1>1 DEF OfferingsTypeOK, ProcStates, Answers

LEMMA TypesAgain ==
  ASSUME EntriesOK', StepsBounded', Followed, proc' \in [Procs -> ProcStates],
         Cache' \in [Classes -> Answers \cup {None}], lastSeqNum' \in -1 .. (2 * MaxMarks)
  PROVE  OfferingsTypeOK'
<1>1. SumsBounded'
  BY CountersBounded, PTL
<1>2. held' \in [Procs -> SUBSET Signals] /\ gone' \in [Procs -> SUBSET Signals]
  BY Zenon DEF Followed
<1>3. proc' \in [Procs -> [pc: {"idle", "seq", "get", "compute", "store", "returned"},
                           class: Classes \cup {None}, last: -1..(2 * MaxMarks),
                           seq: 0..(2 * MaxMarks), read: 0..3, todo: SUBSET AllOfferings,
                           avail: SUBSET AllOfferings, number: -1..(2 * MaxMarks)]]
  BY Zenon DEF ProcStates
<1>4. Cache' \in [Classes -> [avail: SUBSET AllOfferings, number: 0..(2 * MaxMarks)] \cup {None}]
  BY Zenon DEF Answers
<1> QED BY Zenon, <1>1, <1>2, <1>3, <1>4 DEF OfferingsTypeOK, EntriesOK, SumsBounded, Kinds3

\* An answer stays as fresh as it was.
LEMMA FreshStays ==
  ASSUME NEW p, Fresh(p), proc'[p].class = proc[p].class, proc'[p].avail = proc[p].avail,
         held'[p] \subseteq held[p], gone'[p] \subseteq gone[p]
  PROVE  Fresh(p)'
<1> SUFFICES ASSUME NEW o \in AllOfferings
             PROVE  /\ Blocked(held'[p], proc'[p].class, o) => o \notin proc'[p].avail
                    /\ ~ Blocked(Signals \ gone'[p], proc'[p].class, o) => o \in proc'[p].avail
  BY Zenon DEF Fresh, Blocked
<1> DEFINE c == proc[p].class
<1>1. Blocked(held'[p], c, o) => Blocked(held[p], c, o)
  BY Zenon, BlockedGrows
<1>2. Blocked(Signals \ gone[p], c, o) => Blocked(Signals \ gone'[p], c, o)
  <2>1. Signals \ gone[p] \subseteq Signals \ gone'[p]
    BY Zenon
  <2> QED BY Zenon, <2>1, BlockedGrows
<1>3. /\ Blocked(held[p], c, o) => o \notin proc[p].avail
      /\ ~ Blocked(Signals \ gone[p], c, o) => o \in proc[p].avail
  BY Zenon DEF Fresh
<1> QED BY Zenon, <1>1, <1>2, <1>3

LEMMA CachedStays ==
  ASSUME EntriesOK, EntriesOK', Moves, ReadersMove, Cache \in [Classes -> Answers \cup {None}],
         NEW c \in Classes, CachedWell(c), Cache'[c] \in {Cache[c], None}
  PROVE  CachedWell(c)'
<1> SUFFICES ASSUME Cache'[c] # None
             PROVE  \E L \in Pasts : Snapshot(L, c, Cache[c].avail, Cache[c].number, AllOfferings)'
  BY Zenon DEF CachedWell
<1>1. Cache'[c] = Cache[c] /\ Cache[c] \in Answers
  BY Zenon
<1>2. PICK A, n : A = Cache[c].avail /\ n = Cache[c].number
  BY Zenon
<1>3. n \in Nat
  BY <1>1, <1>2, MarksAssumption DEF Answers
<1>4. PICK L \in Pasts : Snapshot(L, c, A, n, AllOfferings)
  BY Zenon, <1>1, <1>2 DEF CachedWell
<1>5. Snapshot(L, c, A, n, AllOfferings)'
  BY Zenon, <1>3, <1>4, SnapshotStays
<1>6. Snapshot(L, c, Cache[c].avail, Cache[c].number, AllOfferings)'
  BY Zenon, <1>1, <1>2, <1>5 DEF Snapshot
<1> QED BY Zenon, <1>6

LEMMA ComputedStays ==
  ASSUME EntriesOK, EntriesOK', Moves, ReadersMove, NEW p, proc[p] \in ProcStates, ComputedWell(p),
         proc'[p].class = proc[p].class, proc'[p].seq = proc[p].seq, proc'[p].todo = proc[p].todo,
         proc'[p].avail = proc[p].avail, held'[p] \subseteq held[p], gone'[p] \subseteq gone[p]
  PROVE  ComputedWell(p)'
<1>1. PICK c, A, n, S : c = proc[p].class /\ A = proc[p].avail /\ n = proc[p].seq /\ S = AllOfferings \ proc[p].todo
  BY Zenon
<1>2. n \in Nat
  BY <1>1, MarksAssumption DEF ProcStates
<1>3. PICK L \in Pasts : Snapshot(L, c, A, n, S) /\ \A o \in S : Agrees(held[p], gone[p], L[o])
  BY Zenon, <1>1 DEF ComputedWell
<1>4. Snapshot(L, c, A, n, S)'
  BY Zenon, <1>2, <1>3, SnapshotStays
<1>5. S = AllOfferings \ proc'[p].todo
  BY Zenon, <1>1
<1>6. Snapshot(L, proc[p].class, proc[p].avail, proc[p].seq, AllOfferings \ proc[p].todo)'
  BY Zenon, <1>1, <1>4, <1>5 DEF Snapshot
<1>7. \A o \in AllOfferings \ proc'[p].todo : Agrees(held'[p], gone'[p], L[o])
  BY Zenon, <1>3, <1>5 DEF Agrees
<1> QED BY Zenon, <1>6, <1>7 DEF ComputedWell, Agrees

\* A call that does not step goes on.
LEMMA OtherReads ==
  ASSUME EntriesOK, EntriesOK', Moves, Followed, NEW p \in Procs, proc[p] \in ProcStates, proc'[p] = proc[p], Reading(p)'
  PROVE  GoesOn(p) /\ Reach(p)' + Total(seqNum) =< Reach(p) + Total(seqNum')
<1>1. PICK i \in 0 .. 3, n \in Nat : i = proc[p].read /\ n = proc[p].seq
  BY MarksAssumption DEF ProcStates
<1>2. Reach(p) = n + Unread(i) /\ Reach(p)' = n + Unread(i)'
  BY Zenon, <1>1 DEF Reach, Unread
<1>3. /\ Unread(i) \in Nat /\ Unread(i)' \in Nat /\ Unread(i) =< Unread(i)'
      /\ Unread(i)' + Total(seqNum) =< Unread(i) + Total(seqNum')
      /\ Total(seqNum) \in Nat /\ Total(seqNum') \in Nat
  BY Zenon, SumsMove
<1>4. /\ Reach(p) \in Nat /\ Reach(p)' \in Nat /\ Reach(p) =< Reach(p)'
      /\ Reach(p)' + Total(seqNum) =< Reach(p) + Total(seqNum')
  <2>1. \A a, b, d, t, u \in Nat : b =< d /\ d + t =< b + u =>
           a + b \in Nat /\ a + d \in Nat /\ a + b =< a + d /\ (a + d) + t =< (a + b) + u
    OBVIOUS
  <2>2. PICK b \in Nat, d \in Nat, t \in Nat, u \in Nat :
           b = Unread(i) /\ d = Unread(i)' /\ t = Total(seqNum) /\ u = Total(seqNum')
    BY Zenon, <1>3
  <2>3. b =< d /\ d + t =< b + u /\ n \in Nat
    BY Zenon, <1>3, <2>2
  <2>4. n + b \in Nat /\ n + d \in Nat /\ n + b =< n + d /\ (n + d) + t =< (n + b) + u
    BY <2>1, <2>3, Zenon
  <2> QED BY Zenon, <1>2, <2>2, <2>4
<1>5. Reading(p)
  BY Zenon DEF Reading
<1>6. held'[p] \subseteq held[p] /\ gone'[p] \subseteq gone[p]
  <2>1. proc[p].pc # "idle"
    BY Zenon, <1>5 DEF Reading
  <2> QED BY Zenon, <2>1 DEF Followed
<1> QED BY Zenon, <1>4, <1>5, <1>6 DEF GoesOn

LEMMA OtherStays ==
  ASSUME EntriesOK, EntriesOK', Moves, Followed, ReadersMove, NEW p \in Procs, proc[p] \in ProcStates,
         proc'[p] = proc[p], CallWell(p)
  PROVE  CallWell(p)'
<1>1. /\ held'[p] \subseteq held[p] /\ gone'[p] \subseteq gone[p]
      /\ held'[p] \subseteq Settled' /\ gone'[p] \subseteq Absent'
  BY Zenon DEF Followed
<1>2. ASSUME Reading(p)' PROVE Reach(p)' =< Total(seqNum')
  <2>1. Reading(p) /\ Reach(p) \in Nat /\ Reach(p)' \in Nat /\ Reach(p)' + Total(seqNum) =< Reach(p) + Total(seqNum')
    BY Zenon, <1>2, OtherReads DEF GoesOn
  <2>2. Reach(p) =< Total(seqNum)
    BY Zenon, <2>1 DEF CallWell, InCall
  <2>3. Total(seqNum) \in Nat /\ Total(seqNum') \in Nat
    BY Zenon, SumsMove
  <2>4. \A a, b, t, u \in Nat : b + t =< a + u /\ a =< t => b =< u
    OBVIOUS
  <2> QED BY Zenon, <2>1, <2>2, <2>3, <2>4
<1>3. InCall(p)'
  BY Zenon, <1>1, <1>2 DEF CallWell, InCall, Reading
<1>4. proc'[p].pc \in {"compute", "store"} => ComputedWell(p)'
  BY Zenon, <1>1, ComputedStays DEF CallWell
<1>5. proc'[p].pc = "returned" /\ proc'[p].number = proc'[p].seq => Fresh(p)'
  BY Zenon, <1>1, FreshStays DEF CallWell
<1> QED BY Zenon, <1>3, <1>4, <1>5 DEF CallWell

\* All but the numbers of a sole caller.
CallsWell ==
    /\ OfferingsTypeOK /\ StepsBounded
    /\ \A p \in Procs : CallWell(p)
    /\ \A c \in Classes : CachedWell(c)

\* A step of the entries, of the TTL of a cached answer, or none: no call steps.
LEMMA BesideStep ==
  ASSUME CallsWell, EntriesOK', StepsBounded', Moves, Followed, proc' = proc, lastSeqNum' = lastSeqNum,
         Cache' \in [Classes -> Answers \cup {None}], \A c \in Classes : Cache'[c] \in {Cache[c], None}
  PROVE  CallsWell'
<1>1. /\ EntriesOK /\ Cache \in [Classes -> Answers \cup {None}] /\ lastSeqNum \in -1 .. (2 * MaxMarks)
      /\ proc \in [Procs -> ProcStates]
  BY Zenon, TypeParts DEF CallsWell
<1>2. \A p \in Procs : proc[p] \in ProcStates /\ proc'[p] = proc[p]
  BY Zenon, <1>1
<1>3. ReadersMove
  BY Zenon, <1>1, <1>2, OtherReads DEF ReadersMove
<1>4. OfferingsTypeOK'
  BY Zenon, <1>1, TypesAgain
<1>5. \A p \in Procs : CallWell(p)'
  BY Zenon, <1>1, <1>2, <1>3, OtherStays DEF CallsWell
<1>6. \A c \in Classes : CachedWell(c)'
  BY Zenon, <1>1, <1>3, CachedStays DEF CallsWell
<1> QED BY Zenon, <1>4, <1>5, <1>6 DEF CallsWell

\* The entries in a step of a call.
LEMMA CallFrame ==
  ASSUME EntriesOK, StepsBounded, entry' = entry, seqNum' = seqNum, marking' = marking, evicting' = evicting, marks' = marks
  PROVE  EntriesOK' /\ StepsBounded' /\ Moves /\ Settled' = Settled /\ Absent' = Absent /\ Live' = Live
<1>1. Settled' = Settled /\ Absent' = Absent /\ Live' = Live /\ Present' = Present
  BY Zenon DEF Settled, Absent, Live, Present
<1>2. EntriesOK' /\ StepsBounded'
  BY Zenon, <1>1 DEF EntriesOK, StepsBounded
<1>3. Moves
  BY <1>1 DEF Moves, EntriesOK, Counts
<1> QED BY Zenon, <1>1, <1>2, <1>3

LEMMA Before ==
  ASSUME CallsWell, NEW q \in Procs
  PROVE  /\ EntriesOK /\ StepsBounded /\ SumsBounded /\ InCall(q) /\ CallWell(q)
         /\ Cache \in [Classes -> Answers \cup {None}] /\ lastSeqNum \in -1 .. (2 * MaxMarks)
         /\ proc \in [Procs -> ProcStates] /\ proc[q] \in ProcStates
         /\ proc[q].seq \in Nat /\ proc[q].read \in 0 .. 3
<1>1. /\ EntriesOK /\ Cache \in [Classes -> Answers \cup {None}] /\ lastSeqNum \in -1 .. (2 * MaxMarks)
      /\ proc \in [Procs -> ProcStates]
  BY Zenon, TypeParts DEF CallsWell
<1>2. SumsBounded
  BY Zenon, <1>1, CountersBounded DEF CallsWell
<1>3. proc[q] \in ProcStates
  BY Zenon, <1>1
<1>4. proc[q].seq \in Nat /\ proc[q].read \in 0 .. 3
  BY <1>3, MarksAssumption DEF ProcStates
<1>5. CallWell(q) /\ InCall(q)
  BY Zenon DEF CallsWell, CallWell
<1> QED BY Zenon, <1>1, <1>2, <1>3, <1>4, <1>5 DEF CallsWell

\* The state of the entries and of the other calls in a step of the call of q.
InStep(q, r) ==
    /\ r \in ProcStates /\ proc' = [proc EXCEPT ![q] = r]
    /\ entry' = entry /\ seqNum' = seqNum /\ marking' = marking /\ evicting' = evicting /\ marks' = marks
    /\ Track

LEMMA StepFacts ==
  ASSUME CallsWell, NEW q \in Procs, NEW r, InStep(q, r)
  PROVE  /\ EntriesOK' /\ StepsBounded' /\ Moves /\ Followed
         /\ Settled' = Settled /\ Absent' = Absent /\ Live' = Live /\ seqNum' = seqNum
         /\ proc'[q] = r /\ proc' \in [Procs -> ProcStates] /\ \A p \in Procs : p # q => proc'[p] = proc[p]
         /\ held'[q] \subseteq Settled' /\ gone'[q] \subseteq Absent'
         /\ proc[q].pc # "idle" => held'[q] \subseteq held[q] /\ gone'[q] \subseteq gone[q]
<1>1. EntriesOK /\ StepsBounded /\ proc \in [Procs -> ProcStates]
  BY Zenon, Before
<1>2. EntriesOK' /\ StepsBounded' /\ Moves /\ Settled' = Settled /\ Absent' = Absent /\ Live' = Live
  BY Zenon, <1>1, CallFrame DEF InStep
<1>3. Followed
  BY Zenon, Tracked DEF InStep
<1>4. proc'[q] = r /\ proc' \in [Procs -> ProcStates] /\ \A p \in Procs : p # q => proc'[p] = proc[p]
  BY Zenon, <1>1 DEF InStep
<1> QED BY Zenon, <1>2, <1>3, <1>4 DEF InStep, Followed

LEMMA StepReads ==
  ASSUME CallsWell, NEW q \in Procs, NEW r, InStep(q, r), Reading(q)' => Starts(q) \/ GoesOn(q)
  PROVE  ReadersMove
<1>1. EntriesOK /\ proc \in [Procs -> ProcStates]
  BY Zenon, Before
<1>2. EntriesOK' /\ Moves /\ Followed /\ \A p \in Procs : p # q => proc'[p] = proc[p]
  BY Zenon, StepFacts
<1>3. ASSUME NEW p \in Procs, p # q, Reading(p)' PROVE GoesOn(p)
  <2>1. proc'[p] = proc[p] /\ proc[p] \in ProcStates
    BY Zenon, <1>1, <1>2, <1>3
  <2> QED BY Zenon, <1>1, <1>2, <1>3, <2>1, OtherReads
<1> QED BY Zenon, <1>3 DEF ReadersMove

LEMMA StepKeeps ==
  ASSUME CallsWell, NEW q \in Procs, NEW r, InStep(q, r), ReadersMove, CallWell(q)',
         lastSeqNum' \in -1 .. (2 * MaxMarks), Cache' \in [Classes -> Answers \cup {None}],
         \A c \in Classes : Cache'[c] = Cache[c] \/ CachedWell(c)'
  PROVE  CallsWell'
<1>1. EntriesOK /\ proc \in [Procs -> ProcStates] /\ Cache \in [Classes -> Answers \cup {None}]
  BY Zenon, Before
<1>2. /\ EntriesOK' /\ StepsBounded' /\ Moves /\ Followed /\ proc' \in [Procs -> ProcStates]
      /\ \A p \in Procs : p # q => proc'[p] = proc[p]
  BY Zenon, StepFacts
<1>3. OfferingsTypeOK'
  BY Zenon, <1>2, TypesAgain
<1>4. ASSUME NEW p \in Procs PROVE CallWell(p)'
  <2>1. CASE p = q
    BY Zenon, <2>1
  <2>2. CASE p # q
    <3>1. proc'[p] = proc[p] /\ proc[p] \in ProcStates /\ CallWell(p)
      BY Zenon, <1>1, <1>2, <2>2 DEF CallsWell
    <3> QED BY Zenon, <1>1, <1>2, <3>1, OtherStays
  <2> QED BY Zenon, <2>1, <2>2
<1>5. ASSUME NEW c \in Classes PROVE CachedWell(c)'
  <2>1. CASE Cache'[c] = Cache[c]
    <3>1. Cache'[c] \in {Cache[c], None} /\ CachedWell(c)
      BY Zenon, <2>1 DEF CallsWell
    <3> QED BY Zenon, <1>1, <1>2, <3>1, CachedStays
  <2> QED BY Zenon, <2>1
<1> QED BY Zenon, <1>2, <1>3, <1>4, <1>5 DEF CallsWell

-----------------------------------------------------------------------------
(* The steps of a call *)

LEMMA ResolveStarts ==
  ASSUME CallsWell, NEW q \in Procs, NEW c \in Classes, Resolve(q, c)
  PROVE  CallsWell'
<1>1. /\ EntriesOK /\ Cache \in [Classes -> Answers \cup {None}] /\ lastSeqNum \in -1 .. (2 * MaxMarks)
      /\ proc[q] \in ProcStates
  BY Zenon, Before
<1>2. PICK r : r = [IdleResolver EXCEPT !.pc = "seq", !.class = c, !.last = lastSeqNum]
  BY Zenon
<1>3. IdleResolver \in ProcStates /\ IdleResolver.seq = 0 /\ IdleResolver.read = 0 /\ IdleResolver.avail = {}
  BY MarksAssumption DEF ProcStates, IdleResolver
<1>4. /\ r \in ProcStates /\ r.pc = "seq" /\ r.class = c /\ r.seq = 0 /\ r.read = 0 /\ r.avail = {}
  <2>1. r \in ProcStates
    BY ZenonT(30), <1>1, <1>2, <1>3 DEF ProcStates
  <2>2. r.pc = "seq" /\ r.class = c /\ r.seq = 0 /\ r.read = 0 /\ r.avail = {}
    BY Zenon, <1>2, <1>3 DEF ProcStates
  <2> QED BY Zenon, <2>1, <2>2
<1>5. InStep(q, r) /\ Cache' = Cache /\ lastSeqNum' = lastSeqNum
  BY Zenon, <1>2, <1>4 DEF Resolve, InStep
<1>6. EntriesOK' /\ proc'[q] = r /\ held'[q] \subseteq Settled' /\ gone'[q] \subseteq Absent'
  BY Zenon, <1>5, StepFacts
<1>7. Reach(q)' = Total(seqNum') /\ Total(seqNum') \in Nat
  <2>1. (EntriesOK => Total(seqNum) \in Nat /\ Unread(0) = Total(seqNum))'
    BY UnreadFacts, PTL
  <2>2. Reach(q)' = 0 + Unread(0)'
    BY Zenon, <1>4, <1>6 DEF Reach, Unread
  <2> QED BY <1>6, <2>1, <2>2
<1>8. ReadersMove
  BY Zenon, <1>5, <1>6, <1>7, StepReads DEF Starts
<1>9. CallWell(q)'
  <2>1. Reach(q)' =< Total(seqNum')
    BY <1>7
  <2>2. InCall(q)'
    <3>1. 0 \in 0 .. 2
      OBVIOUS
    <3> QED BY Zenon, <1>4, <1>6, <2>1, <3>1 DEF InCall, Reading
  <2> QED BY Zenon, <1>4, <1>6, <2>2 DEF CallWell
<1> QED BY Zenon, <1>1, <1>5, <1>8, <1>9, StepKeeps

LEMMA ReturnEnds ==
  ASSUME CallsWell, NEW q \in Procs, Return(q)
  PROVE  CallsWell'
<1>1. Cache \in [Classes -> Answers \cup {None}] /\ lastSeqNum \in -1 .. (2 * MaxMarks)
  BY Zenon, Before
<1>2. IdleResolver \in ProcStates /\ IdleResolver.pc = "idle"
  BY MarksAssumption DEF ProcStates, IdleResolver
<1>3. PICK r : r = IdleResolver
  BY Zenon
<1>4. InStep(q, r) /\ Cache' = Cache /\ lastSeqNum' = lastSeqNum
  BY Zenon, <1>2, <1>3 DEF Return, InStep
<1>5. proc'[q] = r /\ held'[q] \subseteq Settled' /\ gone'[q] \subseteq Absent'
  BY Zenon, <1>4, StepFacts
<1>6. ReadersMove
  BY Zenon, <1>2, <1>3, <1>4, <1>5, StepReads DEF Reading
<1>7. CallWell(q)'
  BY Zenon, <1>2, <1>3, <1>5 DEF CallWell, InCall, Reading
<1> QED BY Zenon, <1>1, <1>4, <1>6, <1>7, StepKeeps

\* One more counter is read: what the sum will be at least does not change.
LEMMA SeqNumReads ==
  ASSUME CallsWell, NEW q \in Procs, SeqNum(q)
  PROVE  CallsWell'
<1>1. /\ EntriesOK /\ SumsBounded /\ InCall(q) /\ Cache \in [Classes -> Answers \cup {None}]
      /\ lastSeqNum \in -1 .. (2 * MaxMarks) /\ proc \in [Procs -> ProcStates] /\ proc[q] \in ProcStates
      /\ proc[q].seq \in Nat
  BY Zenon, Before
<1>2. proc[q].pc = "seq" /\ Reading(q)
  BY Zenon DEF SeqNum, Reading
<1>3. PICK i \in 0 .. 2, n \in Nat : i = proc[q].read /\ n = proc[q].seq
  BY Zenon, <1>1, <1>2 DEF InCall
<1>4. PICK v \in Nat : v = seqNum[Counters[i + 1]]
  BY Zenon, <1>1, UnreadFacts
<1>5. /\ Unread(i) = v + Unread(i + 1) /\ Unread(i + 1) \in Nat /\ i + 1 \in 0 .. 3 /\ Unread(i) \in Nat
      /\ Total(seqNum) \in Nat
  <2>1. i + 1 \in 0 .. 3 /\ i \in 0 .. 3
    OBVIOUS
  <2> QED BY Zenon, <1>1, <1>4, <2>1, UnreadFacts
<1>6. Reach(q) = n + Unread(i) /\ Reach(q) =< Total(seqNum)
  BY Zenon, <1>1, <1>2, <1>3 DEF Reach, InCall
<1>7. n + v \in 0 .. (2 * MaxMarks) /\ n + Unread(i) = (n + v) + Unread(i + 1) /\ n + Unread(i) \in Nat
  <2>1. Total(seqNum) =< 2 * MaxMarks
    BY Zenon, <1>1 DEF SumsBounded
  <2> QED BY <1>5, <1>6, <2>1, MarksAssumption
<1>8. PICK s : s = IF i + 1 = 3 THEN "get" ELSE "seq"
  BY Zenon
<1>9. PICK r : r = [proc[q] EXCEPT !.seq = n + v, !.read = i + 1, !.pc = s]
  BY Zenon
<1>10. /\ r \in ProcStates /\ r.pc = s /\ r.class = proc[q].class /\ r.seq = n + v /\ r.read = i + 1
       /\ r.avail = proc[q].avail
  <2>1. s \in {"idle", "seq", "get", "compute", "store", "returned"}
    BY Zenon, <1>8
  <2> QED BY ZenonT(30), <1>1, <1>5, <1>7, <1>9, <2>1 DEF ProcStates
<1>11. proc' = [proc EXCEPT ![q] = r]
  <2>1. Len(Counters) = 3
    BY DEF Counters
  <2>2. proc' = [proc EXCEPT ![q].seq = n + v, ![q].read = i + 1, ![q].pc = s]
    BY ZenonT(30), <1>3, <1>4, <1>8, <2>1 DEF SeqNum
  <2> QED BY ZenonT(30), <1>1, <1>9, <2>2 DEF ProcStates
<1>12. InStep(q, r) /\ Cache' = Cache /\ lastSeqNum' = lastSeqNum
  BY Zenon, <1>10, <1>11 DEF SeqNum, InStep
<1>13. /\ proc'[q] = r /\ held'[q] \subseteq Settled' /\ gone'[q] \subseteq Absent' /\ seqNum' = seqNum
       /\ held'[q] \subseteq held[q] /\ gone'[q] \subseteq gone[q]
  BY Zenon, <1>2, <1>12, StepFacts
<1>14. Reach(q)' = Reach(q) /\ Reach(q) \in Nat
  <2>1. Reach(q)' = (n + v) + Unread(i + 1)
    BY Zenon, <1>10, <1>13 DEF Reach, Unread
  <2> QED BY Zenon, <1>6, <1>7, <2>1
<1>15. ReadersMove
  <2>1. Reach(q) =< Reach(q)'
    BY <1>14
  <2>2. GoesOn(q)
    BY Zenon, <1>2, <1>13, <1>14, <2>1 DEF GoesOn
  <2> QED BY Zenon, <1>12, <2>2, StepReads
<1>16. CallWell(q)'
  <2>1. (s = "seq" => i + 1 \in 0 .. 2) /\ (s = "get" => i + 1 = 3) /\ s \in {"seq", "get"}
    BY <1>8
  <2>2. r.avail = {} /\ r.class \in Classes /\ Reach(q)' =< Total(seqNum')
    BY Zenon, <1>1, <1>2, <1>6, <1>10, <1>13, <1>14 DEF InCall
  <2>3. InCall(q)'
    BY ZenonT(30), <1>10, <1>13, <2>1, <2>2 DEF InCall, Reading
  <2> QED BY Zenon, <1>10, <1>13, <2>1, <2>3 DEF CallWell
<1> QED BY Zenon, <1>1, <1>12, <1>15, <1>16, StepKeeps

\* An answer computed from entries that agree with what held throughout is fresh.
LEMMA AnswerIsFresh ==
  ASSUME NEW q, NEW c, NEW A, NEW L \in Pasts,
         \A o \in AllOfferings : (o \in A) <=> ~ Unavailable(L[o], c, o),
         \A o \in AllOfferings : Agrees(held[q], gone[q], L[o]),
         held'[q] \subseteq held[q], gone'[q] \subseteq gone[q], proc'[q].class = c, proc'[q].avail = A
  PROVE  Fresh(q)'
<1>1. ASSUME NEW o \in AllOfferings
      PROVE  /\ Blocked(held'[q], c, o) => o \notin A
             /\ ~ Blocked(Signals \ gone'[q], c, o) => o \in A
  <2>1. PICK H, G, M : H = held'[q] /\ G = gone'[q] /\ M = L[o]
    BY Zenon
  <2>2. (o \in A) <=> ~ Unavailable(M, c, o)
    BY Zenon, <2>1
  <2>3. H \subseteq M /\ G \cap M = {} /\ M \in SUBSET Signals
    BY Zenon, <2>1 DEF Agrees, Pasts
  <2>4. (Blocked(H, c, o) => o \notin A) /\ (~ Blocked(Signals \ G, c, o) => o \in A)
    BY ZenonT(30), <2>2, <2>3, ComputedIsFresh
  <2> QED BY Zenon, <2>1, <2>4
<1> QED BY Zenon, <1>1 DEF Fresh

\* A cached answer is fresh for a call that has read its number.
LEMMA ReusedIsFresh ==
  ASSUME CallsWell, NEW q \in Procs, proc[q].pc = "get", Cache[proc[q].class] # None,
         Cache[proc[q].class].number = proc[q].seq, held'[q] \subseteq held[q], gone'[q] \subseteq gone[q],
         proc'[q].class = proc[q].class, proc'[q].avail = Cache[proc[q].class].avail
  PROVE  Fresh(q)'
<1>1. EntriesOK /\ InCall(q) /\ proc[q].seq \in Nat
  BY Zenon, Before
<1>2. PICK c, A, n : c \in Classes /\ n \in Nat /\ c = proc[q].class /\ A = Cache[c].avail /\ n = proc[q].seq
  BY Zenon, <1>1 DEF InCall
<1>3. PICK L \in Pasts : Snapshot(L, c, A, n, AllOfferings)
  BY Zenon, <1>2 DEF CallsWell, CachedWell
<1>4. Reading(q) /\ ~ (n < Reach(q))
  <2>1. Reach(q) = n + Unread(3) /\ Unread(3) = 0
    BY Zenon, <1>1, <1>2, UnreadFacts DEF InCall, Reach
  <2>2. ~ (n < Reach(q))
    BY <1>2, <2>1
  <2> QED BY Zenon, <2>2 DEF Reading
<1>5. \A o \in AllOfferings : Agrees(held[q], gone[q], L[o])
  BY Zenon, <1>3, <1>4 DEF Snapshot
<1>6. \A o \in AllOfferings : (o \in A) <=> ~ Unavailable(L[o], c, o)
  BY Zenon, <1>3 DEF Snapshot
<1> QED BY ZenonT(30), <1>2, <1>5, <1>6, AnswerIsFresh

LEMMA CacheGetReads ==
  ASSUME CallsWell, NEW q \in Procs, CacheGet(q)
  PROVE  CallsWell'
<1>1. /\ EntriesOK /\ SumsBounded /\ InCall(q) /\ Cache \in [Classes -> Answers \cup {None}]
      /\ lastSeqNum \in -1 .. (2 * MaxMarks) /\ proc[q] \in ProcStates /\ proc[q].seq \in Nat
  BY Zenon, Before
<1>2. proc[q].pc = "get" /\ Cache' = Cache /\ lastSeqNum' = lastSeqNum
  BY Zenon DEF CacheGet
<1>3. PICK c \in Classes : c = proc[q].class
  BY Zenon, <1>1, <1>2 DEF InCall
<1>4. CASE CanReuse(q)
  <2>1. Cache[c] # None /\ Cache[c] \in Answers
    BY Zenon, <1>1, <1>3, <1>4 DEF CanReuse
  <2>2. Cache[c].avail \in SUBSET AllOfferings /\ Cache[c].number \in -1 .. (2 * MaxMarks)
    BY <2>1, MarksAssumption DEF Answers
  <2>3. PICK r : r = [proc[q] EXCEPT !.pc = "returned", !.avail = Cache[c].avail, !.number = Cache[c].number]
    BY Zenon
  <2>4. /\ r \in ProcStates /\ r.pc = "returned" /\ r.class = c /\ r.seq = proc[q].seq
        /\ r.avail = Cache[c].avail /\ r.number = Cache[c].number
    BY ZenonT(30), <1>1, <1>3, <2>2, <2>3 DEF ProcStates
  <2>5. InStep(q, r)
    BY Zenon, <1>3, <1>4, <2>3, <2>4 DEF CacheGet, InStep
  <2>6. /\ proc'[q] = r /\ held'[q] \subseteq Settled' /\ gone'[q] \subseteq Absent'
        /\ held'[q] \subseteq held[q] /\ gone'[q] \subseteq gone[q]
    BY Zenon, <1>2, <2>5, StepFacts
  <2>7. ReadersMove
    BY Zenon, <2>4, <2>5, <2>6, StepReads DEF Reading
  <2>8. InCall(q)'
    BY Zenon, <2>4, <2>6 DEF InCall, Reading
  <2>9. proc'[q].number = proc'[q].seq => Fresh(q)'
    BY ZenonT(30), <1>2, <1>3, <2>1, <2>4, <2>6, ReusedIsFresh
  <2>10. CallWell(q)'
    BY Zenon, <2>4, <2>6, <2>8, <2>9 DEF CallWell
  <2> QED BY Zenon, <1>1, <1>2, <2>5, <2>7, <2>10, StepKeeps
<1>5. CASE ~ CanReuse(q)
  <2>1. PICK r : r = [proc[q] EXCEPT !.pc = "compute", !.todo = AllOfferings, !.number = proc[q].seq]
    BY Zenon
  <2>2. proc[q].seq \in -1 .. (2 * MaxMarks)
    BY <1>1, MarksAssumption DEF ProcStates
  <2>3. /\ r \in ProcStates /\ r.pc = "compute" /\ r.class = c /\ r.seq = proc[q].seq
        /\ r.avail = {} /\ r.todo = AllOfferings
    <3>1. proc[q].avail = {}
      BY Zenon, <1>1, <1>2 DEF InCall, Reading
    <3> QED BY ZenonT(30), <1>1, <1>3, <2>1, <2>2, <3>1 DEF ProcStates
  <2>4. InStep(q, r)
    BY Zenon, <1>5, <2>1, <2>3 DEF CacheGet, InStep
  <2>5. proc'[q] = r /\ held'[q] \subseteq Settled' /\ gone'[q] \subseteq Absent' /\ seqNum' = seqNum
    BY Zenon, <2>4, StepFacts
  <2>6. ReadersMove
    BY Zenon, <2>3, <2>4, <2>5, StepReads DEF Reading
  <2>7. InCall(q)'
    BY Zenon, <2>3, <2>5 DEF InCall, Reading
  <2>8. ComputedWell(q)'
    <3>1. proc[q].seq =< Total(seqNum)
      <4>1. Reach(q) = proc[q].seq + Unread(3) /\ Unread(3) = 0 /\ Reach(q) =< Total(seqNum)
        BY Zenon, <1>1, <1>2, UnreadFacts DEF InCall, Reach, Reading
      <4> QED BY <1>1, <4>1
    <3>2. [o \in AllOfferings |-> {}] \in Pasts
      BY Zenon DEF Pasts
    <3>3. AllOfferings \ proc'[q].todo = {}
      BY Zenon, <2>3, <2>5
    <3>4. proc'[q].seq =< Total(seqNum')
      BY Zenon, <2>3, <2>5, <3>1
    <3> QED BY ZenonT(30), <3>2, <3>3, <3>4 DEF ComputedWell, Snapshot
  <2>9. CallWell(q)'
    BY Zenon, <2>3, <2>5, <2>7, <2>8 DEF CallWell
  <2> QED BY Zenon, <1>1, <1>2, <2>4, <2>6, <2>9, StepKeeps
<1> QED BY Zenon, <1>4, <1>5

\* One offering is computed from the entries in force now.
LEMMA ComputedOne ==
  ASSUME CallsWell, NEW q \in Procs, proc[q].pc = "compute", NEW r, InStep(q, r), ReadersMove,
         NEW o \in proc[q].todo, r.class = proc[q].class, r.seq = proc[q].seq, r.todo = proc[q].todo \ {o},
         r.avail = IF Unavailable(Live, proc[q].class, o) THEN proc[q].avail ELSE proc[q].avail \cup {o}
  PROVE  ComputedWell(q)'
<1>1. EntriesOK /\ InCall(q) /\ CallWell(q) /\ proc[q] \in ProcStates /\ proc[q].seq \in Nat
  BY Zenon, Before
<1>2. /\ EntriesOK' /\ Moves /\ Settled' = Settled /\ Absent' = Absent /\ seqNum' = seqNum /\ proc'[q] = r
      /\ held'[q] \subseteq held[q] /\ gone'[q] \subseteq gone[q] /\ Followed
  BY Zenon, StepFacts
<1>3. PICK c, A, n, S :
         /\ n \in Nat
         /\ c = proc[q].class /\ A = proc[q].avail /\ n = proc[q].seq /\ S = AllOfferings \ proc[q].todo
  BY Zenon, <1>1
<1>4. PICK L \in Pasts : Snapshot(L, c, A, n, S) /\ \A u \in S : Agrees(held[q], gone[q], L[u])
  BY Zenon, <1>1, <1>3 DEF CallWell, ComputedWell
<1>5. Snapshot(L, c, A, n, S)'
  BY Zenon, <1>1, <1>2, <1>3, <1>4, SnapshotStays
<1>6. PICK M \in SUBSET Signals : M = Live
  BY Zenon DEF Live
<1>7. PICK N : N = [L EXCEPT ![o] = M]
  BY Zenon
<1>8. o \in AllOfferings /\ proc[q].todo \subseteq AllOfferings
  BY Zenon, <1>1 DEF ProcStates
<1>9. N \in Pasts /\ N[o] = M /\ \A u \in AllOfferings : u # o => N[u] = L[u]
  BY Zenon, <1>7, <1>8 DEF Pasts
<1>10. AllOfferings \ r.todo = S \cup {o} /\ o \notin S /\ S \subseteq AllOfferings
  BY Zenon, <1>3, <1>8
<1>11. Agrees(Settled, Absent, M)
  BY Zenon, <1>6 DEF Settled, Absent, Live, Agrees
<1>12. \A p \in Procs : Agrees(held'[p], gone'[p], M)
  BY Zenon, <1>2, <1>11 DEF Followed, Agrees
<1>13. PICK B : B = r.avail
  BY Zenon
<1>14. PICK T : T = S \cup {o}
  BY Zenon
<1>15. Snapshot(N, c, B, n, T)'
  <2>1. n =< Total(seqNum')
    BY Zenon, <1>5 DEF Snapshot
  <2>2. ASSUME NEW u \in T PROVE (u \in B) <=> ~ Unavailable(N[u], c, u)
    <3>1. CASE u = o
      <4>1. o \notin proc[q].avail
        BY Zenon, <1>1 DEF InCall
      <4>2. (o \in B) <=> ~ Unavailable(Live, c, o)
        BY Zenon, <1>3, <1>13, <4>1
      <4> QED BY Zenon, <1>6, <1>9, <3>1, <4>2
    <3>2. CASE u # o
      <4>1. u \in S /\ N[u] = L[u]
        BY Zenon, <1>9, <1>10, <1>14, <3>2
      <4>2. (u \in B) <=> (u \in A)
        BY Zenon, <1>3, <1>13, <3>2
      <4>3. (u \in A) <=> ~ Unavailable(L[u], c, u)
        BY Zenon, <1>4, <4>1 DEF Snapshot
      <4> QED BY Zenon, <4>1, <4>2, <4>3
    <3> QED BY Zenon, <3>1, <3>2
  <2>3. ASSUME NEW u \in T
        PROVE  /\ Agrees(Settled', Absent', N[u]) \/ n < Total(seqNum')
               /\ \A p \in Procs : Reading(p)' => Agrees(held'[p], gone'[p], N[u]) \/ n < Reach(p)'
    <3>1. CASE u = o
      BY Zenon, <1>2, <1>9, <1>11, <1>12, <3>1
    <3>2. CASE u # o
      <4>1. u \in S /\ N[u] = L[u]
        BY Zenon, <1>9, <1>10, <1>14, <3>2
      <4> QED BY Zenon, <1>5, <4>1 DEF Snapshot, Agrees
    <3> QED BY Zenon, <3>1, <3>2
  <2> QED BY Zenon, <2>1, <2>2, <2>3 DEF Snapshot, Agrees
<1>16. \A u \in T : Agrees(held'[q], gone'[q], N[u])
  <2> SUFFICES ASSUME NEW u \in T PROVE Agrees(held'[q], gone'[q], N[u])
    BY Zenon
  <2>1. CASE u = o
    BY Zenon, <1>9, <1>12, <2>1
  <2>2. CASE u # o
    <3>1. u \in S /\ N[u] = L[u]
      BY Zenon, <1>9, <1>10, <1>14, <2>2
    <3> QED BY Zenon, <1>2, <1>4, <3>1 DEF Agrees
  <2> QED BY Zenon, <2>1, <2>2
<1>17. /\ T = AllOfferings \ proc'[q].todo /\ c = proc'[q].class /\ B = proc'[q].avail /\ n = proc'[q].seq
  BY Zenon, <1>2, <1>3, <1>10, <1>13, <1>14
<1>18. Snapshot(N, proc[q].class, proc[q].avail, proc[q].seq, AllOfferings \ proc[q].todo)'
  BY Zenon, <1>15, <1>17 DEF Snapshot
<1> QED BY Zenon, <1>9, <1>16, <1>17, <1>18 DEF ComputedWell, Agrees

LEMMA ComputeStep ==
  ASSUME CallsWell, NEW q \in Procs, NEW o, Compute(q, o)
  PROVE  CallsWell'
<1>1. /\ InCall(q) /\ Cache \in [Classes -> Answers \cup {None}]
      /\ lastSeqNum \in -1 .. (2 * MaxMarks) /\ proc \in [Procs -> ProcStates] /\ proc[q] \in ProcStates
  BY Zenon, Before
<1>2. proc[q].pc = "compute" /\ o \in proc[q].todo /\ Cache' = Cache /\ lastSeqNum' = lastSeqNum
  BY Zenon DEF Compute
<1>3. PICK c \in Classes : c = proc[q].class
  BY Zenon, <1>1, <1>2 DEF InCall
<1>4. PICK A : A = IF Unavailable(Live, c, o) THEN proc[q].avail ELSE proc[q].avail \cup {o}
  BY Zenon
<1>5. PICK r : r = [proc[q] EXCEPT !.todo = proc[q].todo \ {o}, !.avail = A]
  BY Zenon
<1>6. proc[q].avail \cap proc[q].todo = {} /\ A \in SUBSET AllOfferings /\ A \cap (proc[q].todo \ {o}) = {}
  <2>1. proc[q].avail \cap proc[q].todo = {}
    BY Zenon, <1>1, <1>2 DEF InCall
  <2> QED BY <1>1, <1>2, <1>4, <2>1 DEF ProcStates
<1>7. /\ r \in ProcStates /\ r.pc = "compute" /\ r.class = c /\ r.avail = A /\ r.todo = proc[q].todo \ {o}
      /\ r.seq = proc[q].seq
  BY ZenonT(30), <1>1, <1>2, <1>3, <1>5, <1>6 DEF ProcStates
<1>8. proc' = [proc EXCEPT ![q] = r]
  BY ZenonT(30), <1>1, <1>3, <1>4, <1>5 DEF Compute, ProcStates
<1>9. InStep(q, r)
  BY Zenon, <1>7, <1>8 DEF Compute, InStep
<1>10. proc'[q] = r /\ held'[q] \subseteq Settled' /\ gone'[q] \subseteq Absent'
  BY Zenon, <1>9, StepFacts
<1>11. ReadersMove
  BY Zenon, <1>7, <1>9, <1>10, StepReads DEF Reading
<1>12. InCall(q)'
  BY Zenon, <1>6, <1>7, <1>10 DEF InCall, Reading
<1>13. ComputedWell(q)'
  BY ZenonT(30), <1>2, <1>3, <1>4, <1>7, <1>9, <1>11, ComputedOne
<1>14. CallWell(q)'
  BY Zenon, <1>7, <1>10, <1>12, <1>13 DEF CallWell
<1> QED BY Zenon, <1>1, <1>2, <1>9, <1>11, <1>14, StepKeeps

LEMMA CacheSetStep ==
  ASSUME CallsWell, NEW q \in Procs, CacheSet(q)
  PROVE  CallsWell'
<1>1. /\ EntriesOK /\ InCall(q) /\ CallWell(q) /\ Cache \in [Classes -> Answers \cup {None}]
      /\ lastSeqNum \in -1 .. (2 * MaxMarks) /\ proc \in [Procs -> ProcStates] /\ proc[q] \in ProcStates
      /\ proc[q].seq \in Nat
  BY Zenon, Before
<1>2. proc[q].pc = "compute" /\ proc[q].todo = {} /\ lastSeqNum' = lastSeqNum
  BY Zenon DEF CacheSet
<1>3. PICK c, A, n : /\ c \in Classes /\ n \in Nat
                     /\ c = proc[q].class /\ A = proc[q].avail /\ n = proc[q].seq
  BY Zenon, <1>1, <1>2 DEF InCall
<1>4. PICK r : r = [proc[q] EXCEPT !.pc = "store"]
  BY Zenon
<1>5. /\ r \in ProcStates /\ r.pc = "store" /\ r.class = c /\ r.avail = A /\ r.todo = {} /\ r.seq = n
  BY ZenonT(30), <1>1, <1>2, <1>3, <1>4 DEF ProcStates
<1>6. proc' = [proc EXCEPT ![q] = r]
  BY Zenon, <1>1, <1>4 DEF CacheSet, ProcStates
<1>7. InStep(q, r)
  BY Zenon, <1>5, <1>6 DEF CacheSet, InStep
<1>8. /\ EntriesOK' /\ Moves /\ proc'[q] = r /\ held'[q] \subseteq Settled' /\ gone'[q] \subseteq Absent'
      /\ held'[q] \subseteq held[q] /\ gone'[q] \subseteq gone[q]
  BY Zenon, <1>2, <1>7, StepFacts
<1>9. ReadersMove
  BY Zenon, <1>5, <1>7, <1>8, StepReads DEF Reading
<1>10. PICK a : a = [avail |-> A, number |-> n]
  BY Zenon
<1>11. a \in Answers /\ a.avail = A /\ a.number = n
  <2>1. A \in SUBSET AllOfferings /\ n \in 0 .. (2 * MaxMarks)
    BY Zenon, <1>1, <1>3 DEF ProcStates
  <2> QED BY Zenon, <1>10, <2>1 DEF Answers
<1>12. Cache' = [Cache EXCEPT ![c] = a]
  BY Zenon, <1>3, <1>10 DEF CacheSet
<1>13. /\ Cache' \in [Classes -> Answers \cup {None}] /\ Cache'[c] = a
       /\ \A d \in Classes : d # c => Cache'[d] = Cache[d]
  BY Zenon, <1>1, <1>3, <1>11, <1>12
<1>14. CachedWell(c)'
  <2>1. AllOfferings \ proc[q].todo = AllOfferings
    BY Zenon, <1>2
  <2>2. PICK L \in Pasts : Snapshot(L, c, A, n, AllOfferings)
    BY Zenon, <1>1, <1>2, <1>3, <2>1 DEF CallWell, ComputedWell
  <2>3. Snapshot(L, c, A, n, AllOfferings)'
    BY Zenon, <1>1, <1>3, <1>8, <1>9, <2>2, SnapshotStays
  <2>4. Snapshot(L, c, Cache[c].avail, Cache[c].number, AllOfferings)'
    BY Zenon, <1>11, <1>13, <2>3 DEF Snapshot
  <2> QED BY Zenon, <2>4 DEF CachedWell
<1>15. CallWell(q)'
  <2>1. InCall(q)'
    BY Zenon, <1>3, <1>5, <1>8 DEF InCall, Reading
  <2>2. ComputedWell(q)'
    <3>1. ComputedWell(q)
      BY Zenon, <1>1, <1>2 DEF CallWell
    <3>2. /\ proc'[q].class = proc[q].class /\ proc'[q].seq = proc[q].seq /\ proc'[q].todo = proc[q].todo
          /\ proc'[q].avail = proc[q].avail
      BY Zenon, <1>2, <1>3, <1>5, <1>8
    <3> QED BY ZenonT(30), <1>1, <1>8, <1>9, <3>1, <3>2, ComputedStays
  <2> QED BY Zenon, <1>5, <1>8, <2>1, <2>2 DEF CallWell
<1>16. \A d \in Classes : Cache'[d] = Cache[d] \/ CachedWell(d)'
  BY Zenon, <1>13, <1>14
<1> QED BY Zenon, <1>1, <1>2, <1>7, <1>9, <1>13, <1>15, <1>16, StepKeeps

LEMMA StoreStep ==
  ASSUME CallsWell, NEW q \in Procs, StoreSeqNum(q)
  PROVE  CallsWell'
<1>1. /\ InCall(q) /\ CallWell(q) /\ Cache \in [Classes -> Answers \cup {None}]
      /\ proc \in [Procs -> ProcStates] /\ proc[q] \in ProcStates
  BY Zenon, Before
<1>2. proc[q].pc = "store" /\ Cache' = Cache /\ lastSeqNum' = proc[q].seq
  BY Zenon DEF StoreSeqNum
<1>3. PICK c, A, n : c \in Classes /\ c = proc[q].class /\ A = proc[q].avail /\ n = proc[q].seq
  BY Zenon, <1>1, <1>2 DEF InCall
<1>4. lastSeqNum' \in -1 .. (2 * MaxMarks)
  BY <1>1, <1>2, MarksAssumption DEF ProcStates
<1>5. PICK r : r = [proc[q] EXCEPT !.pc = "returned"]
  BY Zenon
<1>6. /\ r \in ProcStates /\ r.pc = "returned" /\ r.class = c /\ r.avail = A
  BY ZenonT(30), <1>1, <1>3, <1>5 DEF ProcStates
<1>7. proc' = [proc EXCEPT ![q] = r]
  BY Zenon, <1>1, <1>5 DEF StoreSeqNum, ProcStates
<1>8. InStep(q, r)
  BY Zenon, <1>6, <1>7 DEF StoreSeqNum, InStep
<1>9. /\ proc'[q] = r /\ held'[q] \subseteq Settled' /\ gone'[q] \subseteq Absent'
      /\ held'[q] \subseteq held[q] /\ gone'[q] \subseteq gone[q]
  BY Zenon, <1>2, <1>8, StepFacts
<1>10. ReadersMove
  BY Zenon, <1>6, <1>8, <1>9, StepReads DEF Reading
<1>11. Fresh(q)'
  <2>1. AllOfferings \ proc[q].todo = AllOfferings
    BY Zenon, <1>1, <1>2 DEF InCall
  <2>2. PICK L \in Pasts : Snapshot(L, c, A, n, AllOfferings) /\ \A o \in AllOfferings : Agrees(held[q], gone[q], L[o])
    BY Zenon, <1>1, <1>2, <1>3, <2>1 DEF CallWell, ComputedWell
  <2>3. \A o \in AllOfferings : (o \in A) <=> ~ Unavailable(L[o], c, o)
    BY Zenon, <2>2 DEF Snapshot
  <2>4. proc'[q].class = c /\ proc'[q].avail = A
    BY Zenon, <1>6, <1>9
  <2> QED BY ZenonT(30), <1>9, <2>2, <2>3, <2>4, AnswerIsFresh
<1>12. CallWell(q)'
  BY Zenon, <1>3, <1>6, <1>9, <1>11 DEF CallWell, InCall, Reading
<1> QED BY Zenon, <1>1, <1>2, <1>4, <1>8, <1>10, <1>12, StepKeeps

-----------------------------------------------------------------------------

LEMMA CallsStartWell == OfferingsInit => CallsWell
<1> SUFFICES ASSUME OfferingsInit PROVE CallsWell
  BY Zenon
<1>1. IdleResolver \in ProcStates /\ IdleResolver.pc = "idle"
  BY MarksAssumption DEF ProcStates, IdleResolver
<1>2. OfferingsTypeOK
  <2>1. proc \in [Procs -> ProcStates]
    BY Zenon, <1>1 DEF OfferingsInit
  <2>2. proc \in [Procs -> [pc: {"idle", "seq", "get", "compute", "store", "returned"},
                            class: Classes \cup {None}, last: -1..(2 * MaxMarks),
                            seq: 0..(2 * MaxMarks), read: 0..3, todo: SUBSET AllOfferings,
                            avail: SUBSET AllOfferings, number: -1..(2 * MaxMarks)]]
    BY <2>1, Zenon DEF ProcStates
  <2>3. Cache \in [Classes -> [avail: SUBSET AllOfferings, number: 0..(2 * MaxMarks)] \cup {None}]
    BY Zenon DEF OfferingsInit
  <2>4. seqNum \in [{"offering", "capacityType", "subnet"} -> 0..(2 * MaxMarks)]
        /\ marks \in 0..MaxMarks /\ lastSeqNum \in -1..(2 * MaxMarks)
    BY MarksAssumption DEF OfferingsInit
  <2> QED BY Zenon, <2>2, <2>3, <2>4 DEF OfferingsInit, OfferingsTypeOK
<1>3. StepsBounded
  <2>1. Present = {}
    BY Zenon DEF OfferingsInit, Present
  <2>2. Cardinality({}) = 0
    BY Zenon, FS_EmptySet
  <2> QED BY <2>1, <2>2 DEF StepsBounded, OfferingsInit, Total
<1>4. \A p \in Procs : proc[p].pc = "idle" /\ held[p] = {} /\ gone[p] = {}
  BY Zenon, <1>1 DEF OfferingsInit
<1>5. \A p \in Procs : CallWell(p)
  BY Zenon, <1>4 DEF CallWell, InCall, Reading
<1>6. \A c \in Classes : CachedWell(c)
  BY Zenon DEF OfferingsInit, CachedWell
<1> QED BY Zenon, <1>2, <1>3, <1>5, <1>6 DEF CallsWell

LEMMA CallsStayWell == CallsWell /\ [OfferingsNext]_offeringVars => CallsWell'
<1> SUFFICES ASSUME CallsWell, [OfferingsNext]_offeringVars PROVE CallsWell'
  BY Zenon
<1>1. EntriesOK /\ StepsBounded /\ Cache \in [Classes -> Answers \cup {None}]
  BY Zenon, TypeParts DEF CallsWell
<1>2. ASSUME NEW k \in Signals, EntryStep(k)
      PROVE  CallsWell'
  <2>1. EntriesOK' /\ Moves /\ StepsBounded'
    BY Zenon, <1>1, <1>2, EntryTypes, StepsStayBounded
  <2>2. Track /\ proc' = proc /\ lastSeqNum' = lastSeqNum /\ Cache' = Cache
    BY Zenon, <1>2 DEF EntryStep, MarkSet, MarkBump, ExpireMark, EvictMark, OnEvicted, Delete
  <2>3. Cache' \in [Classes -> Answers \cup {None}] /\ \A c \in Classes : Cache'[c] \in {Cache[c], None}
    BY Zenon, <1>1, <2>2
  <2> QED BY Zenon, <2>1, <2>2, <2>3, Tracked, BesideStep
<1>3. ASSUME NEW q \in Procs, ResolveStep(q)
      PROVE  CallsWell'
  <2>1. (\E c \in Classes : Resolve(q, c)) \/ SeqNum(q) \/ CacheGet(q) \/ (\E o \in AllOfferings : Compute(q, o))
          \/ CacheSet(q) \/ StoreSeqNum(q) \/ Return(q)
    BY Zenon, <1>3 DEF ResolveStep
  <2> QED BY <2>1, ResolveStarts, SeqNumReads, CacheGetReads, ComputeStep, CacheSetStep, StoreStep, ReturnEnds, Zenon
<1>4. ASSUME NEW c \in Classes, CacheExpire(c)
      PROVE  CallsWell'
  <2>1. EntriesOK' /\ Moves /\ StepsBounded'
    BY Zenon, <1>1, <1>4, CallFrame DEF CacheExpire
  <2>2. Track /\ proc' = proc /\ lastSeqNum' = lastSeqNum /\ Cache' = [Cache EXCEPT ![c] = None]
    BY Zenon, <1>4 DEF CacheExpire
  <2>3. Cache' \in [Classes -> Answers \cup {None}] /\ \A d \in Classes : Cache'[d] \in {Cache[d], None}
    BY Zenon, <1>1, <2>2
  <2> QED BY Zenon, <2>1, <2>2, <2>3, Tracked, BesideStep
<1>5. CASE UNCHANGED offeringVars
  <2>1. EntriesOK' /\ StepsBounded' /\ Moves /\ Settled' = Settled /\ Absent' = Absent
    BY Zenon, <1>1, <1>5, CallFrame DEF offeringVars
  <2>2. proc' = proc /\ Cache' = Cache /\ lastSeqNum' = lastSeqNum /\ held' = held /\ gone' = gone
    BY Zenon, <1>5 DEF offeringVars
  <2>3. Followed
    BY Zenon, <2>1, <2>2 DEF Followed, CallsWell, CallWell, InCall, OfferingsTypeOK
  <2>4. Cache' \in [Classes -> Answers \cup {None}] /\ \A d \in Classes : Cache'[d] \in {Cache[d], None}
    BY Zenon, <1>1, <2>2
  <2> QED BY Zenon, <2>1, <2>2, <2>3, <2>4, BesideStep
<1>6. CASE OfferingsNext
  <2>1. (\E k \in Signals : EntryStep(k)) \/ (\E q \in Procs : ResolveStep(q)) \/ (\E c \in Classes : CacheExpire(c))
    BY Zenon, <1>6 DEF OfferingsNext, EntryStep
  <2> QED BY Zenon, <1>2, <1>3, <1>4, <2>1
<1> QED BY Zenon, <1>5, <1>6

\* A sole caller stores the number of the answer it has cached before it reads again.
LEMMA NumbersStay ==
  ASSUME NEW p, NEW c, Procs = {p}, Classes = {c}, CallsWell, NumbersAgree(p, c), [OfferingsNext]_offeringVars
  PROVE  NumbersAgree(p, c)'
<1>1. /\ proc \in [Procs -> ProcStates] /\ proc[p] \in ProcStates /\ Cache \in [Classes -> Answers \cup {None}]
      /\ InCall(p)
  BY Zenon, Before
<1>2. ASSUME proc' = proc, lastSeqNum' = lastSeqNum, Cache'[c] \in {Cache[c], None}
      PROVE  NumbersAgree(p, c)'
  BY Zenon, <1>2 DEF NumbersAgree, Reading
<1>3. CASE \E k \in Signals : EntryStep(k)
  <2>1. proc' = proc /\ lastSeqNum' = lastSeqNum /\ Cache' = Cache
    BY Zenon, <1>3 DEF EntryStep, MarkSet, MarkBump, ExpireMark, EvictMark, OnEvicted, Delete
  <2> QED BY Zenon, <1>2, <2>1
<1>4. CASE CacheExpire(c)
  <2>1. proc' = proc /\ lastSeqNum' = lastSeqNum /\ Cache'[c] = None
    BY Zenon, <1>1, <1>4 DEF CacheExpire
  <2> QED BY Zenon, <1>2, <2>1
<1>5. CASE Resolve(p, c)
  <2>1. /\ IdleResolver.seq = 0
        /\ IdleResolver \in [pc : {"idle"}, class : {None}, last : {-1}, seq : {0}, read : {0}, todo : {{}}, avail : {{}}, number : {-1}]
    BY DEF IdleResolver
  <2>2. PICK r : r = [IdleResolver EXCEPT !.pc = "seq", !.class = c, !.last = lastSeqNum]
    BY Zenon
  <2>3. r.pc = "seq" /\ r.last = lastSeqNum
    BY Zenon, <2>1, <2>2
  <2>4. proc' = [proc EXCEPT ![p] = r]
    BY Zenon, <1>5, <2>2 DEF Resolve
  <2>5. proc'[p] = r /\ lastSeqNum' = lastSeqNum /\ Cache' = Cache /\ proc[p].pc = "idle"
    BY Zenon, <1>1, <1>5, <2>4 DEF Resolve
  <2> QED BY Zenon, <2>3, <2>5 DEF NumbersAgree, Reading
<1>6. CASE SeqNum(p)
  <2>1. proc[p].pc = "seq" /\ Cache' = Cache /\ lastSeqNum' = lastSeqNum
    BY Zenon, <1>6 DEF SeqNum
  <2>2. proc'[p].pc \in {"seq", "get"} /\ proc'[p].last = proc[p].last
    <3>1. PICK n, v, s : /\ s = IF n = Len(Counters) THEN "get" ELSE "seq"
                         /\ proc' = [proc EXCEPT ![p].seq = v, ![p].read = n, ![p].pc = s]
      BY Zenon, <1>6 DEF SeqNum
    <3>2. PICK r : r = [proc[p] EXCEPT !.seq = v, !.read = n, !.pc = s]
      BY Zenon
    <3>3. r.pc = s /\ r.last = proc[p].last
      BY ZenonT(30), <1>1, <3>2 DEF ProcStates
    <3>4. proc'[p] = r
      BY ZenonT(30), <1>1, <3>1, <3>2 DEF ProcStates
    <3> QED BY Zenon, <3>1, <3>3, <3>4
  <2> QED BY Zenon, <2>1, <2>2 DEF NumbersAgree, Reading
<1>7. CASE CacheGet(p)
  <2>1. proc[p].pc = "get" /\ Cache' = Cache /\ lastSeqNum' = lastSeqNum /\ proc[p].class = c
    BY Zenon, <1>1, <1>7 DEF CacheGet, InCall
  <2>2. CASE CanReuse(p)
    <3>1. PICK r : r = [proc[p] EXCEPT !.pc = "returned", !.avail = Cache[c].avail, !.number = Cache[c].number]
      BY Zenon
    <3>2. r.pc = "returned" /\ r.number = Cache[c].number /\ r.seq = proc[p].seq
      BY ZenonT(30), <1>1, <3>1 DEF ProcStates
    <3>3. proc' = [proc EXCEPT ![p] = r]
      BY Zenon, <1>7, <2>1, <2>2, <3>1 DEF CacheGet
    <3>4. proc'[p] = r
      BY Zenon, <1>1, <3>3
    <3>5. Cache[c] # None /\ proc[p].last = proc[p].seq
      BY Zenon, <2>1, <2>2 DEF CanReuse
    <3> QED BY Zenon, <2>1, <3>2, <3>4, <3>5 DEF NumbersAgree, Reading
  <2>3. CASE ~ CanReuse(p)
    <3>1. PICK r : r = [proc[p] EXCEPT !.pc = "compute", !.todo = AllOfferings, !.number = proc[p].seq]
      BY Zenon
    <3>2. r.pc = "compute" /\ r.number = proc[p].seq /\ r.seq = proc[p].seq
      BY ZenonT(30), <1>1, <3>1 DEF ProcStates
    <3>3. proc' = [proc EXCEPT ![p] = r]
      BY Zenon, <1>7, <2>3, <3>1 DEF CacheGet
    <3>4. proc'[p] = r
      BY Zenon, <1>1, <3>3
    <3> QED BY Zenon, <2>1, <3>2, <3>4 DEF NumbersAgree, Reading
  <2> QED BY Zenon, <2>2, <2>3
<1>8. ASSUME NEW o, Compute(p, o) PROVE NumbersAgree(p, c)'
  <2>1. proc[p].pc = "compute" /\ Cache' = Cache /\ lastSeqNum' = lastSeqNum
    BY Zenon, <1>8 DEF Compute
  <2>2. proc'[p].pc = "compute" /\ proc'[p].seq = proc[p].seq /\ proc'[p].number = proc[p].number
    <3>1. PICK t, A : proc' = [proc EXCEPT ![p].todo = t, ![p].avail = A]
      BY Zenon, <1>8 DEF Compute
    <3>2. PICK r : r = [proc[p] EXCEPT !.todo = t, !.avail = A]
      BY Zenon
    <3>3. r.pc = "compute" /\ r.seq = proc[p].seq /\ r.number = proc[p].number
      BY ZenonT(30), <1>1, <2>1, <3>2 DEF ProcStates
    <3>4. proc'[p] = r
      BY ZenonT(30), <1>1, <3>1, <3>2 DEF ProcStates
    <3> QED BY Zenon, <3>3, <3>4
  <2> QED BY Zenon, <2>1, <2>2 DEF NumbersAgree, Reading
<1>9. CASE CacheSet(p)
  <2>1. proc[p].pc = "compute" /\ lastSeqNum' = lastSeqNum /\ proc[p].class = c
    BY Zenon, <1>1, <1>9 DEF CacheSet, InCall
  <2>2. proc'[p].pc = "store" /\ proc'[p].seq = proc[p].seq /\ proc'[p].number = proc[p].number
    BY ZenonT(30), <1>1, <1>9 DEF CacheSet, ProcStates
  <2>3. Cache'[c].number = proc[p].seq
    BY Zenon, <1>1, <1>9, <2>1 DEF CacheSet
  <2> QED BY Zenon, <2>1, <2>2, <2>3 DEF NumbersAgree, Reading
<1>10. CASE StoreSeqNum(p)
  <2>1. proc[p].pc = "store" /\ lastSeqNum' = proc[p].seq /\ Cache' = Cache
    BY Zenon, <1>10 DEF StoreSeqNum
  <2>2. proc'[p].pc = "returned" /\ proc'[p].seq = proc[p].seq /\ proc'[p].number = proc[p].number
    BY ZenonT(30), <1>1, <1>10 DEF StoreSeqNum, ProcStates
  <2> QED BY Zenon, <2>1, <2>2 DEF NumbersAgree, Reading
<1>11. CASE Return(p)
  <2>1. proc[p].pc = "returned" /\ lastSeqNum' = lastSeqNum /\ Cache' = Cache /\ proc'[p] = IdleResolver
    BY Zenon, <1>1, <1>11 DEF Return
  <2>2. IdleResolver.pc = "idle"
    BY DEF IdleResolver
  <2> QED BY Zenon, <2>1, <2>2 DEF NumbersAgree, Reading
<1>12. CASE UNCHANGED offeringVars
  BY Zenon, <1>2, <1>12 DEF offeringVars
<1>13. CASE OfferingsNext
  <2>1. (\E k \in Signals : EntryStep(k)) \/ ResolveStep(p) \/ CacheExpire(c)
    BY Zenon, <1>13 DEF OfferingsNext, EntryStep
  <2>2. ResolveStep(p) => Resolve(p, c) \/ SeqNum(p) \/ CacheGet(p) \/ (\E o \in AllOfferings : Compute(p, o))
                            \/ CacheSet(p) \/ StoreSeqNum(p) \/ Return(p)
    BY Zenon DEF ResolveStep
  <2> QED BY <1>3, <1>4, <1>5, <1>6, <1>7, <1>8, <1>9, <1>10, <1>11, <2>1, <2>2, Zenon
<1> QED BY Zenon, <1>12, <1>13

LEMMA OfferingsStarts == OfferingsInit => OfferingsIInv
<1> SUFFICES ASSUME OfferingsInit PROVE OfferingsIInv
  BY Zenon
<1>1. CallsWell
  BY Zenon, CallsStartWell
<1>2. IdleResolver.pc = "idle"
  BY DEF IdleResolver
<1>3. \A p \in Procs, c \in Classes : NumbersAgree(p, c)
  BY Zenon, <1>2 DEF OfferingsInit, NumbersAgree, Reading
<1> QED BY Zenon, <1>1, <1>3 DEF CallsWell, OfferingsIInv

LEMMA OfferingsStep == OfferingsIInv /\ [OfferingsNext]_offeringVars => OfferingsIInv'
<1> SUFFICES ASSUME OfferingsIInv, [OfferingsNext]_offeringVars PROVE OfferingsIInv'
  BY Zenon
<1>1. CallsWell /\ CallsWell'
  BY Zenon, CallsStayWell DEF OfferingsIInv, CallsWell
<1>2. ASSUME SoleCaller, NEW p \in Procs, NEW c \in Classes PROVE NumbersAgree(p, c)'
  <2>1. Procs = {p} /\ Classes = {c}
    BY Zenon, <1>2 DEF SoleCaller
  <2>2. NumbersAgree(p, c)
    BY Zenon, <1>2 DEF OfferingsIInv
  <2> QED BY Zenon, <1>1, <2>1, <2>2, NumbersStay
<1>3. SoleCaller' => \A p \in Procs, c \in Classes : NumbersAgree(p, c)'
  BY Zenon, <1>2 DEF SoleCaller
<1> QED BY Zenon, <1>1, <1>3 DEF OfferingsIInv, CallsWell

\* What GetInstanceTypes answers from the resolver's cache of offerings is what the
\* unavailable-offerings cache says.  For every number of reconcilers and NodeClasses,
\* and however their calls interleave with one another and with marks, evictions and
\* TTLs: an answer that was computed in the call, or by a call that had read the same
\* number, respects every entry in force throughout the call and withholds nothing for
\* an entry that was gone throughout.  One reconciler that asks for one NodeClass gets
\* no other answer; for several, the number compared with may be that of another
\* answer, since it is kept in one field for all NodeClasses.
THEOREM OfferingsAreFresh == OfferingsSpec => []OfferingsInv
<1>1. OfferingsIInv => OfferingsInv
  <2> SUFFICES ASSUME OfferingsIInv PROVE OfferingsInv
    BY Zenon
  <2>1. OwnNumberIsFresh
    BY Zenon DEF OfferingsIInv, CallWell, OwnNumberIsFresh
  <2>2. SoleCaller => ResultIsFresh
    BY Zenon, <2>1 DEF OfferingsIInv, NumbersAgree, ResultIsFresh, OwnNumberIsFresh, SoleCaller
  <2> QED BY Zenon, <2>1, <2>2 DEF OfferingsIInv, OfferingsInv
<1> QED BY <1>1, OfferingsStarts, OfferingsStep, PTL DEF OfferingsSpec
=============================================================================
