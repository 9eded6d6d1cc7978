---------------------------- MODULE LaunchProofs ----------------------------
(***************************************************************************)
(* Launches, for every catalog of offerings and any number of NodeClaims.   *)
(* First what each filter of Create leaves of the offerings, in the order    *)
(* of the code; then what an answer of EC2 adds to the caches and why each   *)
(* mark there is the trace of a failure; last the three theorems.            *)
(***************************************************************************)
EXTENDS InstanceLaunch, FiniteSetTheorems, WellFoundedInduction, TLAPS

-----------------------------------------------------------------------------
(* The filters of Create *)

\* There is a least number in a set of numbers, ...
LEMMA HasLeast ==
  ASSUME NEW T \in SUBSET Nat, T # {}
  PROVE  \E x \in T : \A y \in T : x <= y
<1> DEFINE R == OpToRel(<, Nat)
<1>1. IsWellFoundedOn(R, Nat)
  BY ZenonT(30), NatLessThanWellFounded
<1>2. \A x, y \in Nat : <<x, y>> \in R <=> x < y
  BY Zenon DEF OpToRel
<1> HIDE DEF R
<1>3. PICK x \in T : \A y \in T : ~(<<y, x>> \in R)
  BY ZenonT(30), <1>1, WFMin
<1>4. ASSUME NEW y \in T PROVE x <= y
  <2>1. ~(y < x)
    BY <1>2, <1>3, Zenon
  <2> QED BY <2>1
<1> QED BY Zenon, <1>4

\* ... and so a cheapest offering, ...
LEMMA HasCheapest ==
  ASSUME NEW S \in SUBSET Catalog, S # {}
  PROVE  \E o \in S : \A p \in S : o.price <= p.price
<1> DEFINE T == {o.price : o \in S}
<1>1. T \in SUBSET Nat /\ T # {}
  <2>1. \A o \in S : o.price \in Nat
    BY ZenonT(30), CatalogAssumption
  <2> QED BY Zenon, <2>1
<1>2. PICK x \in T : \A y \in T : x <= y
  BY ZenonT(30), <1>1, HasLeast
<1>3. PICK o \in S : o.price = x
  BY Zenon
<1> QED BY Zenon, <1>2, <1>3

\* ... a reserved one that comes first among the cheapest, ...
LEMMA HasFirst ==
  ASSUME NEW S \in SUBSET Catalog, S # {}, \A o \in S : o.ct = "reserved"
  PROVE  \E o \in S : \A p \in S : \/ o.price < p.price
                                   \/ o.price = p.price /\ priorities[Market(o)] =< priorities[Market(p)]
<1>1. PICK q \in S : \A p \in S : q.price <= p.price
  BY Zenon, HasCheapest
<1> DEFINE E == {o \in S : o.price = q.price}
           T == {priorities[Market(o)] : o \in E}
<1>2. \A o \in S : o.price \in Nat /\ priorities[Market(o)] \in Nat
  <2> SUFFICES ASSUME NEW o \in S PROVE o.price \in Nat /\ priorities[Market(o)] \in Nat
    BY Zenon
  <2>1. o.price \in Nat /\ Market(o) \in DOMAIN priorities
    BY ZenonT(30), CatalogAssumption
  <2>2. \A m \in DOMAIN priorities : priorities[m] \in Nat
    BY ZenonT(30) DEF priorities
  <2> QED BY Zenon, <2>1, <2>2
<1>3. T \in SUBSET Nat /\ T # {}
  BY Zenon, <1>2
<1>4. PICK x \in T : \A y \in T : x <= y
  BY ZenonT(30), <1>3, HasLeast
<1>5. PICK o \in E : priorities[Market(o)] = x
  BY Zenon
<1>6. ASSUME NEW p \in S
      PROVE  \/ o.price < p.price
             \/ o.price = p.price /\ priorities[Market(o)] =< priorities[Market(p)]
  <2>1. CASE p.price = q.price
    BY Zenon, <1>4, <1>5, <2>1
  <2>2. CASE p.price # q.price
    BY <1>1, <1>2, <2>2
  <2> QED BY Zenon, <2>1, <2>2
<1> QED BY Zenon, <1>6

\* ... and a reservation with most room.
LEMMA HasRoomiest ==
  ASSUME free \in [Reservations -> 0 .. MaxCount], NEW S \in SUBSET Catalog, S # {},
         \A o \in S : o.ct = "reserved"
  PROVE  \E o \in S : \A p \in S : free[o.id] >= free[p.id]
<1>1. \A o \in S : o.id \in Reservations /\ free[o.id] \in 0 .. MaxCount
  BY Zenon DEF Reservations
<1> DEFINE T == {MaxCount - free[o.id] : o \in S}
<1>2. T \in SUBSET Nat /\ T # {}
  BY <1>1, OffersAssumption
<1>3. PICK x \in T : \A y \in T : x <= y
  BY ZenonT(30), <1>2, HasLeast
<1>4. PICK o \in S : MaxCount - free[o.id] = x
  BY Zenon
<1>5. ASSUME NEW p \in S PROVE free[o.id] >= free[p.id]
  <2>1. MaxCount - free[o.id] <= MaxCount - free[p.id]
    BY Zenon, <1>3, <1>4
  <2> QED BY <1>1, <2>1, OffersAssumption
<1> QED BY Zenon, <1>5

\* The offerings that are left are some of the cluster's, and every instance type that
\* is left can be launched.
Sound(its, c) ==
    \A it \in DOMAIN its : /\ \A o \in its[it] : o \in offers /\ o.it = it
                           /\ \E o \in its[it] : Usable(o, c)

\* All of them are reserved, in one market; there is only one of them.
InMarket(its, m) == \A it \in DOMAIN its : \A o \in its[it] : o.ct = "reserved" /\ Market(o) = m
Alone(its) == \A i, j \in DOMAIN its : \A o \in its[i], p \in its[j] : o = p

OfferedTypes == [it \in {o.it : o \in offers} |-> {o \in offers : o.it = it}]

LEMMA CompatibleFacts ==
  ASSUME NEW c
  PROVE  LET its == compatibleLaunchableFilter(OfferedTypes, c)
         IN  /\ Sound(its, c)
             /\ \A o \in offers : Usable(o, c) => o.it \in DOMAIN its /\ o \in its[o.it]
  BY ZenonT(30) DEF compatibleLaunchableFilter, RestrictOffers, OfferedTypes, Sound

LEMMA ReservedFacts ==
  ASSUME NEW c, NEW its, Sound(its, c)
  PROVE  /\ \A o \in ReservedUsable(its, c) : /\ o \in offers /\ o.it \in DOMAIN its /\ o \in its[o.it]
                                              /\ o.ct = "reserved" /\ Usable(o, c) /\ "reserved" \in c.cts
         /\ \A it \in DOMAIN its : \A o \in its[it] :
               o.ct = "reserved" /\ Usable(o, c) => o \in ReservedUsable(its, c)
  BY DEF ReservedUsable, Sound, Usable, Compatible

\* A reserved offering that comes first by price and priority.
IsFirst(o, S) ==
    \A p \in S : \/ o.price < p.price
                 \/ o.price = p.price /\ priorities[Market(o)] =< priorities[Market(p)]

ItsOf(S) == {o.it : o \in S}
OfMarket(S, m) == {o \in S : Market(o) = m}

\* capacityReservationTypeFilter leaves one market, the one of a first offering.
LEMMA MarketFilter ==
  ASSUME NEW c, NEW its, offers \subseteq Catalog, Sound(its, c), ReservedUsable(its, c) # {}
  PROVE  LET out == capacityReservationTypeFilter(its, c)
             used == ReservedUsable(its, c)
         IN  /\ DOMAIN out # {} /\ Sound(out, c)
             /\ \E f \in used : /\ IsFirst(f, used) /\ InMarket(out, Market(f))
                               /\ DOMAIN out = ItsOf(OfMarket(used, Market(f)))
<1> DEFINE used == ReservedUsable(its, c)
           First(o) == \A p \in used :
                          \/ o.price < p.price
                          \/ o.price = p.price /\ priorities[Market(o)] =< priorities[Market(p)]
           best == CHOOSE o \in used : First(o)
           m == Market(best)
           out == [it \in {o.it : o \in {p \in used : Market(p) = m}} |->
                     {o \in its[it] : o.ct = "reserved" /\ Market(o) = m}]
<1>1. \A o \in used : /\ o \in offers /\ o.it \in DOMAIN its /\ o \in its[o.it]
                      /\ o.ct = "reserved" /\ Usable(o, c) /\ "reserved" \in c.cts
  BY Zenon, ReservedFacts
<1>2. used # {} /\ "reserved" \in c.cts
  BY Zenon, <1>1
<1>3. capacityReservationTypeFilter(its, c) = out
  BY <1>2, Zenon DEF capacityReservationTypeFilter, Partition
<1>4. best \in used /\ IsFirst(best, used)
  <2>1. \E o \in used : First(o)
    BY Zenon, <1>1, <1>2, HasFirst
  <2>2. \A o : First(o) => IsFirst(o, used)
    BY Zenon DEF IsFirst
  <2> HIDE DEF First, used
  <2> QED BY Zenon, <2>1, <2>2
<1>5. DOMAIN out # {}
  BY ZenonT(30), <1>4
<1>6. \A it \in DOMAIN out : it \in DOMAIN its /\ \E o \in used : o.it = it /\ Market(o) = m
  BY Zenon, <1>1
<1>7. InMarket(out, m)
  BY ZenonT(30) DEF InMarket
<1>8. Sound(out, c)
  <2> SUFFICES ASSUME NEW it \in DOMAIN out
               PROVE  /\ \A o \in out[it] : o \in offers /\ o.it = it
                      /\ \E o \in out[it] : Usable(o, c)
    BY ZenonT(30) DEF Sound
  <2>1. PICK o \in used : o.it = it /\ Market(o) = m
    BY Zenon, <1>6
  <2>2. o \in out[it] /\ Usable(o, c)
    BY Zenon, <1>1, <2>1
  <2>3. \A p \in out[it] : p \in its[it]
    BY Zenon
  <2> QED BY Zenon, <1>6, <2>2, <2>3 DEF Sound
<1>9. DOMAIN out = ItsOf(OfMarket(used, m))
  BY Zenon DEF ItsOf, OfMarket
<1>10. m = Market(best)
  BY Zenon
<1> HIDE DEF out, m, best
<1> QED BY Zenon, <1>3, <1>4, <1>5, <1>7, <1>8, <1>9, <1>10

\* capacityBlockFilter leaves a capacity block alone.
LEMMA BlockFilter ==
  ASSUME NEW c, NEW its, NEW m, offers \subseteq Catalog, DOMAIN its # {}, Sound(its, c), InMarket(its, m)
  PROVE  LET out == capacityBlockFilter(its, c)
         IN  /\ DOMAIN out # {} /\ Sound(out, c) /\ InMarket(out, m)
             /\ m[1] = "capacity-block" => Alone(out) /\ \E i : DOMAIN out = {i}
             /\ m[1] # "capacity-block" => out = its
<1> DEFINE blocks == {o \in ReservedUsable(its, c) : o.crt = "capacity-block"}
           Cheapest(o) == \A p \in blocks : o.price =< p.price
           best == CHOOSE o \in blocks : Cheapest(o)
           out == [it \in {best.it} |-> {best}]
<1>1. \A o \in blocks : /\ o \in offers /\ o.it \in DOMAIN its /\ o \in its[o.it]
                        /\ o.ct = "reserved" /\ Usable(o, c) /\ "reserved" \in c.cts
  BY Zenon, ReservedFacts
<1>2. CASE blocks = {}
  <2>1. capacityBlockFilter(its, c) = its
    BY <1>2, Zenon DEF capacityBlockFilter
  <2>2. m[1] # "capacity-block"
    <3>1. PICK it \in DOMAIN its : TRUE
      BY Zenon
    <3>2. PICK o \in its[it] : Usable(o, c)
      BY Zenon DEF Sound
    <3>3. o \in ReservedUsable(its, c) /\ m = <<o.crt, o.interruptible>>
      BY Zenon, <3>2, ReservedFacts DEF InMarket, Market
    <3>4. o.crt # "capacity-block"
      BY Zenon, <1>2, <3>3
    <3> QED BY Zenon, <3>3, <3>4
  <2> QED BY Zenon, <2>1, <2>2
<1>3. CASE blocks # {}
  <2>1. capacityBlockFilter(its, c) = out
    <3>1. "reserved" \in c.cts
      BY Zenon, <1>1, <1>3
    <3> QED BY <1>3, <3>1, Zenon DEF capacityBlockFilter
  <2>2. best \in blocks
    <3>1. \E o \in blocks : Cheapest(o)
      BY ZenonT(30), <1>1, <1>3, HasCheapest
    <3> HIDE DEF Cheapest, blocks
    <3> QED BY Zenon, <3>1
  <2>3. /\ InMarket(out, m) /\ Sound(out, c) /\ Alone(out) /\ DOMAIN out # {}
        /\ m[1] = "capacity-block" /\ \E i : DOMAIN out = {i}
    <3>0. best.crt = "capacity-block"
      BY Zenon, <2>2
    <3> HIDE DEF blocks
    <3>1. best \in offers /\ best.it \in DOMAIN its /\ best \in its[best.it] /\ Usable(best, c)
      BY Zenon, <1>1, <2>2
    <3>2. best.ct = "reserved" /\ Market(best) = m
      BY Zenon, <3>1 DEF InMarket
    <3>3. m[1] = "capacity-block"
      BY Zenon, <3>0, <3>2 DEF Market
    <3> HIDE DEF best
    <3>4. \E i : DOMAIN out = {i}
      BY Zenon
    <3> QED BY Zenon, <3>1, <3>2, <3>3, <3>4 DEF InMarket, Sound, Alone
  <2> HIDE DEF out
  <2> QED BY Zenon, <2>1, <2>3
<1> QED BY Zenon, <1>2, <1>3

\* The lookup by instance type and zone finds one reservation.
OnePerPool(its) == \A it \in DOMAIN its : \A o, p \in its[it] : o.zone = p.zone => o = p

\* reservedOfferingFilter leaves one launchable reservation per instance type and zone.
LEMMA PoolFilter ==
  ASSUME NEW c, NEW its, NEW m, offers \subseteq Catalog, free \in [Reservations -> 0 .. MaxCount],
         DOMAIN its # {}, Sound(its, c), InMarket(its, m)
  PROVE  LET out == reservedOfferingFilter(its, c)
         IN  /\ DOMAIN out # {} /\ Sound(out, c) /\ InMarket(out, m) /\ OnePerPool(out)
             /\ DOMAIN out = DOMAIN its
             /\ \A it \in DOMAIN out : \A o \in out[it] : Usable(o, c)
             /\ Alone(its) => Alone(out)
<1> DEFINE used == ReservedUsable(its, c)
           Pool(it, z) == {o \in used : o.it = it /\ o.zone = z}
           Roomiest(S, o) == \A p \in S : free[o.id] >= free[p.id]
           Pick(S) == CHOOSE o \in S : Roomiest(S, o)
           zones(it) == {o.zone : o \in {p \in used : p.it = it}}
           out == [it \in {o.it : o \in used} |-> {Pick(Pool(it, z)) : z \in zones(it)}]
<1>1. \A o \in used : /\ o \in offers /\ o.it \in DOMAIN its /\ o \in its[o.it]
                      /\ o.ct = "reserved" /\ Usable(o, c) /\ "reserved" \in c.cts
  BY Zenon, ReservedFacts
<1>2. used # {} /\ "reserved" \in c.cts
  <2>1. PICK it \in DOMAIN its : TRUE
    BY Zenon
  <2>2. PICK o \in its[it] : Usable(o, c)
    BY Zenon DEF Sound
  <2>3. o \in used
    BY Zenon, <2>2, ReservedFacts DEF InMarket
  <2> QED BY Zenon, <1>1, <2>3
<1>3. reservedOfferingFilter(its, c) = out
  BY <1>2, Zenon DEF reservedOfferingFilter
<1>4. \A it : \A z \in zones(it) : Pick(Pool(it, z)) \in Pool(it, z)
  <2> TAKE it
  <2> TAKE z \in zones(it)
  <2> DEFINE S == Pool(it, z)
  <2>1. S \in SUBSET Catalog /\ S # {} /\ \A o \in S : o.ct = "reserved"
    BY Zenon, <1>1
  <2> HIDE DEF S
  <2>2. \E o \in S : Roomiest(S, o)
    BY Zenon, <2>1, HasRoomiest
  <2> HIDE DEF Roomiest
  <2>3. Pick(S) \in S
    BY Zenon, <2>2
  <2> QED BY <2>3, Zenon DEF S
<1>5. \A it \in DOMAIN out : \A o \in out[it] : o \in used /\ o.it = it /\ o = Pick(Pool(it, o.zone))
  <2> SUFFICES ASSUME NEW it \in DOMAIN out, NEW o \in out[it]
               PROVE  o \in used /\ o.it = it /\ o = Pick(Pool(it, o.zone))
    BY ZenonT(30)
  <2>1. PICK z \in zones(it) : o = Pick(Pool(it, z))
    BY Zenon
  <2>2. o \in Pool(it, z)
    <3> HIDE DEF Pick, Pool, zones
    <3> QED BY <1>4, <2>1, Zenon
  <2>3. o \in used /\ o.it = it /\ o.zone = z
    BY Zenon, <2>2
  <2> HIDE DEF Pick, Pool, used
  <2> QED BY Zenon, <2>1, <2>3
<1>6. \A it \in DOMAIN out : out[it] # {}
  <2> SUFFICES ASSUME NEW it \in DOMAIN out PROVE \E x : x \in out[it]
    BY ZenonT(30)
  <2>1. PICK o \in used : o.it = it
    BY Zenon
  <2>2. o.zone \in zones(it)
    BY Zenon, <2>1
  <2>3. out[it] = {Pick(Pool(it, z)) : z \in zones(it)}
    BY Zenon
  <2> HIDE DEF Pick, Pool, zones, out
  <2> QED BY <2>2, <2>3, Zenon
<1>7. DOMAIN out # {}
  BY Zenon, <1>2
<1>13. DOMAIN its \subseteq DOMAIN out
  <2> SUFFICES ASSUME NEW it \in DOMAIN its PROVE \E o \in used : o.it = it
    BY ZenonT(30)
  <2>1. PICK o \in its[it] : Usable(o, c)
    BY Zenon DEF Sound
  <2> QED BY Zenon, <2>1, ReservedFacts DEF InMarket, Sound
<1> HIDE DEF out, Pick, Pool, used
<1>8. \A it \in DOMAIN out : it \in DOMAIN its
  BY <1>1, <1>5, <1>6
<1>9. Sound(out, c)
  BY <1>1, <1>5, <1>6 DEF Sound
<1>10. InMarket(out, m)
  BY Zenon, <1>1, <1>5, <1>8 DEF InMarket
<1>11. OnePerPool(out)
  BY <1>5, Zenon DEF OnePerPool
<1>12. Alone(its) => Alone(out)
  BY <1>1, <1>5, <1>8 DEF Alone
<1>14. DOMAIN out = DOMAIN its
  BY Zenon, <1>8, <1>13
<1> QED BY Zenon, <1>1, <1>3, <1>5, <1>7, <1>9, <1>10, <1>11, <1>12, <1>14

Six(c) == Filtered(OfferedTypes, c)

UsableOffers(c) == {o \in offers : Usable(o, c)}
UsableReserved(c) == {o \in UsableOffers(c) : o.ct = "reserved"}

\* The types left when minValues asks for variety, f being a first reserved offering.
TypesLeft(its, c, f) ==
    IF f.crt = "capacity-block" THEN \E i : DOMAIN its = {i}
    ELSE DOMAIN its = ItsOf(OfMarket(UsableReserved(c), Market(f)))

\* What the filters leave when a reservation can be launched into, ...
LEMMA FilteredReserved ==
  ASSUME NEW c, offers \subseteq Catalog, free \in [Reservations -> 0 .. MaxCount],
         NEW r \in offers, r.ct = "reserved", Usable(r, c)
  PROVE  /\ DOMAIN Six(c) # {} /\ Sound(Six(c), c) /\ OnePerPool(Six(c))
         /\ \A it \in DOMAIN Six(c) : \A o \in Six(c)[it] : Usable(o, c)
         /\ \E m : InMarket(Six(c), m) /\ (m[1] = "capacity-block" => Alone(Six(c)))
         /\ HasMinValues(c) => \E f \in UsableReserved(c) : IsFirst(f, UsableReserved(c)) /\ TypesLeft(Six(c), c, f)
<1> DEFINE s1 == compatibleLaunchableFilter(OfferedTypes, c)
           s2 == capacityReservationTypeFilter(s1, c)
           s3 == capacityBlockFilter(s2, c)
           s4 == reservedOfferingFilter(s3, c)
           s5 == exoticInstanceFilter(s4, c)
           s6 == spotOfferingFilter(s5, c)
<1>0. Six(c) = s6
  BY Zenon DEF Six, Filtered
<1>1. Sound(s1, c) /\ r.it \in DOMAIN s1 /\ r \in s1[r.it]
  BY Zenon, CompatibleFacts
<1> HIDE DEF s1
<1>2. ReservedUsable(s1, c) # {}
  BY Zenon, <1>1, ReservedFacts
<1>r. ReservedUsable(s1, c) = UsableReserved(c)
  <2>1. \A o \in offers : Usable(o, c) => o.it \in DOMAIN s1 /\ o \in s1[o.it]
    BY Zenon, CompatibleFacts DEF s1
  <2> QED BY ZenonT(30), <1>1, <2>1, ReservedFacts DEF UsableReserved, UsableOffers
<1>f. PICK f \in UsableReserved(c) :
         /\ DOMAIN s2 # {} /\ Sound(s2, c) /\ InMarket(s2, Market(f))
         /\ IsFirst(f, UsableReserved(c)) /\ DOMAIN s2 = ItsOf(OfMarket(UsableReserved(c), Market(f)))
  BY Zenon, <1>1, <1>2, <1>r, MarketFilter
<1> DEFINE m == Market(f)
<1>m. m[1] = f.crt
  BY Zenon DEF Market
<1> HIDE DEF s2, m
<1>3. DOMAIN s2 # {} /\ Sound(s2, c) /\ InMarket(s2, m)
  BY Zenon, <1>f DEF m
<1>4. /\ DOMAIN s3 # {} /\ Sound(s3, c) /\ InMarket(s3, m)
      /\ m[1] = "capacity-block" => Alone(s3) /\ \E i : DOMAIN s3 = {i}
      /\ m[1] # "capacity-block" => s3 = s2
  BY ZenonT(30), <1>3, BlockFilter
<1> HIDE DEF s3
<1>5. /\ DOMAIN s4 # {} /\ Sound(s4, c) /\ InMarket(s4, m) /\ OnePerPool(s4) /\ DOMAIN s4 = DOMAIN s3
      /\ \A it \in DOMAIN s4 : \A o \in s4[it] : Usable(o, c)
      /\ m[1] = "capacity-block" => Alone(s4)
  BY ZenonT(30), <1>4, PoolFilter
<1> HIDE DEF s4
<1>6. /\ DOMAIN s5 # {} /\ DOMAIN s5 \subseteq DOMAIN s4 /\ \A it \in DOMAIN s5 : s5[it] = s4[it]
      /\ HasMinValues(c) => s5 = s4
  BY Zenon, <1>5 DEF exoticInstanceFilter, RestrictOffers
<1> HIDE DEF s5
<1>7. \A it \in DOMAIN s5 : \A o \in s5[it] : o.ct = "reserved"
  BY Zenon, <1>5, <1>6 DEF InMarket
<1>8. s6 = s5
  BY <1>7 DEF spotOfferingFilter
<1>9. /\ Sound(s5, c) /\ InMarket(s5, m) /\ OnePerPool(s5)
      /\ \A it \in DOMAIN s5 : \A o \in s5[it] : Usable(o, c)
      /\ m[1] = "capacity-block" => Alone(s5)
  BY <1>5, <1>6 DEF Sound, InMarket, OnePerPool, Alone
<1>10. HasMinValues(c) => TypesLeft(s6, c, f)
  BY Zenon, <1>f, <1>m, <1>4, <1>5, <1>6, <1>8 DEF TypesLeft, m
<1> HIDE DEF s6
<1> QED BY Zenon, <1>0, <1>f, <1>6, <1>8, <1>9, <1>10

\* ... and when there is none: every offering that can be launched but the exotic and the
\* dear, and always one of those if there is one.
LEMMA FilteredOthers ==
  ASSUME NEW c, offers \subseteq Catalog, \A r \in offers : r.ct = "reserved" => ~ Usable(r, c)
  PROVE  /\ DOMAIN Six(c) \subseteq ItsOf(offers)
         /\ \A it \in DOMAIN Six(c) : \A o \in Six(c)[it] : o \in offers /\ o.it = it
         /\ (\E o \in offers : Usable(o, c)) => \E it \in DOMAIN Six(c) : \E o \in Six(c)[it] : Usable(o, c)
         /\ (\A o \in offers : ~ Usable(o, c)) => DOMAIN Six(c) = {}
         /\ ~ HasMinValues(c) /\ (\E o \in offers : Usable(o, c) /\ o.it \notin Exotic)
               => DOMAIN Six(c) \cap Exotic = {}
         /\ ~ HasMinValues(c) =>
               \A i, j \in DOMAIN Six(c) : \A s \in Six(c)[i], d \in Six(c)[j] :
                   s.ct = "spot" /\ Usable(s, c) /\ d.ct = "on-demand" /\ Usable(d, c) => s.price <= d.price
         /\ HasMinValues(c) => DOMAIN Six(c) = ItsOf(UsableOffers(c))
<1> DEFINE s1 == compatibleLaunchableFilter(OfferedTypes, c)
           s2 == capacityReservationTypeFilter(s1, c)
           s3 == capacityBlockFilter(s2, c)
           s4 == reservedOfferingFilter(s3, c)
           s5 == exoticInstanceFilter(s4, c)
           s6 == spotOfferingFilter(s5, c)
<1>0. Six(c) = s6
  BY Zenon DEF Six, Filtered
<1>1. Sound(s1, c) /\ \A o \in offers : Usable(o, c) => o.it \in DOMAIN s1 /\ o \in s1[o.it]
  BY Zenon, CompatibleFacts
<1> HIDE DEF s1
<1>2. ReservedUsable(s1, c) = {}
  BY <1>1 DEF ReservedUsable, Sound
<1>3. s2 = s1
  BY Zenon, <1>2 DEF capacityReservationTypeFilter, Partition
<1> HIDE DEF s2
<1>4. s3 = s1
  BY Zenon, <1>2, <1>3 DEF capacityBlockFilter
<1> HIDE DEF s3
<1>5. s4 = s1
  BY Zenon, <1>2, <1>4 DEF reservedOfferingFilter
<1> HIDE DEF s4
<1>6. /\ DOMAIN s5 \subseteq DOMAIN s1 /\ (DOMAIN s1 # {} => DOMAIN s5 # {})
      /\ \A it \in DOMAIN s5 : s5[it] = s1[it]
      /\ ~ HasMinValues(c) /\ DOMAIN s1 \ Exotic # {} => DOMAIN s5 \cap Exotic = {}
      /\ HasMinValues(c) => s5 = s1
  BY Zenon, <1>5 DEF exoticInstanceFilter, RestrictOffers
<1>7. Sound(s5, c)
  BY Zenon, <1>1, <1>6 DEF Sound
<1> HIDE DEF s5
<1> DEFINE open == {o \in UNION {s5[it] : it \in DOMAIN s5} : Compatible(o, c) /\ Available(o, c.pg)}
           onDemand == {o \in open : o.ct = "on-demand"}
           Kept(it) == {o \in s5[it] : o.ct = "spot" => \A p \in onDemand : o.price =< p.price}
           some == {i \in DOMAIN s5 : Kept(i) # {}}
           cut == [it \in some |-> Kept(it)]
           Cut == /\ ~ HasMinValues(c) /\ {"on-demand", "spot"} \subseteq c.cts
                  /\ onDemand # {} /\ \E o \in open : o.ct = "spot"
<1>8. s6 = IF Cut THEN cut ELSE s5
  BY Zenon DEF spotOfferingFilter
<1>9. \A it \in DOMAIN s6 : it \in DOMAIN s5 /\ s6[it] \subseteq s5[it]
  BY Zenon, <1>8
<1>10. \A it \in DOMAIN s6 : \A o \in s6[it] : o \in offers /\ o.it = it
  BY Zenon, <1>7, <1>9 DEF Sound

<1>11. ASSUME NEW d \in onDemand
       PROVE  Usable(d, c) /\ \E it \in DOMAIN s5 : d \in Kept(it)
  BY Zenon DEF Usable, Launchable
<1>12. (\E o \in offers : Usable(o, c)) => \E it \in DOMAIN s6 : \E o \in s6[it] : Usable(o, c)
  <2> HAVE \E o \in offers : Usable(o, c)
  <2>1. PICK it \in DOMAIN s5 : \E o \in s5[it] : Usable(o, c)
    BY Zenon, <1>1, <1>6, <1>7 DEF Sound
  <2>2. CASE ~ Cut
    <3>1. s6 = s5
      BY <1>8, <2>2, Zenon
    <3> QED BY Zenon, <2>1, <3>1
  <2>3. CASE Cut
    <3>1. PICK d \in onDemand : TRUE
      BY Zenon, <2>3
    <3>2. PICK i \in DOMAIN s5 : d \in Kept(i)
      BY Zenon, <1>11
    <3>3. s6 = cut
      BY <1>8, <2>3, Zenon
    <3>4. i \in DOMAIN cut /\ d \in cut[i]
      BY Zenon, <3>2
    <3> HIDE DEF cut, onDemand
    <3> QED BY Zenon, <1>11, <3>3, <3>4
  <2> QED BY Zenon, <2>2, <2>3
<1>13. (\A o \in offers : ~ Usable(o, c)) => DOMAIN s6 = {}
  BY ZenonT(30), <1>7, <1>9 DEF Sound
<1>14. ~ HasMinValues(c) /\ (\E o \in offers : Usable(o, c) /\ o.it \notin Exotic) => DOMAIN s6 \cap Exotic = {}
  BY Zenon, <1>1, <1>6, <1>9
<1>15. ASSUME ~ HasMinValues(c), NEW i \in DOMAIN s6, NEW j \in DOMAIN s6, NEW s \in s6[i], NEW d \in s6[j],
              s.ct = "spot", Usable(s, c), d.ct = "on-demand", Usable(d, c)
       PROVE  s.price <= d.price
  <2>1. s \in s5[i] /\ d \in s5[j] /\ i \in DOMAIN s5 /\ j \in DOMAIN s5
    BY Zenon, <1>9
  <2>2. s \in open /\ d \in open /\ {"on-demand", "spot"} \subseteq c.cts
    BY Zenon, <1>15, <2>1 DEF Usable, Launchable, Compatible
  <2>3. d \in onDemand
    BY Zenon, <1>15, <2>2
  <2>4. Cut
    BY Zenon, <1>15, <2>2, <2>3
  <2>5. s6 = cut
    BY <1>8, <2>4, Zenon
  <2>6. s \in Kept(i)
    BY Zenon, <2>5
  <2> QED BY Zenon, <1>15, <2>3, <2>6
<1>16. ASSUME HasMinValues(c) PROVE DOMAIN s6 = ItsOf(UsableOffers(c))
  <2>1. DOMAIN s6 = DOMAIN s1
    BY Zenon, <1>6, <1>8, <1>16
  <2>2. ASSUME NEW i \in DOMAIN s1 PROVE i \in ItsOf(UsableOffers(c))
    <3>1. PICK o \in s1[i] : Usable(o, c) /\ o \in offers /\ o.it = i
      BY Zenon, <1>1 DEF Sound
    <3> QED BY Zenon, <3>1 DEF ItsOf, UsableOffers
  <2>3. ASSUME NEW i \in ItsOf(UsableOffers(c)) PROVE i \in DOMAIN s1
    <3>1. PICK o \in offers : Usable(o, c) /\ o.it = i
      BY Zenon DEF ItsOf, UsableOffers
    <3> QED BY Zenon, <1>1, <3>1
  <2> QED BY Zenon, <2>1, <2>2, <2>3
<1>17. DOMAIN s6 \subseteq ItsOf(offers)
  BY ZenonT(30), <1>7, <1>9 DEF Sound, ItsOf
<1> HIDE DEF s6
<1> QED BY Zenon, <1>0, <1>10, <1>12, <1>13, <1>14, <1>15, <1>16, <1>17

-----------------------------------------------------------------------------
(* The number of instance types left for a NodeClaim to choose among *)

First(c) == {o \in UsableReserved(c) : IsFirst(o, UsableReserved(c))}
Choice(c) == IF UsableReserved(c) = {} THEN UsableOffers(c)
             ELSE {o \in UsableReserved(c) : \E p \in First(c) : Market(p) = Market(o)}
Variety(c) == IF \E o \in First(c) : o.crt = "capacity-block" THEN 1
              ELSE Cardinality({o.it : o \in Choice(c)})

LEMMA TypesAreFinite ==
  ASSUME offers \subseteq Catalog, NEW T, T \subseteq ItsOf(offers)
  PROVE  IsFiniteSet(T) /\ Cardinality(T) \in Nat
<1> DEFINE all == {o.it : o \in Catalog}
<1>1. IsFiniteSet(all)
  BY Zenon, TypesAssumption
<1>2. T \in SUBSET all
  BY Zenon DEF ItsOf
<1> HIDE DEF all
<1>3. IsFiniteSet(T)
  BY Zenon, <1>1, <1>2, FS_Subset
<1> QED BY Zenon, <1>3, FS_CardinalityType

\* The offerings that come first are of one market.
LEMMA FirstMarket ==
  ASSUME NEW c, offers \subseteq Catalog, NEW f \in First(c), NEW g \in First(c)
  PROVE  Market(f) = Market(g)
<1>1. /\ f \in Catalog /\ g \in Catalog /\ f.ct = "reserved" /\ g.ct = "reserved"
      /\ IsFirst(f, UsableReserved(c)) /\ IsFirst(g, UsableReserved(c))
      /\ f \in UsableReserved(c) /\ g \in UsableReserved(c)
  BY Zenon DEF First, UsableReserved, UsableOffers
<1>2. /\ f.price \in Nat /\ g.price \in Nat
      /\ Market(f) \in DOMAIN priorities /\ Market(g) \in DOMAIN priorities
  BY Zenon, <1>1, CatalogAssumption
<1>3. /\ f.price < g.price \/ (f.price = g.price /\ priorities[Market(f)] =< priorities[Market(g)])
      /\ g.price < f.price \/ (g.price = f.price /\ priorities[Market(g)] =< priorities[Market(f)])
  BY Zenon, <1>1 DEF IsFirst
<1> DEFINE M == {<<"default", FALSE>>, <<"capacity-block", FALSE>>, <<"default", TRUE>>}
<1>4. \A m, n \in M : priorities[m] \in Nat /\ (priorities[m] = priorities[n] => m = n)
  <2>1. /\ priorities[<<"default", FALSE>>] = 0 /\ priorities[<<"default", TRUE>>] = 2
        /\ priorities[<<"capacity-block", FALSE>>] = 1
    BY ZenonT(30) DEF priorities
  <2>2. 0 \in Nat /\ 1 \in Nat /\ 2 \in Nat /\ 0 # 1 /\ 1 # 2 /\ 0 # 2
    OBVIOUS
  <2> QED BY ZenonT(30), <2>1, <2>2
<1>5. Market(f) \in M /\ Market(g) \in M
  BY Zenon, <1>2 DEF priorities
<1> HIDE DEF M
<1>6. priorities[Market(f)] \in Nat /\ priorities[Market(g)] \in Nat
  BY Zenon, <1>4, <1>5
<1>7. priorities[Market(f)] = priorities[Market(g)]
  BY <1>2, <1>3, <1>6
<1> QED BY Zenon, <1>4, <1>5, <1>7

\* Truncate refuses a NodeClaim exactly when it asks for more types than that.
LEMMA VarietyLeft ==
  ASSUME NEW c \in Claims, offers \subseteq Catalog, free \in [Reservations -> 0 .. MaxCount],
         UsableOffers(c) # {}
  PROVE  (Cardinality(DOMAIN Six(c)) < c.minValues) <=> ~ (c.minValues =< Variety(c))
<1>1. c.minValues \in Nat
  BY Zenon, ClaimsAssumption
<1>2. Choice(c) \subseteq offers
  BY Zenon DEF Choice, UsableReserved, UsableOffers
<1>3. Variety(c) \in Nat
  <2> DEFINE T == {o.it : o \in Choice(c)}
  <2>1. T \subseteq ItsOf(offers)
    BY Zenon, <1>2 DEF ItsOf
  <2> HIDE DEF T
  <2>2. Cardinality(T) \in Nat
    BY Zenon, <2>1, TypesAreFinite
  <2> QED BY <2>2 DEF Variety, T
<1>4. CASE UsableReserved(c) # {}
  <2>1. PICK r \in offers : r.ct = "reserved" /\ Usable(r, c)
    BY Zenon, <1>4 DEF UsableReserved, UsableOffers
  <2>2. /\ Sound(Six(c), c)
        /\ HasMinValues(c) => \E f \in UsableReserved(c) : IsFirst(f, UsableReserved(c)) /\ TypesLeft(Six(c), c, f)
    BY Zenon, <2>1, FilteredReserved
  <2>3. Cardinality(DOMAIN Six(c)) \in Nat
    <3>1. DOMAIN Six(c) \subseteq ItsOf(offers)
      BY ZenonT(30), <2>2 DEF Sound, ItsOf
    <3> QED BY Zenon, <3>1, TypesAreFinite
  <2>4. ASSUME HasMinValues(c) PROVE Cardinality(DOMAIN Six(c)) = Variety(c)
    <3>1. PICK f \in First(c) : TypesLeft(Six(c), c, f)
      BY Zenon, <2>2, <2>4 DEF First
    <3>2. \A g \in First(c) : Market(g) = Market(f) /\ g.crt = f.crt
      <4> SUFFICES ASSUME NEW g \in First(c) PROVE Market(g) = Market(f) /\ g.crt = f.crt
        BY Zenon
      <4>1. Market(g) = Market(f)
        BY Zenon, FirstMarket
      <4> QED BY <4>1 DEF Market
    <3>3. CASE f.crt = "capacity-block"
      <4>1. Variety(c) = 1
        BY Zenon, <3>3 DEF Variety
      <4>2. PICK i : DOMAIN Six(c) = {i}
        BY Zenon, <3>1, <3>3 DEF TypesLeft
      <4> QED BY Zenon, <4>1, <4>2, FS_Singleton
    <3>4. CASE f.crt # "capacity-block"
      <4>1. Variety(c) = Cardinality({o.it : o \in Choice(c)})
        BY Zenon, <3>2, <3>4 DEF Variety
      <4>2. Choice(c) = OfMarket(UsableReserved(c), Market(f))
        BY Zenon, <1>4, <3>2 DEF Choice, OfMarket
      <4>3. DOMAIN Six(c) = ItsOf(OfMarket(UsableReserved(c), Market(f)))
        BY Zenon, <3>1, <3>4 DEF TypesLeft
      <4> QED BY Zenon, <4>1, <4>2, <4>3 DEF ItsOf
    <3> QED BY Zenon, <3>3, <3>4
  <2> QED BY <1>1, <1>3, <2>3, <2>4 DEF HasMinValues
<1>5. CASE UsableReserved(c) = {}
  <2>1. \A r \in offers : r.ct = "reserved" => ~ Usable(r, c)
    BY Zenon, <1>5 DEF UsableReserved, UsableOffers
  <2>2. /\ DOMAIN Six(c) \subseteq ItsOf(offers)
        /\ HasMinValues(c) => DOMAIN Six(c) = ItsOf(UsableOffers(c))
    BY Zenon, <2>1, FilteredOthers
  <2>3. Cardinality(DOMAIN Six(c)) \in Nat
    BY Zenon, <2>2, TypesAreFinite
  <2>4. Variety(c) = Cardinality(ItsOf(UsableOffers(c)))
    BY Zenon, <1>5 DEF Variety, Choice, First, ItsOf
  <2> QED BY <1>1, <1>3, <2>2, <2>3, <2>4 DEF HasMinValues
<1> QED BY Zenon, <1>4, <1>5

-----------------------------------------------------------------------------
(* What Create resolves *)

\* A reserved request q for the types its is unambiguous.
Unambiguous(q, its) ==
    /\ Cardinality(q.targets) = 1
    /\ Cardinality({Market(o) : o \in q.overrides}) = 1
    /\ q.targets = {"capacity-block"} => Cardinality(q.overrides) = 1
    /\ \A o \in q.overrides : {p.id : p \in {x \in its[o.it] : x.ct = "reserved" /\ x.zone = o.zone}} = {o.id}

\* The overrides are launchable offerings of the chosen capacity type.
LEMMA ChosenOverrides ==
  ASSUME NEW c
  PROVE  LET its == Six(c)  q == Build(its, c)
         IN  \A o : o \in q.overrides <=> /\ \E it \in DOMAIN its : o \in its[it]
                                          /\ o.ct = q.ct /\ Usable(o, c)
  BY Zenon DEF Build, getOverrides

\* The capacity type is reserved while there is a reservation to launch into, and then spot.
LEMMA ChosenType ==
  ASSUME NEW c
  PROVE  LET its == Six(c)  q == Build(its, c)
             Has(ct) == \E it \in DOMAIN its : \E o \in its[it] : o.ct = ct /\ Usable(o, c)
         IN  q.ct = IF Has("reserved") THEN "reserved" ELSE IF Has("spot") THEN "spot" ELSE "on-demand"
  BY Zenon DEF Build, getCapacityType

LEMMA ResolvedReserved ==
  ASSUME NEW c, offers \subseteq Catalog, free \in [Reservations -> 0 .. MaxCount],
         NEW r \in offers, r.ct = "reserved", Usable(r, c)
  PROVE  LET its == Six(c)  q == Build(its, c)
         IN  /\ q.ct = "reserved" /\ q.overrides # {} /\ DOMAIN its # {} /\ Unambiguous(q, its)
             /\ \A o \in q.overrides : o \in offers /\ o.it \in DOMAIN its /\ o \in its[o.it]
<1> DEFINE its == Six(c)
           q == Build(its, c)
<1>1. /\ DOMAIN its # {} /\ Sound(its, c) /\ OnePerPool(its)
      /\ \A it \in DOMAIN its : \A o \in its[it] : Usable(o, c)
      /\ \E m : InMarket(its, m) /\ (m[1] = "capacity-block" => Alone(its))
  BY Zenon, FilteredReserved
<1>2. PICK m : InMarket(its, m) /\ (m[1] = "capacity-block" => Alone(its))
  BY Zenon, <1>1
<1>3. PICK i \in DOMAIN its : TRUE
  BY Zenon, <1>1
<1>4. PICK x \in its[i] : Usable(x, c)
  BY Zenon, <1>1 DEF Sound
<1>5. x.ct = "reserved" /\ Market(x) = m
  BY Zenon, <1>2 DEF InMarket
<1>6. q.ct = "reserved"
  BY Zenon, <1>4, <1>5, ChosenType
<1>7. \A o : o \in q.overrides <=> \E it \in DOMAIN its : o \in its[it]
  <2>1. \A it \in DOMAIN its : \A o \in its[it] : o.ct = q.ct /\ Usable(o, c)
    BY Zenon, <1>1, <1>2, <1>6 DEF InMarket
  <2> QED BY <2>1, ChosenOverrides, Zenon
<1>8. x \in q.overrides
  BY Zenon, <1>7
<1>9. \A o \in q.overrides : o \in offers /\ o.it \in DOMAIN its /\ o \in its[o.it] /\ Market(o) = m /\ o.ct = "reserved"
  BY <1>1, <1>2, <1>7 DEF Sound, InMarket
<1> DEFINE T(k) == IF k[1] = "capacity-block" THEN "capacity-block"
                   ELSE IF k[2] THEN "reserved-capacity" ELSE "on-demand"
<1>10. getCapacityReservationType(its) = {m}
  BY <1>2, <1>4, <1>5 DEF getCapacityReservationType, InMarket
<1>11. q.targets = {T(m)}
  <2>1. q.targets = {T(k) : k \in getCapacityReservationType(its)}
    BY <1>6, Zenon DEF Build, defaultTargetCapacityType
  <2> QED BY Zenon, <1>10, <2>1
<1>12. {Market(o) : o \in q.overrides} = {m}
  BY Zenon, <1>8, <1>9
<1>13. ASSUME q.targets = {"capacity-block"} PROVE Cardinality(q.overrides) = 1
  <2>1. m[1] = "capacity-block"
    BY Zenon, <1>11, <1>13
  <2>2. \A o \in q.overrides : o = x
    BY <1>2, <1>7, <2>1 DEF Alone
  <2>3. q.overrides = {x}
    BY Zenon, <1>8, <2>2
  <2> QED BY ZenonT(30), <2>3, FS_Singleton
<1>14. ASSUME NEW o \in q.overrides
       PROVE  {p.id : p \in {y \in its[o.it] : y.ct = "reserved" /\ y.zone = o.zone}} = {o.id}
  <2>1. {y \in its[o.it] : y.ct = "reserved" /\ y.zone = o.zone} = {o}
    BY <1>1, <1>9 DEF OnePerPool
  <2> QED BY Zenon, <2>1
<1>15. Cardinality(q.targets) = 1 /\ Cardinality({Market(o) : o \in q.overrides}) = 1
  BY <1>11, <1>12, FS_Singleton, Zenon
<1> HIDE DEF q, its
<1>16. Unambiguous(q, its)
  BY Zenon, <1>13, <1>14, <1>15 DEF Unambiguous
<1> QED BY Zenon, <1>1, <1>6, <1>8, <1>9, <1>16 DEF q, its

LEMMA ResolvedOthers ==
  ASSUME NEW c, offers \subseteq Catalog, \A r \in offers : r.ct = "reserved" => ~ Usable(r, c)
  PROVE  LET its == Six(c)  q == Build(its, c)
         IN  /\ q.ct \in {"spot", "on-demand"}
             /\ (\E o \in offers : Usable(o, c)) => DOMAIN its # {} /\ q.overrides # {}
             /\ (\A o \in offers : ~ Usable(o, c)) => DOMAIN its = {}
             /\ \A o \in q.overrides : o \in offers /\ o.it \in DOMAIN its /\ o \in its[o.it]
             /\ ~ HasMinValues(c) /\ (\E o \in offers : Usable(o, c) /\ o.it \notin Exotic)
                   => \A o \in q.overrides : o.it \notin Exotic
             /\ ~ HasMinValues(c) /\ q.ct = "spot" =>
                   \A s \in q.overrides : \A j \in DOMAIN its : \A d \in its[j] :
                       d.ct = "on-demand" /\ Usable(d, c) => s.price <= d.price
<1> DEFINE its == Six(c)
           q == Build(its, c)
<1>1. \A it \in DOMAIN its : \A o \in its[it] : o \in offers /\ o.it = it
  BY Zenon, FilteredOthers
<1>2. q.ct \in {"spot", "on-demand"} /\ (q.ct = "on-demand" =>
          \A it \in DOMAIN its : \A o \in its[it] : o.ct = "spot" => ~ Usable(o, c))
  BY Zenon, <1>1, ChosenType
<1>3. \A o : o \in q.overrides <=> /\ \E it \in DOMAIN its : o \in its[it]
                                   /\ o.ct = q.ct /\ Usable(o, c)
  BY Zenon, ChosenOverrides
<1>4. ASSUME \E o \in offers : Usable(o, c) PROVE DOMAIN its # {} /\ q.overrides # {}
  <2>1. PICK it \in DOMAIN its : \E o \in its[it] : Usable(o, c)
    BY Zenon, <1>4, FilteredOthers
  <2>2. PICK o \in its[it] : Usable(o, c)
    BY Zenon, <2>1
  <2>3. o.ct \in {"spot", "on-demand"}
    BY ZenonT(30), <1>1, <2>2, CatalogAssumption
  <2>4. CASE q.ct = "on-demand"
    BY Zenon, <1>2, <1>3, <2>2, <2>3, <2>4
  <2>5. CASE q.ct = "spot"
    <3>1. \E j \in DOMAIN its : \E s \in its[j] : s.ct = "spot" /\ Usable(s, c)
      BY Zenon, <2>5, ChosenType
    <3> QED BY Zenon, <1>3, <2>5, <3>1
  <2> QED BY Zenon, <1>2, <2>4, <2>5
<1>5. \A o \in q.overrides : o \in offers /\ o.it \in DOMAIN its /\ o \in its[o.it]
  BY <1>1, <1>3
<1>6. (\A o \in offers : ~ Usable(o, c)) => DOMAIN its = {}
  BY Zenon, FilteredOthers
<1>7. ~ HasMinValues(c) /\ (\E o \in offers : Usable(o, c) /\ o.it \notin Exotic)
         => \A o \in q.overrides : o.it \notin Exotic
  <2>1. ~ HasMinValues(c) /\ (\E o \in offers : Usable(o, c) /\ o.it \notin Exotic) => DOMAIN its \cap Exotic = {}
    BY Zenon, FilteredOthers
  <2> QED BY Zenon, <1>5, <2>1
<1>8. ASSUME ~ HasMinValues(c), q.ct = "spot", NEW s \in q.overrides, NEW j \in DOMAIN its, NEW d \in its[j],
             d.ct = "on-demand", Usable(d, c)
      PROVE  s.price <= d.price
  <2>1. PICK i \in DOMAIN its : s \in its[i] /\ s.ct = "spot" /\ Usable(s, c)
    BY Zenon, <1>3, <1>8
  <2> QED BY Zenon, <1>8, <2>1, FilteredOthers
<1> HIDE DEF q, its
<1> QED BY Zenon, <1>2, <1>4, <1>5, <1>6, <1>7, <1>8 DEF q, its

-----------------------------------------------------------------------------
(* The inductive invariant *)

Targets == {"spot", "on-demand", "capacity-block", "reserved-capacity"}
Requests == [ct : {"", "reserved", "spot", "on-demand"}, targets : SUBSET Targets, overrides : SUBSET Catalog]

\* The offerings and the request a launch works with, and that the overrides of a request
\* under way are offerings of the types it was made from.
RequestFits ==
    /\ offers \subseteq Catalog
    /\ request \in Requests
    /\ phase = "fleet" =>
          /\ claim \in Claims
          /\ \A o \in request.overrides : o.ct = request.ct /\ o.it \in DOMAIN types /\ o \in types[o.it]

\* Where a failure that is remembered can be read: the count of the reservation, the capacity
\* type, the subnet, or the offering in the scope the failure concerns.
Noted(f) ==
    LET o == f.offering
    IN  /\ f.kind = "exceeded" => o.ct = "reserved" /\ free[o.id] = 0
        /\ f.kind = "service-linked-role" => o.ct = "spot" /\ "spot" \in unavailable.capacityTypes
        /\ f.kind = "addresses" => o.zone \in unavailable.subnets
        /\ o.ct = "reserved" /\ f.kind \in {"capacity", "addresses"} =>
              key(o, <<o.id>>) \in unavailable.offerings
        /\ o.ct # "reserved" /\ f.partition = "" /\ f.kind \in {"capacity", "spread-limit"} =>
              key(o, IF f.pg = "" THEN <<>> ELSE <<f.pg>>) \in unavailable.offerings

AllNoted == \A f \in failures : Noted(f)

\* Every mark of the cache is the trace of a failure that lasts as long as the cache does.
Lasting == {f \in failures : f.kind # "exceeded"}

RoleMissing == \E f \in Lasting : f.kind = "service-linked-role"
NoAddresses(z) == \E f \in Lasting : f.kind = "addresses" /\ f.offering.zone = z
HasFailed(o) == \E f \in Lasting : f.offering = o
HasFailedAlone(o) == \E f \in Lasting : f.offering = o /\ f.pg = ""
HasFailedIn(o, g) ==
    \E f \in Lasting : /\ f.pg = g
                       /\ \/ f.offering = o
                          \/ f.kind = "spread-limit" /\ f.offering.zone = o.zone /\ f.offering.ct = o.ct

MarkedForCause ==
    /\ unavailable.capacityTypes \subseteq {"spot"}
    /\ "spot" \in unavailable.capacityTypes => RoleMissing
    /\ \A z \in unavailable.subnets : NoAddresses(z)
    /\ \A o \in offers : o.ct = "reserved" /\ key(o, <<o.id>>) \in unavailable.offerings => HasFailed(o)
    /\ \A o \in offers : o.ct # "reserved" /\ key(o, <<>>) \in unavailable.offerings => HasFailedAlone(o)
    /\ \A o \in offers, g \in STRING :
          o.ct # "reserved" /\ key(o, <<g>>) \in unavailable.offerings => HasFailedIn(o, g)

LaunchIInv == LaunchTypeOK /\ RequestFits /\ ReservedIsUnambiguous /\ AllNoted /\ MarkedForCause

\* The marks being for a cause, an offering is closed for one.
LEMMA ClosedForCause == LaunchIInv => NothingElseIsClosed
<1> SUFFICES ASSUME LaunchIInv, NEW o \in offers, NEW c \in Claims, ~ Available(o, c.pg)
             PROVE  \E f \in failures :
                       \/ f.offering = o /\ (o.ct = "reserved" \/ f.pg \in {"", c.pg})
                       \/ f.kind = "spread-limit" /\ f.pg = c.pg /\ f.offering.zone = o.zone /\ f.offering.ct = o.ct
                       \/ f.kind = "addresses" /\ o.ct # "reserved" /\ f.offering.zone = o.zone
                       \/ f.kind = "service-linked-role" /\ o.ct = "spot"
  BY ZenonT(30) DEF NothingElseIsClosed
<1>1. MarkedForCause /\ c.pg \in STRING
  BY Zenon, ClaimsAssumption DEF LaunchIInv
<1>2. \A f \in Lasting : f \in failures
  BY Zenon DEF Lasting
<1>3. CASE o.ct = "reserved"
  <2>1. key(o, <<o.id>>) \in unavailable.offerings
    BY Zenon, <1>1, <1>3 DEF Available, IsUnavailable, MarkedForCause
  <2>2. HasFailed(o)
    BY Zenon, <1>1, <1>3, <2>1 DEF MarkedForCause
  <2> QED BY <1>2, <1>3, <2>2, Zenon DEF HasFailed
<1>4. CASE o.ct # "reserved"
  <2>1. \/ key(o, <<>>) \in unavailable.offerings
        \/ key(o, <<c.pg>>) \in unavailable.offerings
        \/ o.ct \in unavailable.capacityTypes
        \/ o.zone \in unavailable.subnets
    BY ZenonT(30), <1>4 DEF Available, IsUnavailable
  <2>2. \/ HasFailedAlone(o) \/ HasFailedIn(o, c.pg)
        \/ o.ct = "spot" /\ RoleMissing
        \/ NoAddresses(o.zone)
    BY ZenonT(30), <1>1, <1>4, <2>1 DEF MarkedForCause
  <2> QED BY ZenonT(30), <1>2, <1>4, <2>2 DEF HasFailedAlone, HasFailedIn, RoleMissing, NoAddresses
<1> QED BY ZenonT(30), <1>3, <1>4

\* The errors of an answer are errors of overrides.
LEMMA AnswerDomain ==
  ASSUME NEW errs \in LaunchAnswers \cup {<<>>}
  PROVE  DOMAIN errs \subseteq request.overrides
<1>1. CASE errs = <<>>
  BY <1>1
<1>2. CASE errs \in LaunchAnswers
  <2> DEFINE D == request.overrides
             K == UNION {Kinds(o) : o \in D}
             Both(x, k) == {[o \in {x} |-> k], [o \in D |-> IF o = x THEN k ELSE "capacity"]}
  <2>1. LaunchAnswers = UNION {Both(x, k) : x \in D, k \in K}
    BY DEF LaunchAnswers
  <2>2. \A x \in D, k \in K : \A e \in Both(x, k) : DOMAIN e \subseteq D
    OBVIOUS
  <2> HIDE DEF D, K, Both
  <2>3. \E x \in D, k \in K : errs \in Both(x, k)
    BY <1>2, <2>1
  <2> QED BY Zenon, <2>2, <2>3 DEF D
<1> QED BY Zenon, <1>1, <1>2

\* A later launch does not ask for what a failure is remembered and concerns it.
LEMMA NotedIsClosed ==
  ASSUME LaunchIInv, NEW f \in failures, NEW c, Remembered(f), Concerns(f, c)
  PROVE  ~ Usable(f.offering, c)
<1> DEFINE o == f.offering
<1>1. Noted(f) /\ f \in [offering : offers, kind : {"capacity", "exceeded", "spread-limit", "addresses",
                         "other", "service-linked-role"}, pg : STRING, partition : STRING]
  BY Zenon DEF LaunchIInv, AllNoted, LaunchTypeOK
<1>2. o \in offers /\ offers \subseteq Catalog /\ free \in [Reservations -> 0 .. MaxCount]
  BY Zenon, <1>1 DEF LaunchIInv, RequestFits, LaunchTypeOK
<1>3. CASE f.kind = "exceeded"
  BY <1>1, <1>3 DEF Noted, Usable, Launchable
<1>4. CASE f.kind = "service-linked-role"
  BY ZenonT(30), <1>1, <1>4 DEF Noted, Usable, Launchable, Available, IsUnavailable
<1>5. CASE o.ct = "reserved" /\ f.kind \in {"capacity", "addresses"}
  BY Zenon, <1>1, <1>5 DEF Noted, Usable, Launchable, Available, IsUnavailable
<1>6. CASE o.ct # "reserved" /\ f.kind = "addresses"
  BY ZenonT(30), <1>1, <1>6 DEF Noted, Usable, Launchable, Available, IsUnavailable
<1>7. CASE o.ct # "reserved" /\ f.kind \in {"capacity", "spread-limit"}
  <2>1. f.partition = "" /\ f.pg \in {"", c.pg}
    BY ZenonT(30), <1>7 DEF Remembered, Concerns
  <2>2. key(o, IF f.pg = "" THEN <<>> ELSE <<f.pg>>) \in unavailable.offerings
    BY ZenonT(30), <1>1, <1>7, <2>1 DEF Noted
  <2> QED BY ZenonT(30), <1>7, <2>1, <2>2 DEF Usable, Launchable, Available, IsUnavailable
<1> QED BY ZenonT(30), <1>1, <1>3, <1>4, <1>5, <1>6, <1>7 DEF Remembered, IsUnfulfillableCapacity

FailureKinds == {"capacity", "exceeded", "spread-limit", "addresses", "other", "service-linked-role"}

\* What an error of an answer says of the override it is about, and what the answer marks for it.
LEMMA AnswerMarks ==
  ASSUME LaunchIInv, phase = "fleet", NEW errs, DOMAIN errs \subseteq request.overrides, Plausible(errs),
         updateUnavailableOfferingsCache(errs), NEW o \in DOMAIN errs
  PROVE  /\ o \in offers /\ o.it \in DOMAIN types /\ o.ct = request.ct
         /\ o.ct = "reserved" => reservedOfferingID(o.it, o.zone) = {o.id}
         /\ errs[o] \in FailureKinds
         /\ errs[o] = "exceeded" => o.ct = "reserved"
         /\ errs[o] = "service-linked-role" => o.ct = "spot"
         /\ errs[o] = "spread-limit" => claim.pg # "" /\ claim.partition = ""
         /\ IsUnfulfillableCapacity(errs[o]) =>
               (IF request.ct = "reserved" THEN ReservedMarksOf(o, errs[o]) ELSE MarksOf(o, errs[o]))
                   \subseteq unavailable'.offerings
<1>1. o \in offers /\ o.it \in DOMAIN types /\ o.ct = request.ct /\ o \in request.overrides
  BY Zenon DEF LaunchIInv, LaunchTypeOK, RequestFits
<1>2. o.ct = "reserved" => reservedOfferingID(o.it, o.zone) = {o.id}
  BY Zenon, <1>1 DEF LaunchIInv, ReservedIsUnambiguous, reservedOfferingID
<1>3. errs[o] \in Kinds(o)
  BY Zenon DEF Plausible
<1>4. /\ errs[o] \in FailureKinds
      /\ errs[o] = "exceeded" => o.ct = "reserved"
      /\ errs[o] = "service-linked-role" => o.ct = "spot"
      /\ errs[o] = "spread-limit" => claim.pg # "" /\ claim.partition = ""
  BY ZenonT(30), <1>3 DEF Kinds, FailureKinds
<1> DEFINE M(p) == IF request.ct = "reserved" THEN ReservedMarksOf(p, errs[p]) ELSE MarksOf(p, errs[p])
           U == {p \in DOMAIN errs : IsUnfulfillableCapacity(errs[p])}
<1>5. unavailable'.offerings = unavailable.offerings \cup UNION {M(p) : p \in U}
  BY Zenon DEF updateUnavailableOfferingsCache
<1>6. IsUnfulfillableCapacity(errs[o]) => M(o) \subseteq unavailable'.offerings
  <2> HIDE DEF M
  <2> QED BY Zenon, <1>5
<1> QED BY ZenonT(30), <1>1, <1>2, <1>4, <1>6

\* The offerings, capacity types and subnets an answer marks.
LEMMA AnswerCache ==
  ASSUME NEW errs, updateUnavailableOfferingsCache(errs)
  PROVE  /\ unavailable.offerings \subseteq unavailable'.offerings
         /\ \A k \in unavailable'.offerings \ unavailable.offerings :
               \E p \in DOMAIN errs : /\ IsUnfulfillableCapacity(errs[p])
                                      /\ k \in IF request.ct = "reserved" THEN ReservedMarksOf(p, errs[p])
                                               ELSE MarksOf(p, errs[p])
         /\ unavailable'.capacityTypes = unavailable.capacityTypes \cup
               (IF \E o \in DOMAIN errs : errs[o] = "service-linked-role" THEN {"spot"} ELSE {})
         /\ unavailable'.subnets = unavailable.subnets \cup
               {o.zone : o \in {p \in DOMAIN errs : errs[p] = "addresses"}}
         /\ free' = [r \in Reservations |-> IF r \in Zeroed(errs) THEN 0 ELSE free[r]]
         /\ failures' = failures \cup
               {[offering |-> o, kind |-> errs[o], pg |-> claim.pg, partition |-> claim.partition] : o \in DOMAIN errs}
<1> DEFINE M(p) == IF request.ct = "reserved" THEN ReservedMarksOf(p, errs[p]) ELSE MarksOf(p, errs[p])
           U == {p \in DOMAIN errs : IsUnfulfillableCapacity(errs[p])}
<1>1. unavailable'.offerings = unavailable.offerings \cup UNION {M(p) : p \in U}
  BY Zenon DEF updateUnavailableOfferingsCache
<1>2. \A k \in unavailable'.offerings \ unavailable.offerings : \E p \in U : k \in M(p)
  <2> HIDE DEF M, U
  <2> QED BY Zenon, <1>1
<1>3. \A k \in unavailable'.offerings \ unavailable.offerings :
         \E p \in DOMAIN errs : IsUnfulfillableCapacity(errs[p]) /\ k \in M(p)
  BY <1>2, Zenon
<1>4. unavailable'.capacityTypes = unavailable.capacityTypes \cup
         (IF \E o \in DOMAIN errs : errs[o] = "service-linked-role" THEN {"spot"} ELSE {})
  BY Zenon DEF updateUnavailableOfferingsCache
<1>5. unavailable'.subnets = unavailable.subnets \cup {o.zone : o \in {p \in DOMAIN errs : errs[p] = "addresses"}}
  BY Zenon DEF updateUnavailableOfferingsCache
<1>6. /\ free' = [r \in Reservations |-> IF r \in Zeroed(errs) THEN 0 ELSE free[r]]
      /\ failures' = failures \cup
            {[offering |-> o, kind |-> errs[o], pg |-> claim.pg, partition |-> claim.partition] : o \in DOMAIN errs}
  BY Zenon DEF updateUnavailableOfferingsCache
<1> QED BY <1>1, <1>3, <1>4, <1>5, <1>6, Zenon

\* The answers' failures are typed, and so are the counts of the reservations.
LEMMA AnswerTypes ==
  ASSUME LaunchIInv, phase = "fleet", NEW errs, DOMAIN errs \subseteq request.overrides, Plausible(errs),
         updateUnavailableOfferingsCache(errs), offers' = offers
  PROVE  /\ free' \in [Reservations -> 0 .. MaxCount]
         /\ failures' \subseteq [offering : offers', kind : FailureKinds, pg : STRING, partition : STRING]
         /\ \A o \in offers : o.ct = "reserved" => free'[o.id] = 0 \/ free'[o.id] = free[o.id]
         /\ \A o \in DOMAIN errs : errs[o] = "exceeded" => free'[o.id] = 0
<1>1. free \in [Reservations -> 0 .. MaxCount] /\ offers \subseteq Catalog /\ claim \in Claims
      /\ failures \subseteq [offering : offers, kind : FailureKinds, pg : STRING, partition : STRING]
  BY Zenon DEF LaunchIInv, LaunchTypeOK, RequestFits, FailureKinds
<1>2. free' = [r \in Reservations |-> IF r \in Zeroed(errs) THEN 0 ELSE free[r]]
  BY AnswerCache, Zenon
<1>3. free' \in [Reservations -> 0 .. MaxCount]
  BY <1>1, <1>2, OffersAssumption
<1>4. \A o \in offers : o.ct = "reserved" => o.id \in Reservations
  BY Zenon, <1>1 DEF Reservations
<1>5. \A o \in offers : o.ct = "reserved" => free'[o.id] = 0 \/ free'[o.id] = free[o.id]
  BY Zenon, <1>2, <1>4
<1>6. ASSUME NEW o \in DOMAIN errs, errs[o] = "exceeded" PROVE free'[o.id] = 0
  <2>1. o \in offers /\ o.ct = "reserved" /\ request.ct = "reserved" /\ reservedOfferingID(o.it, o.zone) = {o.id}
    BY ZenonT(30), <1>6, AnswerMarks
  <2> DEFINE E == {p \in DOMAIN errs : errs[p] = "exceeded"}
  <2>2. Zeroed(errs) = UNION {reservedOfferingID(p.it, p.zone) : p \in E}
    BY Zenon, <2>1 DEF Zeroed
  <2>3. o \in E
    BY Zenon, <1>6
  <2>4. o.id \in Zeroed(errs)
    <3> HIDE DEF E
    <3> QED BY Zenon, <2>1, <2>2, <2>3
  <2> QED BY Zenon, <1>2, <1>4, <2>1, <2>4
<1>7. ASSUME NEW o \in DOMAIN errs
      PROVE  [offering |-> o, kind |-> errs[o], pg |-> claim.pg, partition |-> claim.partition]
                 \in [offering : offers', kind : FailureKinds, pg : STRING, partition : STRING]
  <2>1. o \in offers' /\ errs[o] \in FailureKinds
    BY ZenonT(30), AnswerMarks
  <2>2. claim.pg \in STRING /\ claim.partition \in STRING
    BY Zenon, <1>1, ClaimsAssumption
  <2> QED BY Zenon, <2>1, <2>2
<1>8. failures' = failures \cup
        {[offering |-> o, kind |-> errs[o], pg |-> claim.pg, partition |-> claim.partition] : o \in DOMAIN errs}
  BY AnswerCache, Zenon
<1>9. failures' \subseteq [offering : offers', kind : FailureKinds, pg : STRING, partition : STRING]
  BY Zenon, <1>1, <1>7, <1>8
<1> QED BY Zenon, <1>3, <1>5, <1>6, <1>9

\* The failures of an answer can be read from the cache and the counts, and the earlier ones still.
LEMMA AnswerNoted ==
  ASSUME LaunchIInv, phase = "fleet", NEW errs, DOMAIN errs \subseteq request.overrides, Plausible(errs),
         updateUnavailableOfferingsCache(errs), offers' = offers
  PROVE  AllNoted'
<1>1. /\ unavailable.offerings \subseteq unavailable'.offerings
      /\ unavailable.capacityTypes \subseteq unavailable'.capacityTypes
      /\ unavailable.subnets \subseteq unavailable'.subnets
  BY Zenon, AnswerCache
<1>2. ASSUME NEW f \in failures PROVE Noted(f)'
  <2>1. Noted(f) /\ f.offering \in offers
    BY Zenon DEF LaunchIInv, AllNoted, LaunchTypeOK
  <2>2. f.kind = "exceeded" => f.offering.ct = "reserved" /\ free'[f.offering.id] = 0
    <3>1. \A o \in offers : o.ct = "reserved" => free'[o.id] = 0 \/ free'[o.id] = free[o.id]
      BY Zenon, AnswerTypes
    <3> QED BY Zenon, <2>1, <3>1 DEF Noted
  <2> QED BY ZenonT(30), <1>1, <2>1, <2>2 DEF Noted
<1>3. ASSUME NEW o \in DOMAIN errs, NEW f,
             f = [offering |-> o, kind |-> errs[o], pg |-> claim.pg, partition |-> claim.partition]
      PROVE  Noted(f)'
  <2>1. f.offering = o /\ f.kind = errs[o] /\ f.pg = claim.pg /\ f.partition = claim.partition
    BY Zenon, <1>3
  <2>2. /\ o \in offers /\ o.it \in DOMAIN types /\ o.ct = request.ct
        /\ o.ct = "reserved" => reservedOfferingID(o.it, o.zone) = {o.id}
        /\ errs[o] = "exceeded" => o.ct = "reserved"
        /\ errs[o] = "service-linked-role" => o.ct = "spot"
        /\ errs[o] = "spread-limit" => claim.pg # "" /\ claim.partition = ""
        /\ IsUnfulfillableCapacity(errs[o]) =>
              (IF request.ct = "reserved" THEN ReservedMarksOf(o, errs[o]) ELSE MarksOf(o, errs[o]))
                  \subseteq unavailable'.offerings
    BY ZenonT(30), AnswerMarks
  <2>3. errs[o] = "exceeded" => o.ct = "reserved" /\ free'[o.id] = 0
    BY Zenon, <2>2, AnswerTypes
  <2>4. errs[o] = "service-linked-role" => o.ct = "spot" /\ "spot" \in unavailable'.capacityTypes
    BY Zenon, <2>2, AnswerCache
  <2>5. errs[o] = "addresses" => o.zone \in unavailable'.subnets
    BY AnswerCache
  <2>6. ASSUME o.ct = "reserved", errs[o] \in {"capacity", "addresses"}
        PROVE  key(o, <<o.id>>) \in unavailable'.offerings
    <3>1. ReservedMarksOf(o, errs[o]) \subseteq unavailable'.offerings
      BY ZenonT(30), <2>2, <2>6 DEF IsUnfulfillableCapacity
    <3>2. ReservedMarksOf(o, errs[o]) = {key(o, <<id>>) : id \in reservedOfferingID(o.it, o.zone)}
      BY Zenon, <2>6 DEF ReservedMarksOf
    <3> QED BY ZenonT(30), <2>2, <2>6, <3>1, <3>2
  <2>7. ASSUME o.ct # "reserved", claim.partition = "", errs[o] \in {"capacity", "spread-limit"}
        PROVE  key(o, IF claim.pg = "" THEN <<>> ELSE <<claim.pg>>) \in unavailable'.offerings
    <3>1. MarksOf(o, errs[o]) \subseteq unavailable'.offerings
      BY ZenonT(30), <2>2, <2>7 DEF IsUnfulfillableCapacity
    <3>2. CASE errs[o] = "capacity"
      <4>1. key(o, pgOpts) \in MarksOf(o, errs[o])
        BY Zenon, <3>2 DEF MarksOf
      <4>2. pgOpts = IF claim.pg = "" THEN <<>> ELSE <<claim.pg>>
        BY <2>7, Zenon DEF pgOpts
      <4> QED BY ZenonT(30), <3>1, <4>1, <4>2
    <3>3. CASE errs[o] = "spread-limit"
      <4>1. claim.pg # ""
        BY ZenonT(30), <2>2, <3>3
      <4>2. MarksOf(o, errs[o]) = {<<o.ct, it, o.zone, <<claim.pg>>>> : it \in DOMAIN types}
        BY ZenonT(30), <3>3, <4>1 DEF MarksOf
      <4>3. key(o, <<claim.pg>>) \in MarksOf(o, errs[o])
        BY ZenonT(30), <2>2, <4>2 DEF key
      <4> QED BY ZenonT(30), <3>1, <4>1, <4>3
    <3> QED BY ZenonT(30), <2>7, <3>2, <3>3
  <2> QED BY ZenonT(30), <2>1, <2>3, <2>4, <2>5, <2>6, <2>7 DEF Noted
<1>4. failures' = failures \cup
        {[offering |-> o, kind |-> errs[o], pg |-> claim.pg, partition |-> claim.partition] : o \in DOMAIN errs}
  BY AnswerCache, Zenon
<1>5. \A f \in failures' : f \in failures \/ \E o \in DOMAIN errs :
         f = [offering |-> o, kind |-> errs[o], pg |-> claim.pg, partition |-> claim.partition]
  BY <1>4, Zenon
<1>6. \A f \in failures' : Noted(f)'
  BY <1>2, <1>3, <1>5, Zenon
<1> QED BY <1>6, Zenon DEF AllNoted

\* What an answer marks, it marks for a failure of its own.
LEMMA AnswerCaused ==
  ASSUME LaunchIInv, phase = "fleet", NEW errs, DOMAIN errs \subseteq request.overrides, Plausible(errs),
         updateUnavailableOfferingsCache(errs), offers' = offers
  PROVE  MarkedForCause'
<1>1. MarkedForCause /\ offers \subseteq Catalog /\ claim \in Claims
  BY Zenon DEF LaunchIInv, RequestFits
<1>2. ASSUME NEW o \in DOMAIN errs, errs[o] # "exceeded"
      PROVE  \E f \in Lasting' : f.offering = o /\ f.kind = errs[o] /\ f.pg = claim.pg
  <2> DEFINE f == [offering |-> o, kind |-> errs[o], pg |-> claim.pg, partition |-> claim.partition]
  <2>1. f \in failures'
    BY AnswerCache
  <2>2. f.offering = o /\ f.kind = errs[o] /\ f.pg = claim.pg
    BY Zenon
  <2> HIDE DEF f
  <2> QED BY Zenon, <1>2, <2>1, <2>2 DEF Lasting
<1>3. Lasting \subseteq Lasting'
  <2>1. failures \subseteq failures'
    BY Zenon, AnswerCache
  <2> QED BY Zenon, <2>1 DEF Lasting
<1>4. unavailable'.capacityTypes \subseteq {"spot"}
  <2>1. unavailable.capacityTypes \subseteq {"spot"}
    BY Zenon, <1>1 DEF MarkedForCause
  <2> QED BY Zenon, <2>1, AnswerCache
<1>5. "spot" \in unavailable'.capacityTypes => RoleMissing'
  <2>1. CASE "spot" \in unavailable.capacityTypes
    <3>1. RoleMissing
      BY Zenon, <1>1, <2>1 DEF MarkedForCause
    <3> QED BY Zenon, <1>3, <3>1 DEF RoleMissing
  <2>2. CASE \E o \in DOMAIN errs : errs[o] = "service-linked-role"
    BY Zenon, <1>2, <2>2 DEF RoleMissing
  <2> QED BY Zenon, <2>1, <2>2, AnswerCache
<1>6. ASSUME NEW z \in unavailable'.subnets
      PROVE  NoAddresses(z)'
  <2>1. CASE z \in unavailable.subnets
    <3>1. NoAddresses(z)
      BY Zenon, <1>1, <2>1 DEF MarkedForCause
    <3> QED BY Zenon, <1>3, <3>1 DEF NoAddresses
  <2>2. CASE z \notin unavailable.subnets
    <3>1. PICK o \in DOMAIN errs : errs[o] = "addresses" /\ o.zone = z
      BY SMTT(30), <2>2, AnswerCache
    <3> QED BY <1>2, <3>1 DEF NoAddresses
  <2> QED BY Zenon, <2>1, <2>2
\* An override refused, as it is marked
<1>7. ASSUME NEW k \in unavailable'.offerings \ unavailable.offerings
      PROVE  \E p \in DOMAIN errs :
                /\ p \in offers /\ p.ct = request.ct /\ errs[p] # "exceeded"
                /\ \/ p.ct = "reserved" /\ k = key(p, <<p.id>>)
                   \/ p.ct # "reserved" /\ k = key(p, pgOpts)
                   \/ /\ p.ct # "reserved" /\ errs[p] = "spread-limit"
                      /\ \E it \in DOMAIN types : k = <<p.ct, it, p.zone, <<claim.pg>>>>
  <2>1. PICK p \in DOMAIN errs : /\ IsUnfulfillableCapacity(errs[p])
                                 /\ k \in IF request.ct = "reserved" THEN ReservedMarksOf(p, errs[p])
                                          ELSE MarksOf(p, errs[p])
    BY AnswerCache, Zenon
  <2>2. /\ p \in offers /\ p.ct = request.ct /\ (errs[p] = "exceeded" => p.ct = "reserved")
        /\ p.ct = "reserved" => reservedOfferingID(p.it, p.zone) = {p.id}
    BY ZenonT(30), AnswerMarks
  <2>3. CASE p.ct = "reserved"
    <3>1. errs[p] # "exceeded" /\ k \in {key(p, <<id>>) : id \in reservedOfferingID(p.it, p.zone)}
      BY Zenon, <2>1, <2>2, <2>3 DEF ReservedMarksOf
    <3>2. k = key(p, <<p.id>>)
      BY ZenonT(30), <2>2, <2>3, <3>1
    <3> QED BY Zenon, <2>2, <2>3, <3>1, <3>2
  <2>4. CASE p.ct # "reserved"
    <3>1. k \in MarksOf(p, errs[p])
      BY Zenon, <2>1, <2>2, <2>4
    <3>2. \/ k = key(p, pgOpts)
          \/ errs[p] = "spread-limit" /\ \E it \in DOMAIN types : k = <<p.ct, it, p.zone, <<claim.pg>>>>
      BY <3>1, Zenon DEF MarksOf
    <3> QED BY Zenon, <2>2, <2>4, <3>2
  <2> QED BY Zenon, <2>3, <2>4
<1>8. ASSUME NEW o \in offers, o.ct = "reserved", key(o, <<o.id>>) \in unavailable'.offerings
      PROVE  HasFailed(o)'
  <2>1. CASE key(o, <<o.id>>) \in unavailable.offerings
    <3>1. HasFailed(o)
      BY Zenon, <1>1, <1>8, <2>1 DEF MarkedForCause
    <3> QED BY Zenon, <1>3, <3>1 DEF HasFailed
  <2>2. CASE key(o, <<o.id>>) \notin unavailable.offerings
    <3>1. PICK p \in DOMAIN errs :
             /\ p \in offers /\ p.ct = request.ct /\ errs[p] # "exceeded"
             /\ \/ p.ct = "reserved" /\ key(o, <<o.id>>) = key(p, <<p.id>>)
                \/ p.ct # "reserved" /\ key(o, <<o.id>>) = key(p, pgOpts)
                \/ /\ p.ct # "reserved" /\ errs[p] = "spread-limit"
                   /\ \E it \in DOMAIN types : key(o, <<o.id>>) = <<p.ct, it, p.zone, <<claim.pg>>>>
      BY ZenonT(30), <1>7, <1>8, <2>2
    <3>2. p.ct = "reserved" /\ p.it = o.it /\ p.zone = o.zone /\ p.id = o.id
      BY Zenon, <1>8, <3>1 DEF key
    <3>3. p = o
      BY Zenon, <1>1, <1>8, <3>1, <3>2, UniqueAssumption
    <3> QED BY Zenon, <1>2, <3>1, <3>3 DEF HasFailed
  <2> QED BY Zenon, <2>1, <2>2
<1>9. ASSUME NEW o \in offers, o.ct # "reserved", key(o, <<>>) \in unavailable'.offerings
      PROVE  HasFailedAlone(o)'
  <2>1. CASE key(o, <<>>) \in unavailable.offerings
    <3>1. HasFailedAlone(o)
      BY Zenon, <1>1, <1>9, <2>1 DEF MarkedForCause
    <3> QED BY ZenonT(30), <1>3, <3>1 DEF HasFailedAlone
  <2>2. CASE key(o, <<>>) \notin unavailable.offerings
    <3>1. PICK p \in DOMAIN errs :
             /\ p \in offers /\ p.ct = request.ct /\ errs[p] # "exceeded"
             /\ \/ p.ct = "reserved" /\ key(o, <<>>) = key(p, <<p.id>>)
                \/ p.ct # "reserved" /\ key(o, <<>>) = key(p, pgOpts)
                \/ /\ p.ct # "reserved" /\ errs[p] = "spread-limit"
                   /\ \E it \in DOMAIN types : key(o, <<>>) = <<p.ct, it, p.zone, <<claim.pg>>>>
      BY Zenon, <1>7, <1>9, <2>2
    <3>2. p.ct = o.ct /\ p.it = o.it /\ p.zone = o.zone /\ pgOpts = <<>>
      BY Zenon, <1>9, <3>1 DEF key
    <3>3. claim.pg = ""
      BY ZenonT(30), <3>2 DEF pgOpts
    <3>4. p = o
      BY ZenonT(30), <1>1, <1>9, <3>1, <3>2, UniqueAssumption, CatalogAssumption
    <3> QED BY ZenonT(30), <1>2, <3>1, <3>3, <3>4 DEF HasFailedAlone
  <2> QED BY Zenon, <2>1, <2>2
<1>10. ASSUME NEW o \in offers, NEW g \in STRING, o.ct # "reserved", key(o, <<g>>) \in unavailable'.offerings
       PROVE  HasFailedIn(o, g)'
  <2>1. CASE key(o, <<g>>) \in unavailable.offerings
    <3>1. HasFailedIn(o, g)
      BY <1>1, <1>10, <2>1, Zenon DEF MarkedForCause
    <3> QED BY Zenon, <1>3, <3>1 DEF HasFailedIn
  <2>2. CASE key(o, <<g>>) \notin unavailable.offerings
    <3>1. PICK p \in DOMAIN errs :
             /\ p \in offers /\ p.ct = request.ct /\ errs[p] # "exceeded"
             /\ \/ p.ct = "reserved" /\ key(o, <<g>>) = key(p, <<p.id>>)
                \/ p.ct # "reserved" /\ key(o, <<g>>) = key(p, pgOpts)
                \/ /\ p.ct # "reserved" /\ errs[p] = "spread-limit"
                   /\ \E it \in DOMAIN types : key(o, <<g>>) = <<p.ct, it, p.zone, <<claim.pg>>>>
      BY ZenonT(30), <1>7, <1>10, <2>2
    <3>2. p.ct = o.ct /\ p.zone = o.zone
      BY Zenon, <1>10, <3>1 DEF key
    <3>3. CASE key(o, <<g>>) = key(p, pgOpts)
      <4>1. p.it = o.it /\ pgOpts = <<g>>
        BY Zenon, <3>3 DEF key
      <4>2. claim.pg = g
        BY ZenonT(30), <4>1 DEF pgOpts
      <4>3. p = o
        BY ZenonT(30), <1>1, <1>10, <3>1, <3>2, <4>1, UniqueAssumption, CatalogAssumption
      <4> QED BY Zenon, <1>2, <3>1, <4>2, <4>3 DEF HasFailedIn
    <3>4. CASE errs[p] = "spread-limit" /\ \E it \in DOMAIN types : key(o, <<g>>) = <<p.ct, it, p.zone, <<claim.pg>>>>
      <4>1. claim.pg = g
        BY Zenon, <3>4 DEF key
      <4> QED BY Zenon, <1>2, <3>1, <3>2, <3>4, <4>1 DEF HasFailedIn
    <3> QED BY Zenon, <1>10, <3>1, <3>2, <3>3, <3>4
  <2> QED BY Zenon, <2>1, <2>2
<1> QED BY <1>4, <1>5, <1>6, <1>8, <1>9, <1>10, Zenon DEF MarkedForCause

LEMMA EmptyRequest ==
  NoRequest \in Requests /\ NoRequest.overrides = {}
<1>1. {} \subseteq Targets /\ {} \subseteq Catalog
  BY Zenon
<1> QED BY Zenon, <1>1 DEF NoRequest, Requests

LEMMA LaunchInitially == LaunchInit => LaunchIInv
<1> SUFFICES ASSUME LaunchInit PROVE LaunchIInv
  BY Zenon
<1>1. LaunchTypeOK /\ RequestFits
  <2>1. offers \subseteq Catalog /\ free \in [Reservations -> 0 .. MaxCount] /\ phase = "idle" /\ retried = FALSE
        /\ request = NoRequest /\ failures = {}
    BY Zenon, OffersAssumption DEF LaunchInit
  <2> QED BY ZenonT(30), <2>1, EmptyRequest DEF LaunchTypeOK, RequestFits
<1>2. ReservedIsUnambiguous /\ AllNoted /\ MarkedForCause
  BY Zenon DEF LaunchInit, ReservedIsUnambiguous, AllNoted, MarkedForCause, NothingUnavailable
<1> QED BY Zenon, <1>1, <1>2 DEF LaunchIInv

\* Nothing is learned in a step that leaves the cache and the counts alone.
LEMMA CacheFrame ==
  ASSUME LaunchIInv, offers' = offers, free' = free, unavailable' = unavailable, failures' = failures
  PROVE  AllNoted' /\ MarkedForCause' /\ free' \in [Reservations -> 0 .. MaxCount] /\ offers' \subseteq Catalog
         /\ failures' \subseteq [offering : offers', kind : FailureKinds, pg : STRING, partition : STRING]
<1>1. AllNoted'
  BY ZenonT(30) DEF LaunchIInv, AllNoted, Noted
<1>2. MarkedForCause'
  <2>1. Lasting' = Lasting
    BY Zenon DEF Lasting
  <2>2. /\ RoleMissing' = RoleMissing /\ \A z : NoAddresses(z)' = NoAddresses(z)
        /\ \A o : HasFailed(o)' = HasFailed(o) /\ HasFailedAlone(o)' = HasFailedAlone(o)
        /\ \A o, g : HasFailedIn(o, g)' = HasFailedIn(o, g)
    BY <2>1, Zenon DEF RoleMissing, NoAddresses, HasFailed, HasFailedAlone, HasFailedIn
  <2> QED BY Zenon, <2>2 DEF LaunchIInv, MarkedForCause
<1> QED BY Zenon, <1>1, <1>2 DEF LaunchIInv, LaunchTypeOK, RequestFits, FailureKinds

\* A launch that ends leaves no request, or that of the instance launched.
LEMMA EndFrame ==
  ASSUME LaunchIInv, offers' = offers, free' \in [Reservations -> 0 .. MaxCount], retried' \in BOOLEAN,
         failures' \subseteq [offering : offers', kind : FailureKinds, pg : STRING, partition : STRING],
         \/ phase' \in {"error", "insufficient"} /\ request' = NoRequest
         \/ /\ phase' = "launched"
            /\ \E o \in request.overrides : request' = [request EXCEPT !.overrides = {o}]
  PROVE  LaunchTypeOK' /\ RequestFits' /\ ReservedIsUnambiguous'
<1>1. request \in Requests
      /\ offers \subseteq Catalog /\ request.overrides \subseteq offers
  BY Zenon DEF LaunchIInv, RequestFits, LaunchTypeOK
<1>2. /\ request' \in Requests
      /\ request'.overrides \subseteq offers
      /\ (request'.overrides = {}) <=> (phase' \notin {"fleet", "launched"})
  <2>1. CASE phase' \in {"error", "insufficient"} /\ request' = NoRequest
    BY Zenon, <2>1, EmptyRequest
  <2>2. CASE phase' = "launched" /\ \E o \in request.overrides : request' = [request EXCEPT !.overrides = {o}]
    <3>1. PICK o \in request.overrides : request' = [request EXCEPT !.overrides = {o}]
      BY Zenon, <2>2
    <3>2. request' = [ct |-> request.ct, targets |-> request.targets, overrides |-> {o}]
      BY ZenonT(30), <1>1, <3>1 DEF Requests
    <3> QED BY ZenonT(30), <1>1, <2>2, <3>2 DEF Requests
  <2> QED BY Zenon, <2>1, <2>2
<1>3. phase' \in {"error", "insufficient", "launched"}
  BY Zenon
<1>4. LaunchTypeOK'
  BY Zenon, <1>2, <1>3 DEF LaunchTypeOK, FailureKinds
<1>5. RequestFits'
  BY Zenon, <1>1, <1>2, <1>3 DEF RequestFits
<1>6. ReservedIsUnambiguous'
  BY Zenon, <1>3 DEF ReservedIsUnambiguous
<1> QED BY Zenon, <1>4, <1>5, <1>6

\* What a request resolved for c is: one launchable offering or more, or a refusal.
LEMMA LaunchRequestFacts ==
  ASSUME LaunchIInv, NEW c \in Claims, LaunchRequest(c)
  PROVE  LET its == Six(c)  q == Build(its, c)
             few == Cardinality(DOMAIN its) < c.minValues
         IN  /\ \/ /\ phase' = "fleet" /\ types' = its /\ request' = q /\ q.overrides # {}
                   /\ ~ few /\ \E o \in offers : Usable(o, c)
                \/ phase' = "insufficient" /\ request' = NoRequest /\ (few \/ \A o \in offers : ~ Usable(o, c))
             /\ \A o \in q.overrides : /\ o \in offers /\ o.it \in DOMAIN its /\ o \in its[o.it]
                                       /\ o.ct = q.ct /\ Usable(o, c)
             /\ q.ct = "reserved" /\ q.overrides # {} => Unambiguous(q, its)
<1> DEFINE its == Six(c)
           q == Build(its, c)
<1>1. offers \subseteq Catalog /\ free \in [Reservations -> 0 .. MaxCount]
  BY Zenon DEF LaunchIInv, RequestFits, LaunchTypeOK
<1> DEFINE few == Cardinality(DOMAIN its) < c.minValues
           cut == filterInstanceTypes(OfferedTypes, c)
<1>2. \/ (few \/ DOMAIN its = {}) /\ phase' = "insufficient" /\ request' = NoRequest
      \/ DOMAIN its # {} /\ q.overrides = {} /\ phase' = "error"
      \/ ~ few /\ DOMAIN its # {} /\ q.overrides # {} /\ phase' = "fleet" /\ types' = its /\ request' = q
  <2>1. \/ DOMAIN cut = {} /\ phase' = "insufficient" /\ request' = NoRequest
        \/ DOMAIN cut # {} /\ Build(cut, c).overrides = {} /\ phase' = "error"
        \/ /\ DOMAIN cut # {} /\ Build(cut, c).overrides # {}
           /\ phase' = "fleet" /\ types' = cut /\ request' = Build(cut, c)
    BY Zenon DEF LaunchRequest, OfferedTypes
  <2>2. cut = IF few THEN <<>> ELSE its
    BY Zenon DEF filterInstanceTypes, Truncate, Six
  <2>3. DOMAIN <<>> = {}
    OBVIOUS
  <2> HIDE DEF cut, few, its
  <2>4. CASE few
    BY Zenon, <2>1, <2>2, <2>3, <2>4
  <2>5. CASE ~ few
    BY Zenon, <2>1, <2>2, <2>5
  <2> QED BY Zenon, <2>4, <2>5
<1> HIDE DEF few
<1>3. \A o \in q.overrides : o.ct = q.ct /\ Usable(o, c)
  BY Zenon, ChosenOverrides
<1>4. CASE \E r \in offers : r.ct = "reserved" /\ Usable(r, c)
  <2>1. PICK r \in offers : r.ct = "reserved" /\ Usable(r, c)
    BY Zenon, <1>4
  <2>2. /\ q.overrides # {} /\ DOMAIN its # {} /\ Unambiguous(q, its)
        /\ \A o \in q.overrides : o \in offers /\ o.it \in DOMAIN its /\ o \in its[o.it]
    BY Zenon, <1>1, <2>1, ResolvedReserved
  <2> HIDE DEF q, its
  <2>3. \E o \in offers : Usable(o, c)
    BY Zenon, <2>1
  <2> QED BY <1>2, <1>3, <2>2, <2>3, Zenon DEF q, its, few
<1>5. CASE \A r \in offers : r.ct = "reserved" => ~ Usable(r, c)
  <2>1. /\ q.ct \in {"spot", "on-demand"}
        /\ (\E o \in offers : Usable(o, c)) => DOMAIN its # {} /\ q.overrides # {}
        /\ (\A o \in offers : ~ Usable(o, c)) => DOMAIN its = {}
        /\ \A o \in q.overrides : o \in offers /\ o.it \in DOMAIN its /\ o \in its[o.it]
    BY Zenon, <1>1, <1>5, ResolvedOthers
  <2>2. q.ct # "reserved"
    BY Zenon, <2>1
  <2> HIDE DEF q, its
  <2> QED BY <1>2, <1>3, <2>1, <2>2, Zenon DEF q, its, few
<1> QED BY <1>4, <1>5, Zenon

LEMMA BuiltRequest ==
  ASSUME NEW c, LET q == Build(Six(c), c) IN \A o \in q.overrides : o \in Catalog
  PROVE  Build(Six(c), c) \in Requests
<1> DEFINE q == Build(Six(c), c)
           T(k) == IF k[1] = "capacity-block" THEN "capacity-block"
                   ELSE IF k[2] THEN "reserved-capacity" ELSE "on-demand"
<1>1. q.ct \in {"reserved", "spot", "on-demand"}
  BY Zenon, ChosenType
<1>2. q = [ct |-> q.ct, targets |-> q.targets, overrides |-> q.overrides]
  BY Zenon DEF Build
<1>3. q.targets \subseteq Targets
  <2>1. q.targets = IF q.ct # "reserved" THEN {q.ct} ELSE {T(k) : k \in getCapacityReservationType(Six(c))}
    BY Zenon DEF Build, defaultTargetCapacityType
  <2>2. \A k : T(k) \in Targets
    BY Zenon DEF Targets
  <2> HIDE DEF T, q
  <2> QED BY <1>1, <2>1, <2>2 DEF Targets
<1> HIDE DEF q
<1> QED BY ZenonT(30), <1>1, <1>2, <1>3 DEF Requests, q

LEMMA LaunchRequestStep ==
  ASSUME LaunchIInv, NEW c \in Claims, LaunchRequest(c)
  PROVE  LaunchIInv'
<1> DEFINE its == Six(c)
           q == Build(its, c)
<1>1. offers' = offers /\ free' = free /\ unavailable' = unavailable /\ failures' = failures
      /\ claim' = c /\ retried' = FALSE
  BY Zenon DEF LaunchRequest
<1>2. AllNoted' /\ MarkedForCause' /\ free' \in [Reservations -> 0 .. MaxCount] /\ offers' \subseteq Catalog
      /\ failures' \subseteq [offering : offers', kind : FailureKinds, pg : STRING, partition : STRING]
  BY Zenon, <1>1, CacheFrame
<1>3. /\ \A o \in q.overrides : /\ o \in offers /\ o.it \in DOMAIN its /\ o \in its[o.it]
                                /\ o.ct = q.ct /\ Usable(o, c)
      /\ q.ct = "reserved" /\ q.overrides # {} => Unambiguous(q, its)
  BY Zenon, LaunchRequestFacts
<1>4. CASE phase' = "fleet" /\ types' = its /\ request' = q /\ q.overrides # {}
  <2>1. q \in Requests
    BY Zenon, <1>1, <1>2, <1>3, BuiltRequest
  <2> HIDE DEF q, its
  <2>2. LaunchTypeOK'
    BY ZenonT(30), <1>1, <1>2, <1>3, <1>4 DEF LaunchTypeOK, FailureKinds
  <2>3. RequestFits'
    BY Zenon, <1>1, <1>2, <1>3, <1>4, <2>1 DEF RequestFits
  <2>4. ReservedIsUnambiguous'
    BY ZenonT(30), <1>3, <1>4 DEF ReservedIsUnambiguous, Unambiguous
  <2> QED BY Zenon, <1>2, <2>2, <2>3, <2>4 DEF LaunchIInv
<1>5. CASE phase' = "insufficient" /\ request' = NoRequest
  <2>1. LaunchTypeOK' /\ RequestFits' /\ ReservedIsUnambiguous'
    BY ZenonT(30), <1>1, <1>2, <1>5, EndFrame
  <2> QED BY Zenon, <1>2, <2>1 DEF LaunchIInv
<1> QED BY Zenon, <1>4, <1>5, LaunchRequestFacts

LEMMA CreateFleetFailsStep ==
  ASSUME LaunchIInv, NEW notFound \in BOOLEAN, CreateFleetFails(notFound)
  PROVE  LaunchIInv'
<1>1. offers' = offers /\ free' = free /\ unavailable' = unavailable /\ failures' = failures /\ claim' = claim
  BY Zenon DEF CreateFleetFails
<1>2. AllNoted' /\ MarkedForCause' /\ free' \in [Reservations -> 0 .. MaxCount] /\ offers' \subseteq Catalog
      /\ failures' \subseteq [offering : offers', kind : FailureKinds, pg : STRING, partition : STRING]
  BY Zenon, <1>1, CacheFrame
<1>3. CASE retried' = TRUE /\ phase' = phase /\ types' = types /\ request' = request
  <2>1. LaunchTypeOK'
    BY Zenon, <1>1, <1>3 DEF LaunchIInv, LaunchTypeOK
  <2>2. RequestFits'
    BY Zenon, <1>1, <1>3 DEF LaunchIInv, RequestFits
  <2>3. ReservedIsUnambiguous'
    BY Zenon, <1>1, <1>3 DEF LaunchIInv, ReservedIsUnambiguous
  <2> QED BY Zenon, <1>2, <2>1, <2>2, <2>3 DEF LaunchIInv
<1>4. CASE phase' = "error" /\ request' = NoRequest /\ retried' = retried
  <2>1. retried' \in BOOLEAN
    BY Zenon, <1>4 DEF LaunchIInv, LaunchTypeOK
  <2>2. LaunchTypeOK' /\ RequestFits' /\ ReservedIsUnambiguous'
    BY Zenon, <1>1, <1>2, <1>4, <2>1, EndFrame
  <2> QED BY Zenon, <1>2, <2>2 DEF LaunchIInv
<1> QED BY ZenonT(30), <1>3, <1>4 DEF CreateFleetFails

LEMMA FleetStep ==
  ASSUME LaunchIInv, NEW errs \in LaunchAnswers \cup {<<>>}, Plausible(errs),
         FleetFails(errs) \/ \E o \in request.overrides : FleetLaunches(o, errs)
  PROVE  LaunchIInv'
<1>1. phase = "fleet" /\ updateUnavailableOfferingsCache(errs) /\ offers' = offers /\ retried' = retried
  BY Zenon DEF FleetFails, FleetLaunches
<1>2. DOMAIN errs \subseteq request.overrides
  BY Zenon, AnswerDomain
<1>3. AllNoted' /\ MarkedForCause'
  BY Zenon, <1>1, <1>2, AnswerNoted, AnswerCaused
<1>4. /\ free' \in [Reservations -> 0 .. MaxCount]
      /\ failures' \subseteq [offering : offers', kind : FailureKinds, pg : STRING, partition : STRING]
  BY Zenon, <1>1, <1>2, AnswerTypes
<1>5. \/ phase' \in {"error", "insufficient"} /\ request' = NoRequest
      \/ /\ phase' = "launched"
         /\ \E o \in request.overrides : request' = [request EXCEPT !.overrides = {o}]
  BY Zenon DEF FleetFails, FleetLaunches, combineFleetErrors
<1>6. retried' \in BOOLEAN
  BY Zenon, <1>1 DEF LaunchIInv, LaunchTypeOK
<1>7. LaunchTypeOK' /\ RequestFits' /\ ReservedIsUnambiguous'
  BY Zenon, <1>1, <1>4, <1>5, <1>6, EndFrame
<1> QED BY Zenon, <1>3, <1>7 DEF LaunchIInv

\* The cache and the counts change beside a launch, which keeps its request.
LEMMA SideFrame ==
  ASSUME LaunchIInv, offers' = offers, free' \in [Reservations -> 0 .. MaxCount], failures' \subseteq failures,
         phase' = phase, claim' = claim, types' = types, request' = request, retried' = retried
  PROVE  LaunchTypeOK' /\ RequestFits' /\ ReservedIsUnambiguous'
<1>1. LaunchTypeOK'
  BY Zenon DEF LaunchIInv, LaunchTypeOK
<1>2. RequestFits'
  BY Zenon DEF LaunchIInv, RequestFits
<1>3. ReservedIsUnambiguous'
  BY Zenon DEF LaunchIInv, ReservedIsUnambiguous
<1> QED BY Zenon, <1>1, <1>2, <1>3

LEMMA CacheExpiresStep ==
  ASSUME LaunchIInv, CacheExpires
  PROVE  LaunchIInv'
<1>1. LaunchTypeOK' /\ RequestFits' /\ ReservedIsUnambiguous'
  <2>1. offers' = offers /\ free' \in [Reservations -> 0 .. MaxCount] /\ failures' \subseteq failures
        /\ phase' = phase /\ claim' = claim /\ types' = types /\ request' = request /\ retried' = retried
    BY Zenon DEF CacheExpires, LaunchIInv, LaunchTypeOK
  <2> QED BY Zenon, <2>1, SideFrame
<1>2. ASSUME NEW f \in failures' PROVE Noted(f)'
  <2>1. f \in failures /\ f.kind = "exceeded" /\ free' = free
    BY Zenon DEF CacheExpires
  <2>2. Noted(f)
    BY Zenon, <2>1 DEF LaunchIInv, AllNoted
  <2> QED BY Zenon, <2>1, <2>2 DEF Noted
<1>3. MarkedForCause'
  <2>1. unavailable' = NothingUnavailable
    BY Zenon DEF CacheExpires
  <2> QED BY Zenon, <2>1 DEF MarkedForCause, NothingUnavailable
<1> QED BY Zenon, <1>1, <1>2, <1>3 DEF LaunchIInv, AllNoted

LEMMA ReservationSyncedStep ==
  ASSUME LaunchIInv, NEW r \in Reservations, ReservationSynced(r)
  PROVE  LaunchIInv'
<1>1. /\ offers' = offers /\ unavailable' = unavailable /\ failures' \subseteq failures
      /\ phase' = phase /\ claim' = claim /\ types' = types /\ request' = request /\ retried' = retried
      /\ free' = [free EXCEPT ![r] = MaxCount] /\ free \in [Reservations -> 0 .. MaxCount]
  BY Zenon DEF ReservationSynced, LaunchIInv, LaunchTypeOK
<1>2. free' \in [Reservations -> 0 .. MaxCount]
  BY <1>1, OffersAssumption
<1>3. LaunchTypeOK' /\ RequestFits' /\ ReservedIsUnambiguous'
  BY Zenon, <1>1, <1>2, SideFrame
<1>4. ASSUME NEW f \in failures' PROVE Noted(f)'
  <2>1. f \in failures /\ (f.kind = "exceeded" => f.offering.id # r)
    BY Zenon DEF ReservationSynced
  <2>2. Noted(f) /\ f.offering \in Catalog
    BY Zenon, <2>1 DEF LaunchIInv, AllNoted, LaunchTypeOK, RequestFits
  <2>3. f.offering.ct = "reserved" => f.offering.id \in Reservations
    BY Zenon, <2>2 DEF Reservations
  <2> QED BY ZenonT(30), <1>1, <2>1, <2>2, <2>3 DEF Noted
<1>5. Lasting' = Lasting
  BY Zenon DEF ReservationSynced, Lasting
<1>6. MarkedForCause'
  <2>1. /\ RoleMissing' = RoleMissing /\ \A z : NoAddresses(z)' = NoAddresses(z)
        /\ \A o : HasFailed(o)' = HasFailed(o) /\ HasFailedAlone(o)' = HasFailedAlone(o)
        /\ \A o, g : HasFailedIn(o, g)' = HasFailedIn(o, g)
    BY <1>5, Zenon DEF RoleMissing, NoAddresses, HasFailed, HasFailedAlone, HasFailedIn
  <2> QED BY Zenon, <1>1, <2>1 DEF LaunchIInv, MarkedForCause
<1> QED BY Zenon, <1>3, <1>4, <1>6 DEF LaunchIInv, AllNoted

LEMMA LaunchStep ==
  ASSUME LaunchIInv, [LaunchNext]_launchVars
  PROVE  LaunchIInv'
<1>1. CASE UNCHANGED launchVars
  <2>1. AllNoted' /\ MarkedForCause' /\ free' \in [Reservations -> 0 .. MaxCount]
    BY Zenon, <1>1, CacheFrame DEF launchVars
  <2>2. LaunchTypeOK' /\ RequestFits' /\ ReservedIsUnambiguous'
    BY Zenon, <1>1, <2>1, SideFrame DEF launchVars
  <2> QED BY Zenon, <2>1, <2>2 DEF LaunchIInv
<1>2. ASSUME NEW c \in Claims, LaunchRequest(c) PROVE LaunchIInv'
  BY Zenon, <1>2, LaunchRequestStep
<1>3. ASSUME NEW notFound \in BOOLEAN, CreateFleetFails(notFound) PROVE LaunchIInv'
  BY Zenon, <1>3, CreateFleetFailsStep
<1>4. ASSUME NEW errs \in LaunchAnswers, Plausible(errs), FleetFails(errs) PROVE LaunchIInv'
  BY Zenon, <1>4, FleetStep
<1>5. ASSUME NEW o \in request.overrides, NEW errs \in LaunchAnswers \cup {<<>>}, Plausible(errs), FleetLaunches(o, errs)
      PROVE  LaunchIInv'
  BY Zenon, <1>5, FleetStep
<1>6. CASE CacheExpires
  BY Zenon, <1>6, CacheExpiresStep
<1>7. ASSUME NEW r \in Reservations, ReservationSynced(r) PROVE LaunchIInv'
  BY Zenon, <1>7, ReservationSyncedStep
<1>8. CASE LaunchEnds
  BY Zenon, <1>1, <1>8 DEF LaunchEnds
<1> QED BY <1>1, <1>2, <1>3, <1>4, <1>5, <1>6, <1>7, <1>8, Zenon DEF LaunchNext

LEMMA LaunchInductive == LaunchSpec => []LaunchIInv
  BY LaunchInitially, LaunchStep, PTL DEF LaunchSpec

\* For every catalog, every cluster and any number of launches: requests are well formed, a
\* reserved one names one market and one reservation per pool (so the reservation an instance is
\* recorded under, and the mark of a failure, are never a sibling's), and an offering is closed
\* only for a failure that concerns it (Create, updateUnavailableOfferingsCache and the lookups).
THEOREM LaunchSafety == LaunchSpec => []LaunchInv
<1>1. LaunchIInv => LaunchInv
  BY Zenon, ClosedForCause DEF LaunchIInv, LaunchInv
<1> QED BY <1>1, LaunchInductive, PTL

\* The offerings left by the filters, of a request that is resolved.
LEMMA ResolvedWell ==
  ASSUME LaunchIInv, NEW c \in Claims, LaunchRequest(c)
  PROVE  RequestIsAllowed /\ LaunchIsNotRefused /\ SpotIsNotDearer /\ LastResortsAreLast
<1> DEFINE its == Six(c)
           q == Build(its, c)
<1> DEFINE few == Cardinality(DOMAIN its) < c.minValues
<1>1. /\ \/ /\ phase' = "fleet" /\ types' = its /\ request' = q /\ q.overrides # {}
            /\ ~ few /\ \E o \in offers : Usable(o, c)
         \/ phase' = "insufficient" /\ request' = NoRequest /\ (few \/ \A o \in offers : ~ Usable(o, c))
      /\ \A o \in q.overrides : /\ o \in offers /\ o.it \in DOMAIN its /\ o \in its[o.it]
                                /\ o.ct = q.ct /\ Usable(o, c)
  BY Zenon, LaunchRequestFacts
<1>2. claim' = c /\ offers \subseteq Catalog /\ free \in [Reservations -> 0 .. MaxCount]
  BY Zenon DEF LaunchRequest, LaunchIInv, LaunchTypeOK, RequestFits
<1>3. LaunchIsNotRefused
  <2>1. LaunchIsNotRefused <=> (attempts' # attempts =>
            phase' = IF UsableOffers(c) # {} /\ c.minValues =< Variety(c) THEN "fleet" ELSE "insufficient")
    BY ZenonT(30), <1>2 DEF LaunchIsNotRefused, Usable, UsableOffers, UsableReserved, IsFirst, First, Choice, Variety
  <2>2. UsableOffers(c) # {} => (few <=> ~ (c.minValues =< Variety(c)))
    BY Zenon, <1>2, VarietyLeft
  <2>3. (UsableOffers(c) # {}) <=> \E o \in offers : Usable(o, c)
    BY Zenon DEF UsableOffers
  <2> HIDE DEF few, its, q
  <2> QED BY Zenon, <1>1, <2>1, <2>2, <2>3
<1>4. CASE phase' = "insufficient" /\ request' = NoRequest
  <2>1. request'.overrides = {} /\ request'.ct = ""
    BY ZenonT(30), <1>4 DEF NoRequest
  <2> QED BY ZenonT(30), <1>3, <1>4, <2>1 DEF RequestIsAllowed, SpotIsNotDearer, LastResortsAreLast
<1>5. CASE phase' = "fleet" /\ types' = its /\ request' = q /\ q.overrides # {}
  <2>1. RequestIsAllowed
    <3> HIDE DEF q, its
    <3> QED BY Zenon, <1>1, <1>2, <1>5 DEF RequestIsAllowed, Usable, Launchable
  <2>2. CASE \E r \in offers : r.ct = "reserved" /\ Usable(r, c)
    <3>1. q.ct = "reserved"
      BY Zenon, <1>2, <2>2, ResolvedReserved
    <3> HIDE DEF q, its
    <3> QED BY Zenon, <1>3, <1>5, <2>1, <3>1 DEF SpotIsNotDearer, LastResortsAreLast
  <2>3. CASE \A r \in offers : r.ct = "reserved" => ~ Usable(r, c)
    <3>1. /\ ~ HasMinValues(c) /\ (\E o \in offers : Usable(o, c) /\ o.it \notin Exotic)
                => \A o \in q.overrides : o.it \notin Exotic
          /\ ~ HasMinValues(c) /\ q.ct = "spot" =>
                \A s \in q.overrides : \A j \in DOMAIN its : \A d \in its[j] :
                    d.ct = "on-demand" /\ Usable(d, c) => s.price <= d.price
      BY ZenonT(30), <1>2, <2>3, ResolvedOthers
    <3> HIDE DEF q, its
    <3>2. SpotIsNotDearer
      <4> SUFFICES ASSUME q.ct = "spot", ~ HasMinValues(c), NEW s \in q.overrides,
                          NEW d \in UNION {its[it] : it \in DOMAIN its},
                          d.ct = "on-demand", Compatible(d, c), Available(d, c.pg)
                   PROVE  s.price =< d.price
        BY <1>2, <1>5 DEF SpotIsNotDearer
      <4>1. Usable(d, c)
        BY Zenon DEF Usable, Launchable
      <4>2. PICK j \in DOMAIN its : d \in its[j]
        BY Zenon
      <4> QED BY Zenon, <3>1, <4>1, <4>2
    <3>3. LastResortsAreLast
      BY Zenon, <1>2, <1>5, <2>3, <3>1 DEF LastResortsAreLast, Usable
    <3> QED BY Zenon, <1>3, <2>1, <3>2, <3>3
  <2> QED BY Zenon, <2>2, <2>3
<1> QED BY Zenon, <1>1, <1>4, <1>5

\* The steps that resolve nothing.
LEMMA NotResolving ==
  ASSUME LaunchIInv, phase # "fleet", phase' = phase, request' = request, attempts' = attempts, phase # "launched"
  PROVE  RequestIsAllowed /\ LaunchIsNotRefused /\ SpotIsNotDearer /\ LastResortsAreLast
<1>1. request'.overrides = {} /\ phase' # "fleet"
  BY Zenon DEF LaunchIInv, LaunchTypeOK
<1> QED BY Zenon, <1>1 DEF RequestIsAllowed, LaunchIsNotRefused, SpotIsNotDearer, LastResortsAreLast

\* In every launch the overrides are allowed and launchable, a NodeClaim is refused exactly when no
\* allowed offering is launchable or it asks for more types than there are left to choose among
\* (filterInstanceTypes, with the error of Truncate), spot is not dearer than on-demand, exotic types and capacity
\* outside reservations are last resorts, and an error that is not about capacity is reported.
THEOREM LaunchesAreRight == LaunchSpec => LaunchIsRight
<1> DEFINE A == /\ Resolves => RequestIsAllowed /\ LaunchIsNotRefused /\ SpotIsNotDearer /\ LastResortsAreLast
                /\ phase = "fleet" => OtherErrorsAreReported
<1>1. ASSUME LaunchIInv, [LaunchNext]_launchVars PROVE [A]_launchVars
  <2>1. ASSUME NEW c \in Claims, LaunchRequest(c) PROVE A
    <3>1. phase # "fleet"
      BY Zenon, <2>1 DEF LaunchRequest
    <3> QED BY Zenon, <1>1, <2>1, <3>1, ResolvedWell
  <2>2. ASSUME NEW notFound \in BOOLEAN, CreateFleetFails(notFound) PROVE A
    <3>1. phase = "fleet" /\ phase' \in {"fleet", "error"}
      BY Zenon, <2>2 DEF CreateFleetFails
    <3> QED BY Zenon, <3>1 DEF Resolves, OtherErrorsAreReported
  <2>3. ASSUME NEW errs \in LaunchAnswers, FleetFails(errs) PROVE A
    <3>1. /\ phase = "fleet" /\ phase' = combineFleetErrors(errs)
          /\ failures' = failures \cup
                {[offering |-> o, kind |-> errs[o], pg |-> claim.pg, partition |-> claim.partition] : o \in DOMAIN errs}
      BY <2>3, Zenon DEF FleetFails, updateUnavailableOfferingsCache
    <3>2. ASSUME phase' = "insufficient", NEW f \in failures' \ failures PROVE f.kind # "other"
      <4>1. PICK o \in DOMAIN errs :
               f = [offering |-> o, kind |-> errs[o], pg |-> claim.pg, partition |-> claim.partition]
        BY <3>1, <3>2, Zenon
      <4>2. IsUnfulfillableCapacity(errs[o]) \/ errs[o] = "service-linked-role"
        BY Zenon, <3>1, <3>2 DEF combineFleetErrors
      <4>3. f.kind = errs[o]
        BY Zenon, <4>1
      <4> QED BY Zenon, <4>2, <4>3 DEF IsUnfulfillableCapacity
    <3> QED BY Zenon, <3>1, <3>2 DEF Resolves, OtherErrorsAreReported
  <2>4. ASSUME NEW o \in request.overrides, NEW errs, FleetLaunches(o, errs) PROVE A
    <3>1. phase = "fleet" /\ phase' = "launched"
      BY Zenon, <2>4 DEF FleetLaunches
    <3> QED BY Zenon, <3>1 DEF Resolves, OtherErrorsAreReported
  <2>5. ASSUME phase' = phase, request' = request, attempts' = attempts PROVE A
    <3>1. CASE phase = "fleet"
      BY Zenon, <2>5, <3>1 DEF Resolves, OtherErrorsAreReported
    <3>2. CASE phase = "launched"
      BY Zenon, <2>5, <3>2 DEF Resolves
    <3>3. CASE phase # "fleet" /\ phase # "launched"
      BY Zenon, <1>1, <2>5, <3>3, NotResolving
    <3> QED BY Zenon, <3>1, <3>2, <3>3
  <2> HIDE DEF A
  <2>6. CASE CacheExpires
    BY Zenon, <2>5, <2>6 DEF CacheExpires
  <2>7. ASSUME NEW r \in Reservations, ReservationSynced(r) PROVE A
    BY Zenon, <2>5, <2>7 DEF ReservationSynced
  <2> QED BY <1>1, <2>1, <2>2, <2>3, <2>4, <2>6, <2>7, Zenon DEF LaunchNext, LaunchEnds
<1>2. LaunchIsRight <=> [][A]_launchVars
  BY Zenon DEF LaunchIsRight
<1> HIDE DEF A
<1> QED BY <1>1, <1>2, LaunchInductive, PTL DEF LaunchSpec

\* Whatever EC2 has answered to earlier launches of any NodeClass, a launch does not ask for an
\* offering it has refused while the refusal is remembered and concerns the NodeClaim.
THEOREM RefusalsAreRemembered == LaunchSpec => RefusedIsNotAskedAgain
<1> DEFINE A == phase # "fleet" /\ phase' = "fleet" =>
                   \A f \in failures : Remembered(f) /\ Concerns(f, claim') => f.offering \notin request'.overrides
<1>1. ASSUME LaunchIInv, [LaunchNext]_launchVars PROVE [A]_launchVars
  <2>1. ASSUME NEW c \in Claims, LaunchRequest(c) PROVE A
    <3> SUFFICES ASSUME phase' = "fleet", NEW f \in failures, Remembered(f), Concerns(f, c)
                 PROVE  f.offering \notin request'.overrides
      BY ZenonT(30), <2>1 DEF LaunchRequest
    <3>1. ~ Usable(f.offering, c)
      BY Zenon, <1>1, NotedIsClosed
    <3>2. \A o \in request'.overrides : Usable(o, c)
      BY ZenonT(30), <1>1, <2>1, LaunchRequestFacts
    <3> QED BY Zenon, <3>1, <3>2
  <2>2. ASSUME phase = "fleet" \/ phase' # "fleet" PROVE A
    BY Zenon, <2>2
  <2> HIDE DEF A
  <2>3. ASSUME NEW notFound \in BOOLEAN, CreateFleetFails(notFound) PROVE A
    BY Zenon, <2>2, <2>3 DEF CreateFleetFails
  <2>4. ASSUME NEW errs \in LaunchAnswers, FleetFails(errs) PROVE A
    BY Zenon, <2>2, <2>4 DEF FleetFails
  <2>5. ASSUME NEW o \in request.overrides, NEW errs, FleetLaunches(o, errs) PROVE A
    BY Zenon, <2>2, <2>5 DEF FleetLaunches
  <2>6. CASE CacheExpires
    BY Zenon, <2>2, <2>6 DEF CacheExpires
  <2>7. ASSUME NEW r \in Reservations, ReservationSynced(r) PROVE A
    BY Zenon, <2>2, <2>7 DEF ReservationSynced
  <2> QED BY <1>1, <2>1, <2>3, <2>4, <2>5, <2>6, <2>7, Zenon DEF LaunchNext, LaunchEnds
<1>2. RefusedIsNotAskedAgain <=> [][A]_launchVars
  BY Zenon DEF RefusedIsNotAskedAgain
<1> HIDE DEF A
<1> QED BY <1>1, <1>2, LaunchInductive, PTL DEF LaunchSpec
=============================================================================
