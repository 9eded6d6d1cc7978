--------------------------- MODULE InstanceLaunch ---------------------------
(***************************************************************************)
(* The launch of one instance: DefaultProvider.Create of                   *)
(* providers/instance/instance.go, from the offerings the resolvers hand   *)
(* it, through the six filters of instance/filter/filter.go, to the        *)
(* CreateFleet request, and from EC2's answer back to the cache of         *)
(* unavailable offerings that the next launch resolves against.            *)
(*                                                                         *)
(* NodeClaims of several NodeClasses (with and without a placement group)  *)
(* are launched one after the other and share that cache, so what one      *)
(* launch learns must keep the next from repeating it and must not close   *)
(* an offering that never failed.                                          *)
(*                                                                         *)
(* An instance type is left out when it does not fit the requests.  There  *)
(* are at most as many types as a request may hold (TypesAssumption), the  *)
(* zones of all offerings have a subnet, and there is one subnet per zone. *)
(***************************************************************************)
EXTENDS Naturals, FiniteSets, Sequences

CONSTANTS
    Catalog,      \* every offering there may be, a set of records (see Offering)
    Exotic,       \* the instance types with accelerators, and the metal ones
    Claims,       \* the NodeClaims to launch
    InitOffers,   \* the subsets of the catalog a cluster may be offered
    MaxCount,     \* bound on the free instances of a reservation
    MaxAttempts,  \* bound on the launches of a behaviour
    MaxEvents     \* bound on cache expirations and reservation syncs

VARIABLES
    offers,       \* the offerings of this cluster
    free,         \* the capacity reservation provider's free instances per reservation
    unavailable,  \* the cache: marked offerings, capacity types and subnets (one per zone)
    phase,        \* where Create stands, and what it returned
    claim,        \* the NodeClaim being launched
    types,        \* the instance types left by the filters, with their offerings
    request,      \* the CreateFleet input
    retried,      \* Create has used its retry on a missing launch template
    failures,     \* history: the errors EC2 returned that the cache has not outlived
    attempts,
    events

launchVars == <<offers, free, unavailable, phase, claim, types, request, retried,
                failures, attempts, events>>

Reservations == {o.id : o \in {x \in Catalog : x.ct = "reserved"}}

NoClaim == [cts |-> {}, zones |-> {}, minValues |-> 0, pg |-> "", partition |-> ""]
NoRequest == [ct |-> "", targets |-> {}, overrides |-> {}]
NothingUnavailable == [offerings |-> {}, capacityTypes |-> {}, subnets |-> {}]

-----------------------------------------------------------------------------
(* The cache of unavailable offerings, cache/unavailableofferings.go, and   *)
(* how the two resolvers look an offering up in it.                         *)

key(o, scope) == <<o.ct, o.it, o.zone, scope>>

IsUnavailable(o, subnets, scope) ==
    \/ key(o, scope) \in unavailable.offerings
    \/ o.ct \in unavailable.capacityTypes
    \/ subnets # {} /\ subnets \subseteq unavailable.subnets

\* Mutant: reserved offerings are looked up without the reservation ID.
AvailableUnscoped(o, pg) ==
    /\ ~ IsUnavailable(o, IF o.ct = "reserved" THEN {} ELSE {o.zone}, <<>>)
    /\ pg = "" \/ ~ IsUnavailable(o, IF o.ct = "reserved" THEN {} ELSE {o.zone}, <<pg>>)

Available(o, pg) ==
    IF o.ct = "reserved"
    THEN ~ IsUnavailable(o, {}, <<o.id>>)
    ELSE /\ ~ IsUnavailable(o, {o.zone}, <<>>)
         /\ pg = "" \/ ~ IsUnavailable(o, {o.zone}, <<pg>>)

\* Launchable of the core library: available, and a reservation has room.
Launchable(o, pg) == Available(o, pg) /\ (o.ct = "reserved" => free[o.id] > 0)

Compatible(o, c) == o.ct \in c.cts /\ o.zone \in c.zones

Usable(o, c) == Compatible(o, c) /\ Launchable(o, c.pg)

-----------------------------------------------------------------------------
(* The filters. its maps each remaining instance type to its offerings.     *)

RestrictOffers(its, S) == [it \in S |-> its[it]]

compatibleLaunchableFilter(its, c) ==
    RestrictOffers(its, {it \in DOMAIN its : \E o \in its[it] : Usable(o, c)})

\* A partition of the reserved offerings: the market they are launched in.
Market(o) == <<o.crt, o.interruptible>>

priorities == [m \in {<<"default", FALSE>>, <<"capacity-block", FALSE>>, <<"default", TRUE>>} |->
                  IF m[2] THEN 2 ELSE IF m[1] = "capacity-block" THEN 1 ELSE 0]

\* An instance type has one offering per capacity type and zone outside reservations,
\* and one per reservation, which is in one of the three markets.
ASSUME CatalogAssumption ==
    \A o \in Catalog : /\ o.ct \in {"reserved", "spot", "on-demand"} /\ o.price \in Nat
                       /\ o.ct = "reserved" => Market(o) \in DOMAIN priorities
                       /\ o.ct # "reserved" => o.id = ""
ASSUME UniqueAssumption ==
    \A o, p \in Catalog : o.ct = p.ct /\ o.it = p.it /\ o.zone = p.zone /\ o.id = p.id => o = p
ASSUME OffersAssumption == InitOffers \subseteq SUBSET Catalog /\ MaxCount \in Nat
ASSUME ClaimsAssumption ==
    \A c \in Claims : c.pg \in STRING /\ c.partition \in STRING /\ c.minValues \in Nat

\* The number of instance types a request may hold; there are no more of them.
maxInstanceTypes == 60
ASSUME TypesAssumption ==
    LET its == {o.it : o \in Catalog} IN IsFiniteSet(its) /\ Cardinality(its) =< maxInstanceTypes

\* HasMinValues of the core library. minValues is the least number of instance
\* types the NodeClaim asks the launch to choose among, 0 when it does not ask.
HasMinValues(c) == c.minValues > 0

ReservedUsable(its, c) == {o \in UNION {its[it] : it \in DOMAIN its} : o.ct = "reserved" /\ Usable(o, c)}

\* Mutant: a full reservation takes part in the choice of the partition.
PartitionOfFull(its, c) ==
    {o \in UNION {its[it] : it \in DOMAIN its} : o.ct = "reserved" /\ Compatible(o, c) /\ Available(o, c.pg)}

\* The offerings that fill the partitions.
Partition(its, c) == ReservedUsable(its, c)

\* The market of the cheapest offering, by priority among equals; its types
\* keep only their offerings of that market.
capacityReservationTypeFilter(its, c) ==
    LET used == Partition(its, c)
        best == CHOOSE o \in used : \A p \in used :
                    \/ o.price < p.price
                    \/ o.price = p.price /\ priorities[Market(o)] =< priorities[Market(p)]
    IN  IF "reserved" \notin c.cts \/ used = {} THEN its
        ELSE [it \in {o.it : o \in {p \in used : Market(p) = Market(best)}} |->
                 {o \in its[it] : o.ct = "reserved" /\ Market(o) = Market(best)}]

\* The instance type and offering of the cheapest capacity block. shouldFilter
\* looks at the first reserved offering: after the filter above all are of one
\* market, or none of them is launchable and the types pass through either way.
capacityBlockFilter(its, c) ==
    LET blocks == {o \in ReservedUsable(its, c) : o.crt = "capacity-block"}
        best   == CHOOSE o \in blocks : \A p \in blocks : o.price =< p.price
    IN  IF "reserved" \notin c.cts \/ blocks = {} THEN its
        ELSE [it \in {best.it} |-> {best}]

\* Mutant: all the reserved offerings of a zone are kept.
reservedOfferingFilterAll(its, c) ==
    LET used == ReservedUsable(its, c)
    IN  IF "reserved" \notin c.cts \/ used = {} THEN its
        ELSE [it \in {o.it : o \in used} |-> {o \in used : o.it = it}]

\* One reserved offering per instance type and zone, the one with most room.
reservedOfferingFilter(its, c) ==
    LET used == ReservedUsable(its, c)
        Pool(it, z) == {o \in used : o.it = it /\ o.zone = z}
        Pick(S) == CHOOSE o \in S : \A p \in S : free[o.id] >= free[p.id]
    IN  IF "reserved" \notin c.cts \/ used = {} THEN its
        ELSE [it \in {o.it : o \in used} |->
                 {Pick(Pool(it, z)) : z \in {o.zone : o \in {p \in used : p.it = it}}}]

exoticInstanceFilter(its, c) ==
    LET generic == DOMAIN its \ Exotic
    IN  IF HasMinValues(c) \/ generic = {} THEN its ELSE RestrictOffers(its, generic)

\* Spot offerings dearer than the cheapest on-demand offering are dropped.
spotOfferingFilter(its, c) ==
    LET open == {o \in UNION {its[it] : it \in DOMAIN its} : Compatible(o, c) /\ Available(o, c.pg)}
        onDemand == {o \in open : o.ct = "on-demand"}
        Kept(it) == {o \in its[it] : o.ct = "spot" => \A p \in onDemand : o.price =< p.price}
    IN  IF \/ HasMinValues(c)
           \/ ~ {"on-demand", "spot"} \subseteq c.cts
           \/ onDemand = {}
           \/ ~ \E o \in open : o.ct = "spot"
        THEN its
        ELSE [it \in {i \in DOMAIN its : Kept(i) # {}} |-> Kept(it)]

\* The filters in order. Every filter maps no types to no types, so the first
\* empty result is also the last.
Filtered(its, c) ==
    spotOfferingFilter(exoticInstanceFilter(reservedOfferingFilter(capacityBlockFilter(
        capacityReservationTypeFilter(compatibleLaunchableFilter(its, c), c), c), c), c), c)

\* Truncate of the core library: all the types, which are no more than it keeps,
\* or an error when they are fewer than minValues asks for.
Truncate(its, c) == IF Cardinality(DOMAIN its) < c.minValues THEN <<>> ELSE its

\* The types to launch; none stands for the error, an InsufficientCapacityError
\* whether the filters leave nothing or Truncate finds too few.
filterInstanceTypes(its, c) == Truncate(Filtered(its, c), c)

-----------------------------------------------------------------------------
(* The CreateFleet input.                                                   *)

getCapacityType(its, c) ==
    LET Has(ct) == \E it \in DOMAIN its : \E o \in its[it] : o.ct = ct /\ Usable(o, c)
    IN  IF Has("reserved") THEN "reserved" ELSE IF Has("spot") THEN "spot" ELSE "on-demand"

\* The launch templates' overrides: one per instance type and zone with a
\* launchable offering of the chosen capacity type. A launch template serves
\* one reservation, so a reserved override stands for its offering.
getOverrides(its, c, ct) ==
    {o \in UNION {its[it] : it \in DOMAIN its} : o.ct = ct /\ Usable(o, c)}

\* The markets the labels of the first reserved offering found may name.
getCapacityReservationType(its) ==
    {Market(o) : o \in {p \in UNION {its[it] : it \in DOMAIN its} : p.ct = "reserved"}}

defaultTargetCapacityType(its, ct) ==
    IF ct # "reserved" THEN {ct}
    ELSE {IF m[1] = "capacity-block" THEN "capacity-block"
          ELSE IF m[2] THEN "reserved-capacity" ELSE "on-demand" : m \in getCapacityReservationType(its)}

Build(its, c) ==
    LET ct == getCapacityType(its, c)
    IN  [ct |-> ct, targets |-> defaultTargetCapacityType(its, ct), overrides |-> getOverrides(its, c, ct)]

\* The reservation IDs that the lookup by instance type and zone may return.
reservedOfferingID(it, zone) ==
    {o.id : o \in {p \in types[it] : p.ct = "reserved" /\ p.zone = zone}}

-----------------------------------------------------------------------------
LaunchInit ==
    /\ offers \in InitOffers
    /\ free \in [Reservations -> 0 .. MaxCount]
    /\ \A r \in Reservations : (\A o \in offers : o.id # r) => free[r] = 0
    /\ unavailable = NothingUnavailable
    /\ phase = "idle" /\ claim = NoClaim /\ types = <<>> /\ request = NoRequest
    /\ retried = FALSE /\ failures = {} /\ attempts = 0 /\ events = 0

\* Create up to the call of CreateFleet, for a NodeClaim with requirements c.
LaunchRequest(c) ==
    LET its  == filterInstanceTypes([it \in {o.it : o \in offers} |-> {o \in offers : o.it = it}], c)
        reqt == Build(its, c)
    IN  /\ phase # "fleet"
        /\ attempts < MaxAttempts
        /\ attempts' = attempts + 1
        /\ claim' = c /\ retried' = FALSE
        /\ \/ /\ DOMAIN its = {}
              /\ phase' = "insufficient" /\ types' = <<>> /\ request' = NoRequest
           \/ /\ DOMAIN its # {} /\ reqt.overrides = {}
              /\ phase' = "error" /\ types' = <<>> /\ request' = NoRequest
           \/ /\ DOMAIN its # {} /\ reqt.overrides # {}
              /\ phase' = "fleet" /\ types' = its /\ request' = reqt
        /\ UNCHANGED <<offers, free, unavailable, failures, events>>

\* The call of CreateFleet itself fails: a missing launch template is retried once.
CreateFleetFails(notFound) ==
    /\ phase = "fleet"
    /\ IF notFound /\ ~ retried
       THEN retried' = TRUE /\ UNCHANGED <<phase, types, request>>
       ELSE phase' = "error" /\ types' = <<>> /\ request' = NoRequest /\ UNCHANGED retried
    /\ UNCHANGED <<offers, free, unavailable, claim, failures, attempts, events>>

IsUnfulfillableCapacity(kind) == kind \in {"capacity", "exceeded", "spread-limit", "addresses"}

\* The errors EC2 may answer for an override of the request.
Kinds(o) ==
    {"capacity", "addresses", "other"}
        \cup (IF o.ct = "reserved" THEN {"exceeded"} ELSE {})
        \cup (IF o.ct = "spot" THEN {"service-linked-role"} ELSE {})
        \cup (IF claim.pg # "" /\ claim.partition = "" THEN {"spread-limit"} ELSE {})

\* The scope of a mark: the placement group and the partition aimed at.
pgOpts == IF claim.pg = "" THEN <<>>
          ELSE IF claim.partition = "" THEN <<claim.pg>> ELSE <<claim.pg, claim.partition>>

\* What updateUnavailableOfferingsCache marks for an unfulfillable error of a
\* spot or on-demand launch; the spread limit closes the zone for every type.
MarksOf(o, kind) ==
    IF kind = "spread-limit" /\ claim.pg # ""
    THEN {<<o.ct, it, o.zone, <<claim.pg>>>> : it \in DOMAIN types}
    ELSE {key(o, pgOpts)}

\* The same for a reserved launch, scoped to the reservation.
ReservedMarksOf(o, kind) ==
    IF kind \in {"exceeded", "spread-limit"} THEN {}
    ELSE {key(o, <<id>>) : id \in reservedOfferingID(o.it, o.zone)}

\* The reservations whose count is set to zero.
Zeroed(errs) ==
    IF request.ct # "reserved" THEN {}
    ELSE UNION {reservedOfferingID(o.it, o.zone) : o \in {p \in DOMAIN errs : errs[p] = "exceeded"}}

updateUnavailableOfferingsCache(errs) ==
    LET unfulfilled == {o \in DOMAIN errs : IsUnfulfillableCapacity(errs[o])}
    IN  /\ unavailable' =
             [offerings |-> unavailable.offerings \cup
                  UNION {IF request.ct = "reserved" THEN ReservedMarksOf(o, errs[o])
                         ELSE MarksOf(o, errs[o]) : o \in unfulfilled},
              capacityTypes |-> unavailable.capacityTypes \cup
                  (IF \E o \in DOMAIN errs : errs[o] = "service-linked-role" THEN {"spot"} ELSE {}),
              subnets |-> unavailable.subnets \cup
                  {o.zone : o \in {p \in DOMAIN errs : errs[p] = "addresses"}}]
        /\ free' = [r \in Reservations |-> IF r \in Zeroed(errs) THEN 0 ELSE free[r]]
        /\ failures' = failures \cup
             {[offering |-> o, kind |-> errs[o], pg |-> claim.pg, partition |-> claim.partition] : o \in DOMAIN errs}

combineFleetErrors(errs) ==
    IF \A o \in DOMAIN errs : IsUnfulfillableCapacity(errs[o]) \/ errs[o] = "service-linked-role"
    THEN "insufficient" ELSE "error"

\* EC2 answers with errors and no instance.
FleetFails(errs) ==
    /\ phase = "fleet"
    /\ updateUnavailableOfferingsCache(errs)
    /\ phase' = combineFleetErrors(errs)
    /\ types' = <<>> /\ request' = NoRequest
    /\ UNCHANGED <<offers, claim, retried, attempts, events>>

\* EC2 answers with an instance of override o, and errors of others.
FleetLaunches(o, errs) ==
    /\ phase = "fleet"
    /\ updateUnavailableOfferingsCache(errs)
    /\ phase' = "launched"
    /\ types' = <<>> /\ request' = [request EXCEPT !.overrides = {o}]
    /\ UNCHANGED <<offers, claim, retried, attempts, events>>

\* The errors of an answer: one override, alone or with the others out of capacity.
LaunchAnswers ==
    UNION {{[o \in {x} |-> k], [o \in request.overrides |-> IF o = x THEN k ELSE "capacity"]} :
              x \in request.overrides, k \in UNION {Kinds(o) : o \in request.overrides}}

Plausible(errs) == \A o \in DOMAIN errs : errs[o] \in Kinds(o)

\* The entries of the cache time out.
CacheExpires ==
    /\ events < MaxEvents /\ attempts < MaxAttempts /\ unavailable # NothingUnavailable
    /\ unavailable' = NothingUnavailable
    /\ failures' = {f \in failures : f.kind = "exceeded"}
    /\ events' = events + 1
    /\ UNCHANGED <<offers, free, phase, claim, types, request, retried, attempts>>

\* A describe of the reservations finds room again in one of them.
ReservationSynced(r) ==
    /\ events < MaxEvents /\ attempts < MaxAttempts /\ free[r] = 0 /\ \E o \in offers : o.id = r
    /\ free' = [free EXCEPT ![r] = MaxCount]
    /\ failures' = {f \in failures : ~ (f.kind = "exceeded" /\ f.offering.id = r)}
    /\ events' = events + 1
    /\ UNCHANGED <<offers, unavailable, phase, claim, types, request, retried, attempts>>

LaunchEnds == phase # "fleet" /\ attempts = MaxAttempts /\ UNCHANGED launchVars

LaunchNext ==
    \/ \E c \in Claims : LaunchRequest(c)
    \/ \E notFound \in BOOLEAN : CreateFleetFails(notFound)
    \/ \E errs \in LaunchAnswers : Plausible(errs) /\ FleetFails(errs)
    \/ \E o \in request.overrides : \E errs \in LaunchAnswers \cup {<<>>} :
          o \notin DOMAIN errs /\ Plausible(errs) /\ FleetLaunches(o, errs)
    \/ CacheExpires
    \/ \E r \in Reservations : ReservationSynced(r)
    \/ LaunchEnds

LaunchSpec == LaunchInit /\ [][LaunchNext]_launchVars

-----------------------------------------------------------------------------
\* The state is well formed; CreateFleet is never called without an override,
\* and a refused or answered launch leaves no request behind.
LaunchTypeOK ==
    /\ free \in [Reservations -> 0 .. MaxCount]
    /\ phase \in {"idle", "fleet", "launched", "insufficient", "error"}
    /\ retried \in BOOLEAN
    /\ request.overrides \subseteq offers
    /\ (request.overrides = {}) <=> (phase \notin {"fleet", "launched"})
    /\ phase = "fleet" => {o.it : o \in request.overrides} \subseteq DOMAIN types
    /\ failures \subseteq [offering : offers, kind : {"capacity", "exceeded", "spread-limit", "addresses",
                           "other", "service-linked-role"}, pg : STRING, partition : STRING]

Resolves == phase # "fleet" /\ phase' \in {"fleet", "insufficient", "error"}

\* Whatever the filters drop, every override of a request is an offering the
\* NodeClaim allows, of the capacity type of the request, that was launchable
\* when it was resolved (Create and getOverrides).
RequestIsAllowed ==
    \A o \in request'.overrides :
        o.ct = request'.ct /\ Compatible(o, claim') /\ Available(o, claim'.pg)
            /\ (o.ct = "reserved" => free[o.id] > 0)

\* No combination of filters and fallbacks refuses a NodeClaim for which some
\* allowed offering is launchable, unless it asks for more instance types than
\* it can choose among: those it could be launched on or, while a reservation
\* has room, those of the market of the cheapest one (of which a capacity block
\* is always one type). Otherwise the launch is refused as insufficient
\* capacity, before any call (filterInstanceTypes: the fall back from full or
\* closed reservations to spot and on-demand, and the error of Truncate).
LaunchIsNotRefused ==
    attempts' # attempts =>
        LET used     == {o \in offers : Compatible(o, claim') /\ Launchable(o, claim'.pg)}
            reserved == {o \in used : o.ct = "reserved"}
            first    == {o \in reserved : \A p \in reserved :
                            \/ o.price < p.price
                            \/ o.price = p.price /\ priorities[Market(o)] =< priorities[Market(p)]}
            choice   == IF reserved = {} THEN used
                        ELSE {o \in reserved : \E p \in first : Market(p) = Market(o)}
            variety  == IF \E o \in first : o.crt = "capacity-block" THEN 1
                        ELSE Cardinality({o.it : o \in choice})
        IN  phase' = IF used # {} /\ claim'.minValues =< variety THEN "fleet" ELSE "insufficient"

\* A reserved request names one market, and its overrides are of that market;
\* a capacity block comes alone; and in each pool the lookup by instance type
\* and zone finds the reservation of the override and no other, so neither the
\* reservation the instance is recorded under nor the mark of a failure can be
\* a sibling's, and getCapacityReservationDetailsForInstance does not panic.
ReservedIsUnambiguous ==
    phase = "fleet" /\ request.ct = "reserved" =>
        /\ Cardinality(request.targets) = 1
        /\ Cardinality({Market(o) : o \in request.overrides}) = 1
        /\ request.targets = {"capacity-block"} => Cardinality(request.overrides) = 1
        /\ \A o \in request.overrides :
               {p.id : p \in {q \in types[o.it] : q.ct = "reserved" /\ q.zone = o.zone}} = {o.id}

\* Unless minValues ask for the variety, a NodeClaim open to both is never
\* launched on spot at more than the cheapest launchable on-demand offering
\* among the types considered (the exotic ones only if there are no others).
SpotIsNotDearer ==
    request'.ct = "spot" /\ ~ HasMinValues(claim') =>
        \A s \in request'.overrides, d \in UNION {types'[it] : it \in DOMAIN types'} :
            d.ct = "on-demand" /\ Compatible(d, claim') /\ Available(d, claim'.pg)
                => s.price =< d.price

\* A launch leaves what it should only use when it must: spot and on-demand
\* while an allowed reservation has room, and (outside reservations, without
\* minValues) an exotic type while an allowed generic one is launchable.
LastResortsAreLast ==
    phase' = "fleet" /\ request'.ct # "reserved" =>
        /\ \A o \in offers : o.ct = "reserved" => ~ (Compatible(o, claim') /\ Launchable(o, claim'.pg))
        /\ ~ HasMinValues(claim') /\ (\E o \in request'.overrides : o.it \in Exotic) =>
               \A o \in offers : o.it \in Exotic \/ ~ (Compatible(o, claim') /\ Launchable(o, claim'.pg))

\* A launch is reported as insufficient capacity, on which the NodeClaim is
\* deleted and scheduled anew, only when every error was about capacity: an
\* error of another kind is never hidden behind the capacity errors of other
\* pools (combineFleetErrors).
OtherErrorsAreReported ==
    phase' = "insufficient" => \A f \in failures' \ failures : f.kind # "other"

\* What Create resolves, and what it reports of the answer, is right in these
\* five ways.
LaunchIsRight ==
    [][/\ Resolves => RequestIsAllowed /\ LaunchIsNotRefused /\ SpotIsNotDearer /\ LastResortsAreLast
       /\ phase = "fleet" => OtherErrorsAreReported]_launchVars

\* The failures a later launch must know of. Left out is what the code does not
\* remember: errors that are not about capacity, the spread limit met by a
\* reserved launch, and a failure scoped to a partition, which no lookup reads.
Remembered(f) ==
    /\ IsUnfulfillableCapacity(f.kind) \/ f.kind = "service-linked-role"
    /\ f.offering.ct = "reserved" => f.kind # "spread-limit"
    /\ f.offering.ct # "reserved" /\ f.partition # "" => f.kind = "addresses"

Concerns(f, c) ==
    f.offering.ct = "reserved" \/ f.pg \in {"", c.pg} \/ f.kind \in {"addresses", "service-linked-role"}

\* An offering EC2 has refused is not asked for again, by any NodeClaim the
\* failure concerns, until the cache entry expires or the reservations are
\* synced (updateUnavailableOfferingsCache and the resolvers' lookups agree on
\* the key for reservations, placement groups, subnets and capacity types).
RefusedIsNotAskedAgain ==
    [][phase # "fleet" /\ phase' = "fleet" =>
           \A f \in failures : Remembered(f) /\ Concerns(f, claim') =>
               f.offering \notin request'.overrides]_launchVars

\* An offering is closed only by a failure of its own, of its subnet or of its
\* capacity type, or by the spread limit of the group it is launched into: the
\* failures of one reservation or of one placement group never close another's.
NothingElseIsClosed ==
    \A o \in offers, c \in Claims : Available(o, c.pg) \/
        \E f \in failures :
            \/ f.offering = o /\ (o.ct = "reserved" \/ f.pg \in {"", c.pg})
            \/ f.kind = "spread-limit" /\ f.pg = c.pg /\ f.offering.zone = o.zone /\ f.offering.ct = o.ct
            \/ f.kind = "addresses" /\ o.ct # "reserved" /\ f.offering.zone = o.zone
            \/ f.kind = "service-linked-role" /\ o.ct = "spot"

\* Safety of launches: well-formed requests, one market for a reserved one, and
\* nothing closed but for a failure.
LaunchInv == LaunchTypeOK /\ ReservedIsUnambiguous /\ NothingElseIsClosed

=============================================================================
