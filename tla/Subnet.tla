-------------------------------- MODULE Subnet --------------------------------
(***************************************************************************)
(* Choice of a subnet per zone by the addresses left (providers/subnet).     *)
(* availableIPAddressCache holds the counts of the last DescribeSubnets,      *)
(* inflightIPs the estimate after the launches since then: a launch deducts   *)
(* the pods of its smallest instance type from every subnet it may use, and   *)
(* adds them back to those that the fleet did not choose.  List, the launch   *)
(* and the two updates take one lock each, so launches and refreshes          *)
(* interleave between them.  EC2 and the fleets are external.                 *)
(***************************************************************************)
EXTENDS Integers, Sequences, FiniteSets

CONSTANTS Subnets,         \* subnet IDs, totally ordered (naturals)
          SubnetZone,      \* subnet |-> zone
          Launches,        \* concurrent calls of launchInstance
          minPods,         \* launch |-> addresses of its smallest instance type
          Addresses,       \* addresses a subnet can have
          Unknown,         \* no entry in a cache or map
          MaxSubnetEvents  \* bound on expiries, launches that fail early and changes in EC2

ASSUME SubnetAssumption == Unknown \notin Int /\ Addresses \subseteq Nat /\ \A l \in Launches : minPods[l] \in Nat

VARIABLES
  free,        \* addresses EC2 reports
  listed,      \* the subnets of the NodeClass are in the cache of List
  available,   \* availableIPAddressCache
  inflightIPs,
  statusSubnets, \* NodeClass.Status.Subnets
  launch,      \* launch |-> [pc, zonal, exhausted]; zonal: zone |-> [id, count]
  spent,       \* history: subnets with a deduction since their last refresh that nobody gives back
  subnetEvents \* events so far

subnetVars == <<free, listed, available, inflightIPs, statusSubnets, launch, spent, subnetEvents>>

SubnetZones == {SubnetZone[s] : s \in Subnets}
Launch(pc) == [pc |-> pc, zonal |-> [z \in SubnetZones |-> Unknown], exhausted |-> {}]

(* Most addresses first, then by ID.                                         *)
Sorted(counts) ==
  CHOOSE q \in [1..Cardinality(Subnets) -> Subnets] :
    \A i, j \in DOMAIN q : i < j => \/ counts[q[i]] > counts[q[j]]
                                    \/ counts[q[i]] = counts[q[j]] /\ q[i] < q[j]

SubnetInit ==
  /\ free \in [Subnets -> Addresses]
  /\ listed = TRUE
  /\ available = free
  /\ inflightIPs = [s \in Subnets |-> Unknown]
  /\ statusSubnets = Sorted(free)
  /\ launch = [l \in Launches |-> Launch("idle")]
  /\ spent = {}
  /\ subnetEvents = 0

SubnetEvent == subnetEvents < MaxSubnetEvents /\ subnetEvents' = subnetEvents + 1

-----------------------------------------------------------------------------
(* External: somebody else uses or releases addresses; entries expire.       *)
UseAddresses(s) ==
  /\ SubnetEvent
  /\ \E n \in Addresses \ {free[s]} : free' = [free EXCEPT ![s] = n]
  /\ UNCHANGED <<listed, available, inflightIPs, statusSubnets, launch, spent>>

ExpireList ==
  /\ listed
  /\ listed' = FALSE
  /\ UNCHANGED <<free, available, inflightIPs, statusSubnets, launch, spent, subnetEvents>>

ExpireAvailable(s) ==
  /\ available[s] # Unknown /\ SubnetEvent
  /\ available' = [available EXCEPT ![s] = Unknown]
  /\ spent' = spent \cup {s}
  /\ UNCHANGED <<free, listed, inflightIPs, statusSubnets, launch>>

-----------------------------------------------------------------------------
\* Mutant: a refresh keeps an estimate that is not below the count.
ListKeepsHigher ==
  inflightIPs' = [s \in Subnets |-> IF inflightIPs[s] # Unknown /\ inflightIPs[s] >= free[s] THEN inflightIPs[s] ELSE Unknown]

ListInflight == inflightIPs' = [s \in Subnets |-> Unknown]

(* List asks EC2 when its cache has expired; the NodeClass reconciler stores  *)
(* the sorted subnets in the status.                                         *)
ReconcileSubnets ==
  /\ ~listed
  /\ listed' = TRUE
  /\ available' = free
  /\ ListInflight
  /\ statusSubnets' = Sorted(free)
  /\ spent' = {}
  /\ UNCHANGED <<free, launch, subnetEvents>>

Count(s) == IF available[s] = Unknown THEN 0 ELSE available[s]
Estimate(s) == IF inflightIPs[s] # Unknown THEN inflightIPs[s] ELSE Count(s)

Fewer(s, t) == Estimate(s) < Estimate(t)

(* In the order of the status a subnet replaces the one of its zone only if    *)
(* it has more addresses: the first of the largest estimates wins.           *)
ZonalSubnet(z) ==
  LET inZone == {i \in DOMAIN statusSubnets : SubnetZone[statusSubnets[i]] = z}
      best == CHOOSE i \in inZone :
                /\ \A j \in inZone : j < i => Fewer(statusSubnets[j], statusSubnets[i])
                /\ \A j \in inZone : j > i => ~Fewer(statusSubnets[i], statusSubnets[j])
  IN statusSubnets[best]

ZonalSubnetsForLaunch(l) ==
  LET zonal == [z \in SubnetZones |-> [id |-> ZonalSubnet(z), count |-> Count(ZonalSubnet(z))]]
      ids == {zonal[z].id : z \in SubnetZones}
  IN /\ launch[l].pc = "idle"
     /\ launch' = [launch EXCEPT ![l] = [pc |-> "fleet", zonal |-> zonal, exhausted |-> {}]]
     /\ inflightIPs' = [s \in Subnets |-> IF s \in ids THEN Estimate(s) - minPods[l] ELSE inflightIPs[s]]
     /\ UNCHANGED <<free, listed, available, statusSubnets, spent, subnetEvents>>

(* The launch templates fail: launchInstance returns without the update.     *)
AbandonLaunch(l) ==
  /\ launch[l].pc = "fleet" /\ SubnetEvent
  /\ launch' = [launch EXCEPT ![l] = Launch("done")]
  /\ spent' = spent \cup {launch[l].zonal[z].id : z \in SubnetZones}
  /\ UNCHANGED <<free, listed, available, inflightIPs, statusSubnets>>

(* Subnets of the request that the fleet did not choose and whose count is     *)
(* still the one the launch saw.                                             *)
AddBack(l, chosen) ==
  [s \in Subnets |->
     IF /\ \E z \in SubnetZones : launch[l].zonal[z].id = s /\ launch[l].zonal[z].count = available[s]
        /\ s \notin chosen /\ inflightIPs[s] # Unknown
     THEN inflightIPs[s] + minPods[l] ELSE inflightIPs[s]]

(* CreateFleet answers: an instance in one subnet or none, and subnets that    *)
(* ran out of addresses.                                                     *)
UpdateInflightIPs(l) ==
  /\ launch[l].pc = "fleet"
  /\ LET ids == {launch[l].zonal[z].id : z \in SubnetZones} IN
     \E chosen \in {{}} \cup {{s} : s \in {t \in ids : free[t] >= minPods[l]}} :
     \E exhausted \in SUBSET {t \in ids \ chosen : free[t] < minPods[l]} :
       /\ inflightIPs' = AddBack(l, chosen)
       /\ launch' = [launch EXCEPT ![l] = IF exhausted = {} THEN Launch("done")
                                          ELSE [@ EXCEPT !.pc = "exhausted", !.exhausted = exhausted]]
       /\ free' = [s \in Subnets |-> IF s \in chosen THEN free[s] - minPods[l] ELSE free[s]]
       /\ spent' = spent \cup chosen
  /\ UNCHANGED <<listed, available, statusSubnets, subnetEvents>>

UpdateICEdSubnet(l) ==
  /\ launch[l].pc = "exhausted"
  /\ \E s \in launch[l].exhausted :
       /\ available' = [available EXCEPT ![s] = 0]
       /\ inflightIPs' = [inflightIPs EXCEPT ![s] = Unknown]
       /\ launch' = [launch EXCEPT ![l] = IF @.exhausted = {s} THEN Launch("done")
                                          ELSE [@ EXCEPT !.exhausted = @ \ {s}]]
       /\ spent' = spent \ {s}
  /\ UNCHANGED <<free, listed, statusSubnets, subnetEvents>>

-----------------------------------------------------------------------------
RunLaunch(l) == UpdateInflightIPs(l) \/ UpdateICEdSubnet(l)
SubnetNext ==
  \/ \E s \in Subnets : UseAddresses(s) \/ ExpireAvailable(s)
  \/ ExpireList \/ ReconcileSubnets
  \/ \E l \in Launches : ZonalSubnetsForLaunch(l) \/ AbandonLaunch(l) \/ RunLaunch(l)

(* The NodeClass is reconciled every minute, which is the lifetime of the     *)
(* cache of List.                                                            *)
SubnetSpec ==
  /\ SubnetInit /\ [][SubnetNext]_subnetVars
  /\ WF_subnetVars(ExpireList) /\ WF_subnetVars(ReconcileSubnets)

-----------------------------------------------------------------------------
(* Type correctness; an estimate is below zero only while more is in flight    *)
(* than a subnet had.                                                        *)
SubnetTypeOK ==
  /\ listed \in BOOLEAN
  /\ \A s \in Subnets : /\ free[s] \in Nat
                        /\ available[s] \in Nat \cup {Unknown}
                        /\ inflightIPs[s] \in Int \cup {Unknown}
  /\ {statusSubnets[i] : i \in DOMAIN statusSubnets} = Subnets
  /\ \A l \in Launches : launch[l].pc \in {"idle", "fleet", "exhausted", "done"} /\ launch[l].exhausted \subseteq Subnets
  /\ spent \subseteq Subnets /\ subnetEvents \in 0..MaxSubnetEvents

(* Launches that end without using a subnet leave its estimate where it was,   *)
(* however they interleave with each other and with refreshes                 *)
(* (UpdateInflightIPs: "need to be readded since Fleet didn't pick those       *)
(* subnets").  It may be above the count, never below.                        *)
UnusedIsGivenBack ==
  (\A l \in Launches : launch[l].pc # "fleet") =>
    \A s \in Subnets \ spent : inflightIPs[s] # Unknown /\ available[s] # Unknown => inflightIPs[s] >= available[s]

(* A launch gets the subnet of the zone with the most addresses left, what     *)
(* other launches have in flight included.                                   *)
PicksMostAddresses ==
  [][\A l \in Launches : launch[l].pc = "idle" /\ launch'[l].pc = "fleet" =>
       \A s \in Subnets : Estimate(launch'[l].zonal[SubnetZone[s]].id) >= Estimate(s)]_subnetVars

(* An estimate is replaced by what EC2 says, so that no error in it lasts.     *)
EstimateIsReplaced == \A s \in Subnets : []<>(inflightIPs[s] = Unknown)

(* What the subnet provider promises: estimates that launches give back, the    *)
(* best subnet for each launch, and estimates that do not outlive a refresh. *)
SubnetContract == [](SubnetTypeOK /\ UnusedIsGivenBack) /\ PicksMostAddresses /\ EstimateIsReplaced
=============================================================================
