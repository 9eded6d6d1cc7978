---------------------------- MODULE MCControllers ----------------------------
(***************************************************************************)
(* Instances of the components that share no state: a behaviour picks one     *)
(* and runs it under its own fairness; the others stay as they start.         *)
(***************************************************************************)
EXTENDS Subnet, NodeClassHash, ZonalShift, ReservationSync, PlacementGroup, Kwok, TLC

CONSTANTS l1, l2, c1, c2

MCSubnetZone == [s \in Subnets |-> "z"]
MCMinPods == l1 :> 1 @@ l2 :> 2

VARIABLE mode  \* the component that runs

vars == <<mode, subnetVars, hashVars, zonalShiftVars, syncVars, placementVars, kwokVars>>

Init ==
  /\ mode \in {"subnet", "hash", "shift", "sync", "placement", "kwok"}
  /\ SubnetInit /\ (mode # "subnet" => \A s \in Subnets : free[s] = 2)
  /\ HashInit /\ (mode # "hash" => class.spec = 1)
  /\ ZonalShiftInit
  /\ SyncInit
  /\ PlacementInit /\ (mode # "placement" => node.allowed = {})
  /\ KwokInit

RunSubnet == mode = "subnet" /\ UNCHANGED <<mode, hashVars, zonalShiftVars, syncVars, placementVars, kwokVars>>
RunHash == mode = "hash" /\ UNCHANGED <<mode, subnetVars, zonalShiftVars, syncVars, placementVars, kwokVars>>
RunShift == mode = "shift" /\ UNCHANGED <<mode, subnetVars, hashVars, syncVars, placementVars, kwokVars>>
RunSync == mode = "sync" /\ UNCHANGED <<mode, subnetVars, hashVars, zonalShiftVars, placementVars, kwokVars>>
RunPlacement == mode = "placement" /\ UNCHANGED <<mode, subnetVars, hashVars, zonalShiftVars, syncVars, kwokVars>>
RunKwok == mode = "kwok" /\ UNCHANGED <<mode, subnetVars, hashVars, zonalShiftVars, syncVars, placementVars>>

Next ==
  \/ RunSubnet /\ SubnetNext
  \/ RunHash /\ HashNext
  \/ RunShift /\ ZonalShiftNext
  \/ RunSync /\ SyncNext
  \/ RunPlacement /\ PlacementNext
  \/ RunKwok /\ KwokNext

(* The fairness of SubnetSpec, HashSpec, ZonalShiftSpec, SyncSpec and        *)
(* KwokSpec.  As only one component runs in a behaviour, one conjunct serves  *)
(* an action of each.                                                        *)
Fairness ==
  /\ WF_vars(\/ RunSubnet /\ ExpireList
             \/ RunHash /\ HashController
             \/ RunShift /\ ShiftController
             \/ RunSync /\ SyncController
             \/ RunKwok /\ BackupStep)
  /\ WF_vars(\/ RunSubnet /\ ReconcileSubnets
             \/ RunHash /\ InformClass
             \/ RunShift /\ Hydrate
             \/ RunSync /\ ExpireController
             \/ RunKwok /\ KillStep)
  /\ WF_vars(\/ RunHash /\ CheckDrift(c1)
             \/ RunShift /\ Tick
             \/ RunSync /\ InformLabel(c1)
             \/ RunKwok /\ StartStep)
  /\ WF_vars(\/ RunHash /\ CheckDrift(c2)
             \/ RunSync /\ InformLabel(c2))

Spec == Init /\ [][Next]_vars /\ Fairness
=============================================================================
