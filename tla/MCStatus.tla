------------------------------- MODULE MCStatus -------------------------------
(***************************************************************************)
(* What Karpenter keeps of AWS by polling: prices, and the subnets, security  *)
(* groups and reservations a NodeClass selects.  They share no state: a        *)
(* behaviour picks one and runs it under its own fairness.                    *)
(***************************************************************************)
EXTENDS Pricing, NodeDrift

VARIABLE mode  \* the part that runs

vars == <<mode, pricingVars, driftVars>>

(* One of the priced types is bare metal and not in the compiled table.      *)
MCSteadyOffers == {<<"t", "a">>, <<"t", "b">>}

(* The second version of the spec drops a group and the reservation, and adds  *)
(* a subnet.                                                                 *)
MCSelections == <<[sg |-> {"g1", "g2"}, subnet |-> {"n1"}, res |-> {"r1"}],
                  [sg |-> {"g1"}, subnet |-> {"n1", "n2"}, res |-> {}]>>

Init ==
  /\ mode \in {"prices", "drift"}
  /\ PricingInit /\ (mode # "prices" => isolated)
  /\ DriftInit

OfPrices == mode = "prices" /\ UNCHANGED <<mode, driftVars>>
OfDrift == mode = "drift" /\ UNCHANGED <<mode, pricingVars>>

Next ==
  \/ OfPrices /\ PricingNext
  \/ OfDrift /\ DriftNext

(* The fairness of PricingSpec and DriftSpec.  As only one part runs in a      *)
(* behaviour, one conjunct serves an action of each.                         *)
Fairness ==
  /\ SF_vars((OfPrices /\ ReadOnDemand) \/ (OfDrift /\ FreshLists("sg")))
  /\ SF_vars((OfPrices /\ ReadSpot) \/ (OfDrift /\ FreshLists("subnet")))
  /\ SF_vars(OfDrift /\ FreshLists("res"))
  /\ WF_vars((OfPrices /\ StartPolls) \/ (OfDrift /\ ReconcilePatch))
  /\ WF_vars((OfPrices /\ SpotPoller) \/ (OfDrift /\ Checker))
  /\ WF_vars((OfPrices /\ OnDemandPoller) \/ (OfDrift /\ InformClassCopy))
  /\ WF_vars(OfDrift /\ zoneShifted /\ ShiftZone)

Spec == Init /\ [][Next]_vars /\ Fairness
=============================================================================
