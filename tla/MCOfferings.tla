----------------------------- MODULE MCOfferings -----------------------------
(***************************************************************************)
(* Small instances of the offerings of one instance type: two zones, a     *)
(* NodeClass without and one with a placement group.                       *)
(***************************************************************************)
EXTENDS Offerings

Spot1 == <<"spot", "z1">>
Spot2 == <<"spot", "z2">>

MCAllOfferings == {Spot1, Spot2}

MCSubnetsOf == [c \in Classes |-> [z \in {"z1", "z2"} |-> IF z = "z1" THEN {"s1"} ELSE {}]]

MCPlacementGroup == [c \in Classes |-> IF c = "pgclass" THEN "pg" ELSE None]

\* Entries of all kinds: for an offering and everybody, for an offering and the
\* placement group, for a capacity type, and for a subnet.
MCSignals ==
    {OfferingKey(Spot1, None, None), OfferingKey(Spot2, "pg", None), CapacityTypeKey("spot"), SubnetKey("s1")}
=============================================================================
