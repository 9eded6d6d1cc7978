------------------------- MODULE MCInstanceLaunch -------------------------
EXTENDS InstanceLaunch

Offer(it, ct, zone, price, id, crt, interruptible) ==
    [it |-> it, ct |-> ct, zone |-> zone, price |-> price, id |-> id, crt |-> crt,
     interruptible |-> interruptible]

\* Two sibling reservations of one pool and an interruptible one beside them,
\* two capacity blocks and a plain reservation of an exotic type; spot below, and above, on-demand.
MCCatalog == {
    Offer("m5", "on-demand", "a", 30, "", "", FALSE),
    Offer("m5", "spot", "a", 20, "", "", FALSE),
    Offer("m5", "spot", "b", 40, "", "", FALSE),
    Offer("p4", "on-demand", "a", 10, "", "", FALSE),
    Offer("m5", "reserved", "a", 3, "r1", "default", FALSE),
    Offer("m5", "reserved", "a", 3, "r2", "default", FALSE),
    Offer("m5", "reserved", "b", 3, "r3", "default", TRUE),
    Offer("p4", "reserved", "a", 1, "r4", "capacity-block", FALSE),
    Offer("p4", "reserved", "b", 1, "r5", "capacity-block", FALSE),
    Offer("p4", "reserved", "b", 4, "r6", "default", FALSE)}

Claim(cts, minValues, pg, partition) ==
    [cts |-> cts, zones |-> {"a", "b"}, minValues |-> minValues, pg |-> pg, partition |-> partition]

MCClaims == {
    Claim({"reserved", "spot", "on-demand"}, 0, "", ""),
    Claim({"reserved", "spot", "on-demand"}, 2, "pg", ""),
    [Claim({"reserved", "on-demand"}, 0, "", "") EXCEPT !.zones = {"b"}],
    Claim({"reserved"}, 0, "pg", "1"),
    Claim({"spot", "on-demand"}, 1, "pg", "1")}

\* Every cluster with at most two offerings, every one with on-demand and two
\* others, and every one with the two siblings and two offerings outside
\* reservations, of their instance type.  The siblings differ in their ids only,
\* so a cluster with one of them has r1; one with one capacity block has r4.  The
\* plain reservation of the exotic type comes with its sibling of the other type.
MCInitOffers ==
    {S \in SUBSET MCCatalog :
        /\ (\E o \in S : o.id = "r2") => \E o \in S : o.id = "r1"
        /\ (\E o \in S : o.id = "r5") => \E o \in S : o.id = "r4"
        /\ (\E o \in S : o.id = "r6") => \E o \in S : o.id = "r1"
        /\ \/ Cardinality(S) =< 2
           \/ Cardinality(S) = 3 /\ \E o \in S : o.ct = "on-demand"
           \/ /\ Cardinality(S) = 4 /\ Cardinality({o.it : o \in S}) = 1
              /\ {o.id : o \in S} = {"", "r1", "r2"}}

===========================================================================
