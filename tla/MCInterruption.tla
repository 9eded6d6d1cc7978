---------------------------- MODULE MCInterruption ----------------------------
(* Two instances and two messages; the drain of i1 is blocked and the         *)
(* NodeClaim of i2 gets its instance ID while the controllers run.            *)
EXTENDS Interruption, TLC

CONSTANTS i1, i2, m1, m2

Content(envelope, detail, ids) == [envelope |-> envelope, detail |-> detail, ids |-> ids]
Silent == Content("none", "", {})
Scenario(first, second, repair, fragile) ==
  [body |-> m1 :> first @@ m2 :> second, nodeRepair |-> repair, fragile |-> fragile]

MCScenarios ==
  { Scenario(Content("spot", "", {i1}), Content("health", "scheduledChange", {i1, i2}), FALSE, {}),
    Scenario(Content("reservation", "", {i1}), Content("rebalance", "", {i2}), FALSE, {}),
    Scenario(Content("state", "terminated", {i2}), Content("malformed", "", {}), FALSE, {}),
    Scenario(Content("state", "stopping", {i1}), Silent, FALSE, {i1}),
    Scenario(Content("state", "running", {i1}), Silent, TRUE, {i1}) }
=============================================================================
