----------------------------- MODULE MCNodeClass -----------------------------
(***************************************************************************)
(* What the status of an EC2NodeClass and its instance types are made of,     *)
(* model-checked side by side: `mode` says which one of the three runs.       *)
(***************************************************************************)
EXTENDS NodeClassReady, AmiDiscovery, InstanceTypes

VARIABLE mode

MCFound == [k \in Kinds |-> IF k = "ami" THEN {"r1", "r2"} ELSE {"r1"}]

(* Images 1 and 2 are for x86, image 3 for arm.                              *)
MCVariantOf == <<"x86", "x86", "arm">>

vars == <<mode, readyVars, amiVars, typeVars>>

RunReady == mode = "ready" /\ UNCHANGED <<mode, amiVars, typeVars>>
RunAmi == mode = "ami" /\ UNCHANGED <<mode, readyVars, typeVars>>
RunTypes == mode = "types" /\ UNCHANGED <<mode, readyVars, amiVars>>

(* One that does not run has a single initial state; with tags the parameters *)
(* are not read.                                                             *)
Init ==
  /\ mode \in {"ready", "ami", "types"}
  /\ ReadyInit /\ AmiInit /\ TypesInit
  /\ mode # "ready" => stored.spec = "invalid"
  /\ mode # "ami" => selector = "tags"
  /\ selector = "tags" => latest["x86"] = 1

Next ==
  \/ RunReady /\ ReadyNext
  \/ RunAmi /\ AmiNext
  \/ RunTypes /\ TypesNext

(* In every behaviour one of the three runs, so that one conjunct can state   *)
(* the fairness of a step of each.                                           *)
Spec ==
  /\ Init /\ [][Next]_vars
  /\ WF_vars((RunReady /\ Reconcile) \/ (RunAmi /\ AmiReconcile) \/ (RunTypes /\ ExpireTypes))
  /\ WF_vars((RunReady /\ InformNodeClass) \/ (RunAmi /\ ExpireAMIs))
  /\ WF_vars((RunReady /\ TimerFires) \/ (RunTypes /\ UpdateStep("info")))
  /\ WF_vars((RunReady /\ HydrateTypes) \/ (RunTypes /\ UpdateStep("offerings")))
  /\ WF_vars(RunReady /\ \E e \in verdicts : ExpireVerdict(e))
  /\ SF_vars((RunAmi /\ Sweep) \/ (RunTypes /\ ListStep("l1")))
  /\ SF_vars(RunTypes /\ ListStep("l2"))
=============================================================================
