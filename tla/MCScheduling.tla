----------------------------- MODULE MCScheduling -----------------------------
(***************************************************************************)
(* Two questions about what the scheduler is given, in one run: which         *)
(* offerings of an instance type it sees (Offerings), and whether a node can   *)
(* hold what it was told (KubeletResources).  They share no state; the mode is *)
(* chosen in the initial state.                                              *)
(***************************************************************************)
EXTENDS MCOfferings, KubeletResources, TLC

VARIABLE mode

MCKubeletFamilies ==
  {[podsPerCore |-> TRUE, eniLimited |-> TRUE],      \* AL2, AL2023, Custom
   [podsPerCore |-> FALSE, eniLimited |-> TRUE],     \* Bottlerocket
   [podsPerCore |-> TRUE, eniLimited |-> FALSE]}     \* Windows

Reserve(cpu, memory) ==
  ("cpu" :> cpu) @@ (IF memory = <<>> THEN NoMap ELSE "memory" :> memory)

MCKubeletConfigs ==
  {[maxPods |-> pods, podsPerCore |-> n, efaOnly |-> n \div 2, reserved |-> map] :
     pods \in {<<"unset", 0>>, <<"int", 9>>, <<"expression", "default_enis * ips_per_eni">>, <<"expression", "max_pods">>},
     n \in {0, 2},
     map \in {NoMap, Reserve(<<"quantity", 7>>, <<>>),
              Reserve(<<"expression", "max_pods">>, <<"quantity", 5>>),
              Reserve(<<"expression", "3 - vcpus">>, <<>>),
              Reserve(<<"expression", "12 / default_enis">>, <<"expression", "huge">>)}}

TypeA == [vcpus |-> 2, enis |-> 3, ips |-> 4]
TypeB == [vcpus |-> 4, enis |-> 2, ips |-> 6]
MCInfos == {"a" :> TypeA, ("a" :> TypeA) @@ ("b" :> TypeB), "a" :> [TypeA EXCEPT !.enis = 2]}

Init ==
  /\ OfferingsInit /\ KubeletInit
  /\ mode \in {"offerings", "kubelet"}
  /\ mode # "kubelet" =>
       /\ family = CHOOSE f \in KubeletFamilies : TRUE
       /\ kubelet = CHOOSE c \in KubeletConfigs : TRUE
       /\ info = CHOOSE i \in Infos : TRUE
       /\ gate

RunOfferings == mode = "offerings" /\ UNCHANGED <<mode, kubeletVars>>
RunKubelet == mode = "kubelet" /\ UNCHANGED <<mode, offeringVars>>

Next ==
  \/ RunOfferings /\ OfferingsNext
  \/ RunKubelet /\ KubeletNext

(* The fairness of FairOfferingsSpec; the other properties are of safety.     *)
Fairness ==
  /\ \A k \in Signals :
       /\ WF_offeringVars(RunOfferings /\ MarkBump(k)) /\ WF_offeringVars(RunOfferings /\ ExpireMark(k))
       /\ WF_offeringVars(RunOfferings /\ EvictMark(k)) /\ WF_offeringVars(RunOfferings /\ OnEvicted(k))
  /\ \A p \in Procs : WF_offeringVars(RunOfferings /\ ResolveStep(p))

Spec == Init /\ [][Next]_<<mode, offeringVars, kubeletVars>> /\ Fairness
=============================================================================
