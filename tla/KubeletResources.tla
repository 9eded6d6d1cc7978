--------------------------- MODULE KubeletResources ---------------------------
(***************************************************************************)
(* What the scheduler believes a new node can hold, and what the node's      *)
(* kubelet is told.  maxPods, kubeReserved and systemReserved of a NodeClass  *)
(* may be CEL expressions over the instance type, behind the feature gate     *)
(* NodeClassCEL.  The instance type resolver evaluates them when instance     *)
(* types are listed (instancetype/types.go), the launch template resolver     *)
(* once more when a node is launched (amifamily/resolver.go), both through    *)
(* cel/environment.go.                                                      *)
(*                                                                         *)
(* kubeReserved and systemReserved are treated alike, so one map stands for   *)
(* both.  A value is a pair of its kind and its content; -1 stands for no      *)
(* number, and for an expression that fails or gives a negative number, which  *)
(* the code treats alike.                                                    *)
(***************************************************************************)
EXTENDS Integers, FiniteSets

CONSTANTS KubeletFamilies,   \* feature flags of the AMI families: [podsPerCore, eniLimited]
          KubeletConfigs,    \* [maxPods, podsPerCore, efaOnly, reserved] of a NodeClass
          Infos,             \* what EC2 may say: instance type |-> [vcpus, enis, ips]
          ReservedENIs,      \* option of the operator
          MaxInt,            \* math.MaxInt64
          MaxPodsLimit,      \* math.MaxInt32
          MaxKubeletEvents   \* bound on changes and restarts

VARIABLES
  family,         \* the AMI family of the NodeClass
  kubelet,        \* spec.kubelet of the NodeClass
  gate,           \* the feature gate NodeClassCEL
  info,           \* instanceTypesInfo
  ready,          \* the NodeClass is Ready, for this generation
  create,         \* a cloudprovider.Create: [pc, class, info, types]
  launched,       \* the last node launched, and what its instance type promised
  validated,      \* history: the class, gate and info that validation last accepted
  kubeletEvents

kubeletVars == <<family, kubelet, gate, info, ready, create, launched, validated, kubeletEvents>>

NoMap == [k \in {} |-> <<"quantity", 0>>]
IdleCreate == [pc |-> "idle"]
NotLaunched == [pc |-> "none"]

KubeletInit ==
  /\ family \in KubeletFamilies /\ kubelet \in KubeletConfigs /\ gate \in BOOLEAN /\ info \in Infos
  /\ ready = FALSE
  /\ create = IdleCreate /\ launched = NotLaunched
  /\ validated = <<>>
  /\ kubeletEvents = 0

KubeletEvent == kubeletEvents < MaxKubeletEvents /\ kubeletEvents' = kubeletEvents + 1

IsExpression(v) == v[1] = "expression"
Least(a, b) == IF a < b THEN a ELSE b

-----------------------------------------------------------------------------
(* Expressions *)

(* The expressions of the instance, as the CEL library evaluates them.        *)
Eval(e, vars) ==
  CASE e = "vcpus" -> vars.vcpus
    [] e = "max_pods" -> vars.pods
    [] e = "default_enis * ips_per_eni" -> vars.enis * vars.ips
    [] e = "3 - vcpus" -> IF vars.vcpus > 3 THEN -1 ELSE 3 - vars.vcpus
    [] e = "12 / default_enis" -> IF vars.enis = 0 THEN -1 ELSE 12 \div vars.enis
    [] e = "huge" -> MaxInt - 3

(* An integer of the width of MaxInt.                                        *)
Wrap(n) == IF n > MaxInt THEN n - 2 * (MaxInt + 1) ELSE n

roundUpTo(value, granularity) ==
  IF value % granularity = 0 \/ value > MaxInt - granularity THEN value
  ELSE Wrap((value \div granularity + 1) * granularity)

formatResourceResult(key, result) ==
  <<"quantity", CASE key = "cpu" -> roundUpTo(result, 10) [] key = "memory" -> roundUpTo(result, 16) [] OTHER -> result>>

ResolveResourceMap(m, vars) ==
  [k \in {j \in DOMAIN m : IsExpression(m[j]) => Eval(m[j][2], vars) >= 0} |->
     IF IsExpression(m[k]) THEN formatResourceResult(k, Eval(m[k][2], vars)) ELSE m[k]]

staticQuantities(m) == [k \in {j \in DOMAIN m : ~IsExpression(m[j])} |-> m[k]]

-----------------------------------------------------------------------------
(* The instance type resolver *)

ENILimitedPods(i, reservedENIs, efaOnly) ==
  LET usable == i.enis - reservedENIs - efaOnly
  IN IF usable <= 0 THEN 0 ELSE usable * (i.ips - 1) + 2

Pods(i, maxPods, class) ==
  LET count == CASE maxPods # -1 -> maxPods
                 [] maxPods = -1 /\ family.eniLimited -> ENILimitedPods(i, ReservedENIs, class.efaOnly)
                 [] OTHER -> 110
  IN IF class.podsPerCore > 0 /\ family.podsPerCore THEN Least(class.podsPerCore * i.vcpus, count) ELSE count

buildCELVars(i, maxPods, class) ==
  [vcpus |-> i.vcpus, enis |-> i.enis, ips |-> i.ips, pods |-> Pods(i, maxPods, class)]

(* The maxPods expression sees the default as max_pods.                      *)
MaxPodsResult(i, class) == Eval(class.maxPods[2], buildCELVars(i, -1, class))

MaxPodsFails(i, class) ==
  /\ IsExpression(class.maxPods) /\ gate
  /\ MaxPodsResult(i, class) \notin 0..MaxPodsLimit

resolveMaxPods(i, class) ==
  CASE class.maxPods[1] = "unset" -> -1
    [] class.maxPods[1] = "int" -> class.maxPods[2]
    [] OTHER -> IF gate THEN MaxPodsResult(i, class) ELSE -1

(* Mutant: expressions are evaluated whatever the gate.                      *)
resolveUngated(i, class) ==
  ResolveResourceMap(class.reserved, buildCELVars(i, resolveMaxPods(i, class), class))

resolveResourceExpressions(i, class) ==
  IF gate THEN ResolveResourceMap(class.reserved, buildCELVars(i, resolveMaxPods(i, class), class))
  ELSE staticQuantities(class.reserved)

NewInstanceType(i, class) ==
  [vcpus |-> i.vcpus, pods |-> Pods(i, resolveMaxPods(i, class), class), reserved |-> resolveResourceExpressions(i, class)]

-----------------------------------------------------------------------------
(* The launch template resolver *)

celVarsFromInstanceType(t, it) ==
  LET known == t \in DOMAIN info
  IN [vcpus |-> it.vcpus, pods |-> it.pods,
      enis |-> IF known THEN info[t].enis ELSE 0, ips |-> IF known THEN info[t].ips ELSE 0]

paramsForInstanceType(t, it, class) ==
  [maxPods |-> it.pods,
   reserved |-> ResolveResourceMap(IF gate THEN class.reserved ELSE staticQuantities(class.reserved),
                                   celVarsFromInstanceType(t, it))]

maxPodsForTemplate(class, params) == IF class.maxPods[1] = "int" THEN class.maxPods ELSE <<"int", params.maxPods>>

(* The parsed and the raw configuration are changed alike.  An empty map is   *)
(* serialized as "", read back as nil, and then leaves the map of the spec.   *)
resolveLaunchTemplate(class, params) ==
  [maxPods |-> maxPodsForTemplate(class, params), podsPerCore |-> class.podsPerCore,
   reserved |-> IF params.reserved = NoMap THEN class.reserved ELSE params.reserved]

-----------------------------------------------------------------------------
(* Validation, a launch, and what changes meanwhile *)

HasExpressions(class) ==
  IsExpression(class.maxPods) \/ \E k \in DOMAIN class.reserved : IsExpression(class.reserved[k])

(* No expression fails, is negative or, for maxPods, out of range.            *)
evaluateKubeletExpressions(i, class) ==
  ~MaxPodsFails(i, class) /\ DOMAIN resolveResourceExpressions(i, class) = DOMAIN class.reserved

ValidateKubeletExpressions ==
  HasExpressions(kubelet) => gate /\ \A t \in DOMAIN info : evaluateKubeletExpressions(info[t], kubelet)

(* The part of a reconciliation of the NodeClass that looks at spec.kubelet.  *)
Validate ==
  /\ ready' = ValidateKubeletExpressions
  /\ validated' = IF ready' THEN <<kubelet, gate, info>> ELSE validated
  /\ UNCHANGED <<family, kubelet, gate, info, create, launched, kubeletEvents>>

(* Create refuses a NodeClass whose Ready is of an older generation.          *)
ChangeKubelet ==
  /\ KubeletEvent
  /\ \E class \in KubeletConfigs \ {kubelet} : kubelet' = class
  /\ ready' = FALSE
  /\ UNCHANGED <<family, gate, info, create, launched, validated>>

(* EC2 describes the instance types anew, which flushes the listed ones.      *)
UpdateInstanceTypes ==
  /\ KubeletEvent
  /\ \E i \in Infos \ {info} : info' = i
  /\ UNCHANGED <<family, kubelet, gate, ready, create, launched, validated>>

(* The operator comes back with the gate the other way; the status stays.     *)
RestartOperator ==
  /\ KubeletEvent
  /\ gate' = ~gate
  /\ create' = IdleCreate
  /\ UNCHANGED <<family, kubelet, info, ready, launched, validated>>

(* Create: the NodeClass is Ready, and List resolves every instance type.     *)
CreateList ==
  /\ create = IdleCreate /\ ready
  /\ \A t \in DOMAIN info : ~MaxPodsFails(info[t], kubelet)
  /\ create' = [pc |-> "listed", class |-> kubelet, info |-> info,
                types |-> [t \in DOMAIN info |-> NewInstanceType(info[t], kubelet)]]
  /\ UNCHANGED <<family, kubelet, gate, info, ready, launched, validated, kubeletEvents>>

(* Create: the launch template of each type is resolved, and EC2 picks one.   *)
CreateLaunch ==
  /\ create.pc = "listed"
  /\ \E t \in DOMAIN create.types :
       LET it == create.types[t]
       IN launched' = [pc |-> "launched", class |-> create.class, it |-> it,
                       kubelet |-> resolveLaunchTemplate(create.class, paramsForInstanceType(t, it, create.class)),
                       current |-> info = create.info,
                       validated |-> validated = <<create.class, gate, create.info>>]
  /\ create' = IdleCreate
  /\ UNCHANGED <<family, kubelet, gate, info, ready, validated, kubeletEvents>>

KubeletNext ==
  \/ Validate \/ ChangeKubelet \/ UpdateInstanceTypes \/ RestartOperator \/ CreateList \/ CreateLaunch

KubeletSpec == KubeletInit /\ [][KubeletNext]_kubeletVars

-----------------------------------------------------------------------------
(* Properties *)

(* Numbers of the node's kubelet and of the scheduler are non-negative        *)
(* integers of the machine's width: rounding a reservation up never           *)
(* overflows into a negative quantity (roundUpTo), and maxPods fits 32 bits.  *)
KubeletTypeOK ==
  /\ family \in KubeletFamilies /\ kubelet \in KubeletConfigs /\ info \in Infos
  /\ gate \in BOOLEAN /\ ready \in BOOLEAN
  /\ create.pc \in {"idle", "listed"} /\ kubeletEvents \in 0..MaxKubeletEvents
  /\ launched.pc = "launched" =>
       /\ launched.it.pods \in 0..MaxInt
       /\ \A k \in DOMAIN launched.it.reserved : launched.it.reserved[k][2] \in 0..MaxInt

(* How many pods a kubelet admits with the configuration it is given.         *)
PodLimit(config, it) ==
  IF config.podsPerCore > 0 /\ family.podsPerCore
  THEN Least(config.podsPerCore * it.vcpus, config.maxPods[2]) ELSE config.maxPods[2]

(* The kubelet of a new node is given a number, never an expression, and      *)
(* admits exactly the pods that the scheduler counted on for its instance     *)
(* type, whatever changed between listing the types and launching.            *)
NodeHoldsPods ==
  launched.pc = "launched" =>
    launched.kubelet.maxPods[1] = "int" /\ PodLimit(launched.kubelet, launched.it) = launched.it.pods

(* "The launch template configures exactly what the scheduler reserved"       *)
(* (resolver.go), unless the ENI limits changed in between.  Where            *)
(* validation did not see this class, gate and set of types, there is one     *)
(* more exception: when every entry was dropped, the map of the spec is left  *)
(* as it is.                                                                 *)
NodeReserves ==
  launched.pc = "launched" /\ launched.current =>
    \/ launched.kubelet.reserved = launched.it.reserved
    \/ ~launched.validated /\ launched.it.reserved = NoMap

(* A node launched as validation saw it (its class, the gate, the types) has   *)
(* every reservation that its NodeClass asks for, as a quantity: no           *)
(* expression is dropped or reaches the kubelet.                             *)
ReservesAsAsked ==
  launched.pc = "launched" /\ launched.validated /\ launched.current =>
    /\ DOMAIN launched.kubelet.reserved = DOMAIN launched.class.reserved
    /\ \A k \in DOMAIN launched.kubelet.reserved : ~IsExpression(launched.kubelet.reserved[k])

(* A node is what the scheduler took it for: numbers fit, it holds the pods    *)
(* counted on, and it reserves what was reserved and what its class asks for   *)
(* (instancetype/types.go against amifamily/resolver.go).                     *)
KubeletInv == KubeletTypeOK /\ NodeHoldsPods /\ NodeReserves /\ ReservesAsAsked
=============================================================================
