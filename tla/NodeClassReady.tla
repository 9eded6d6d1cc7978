---------------------------- MODULE NodeClassReady ----------------------------
(***************************************************************************)
(* How an EC2NodeClass becomes ready: the reconcile loop of the NodeClass     *)
(* controller with its reconcilers for discovered resources, the validation   *)
(* reconciler with its cache of dry-run results, the optimistic patch of the  *)
(* status, and when the NodeClass is reconciled again.                       *)
(*                                                                         *)
(* The AMI reconciler stands for itself, "network" for the subnet and         *)
(* security group reconcilers, which have the same shape.  A spec is "valid", *)
(* "invalid" (the kubelet configuration is malformed), "terminal" (one of the *)
(* checks that end in a terminal error fails) or "alias" (an AMI alias that   *)
(* needs a newer Kubernetes version); its kubelet configuration has           *)
(* expressions, which need the instance types.  Dry runs are not disabled,    *)
(* and the launch templates and subnets of a NodeClass fare alike in them.    *)
(***************************************************************************)
EXTENDS Naturals, FiniteSets

CONSTANTS ClassSpecs,       \* the specs users write
          Found,            \* what EC2 has for each kind of resource
          MaxReadyEvents    \* bound on edits, changes in EC2 and failed calls

Kinds == {"ami", "network"}
Nothing == "none"

VARIABLES
  world,     \* EC2 and the cluster, see ReadyInit
  stored,    \* the NodeClass in the API server
  seen,      \* the copy of it in the informer's cache
  queued,    \* the controller's queue holds the NodeClass
  timer,     \* a requeue after some minutes is pending
  pass,      \* the reconcile in progress
  verdicts,  \* the validation cache
  accepted,  \* history: inputs for which every dry run was accepted
  refused,   \* history: inputs for which EC2 refused a dry run
  ended,     \* history: the last reconcile ended in a terminal error
  readyEvents

readyVars == <<world, stored, seen, queued, timer, pass, verdicts, accepted, refused, ended, readyEvents>>

EmptyStatus == [resource |-> [k \in Kinds |-> Nothing], found |-> [k \in Kinds |-> "Unknown"], valid |-> "Unknown"]

IdlePass == [pc |-> "idle", spec |-> "", base |-> EmptyStatus, status |-> EmptyStatus,
             retry |-> FALSE, later |-> FALSE, terminal |-> FALSE]

ReadyInit ==
  /\ world \in [resource: [Kinds -> {"r1"}], denied: {{}}, hydrated: {FALSE}, upgraded: {FALSE}]
  /\ stored \in [spec: ClassSpecs, status: {EmptyStatus}]
  /\ seen = stored
  /\ queued = TRUE
  /\ timer = FALSE
  /\ pass = IdlePass
  /\ verdicts = {}
  /\ accepted = {}
  /\ refused = {}
  /\ ended = FALSE
  /\ readyEvents = 0

ReadyEvent == readyEvents < MaxReadyEvents /\ readyEvents' = readyEvents + 1

-----------------------------------------------------------------------------
(* Users, EC2, the cluster and the informer *)

EditClass(s) ==
  /\ ReadyEvent
  /\ s # stored.spec
  /\ stored' = [stored EXCEPT !.spec = s]
  /\ UNCHANGED <<world, seen, queued, timer, pass, verdicts, accepted, refused, ended>>

ChangeWorld ==
  /\ ReadyEvent
  /\ \/ \E k \in Kinds : \E r \in Found[k] \cup {Nothing} : world' = [world EXCEPT !.resource[k] = r]
     \/ \E d \in {{}, {"template"}, {"fleet"}, {"run"}} : world' = [world EXCEPT !.denied = d]
     \/ world' = [world EXCEPT !.upgraded = TRUE]
  /\ world' # world
  /\ UNCHANGED <<stored, seen, queued, timer, pass, verdicts, accepted, refused, ended>>

(* The first refresh of the instance types.                                  *)
HydrateTypes ==
  /\ ~world.hydrated
  /\ world' = [world EXCEPT !.hydrated = TRUE]
  /\ UNCHANGED <<stored, seen, queued, timer, pass, verdicts, accepted, refused, ended, readyEvents>>

(* The controller watches NodeClasses, its own patches included.             *)
InformNodeClass ==
  /\ seen # stored
  /\ seen' = stored /\ queued' = TRUE
  /\ UNCHANGED <<world, stored, timer, pass, verdicts, accepted, refused, ended, readyEvents>>

TimerFires ==
  /\ timer
  /\ timer' = FALSE /\ queued' = TRUE
  /\ UNCHANGED <<world, stored, seen, pass, verdicts, accepted, refused, ended, readyEvents>>

ExpireVerdict(e) ==
  /\ verdicts' = verdicts \ {e}
  /\ UNCHANGED <<world, stored, seen, queued, timer, pass, accepted, refused, ended, readyEvents>>

-----------------------------------------------------------------------------
(* The reconcile and the reconcilers of discovered resources *)

ReconcileClass ==
  /\ pass.pc = "idle" /\ queued
  /\ pass' = [IdlePass EXCEPT !.pc = "ami", !.spec = seen.spec, !.base = seen.status, !.status = seen.status]
  /\ queued' = FALSE /\ timer' = FALSE
  /\ UNCHANGED <<world, stored, seen, verdicts, accepted, refused, ended, readyEvents>>

(* After the AMIs come the subnets and the security groups, then validation.  *)
After(k) == IF k = "ami" THEN "network" ELSE "validate"

Discover(k, r) ==
  [pass EXCEPT !.pc = After(k), !.later = TRUE, !.status.resource[k] = r,
               !.status.found[k] = IF r = Nothing THEN "False" ELSE "True"]

Unsupported(k) == k = "ami" /\ pass.spec = "alias" /\ ~world.upgraded

ReconcileResource(k) ==
  /\ pass.pc = k
  /\ pass' = IF Unsupported(k)
             THEN [pass EXCEPT !.pc = After(k), !.terminal = TRUE, !.status.found[k] = "False"]
             ELSE Discover(k, world.resource[k])
  /\ UNCHANGED <<world, stored, seen, queued, timer, verdicts, accepted, refused, ended, readyEvents>>

ReconcileResourceFails(k) ==
  /\ pass.pc = k /\ ~Unsupported(k)
  /\ ReadyEvent
  /\ pass' = [pass EXCEPT !.pc = After(k), !.retry = TRUE]
  /\ UNCHANGED <<world, stored, seen, queued, timer, verdicts, accepted, refused, ended>>

-----------------------------------------------------------------------------
(* Validation *)

cacheKey(spec, status) == [spec |-> spec, resource |-> status.resource]

Key == cacheKey(pass.spec, pass.status)

Cached == {e \in verdicts : e.key = Key}

(* The ways in which the validation of a pass ends.                          *)
Verdict(p, v) == [p EXCEPT !.pc = "patch", !.status.valid = v]
Now(p) == [p EXCEPT !.pc = "patch", !.retry = TRUE]
Later(p) == [p EXCEPT !.later = TRUE]
Terminal(p) == [p EXCEPT !.terminal = TRUE]

(* Mutant: that instance types are not known yet is a terminal error.         *)
NotHydratedTerminal == Terminal(Verdict(pass, "False"))

NotHydrated == Now(pass)

(* The checks that come before the dry runs, in their order.                 *)
Validate ==
  /\ pass.pc = "validate"
  /\ pass' = CASE pass.spec = "invalid" -> Verdict(pass, "False")
               [] pass.spec = "terminal" -> Terminal(Verdict(pass, "False"))
               [] \E k \in Kinds : pass.status.found[k] = "False" -> Later(Verdict(pass, "False"))
               [] \E k \in Kinds : pass.status.found[k] = "Unknown" -> Later(Verdict(pass, "Unknown"))
               [] ~world.hydrated -> NotHydrated
               [] Cached # {} -> Later(Verdict(pass, (CHOOSE e \in Cached : TRUE).valid))
               [] OTHER -> [pass EXCEPT !.pc = "template"]
  /\ UNCHANGED <<world, stored, seen, queued, timer, verdicts, accepted, refused, ended, readyEvents>>

(* A server error leaves the condition, any other error sets it to False.     *)
ResolveClusterCIDRFails ==
  /\ pass.pc = "validate"
  /\ ReadyEvent
  /\ pass' \in {Now(pass), Now(Verdict(pass, "False"))}
  /\ UNCHANGED <<world, stored, seen, queued, timer, verdicts, accepted, refused, ended>>

NextCall(call) == IF call = "template" THEN "fleet" ELSE "run"

DryRun(call) ==
  /\ pass.pc = call
  /\ IF call \in world.denied
     THEN /\ verdicts' = verdicts \cup {[key |-> Key, valid |-> "False"]}
          /\ refused' = refused \cup {Key}
          /\ pass' = Later(Verdict(pass, "False"))
          /\ UNCHANGED accepted
     ELSE IF call = "run"
     THEN /\ verdicts' = verdicts \cup {[key |-> Key, valid |-> "True"]}
          /\ accepted' = accepted \cup {Key}
          /\ pass' = Later(Verdict(pass, "True"))
          /\ UNCHANGED refused
     ELSE /\ pass' = [pass EXCEPT !.pc = NextCall(call)]
          /\ UNCHANGED <<verdicts, accepted, refused>>
  /\ UNCHANGED <<world, stored, seen, queued, timer, ended, readyEvents>>

(* Throttling, a server error, or an instance profile that is not found yet:  *)
(* the condition stays as it was.  With spec.instanceProfile the last of      *)
(* these shows as False.                                                     *)
DryRunFails(call) ==
  /\ pass.pc = call
  /\ ReadyEvent
  /\ pass' \in {Now(pass)} \cup (IF call = "run" THEN {Now(Verdict(pass, "False"))} ELSE {})
  /\ UNCHANGED <<world, stored, seen, queued, timer, verdicts, accepted, refused, ended>>

-----------------------------------------------------------------------------
(* The end of the reconcile *)

Conflict == pass.status # pass.base /\ stored # [spec |-> pass.spec, status |-> pass.base]

(* A conflict requeues at once.  Otherwise an error decides, and a terminal   *)
(* one decides against a retry; only without errors is the NodeClass          *)
(* reconciled again after the least of the requested times.                  *)
PatchStatus ==
  /\ pass.pc = "patch"
  /\ stored' = IF Conflict \/ pass.status = pass.base THEN stored ELSE [stored EXCEPT !.status = pass.status]
  /\ queued' = (queued \/ Conflict \/ (pass.retry /\ ~pass.terminal))
  /\ timer' = (~Conflict /\ ~pass.terminal /\ ~pass.retry /\ pass.later)
  /\ ended' = (~Conflict /\ pass.terminal)
  /\ pass' = IdlePass
  /\ UNCHANGED <<world, seen, verdicts, accepted, refused, readyEvents>>

-----------------------------------------------------------------------------

Reconcile ==
  \/ ReconcileClass \/ Validate \/ PatchStatus
  \/ \E k \in Kinds : ReconcileResource(k)
  \/ \E call \in {"template", "fleet", "run"} : DryRun(call)

ReadyNext ==
  \/ \E s \in ClassSpecs : EditClass(s)
  \/ ChangeWorld \/ HydrateTypes \/ InformNodeClass \/ TimerFires
  \/ \E e \in verdicts : ExpireVerdict(e)
  \/ Reconcile
  \/ \E k \in Kinds : ReconcileResourceFails(k)
  \/ ResolveClusterCIDRFails
  \/ \E call \in {"template", "fleet", "run"} : DryRunFails(call)

(* The controller works off its queue, the informer catches up, timers fire,  *)
(* cached results lapse and the instance types are refreshed.                *)
ReadySpec ==
  /\ ReadyInit /\ [][ReadyNext]_readyVars
  /\ WF_readyVars(Reconcile) /\ WF_readyVars(InformNodeClass) /\ WF_readyVars(TimerFires)
  /\ WF_readyVars(HydrateTypes)
  /\ WF_readyVars(\E e \in verdicts : ExpireVerdict(e))

-----------------------------------------------------------------------------
(* Properties *)

StatusOK(s) ==
  /\ DOMAIN s.resource = Kinds /\ \A k \in Kinds : s.resource[k] \in Found[k] \cup {Nothing}
  /\ s.found \in [Kinds -> {"True", "False", "Unknown"}]
  /\ s.valid \in {"True", "False", "Unknown"}

ReadyTypeOK ==
  /\ stored.spec \in ClassSpecs /\ StatusOK(stored.status)
  /\ seen.spec \in ClassSpecs /\ StatusOK(seen.status)
  /\ queued \in BOOLEAN /\ timer \in BOOLEAN /\ ended \in BOOLEAN
  /\ pass.pc \in {"idle", "validate", "template", "fleet", "run", "patch"} \cup Kinds
  /\ StatusOK(pass.status)
  /\ \A e, f \in verdicts : e.key = f.key => e = f

(* The NodeClass turns valid only for inputs that EC2 has accepted: spec,     *)
(* AMIs, subnets and security groups as they are in the same object, however  *)
(* edits, cached results and late patches interleave.                        *)
ValidatedAsStored ==
  [][stored.status.valid # "True" /\ stored'.status.valid = "True" =>
       cacheKey(stored'.spec, stored'.status) \in accepted]_readyVars

(* A failure is remembered for half an hour only when EC2 has refused the     *)
(* call; throttling, server errors and an instance profile that is not found  *)
(* yet are not.                                                              *)
RefusalIsReal == \A e \in verdicts : e.valid = "False" => e.key \in refused

Ready == stored.status.valid = "True" /\ \A k \in Kinds : stored.status.found[k] = "True"

Good ==
  /\ stored.spec = "valid" \/ (stored.spec = "alias" /\ world.upgraded)
  /\ \A k \in Kinds : world.resource[k] # Nothing
  /\ world.denied = {}

(* "Returning 'ok' in this case means that the nodeclass will remain in an     *)
(* unready state until the component is restarted": whatever made it unready, *)
(* a NodeClass becomes ready once the cause is gone.  The exception is an     *)
(* alias that was not supported: its terminal error is not retried.          *)
GoodIsReady == ~<>[](Good /\ ~Ready /\ ~(ended /\ stored.spec = "alias"))

(* And it does not stay ready on what was true once.                         *)
BadIsNotReady == ~<>[](~Good /\ Ready)

(* What the NodeClass controller promises of readiness: only what EC2 accepted  *)
(* counts as valid, only refusals are remembered, and readiness follows the     *)
(* world in both directions.                                                 *)
ReadyContract == [](ReadyTypeOK /\ RefusalIsReal) /\ ValidatedAsStored /\ GoodIsReady /\ BadIsNotReady
=============================================================================
