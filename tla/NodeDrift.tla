------------------------------ MODULE NodeDrift ------------------------------
(***************************************************************************)
(* Drift by subnet, security group and capacity reservation.  The NodeClass   *)
(* controller (controllers/nodeclass) lists what the selector terms match,     *)
(* through caches keyed by the generation of the NodeClass (the one of          *)
(* reservations by the terms, which amounts to the same here), and patches the *)
(* status.  The cloud provider (cloudprovider) launches an instance with what   *)
(* the status of its copy of the NodeClass holds, and later compares the       *)
(* instance with the status of a later copy; instances come from the cache of  *)
(* the instance provider (providers/instance), and from EC2 where a stale       *)
(* answer would not do.  External: EC2 and its tags, the API server and its     *)
(* informer, and Karpenter core, which keeps the last verdict on an error.      *)
(* One NodeClass, one instance; AMI, placement-group and static drift are       *)
(* modelled elsewhere.                                                        *)
(***************************************************************************)
EXTENDS Naturals, Sequences

CONSTANTS Groups,           \* security groups
          Subnetworks,      \* subnets
          Reservations,     \* on-demand capacity reservations
          Selections,       \* generation |-> [sg, subnet, res] that its terms match at first
          MaxDriftEvents,   \* bound on changes of the selection, failing calls, restarts and zonal shifts
          NoInstance

Kinds == {"res", "subnet", "sg"}
All == [sg |-> Groups, subnet |-> Subnetworks, res |-> Reservations]
Generations == DOMAIN Selections
Selection == [sg : SUBSET Groups, subnet : SUBSET Subnetworks, res : SUBSET Reservations]
Empty == [sg |-> {}, subnet |-> {}, res |-> {}]
Never == [k \in Kinds |-> 0]

ASSUME SelectionsAssumption == Selections \in Seq(Selection) /\ Selections # <<>>

VARIABLES
  selected,     \* EC2: generation |-> what its selector terms match now
  changedAt,    \* history: generation |-> kind |-> which edit changed that last
  ended,        \* EC2: capacity reservations that have ended
  node,         \* EC2: the instance [sg, subnet, res, at], or NoInstance
  nodeCache,    \* instanceCache: the instance as last seen, or NoInstance
  zoneShifted,  \* its zone is shifted
  ec2Class,     \* the NodeClass in the API server: [gen, version, observed, status, at]; observed is
                \* the ObservedGeneration of its condition Ready; at is history: which edit each part
                \* of the status goes back to
  classCopy,    \* the same as the informer shows it
  listCache,    \* kind |-> {} or {[gen, set, at]}, what List returned last; the copies a process
                \* works with never go back, so an entry of an earlier generation is not asked for again
  reconcile,    \* the NodeClass controller: {} or {the NodeClass it is about to patch}
  creating,     \* Create: {} or {[status, at] of the NodeClass it works with}
  check,        \* IsDrifted: {} or {[status, at, found]}, when it has to ask EC2
  verdict,      \* the last result of IsDrifted that core recorded
  edits,        \* changes of the selection so far
  driftEvents   \* the other events so far

ec2Facts == <<selected, changedAt, ended, node, zoneShifted>>
caches == <<nodeCache, listCache>>
driftVars == <<ec2Facts, caches, ec2Class, classCopy, reconcile, creating, check, verdict, edits, driftEvents>>

NewClass == [gen |-> 1, version |-> 1, observed |-> 0, status |-> Empty, at |-> Never]
NoLists == [k \in Kinds |-> {}]

DriftInit ==
  /\ selected = Selections /\ changedAt = [g \in Generations |-> Never]
  /\ ended = {} /\ node = NoInstance /\ zoneShifted = FALSE
  /\ nodeCache = NoInstance /\ listCache = NoLists
  /\ ec2Class = NewClass /\ classCopy = NewClass
  /\ reconcile = {} /\ creating = {} /\ check = {}
  /\ verdict = "none"
  /\ edits = 0 /\ driftEvents = 0

Edit == edits + driftEvents < MaxDriftEvents /\ edits' = edits + 1 /\ UNCHANGED driftEvents
DriftEvent == edits + driftEvents < MaxDriftEvents /\ driftEvents' = driftEvents + 1 /\ UNCHANGED edits

-----------------------------------------------------------------------------
(* External: tags and the spec of the NodeClass change.                      *)
Retag(k, x) ==
  /\ Edit
  /\ selected' = [selected EXCEPT ![ec2Class.gen][k] = IF x \in @ THEN @ \ {x} ELSE @ \cup {x}]
  /\ changedAt' = [changedAt EXCEPT ![ec2Class.gen][k] = edits']
  /\ UNCHANGED <<ended, node, zoneShifted, caches, ec2Class, classCopy, reconcile, creating, check, verdict>>

ChangeSpec ==
  /\ Edit /\ ec2Class.gen + 1 \in Generations
  /\ ec2Class' = [ec2Class EXCEPT !.gen = @ + 1, !.version = @ + 1]
  /\ changedAt' = [changedAt EXCEPT ![ec2Class.gen + 1] = [k \in Kinds |-> edits']]
  /\ UNCHANGED <<selected, ended, node, zoneShifted, caches, classCopy, reconcile, creating, check, verdict>>

(* A reservation ends: its instance goes on as an on-demand instance.        *)
EndOfReservation(r) ==
  /\ r \notin ended
  /\ ended' = ended \cup {r}
  /\ node' = IF node # NoInstance /\ node.res = {r} THEN [node EXCEPT !.res = {}] ELSE node
  /\ UNCHANGED <<selected, changedAt, zoneShifted, caches, ec2Class, classCopy, reconcile, creating, check, verdict, edits, driftEvents>>

ShiftZone ==
  /\ IF zoneShifted THEN UNCHANGED <<edits, driftEvents>> ELSE DriftEvent
  /\ zoneShifted' = ~zoneShifted
  /\ UNCHANGED <<selected, changedAt, ended, node, caches, ec2Class, classCopy, reconcile, creating, check, verdict>>

InformClassCopy ==
  /\ classCopy # ec2Class
  /\ classCopy' = ec2Class
  /\ UNCHANGED <<ec2Facts, caches, ec2Class, reconcile, creating, check, verdict, edits, driftEvents>>

RestartProcess ==
  /\ DriftEvent
  /\ nodeCache' = NoInstance /\ listCache' = NoLists
  /\ classCopy' = ec2Class
  /\ reconcile' = {} /\ creating' = {} /\ check' = {}
  /\ UNCHANGED <<ec2Facts, ec2Class, verdict>>

-----------------------------------------------------------------------------
(* The NodeClass controller: a copy, three lists and one patch.              *)

(* EC2 returns no ended reservation, and filterReservations drops a cached    *)
(* one whose end has come.                                                   *)
Filtered(k, set) == IF k = "res" THEN set \ ended ELSE set

Query(k) == [gen |-> classCopy.gen, set |-> selected[classCopy.gen][k], at |-> changedAt[classCopy.gen][k]]

(* List of the providers: the entry for this generation, or a query.         *)
CachedList(k) == {e \in listCache[k] : e.gen = classCopy.gen}
Listed(k, fresh) == IF k \notin fresh /\ CachedList(k) # {} THEN CHOOSE e \in CachedList(k) : TRUE ELSE Query(k)

\* Mutant: the pages before the one that failed count as the answer.
AfterFailurePartly(k) == selected[classCopy.gen][k] \ {CHOOSE x \in All[k] : TRUE}

(* A query that fails leaves its part of the status.                         *)
AfterFailure(k) == classCopy.status[k]

(* The reconcilers run one after the other, and each goes on without those    *)
(* that failed.  The entries of some of the caches have expired.              *)
ReconcileLists(expired, failed) ==
  LET new == [k \in Kinds |-> IF k \in failed THEN AfterFailure(k) ELSE Filtered(k, Listed(k, expired).set)] IN
  /\ reconcile = {} /\ \A k \in expired : CachedList(k) # {}
  /\ IF failed = {} THEN UNCHANGED <<edits, driftEvents>>
     ELSE DriftEvent /\ \A k \in failed : k \in expired \/ CachedList(k) = {}
  /\ listCache' = [k \in Kinds |-> IF k \in failed THEN {} ELSE {Listed(k, expired)}]
  /\ reconcile' = {[classCopy EXCEPT !.status = new, !.observed = classCopy.gen,
                    !.at = [k \in Kinds |-> IF k \in failed THEN @[k] ELSE Listed(k, expired).at]]}
  /\ UNCHANGED <<ec2Facts, nodeCache, ec2Class, classCopy, creating, check, verdict>>

(* The patch of a status that changed is refused if the NodeClass is not the  *)
(* one the copy was of.                                                      *)
ReconcilePatch ==
  /\ \E new \in reconcile :
       ec2Class' = IF new.version # ec2Class.version THEN ec2Class
                   ELSE [new EXCEPT !.version = IF <<new.status, new.observed>> # <<ec2Class.status, ec2Class.observed>>
                                                THEN @ + 1 ELSE @]
  /\ reconcile' = {}
  /\ UNCHANGED <<ec2Facts, caches, classCopy, creating, check, verdict, edits, driftEvents>>

-----------------------------------------------------------------------------
(* Create wants a status reconciled against the latest spec it knows.        *)
IsReady(class) == class.observed = class.gen /\ class.status.sg # {} /\ class.status.subnet # {}

CreateResolve ==
  /\ node = NoInstance /\ creating = {} /\ IsReady(classCopy)
  /\ creating' = {[status |-> classCopy.status, at |-> classCopy.at]}
  /\ UNCHANGED <<ec2Facts, caches, ec2Class, classCopy, reconcile, check, verdict, edits, driftEvents>>

(* ... and launches with its security groups, in one of its subnets and       *)
(* perhaps in one of its reservations.                                       *)
CreateLaunches ==
  /\ \E class \in creating : \E n \in class.status.subnet, r \in {{}} \cup {{x} : x \in class.status.res \ ended} :
       node' = [sg |-> class.status.sg, subnet |-> n, res |-> r, at |-> class.at]
  /\ creating' = {}
  /\ UNCHANGED <<selected, changedAt, ended, zoneShifted, caches, ec2Class, classCopy, reconcile, check, verdict, edits, driftEvents>>

(* List of the instance provider, called by several controllers.             *)
ListInstances ==
  /\ nodeCache # node
  /\ nodeCache' = node
  /\ UNCHANGED <<ec2Facts, listCache, ec2Class, classCopy, reconcile, creating, check, verdict, edits, driftEvents>>

-----------------------------------------------------------------------------
(* IsDrifted.                                                                *)

\* Mutant: groups the instance has in excess do not matter.
areSecurityGroupsMissing(i, status) == ~(status.sg \subseteq i.sg)

areSecurityGroupsDrifted(i, status) == i.sg # status.sg
isSubnetDrifted(i, status) == i.subnet \notin status.subnet
OutsideReservations(i, status) == ~(i.res \subseteq status.res)

(* Get with SkipCache: from the cache in a shifted zone, else from EC2.      *)
Reread == IF zoneShifted /\ nodeCache # NoInstance THEN nodeCache ELSE node

(* Without security groups or subnets in the status there is no verdict.  The  *)
(* instance is read from the cache if it is there; a reservation that the      *)
(* status does not list is looked up again.                                  *)
IsDrifted ==
  LET i == IF nodeCache # NoInstance THEN nodeCache ELSE node
      status == classCopy.status
      found == CASE areSecurityGroupsDrifted(i, status) -> "SecurityGroupDrift"
                 [] isSubnetDrifted(i, status) -> "SubnetDrift"
                 [] OTHER -> "none"
  IN
  /\ check = {} /\ node # NoInstance
  /\ status.sg # {} /\ status.subnet # {}
  /\ nodeCache' = i
  /\ IF OutsideReservations(i, status) THEN check' = {[status |-> status, at |-> classCopy.at, found |-> found]} /\ UNCHANGED verdict
     ELSE verdict' = found /\ UNCHANGED check
  /\ UNCHANGED <<ec2Facts, listCache, ec2Class, classCopy, reconcile, creating, edits, driftEvents>>

isCapacityReservationDrifted ==
  /\ \E c \in check :
       verdict' = IF c.found = "none" /\ OutsideReservations(Reread, c.status)
                  THEN "CapacityReservationDrift" ELSE c.found
  /\ nodeCache' = Reread
  /\ check' = {}
  /\ UNCHANGED <<ec2Facts, listCache, ec2Class, classCopy, reconcile, creating, edits, driftEvents>>

(* DescribeInstances fails; core tries again later.                          *)
CheckFails ==
  /\ check # {} /\ DriftEvent
  /\ check' = {}
  /\ UNCHANGED <<ec2Facts, caches, ec2Class, classCopy, reconcile, creating, verdict>>

-----------------------------------------------------------------------------
Checker == IsDrifted \/ isCapacityReservationDrifted

FreshLists(k) == \E expired \in SUBSET Kinds : (k \in expired \/ CachedList(k) = {}) /\ ReconcileLists(expired, {})

DriftNext ==
  \/ \E k \in Kinds : \E x \in All[k] : Retag(k, x)
  \/ \E r \in Reservations : EndOfReservation(r)
  \/ ChangeSpec \/ ShiftZone \/ InformClassCopy \/ RestartProcess
  \/ ReconcilePatch \/ \E expired, failed \in SUBSET Kinds : ReconcileLists(expired, failed)
  \/ CreateResolve \/ CreateLaunches \/ ListInstances
  \/ Checker \/ CheckFails

(* The controller requeues itself after at most five minutes, core checks      *)
(* NodeClaims for ever, cache entries and zonal shifts end, and the informer   *)
(* catches up.                                                               *)
DriftSpec ==
  /\ DriftInit /\ [][DriftNext]_driftVars
  /\ WF_driftVars(ReconcilePatch) /\ WF_driftVars(Checker)
  /\ WF_driftVars(InformClassCopy) /\ WF_driftVars(zoneShifted /\ ShiftZone)
  /\ \A k \in Kinds : SF_driftVars(FreshLists(k))

-----------------------------------------------------------------------------
Stamps == [Kinds -> 0..MaxDriftEvents]
Classes == [gen : Generations, version : Nat, observed : Generations \cup {0}, status : Selection, at : Stamps]
Reasons == {"SecurityGroupDrift", "SubnetDrift", "CapacityReservationDrift"}

(* Type correctness; an instance has at least one security group and is in at  *)
(* most one reservation.                                                     *)
NodeDriftTypeOK ==
  /\ selected \in [Generations -> Selection] /\ changedAt \in [Generations -> Stamps] /\ ended \subseteq Reservations
  /\ \A i \in {node, nodeCache} \ {NoInstance} :
       /\ i.sg \in (SUBSET Groups) \ {{}} /\ i.subnet \in Subnetworks
       /\ i.res \in {{}} \cup {{r} : r \in Reservations} /\ i.at \in Stamps
  /\ {ec2Class, classCopy} \cup reconcile \subseteq Classes
  /\ \A c \in creating \cup check : c.status \in Selection /\ c.at \in Stamps
  /\ \A k \in Kinds : \A e \in listCache[k] : e.gen \in Generations /\ e.set \subseteq All[k] /\ e.at \in 0..MaxDriftEvents
  /\ verdict \in Reasons \cup {"none"} /\ {c.found : c \in check} \subseteq Reasons \cup {"none"}
  /\ zoneShifted \in BOOLEAN /\ edits \in 0..MaxDriftEvents /\ driftEvents \in 0..MaxDriftEvents

(* The part of the status that IsDrifted compares with goes back to a later    *)
(* edit than the status behind the launch.                                   *)
ComparedAt == IF check = {} THEN classCopy.at ELSE (CHOOSE c \in check : TRUE).at
ChangedSinceLaunch(k) == ComparedAt[k] > node.at[k]

(* IsDrifted reports a security group or subnet only after an edit changed     *)
(* what selects them since the status behind the launch: failing queries, lost *)
(* caches, restarts and launches from an old copy do not drift a node.  And an *)
(* instance that its reservation left behind as on-demand is not reported,     *)
(* though the cache still shows it in a reservation that the status no longer  *)
(* lists; except in a shifted zone, where Get does not ask EC2.                *)
DriftIsJustified ==
  [][verdict' # verdict =>
       /\ verdict' = "SecurityGroupDrift" => ChangedSinceLaunch("sg")
       /\ verdict' = "SubnetDrift" => ChangedSinceLaunch("subnet")
       /\ verdict' = "CapacityReservationDrift" => node.res # {} \/ zoneShifted]_driftVars

(* The instance is not what the selection asks for.                          *)
Outside(s) ==
  node.sg # s.sg \/ node.subnet \notin s.subnet \/ ~(node.res \subseteq s.res)

Decided == node # NoInstance /\ selected[ec2Class.gen].sg # {} /\ selected[ec2Class.gen].subnet # {}

(* IsDrifted finds an instance that the selection has left for good.         *)
DriftIsFound == ~<>[](Decided /\ Outside(selected[ec2Class.gen]) /\ verdict = "none")

(* IsDrifted takes its verdict back when the selection returns to what the      *)
(* instance is, or when its reservation has ended.                            *)
DriftIsWithdrawn == ~<>[](Decided /\ ~Outside(selected[ec2Class.gen]) /\ verdict # "none")

(* What the checks for drift promise over time: a verdict holds no longer than  *)
(* its reason, and none is missed.                                           *)
DriftLive == []NodeDriftTypeOK /\ DriftIsFound /\ DriftIsWithdrawn
=============================================================================
