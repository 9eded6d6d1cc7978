--------------------------- MODULE InstanceProfile ---------------------------
(***************************************************************************)
(* The managed IAM instance profiles of one EC2NodeClass.  Three parties    *)
(* of one process touch them:                                               *)
(*   - the NodeClass controller, which creates a profile for spec.role,     *)
(*     stores its name in the status and, when the NodeClass is deleted,    *)
(*     deletes every profile of it (controllers/nodeclass);                 *)
(*   - the garbage collector, which deletes profiles that neither a         *)
(*     NodeClaim nor a NodeClass names (nodeclass/garbagecollection);       *)
(*   - launches, which use the profile that the status names and record it  *)
(*     in an annotation of the NodeClaim (cloudprovider.Create).            *)
(* They meet in IAM, in four in-memory caches of the instance profile       *)
(* provider, and in the API server, which they read through an informer     *)
(* that lags.  IAM, the API server, the informer and the launch of Karpenter *)
(* core are external; every IAM call is a step of its own and may fail.     *)
(***************************************************************************)
EXTENDS Naturals, FiniteSets

CONSTANTS Profiles,    \* names InstanceProfileName may generate
          Legacy,      \* the name of the profile of an older version
          Unmanaged,   \* the profile of the user, of spec.instanceProfile
          Roles,       \* values of spec.role, a path included
          BaseOf,      \* role |-> its name without the path, the name IAM knows
          InitRole,    \* the role of the first spec
          UserRole,    \* the role of the user's profile
          Missing,     \* names of roles a new NodeClass may find missing
          Upgraded,    \* whether an older version left its profile: {FALSE}, {TRUE} or BOOLEAN
          Claims,      \* NodeClaims of the NodeClass
          MaxEvents    \* bound on events: changes and deletion of the NodeClass, and faults

None == "none"           \* the empty status, no annotation, no entry
Absent == "absent"       \* IAM has no such profile
Bare == "bare"           \* IAM has the profile, without a role
NoRole == "norole"       \* spec.role is empty: spec.instanceProfile is set
Pending == "pending"     \* a NodeClaim that has no instance yet

RoleNames == {BaseOf[r] : r \in Roles}
Names == Profiles \cup {Legacy, Unmanaged}
Threads == {"nodeclass", "gc"}

ASSUME BaseAssumption == BaseOf \in [Roles -> RoleNames]
ASSUME InitAssumption ==
  InitRole \in Roles /\ UserRole \in RoleNames \ Missing /\ Upgraded \subseteq BOOLEAN
ASSUME NamesAssumption == Legacy \notin Profiles /\ Unmanaged \notin Profiles \cup {Legacy}
ASSUME ValuesAssumption ==
  /\ {None, Pending} \cap Names = {} /\ NoRole \notin Roles
  /\ {Absent, Bare} \cap (Roles \cup RoleNames) = {}
ASSUME PathAssumption == \A r \in Roles \cap RoleNames : BaseOf[r] = r   \* a name has no path
ASSUME EventsAssumption == MaxEvents \in Nat

VARIABLES
  iam,         \* name |-> Absent, Bare or the role attached
  roles,       \* names of the roles that exist in IAM
  nodeClass,   \* the EC2NodeClass in the API server
  seenClass,   \* the EC2NodeClass of the informer
  claims,      \* claim |-> None, Pending or its instance profile annotation
  seenClaims,  \* the same in the informer
  launch,      \* claim |-> the profile its launch in progress uses, or None
  instanceProfileCache,    \* name |-> role in the provider's cache, or Absent
  roleNotFoundErrorCache,  \* role names with a cached error
  protectedProfileCache,   \* names SetProtectedState protects
  recreationCache,         \* role |-> the profile created for it, or None
  rec,         \* the NodeClass controller: [pc, stored, status, obs, new, todo]
  gc,          \* the garbage collector: [pc, name]
  del,         \* thread |-> its call of Delete: [pc, name]
  events,      \* events so far
  doomed       \* history: profiles the collector chose while they were created

iamVars == <<iam, roles>>
apiVars == <<nodeClass, seenClass, claims, seenClaims>>
caches == <<instanceProfileCache, roleNotFoundErrorCache, protectedProfileCache, recreationCache>>
vars == <<iamVars, apiVars, launch, caches, rec, gc, del, events, doomed>>

-----------------------------------------------------------------------------
(* An EC2NodeClass: obs is the generation InstanceProfileReady was last set  *)
(* True for.  A launch needs obs = gen.                                      *)
NodeClass(role, status, obs) ==
  [phase |-> "live", finalizer |-> FALSE, role |-> role, gen |-> 1, status |-> status, obs |-> obs]

Idle == [pc |-> "idle", stored |-> NodeClass(NoRole, None, 0), status |-> None, obs |-> 0,
         new |-> None, todo |-> {}]
GCIdle == [pc |-> "idle", name |-> None]
NoDelete == [pc |-> "none", name |-> None]

Init ==
  /\ \E upgraded \in Upgraded :
       /\ roles = IF upgraded THEN RoleNames ELSE RoleNames \ Missing
       /\ nodeClass = IF upgraded THEN [NodeClass(InitRole, Legacy, 1) EXCEPT !.finalizer = TRUE]
                      ELSE NodeClass(InitRole, None, 0)
       /\ iam = [p \in Names |-> CASE p = Unmanaged -> UserRole
                                 [] p = Legacy /\ upgraded -> BaseOf[InitRole]
                                 [] OTHER -> Absent]
  /\ seenClass = nodeClass
  /\ claims = [c \in Claims |-> None]
  /\ seenClaims = claims
  /\ launch = [c \in Claims |-> None]
  /\ instanceProfileCache = [p \in Names |-> Absent]
  /\ roleNotFoundErrorCache = {}
  /\ protectedProfileCache = {}
  /\ recreationCache = [r \in Roles |-> None]
  /\ rec = Idle
  /\ gc = GCIdle
  /\ del = [t \in Threads |-> NoDelete]
  /\ events = 0
  /\ doomed = {}

(* What the bound counts: a change or the deletion of the spec, and a fault   *)
(* (a call that fails, a write that conflicts, a restart).                   *)
Event == events < MaxEvents /\ events' = events + 1
Fault == Event

-----------------------------------------------------------------------------
(* External: the user, the informers, and launches of Karpenter core.        *)

ChangeRole(r) ==
  /\ nodeClass.phase = "live" /\ nodeClass.role # r /\ Event
  /\ nodeClass' = [nodeClass EXCEPT !.role = r, !.gen = @ + 1]
  /\ UNCHANGED <<iamVars, seenClass, claims, seenClaims, launch, caches, rec, gc, del, doomed>>

DeleteNodeClass ==
  /\ nodeClass.phase = "live" /\ Event
  /\ nodeClass' = [nodeClass EXCEPT !.phase = IF nodeClass.finalizer THEN "deleting" ELSE "gone"]
  /\ UNCHANGED <<iamVars, seenClass, claims, seenClaims, launch, caches, rec, gc, del, doomed>>

CreateRole ==
  /\ roles # RoleNames
  /\ roles' = RoleNames
  /\ UNCHANGED <<iam, apiVars, launch, caches, rec, gc, del, events, doomed>>

CreateClaim(c) ==
  /\ claims[c] = None /\ seenClaims[c] = None /\ nodeClass.phase = "live"
  /\ claims' = [claims EXCEPT ![c] = Pending]
  /\ UNCHANGED <<iamVars, nodeClass, seenClass, seenClaims, launch, caches, rec, gc, del, events, doomed>>

DeleteClaim(c) ==
  /\ claims[c] # None /\ launch[c] = None
  /\ claims' = [claims EXCEPT ![c] = None]
  /\ UNCHANGED <<iamVars, nodeClass, seenClass, seenClaims, launch, caches, rec, gc, del, events, doomed>>

InformNodeClass ==
  /\ seenClass # nodeClass
  /\ seenClass' = nodeClass
  /\ UNCHANGED <<iamVars, nodeClass, claims, seenClaims, launch, caches, rec, gc, del, events, doomed>>

InformClaims ==
  /\ seenClaims # claims
  /\ seenClaims' = claims
  /\ UNCHANGED <<iamVars, nodeClass, seenClass, claims, launch, caches, rec, gc, del, events, doomed>>

-----------------------------------------------------------------------------
(* CloudProvider.Create: the NodeClass is read once, must not be deleting,   *)
(* and must be ready for its latest generation.                              *)
CreateBegin(c) ==
  /\ seenClaims[c] = Pending /\ claims[c] = Pending /\ launch[c] = None
  /\ seenClass.phase = "live" /\ seenClass.obs = seenClass.gen
  /\ launch' = [launch EXCEPT ![c] = seenClass.status]
  /\ UNCHANGED <<iamVars, apiVars, caches, rec, gc, del, events, doomed>>

(* EC2 refuses a profile that does not exist; otherwise the instance runs    *)
(* and the NodeClaim is stored with the annotation.                          *)
CreateEnd(c) ==
  /\ launch[c] # None
  /\ claims' = [claims EXCEPT ![c] =
                  IF iam[launch[c]] # Absent THEN launch[c] ELSE @]
  /\ launch' = [launch EXCEPT ![c] = None]
  /\ UNCHANGED <<iamVars, nodeClass, seenClass, seenClaims, caches, rec, gc, del, events, doomed>>

-----------------------------------------------------------------------------
(* The NodeClass controller.  One key is reconciled by one worker at a time.  *)

(* InstanceProfileName generates a name from a random UUID: no part of the   *)
(* state refers to it yet.                                                   *)
Referenced ==
  {p \in Names : iam[p] # Absent \/ instanceProfileCache[p] # Absent}
    \cup {nodeClass.status, seenClass.status, rec.stored.status, rec.status, rec.new}
    \cup {claims[c] : c \in Claims} \cup {seenClaims[c] : c \in Claims} \cup {launch[c] : c \in Claims}
    \cup protectedProfileCache \cup {recreationCache[r] : r \in Roles}
    \cup (IF gc.pc \in {"check", "delete"} THEN {gc.name} ELSE {}) \cup {del[t].name : t \in Threads}

(* Bound: a reconciliation begins while a name is left that it could use.    *)
Start ==
  /\ rec.pc = "idle" /\ seenClass.phase # "gone"
  /\ seenClass.phase = "live" => Profiles \ Referenced # {}
  /\ rec' = [Idle EXCEPT !.stored = seenClass,
               !.status = seenClass.status, !.obs = seenClass.obs,
               !.pc = IF seenClass.phase = "deleting" THEN "finalize"
                      ELSE IF seenClass.finalizer THEN "reconcile" ELSE "finalizer"]
  /\ UNCHANGED <<iamVars, apiVars, launch, caches, gc, del, events, doomed>>

(* The optimistic lock lets a patch through only if the object is the one    *)
(* that was read; a write of another controller (a fault here) also bumps    *)
(* the resource version.  NotFound is ignored and the reconcilers run.       *)
AddFinalizer ==
  /\ rec.pc = "finalizer"
  /\ \/ /\ nodeClass = rec.stored
        /\ nodeClass' = [nodeClass EXCEPT !.finalizer = TRUE]
        /\ rec' = [rec EXCEPT !.stored.finalizer = TRUE, !.pc = "reconcile"]
        /\ UNCHANGED events
     \/ /\ nodeClass.phase = "gone"
        /\ rec' = [rec EXCEPT !.stored.finalizer = TRUE, !.pc = "reconcile"]
        /\ UNCHANGED <<nodeClass, events>>
     \/ /\ nodeClass # rec.stored /\ nodeClass.phase # "gone"
        /\ rec' = Idle
        /\ UNCHANGED <<nodeClass, events>>
     \/ /\ Fault
        /\ rec' = Idle
        /\ UNCHANGED nodeClass
  /\ UNCHANGED <<iamVars, seenClass, claims, seenClaims, launch, caches, gc, del, doomed>>

\* Mutant: only the new profile is protected.
protectNewOnly(names) ==
  protectedProfileCache' = protectedProfileCache \cup (names \cap ({rec.new} \ {None}))

protectProfile(names) == protectedProfileCache' = protectedProfileCache \cup (names \ {None})

(* Reconcile: the name that a failed patch lost, if the recreation cache     *)
(* has it, else the name of the status.                                      *)
CurrentName ==
  LET r == rec.stored.role
  IN IF recreationCache[r] # None THEN recreationCache[r] ELSE rec.stored.status

(* spec.instanceProfile: the old profile is protected, the status copied.    *)
ReconcileUnmanaged ==
  /\ rec.pc = "reconcile" /\ rec.stored.role = NoRole
  /\ protectProfile({rec.stored.status})
  /\ rec' = [rec EXCEPT !.status = Unmanaged, !.obs = rec.stored.gen, !.pc = "patch"]
  /\ UNCHANGED <<iamVars, apiVars, launch, instanceProfileCache, roleNotFoundErrorCache,
                 recreationCache, gc, del, events, doomed>>

(* Provider.Get of a name: what the caller learns, and what the cache keeps. *)
GetRole(name) ==
  IF name = None THEN Absent
  ELSE IF instanceProfileCache[name] # Absent THEN instanceProfileCache[name] ELSE iam[name]
GetCaches(name) ==
  instanceProfileCache' = [p \in Names |-> IF p = name THEN GetRole(name) ELSE instanceProfileCache[p]]

(* spec.role: keep the current profile if it has the role.                   *)
ReconcileRole ==
  /\ rec.pc = "reconcile" /\ rec.stored.role # NoRole
  /\ LET name == CurrentName
         kept == GetRole(name) = rec.stored.role
     IN /\ GetCaches(name)
        /\ protectProfile(IF kept /\ name # rec.stored.status THEN {rec.stored.status} ELSE {})
        /\ rec' = IF kept THEN [rec EXCEPT !.status = name, !.obs = rec.stored.gen, !.pc = "patch"]
                  ELSE [rec EXCEPT !.status = name, !.pc = "create"]
  /\ UNCHANGED <<iamVars, apiVars, launch, roleNotFoundErrorCache, recreationCache, gc, del,
                 events, doomed>>

(* Get fails with another error than not found: the status is patched with   *)
(* whatever name was chosen.                                                 *)
ReconcileGetFails ==
  /\ rec.pc = "reconcile" /\ rec.stored.role # NoRole /\ CurrentName # None
  /\ instanceProfileCache[CurrentName] = Absent
  /\ Fault
  /\ rec' = [rec EXCEPT !.status = CurrentName, !.pc = "patch"]
  /\ UNCHANGED <<iamVars, apiVars, launch, caches, gc, del, doomed>>

(* Provider.Create: a cached error of the role refuses before IAM is called. *)
(* The Delete that follows finds no profile of the generated name, and       *)
(* changes nothing.                                                          *)
CreateRefused ==
  /\ rec.pc = "create" /\ rec.stored.role \in roleNotFoundErrorCache
  /\ rec' = [rec EXCEPT !.pc = "patch"]
  /\ UNCHANGED <<iamVars, apiVars, launch, caches, gc, del, events, doomed>>

(* CreateInstanceProfile; the call may fail, with or without having created. *)
CreateProfile ==
  /\ rec.pc = "create" /\ rec.stored.role \notin roleNotFoundErrorCache
  /\ \E p \in Profiles \ Referenced :
       /\ doomed' = doomed \ {p}
       /\ \/ /\ iam' = [iam EXCEPT ![p] = Bare]
             /\ rec' = [rec EXCEPT !.new = p, !.pc = "addrole"]
             /\ UNCHANGED <<del, events>>
          \/ /\ Fault
             /\ iam' \in {iam, [iam EXCEPT ![p] = Bare]}
             /\ rec' = [rec EXCEPT !.new = p, !.pc = "delete"]
             /\ del' = [del EXCEPT !["nodeclass"] = [pc |-> "get", name |-> p]]
  /\ UNCHANGED <<roles, apiVars, launch, caches, gc>>

CreateFailed ==
  /\ rec' = [rec EXCEPT !.pc = "delete"]
  /\ del' = [del EXCEPT !["nodeclass"] = [pc |-> "get", name |-> rec.new]]

(* ensureRole on the new profile, which has no role: AddRoleToInstanceProfile. *)
ensureRole ==
  /\ rec.pc = "addrole"
  /\ LET role == BaseOf[rec.stored.role]
         added == [iam EXCEPT ![rec.new] = role]
     IN \/ /\ iam[rec.new] # Absent /\ role \in roles
           /\ iam' = added
           /\ rec' = [rec EXCEPT !.pc = "created"]
           /\ UNCHANGED <<roleNotFoundErrorCache, del, events>>
        \/ /\ iam[rec.new] # Absent /\ role \notin roles
           /\ roleNotFoundErrorCache' = roleNotFoundErrorCache \cup {role}
           /\ CreateFailed
           /\ UNCHANGED <<iam, events>>
        \/ /\ iam[rec.new] = Absent
           /\ CreateFailed
           /\ UNCHANGED <<iam, roleNotFoundErrorCache, events>>
        \/ /\ Fault
           /\ iam' \in {iam} \cup (IF iam[rec.new] # Absent /\ role \in roles THEN {added} ELSE {})
           /\ CreateFailed
           /\ UNCHANGED roleNotFoundErrorCache
  /\ UNCHANGED <<roles, apiVars, launch, instanceProfileCache, protectedProfileCache,
                 recreationCache, gc, doomed>>

(* After Create: the caches, the protection of the new and of the old name.  *)
ReconcileCreated ==
  /\ rec.pc = "created"
  /\ instanceProfileCache' = [instanceProfileCache EXCEPT ![rec.new] = rec.stored.role]
  /\ recreationCache' = [recreationCache EXCEPT ![rec.stored.role] = rec.new]
  /\ protectProfile({rec.new, rec.stored.status})
  /\ rec' = [rec EXCEPT !.status = rec.new, !.obs = rec.stored.gen, !.pc = "patch"]
  /\ UNCHANGED <<iamVars, apiVars, launch, roleNotFoundErrorCache, gc, del, events, doomed>>

(* The status patch, if the reconcilers changed anything.                    *)
StatusPatch ==
  /\ rec.pc = "patch"
  /\ LET object == [rec.stored EXCEPT !.status = rec.status, !.obs = rec.obs]
     IN \/ /\ nodeClass = rec.stored
           /\ nodeClass' = object
           /\ UNCHANGED events
        \/ /\ nodeClass # rec.stored \/ object = rec.stored
           /\ UNCHANGED <<nodeClass, events>>
        \/ /\ Fault
           /\ UNCHANGED nodeClass
  /\ rec' = Idle
  /\ UNCHANGED <<iamVars, seenClass, claims, seenClaims, launch, caches, gc, del, doomed>>

-----------------------------------------------------------------------------
(* Provider.Delete, called by both threads: Get, RemoveRole, Delete.  What    *)
(* follows the call is in Returns.                                           *)
Returns(t, ok) ==
  /\ del' = [del EXCEPT ![t] = NoDelete]
  /\ IF t = "gc"
     THEN /\ gc' = GCIdle
          /\ UNCHANGED rec
     ELSE /\ rec' = CASE rec.pc = "delete" -> [rec EXCEPT !.pc = "patch"]
                      [] rec.pc # "delete" /\ ok -> [rec EXCEPT !.todo = @ \ {del[t].name}]
                      [] OTHER -> Idle
          /\ UNCHANGED gc

(* Not found ends the call without an error, and leaves the caches alone.    *)
DeleteGet(t) ==
  /\ del[t].pc = "get"
  /\ \/ /\ iam[del[t].name] = Absent
        /\ Returns(t, TRUE)
        /\ UNCHANGED events
     \/ /\ iam[del[t].name] # Absent
        /\ del' = [del EXCEPT ![t].pc = IF iam[del[t].name] = Bare THEN "delete" ELSE "remove"]
        /\ UNCHANGED <<rec, gc, events>>
     \/ Fault /\ Returns(t, FALSE)
  /\ UNCHANGED <<iamVars, apiVars, launch, caches, doomed>>

(* RemoveRoleFromInstanceProfile; a role or a profile that is gone by now is *)
(* an error here.                                                            *)
DeleteRemoveRole(t) ==
  /\ del[t].pc = "remove"
  /\ LET name == del[t].name
         has == iam[name] \in RoleNames
     IN \/ /\ has
           /\ iam' = [iam EXCEPT ![name] = Bare]
           /\ del' = [del EXCEPT ![t].pc = "delete"]
           /\ UNCHANGED <<rec, gc, events>>
        \/ /\ ~has
           /\ Returns(t, FALSE)
           /\ UNCHANGED <<iam, events>>
        \/ /\ Fault
           /\ iam' \in {iam} \cup (IF has THEN {[iam EXCEPT ![name] = Bare]} ELSE {})
           /\ Returns(t, FALSE)
  /\ UNCHANGED <<roles, apiVars, launch, caches, doomed>>

(* DeleteInstanceProfile: IAM refuses while a role is attached.  Only the    *)
(* caller whose call succeeds clears the caches.                             *)
DeleteProfile(t) ==
  /\ del[t].pc = "delete"
  /\ LET name == del[t].name
     IN \/ /\ iam[name] = Bare
           /\ iam' = [iam EXCEPT ![name] = Absent]
           /\ instanceProfileCache' = [instanceProfileCache EXCEPT ![name] = Absent]
           /\ protectedProfileCache' = protectedProfileCache \ {name}
           /\ Returns(t, TRUE)
           /\ UNCHANGED events
        \/ /\ iam[name] # Bare
           /\ Returns(t, iam[name] = Absent)
           /\ UNCHANGED <<iam, instanceProfileCache, protectedProfileCache, events>>
        \/ /\ Fault
           /\ iam' \in {iam} \cup (IF iam[name] = Bare THEN {[iam EXCEPT ![name] = Absent]} ELSE {})
           /\ Returns(t, FALSE)
           /\ UNCHANGED <<instanceProfileCache, protectedProfileCache>>
  /\ UNCHANGED <<roles, apiVars, launch, roleNotFoundErrorCache, recreationCache, doomed>>

-----------------------------------------------------------------------------
(* finalize.  A NodeClaim of the NodeClass, as the informer shows it, makes  *)
(* the controller wait.                                                      *)
Managed == {p \in Profiles : iam[p] # Absent}

FinalizeBegin ==
  /\ rec.pc = "finalize"
  /\ \/ /\ \E c \in Claims : seenClaims[c] # None
        /\ rec' = Idle
     \/ /\ \A c \in Claims : seenClaims[c] = None
        /\ rec' = [rec EXCEPT !.pc = "list"]
  /\ UNCHANGED <<iamVars, apiVars, launch, caches, gc, del, events, doomed>>

\* Mutant: the legacy profile is not cleaned up.
FinalizeListNoLegacy ==
  /\ rec.pc = "list"
  /\ rec' = [rec EXCEPT !.todo = Managed, !.pc = "cleanup"]
  /\ UNCHANGED <<iamVars, apiVars, launch, caches, gc, del, events, doomed>>

(* cleanupManagedInstanceProfiles: ListProfiles under the path of the UID,   *)
(* and the legacy name after them.                                           *)
FinalizeList ==
  /\ rec.pc = "list"
  /\ \/ /\ rec' = [rec EXCEPT !.todo = Managed \cup {Legacy}, !.pc = "cleanup"]
        /\ UNCHANGED events
     \/ Fault /\ rec' = Idle
  /\ UNCHANGED <<iamVars, apiVars, launch, caches, gc, del, doomed>>

FinalizeDelete ==
  /\ rec.pc = "cleanup" /\ del["nodeclass"] = NoDelete
  /\ \E p \in rec.todo :
       /\ p = Legacy => rec.todo = {Legacy}
       /\ del' = [del EXCEPT !["nodeclass"] = [pc |-> "get", name |-> p]]
  /\ UNCHANGED <<iamVars, apiVars, launch, caches, rec, gc, events, doomed>>

(* DeleteAll of the launch templates may fail; then the finalizer goes, under *)
(* the optimistic lock, and with it the object.                              *)
FinalizeEnd ==
  /\ rec.pc = "cleanup" /\ rec.todo = {}
  /\ \/ /\ nodeClass = rec.stored
        /\ nodeClass' = [nodeClass EXCEPT !.phase = "gone", !.finalizer = FALSE]
        /\ UNCHANGED events
     \/ /\ nodeClass # rec.stored
        /\ UNCHANGED <<nodeClass, events>>
     \/ /\ Fault
        /\ UNCHANGED nodeClass
  /\ rec' = Idle
  /\ UNCHANGED <<iamVars, seenClass, claims, seenClaims, launch, caches, gc, del, doomed>>

-----------------------------------------------------------------------------
(* The garbage collector: the NodeClaims of the informer first, then the      *)
(* NodeClass, the profiles of IAM last; protection is looked up profile by    *)
(* profile, just before the deletion.  The profiles of a pass do not depend   *)
(* on each other, so the model follows one of them, and ends the pass as soon *)
(* as its name is found in a list that keeps it.                              *)
getActiveProfiles(p) ==
  /\ gc.pc = "idle"
  /\ \A c \in Claims : seenClaims[c] # p
  /\ gc' = [pc |-> "current", name |-> p]
  /\ UNCHANGED <<iamVars, apiVars, launch, caches, rec, del, events, doomed>>

getCurrentProfiles ==
  /\ gc.pc = "current"
  /\ gc' = IF seenClass.phase # "gone" /\ seenClass.status = gc.name THEN GCIdle
           ELSE [gc EXCEPT !.pc = "list"]
  /\ UNCHANGED <<iamVars, apiVars, launch, caches, rec, del, events, doomed>>

\* Mutant: only profiles with a role are collected.
GCListAttached ==
  /\ gc.pc = "list"
  /\ gc' = IF iam[gc.name] \in RoleNames THEN [gc EXCEPT !.pc = "check"] ELSE GCIdle
  /\ UNCHANGED <<iamVars, apiVars, launch, caches, rec, del, events, doomed>>

GCList ==
  /\ gc.pc = "list"
  /\ \/ /\ gc' = IF gc.name \in Managed THEN [gc EXCEPT !.pc = "check"] ELSE GCIdle
        /\ UNCHANGED events
     \/ Fault /\ gc' = GCIdle
  /\ UNCHANGED <<iamVars, apiVars, launch, caches, rec, del, doomed>>

InCreation(p) == rec.pc \in {"addrole", "created"} /\ rec.new = p

(* shouldDeleteProfile of a name that is neither active nor current, and the *)
(* call of Delete.  Bound: that a pass, of which there is one in half an     *)
(* hour, meets a creation is an event.                                       *)
cleanupInactiveProfiles ==
  /\ gc.pc = "check"
  /\ \/ /\ gc.name \in protectedProfileCache
        /\ gc' = GCIdle
        /\ UNCHANGED <<del, events, doomed>>
     \/ /\ gc.name \notin protectedProfileCache
        /\ gc' = [gc EXCEPT !.pc = "delete"]
        /\ del' = [del EXCEPT !["gc"] = [pc |-> "get", name |-> gc.name]]
        /\ IF InCreation(gc.name) THEN Event /\ doomed' = doomed \cup {gc.name}
           ELSE UNCHANGED <<events, doomed>>
  /\ UNCHANGED <<iamVars, apiVars, launch, caches, rec>>

-----------------------------------------------------------------------------
(* Time, and restarts.  The lifetimes are a minute for the recreation cache, *)
(* 15 minutes for profiles, an hour for protection.  A reconciliation and    *)
(* the lag of the informers are taken to be shorter than a minute, and       *)
(* entries made together expire in the order of their lifetimes.  Protection *)
(* is also taken to outlive a launch that uses the name, and a collection.   *)
ExpireProfile(p) ==
  /\ instanceProfileCache[p] # Absent
  /\ rec.pc = "idle" /\ \A r \in Roles : recreationCache[r] # p
  /\ instanceProfileCache' = [instanceProfileCache EXCEPT ![p] = Absent]
  /\ UNCHANGED <<iamVars, apiVars, launch, roleNotFoundErrorCache, protectedProfileCache,
                 recreationCache, rec, gc, del, events, doomed>>

ExpireRoleNotFound ==
  /\ roleNotFoundErrorCache # {}
  /\ roleNotFoundErrorCache' = {}
  /\ UNCHANGED <<iamVars, apiVars, launch, instanceProfileCache, protectedProfileCache,
                 recreationCache, rec, gc, del, events, doomed>>

ExpireRecreation(r) ==
  /\ rec.pc = "idle" /\ recreationCache[r] # None /\ seenClass = nodeClass
  /\ recreationCache' = [recreationCache EXCEPT ![r] = None]
  /\ UNCHANGED <<iamVars, apiVars, launch, instanceProfileCache, protectedProfileCache,
                 roleNotFoundErrorCache, rec, gc, del, events, doomed>>

UsedBy(p) == {c \in Claims : claims[c] = p \/ launch[c] = p}

Settled(p) ==
  /\ \A r \in Roles : recreationCache[r] = None
  /\ rec.pc = "idle"
  /\ nodeClass.status = p <=> seenClass.status = p
  /\ \A c \in UsedBy(p) : launch[c] # p /\ seenClaims[c] = p
  /\ nodeClass.status = p \/ UsedBy(p) # {} => gc.name # p

ExpireProtected(p) ==
  /\ p \in protectedProfileCache /\ Settled(p)
  /\ protectedProfileCache' = protectedProfileCache \ {p}
  /\ UNCHANGED <<iamVars, apiVars, launch, instanceProfileCache, roleNotFoundErrorCache,
                 recreationCache, rec, gc, del, events, doomed>>

(* A restart loses the caches and every call in progress.                    *)
Restart ==
  /\ Fault
  /\ seenClass' = nodeClass
  /\ seenClaims' = claims
  /\ launch' = [c \in Claims |-> None]
  /\ instanceProfileCache' = [p \in Names |-> Absent]
  /\ roleNotFoundErrorCache' = {}
  /\ protectedProfileCache' = {}
  /\ recreationCache' = [r \in Roles |-> None]
  /\ rec' = Idle
  /\ gc' = GCIdle
  /\ del' = [t \in Threads |-> NoDelete]
  /\ UNCHANGED <<iamVars, nodeClass, claims, doomed>>

-----------------------------------------------------------------------------
Reconciler ==
  \/ Start \/ AddFinalizer \/ ReconcileUnmanaged \/ ReconcileRole \/ ReconcileGetFails
  \/ CreateRefused \/ CreateProfile \/ ensureRole \/ ReconcileCreated \/ StatusPatch
  \/ FinalizeBegin \/ FinalizeList \/ FinalizeDelete \/ FinalizeEnd

Collector == (\E p \in Profiles : getActiveProfiles(p)) \/ getCurrentProfiles \/ GCList \/ cleanupInactiveProfiles

Delete(t) == DeleteGet(t) \/ DeleteRemoveRole(t) \/ DeleteProfile(t)

Environment ==
  \/ \E r \in Roles \cup {NoRole} : ChangeRole(r)
  \/ DeleteNodeClass
  \/ CreateRole
  \/ \E c \in Claims : CreateClaim(c) \/ DeleteClaim(c)

Next ==
  \/ Environment
  \/ InformNodeClass \/ InformClaims
  \/ \E c \in Claims : CreateBegin(c) \/ CreateEnd(c)
  \/ Reconciler
  \/ Collector
  \/ \E t \in Threads : Delete(t)
  \/ \E p \in Names : ExpireProfile(p) \/ ExpireProtected(p)
  \/ ExpireRoleNotFound
  \/ \E r \in Roles : ExpireRecreation(r)
  \/ Restart

(* The workers run, watches and launches end, and time passes.  A pass of    *)
(* the collector is over all profiles, so each of them has its turn.         *)
Fairness ==
  /\ WF_vars(InformNodeClass) /\ WF_vars(InformClaims)
  /\ WF_vars(Reconciler \/ Delete("nodeclass"))
  /\ WF_vars(Collector \/ Delete("gc"))
  /\ \A p \in Profiles : SF_vars(getActiveProfiles(p))
  /\ SF_vars(\E p \in Names : ExpireProfile(p))
  /\ SF_vars(\E p \in Profiles : ExpireProtected(p))
  /\ SF_vars(\E r \in Roles : ExpireRecreation(r))
  /\ WF_vars(ExpireRoleNotFound)

Spec == Init /\ [][Next]_vars /\ Fairness
-----------------------------------------------------------------------------
(* Type invariant: the maps, threads and caches of the code.                 *)
TypeOK ==
  /\ iam \in [Names -> RoleNames \cup {Absent, Bare}]
  /\ roles \subseteq RoleNames
  /\ \A n \in {nodeClass, seenClass, rec.stored} :
       /\ n.phase \in {"live", "deleting", "gone"} /\ n.finalizer \in BOOLEAN
       /\ n.role \in Roles \cup {NoRole} /\ n.status \in Names \cup {None}
       /\ n.gen \in 1..(MaxEvents + 1) /\ n.obs \in 0..n.gen
  /\ {claims, seenClaims} \subseteq [Claims -> Names \cup {None, Pending}]
  /\ launch \in [Claims -> Names \cup {None}]
  /\ instanceProfileCache \in [Names -> RoleNames \cup Roles \cup {Absent, Bare}]
  /\ roleNotFoundErrorCache \subseteq RoleNames
  /\ protectedProfileCache \subseteq Names
  /\ recreationCache \in [Roles -> Profiles \cup {None}]
  /\ events \in 0..MaxEvents

(* A profile that a NodeClaim runs with, or that a launch in progress uses,  *)
(* keeps existing with its role: neither the collector nor finalize deletes  *)
(* it, whatever the informer shows, and across restarts.  The exception is a *)
(* profile the collector chose while Create was still at work on it, before  *)
(* protectProfile (controllers/nodeclass/instanceprofile.go:103).            *)
KeptInUse == \A p \in Names \ doomed : UsedBy(p) # {} => iam[p] \in RoleNames

(* A NodeClass that is ready for its latest generation names a profile that  *)
(* exists with the role of the spec, with the same exception: a status patch *)
(* that conflicts, a failed Create or a retry never leaves it with a profile *)
(* that is missing or has another role.                                      *)
ReadyMeansUsable ==
  /\ nodeClass.phase = "live" /\ nodeClass.obs = nodeClass.gen /\ nodeClass.status \notin doomed
  => IF nodeClass.role = NoRole THEN nodeClass.status = Unmanaged
     ELSE iam[nodeClass.status] = BaseOf[nodeClass.role]

(* When finalize removes the finalizer no profile of the NodeClass is left   *)
(* in IAM, the legacy one included.                                          *)
FinalizedIsClean ==
  [][nodeClass.phase = "deleting" /\ nodeClass'.phase = "gone"
      => \A p \in Profiles \cup {Legacy} : iam'[p] = Absent]_vars

(* A generated profile nobody uses does not stay in IAM: leftovers of failed *)
(* creations, of lost patches and of restarts are collected.                 *)
Used(p) == UsedBy(p) # {} \/ (nodeClass.phase # "gone" /\ nodeClass.status = p)
LeftoverIsDeleted == \A p \in Profiles : []<>(iam[p] = Absent \/ Used(p))

(* A live NodeClass whose role exists ends up, for good, ready and with a    *)
(* usable profile, even after the collector deleted the one in creation.     *)
Usable ==
  nodeClass.phase = "live" /\ nodeClass.role # NoRole /\ BaseOf[nodeClass.role] \in roles
  => /\ nodeClass.obs = nodeClass.gen
     /\ nodeClass.status # None
     /\ iam[nodeClass.status] = BaseOf[nodeClass.role]
BecomesUsable == <>[]Usable

(* Safety of profiles: well-formed, kept while in use, and usable when the      *)
(* NodeClass says so.                                                        *)
ProfileInv == TypeOK /\ KeptInUse /\ ReadyMeansUsable

(* Liveness: leftovers go, and a live NodeClass gets its profile.            *)
ProfileLive == LeftoverIsDeleted /\ BecomesUsable
=============================================================================
