-------------------------- MODULE InstanceLifecycle --------------------------
(***************************************************************************)
(* The life of an EC2 instance and of its NodeClaim.                        *)
(*   - The instance provider (providers/instance) looks instances up by ID   *)
(*     or lists them, keeps what it saw in instanceCache, which never        *)
(*     expires, and terminates and tags them.  While the zone of a cached    *)
(*     instance is shifted it answers from the cache and refuses to act.     *)
(*   - The garbage collector (controllers/nodeclaim/garbagecollection)       *)
(*     terminates instances that no NodeClaim names.                         *)
(*   - The tagging controller (controllers/nodeclaim/tagging) tags the       *)
(*     instance of a registered NodeClaim and annotates the NodeClaim.       *)
(* External: EC2, whose answers lag behind a launch; Karpenter core, which   *)
(* launches, stores the instance ID in the NodeClaim, and calls Delete until *)
(* the instance is not found; the API server and its lagging informer.       *)
(* All instances are in one zone.                                            *)
(***************************************************************************)
EXTENDS Naturals, FiniteSets

CONSTANTS Claims,        \* NodeClaims
          Instances,     \* EC2 instance IDs
          None,          \* no instance, no cache entry
          MaxEvents      \* bound on restarts, zonal shifts and failing calls

ASSUME NoneAssumption ==
  /\ None \notin Instances /\ Claims \cap Instances = {}
  /\ None \notin [state : {"running", "shutting-down"}, tagged : BOOLEAN]
  /\ MaxEvents \in Nat

VARIABLES
  ec2,         \* instance |-> [state, visible, old, tagged]; old: launched more than 30 s ago
  nodes,       \* instances that have a Node object
  claim,       \* NodeClaim in the API server: [phase, id, node, tagged]
  informer,    \* the same as the informer shows it
  inflight,    \* NodeClaim |-> the instance CreateFleet returned and core has not stored
  shifted,     \* the zone is shifted
  cache,       \* instanceCache: instance |-> None or [state, tagged]
  deleter,     \* calls of Delete by core (a NodeClaim) and by the collector (an instance): [pc, state]
  gc,          \* the garbage collector: [pc, found, nodes, todo]
  tagger,      \* the tagging controller: [pc, on]
  tagQueue,    \* its work queue
  events       \* events so far

objects == <<nodes, claim, informer, inflight>>
lifecycleVars == <<ec2, objects, shifted, cache, deleter, gc, tagger, tagQueue, events>>

Deleters == Claims \cup Instances
Entry(i) == [state |-> ec2[i].state, tagged |-> ec2[i].tagged]
IdleDelete == [pc |-> "idle", state |-> "none"]
IdleGC == [pc |-> "idle", found |-> {}, nodes |-> {}, todo |-> {}]
IdleTagger == [pc |-> "idle", on |-> None]

LifecycleInit ==
  /\ ec2 = [i \in Instances |-> [state |-> "none", visible |-> FALSE, old |-> FALSE, tagged |-> FALSE]]
  /\ nodes = {}
  /\ claim = [c \in Claims |-> [phase |-> "live", id |-> None, node |-> FALSE, tagged |-> FALSE]]
  /\ informer = claim
  /\ inflight = [c \in Claims |-> None]
  /\ shifted = FALSE
  /\ cache = [i \in Instances |-> None]
  /\ deleter = [a \in Deleters |-> IdleDelete]
  /\ gc = IdleGC
  /\ tagger = IdleTagger
  /\ tagQueue = {}
  /\ events = 0

Event == events < MaxEvents /\ events' = events + 1

(* The instance has a NodeClaim that knows it or will know it.               *)
Owned(i) == \E c \in Claims : inflight[c] = i \/ (claim[c].id = i /\ claim[c].phase # "gone")

-----------------------------------------------------------------------------
(* Karpenter core, the API server, EC2 and ARC.                              *)

(* CreateFleet succeeds; the instance is not yet visible to describe calls.  *)
Launch(c) ==
  /\ claim[c].phase = "live" /\ claim[c].id = None /\ inflight[c] = None
  /\ \E i \in Instances : ec2[i].state = "none"
  /\ LET i == CHOOSE j \in Instances : ec2[j].state = "none" IN
       /\ ec2' = [ec2 EXCEPT ![i].state = "running"]
       /\ inflight' = [inflight EXCEPT ![c] = i]
  /\ UNCHANGED <<nodes, claim, informer, shifted, cache, deleter, gc, tagger, tagQueue, events>>

Store(c) ==
  /\ inflight[c] # None
  /\ claim' = IF claim[c].phase = "gone" THEN claim
              ELSE [claim EXCEPT ![c].id = inflight[c], ![c].node = inflight[c] \in nodes]
  /\ inflight' = [inflight EXCEPT ![c] = None]
  /\ UNCHANGED <<ec2, nodes, informer, shifted, cache, deleter, gc, tagger, tagQueue, events>>

(* A NodeClaim is deleted; one without an instance has nothing to terminate. *)
DeleteClaim(c) ==
  /\ claim[c].phase = "live"
  /\ claim' = [claim EXCEPT ![c].phase = IF claim[c].id = None /\ inflight[c] = None THEN "gone" ELSE "deleting"]
  /\ UNCHANGED <<ec2, nodes, informer, inflight, shifted, cache, deleter, gc, tagger, tagQueue, events>>

FinalizeUnlaunched(c) ==
  /\ claim[c].phase = "deleting" /\ claim[c].id = None /\ inflight[c] = None
  /\ claim' = [claim EXCEPT ![c].phase = "gone"]
  /\ UNCHANGED <<ec2, nodes, informer, inflight, shifted, cache, deleter, gc, tagger, tagQueue, events>>

isTaggable(nc) == nc.phase = "live" /\ nc.node /\ ~nc.tagged

Inform(c) ==
  /\ informer[c] # claim[c]
  /\ informer' = [informer EXCEPT ![c] = claim[c]]
  /\ tagQueue' = IF isTaggable(claim[c]) THEN tagQueue \cup {c} ELSE tagQueue
  /\ UNCHANGED <<ec2, nodes, claim, inflight, shifted, cache, deleter, gc, tagger, events>>

Appear(i) ==
  /\ ec2[i].state # "none" /\ ~ec2[i].visible
  /\ ec2' = [ec2 EXCEPT ![i].visible = TRUE]
  /\ UNCHANGED <<objects, shifted, cache, deleter, gc, tagger, tagQueue, events>>

(* 30 seconds are enough to store the ID and to bring it to the informer, and *)
(* for the instance to appear in EC2: the assumption behind the age check.    *)
Age(i) ==
  /\ ec2[i].state = "running" /\ ec2[i].visible /\ ~ec2[i].old
  /\ \A c \in Claims : inflight[c] # i /\ (claim[c].id = i => informer[c].id = i)
  /\ ec2' = [ec2 EXCEPT ![i].old = TRUE]
  /\ UNCHANGED <<objects, shifted, cache, deleter, gc, tagger, tagQueue, events>>

Join(i) ==
  /\ ec2[i].state = "running" /\ ec2[i].visible /\ i \notin nodes
  /\ nodes' = nodes \cup {i}
  /\ claim' = [c \in Claims |-> IF claim[c].id = i /\ claim[c].phase = "live"
                                THEN [claim[c] EXCEPT !.node = TRUE] ELSE claim[c]]
  /\ UNCHANGED <<ec2, informer, inflight, shifted, cache, deleter, gc, tagger, tagQueue, events>>

ShutDown(i) ==
  /\ ec2[i].state = "shutting-down"
  /\ ec2' = [ec2 EXCEPT ![i].state = "terminated"]
  /\ UNCHANGED <<objects, shifted, cache, deleter, gc, tagger, tagQueue, events>>

Shift ==
  /\ ~shifted /\ Event
  /\ shifted' = TRUE
  /\ UNCHANGED <<ec2, objects, cache, deleter, gc, tagger, tagQueue>>

Unshift ==
  /\ shifted
  /\ shifted' = FALSE
  /\ UNCHANGED <<ec2, objects, cache, deleter, gc, tagger, tagQueue, events>>

Restart ==
  /\ Event
  /\ inflight' = [c \in Claims |-> None]
  /\ informer' = claim
  /\ cache' = [i \in Instances |-> None]
  /\ deleter' = [a \in Deleters |-> IdleDelete]
  /\ gc' = IdleGC
  /\ tagger' = IdleTagger
  /\ tagQueue' = {c \in Claims : isTaggable(claim[c])}
  /\ UNCHANGED <<ec2, nodes, claim, shifted>>

-----------------------------------------------------------------------------
(* The instance provider.                                                    *)

(* Get with SkipCache answers from the cache only during a shift.            *)
FromCache(i) == cache[i] # None /\ shifted

Found(i) == ec2[i].visible /\ ec2[i].state # "terminated"

Describe(i) ==
  IF Found(i) THEN cache' = [cache EXCEPT ![i] = Entry(i)]
  ELSE \/ cache' = [cache EXCEPT ![i] = None]
       \/ ec2[i].visible /\ UNCHANGED cache

\* Mutant: entries of a shifted zone are evicted as well.
ListEvictsShifted(found) ==
  cache' = [i \in Instances |-> IF i \in found THEN Entry(i) ELSE None]

(* List stores what EC2 returned and evicts the rest outside a shifted zone.  *)
List(found) ==
  cache' = [i \in Instances |-> IF i \in found THEN Entry(i) ELSE IF shifted THEN cache[i] ELSE None]

(* Delete returned.  Core finalizes the NodeClaim when its instance is not    *)
(* found and calls Delete again otherwise; the collector is done with it.     *)
Return(a, notFound, deleted) ==
  /\ deleter' = [deleter EXCEPT ![a] = IdleDelete]
  /\ IF a \in Claims
     THEN /\ claim' = IF notFound THEN [claim EXCEPT ![a].phase = "gone"] ELSE claim
          /\ nodes' = IF notFound THEN nodes \ {claim[a].id} ELSE nodes
          /\ UNCHANGED gc
     ELSE /\ gc' = IF gc.todo = {a} THEN IdleGC ELSE [gc EXCEPT !.todo = @ \ {a}]
          /\ nodes' = IF deleted THEN nodes \ (gc.nodes \cap {a}) ELSE nodes
          /\ UNCHANGED claim
  /\ UNCHANGED <<informer, inflight>>

Target(a) == IF a \in Claims THEN informer[a].id ELSE a

(* Delete: Get reads the cache and the shift.                                *)
DeleteGet(a) ==
  /\ deleter[a].pc = "idle"
  /\ IF a \in Claims THEN informer[a].phase = "deleting" /\ informer[a].id # None /\ claim[a].phase # "gone"
     ELSE gc.pc = "collect" /\ a \in gc.todo
  /\ LET i == Target(a) IN
       deleter' = [deleter EXCEPT ![a] = IF FromCache(i) THEN [pc |-> "terminate", state |-> cache[i].state]
                                         ELSE [pc |-> "describe", state |-> "none"]]
  /\ UNCHANGED <<ec2, objects, shifted, cache, gc, tagger, tagQueue, events>>

DeleteDescribe(a) ==
  /\ deleter[a].pc = "describe"
  /\ LET i == Target(a) IN
       /\ Describe(i)
       /\ IF Found(i)
          THEN /\ deleter' = [deleter EXCEPT ![a] = [pc |-> "terminate", state |-> ec2[i].state]]
               /\ UNCHANGED <<objects, gc>>
          ELSE Return(a, TRUE, FALSE)
  /\ UNCHANGED <<ec2, shifted, tagger, tagQueue, events>>

(* The shift is read again before TerminateInstances.                        *)
DeleteTerminate(a) ==
  /\ deleter[a].pc = "terminate"
  /\ LET i == Target(a) IN
       IF shifted THEN UNCHANGED ec2 /\ Return(a, FALSE, FALSE)
       ELSE /\ ec2' = IF deleter[a].state # "shutting-down" /\ ec2[i].state = "running"
                      THEN [ec2 EXCEPT ![i].state = "shutting-down"] ELSE ec2
            /\ Return(a, FALSE, TRUE)
  /\ UNCHANGED <<shifted, cache, tagger, tagQueue, events>>

DeleteFails(a) ==
  /\ deleter[a].pc = "terminate" /\ ~shifted /\ Event
  /\ Return(a, FALSE, FALSE)
  /\ UNCHANGED <<ec2, shifted, cache, tagger, tagQueue>>

-----------------------------------------------------------------------------
(* The garbage collector.                                                    *)

Known(copy) == {copy[c].id : c \in {d \in Claims : copy[d].phase # "gone"}}

(* cloudProvider.List, without the instances that are already terminating;    *)
(* in a shifted zone EC2 may leave instances out.                            *)
GCList ==
  /\ gc.pc = "idle"
  /\ \E found \in IF shifted THEN SUBSET {i \in Instances : Found(i)} ELSE {{i \in Instances : Found(i)}} :
       /\ List(found)
       /\ gc' = [gc EXCEPT !.pc = "listed", !.found = {i \in found : ec2[i].state = "running"}]
  /\ UNCHANGED <<ec2, objects, shifted, deleter, tagger, tagQueue, events>>

\* Mutant: young instances are collected as well.
LeakedYoung == gc.found \ Known(informer)

\* Mutant: only the instances that have joined the cluster are looked at.
LeakedJoined == {i \in gc.found \ Known(informer) : ec2[i].old /\ i \in nodes}

Leaked == {i \in gc.found \ Known(informer) : ec2[i].old}

(* Then the NodeClaims and the Nodes, from the informers.  The pass ends with *)
(* the last call of Delete.                                                  *)
GCFilter ==
  /\ gc.pc = "listed"
  /\ gc' = IF Leaked = {} THEN IdleGC
           ELSE [pc |-> "collect", found |-> {}, nodes |-> nodes \cap Leaked, todo |-> Leaked]
  /\ UNCHANGED <<ec2, objects, shifted, cache, deleter, tagger, tagQueue, events>>

-----------------------------------------------------------------------------
(* The tagging controller, one NodeClaim at a time.                          *)

TagEnd(requeue) ==
  /\ tagger' = IdleTagger
  /\ tagQueue' = IF requeue THEN tagQueue \cup {tagger.on} ELSE tagQueue

TagStart(c) ==
  /\ tagger.pc = "idle" /\ c \in tagQueue
  /\ tagQueue' = tagQueue \ {c}
  /\ tagger' = IF ~isTaggable(informer[c]) THEN IdleTagger
               ELSE IF FromCache(informer[c].id)
                    THEN [pc |-> IF cache[informer[c].id].tagged THEN "patch" ELSE "create", on |-> c]
                    ELSE [pc |-> "describe", on |-> c]
  /\ UNCHANGED <<ec2, objects, shifted, cache, deleter, gc, events>>

TagDescribe ==
  /\ tagger.pc = "describe"
  /\ LET i == claim[tagger.on].id IN
       /\ Describe(i)
       /\ IF Found(i)
          THEN /\ tagger' = [tagger EXCEPT !.pc = IF ec2[i].tagged THEN "patch" ELSE "create"]
               /\ UNCHANGED tagQueue
          ELSE TagEnd(FALSE)
  /\ UNCHANGED <<ec2, objects, shifted, deleter, gc, events>>

(* CreateTags: not for a cached instance of a shifted zone, and not found is  *)
(* not retried.                                                              *)
CreateTags(i) ==
  IF FromCache(i) THEN TagEnd(TRUE) /\ UNCHANGED ec2
  ELSE IF Found(i) THEN /\ ec2' = [ec2 EXCEPT ![i].tagged = TRUE]
                        /\ tagger' = [tagger EXCEPT !.pc = "patch"]
                        /\ UNCHANGED tagQueue
  ELSE TagEnd(FALSE) /\ UNCHANGED ec2

TagCreate ==
  /\ tagger.pc = "create"
  /\ CreateTags(claim[tagger.on].id)
  /\ UNCHANGED <<objects, shifted, cache, deleter, gc, events>>

TagFails ==
  /\ tagger.pc \in {"describe", "create", "patch"} /\ Event
  /\ TagEnd(TRUE)
  /\ UNCHANGED <<ec2, objects, shifted, cache, deleter, gc>>

TagPatch ==
  /\ tagger.pc = "patch"
  /\ claim' = IF claim[tagger.on].phase = "gone" THEN claim ELSE [claim EXCEPT ![tagger.on].tagged = TRUE]
  /\ TagEnd(FALSE)
  /\ UNCHANGED <<ec2, nodes, informer, inflight, shifted, cache, deleter, gc, events>>

-----------------------------------------------------------------------------
Delete(a) == DeleteGet(a) \/ DeleteDescribe(a) \/ DeleteTerminate(a)
Collect == GCList \/ GCFilter
Tag == (\E c \in Claims : TagStart(c)) \/ TagDescribe \/ TagCreate \/ TagPatch

LifecycleNext ==
  \/ \E c \in Claims : \/ Launch(c) \/ Store(c) \/ DeleteClaim(c) \/ FinalizeUnlaunched(c) \/ Inform(c)
  \/ \E i \in Instances : Appear(i) \/ Age(i) \/ Join(i) \/ ShutDown(i)
  \/ Shift \/ Unshift \/ Restart
  \/ \E a \in Deleters : Delete(a) \/ DeleteFails(a)
  \/ Collect
  \/ Tag \/ TagFails

(* Every controller runs again after its period or its back-off, EC2 brings   *)
(* what it was asked for to an end, the informer catches up, shifts end.      *)
LifecycleFairness ==
  /\ \A c \in Claims : /\ WF_lifecycleVars(Store(c)) /\ WF_lifecycleVars(Inform(c))
                       /\ WF_lifecycleVars(FinalizeUnlaunched(c))
  /\ \A i \in Instances : /\ WF_lifecycleVars(Appear(i)) /\ WF_lifecycleVars(Age(i))
                          /\ WF_lifecycleVars(ShutDown(i))
  /\ \A a \in Deleters : WF_lifecycleVars(Delete(a))
  /\ WF_lifecycleVars(Unshift) /\ WF_lifecycleVars(Collect) /\ WF_lifecycleVars(Tag)

LifecycleSpec == LifecycleInit /\ [][LifecycleNext]_lifecycleVars /\ LifecycleFairness

-----------------------------------------------------------------------------
(* Properties.                                                               *)

States == {"none", "running", "shutting-down", "terminated"}
Entries == [state : {"running", "shutting-down"}, tagged : BOOLEAN] \cup {None}
NodeClaims == [phase : {"live", "deleting", "gone"}, id : Instances \cup {None}, node : BOOLEAN, tagged : BOOLEAN]

(* Type correctness: in particular instanceCache never holds a terminated     *)
(* instance and the collector only works on instances it listed.             *)
LifecycleTypeOK ==
  /\ ec2 \in [Instances -> [state : States, visible : BOOLEAN, old : BOOLEAN, tagged : BOOLEAN]]
  /\ nodes \subseteq Instances
  /\ claim \in [Claims -> NodeClaims] /\ informer \in [Claims -> NodeClaims]
  /\ inflight \in [Claims -> Instances \cup {None}]
  /\ shifted \in BOOLEAN
  /\ cache \in [Instances -> Entries]
  /\ deleter \in [Deleters -> [pc : {"idle", "describe", "terminate"}, state : States]]
  /\ gc \in [pc : {"idle", "listed", "collect"}, found : SUBSET Instances,
             nodes : SUBSET Instances, todo : SUBSET Instances]
  /\ tagger \in [pc : {"idle", "describe", "create", "patch"}, on : Claims \cup {None}]
  /\ tagQueue \subseteq Claims
  /\ events \in 0..MaxEvents

(* The collector never works on an instance that a NodeClaim has or is about  *)
(* to get: the order of its lists and the age check suffice                   *)
(* (garbagecollection/controller.go, "We LIST NodeClaims on the CloudProvider *)
(* BEFORE").                                                                  *)
OwnedIsNotCollected == \A i \in gc.todo : ~Owned(i)

(* A NodeClaim that says its instance is tagged has a tagged instance,        *)
(* whatever the cache said during a shift (tagging/controller.go, the          *)
(* annotation is written after tagInstance).                                  *)
AnnotatedIsTagged == \A c \in Claims : claim[c].tagged => ec2[claim[c].id].tagged

(* During a shift an entry leaves the cache only through a lookup that had    *)
(* decided to ask EC2 before (operator.go, "cached instances in zonally       *)
(* shifted AZs remain available for the zonal shift guards").                 *)
Asking(i) == \/ \E a \in Deleters : deleter[a].pc = "describe" /\ Target(a) = i
             \/ tagger.pc = "describe" /\ claim[tagger.on].id = i
ShiftKeepsEntries ==
  [][\A i \in Instances : FromCache(i) /\ cache'[i] = None /\ events' = events => Asking(i)]_lifecycleVars

(* An instance that runs and has no NodeClaim is terminated, whether a        *)
(* restart lost it, its NodeClaim was finalized on an early NotFound, or a     *)
(* shift stood in the way (instance.go: "will get picked up by the garbage    *)
(* collection controller and will be cleaned up eventually").                 *)
LeakedIsTerminated ==
  \A i \in Instances : (ec2[i].state = "running" /\ ~Owned(i)) ~> (ec2[i].state = "terminated")

(* A deleted NodeClaim is finalized.                                         *)
DeletedIsFinalized == \A c \in Claims : claim[c].phase = "deleting" ~> claim[c].phase = "gone"

(* A terminated instance leaves the cache for good; Get alone does not evict  *)
(* it, since EC2 answers with an empty list.                                  *)
TerminatedIsForgotten == \A i \in Instances : ec2[i].state = "terminated" ~> cache[i] = None

(* A registered NodeClaim is tagged unless it is deleted first.              *)
RegisteredIsTagged ==
  \A c \in Claims : (claim[c].phase = "live" /\ claim[c].node) ~> (claim[c].tagged \/ claim[c].phase # "live")

(* Why: an ID is stored once, copies of it lag but do not differ, and an         *)
(* instance whose age the collector accepts is on its way to no NodeClaim;       *)
(* what a controller works on stays what it was when it looked.              *)
IdStoredOnce ==
  \A c \in Claims :
    /\ inflight[c] # None => claim[c].id = None
    /\ claim[c].node \/ claim[c].tagged => claim[c].id # None
    /\ informer[c].id # None => informer[c].id = claim[c].id
    /\ informer[c].node => informer[c].id # None
    /\ informer[c].phase = "gone" => claim[c].phase = "gone"

OldIsStored ==
  \A i \in Instances :
    /\ ec2[i].visible \/ ec2[i].old => ec2[i].state # "none"
    /\ ec2[i].old => \A c \in Claims : inflight[c] # i /\ (claim[c].id = i => informer[c].id = i)

WorkIsKnown ==
  /\ \A i \in gc.todo : ec2[i].old
  /\ \A c \in Claims : deleter[c].pc # "idle" => informer[c].id # None
  /\ tagger.pc # "idle" => tagger.on \in Claims /\ claim[tagger.on].id # None
  /\ tagger.pc = "patch" => ec2[claim[tagger.on].id].tagged
  /\ \A i \in Instances : cache[i] # None /\ cache[i].tagged => ec2[i].tagged

(* Safety of instances from launch to termination: well-formed, owned           *)
(* instances are not collected, and the annotation of the tagger is true.    *)
LifecycleInv ==
  /\ LifecycleTypeOK /\ OwnedIsNotCollected /\ AnnotatedIsTagged
  /\ IdStoredOnce /\ OldIsStored /\ WorkIsKnown

(* Liveness: leaked instances are terminated, deleted NodeClaims finalized,     *)
(* terminated instances forgotten and registered NodeClaims tagged.          *)
LifecycleLive == LeakedIsTerminated /\ DeletedIsFinalized /\ TerminatedIsForgotten /\ RegisteredIsTagged
=============================================================================
