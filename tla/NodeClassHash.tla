---------------------------- MODULE NodeClassHash ----------------------------
(***************************************************************************)
(* Static drift.  The NodeClass and every NodeClaim carry a hash of the      *)
(* NodeClass spec and the version of the hash function as annotations.  The  *)
(* hash controller (controllers/nodeclass/hash) keeps the NodeClass up to    *)
(* date and, when the version changes with a release, rewrites the NodeClaims *)
(* first, one patch at a time.  IsDrifted (cloudprovider/drift.go) compares   *)
(* the annotations, and only when their versions are equal.  The API server,  *)
(* its lagging informer of the NodeClass, upgrades and the drift controller   *)
(* of Karpenter core are external.                                           *)
(***************************************************************************)
EXTENDS Naturals, FiniteSets

CONSTANTS HashClaims,    \* NodeClaims of the NodeClass
          Specs,         \* values of the hashed fields
          MaxHashEvents  \* bound on spec changes, upgrades, restarts and failing calls

VARIABLES
  release,      \* EC2NodeClassHashVersion of the running process
  class,        \* the NodeClass in the API server: [spec, hash, version]
  classCopy,    \* the same as the informer shows it
  hashed,       \* NodeClaim |-> [phase, built, hash, version, drifted]; built: the spec it was launched from
  hasher,       \* the hash controller: [pc, class, todo, err]; todo: NodeClaims listed and not yet patched
  masked,       \* history: NodeClaims rehashed with a spec they were not launched from
  frozen,       \* history: NodeClaims that were drifted when they were migrated
  hashEvents    \* events so far

hashVars == <<release, class, classCopy, hashed, hasher, masked, frozen, hashEvents>>

Releases == {1, 2}
(* Hashes of different versions never agree, hashes of one version tell the  *)
(* specs apart.                                                              *)
Hash(version, spec) == <<version, spec>>
Unlaunched == [phase |-> "none", built |-> 0, hash |-> <<>>, version |-> 0, drifted |-> FALSE]
IdleHasher == [pc |-> "idle", class |-> class, todo |-> {}, err |-> FALSE]
Live(c) == hashed[c].phase = "live"

HashInit ==
  /\ release = 1
  /\ class \in {[spec |-> s, hash |-> Hash(1, s), version |-> 1] : s \in Specs}
  /\ classCopy = class
  /\ hashed = [c \in HashClaims |-> Unlaunched]
  /\ hasher = IdleHasher
  /\ masked = {} /\ frozen = {}
  /\ hashEvents = 0

HashEvent == hashEvents < MaxHashEvents /\ hashEvents' = hashEvents + 1

-----------------------------------------------------------------------------
(* External.                                                                 *)
ChangeSpec ==
  /\ HashEvent
  /\ \E s \in Specs \ {class.spec} : class' = [class EXCEPT !.spec = s]
  /\ UNCHANGED <<release, classCopy, hashed, hasher, masked, frozen>>

InformClass ==
  /\ classCopy # class
  /\ classCopy' = class
  /\ UNCHANGED <<release, class, hashed, hasher, masked, frozen, hashEvents>>

(* The process is restarted, with the same or a later release.  Rolled back   *)
(* before the NodeClass was stored, NodeClaims of the later release would     *)
(* never be migrated: that history is left out.                              *)
Upgrade ==
  /\ HashEvent
  /\ release' \in {r \in Releases : r >= release}
  /\ classCopy' = class
  /\ hasher' = IdleHasher
  /\ UNCHANGED <<class, hashed, masked, frozen>>

RemoveClaim(c) ==
  /\ Live(c) /\ HashEvent
  /\ hashed' = [hashed EXCEPT ![c] = [Unlaunched EXCEPT !.phase = "gone"]]
  /\ UNCHANGED <<release, class, classCopy, hasher, masked, frozen>>

-----------------------------------------------------------------------------
(* CloudProvider.Create annotates the NodeClaim from the NodeClass it read.  *)
CreateHashed(c) ==
  /\ hashed[c].phase = "none"
  /\ hashed' = [hashed EXCEPT ![c] =
       [phase |-> "live", built |-> classCopy.spec, hash |-> Hash(release, classCopy.spec),
        version |-> release, drifted |-> FALSE]]
  /\ UNCHANGED <<release, class, classCopy, hasher, masked, frozen, hashEvents>>

areStaticFieldsDrifted(nodeClaim, nodeClass) ==
  nodeClass.version = nodeClaim.version /\ nodeClass.hash # nodeClaim.hash

(* Core stores what IsDrifted returned as the condition Drifted.             *)
CheckDrift(c) ==
  /\ Live(c)
  /\ hashed[c].drifted # areStaticFieldsDrifted(hashed[c], classCopy)
  /\ hashed' = [hashed EXCEPT ![c].drifted = ~@]
  /\ UNCHANGED <<release, class, classCopy, hasher, masked, frozen, hashEvents>>

-----------------------------------------------------------------------------
(* The hash controller.                                                      *)
\* Mutant: only a change of the version is looked for.
OutdatedVersion == classCopy.version # release

Outdated == classCopy.version # release \/ classCopy.hash # Hash(release, classCopy.spec)

HashStart ==
  /\ hasher.pc = "idle" /\ Outdated
  /\ hasher' = [pc |-> "patch", class |-> classCopy, err |-> FALSE,
                todo |-> IF classCopy.version = release THEN {}
                         ELSE {<<c, hashed[c]>> : c \in {d \in HashClaims : Live(d) /\ hashed[d].version # release}}]
  /\ UNCHANGED <<release, class, classCopy, hashed, masked, frozen, hashEvents>>

rehash(nc) == ~nc.drifted

(* One NodeClaim of updateNodeClaimHash, as it was listed.  The patch of one  *)
(* that is gone is ignored.                                                  *)
updateNodeClaimHash(c, nc) ==
  LET new == Hash(release, hasher.class.spec) IN
  /\ hasher' = [hasher EXCEPT !.todo = @ \ {<<c, nc>>}]
  /\ IF ~Live(c) THEN UNCHANGED <<hashed, masked, frozen>>
     ELSE /\ hashed' = [hashed EXCEPT ![c].version = release, ![c].hash = IF rehash(nc) THEN new ELSE @]
          /\ masked' = IF hasher.class.spec # hashed[c].built THEN masked \cup {c} ELSE masked
          /\ frozen' = IF nc.drifted THEN frozen \cup {c} ELSE frozen

MigrateClaim ==
  /\ hasher.pc = "patch"
  /\ \E p \in hasher.todo : updateNodeClaimHash(p[1], p[2])
  /\ UNCHANGED <<release, class, classCopy, hashEvents>>

(* A patch of a NodeClaim fails, or that of the NodeClass.                   *)
MigrateFails ==
  /\ hasher.pc = "patch" /\ HashEvent
  /\ \/ \E p \in hasher.todo : hasher' = [hasher EXCEPT !.todo = @ \ {p}, !.err = TRUE]
     \/ hasher.todo = {} /\ hasher' = IdleHasher
  /\ UNCHANGED <<release, class, classCopy, hashed, masked, frozen>>

(* An error returns before the NodeClass is touched.  Otherwise the patch     *)
(* writes the annotations that differ from the copy it started from.         *)
StoreClassHash ==
  /\ hasher.pc = "patch" /\ hasher.todo = {}
  /\ class' = IF hasher.err THEN class
              ELSE [class EXCEPT !.hash = IF hasher.class.hash = Hash(release, hasher.class.spec) THEN @
                                          ELSE Hash(release, hasher.class.spec),
                                 !.version = IF hasher.class.version = release THEN @ ELSE release]
  /\ hasher' = [pc |-> "idle", class |-> class', todo |-> {}, err |-> FALSE]
  /\ UNCHANGED <<release, classCopy, hashed, masked, frozen, hashEvents>>

-----------------------------------------------------------------------------
HashController == HashStart \/ MigrateClaim \/ StoreClassHash
HashNext ==
  \/ ChangeSpec \/ InformClass \/ Upgrade
  \/ \E c \in HashClaims : RemoveClaim(c) \/ CreateHashed(c) \/ CheckDrift(c)
  \/ HashController \/ MigrateFails

(* The controller retries what failed, the informer catches up, and core      *)
(* looks at every NodeClaim again and again.                                 *)
HashSpec ==
  /\ HashInit /\ [][HashNext]_hashVars
  /\ WF_hashVars(HashController) /\ WF_hashVars(InformClass)
  /\ \A c \in HashClaims : WF_hashVars(CheckDrift(c))

-----------------------------------------------------------------------------
(* Type correctness.                                                         *)
HashTypeOK ==
  /\ release \in Releases
  /\ class \in [spec : Specs, hash : Releases \X Specs, version : Releases]
  /\ classCopy \in [spec : Specs, hash : Releases \X Specs, version : Releases]
  /\ \A c \in HashClaims : Live(c) => /\ hashed[c].built \in Specs /\ hashed[c].version \in Releases
                                      /\ hashed[c].hash \in Releases \X Specs
                                      /\ hashed[c].drifted \in BOOLEAN
  /\ hasher.pc \in {"idle", "patch"} /\ hasher.err \in BOOLEAN
  /\ hashEvents \in 0..MaxHashEvents

(* Once the NodeClass carries the version of the running release, every       *)
(* NodeClaim does: none is left where IsDrifted cannot compare               *)
(* (hash/controller.go: NodeClaims are updated before the NodeClass).        *)
MigratedTogether ==
  class.version = release => \A c \in HashClaims : Live(c) => hashed[c].version = release

(* An upgrade or a crash in the middle of a migration drifts no              *)
(* node: static drift is reported for a NodeClaim launched from another spec, *)
(* while the annotation of the NodeClass is behind its spec, or for one whose *)
(* spec had been changed when it was migrated.                               *)
NoDriftWithoutChange ==
  \A c \in HashClaims :
    Live(c) /\ areStaticFieldsDrifted(hashed[c], class) =>
      hashed[c].built # class.spec \/ class.hash[2] # class.spec \/ c \in frozen \cup masked

(* A NodeClaim launched from another spec does not stay unreported, unless    *)
(* the migration hid the difference (controller.go: "we will need to           *)
(* re-calculate the hash and update the annotation").                         *)
ChangeIsReported ==
  \A c \in HashClaims :
    ~<>[](Live(c) /\ hashed[c].built # class.spec /\ ~hashed[c].drifted /\ c \notin masked)

(* What static drift promises across upgrades: NodeClaims migrate before their  *)
(* NodeClass, drift has a cause, and a change is reported.                   *)
HashContract == [](HashTypeOK /\ MigratedTogether /\ NoDriftWithoutChange) /\ ChangeIsReported
=============================================================================
