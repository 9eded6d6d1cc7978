--------------------------------- MODULE Kwok ---------------------------------
(***************************************************************************)
(* The EC2 that the kwok build simulates (kwok/ec2/ec2.go): instances live in *)
(* a map, a goroutine per launch registers the Node later, one thread saves   *)
(* the instances to ConfigMaps, another deletes Nodes without an instance,    *)
(* and a restarted process reads the ConfigMaps before it serves any call.    *)
(*                                                                         *)
(* Instances are numbered by launch time.  Of an instance only its tags are   *)
(* kept: those of the fleet, or those of CreateTags, which replaces them.     *)
(* Reads of the API server are taken to be current.                          *)
(***************************************************************************)
EXTENDS Integers, FiniteSets

CONSTANTS Ids,           \* a set of positive numbers
          ChunkSize,     \* instances per ConfigMap: 500 in the code
          RetrySteps,    \* attempts to create a Node: 4 in the code
          MaxKwokEvents  \* bound on crashes and failed calls

VARIABLES
  readBackupCompleted,    \* whether ReadBackup is done
  instances,              \* c.instances: instance |-> tags
  launching,              \* the launch goroutine of each instance, and whether its
                          \* context is cancelled
  attempts,               \* failed attempts of each to create the Node
  nodes,                  \* Nodes, as pairs of an instance and a number: names are random
  configMaps,             \* number of a ConfigMap |-> its instances
  backer,                 \* StartBackupThread
  tagging,                \* the instance that a CreateTags in progress has loaded, or 0
  revived,                \* history: instances that CreateTags stored after their end
  kwokEvents

kwokVars == <<readBackupCompleted, instances, launching, attempts, nodes,
              configMaps, backer, tagging, revived, kwokEvents>>
launchVars == <<launching, attempts>>

NoInstances == [i \in {} |-> "fleet"]
IdleBacker == [pc |-> "idle", snap |-> NoInstances, top |-> 0, todo |-> {}, err |-> FALSE]

KwokInit ==
  /\ readBackupCompleted = FALSE
  /\ instances = NoInstances
  /\ launching = [i \in Ids |-> "new"] /\ attempts = [i \in Ids |-> 0]
  /\ nodes = {}
  /\ configMaps = [c \in {} |-> NoInstances]
  /\ backer = IdleBacker
  /\ tagging = 0
  /\ revived = {}
  /\ kwokEvents = 0

KwokEvent == kwokEvents < MaxKwokEvents /\ kwokEvents' = kwokEvents + 1

With(f, i, tags) == [j \in DOMAIN f \cup {i} |-> IF j = i THEN tags ELSE f[j]]
Without(f, S) == [j \in DOMAIN f \ S |-> f[j]]
HasNode(i) == \E n \in nodes : n[1] = i
Saved(i) == {configMaps[c][i] : c \in {d \in DOMAIN configMaps : i \in DOMAIN configMaps[d]}}

-----------------------------------------------------------------------------
(* Start-up *)

(* Memory is lost: the API server keeps Nodes and ConfigMaps.                *)
Crash ==
  /\ readBackupCompleted' = FALSE
  /\ instances' = NoInstances
  /\ launching' = [i \in Ids |-> IF launching[i] = "new" THEN "new" ELSE "ended"]
  /\ attempts' = [i \in Ids |-> 0]
  /\ backer' = IdleBacker /\ tagging' = 0
  /\ UNCHANGED <<nodes, configMaps, revived>>

RestartKwok == KwokEvent /\ Crash

(* "Register nodes immediately if we killed the KWOK controller before         *)
(* actually registering the node": once for every ConfigMap that holds it.    *)
Register(i) ==
  LET copies == {c \in DOMAIN configMaps : i \in DOMAIN configMaps[c]}
  IN nodes' = IF HasNode(i) THEN nodes ELSE nodes \cup {<<i, n>> : n \in 1..Cardinality(copies)}

ReadBackup(i) ==
  /\ ~readBackupCompleted /\ i \notin DOMAIN instances
  /\ \E tags \in Saved(i) : instances' = With(instances, i, tags)
  /\ Register(i)
  /\ UNCHANGED <<readBackupCompleted, launchVars, configMaps, backer, tagging, revived, kwokEvents>>

ReadBackupEnd ==
  /\ ~readBackupCompleted /\ \A i \in Ids : Saved(i) # {} => i \in DOMAIN instances
  /\ readBackupCompleted' = TRUE
  /\ UNCHANGED <<instances, launchVars, nodes, configMaps, backer, tagging, revived, kwokEvents>>

-----------------------------------------------------------------------------
(* The calls that change instances *)

CreateInstance(i) ==
  /\ readBackupCompleted
  /\ launching[i] = "new" /\ \A j \in Ids : j < i => launching[j] # "new"
  /\ instances' = With(instances, i, "fleet")
  /\ launching' = [launching EXCEPT ![i] = "starting"]
  /\ UNCHANGED <<readBackupCompleted, attempts, nodes, configMaps, backer, tagging, revived, kwokEvents>>

(* Cancelled before the 30 seconds are over.                                 *)
LaunchCancelled(i) ==
  /\ launching[i] = "cancelled" /\ attempts[i] = 0
  /\ launching' = [launching EXCEPT ![i] = "ended"]
  /\ UNCHANGED <<readBackupCompleted, instances, attempts, nodes, configMaps, backer, tagging, revived, kwokEvents>>

(* toNode chooses a new name.                                                *)
AddNode(i) == nodes \cup {CHOOSE n \in {i} \X (1..Cardinality(nodes) + 1) : n \notin nodes}

CreateNode(i) ==
  /\ launching[i] = "starting"
  /\ launching' = [launching EXCEPT ![i] = "ended"]
  /\ attempts' = [attempts EXCEPT ![i] = 0]
  /\ nodes' = AddNode(i)
  /\ UNCHANGED <<readBackupCompleted, instances, configMaps, backer, tagging, revived, kwokEvents>>

(* The API server may have created the Node all the same.  Every error is     *)
(* retried, under a new name; with a cancelled context all attempts fail.     *)
(* Failures in a row count as one event.                                     *)
CreateNodeFails(i) ==
  /\ \/ launching[i] = "starting" /\ attempts[i] = 0 /\ KwokEvent
     \/ launching[i] = "starting" /\ attempts[i] > 0 /\ UNCHANGED kwokEvents
     \/ launching[i] = "cancelled" /\ UNCHANGED kwokEvents
  /\ nodes' \in {nodes, AddNode(i)}
  /\ IF launching[i] = "cancelled" \/ attempts[i] + 1 = RetrySteps
     THEN /\ launching' = [launching EXCEPT ![i] = "ended"]
          /\ attempts' = [attempts EXCEPT ![i] = 0]
          /\ instances' = Without(instances, {i})
     ELSE /\ attempts' = [attempts EXCEPT ![i] = @ + 1]
          /\ UNCHANGED <<launching, instances>>
  /\ UNCHANGED <<readBackupCompleted, configMaps, backer, tagging, revived>>

TerminateInstance(i) ==
  /\ readBackupCompleted /\ i \in DOMAIN instances
  /\ instances' = Without(instances, {i})
  /\ launching' = [launching EXCEPT ![i] = IF @ = "starting" THEN "cancelled" ELSE @]
  /\ UNCHANGED <<readBackupCompleted, attempts, nodes, configMaps, backer, tagging, revived, kwokEvents>>

(* CreateTags loads the instance and stores it again.  Karpenter tags         *)
(* instances whose Node it knows, once.                                      *)
TagLoad(i) ==
  /\ tagging = 0 /\ i \in DOMAIN instances /\ instances[i] = "fleet" /\ HasNode(i) /\ readBackupCompleted
  /\ tagging' = i
  /\ UNCHANGED <<readBackupCompleted, instances, launchVars, nodes, configMaps, backer, revived, kwokEvents>>

TagStore ==
  /\ tagging # 0
  /\ instances' = With(instances, tagging, "created")
  /\ revived' = revived \cup ({tagging} \ DOMAIN instances)
  /\ tagging' = 0
  /\ UNCHANGED <<readBackupCompleted, launchVars, nodes, configMaps, backer, kwokEvents>>

-----------------------------------------------------------------------------
(* The two threads *)

NumConfigMaps(snap) == (Cardinality(DOMAIN snap) + ChunkSize - 1) \div ChunkSize

(* lo.Slice(instances, i*500, (i+1)*500) of the instances by launch time.     *)
Chunk(snap, c) ==
  LET position(i) == Cardinality({j \in DOMAIN snap : j < i})
  IN Without(snap, {i \in DOMAIN snap : position(i) \notin c * ChunkSize..(c + 1) * ChunkSize - 1})

(* The ConfigMaps beyond the number needed, by their numbers.                 *)
Surplus(num) ==
  {c \in DOMAIN configMaps : Cardinality({d \in DOMAIN configMaps : d < c}) >= num}

(* The deletions run in parallel; then, unless one failed, the writes.        *)
Advance(b) ==
  LET chunks == 0..NumConfigMaps(b.snap) - 1
  IN CASE b.todo # {} -> b
       [] b.todo = {} /\ b.pc = "delete" /\ ~b.err /\ chunks # {} -> [b EXCEPT !.pc = "write", !.todo = chunks]
       [] OTHER -> IdleBacker

FirstCalls ==
  Advance([pc |-> "delete", snap |-> instances, top |-> Cardinality(DOMAIN configMaps),
           todo |-> Surplus(NumConfigMaps(instances)), err |-> FALSE])

MayBackUp == backer.pc = "idle" /\ readBackupCompleted

BackupBegin ==
  /\ MayBackUp
  /\ backer' = FirstCalls
  /\ UNCHANGED <<readBackupCompleted, instances, launchVars, nodes, configMaps, tagging, revived, kwokEvents>>

BackupDelete(c) ==
  /\ backer.pc = "delete" /\ c \in backer.todo
  /\ configMaps' = Without(configMaps, {c})
  /\ backer' = Advance([backer EXCEPT !.todo = @ \ {c}])
  /\ UNCHANGED <<readBackupCompleted, instances, launchVars, nodes, tagging, revived, kwokEvents>>

(* errs has room for as many errors as ConfigMaps are needed, not for as many *)
(* as are deleted: a later one is an index out of range.                      *)
BackupDeleteFails(c) ==
  /\ backer.pc = "delete" /\ c \in backer.todo /\ KwokEvent
  /\ IF backer.top - 1 - c < NumConfigMaps(backer.snap)
     THEN /\ backer' = Advance([backer EXCEPT !.todo = @ \ {c}, !.err = TRUE])
          /\ UNCHANGED <<readBackupCompleted, instances, launchVars, nodes, configMaps, tagging, revived>>
     ELSE Crash

BackupCreate(c) ==
  /\ backer.pc = "write" /\ c \in backer.todo /\ c \notin DOMAIN configMaps
  /\ configMaps' = With(configMaps, c, NoInstances)
  /\ UNCHANGED <<readBackupCompleted, instances, launchVars, nodes, backer, tagging, revived, kwokEvents>>

BackupWrite(c) ==
  /\ backer.pc = "write" /\ c \in backer.todo /\ c \in DOMAIN configMaps
  /\ configMaps' = [configMaps EXCEPT ![c] = Chunk(backer.snap, c)]
  /\ backer' = Advance([backer EXCEPT !.todo = @ \ {c}])
  /\ UNCHANGED <<readBackupCompleted, instances, launchVars, nodes, tagging, revived, kwokEvents>>

BackupWriteFails(c) ==
  /\ backer.pc = "write" /\ c \in backer.todo /\ KwokEvent
  /\ backer' = Advance([backer EXCEPT !.todo = @ \ {c}, !.err = TRUE])
  /\ UNCHANGED <<readBackupCompleted, instances, launchVars, nodes, configMaps, tagging, revived>>

(* Mutant: only the Node the launch is expected to have made is looked for.   *)
GoneFirstOnly(n) == n[1] \notin DOMAIN instances /\ n[2] = 1

Gone(n) == n[1] \notin DOMAIN instances

(* StartKillNodeThread looks at one Node after another; what a stale list     *)
(* misses, or a failed Delete leaves, is for the next round.                  *)
KillNode(n) ==
  /\ readBackupCompleted /\ n \in nodes /\ Gone(n)
  /\ nodes' = nodes \ {n}
  /\ UNCHANGED <<readBackupCompleted, instances, launchVars, configMaps, backer, tagging, revived, kwokEvents>>

-----------------------------------------------------------------------------
(* The threads are loops with a pause, and a launch is retried or given up.   *)

BackupStep == BackupBegin \/ \E c \in 0..Cardinality(Ids) : BackupDelete(c) \/ BackupCreate(c) \/ BackupWrite(c)
KillStep == \E n \in nodes : KillNode(n)
StartStep ==
  \/ ReadBackupEnd
  \/ \E i \in Ids : ReadBackup(i) \/ LaunchCancelled(i) \/ CreateNode(i) \/ (launching[i] = "cancelled" /\ CreateNodeFails(i))

KwokNext ==
  \/ BackupStep \/ KillStep \/ StartStep
  \/ RestartKwok \/ TagStore
  \/ \E i \in Ids : CreateInstance(i) \/ CreateNodeFails(i) \/ TerminateInstance(i) \/ TagLoad(i)
  \/ \E c \in 0..Cardinality(Ids) : BackupDeleteFails(c) \/ BackupWriteFails(c)

KwokSpec ==
  /\ KwokInit /\ [][KwokNext]_kwokVars
  /\ WF_kwokVars(BackupStep) /\ WF_kwokVars(KillStep) /\ WF_kwokVars(StartStep)

-----------------------------------------------------------------------------
(* The state is well formed; no ConfigMap holds more than a chunk.            *)
KwokTypeOK ==
  /\ readBackupCompleted \in BOOLEAN
  /\ DOMAIN instances \subseteq Ids
  /\ \A i \in DOMAIN instances : instances[i] \in {"fleet", "created"}
  /\ launching \in [Ids -> {"new", "starting", "cancelled", "ended"}]
  /\ attempts \in [Ids -> 0..RetrySteps - 1]
  /\ nodes \subseteq Ids \X (1..Cardinality(nodes) + Cardinality(Ids) + MaxKwokEvents)
  /\ \A c \in DOMAIN configMaps : Cardinality(DOMAIN configMaps[c]) <= ChunkSize
  /\ backer.pc \in {"idle", "delete", "write"}
  /\ tagging \in Ids \cup {0}

(* backupInstances takes an instance that still exists out of the ConfigMaps  *)
(* only when the end of an earlier one moved it to another chunk, or when      *)
(* CreateTags had brought it back.  Otherwise no crash can lose an instance    *)
(* that was saved, whatever deletions and writes ran in parallel.             *)
BackupKeepsLive ==
  [][\A i \in DOMAIN instances : Saved(i) # {} /\ Saved(i)' = {} =>
       i \in revived \/ \E j \in Ids : j < i /\ (j \notin DOMAIN instances \/ j \in revived)]_kwokVars

(* A Node whose instance is gone is deleted: also the second Node of a retried *)
(* Create, and the Node that a cancelled launch created all the same.         *)
NodesFollow ==
  \A i \in Ids : ~<>[](HasNode(i) /\ i \notin DOMAIN instances)

(* An instance gets its Node, although the process restarts between the two,   *)
(* unless it is given up.                                                    *)
InstancesJoin ==
  \A i \in Ids : ~<>[](i \in DOMAIN instances \ revived /\ ~HasNode(i))

(* The ConfigMaps come to hold each instance as it is, and none that is gone.  *)
BackupFollows ==
  \A i \in Ids : ~<>[](Saved(i) # {instances[j] : j \in {i} \cap DOMAIN instances})

(* What the simulated EC2 promises: a backup that keeps and follows the live    *)
(* instances, and Nodes that come and go with them.                          *)
KwokContract == []KwokTypeOK /\ BackupKeepsLive /\ NodesFollow /\ InstancesJoin /\ BackupFollows
=============================================================================
