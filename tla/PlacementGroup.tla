---------------------------- MODULE PlacementGroup ----------------------------
(***************************************************************************)
(* The placement group of a NodeClass (pkg/providers/placementgroup) and   *)
(* those who ask for it: the NodeClass reconciler, which turns it into the *)
(* condition PlacementGroupReady; a launch, which asks once to place the   *)
(* instance and once to label its NodeClaim; the check for drift; and the  *)
(* registration hook that fills in the partition.  One partition placement *)
(* group, one node.                                                        *)
(*                                                                         *)
(* The slow path of Get holds the provider's lock from its second look at  *)
(* the cache to its end, so it is one step.                                *)
(***************************************************************************)
EXTENDS Integers, FiniteSets

CONSTANTS
    Partitions,     \* the partitions of the group, numbered from 1
    Requirements,   \* what a NodeClaim may require: a set of partitions, {} for none
    MaxForgets      \* bound on restarts and on outages that outlive the cache

ASSUME PartitionsAssumption ==
    /\ Partitions \subseteq Nat \ {0}
    /\ Partitions # {}
    /\ \A allowed \in Requirements : allowed \subseteq Partitions
ASSUME BoundAssumption == MaxForgets \in Nat

VARIABLES
    group,                  \* EC2: "absent", "present" or "deleted"
    pgCache,                \* the short-lived cache says the group was resolved
    pgAvailabilityCache,    \* the long-lived cache holds the group
    call,                   \* the call of Get by each caller
    ready,                  \* the condition PlacementGroupReady, with its reason
    node,                   \* the node, from its launch on
    drifted,                \* PlacementGroupDrift was reported for the node
    forgets

placementVars == <<group, pgCache, pgAvailabilityCache, call, ready, node, drifted, forgets>>

-----------------------------------------------------------------------------

Callers == {"reconcile", "launch", "drift"}

NotCalled == [pc |-> "idle", pg |-> FALSE, err |-> FALSE]

Got(pg, err) == [pc |-> "got", pg |-> pg, err |-> err]

\* The label value that stands for a partition still to be found out.
Sentinel == -2

NoLabel == -1

NoNode(allowed) ==
    [pc |-> "none", allowed |-> allowed, inGroup |-> FALSE, partition |-> NoLabel,
     shown |-> FALSE, label |-> FALSE, partitionLabel |-> NoLabel]

PlacementInit ==
    /\ group = "absent"
    /\ pgCache = FALSE
    /\ pgAvailabilityCache = FALSE
    /\ call = [c \in Callers |-> NotCalled]
    /\ ready = "Unknown"
    /\ node \in {NoNode(allowed) : allowed \in Requirements}
    /\ drifted = FALSE
    /\ forgets = 0

-----------------------------------------------------------------------------
(* The environment *)

CreateGroup ==
    /\ group = "absent"
    /\ group' = "present"
    /\ UNCHANGED <<pgCache, pgAvailabilityCache, call, ready, node, drifted, forgets>>

\* EC2 does not delete a group that holds instances.
DeleteGroup ==
    /\ group = "present"
    /\ ~node.inGroup
    /\ group' = "deleted"
    /\ UNCHANGED <<pgCache, pgAvailabilityCache, call, ready, node, drifted, forgets>>

CacheExpire ==
    /\ pgCache
    /\ pgCache' = FALSE
    /\ UNCHANGED <<group, pgAvailabilityCache, call, ready, node, drifted, forgets>>

\* No poll has succeeded for 24 hours.
AvailabilityExpire ==
    /\ forgets < MaxForgets
    /\ pgAvailabilityCache /\ ~pgCache
    /\ pgAvailabilityCache' = FALSE
    /\ forgets' = forgets + 1
    /\ UNCHANGED <<group, pgCache, call, ready, node, drifted>>

\* The process restarts between two launches: its caches are empty, the status of
\* the NodeClass and the labels of the node are not.
RestartPlacement ==
    /\ forgets < MaxForgets
    /\ node.pc # "launched"
    /\ pgCache' = FALSE
    /\ pgAvailabilityCache' = FALSE
    /\ call' = [c \in Callers |-> NotCalled]
    /\ forgets' = forgets + 1
    /\ UNCHANGED <<group, ready, node, drifted>>

-----------------------------------------------------------------------------
(* Get *)

\* A caller asks if it has reason to: a launch needs a ready NodeClass, and asks
\* again for the labels; drift is about a node that has its labels.
Wants(c) ==
    CASE c = "reconcile" -> TRUE
      [] c = "launch" -> (node.pc = "none" /\ ready = "True") \/ node.pc = "launched"
      [] c = "drift" -> node.pc \in {"labelled", "registered"}

\* The fast path, under the read lock.
GetFast(c) ==
    /\ call[c].pc = "idle"
    /\ Wants(c)
    /\ call' = [call EXCEPT ![c] = IF pgCache THEN Got(pgAvailabilityCache, FALSE)
                                   ELSE [NotCalled EXCEPT !.pc = "slow"]]
    /\ UNCHANGED <<group, pgCache, pgAvailabilityCache, ready, node, drifted, forgets>>

\* The slow path finds that another caller has filled the cache, ...
GetAgain(c) ==
    /\ call[c].pc = "slow"
    /\ pgCache
    /\ call' = [call EXCEPT ![c] = Got(pgAvailabilityCache, FALSE)]
    /\ UNCHANGED <<group, pgCache, pgAvailabilityCache, ready, node, drifted, forgets>>

\* ... or calls EC2, which shows the group if there is one, ...
GetDescribe(c) ==
    /\ call[c].pc = "slow"
    /\ ~pgCache
    /\ pgAvailabilityCache' = (pgAvailabilityCache \/ group = "present")
    /\ pgCache' = TRUE
    /\ call' = [call EXCEPT ![c] = Got(group = "present", FALSE)]
    /\ UNCHANGED <<group, ready, node, drifted, forgets>>

\* ... or fails: then the group known from before is returned with the error.
GetError(c) ==
    /\ call[c].pc = "slow"
    /\ ~pgCache
    /\ call' = [call EXCEPT ![c] = Got(pgAvailabilityCache, TRUE)]
    /\ UNCHANGED <<group, pgCache, pgAvailabilityCache, ready, node, drifted, forgets>>

-----------------------------------------------------------------------------
(* The callers *)

\* PlacementGroupReconciler.Reconcile sets the condition.
Reconcile ==
    /\ call["reconcile"].pc = "got"
    /\ ready' = CASE call["reconcile"].err -> "ResolutionFailed"
                  [] ~call["reconcile"].err /\ call["reconcile"].pg -> "True"
                  [] ~call["reconcile"].err /\ ~call["reconcile"].pg -> "NotFound"
    /\ call' = [call EXCEPT !["reconcile"] = NotCalled]
    /\ UNCHANGED <<group, pgCache, pgAvailabilityCache, node, drifted, forgets>>

\* The lowest partition, for the launch template.
Lowest(S) == CHOOSE p \in S : \A q \in S : p <= q

\* EnsureAll ignores the error.  Without a group the instance is launched outside
\* of any; without a required partition EC2 chooses one.
EnsureAll ==
    /\ call["launch"].pc = "got"
    /\ node.pc = "none"
    /\ call["launch"].pg => group = "present"
    /\ \E p \in Partitions :
          /\ node.allowed # {} => p = Lowest(node.allowed)
          /\ node' = [node EXCEPT !.pc = "launched",
                                  !.inGroup = call["launch"].pg,
                                  !.partition = IF call["launch"].pg THEN p ELSE NoLabel]
    /\ call' = [call EXCEPT !["launch"] = NotCalled]
    /\ UNCHANGED <<group, pgCache, pgAvailabilityCache, ready, drifted, forgets>>

\* EC2 refuses to launch into a group that is gone: the launch ends with an error.
LaunchRefused ==
    /\ call["launch"].pc = "got"
    /\ node.pc = "none"
    /\ call["launch"].pg /\ group # "present"
    /\ call' = [call EXCEPT !["launch"] = NotCalled]
    /\ UNCHANGED <<group, pgCache, pgAvailabilityCache, ready, node, drifted, forgets>>

\* The value for the partition label: the first of the required partitions, in no
\* particular order, or the sentinel.
PartitionLabels(allowed) == IF allowed = {} THEN {Sentinel} ELSE allowed

\* instanceToNodeClaim labels the NodeClaim, and ignores the error as well.
Label ==
    /\ call["launch"].pc = "got"
    /\ node.pc = "launched"
    /\ IF call["launch"].pg
       THEN \E v \in PartitionLabels(node.allowed) :
               node' = [node EXCEPT !.pc = "labelled", !.label = TRUE, !.partitionLabel = v]
       ELSE node' = [node EXCEPT !.pc = "labelled"]
    /\ call' = [call EXCEPT !["launch"] = NotCalled]
    /\ UNCHANGED <<group, pgCache, pgAvailabilityCache, ready, drifted, forgets>>

\* DescribeInstances begins to show the partition of the instance.
ShowPartition ==
    /\ node.pc = "labelled"
    /\ node.inGroup /\ ~node.shown
    /\ node' = [node EXCEPT !.shown = TRUE]
    /\ UNCHANGED <<group, pgCache, pgAvailabilityCache, call, ready, drifted, forgets>>

\* The registration hook: a node with the sentinel waits until EC2 shows the
\* partition, which becomes the label; all others register as they are.
Registered ==
    /\ node.pc = "labelled"
    /\ IF node.label /\ node.partitionLabel = Sentinel
       THEN node.shown /\ node' = [node EXCEPT !.pc = "registered", !.partitionLabel = node.partition]
       ELSE node' = [node EXCEPT !.pc = "registered"]
    /\ UNCHANGED <<group, pgCache, pgAvailabilityCache, call, ready, drifted, forgets>>

\* Mutant: the group is compared with what EC2 returned, error or not.
DriftOnError ==
    /\ call["drift"].pc = "got"
    /\ drifted' = (node.label # (call["drift"].pg /\ ~call["drift"].err))
    /\ call' = [call EXCEPT !["drift"] = NotCalled]
    /\ UNCHANGED <<group, pgCache, pgAvailabilityCache, ready, node, forgets>>

\* isPlacementGroupDrifted compares the label with the group, and ignores the error.
IsPlacementGroupDrifted ==
    /\ call["drift"].pc = "got"
    /\ drifted' = (node.label # call["drift"].pg)
    /\ call' = [call EXCEPT !["drift"] = NotCalled]
    /\ UNCHANGED <<group, pgCache, pgAvailabilityCache, ready, node, forgets>>

-----------------------------------------------------------------------------

Get(c) == GetFast(c) \/ GetAgain(c) \/ GetDescribe(c) \/ GetError(c)

PlacementNext ==
    \/ CreateGroup \/ DeleteGroup \/ CacheExpire \/ AvailabilityExpire \/ RestartPlacement
    \/ \E c \in Callers : Get(c)
    \/ Reconcile \/ EnsureAll \/ LaunchRefused \/ Label \/ ShowPartition \/ Registered
    \/ IsPlacementGroupDrifted

PlacementSpec == PlacementInit /\ [][PlacementNext]_placementVars

-----------------------------------------------------------------------------
(* Properties *)

\* Type correctness; a label is a partition of the group, the sentinel or none.
PlacementTypeOK ==
    /\ group \in {"absent", "present", "deleted"}
    /\ pgCache \in BOOLEAN
    /\ pgAvailabilityCache \in BOOLEAN
    /\ call \in [Callers -> [pc: {"idle", "slow", "got"}, pg: BOOLEAN, err: BOOLEAN]]
    /\ ready \in {"Unknown", "True", "NotFound", "ResolutionFailed"}
    /\ node \in [pc: {"none", "launched", "labelled", "registered"}, allowed: Requirements,
                 inGroup: BOOLEAN, partition: Partitions \cup {NoLabel}, shown: BOOLEAN,
                 label: BOOLEAN, partitionLabel: Partitions \cup {Sentinel, NoLabel}]
    /\ drifted \in BOOLEAN
    /\ forgets \in 0..MaxForgets

\* EnsureAll ignores the error of Get and launches without a placement group when
\* it gets none.  That does not happen as long as the group exists and the process
\* keeps running: a launch needs a ready NodeClass, and from then on the long-lived
\* cache stands in for EC2.
LaunchedInGroup ==
    node.pc # "none" /\ group = "present" /\ forgets = 0 => node.inGroup

\* The comment on the hook: "TopologySpreadConstraints using the partition topology
\* key always see accurate partition data".  A registered node in the group whose
\* NodeClaim is labelled has the label of the partition its instance is in.
PartitionIsAccurate ==
    node.pc = "registered" /\ node.inGroup /\ node.label => node.partitionLabel = node.partition

\* The comment on isPlacementGroupDrifted: it "covers scenarios where
\* placementGroupSelector was added, removed, or changed".  The selector of this
\* NodeClass does not change, so a node in its group is not drifted, however often
\* EC2 fails to answer, as long as the process keeps running: the error is ignored,
\* and after a restart nothing stands in for the answer.
NoFalseDrift ==
    node.inGroup /\ node.label /\ group = "present" /\ forgets = 0 => ~drifted

\* Safety of placement groups: well-formed, launches land in the group, partition
\* labels are right and a node in the group is not drifted.
PlacementInv == PlacementTypeOK /\ LaunchedInGroup /\ PartitionIsAccurate /\ NoFalseDrift
=============================================================================
