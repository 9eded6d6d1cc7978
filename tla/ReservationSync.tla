--------------------------- MODULE ReservationSync ---------------------------
(***************************************************************************)
(* What happens to nodes in a capacity reservation that ends.  An on-demand  *)
(* capacity reservation leaves its instances behind as on-demand instances:  *)
(* the capacity type controller (controllers/capacityreservation/            *)
(* capacitytype) relabels the NodeClaim and then the Node.  A capacity block  *)
(* takes them with it: the expiration controller (.../expiration) deletes     *)
(* their NodeClaims while the block is expiring.  EC2, the API server, its    *)
(* lagging informer and the registration of Nodes by Karpenter core are       *)
(* external.                                                                 *)
(***************************************************************************)
EXTENDS Naturals, FiniteSets

CONSTANTS ReservedClaims,  \* NodeClaims launched into a reservation
          Blocks,          \* those in a capacity block
          MaxSyncEvents    \* bound on failing calls, restarts and early deletions

ASSUME BlocksAssumption == Blocks \subseteq ReservedClaims

VARIABLES
  market,      \* NodeClaim |-> its instance in EC2: "reserved", "expiring", "on-demand" or "terminated"
  labelled,    \* NodeClaim |-> [phase, label] in the API server
  labelCopy,   \* the same as the informer shows it
  nodeLabel,   \* NodeClaim |-> "none", or the capacity type of its registered Node
  sync,        \* capacity type controller: [pc, cloud, todo, cur]
  expire,      \* expiration controller: [pc, listed, todo]
  syncEvents   \* events so far

syncVars == <<market, labelled, labelCopy, nodeLabel, sync, expire, syncEvents>>

IdleSync == [pc |-> "idle", cloud |-> [c \in ReservedClaims |-> "none"], todo |-> {}, cur |-> {}]
IdleExpire == [pc |-> "idle", listed |-> {}, todo |-> {}]

SyncInit ==
  /\ market = [c \in ReservedClaims |-> "reserved"]
  /\ labelled = [c \in ReservedClaims |-> [phase |-> "live", label |-> "reserved"]]
  /\ labelCopy = labelled
  /\ nodeLabel = [c \in ReservedClaims |-> "none"]
  /\ sync = IdleSync
  /\ expire = IdleExpire
  /\ syncEvents = 0

SyncEvent == syncEvents < MaxSyncEvents /\ syncEvents' = syncEvents + 1

-----------------------------------------------------------------------------
(* External.  A block first expires and then takes the instance away.        *)
EndReservation(c) ==
  /\ market' = [market EXCEPT ![c] =
       CASE @ = "reserved" /\ c \in Blocks -> "expiring"
         [] @ = "reserved" -> "on-demand"
         [] @ = "expiring" -> "terminated"
         [] OTHER -> @]
  /\ UNCHANGED <<labelled, labelCopy, nodeLabel, sync, expire, syncEvents>>

InformLabel(c) ==
  /\ labelCopy[c] # labelled[c]
  /\ labelCopy' = [labelCopy EXCEPT ![c] = labelled[c]]
  /\ UNCHANGED <<market, labelled, nodeLabel, sync, expire, syncEvents>>

(* Core copies the labels of the NodeClaim it read to the Node.              *)
RegisterNode(c) ==
  /\ nodeLabel[c] = "none" /\ labelCopy[c].phase = "live" /\ market[c] # "terminated"
  /\ nodeLabel' = [nodeLabel EXCEPT ![c] = labelCopy[c].label]
  /\ UNCHANGED <<market, labelled, labelCopy, sync, expire, syncEvents>>

DeleteLabelled(c) ==
  /\ labelled[c].phase = "live" /\ SyncEvent
  /\ labelled' = [labelled EXCEPT ![c].phase = "deleting"]
  /\ UNCHANGED <<market, labelCopy, nodeLabel, sync, expire>>

(* An error of List ends a pass; so does a restart.                          *)
SyncRestart ==
  /\ SyncEvent
  /\ sync' = IdleSync /\ expire' = IdleExpire
  /\ labelCopy' = labelled
  /\ UNCHANGED <<market, labelled, nodeLabel>>

-----------------------------------------------------------------------------
(* The capacity type controller: cloudProvider.List, then the NodeClaims.    *)
SyncList ==
  /\ sync.pc = "idle"
  /\ sync' = [sync EXCEPT !.pc = "listed",
       !.cloud = [c \in ReservedClaims |->
                    CASE market[c] = "terminated" -> "none"
                      [] market[c] = "on-demand" -> "on-demand"
                      [] OTHER -> "reserved"]]
  /\ UNCHANGED <<market, labelled, labelCopy, nodeLabel, expire, syncEvents>>

\* Mutant: a NodeClaim that is relabelled already is skipped with its Node.
DemotesReservedOnly(c, nc) ==
  nc.phase = "live" /\ sync.cloud[c] = "on-demand" /\ nc.label = "reserved"

(* syncCapacityType leaves deleting NodeClaims and all other capacity types.  *)
Demotes(c, nc) == nc.phase = "live" /\ sync.cloud[c] = "on-demand"

SyncClaims ==
  /\ sync.pc = "listed"
  /\ sync' = [sync EXCEPT !.pc = "work",
       !.todo = {<<c, labelCopy[c]>> : c \in {d \in ReservedClaims : Demotes(d, labelCopy[d])}}]
  /\ UNCHANGED <<market, labelled, labelCopy, nodeLabel, expire, syncEvents>>

(* The NodeClaim is patched if the copy says reserved; not found is ignored.  *)
SyncPatchClaim ==
  /\ sync.pc = "work" /\ sync.cur = {}
  /\ \E p \in sync.todo :
       /\ sync' = [sync EXCEPT !.todo = @ \ {p}, !.cur = {p[1]}]
       /\ labelled' = IF p[2].label = "reserved" THEN [labelled EXCEPT ![p[1]].label = "on-demand"] ELSE labelled
  /\ UNCHANGED <<market, labelCopy, nodeLabel, expire, syncEvents>>

(* Then its registered Node.                                                 *)
SyncPatchNode ==
  /\ sync.pc = "work"
  /\ \E c \in sync.cur :
       /\ sync' = [sync EXCEPT !.cur = {}]
       /\ nodeLabel' = IF nodeLabel[c] = "reserved" THEN [nodeLabel EXCEPT ![c] = "on-demand"] ELSE nodeLabel
  /\ UNCHANGED <<market, labelled, labelCopy, expire, syncEvents>>

(* A failing patch gives this NodeClaim up until the next pass.              *)
SyncPatchFails ==
  /\ sync.pc = "work" /\ SyncEvent
  /\ \/ \E p \in sync.todo : sync.cur = {} /\ sync' = [sync EXCEPT !.todo = @ \ {p}]
     \/ sync.cur # {} /\ sync' = [sync EXCEPT !.cur = {}]
  /\ UNCHANGED <<market, labelled, labelCopy, nodeLabel, expire>>

SyncEnd ==
  /\ sync.pc = "work" /\ sync.todo = {} /\ sync.cur = {}
  /\ sync' = IdleSync
  /\ UNCHANGED <<market, labelled, labelCopy, nodeLabel, expire, syncEvents>>

-----------------------------------------------------------------------------
(* The expiration controller: NodeClaims with a reservation, the reservations *)
(* from EC2, and one Delete each.                                            *)
ExpireClaims ==
  /\ expire.pc = "idle"
  /\ expire' = [expire EXCEPT !.pc = "listed",
                !.listed = {c \in ReservedClaims : labelCopy[c].label = "reserved"}]
  /\ UNCHANGED <<market, labelled, labelCopy, nodeLabel, sync, syncEvents>>

Expiring(c) == market[c] = "expiring"

ExpireReservations ==
  /\ expire.pc = "listed"
  /\ expire' = [expire EXCEPT !.pc = "delete", !.listed = {}, !.todo = {c \in expire.listed : Expiring(c)}]
  /\ UNCHANGED <<market, labelled, labelCopy, nodeLabel, sync, syncEvents>>

ExpireDelete ==
  /\ expire.pc = "delete"
  /\ \E c \in expire.todo :
       /\ labelled' = IF labelled[c].phase = "live" THEN [labelled EXCEPT ![c].phase = "deleting"] ELSE labelled
       /\ expire' = [expire EXCEPT !.todo = @ \ {c}]
  /\ UNCHANGED <<market, labelCopy, nodeLabel, sync, syncEvents>>

ExpireDeleteFails ==
  /\ expire.pc = "delete" /\ SyncEvent
  /\ \E c \in expire.todo : expire' = [expire EXCEPT !.todo = @ \ {c}]
  /\ UNCHANGED <<market, labelled, labelCopy, nodeLabel, sync>>

ExpireEnd ==
  /\ expire.pc = "delete" /\ expire.todo = {}
  /\ expire' = IdleExpire
  /\ UNCHANGED <<market, labelled, labelCopy, nodeLabel, sync, syncEvents>>

-----------------------------------------------------------------------------
SyncController == SyncList \/ SyncClaims \/ SyncPatchClaim \/ SyncPatchNode \/ SyncEnd
ExpireController == ExpireClaims \/ ExpireReservations \/ ExpireDelete \/ ExpireEnd
SyncNext ==
  \/ \E c \in ReservedClaims : EndReservation(c) \/ InformLabel(c) \/ RegisterNode(c) \/ DeleteLabelled(c)
  \/ SyncRestart \/ SyncController \/ SyncPatchFails \/ ExpireController \/ ExpireDeleteFails

(* Both controllers run every minute; the informer catches up.               *)
SyncSpec ==
  /\ SyncInit /\ [][SyncNext]_syncVars
  /\ WF_syncVars(SyncController) /\ WF_syncVars(ExpireController)
  /\ \A c \in ReservedClaims : WF_syncVars(InformLabel(c))

-----------------------------------------------------------------------------
(* Type correctness.                                                         *)
SyncTypeOK ==
  /\ market \in [ReservedClaims -> {"reserved", "expiring", "on-demand", "terminated"}]
  /\ labelled \in [ReservedClaims -> [phase : {"live", "deleting"}, label : {"reserved", "on-demand"}]]
  /\ labelCopy \in [ReservedClaims -> [phase : {"live", "deleting"}, label : {"reserved", "on-demand"}]]
  /\ nodeLabel \in [ReservedClaims -> {"none", "reserved", "on-demand"}]
  /\ Cardinality(sync.cur) <= 1 /\ sync.cur \cup {p[1] : p \in sync.todo} \subseteq ReservedClaims
  /\ expire.listed \cup expire.todo \subseteq ReservedClaims
  /\ syncEvents \in 0..MaxSyncEvents

(* A NodeClaim or Node is relabelled only once EC2 runs its instance on         *)
(* demand: an instance missing from the answer of EC2 is not demoted.         *)
DemotedIsOnDemand ==
  \A c \in ReservedClaims : "on-demand" \in {labelled[c].label, nodeLabel[c]} => market[c] = "on-demand"

(* The Node of a demoted instance is relabelled, also when it was registered    *)
(* from a stale NodeClaim after that was relabelled, or when the first patch   *)
(* of the two went through and the second failed.                             *)
NodeIsDemoted ==
  \A c \in ReservedClaims :
    ~<>[](market[c] = "on-demand" /\ nodeLabel[c] = "reserved" /\ labelled[c].phase # "deleting")

(* NodeClaims of an expiring block are deleted unless the block ends first.    *)
ExpiringIsDeleted ==
  \A c \in Blocks : ~<>[](market[c] = "expiring" /\ labelled[c].phase # "deleting")

(* What the capacity-type and expiration controllers promise: only demoted      *)
(* instances are relabelled, all of them are, and expiring blocks are left.  *)
SyncContract == [](SyncTypeOK /\ DemotedIsOnDemand) /\ NodeIsDemoted /\ ExpiringIsDeleted
=============================================================================
