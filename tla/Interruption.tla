----------------------------- MODULE Interruption -----------------------------
(***************************************************************************)
(* How Karpenter reacts to instances that EC2 is about to take away or that *)
(* are broken.  Three singleton controllers:                                *)
(*   - the interruption controller receives batches of messages from SQS,   *)
(*     handles the messages of a batch in parallel and deletes each one     *)
(*     from the queue when it is handled (controllers/interruption);        *)
(*   - the instance status controller polls DescribeInstanceStatus and      *)
(*     handles every failing category as a message;                         *)
(*   - with NodeRepair, the node condition controller publishes the same    *)
(*     checks as EC2StatusReady, and the poller keeps scheduled events only. *)
(* All of them look NodeClaims up in an informer that lags behind the API   *)
(* server.  SQS (redelivery after the visibility timeout), EC2, the API     *)
(* server and the termination of NodeClaims by Karpenter core are external. *)
(* An instance stands for its NodeClaim, its Node and its offering.         *)
(***************************************************************************)
EXTENDS Naturals, FiniteSets

CONSTANTS Instances,      \* EC2 instance IDs
          Messages,       \* SQS messages
          Scenarios,      \* [body : message |-> [envelope, detail, ids], nodeRepair, fragile]
          Unlaunched,     \* instances whose NodeClaim does not carry their ID yet
          DrainBlocked,   \* instances whose graceful drain never completes
          MaxEvents       \* bound on impairments, recoveries, reboots and faults

Checks == {"instance_status", "system_status"}
Categories == Checks \cup {"event_status"}

ASSUME ScenarioAssumption ==
  /\ \A s \in Scenarios, m \in Messages : s.body[m].ids \subseteq Instances
  /\ Unlaunched \cup DrainBlocked \subseteq Instances
  /\ Messages \cap Instances = {}

VARIABLES
  queue,        \* message |-> "unsent", "visible", "hidden" (received) or "deleted"
  scenario,     \* what the messages say, the gate NodeRepair, and the instances that may break
  claim,        \* instance |-> its NodeClaim in the API server: [phase, forced, rebooting]
  informer,     \* the same as the informer shows it
  health,       \* instance |-> category |-> "ok", "new" or "old" (past UnhealthyThreshold)
  task,         \* handler of a message or of a polled instance: [pc, todo, cur, obj, err]
  poll,         \* the poller: [pc, currentKeys]
  seen,         \* pairs <<instance, category>> the poller has counted
  unavailable,  \* instances whose offering is marked unavailable
  node,         \* the condition controller: [pc, todo, impaired]
  condition,    \* instance |-> EC2StatusReady of its Node: "unset", "ready" or a failed check
  events,       \* events so far
  broken,       \* history: instances with a check failing past the threshold
  doomed,       \* history: instances with a scheduled event
  counted       \* history: <<instance, category>> |-> times counted since it last passed the threshold

external == <<scenario, claim, informer, health>>
handlers == <<queue, task, poll, seen, unavailable>>
conditions == <<node, condition>>
history == <<broken, doomed, counted>>
interruptionVars == <<external, handlers, conditions, events, history>>

Body(m) == scenario.body[m]
nodeRepair == scenario.nodeRepair

Claim(phase) == [phase |-> phase, forced |-> FALSE, rebooting |-> FALSE]
Claims == [phase : {"none", "live", "deleting", "gone"}, forced : BOOLEAN, rebooting : BOOLEAN]
Keys == Instances \X Categories
Listed(c) == c.phase \in {"live", "deleting"}
IdleTask == [pc |-> "idle", todo |-> {}, cur |-> <<>>, obj |-> Claim("none"), err |-> FALSE]
IdleNode == [pc |-> "idle", todo |-> {}, impaired |-> [i \in Instances |-> "ready"]]

InterruptionInit ==
  /\ scenario \in Scenarios
  /\ queue = [m \in Messages |-> "unsent"]
  /\ claim = [i \in Instances |-> Claim(IF i \in Unlaunched THEN "none" ELSE "live")]
  /\ informer = claim
  /\ health = [i \in Instances |-> [c \in Categories |-> "ok"]]
  /\ task = [a \in Messages \cup Instances |-> IdleTask]
  /\ poll = [pc |-> "idle", currentKeys |-> {}]
  /\ seen = {}
  /\ unavailable = {}
  /\ node = IdleNode
  /\ condition = [i \in Instances |-> "unset"]
  /\ events = 0
  /\ broken = {} /\ doomed = {}
  /\ counted = [k \in Keys |-> 0]

(* A fault, a change of health or a reboot uses up the bound.                *)
Event == events < MaxEvents /\ events' = events + 1

-----------------------------------------------------------------------------
(* Messages.  A state change counts for four states, an AWS Health event only *)
(* as a scheduled change of EC2.                                             *)
stateChangeKind(state) ==
  CASE state \in {"stopping", "stopped"} -> "instance_stopped"
    [] state \in {"shutting-down", "terminated"} -> "instance_terminated"
    [] OTHER -> "noop"

scheduledChangeKind(category) == IF category = "scheduledChange" THEN "scheduled_change" ELSE "noop"

(* Parse returns the kind of a message body, "error" when it does *)
(* not parse, and "noop" when no parser accepts it.                          *)
Parse(b) ==
  CASE b.envelope = "malformed" -> "error"
    [] b.envelope = "spot" -> "spot_interrupted"
    [] b.envelope = "rebalance" -> "rebalance_recommendation"
    [] b.envelope = "reservation" -> "capacity_reservation_interrupted"
    [] b.envelope = "health" -> scheduledChangeKind(b.detail)
    [] b.envelope = "state" -> stateChangeKind(b.detail)
    [] OTHER -> "noop"

actionForMessage(kind) ==
  CASE kind \in Checks -> "ForcefulTermination"
    [] kind \in {"event_status", "scheduled_change", "spot_interrupted", "instance_stopped",
                 "instance_terminated", "capacity_reservation_interrupted"} -> "CordonAndDrain"
    [] OTHER -> "NoAction"

\* Mutant: only spot interruptions mark an offering.
MarksSpotOnly(kind) == kind = "spot_interrupted"

MarksOffering(kind) == kind \in {"spot_interrupted", "capacity_reservation_interrupted"}

(* The pairs <<kind, instance>> a handler works through; a NodeClaim is looked *)
(* up for each of them.                                                      *)
Work(kind, ids) == IF kind \in {"noop", "error"} THEN {} ELSE {<<kind, i>> : i \in ids}

-----------------------------------------------------------------------------
(* External: SQS, EC2, the user, Karpenter core and the informer.            *)

Send(m) ==
  /\ queue[m] = "unsent" /\ Body(m).envelope # "none"
  /\ queue' = [queue EXCEPT ![m] = "visible"]
  /\ UNCHANGED <<external, task, poll, seen, unavailable, conditions, events, history>>

(* The visibility timeout passes after the pass that received the message.   *)
Redeliver(m) ==
  /\ queue[m] = "hidden" /\ task[m].pc = "idle"
  /\ queue' = [queue EXCEPT ![m] = "visible"]
  /\ UNCHANGED <<external, task, poll, seen, unavailable, conditions, events, history>>

SetHealth(i, c, value) == health' = [health EXCEPT ![i][c] = value]

(* A failing check counts once it lasts for UnhealthyThreshold, a scheduled   *)
(* event at once.                                                            *)
PassesThreshold(i, c) == counted' = [counted EXCEPT ![<<i, c>>] = 0]

Impair(i, c) ==
  /\ health[i][c] = "ok" /\ i \in scenario.fragile /\ Listed(claim[i]) /\ Event
  /\ SetHealth(i, c, "new")
  /\ IF c = "event_status"
     THEN doomed' = doomed \cup {i} /\ PassesThreshold(i, c)
     ELSE UNCHANGED <<doomed, counted>>
  /\ UNCHANGED <<scenario, claim, informer, handlers, conditions, broken>>

(* The failure lasts longer than UnhealthyThreshold.                         *)
Persist(i, c) ==
  /\ c \in Checks /\ health[i][c] = "new"
  /\ SetHealth(i, c, "old")
  /\ broken' = broken \cup {i} /\ PassesThreshold(i, c)
  /\ UNCHANGED <<scenario, claim, informer, handlers, conditions, events, doomed>>

Recover(i, c) ==
  /\ health[i][c] # "ok" /\ Event
  /\ SetHealth(i, c, "ok")
  /\ UNCHANGED <<scenario, claim, informer, handlers, conditions, history>>

SetClaim(i, c) ==
  /\ claim' = [claim EXCEPT ![i] = c]
  /\ UNCHANGED <<scenario, informer, health, handlers, conditions, history>>

Launch(i) == claim[i].phase = "none" /\ SetClaim(i, Claim("live")) /\ UNCHANGED events

(* The reboot controller sets and clears the condition Rebooting.            *)
Reboot(i) ==
  /\ nodeRepair /\ i \in scenario.fragile /\ claim[i].phase = "live"
  /\ \/ ~claim[i].rebooting /\ Event
     \/ claim[i].rebooting /\ UNCHANGED events
  /\ SetClaim(i, [claim[i] EXCEPT !.rebooting = ~@])

(* Core drains the node, or bypasses the drain once the termination timestamp *)
(* annotation has passed, and removes the NodeClaim.                         *)
Terminate(i) ==
  /\ claim[i].phase = "deleting"
  /\ claim[i].forced \/ i \notin DrainBlocked
  /\ SetClaim(i, [claim[i] EXCEPT !.phase = "gone"]) /\ UNCHANGED events

Inform(i) ==
  /\ informer[i] # claim[i]
  /\ informer' = [informer EXCEPT ![i] = claim[i]]
  /\ UNCHANGED <<scenario, claim, health, handlers, conditions, events, history>>

-----------------------------------------------------------------------------
(* The handler both controllers share, one API call per step.                *)

recordUnhealthyInstance(key) ==
  /\ poll' = [poll EXCEPT !.currentKeys = @ \cup {key}]
  /\ seen' = seen \cup {key}
  /\ counted' = IF key \in seen THEN counted ELSE [counted EXCEPT ![key] = @ + 1]

(* A handler is done with the pair p.  The errors of a message are collected; *)
(* a polled instance gives up at the first one, and its keys may be pruned.  *)
Finish(a, p, found, err) ==
  /\ task' = [task EXCEPT ![a] =
       LET todo == IF err /\ a \in Instances THEN {} ELSE task[a].todo \ {p} IN
       [IdleTask EXCEPT !.pc = IF a \in Instances /\ todo = {} THEN "idle" ELSE "handle",
                        !.todo = todo, !.err = a \in Messages /\ (task[a].err \/ err)]]
  /\ IF a \in Instances /\ found /\ ~err
     THEN recordUnhealthyInstance(<<a, p[1]>>)
     ELSE /\ UNCHANGED <<poll, seen>>
          /\ counted' = IF err THEN [k \in Keys |-> IF k[1] = a THEN 0 ELSE counted[k]] ELSE counted

Advance(a, p, obj, annotate) ==
  IF annotate \/ obj.phase = "live"
  THEN /\ task' = [task EXCEPT ![a].pc = IF annotate THEN "annotate" ELSE "delete",
                               ![a].cur = p, ![a].obj = obj]
       /\ UNCHANGED <<poll, seen, counted>>
  ELSE Finish(a, p, TRUE, FALSE)

(* Lists the NodeClaims of the instance ID and marks the offering.           *)
\* Mutant: a NodeClaim that is already being deleted is left alone.
handleUnlessDeleting(a, p) ==
  LET o == informer[p[2]]  action == actionForMessage(p[1]) IN
  /\ task[a].pc = "handle" /\ p \in task[a].todo
  /\ unavailable' = IF Listed(o) /\ MarksOffering(p[1]) THEN unavailable \cup {p[2]} ELSE unavailable
  /\ IF o.phase # "live" \/ action = "NoAction"
     THEN Finish(a, p, Listed(o), FALSE)
     ELSE Advance(a, p, o, action = "ForcefulTermination" /\ ~o.forced)
  /\ UNCHANGED <<external, queue, conditions, events, broken, doomed>>

handleMessage(a, p) ==
  LET o == informer[p[2]]  action == actionForMessage(p[1]) IN
  /\ task[a].pc = "handle" /\ p \in task[a].todo
  /\ unavailable' = IF Listed(o) /\ MarksOffering(p[1]) THEN unavailable \cup {p[2]} ELSE unavailable
  /\ IF ~Listed(o) \/ action = "NoAction"
     THEN Finish(a, p, Listed(o), FALSE)
     ELSE Advance(a, p, o, action = "ForcefulTermination" /\ ~o.forced)
  /\ UNCHANGED <<external, queue, conditions, events, broken, doomed>>

(* A merge patch without a lock; the response refreshes the copy.            *)
annotateTerminationTimestamp(a) ==
  LET p == task[a].cur  i == p[2]
      live == Listed(claim[i])  new == [claim[i] EXCEPT !.forced = TRUE] IN
  /\ task[a].pc = "annotate"
  /\ claim' = IF live THEN [claim EXCEPT ![i] = new] ELSE claim
  /\ Advance(a, p, IF live THEN new ELSE task[a].obj, FALSE)
  /\ UNCHANGED <<scenario, informer, health, queue, unavailable, conditions, events, broken, doomed>>

deleteNodeClaim(a) ==
  LET p == task[a].cur  i == p[2] IN
  /\ task[a].pc = "delete"
  /\ claim' = IF claim[i].phase = "live" THEN [claim EXCEPT ![i].phase = "deleting"] ELSE claim
  /\ Finish(a, p, TRUE, FALSE)
  /\ UNCHANGED <<scenario, informer, health, queue, unavailable, conditions, events, broken, doomed>>

(* A list, patch or delete of the handler fails.                             *)
HandlerFails(a, p) ==
  /\ \/ task[a].pc = "handle" /\ p \in task[a].todo
     \/ task[a].pc \in {"annotate", "delete"} /\ p = task[a].cur
  /\ Event
  /\ Finish(a, p, TRUE, TRUE)
  /\ UNCHANGED <<external, queue, unavailable, conditions, broken, doomed>>

Handle(a) ==
  \/ \E p \in task[a].todo : handleMessage(a, p) \/ HandlerFails(a, p)
  \/ annotateTerminationTimestamp(a)
  \/ deleteNodeClaim(a)

-----------------------------------------------------------------------------
(* The interruption controller.  A pass receives up to 10 messages and ends  *)
(* when each of them is handled.                                             *)
GetSQSMessages ==
  {batch \in SUBSET {m \in Messages : queue[m] = "visible"} : Cardinality(batch) \in 1..10}

Receive ==
  /\ \A m \in Messages : task[m].pc = "idle"
  /\ \E batch \in GetSQSMessages :
       /\ queue' = [m \in Messages |-> IF m \in batch THEN "hidden" ELSE queue[m]]
       /\ task' = [a \in DOMAIN task |->
            IF a \in batch
            THEN [IdleTask EXCEPT !.pc = "handle", !.todo = Work(Parse(Body(a)), Body(a).ids)]
            ELSE task[a]]
  /\ UNCHANGED <<external, poll, seen, unavailable, conditions, events, history>>

(* A handled message, or one that does not parse, is deleted; with an error  *)
(* it is left for redelivery.                                                *)
\* Mutant: the message is deleted although handling it failed.
deleteAlways(m) ==
  /\ task[m].pc = "handle" /\ task[m].todo = {}
  /\ task' = [task EXCEPT ![m] = IdleTask]
  /\ queue' = [queue EXCEPT ![m] = "deleted"] /\ UNCHANGED events
  /\ UNCHANGED <<external, poll, seen, unavailable, conditions, history>>

deleteMessage(m) ==
  /\ task[m].pc = "handle" /\ task[m].todo = {}
  /\ task' = [task EXCEPT ![m] = IdleTask]
  /\ \/ ~task[m].err /\ queue' = [queue EXCEPT ![m] = "deleted"] /\ UNCHANGED events
     \/ task[m].err /\ UNCHANGED <<queue, events>>
     \/ ~task[m].err /\ Event /\ UNCHANGED queue
  /\ UNCHANGED <<external, poll, seen, unavailable, conditions, history>>

-----------------------------------------------------------------------------
OverThreshold(i) ==
  {c \in Categories : /\ health[i][c] # "ok"
                      /\ nodeRepair => c = "event_status"
                      /\ c = "event_status" \/ health[i][c] = "old"}

PollList ==
  /\ poll.pc = "idle"
  /\ poll' = [pc |-> "run", currentKeys |-> {}]
  /\ task' = [a \in DOMAIN task |->
       IF a \in Instances /\ OverThreshold(a) # {}
       THEN [IdleTask EXCEPT !.pc = "handle", !.todo = OverThreshold(a) \X {a}]
       ELSE task[a]]
  /\ UNCHANGED <<external, queue, seen, unavailable, conditions, events, history>>

(* DescribeInstanceStatus is not allowed: the controller is not requeued.    *)
PollUnauthorized ==
  /\ poll.pc = "idle" /\ Event
  /\ poll' = [poll EXCEPT !.pc = "stopped"]
  /\ UNCHANGED <<external, queue, task, seen, unavailable, conditions, history>>

Prune ==
  /\ poll.pc = "run" /\ \A i \in Instances : task[i].pc = "idle"
  /\ seen' = seen \cap poll.currentKeys
  /\ poll' = [pc |-> "idle", currentKeys |-> {}]
  /\ UNCHANGED <<external, queue, task, unavailable, conditions, events, history>>

-----------------------------------------------------------------------------
(* The node condition controller.                                            *)
Reason(i) ==
  CASE health[i]["system_status"] # "ok" -> "system_status"
    [] health[i]["instance_status"] # "ok" -> "instance_status"
    [] OTHER -> "ready"

ConditionList ==
  /\ nodeRepair /\ node.pc = "idle"
  /\ node' = [IdleNode EXCEPT !.pc = "select", !.impaired = [i \in Instances |-> Reason(i)]]
  /\ UNCHANGED <<external, handlers, condition, events, history>>

ConditionSelect ==
  /\ node.pc = "select"
  /\ node' = [node EXCEPT !.pc = "patch",
                          !.todo = {i \in Instances : Listed(informer[i]) /\ ~informer[i].rebooting}]
  /\ UNCHANGED <<external, handlers, condition, events, history>>

(* Patches one Node, fails, or is forbidden, which cancels the other patches. *)
ConditionPatch(i) ==
  /\ node.pc = "patch" /\ i \in node.todo
  /\ \/ /\ condition' = IF Listed(claim[i]) THEN [condition EXCEPT ![i] = node.impaired[i]] ELSE condition
        /\ node' = [node EXCEPT !.todo = @ \ {i}] /\ UNCHANGED events
     \/ Event /\ node' = [node EXCEPT !.todo = @ \ {i}] /\ UNCHANGED condition
     \/ Event /\ node' = [node EXCEPT !.todo = {}] /\ UNCHANGED condition
  /\ UNCHANGED <<external, handlers, history>>

ConditionEnd ==
  /\ node.pc = "patch" /\ node.todo = {}
  /\ node' = IdleNode
  /\ UNCHANGED <<external, handlers, condition, events, history>>

(* The process restarts: tasks and caches are lost, the informer lists anew. *)
Restart ==
  /\ Event
  /\ task' = [a \in DOMAIN task |-> IdleTask]
  /\ poll' = [pc |-> "idle", currentKeys |-> {}]
  /\ seen' = {} /\ unavailable' = {}
  /\ node' = IdleNode
  /\ informer' = claim
  /\ counted' = [k \in Keys |-> 0]
  /\ UNCHANGED <<scenario, claim, health, queue, condition, broken, doomed>>

ConditionController == ConditionList \/ ConditionSelect \/ ConditionEnd \/ \E i \in Instances : ConditionPatch(i)
Poller == PollList \/ PollUnauthorized \/ Prune
Environment ==
  \/ \E m \in Messages : Send(m) \/ Redeliver(m)
  \/ \E i \in Instances : Launch(i) \/ Reboot(i) \/ Terminate(i) \/ Inform(i)
  \/ \E i \in Instances, c \in Categories : Impair(i, c) \/ Persist(i, c) \/ Recover(i, c)
  \/ Restart

InterruptionNext ==
  \/ Environment
  \/ Receive
  \/ \E m \in Messages : deleteMessage(m)
  \/ \E a \in DOMAIN task : Handle(a)
  \/ Poller
  \/ ConditionController

(* Workers and singleton controllers keep running; SQS redelivers, informers *)
(* catch up, core terminates what it can, and reboots end.                   *)
InterruptionFairness ==
  /\ WF_interruptionVars(Receive)
  /\ \A m \in Messages : WF_interruptionVars(Redeliver(m)) /\ WF_interruptionVars(deleteMessage(m))
  /\ \A a \in Messages \cup Instances : WF_interruptionVars(Handle(a))
  /\ WF_interruptionVars(PollList) /\ WF_interruptionVars(Prune)
  /\ \A i \in Instances :
       /\ WF_interruptionVars(Inform(i)) /\ WF_interruptionVars(Terminate(i))
       /\ WF_interruptionVars(claim[i].rebooting /\ Reboot(i))
  /\ WF_interruptionVars(ConditionController)

InterruptionSpec == InterruptionInit /\ [][InterruptionNext]_interruptionVars /\ InterruptionFairness

-----------------------------------------------------------------------------
InterruptionTypeOK ==
  /\ queue \in [Messages -> {"unsent", "visible", "hidden", "deleted"}]
  /\ claim \in [Instances -> Claims] /\ informer \in [Instances -> Claims]
  /\ health \in [Instances -> [Categories -> {"ok", "new", "old"}]]
  /\ \A a \in Messages \cup Instances :
       /\ task[a].pc \in {"idle", "handle", "annotate", "delete"}
       /\ task[a].pc \in {"annotate", "delete"} => task[a].cur \in task[a].todo
       /\ task[a].pc = "delete" => task[a].obj.phase = "live"
       /\ task[a].pc = "idle" => task[a] = IdleTask
  /\ seen \subseteq Keys /\ poll.currentKeys \subseteq seen
  /\ unavailable \subseteq Instances
  /\ condition \in [Instances -> Checks \cup {"unset", "ready"}]

(* A message that calls for an action leaves the queue only when the         *)
(* NodeClaim of each of its instances is being deleted or is gone, but for   *)
(* NodeClaims that did not carry the instance ID yet: their lookup may miss  *)
(* them (interruption/controller.go).                                        *)
NoMessageDropped ==
  \A m \in Messages :
    queue[m] = "deleted" /\ actionForMessage(Parse(Body(m))) # "NoAction" =>
      \A i \in Body(m).ids \ Unlaunched : claim[i].phase \in {"deleting", "gone"}

(* What justifies the deletion of a NodeClaim: a message of the queue, a     *)
(* scheduled event or, without NodeRepair, a check past the threshold.       *)
Named(i, kinds) == \E m \in Messages : queue[m] # "unsent" /\ i \in Body(m).ids /\ Parse(Body(m)) \in kinds
DrainKinds == {"scheduled_change", "instance_stopped", "instance_terminated"}
ReplaceKinds == {"spot_interrupted", "capacity_reservation_interrupted"}

(* Only interrupted instances lose their NodeClaim, and the drain of a node  *)
(* is bypassed only after one of its checks failed for UnhealthyThreshold and *)
(* NodeRepair leaves the checks to this controller (instancestatus_controller). *)
OnlyForCause ==
  \A i \in Instances :
    /\ claim[i].phase \in {"deleting", "gone"} => Named(i, DrainKinds \cup ReplaceKinds) \/ i \in broken \cup doomed
    /\ claim[i].forced => i \in broken /\ ~nodeRepair

(* When a spot or reservation interruption is the only reason to delete a    *)
(* NodeClaim, its offering is marked unavailable before the deletion, so that *)
(* the replacement does not choose it again (interruption/utils.go).          *)
MarkedBeforeReplaced ==
  [][\A i \in Instances :
       /\ claim[i].phase = "live" /\ claim'[i].phase = "deleting"
       /\ i \notin broken \cup doomed
       /\ ~Named(i, DrainKinds)
       => i \in unavailable]_interruptionVars

(* The metric counts an impairment once, from its passing the threshold to    *)
(* the next one, unless handling it fails or the process restarts             *)
(* (instancestatus_controller.go).                                           *)
CountedOnce == \A k \in Keys : counted[k] <= 1

(* Every message eventually leaves the queue, however often it is redelivered. *)
EveryMessageLeaves == \A m \in Messages : queue[m] = "visible" ~> queue[m] = "deleted"

(* A NodeClaim whose instance stays broken is eventually gone, even when its *)
(* drain is blocked and something else deleted it first, as long as the       *)
(* controller may poll.                                                       *)
BrokenIsRemoved ==
  \A i \in Instances :
    <>[](\E c \in Checks : health[i][c] = "old") =>
      <>(claim[i].phase = "gone" \/ nodeRepair \/ poll.pc = "stopped")

(* With NodeRepair the condition EC2StatusReady of a Node comes to agree with *)
(* what EC2 reports, also after failed patches and reboots.                   *)
ConditionFollowsHealth ==
  \A i \in Instances : <>[](nodeRepair /\ claim[i].phase = "live" => condition[i] = Reason(i))

(* Safety of the interruption controllers: well-formed, no message dropped,    *)
(* nothing deleted without a cause, and impairments counted once.            *)
InterruptionInv == InterruptionTypeOK /\ NoMessageDropped /\ OnlyForCause /\ CountedOnce

(* Liveness of the interruption controllers: the queue empties, broken          *)
(* instances go, and conditions follow EC2.                                  *)
InterruptionLive == EveryMessageLeaves /\ BrokenIsRemoved /\ ConditionFollowsHealth
=============================================================================
