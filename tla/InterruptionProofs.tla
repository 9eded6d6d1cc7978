-------------------------- MODULE InterruptionProofs --------------------------
(***************************************************************************)
(* Proofs about the interruption controllers, for any set of messages,     *)
(* instances and scenarios: InterruptionInv is an invariant, and an         *)
(* offering is marked before the NodeClaim on it is replaced.               *)
(***************************************************************************)
EXTENDS Interruption, TLAPS

-----------------------------------------------------------------------------
(* The inductive invariant.                                                  *)

MessageKinds == {"noop", "error", "rebalance_recommendation"} \cup DrainKinds \cup ReplaceKinds
Pairs == (MessageKinds \cup Categories) \X Instances
Handlers == Messages \cup Instances

Tasks == [pc : {"idle", "handle", "annotate", "delete"}, todo : SUBSET Pairs,
          cur : Pairs \cup {<<>>}, obj : Claims, err : BOOLEAN]

WellTyped ==
  /\ scenario \in Scenarios
  /\ queue \in [Messages -> {"unsent", "visible", "hidden", "deleted"}]
  /\ claim \in [Instances -> Claims] /\ informer \in [Instances -> Claims]
  /\ health \in [Instances -> [Categories -> {"ok", "new", "old"}]]
  /\ task \in [Handlers -> Tasks]
  /\ poll \in [pc : {"idle", "run", "stopped"}, currentKeys : SUBSET Keys]
  /\ seen \subseteq Keys /\ poll.currentKeys \subseteq seen
  /\ unavailable \subseteq Instances
  /\ condition \in [Instances -> Checks \cup {"unset", "ready"}]
  /\ counted \in [Keys -> Nat]

NodeTyped == node \in [pc : {"idle", "select", "patch"}, todo : SUBSET Instances,
                       impaired : [Instances -> Checks \cup {"ready"}]]

(* The life of a NodeClaim goes one way, and a copy of it is an earlier state. *)
Behind(o, c) ==
  /\ o.phase # "none" => c.phase # "none"
  /\ o.phase = "deleting" => c.phase \in {"deleting", "gone"}
  /\ o.phase = "gone" => c.phase = "gone"

InformerLags ==
  \A i \in Instances : Behind(informer[i], claim[i]) /\ (i \notin Unlaunched => informer[i].phase # "none")

HealthRecorded ==
  \A i \in Instances :
    /\ health[i]["event_status"] # "ok" => i \in doomed
    /\ \A c \in Checks : health[i][c] = "old" => i \in broken

(* Why a handler works on a pair.                                            *)
Caused(a, p) ==
  \/ a \in Messages /\ queue[a] = "hidden" /\ p[2] \in Body(a).ids /\ p[1] = Parse(Body(a))
  \/ a \in Instances /\ p[2] = a /\ p[1] = "event_status" /\ a \in doomed
  \/ a \in Instances /\ p[2] = a /\ p[1] \in Checks /\ a \in broken /\ ~nodeRepair

EveryTaskCaused == \A a \in Handlers : \A p \in task[a].todo : Caused(a, p)

Removed(i) == claim[i].phase \in {"deleting", "gone"}

(* A message without an error so far has dealt with all instances but those  *)
(* still to do.                                                              *)
Handled(m) ==
  \A i \in Body(m).ids \ Unlaunched : <<Parse(Body(m)), i>> \in task[m].todo \/ Removed(i)

MessagesHandled ==
  \A m \in Messages :
    /\ task[m].pc # "idle" => queue[m] = "hidden"
    /\ task[m].pc # "idle" /\ ~task[m].err /\ actionForMessage(Parse(Body(m))) # "NoAction" => Handled(m)

(* A handler between its calls for the pair cur.                             *)
Midway(a) ==
  LET p == task[a].cur IN
  /\ p \in task[a].todo
  /\ task[a].obj.phase \in {"live", "deleting"} /\ Behind(task[a].obj, claim[p[2]])
  /\ task[a].pc = "annotate" => p[1] \in Checks
  /\ task[a].pc = "delete" => task[a].obj.phase = "live"
  /\ actionForMessage(p[1]) # "NoAction"
  /\ MarksOffering(p[1]) => p[2] \in unavailable
  /\ informer[p[2]].phase # "none"
  /\ a \in Instances => <<a, p[1]>> \in seen \/ counted[<<a, p[1]>>] = 0

TasksSound ==
  \A a \in Handlers :
    /\ task[a].pc = "idle" => task[a] = IdleTask
    /\ task[a].pc \in {"annotate", "delete"} => Midway(a)

PollSound == poll.pc # "run" => \A i \in Instances : task[i].pc = "idle"

(* Where the poller remembers a key it has counted, until the key has to be   *)
(* counted anew.                                                             *)
Remembered(i, c) ==
  \/ informer[i].phase = "gone"
  \/ <<i, c>> \in poll.currentKeys
  \/ <<i, c>> \in seen /\ (poll.pc = "run" => <<c, i>> \in task[i].todo)
  \/ c \notin OverThreshold(i) /\ <<c, i>> \notin task[i].todo

CountSound ==
  \A i \in Instances, c \in Categories :
    counted[<<i, c>>] # 0 => informer[i].phase # "none" /\ Remembered(i, c)

InterruptionIInv ==
  /\ WellTyped /\ NodeTyped /\ InformerLags /\ HealthRecorded /\ EveryTaskCaused /\ MessagesHandled
  /\ TasksSound /\ PollSound /\ CountSound
  /\ NoMessageDropped /\ OnlyForCause /\ CountedOnce

-----------------------------------------------------------------------------
(* What Parse returns, and which messages call for an action.                *)
LEMMA Parsing ==
  ASSUME NEW b
  PROVE  /\ Parse(b) \in MessageKinds
         /\ actionForMessage(Parse(b)) # "NoAction" => Parse(b) \in DrainKinds \cup ReplaceKinds
<1>1. Parse(b) \in MessageKinds
  BY Zenon DEF Parse, MessageKinds, DrainKinds, ReplaceKinds, scheduledChangeKind, stateChangeKind
<1>2. \A k \in MessageKinds : actionForMessage(k) # "NoAction" => k \in DrainKinds \cup ReplaceKinds
  BY Zenon DEF actionForMessage, MessageKinds, DrainKinds, ReplaceKinds, Checks
<1> QED BY Zenon, <1>1, <1>2

(* The kinds of the poller.                                                  *)
LEMMA PollerKinds ==
  /\ MessageKinds \cap Categories = {}
  /\ \A k \in MessageKinds \cup Categories : actionForMessage(k) = "ForcefulTermination" <=> k \in Checks
  /\ \A k \in MessageKinds \cup Categories : MarksOffering(k) <=> k \in ReplaceKinds
BY Zenon DEF MessageKinds, Categories, Checks, DrainKinds, ReplaceKinds, actionForMessage, MarksOffering

LEMMA InitHolds == InterruptionInit => InterruptionIInv
<1> SUFFICES ASSUME InterruptionInit PROVE InterruptionIInv
  BY Zenon
<1> USE DEF InterruptionInit
<1>1. /\ Claim("none") \in Claims /\ Claim("live") \in Claims
      /\ IdleTask \in Tasks
      /\ IdleTask.pc = "idle" /\ IdleTask.todo = {}
  BY Zenon DEF Claim, Claims, IdleTask, Tasks
<1>2. WellTyped
  BY Zenon, <1>1 DEF WellTyped, Handlers, Keys
<1>3. NodeTyped
  BY Zenon DEF NodeTyped, IdleNode
<1>4. InformerLags
  BY Zenon DEF InformerLags, Behind, Claim
<1>5. HealthRecorded
  BY Zenon DEF HealthRecorded, Categories, Checks
<1>6. EveryTaskCaused
  BY Zenon, <1>1 DEF EveryTaskCaused, Handlers
<1>7. MessagesHandled /\ TasksSound /\ PollSound
  BY Zenon, <1>1 DEF MessagesHandled, TasksSound, PollSound, Handlers
<1>8. CountSound /\ CountedOnce
  BY DEF CountSound, CountedOnce, Keys
<1>9. NoMessageDropped
  BY Zenon DEF NoMessageDropped
<1>10. OnlyForCause
  BY Zenon DEF OnlyForCause, Claim
<1> QED BY Zenon, <1>2, <1>3, <1>4, <1>5, <1>6, <1>7, <1>8, <1>9, <1>10 DEF InterruptionIInv

-----------------------------------------------------------------------------
(* The environment.  A message appears on the queue again or for the first    *)
(* time only while nobody handles it.                                        *)
LEMMA QueueStep ==
  ASSUME InterruptionIInv, NEW m \in Messages, Send(m) \/ Redeliver(m)
  PROVE  InterruptionIInv'
<1> USE DEF Send, Redeliver, external, conditions, history, handlers
<1>1. /\ UNCHANGED <<scenario, claim, informer, health, task, poll, seen, unavailable, node, condition>>
      /\ UNCHANGED <<broken, doomed, counted>>
      /\ queue' = [queue EXCEPT ![m] = "visible"] /\ queue[m] \in {"unsent", "hidden"}
  BY Zenon
<1>2. task[m].pc = "idle" /\ task[m].todo = {}
  BY DEF InterruptionIInv, MessagesHandled, TasksSound, Handlers, IdleTask
<1>3. WellTyped' /\ NodeTyped'
  BY Zenon, <1>1 DEF InterruptionIInv, WellTyped, NodeTyped
<1>4. InformerLags' /\ HealthRecorded'
  BY Zenon, <1>1 DEF InterruptionIInv, InformerLags, HealthRecorded
<1>5. \A n \in Messages : n # m => queue'[n] = queue[n]
  BY Zenon, <1>1 DEF InterruptionIInv, WellTyped
<1>6. EveryTaskCaused'
  BY <1>1, <1>2, <1>5 DEF InterruptionIInv, EveryTaskCaused, Caused, Body, nodeRepair
<1>7. MessagesHandled'
  BY Zenon, <1>1, <1>2, <1>5 DEF InterruptionIInv, MessagesHandled, Handled, Removed, Body
<1>8. TasksSound' /\ PollSound'
  BY <1>1 DEF InterruptionIInv, TasksSound, Midway, PollSound
<1>9. CountSound' /\ CountedOnce'
  BY Zenon, <1>1 DEF InterruptionIInv, CountSound, Remembered, OverThreshold, nodeRepair, CountedOnce
<1>10. NoMessageDropped'
  BY Zenon, <1>1, <1>5 DEF InterruptionIInv, WellTyped, NoMessageDropped, Body
<1>11. OnlyForCause'
  BY Zenon, <1>1, <1>5 DEF InterruptionIInv, WellTyped, OnlyForCause, Named, Body, nodeRepair
<1> QED BY Zenon, <1>3, <1>4, <1>6, <1>7, <1>8, <1>9, <1>10, <1>11 DEF InterruptionIInv

(* EC2 reports other checks and events: what passes the threshold is counted  *)
(* anew and is recorded as a cause.                                          *)
LEMMA HealthStep ==
  ASSUME InterruptionIInv, NEW i \in Instances, NEW c \in Categories,
         Impair(i, c) \/ Persist(i, c) \/ Recover(i, c)
  PROVE  InterruptionIInv'
<1> USE DEF Impair, Persist, Recover, conditions, history, handlers
<1>1. /\ UNCHANGED <<scenario, claim, informer, queue, task, poll, seen, unavailable, node, condition>>
      /\ broken \subseteq broken' /\ doomed \subseteq doomed'
  BY Zenon
<1>2. PICK v \in {"ok", "new", "old"} :
        /\ health' = [health EXCEPT ![i][c] = v]
        /\ v = "old" => c \in Checks /\ i \in broken'
        /\ c = "event_status" /\ v # "ok" => i \in doomed'
        /\ counted' \in {counted, [counted EXCEPT ![<<i, c>>] = 0]}
        /\ v = "old" \/ (c = "event_status" /\ v # "ok") => counted' = [counted EXCEPT ![<<i, c>>] = 0]
  BY Zenon DEF SetHealth, PassesThreshold, Checks
<1>3. /\ \A j \in Instances, d \in Categories : health'[j][d] = IF j = i /\ d = c THEN v ELSE health[j][d]
      /\ health' \in [Instances -> [Categories -> {"ok", "new", "old"}]]
  <2> health \in [Instances -> [Categories -> {"ok", "new", "old"}]]
    BY Zenon DEF InterruptionIInv, WellTyped
  <2> QED BY Zenon, <1>2
<1>4. /\ counted' \in [Keys -> Nat]
      /\ \A j \in Instances, d \in Categories :
           /\ counted'[<<j, d>>] = counted[<<j, d>>] \/ counted'[<<j, d>>] = 0
           /\ j = i /\ d = c /\ (v = "old" \/ (c = "event_status" /\ v # "ok")) => counted'[<<j, d>>] = 0
  <2>1. counted \in [Keys -> Nat] /\ \A j \in Instances, d \in Categories : <<j, d>> \in Keys
    BY Zenon DEF InterruptionIInv, WellTyped, Keys
  <2>2. CASE counted' = counted
    BY Zenon, <1>2, <2>1, <2>2
  <2>3. CASE counted' = [counted EXCEPT ![<<i, c>>] = 0]
    BY Zenon, <2>1, <2>3
  <2> QED BY Zenon, <1>2, <2>2, <2>3
<1>5. WellTyped' /\ NodeTyped'
  BY Zenon, <1>1, <1>3, <1>4 DEF InterruptionIInv, WellTyped, NodeTyped
<1>6. InformerLags'
  BY Zenon, <1>1 DEF InterruptionIInv, InformerLags
<1>7. HealthRecorded'
  BY <1>1, <1>2, <1>3 DEF InterruptionIInv, HealthRecorded, Categories, Checks
<1>8. EveryTaskCaused'
  BY <1>1 DEF InterruptionIInv, EveryTaskCaused, Caused, Body, nodeRepair
<1>9. MessagesHandled' /\ PollSound' /\ NoMessageDropped'
  BY Zenon, <1>1 DEF InterruptionIInv, MessagesHandled, Handled, Removed, Body, PollSound, NoMessageDropped
<1>10. TasksSound'
  <2> SUFFICES ASSUME NEW a \in Handlers, task[a].pc \in {"annotate", "delete"}
               PROVE  Midway(a)'
    BY Zenon, <1>1 DEF InterruptionIInv, TasksSound
  <2>1. Midway(a)
    BY Zenon DEF InterruptionIInv, TasksSound
  <2>2. a \in Instances => task[a].cur[1] \in Categories
    BY Zenon, <2>1, ScenarioAssumption DEF Midway, InterruptionIInv, EveryTaskCaused, Caused, Categories
  <2> QED BY Zenon, <1>1, <1>4, <2>1, <2>2 DEF Midway
<1>11. CountSound'
  <2> SUFFICES ASSUME NEW j \in Instances, NEW d \in Categories, counted'[<<j, d>>] # 0
               PROVE  informer[j].phase # "none" /\ Remembered(j, d)'
    BY Zenon, <1>1 DEF CountSound
  <2>1. counted[<<j, d>>] # 0 /\ ~(j = i /\ d = c /\ (v = "old" \/ (c = "event_status" /\ v # "ok")))
    BY Zenon, <1>4
  <2>2. informer[j].phase # "none" /\ Remembered(j, d)
    BY Zenon, <2>1 DEF InterruptionIInv, CountSound
  <2>3. d \notin OverThreshold(j) => d \notin OverThreshold(j)'
    BY Zenon, <1>1, <1>2, <1>3, <2>1 DEF OverThreshold, nodeRepair
  <2> QED BY Zenon, <1>1, <2>2, <2>3 DEF Remembered
<1>12. CountedOnce'
  BY <1>4 DEF InterruptionIInv, CountedOnce, WellTyped, Keys
<1>13. OnlyForCause'
  BY Zenon, <1>1 DEF InterruptionIInv, OnlyForCause, Named, Body, nodeRepair
<1> QED BY Zenon, <1>5, <1>6, <1>7, <1>8, <1>9, <1>10, <1>11, <1>12, <1>13 DEF InterruptionIInv

LEMMA BehindTransitive ==
  ASSUME NEW o, NEW c, NEW d, Behind(o, c), Behind(c, d)
  PROVE  Behind(o, d)
BY Zenon DEF Behind

(* A NodeClaim moves on without the controllers: it gets its instance ID, is  *)
(* rebooted, or is gone once it was being deleted.                           *)
LEMMA ClaimStep ==
  ASSUME InterruptionIInv, NEW i \in Instances, Launch(i) \/ Reboot(i) \/ Terminate(i)
  PROVE  InterruptionIInv'
<1>1. /\ UNCHANGED <<scenario, informer, health, queue, task, poll, seen, unavailable, node, condition>>
      /\ UNCHANGED <<broken, doomed, counted>>
  BY Zenon DEF Launch, Reboot, Terminate, SetClaim, conditions, history, handlers
<1>2. claim \in [Instances -> Claims]
  BY Zenon DEF InterruptionIInv, WellTyped
<1>3. PICK c \in Claims :
        /\ claim' = [claim EXCEPT ![i] = c]
        /\ Behind(claim[i], c)
        /\ c.phase \in {"deleting", "gone"} => claim[i].phase \in {"deleting", "gone"}
        /\ c.forced => claim[i].forced
  <2>1. CASE Launch(i)
    <3> Claim("live") \in Claims
      BY Zenon DEF Claim, Claims
    <3> WITNESS Claim("live") \in Claims
    <3> QED BY Zenon, <1>2, <2>1 DEF Launch, SetClaim, Behind, Claim
  <2>2. CASE Reboot(i)
    <3> DEFINE r == [claim[i] EXCEPT !.rebooting = ~@]
    <3>1. r \in Claims /\ r.phase = claim[i].phase /\ r.forced = claim[i].forced
      BY ZenonT(30), <1>2 DEF Claims
    <3>2. claim' = [claim EXCEPT ![i] = r]
      BY Zenon, <2>2 DEF Reboot, SetClaim
    <3> HIDE DEF r
    <3> QED BY ZenonT(30), <3>1, <3>2, <1>2 DEF Behind, Claims
  <2>3. CASE Terminate(i)
    <3> DEFINE r == [claim[i] EXCEPT !.phase = "gone"]
    <3>1. r \in Claims /\ r.phase = "gone" /\ r.forced = claim[i].forced
      BY Zenon, <1>2 DEF Claims
    <3>2. claim' = [claim EXCEPT ![i] = r] /\ claim[i].phase = "deleting"
      BY Zenon, <2>3 DEF Terminate, SetClaim
    <3> HIDE DEF r
    <3> QED BY ZenonT(30), <3>1, <3>2 DEF Behind
  <2> QED BY Zenon, <2>1, <2>2, <2>3
<1>4. /\ claim' \in [Instances -> Claims]
      /\ \A j \in Instances :
           /\ Behind(claim[j], claim'[j])
           /\ claim'[j].phase \in {"deleting", "gone"} <=> claim[j].phase \in {"deleting", "gone"}
           /\ claim'[j].forced => claim[j].forced
  BY Zenon, <1>2, <1>3 DEF Behind
<1>5. WellTyped' /\ NodeTyped'
  BY Zenon, <1>1, <1>4 DEF InterruptionIInv, WellTyped, NodeTyped
<1>6. InformerLags'
  BY Zenon, <1>1, <1>4, BehindTransitive DEF InterruptionIInv, InformerLags
<1>7. HealthRecorded' /\ EveryTaskCaused' /\ PollSound'
  BY <1>1 DEF InterruptionIInv, HealthRecorded, EveryTaskCaused, Caused, Body, nodeRepair, PollSound
<1>8. MessagesHandled'
  BY Zenon, <1>1, <1>4, ScenarioAssumption DEF InterruptionIInv, WellTyped, MessagesHandled, Handled, Removed, Body
<1>9. TasksSound'
  <2> SUFFICES ASSUME NEW a \in Handlers, task[a].pc \in {"annotate", "delete"}
               PROVE  Midway(a)'
    BY Zenon, <1>1 DEF InterruptionIInv, TasksSound
  <2>1. Midway(a)
    BY Zenon DEF InterruptionIInv, TasksSound
  <2>2. task[a].cur[2] \in Instances
    BY Zenon, <2>1 DEF Midway, InterruptionIInv, WellTyped, Tasks, Pairs
  <2>3. Behind(task[a].obj, claim[task[a].cur[2]]')
    BY Zenon, <1>1, <1>4, <2>1, <2>2, BehindTransitive DEF Midway
  <2> QED BY Zenon, <1>1, <2>1, <2>3 DEF Midway
<1>10. CountSound' /\ CountedOnce'
  BY Zenon, <1>1 DEF InterruptionIInv, CountSound, Remembered, OverThreshold, nodeRepair, CountedOnce
<1>11. NoMessageDropped'
  BY Zenon, <1>1, <1>4, ScenarioAssumption DEF InterruptionIInv, WellTyped, NoMessageDropped, Body
<1>12. OnlyForCause'
  BY Zenon, <1>1, <1>4 DEF InterruptionIInv, OnlyForCause, Named, Body, nodeRepair
<1> QED BY Zenon, <1>5, <1>6, <1>7, <1>8, <1>9, <1>10, <1>11, <1>12 DEF InterruptionIInv

(* The informer catches up with a NodeClaim.                                 *)
LEMMA InformStep ==
  ASSUME InterruptionIInv, NEW i \in Instances, Inform(i)
  PROVE  InterruptionIInv'
<1>1. /\ UNCHANGED <<scenario, claim, health, queue, task, poll, seen, unavailable, node, condition>>
      /\ UNCHANGED <<broken, doomed, counted>>
  BY Zenon DEF Inform, conditions, history, handlers
<1>2. /\ informer' \in [Instances -> Claims]
      /\ \A j \in Instances : informer'[j] = IF j = i THEN claim[i] ELSE informer[j]
  BY Zenon DEF Inform, InterruptionIInv, WellTyped
<1>3. WellTyped' /\ NodeTyped'
  BY Zenon, <1>1, <1>2 DEF InterruptionIInv, WellTyped, NodeTyped
<1>4. InformerLags'
  BY Zenon, <1>1, <1>2 DEF InterruptionIInv, InformerLags, Behind
<1>5. HealthRecorded' /\ EveryTaskCaused' /\ PollSound' /\ MessagesHandled' /\ NoMessageDropped'
  BY <1>1 DEF InterruptionIInv, HealthRecorded, EveryTaskCaused, Caused, Body, nodeRepair, PollSound,
              MessagesHandled, Handled, Removed, NoMessageDropped
<1>6. TasksSound' /\ CountedOnce'
  <2>1. ASSUME NEW a \in Handlers, task[a].pc \in {"annotate", "delete"}
        PROVE  Midway(a)'
    <3>1. Midway(a) /\ task[a].cur[2] \in Instances
      BY SMTT(30), <2>1 DEF InterruptionIInv, TasksSound, WellTyped, Tasks, Pairs, Midway
    <3>2. informer'[task[a].cur[2]].phase # "none"
      BY Zenon, <1>2, <3>1 DEF Midway, InterruptionIInv, InformerLags, Behind
    <3> QED BY Zenon, <1>1, <3>1, <3>2 DEF Midway
  <2> QED BY Zenon, <1>1, <2>1 DEF InterruptionIInv, TasksSound, CountedOnce
<1>7. CountSound'
  BY SMTT(30), <1>1, <1>2 DEF InterruptionIInv, InformerLags, Behind, CountSound, Remembered, OverThreshold, nodeRepair
<1>8. OnlyForCause'
  BY Zenon, <1>1 DEF InterruptionIInv, OnlyForCause, Named, Body, nodeRepair
<1> QED BY Zenon, <1>3, <1>4, <1>5, <1>6, <1>7, <1>8 DEF InterruptionIInv

(* The process restarts with no tasks and no caches, and the informer is up   *)
(* to date.                                                                  *)
LEMMA RestartStep ==
  ASSUME InterruptionIInv, Restart
  PROVE  InterruptionIInv'
<1>1. UNCHANGED <<scenario, claim, health, queue, condition, broken, doomed>>
  BY Zenon DEF Restart
<1>2. /\ task' = [a \in Handlers |-> IdleTask]
      /\ poll' = [pc |-> "idle", currentKeys |-> {}] /\ seen' = {} /\ unavailable' = {}
      /\ node' = IdleNode /\ informer' = claim
      /\ counted' = [k \in Keys |-> 0]
  BY Zenon DEF Restart, InterruptionIInv, WellTyped
<1>3. /\ IdleTask \in Tasks /\ IdleTask.pc = "idle" /\ IdleTask.todo = {}
      /\ node' \in [pc : {"idle", "select", "patch"}, todo : SUBSET Instances,
                    impaired : [Instances -> Checks \cup {"ready"}]]
  BY Zenon, <1>2 DEF IdleTask, Tasks, Claim, Claims, IdleNode
<1>4. /\ task' \in [Handlers -> Tasks] /\ counted' \in [Keys -> Nat]
      /\ poll' \in [pc : {"idle", "run", "stopped"}, currentKeys : SUBSET Keys]
      /\ \A a \in Handlers : task'[a] = IdleTask
  BY Zenon, <1>2, <1>3
<1>5. WellTyped' /\ NodeTyped'
  BY Zenon, <1>1, <1>2, <1>3, <1>4 DEF InterruptionIInv, WellTyped, NodeTyped
<1>6. InformerLags'
  BY Zenon, <1>1, <1>2 DEF InterruptionIInv, InformerLags, Behind
<1>7. HealthRecorded' /\ NoMessageDropped'
  BY Zenon, <1>1 DEF InterruptionIInv, HealthRecorded, NoMessageDropped, Body
<1>8. EveryTaskCaused' /\ MessagesHandled' /\ TasksSound' /\ PollSound'
  BY Zenon, <1>3, <1>4 DEF EveryTaskCaused, MessagesHandled, TasksSound, PollSound, Handlers
<1>9. CountSound' /\ CountedOnce'
  BY <1>2 DEF CountSound, CountedOnce, Keys
<1>10. OnlyForCause'
  BY Zenon, <1>1 DEF InterruptionIInv, OnlyForCause, Named, Body, nodeRepair
<1> QED BY Zenon, <1>5, <1>6, <1>7, <1>8, <1>9, <1>10 DEF InterruptionIInv

(* The condition controller writes the conditions of Nodes only.             *)
LEMMA ConditionStep ==
  ASSUME InterruptionIInv, ConditionController
  PROVE  InterruptionIInv'
<1>1. /\ UNCHANGED <<scenario, claim, informer, health, queue, task, poll, seen, unavailable>>
      /\ UNCHANGED <<broken, doomed, counted>>
  BY Zenon DEF ConditionController, ConditionList, ConditionSelect, ConditionPatch, ConditionEnd,
         external, handlers, history
<1>2. NodeTyped' /\ condition' \in [Instances -> Checks \cup {"unset", "ready"}]
  <2> DEFINE NodeType == [pc : {"idle", "select", "patch"}, todo : SUBSET Instances,
                          impaired : [Instances -> Checks \cup {"ready"}]]
  <2>1. node \in NodeType /\ condition \in [Instances -> Checks \cup {"unset", "ready"}]
    BY Zenon DEF InterruptionIInv, NodeTyped, WellTyped
  <2>2. SUFFICES node' \in NodeType /\ condition' \in [Instances -> Checks \cup {"unset", "ready"}]
    BY Zenon DEF NodeTyped
  <2>3. IdleNode \in NodeType
    BY Zenon DEF IdleNode
  <2>4. CASE ConditionList
    <3>1. [j \in Instances |-> Reason(j)] \in [Instances -> Checks \cup {"ready"}]
      BY Zenon DEF Reason, Checks
    <3> QED BY ZenonT(30), <2>1, <2>3, <2>4, <3>1 DEF ConditionList
  <2>5. CASE ConditionSelect
    BY ZenonT(30), <2>1, <2>5 DEF ConditionSelect
  <2>6. ASSUME NEW i \in Instances, ConditionPatch(i)
        PROVE  node' \in NodeType /\ condition' \in [Instances -> Checks \cup {"unset", "ready"}]
    <3>1. node' \in NodeType
      BY Zenon, <2>1, <2>6 DEF ConditionPatch
    <3>2. condition' = condition \/ condition' = [condition EXCEPT ![i] = node.impaired[i]]
      BY Zenon, <2>6 DEF ConditionPatch
    <3>3. node.impaired[i] \in Checks \cup {"unset", "ready"}
      BY Zenon, <2>1
    <3> QED BY Zenon, <2>1, <3>1, <3>2, <3>3
  <2>7. CASE ConditionEnd
    BY Zenon, <2>1, <2>3, <2>7 DEF ConditionEnd
  <2> QED BY Zenon, <2>4, <2>5, <2>6, <2>7 DEF ConditionController
<1>3. WellTyped'
  BY Zenon, <1>1, <1>2 DEF InterruptionIInv, WellTyped
<1>4. InformerLags' /\ HealthRecorded' /\ EveryTaskCaused' /\ MessagesHandled' /\ NoMessageDropped'
  BY SMTT(30), <1>1 DEF InterruptionIInv, InformerLags, HealthRecorded, EveryTaskCaused, Caused, Body, nodeRepair,
              MessagesHandled, Handled, Removed, NoMessageDropped
<1>5. TasksSound' /\ CountedOnce' /\ PollSound'
  BY Zenon, <1>1 DEF InterruptionIInv, TasksSound, Midway, CountedOnce, PollSound
<1>6. CountSound' /\ OnlyForCause'
  BY Zenon, <1>1 DEF InterruptionIInv, CountSound, Remembered, OverThreshold, OnlyForCause, Named, Body, nodeRepair
<1> QED BY Zenon, <1>2, <1>3, <1>4, <1>5, <1>6 DEF InterruptionIInv

-----------------------------------------------------------------------------
(* The poller.  It hands out what is over the threshold, each with a cause.  *)
LEMMA PollListStep ==
  ASSUME InterruptionIInv, PollList
  PROVE  InterruptionIInv'
<1>1. /\ UNCHANGED <<scenario, claim, informer, health, queue, seen, unavailable, node, condition>>
      /\ UNCHANGED <<broken, doomed, counted>>
      /\ poll.pc = "idle" /\ poll' = [pc |-> "run", currentKeys |-> {}]
  BY ZenonT(30) DEF PollList, external, conditions, history
<1> DEFINE Listing(i) == [IdleTask EXCEPT !.pc = "handle", !.todo = OverThreshold(i) \X {i}]
<1>2. \A i \in Instances : task[i] = IdleTask
  BY Zenon, <1>1 DEF InterruptionIInv, PollSound, TasksSound, Handlers
<1>3. /\ IdleTask \in Tasks /\ IdleTask.pc = "idle" /\ IdleTask.todo = {}
      /\ \A i \in Instances :
           /\ Listing(i) \in Tasks /\ Listing(i).pc = "handle"
           /\ Listing(i).todo = OverThreshold(i) \X {i}
  BY ZenonT(30) DEF IdleTask, Tasks, Claim, Claims, OverThreshold, Pairs
<1>4. \A a \in Handlers :
        task'[a] = IF a \in Instances /\ OverThreshold(a) # {} THEN Listing(a) ELSE task[a]
  BY ZenonT(30) DEF PollList, InterruptionIInv, WellTyped
<1> HIDE DEF Listing
<1>5. task' \in [Handlers -> Tasks]
  <2>1. task \in [Handlers -> Tasks]
    BY Zenon DEF InterruptionIInv, WellTyped
  <2>2. \A a \in Handlers : task'[a] \in Tasks
    BY Zenon, <1>3, <1>4, <2>1
  <2>3. task' = [a \in Handlers |-> task'[a]]
    BY ZenonT(30), <2>1 DEF PollList
  <2> QED BY Zenon, <2>2, <2>3
<1>6. \A i \in Instances :
        /\ task'[i] = IdleTask \/ task'[i].pc = "handle"
        /\ task'[i].todo = OverThreshold(i) \X {i}
  BY Zenon, <1>2, <1>3, <1>4 DEF Handlers
<1>7. \A m \in Messages : task'[m] = task[m]
  BY Zenon, <1>4, ScenarioAssumption DEF Handlers
<1>8. WellTyped' /\ NodeTyped'
  BY Zenon, <1>1, <1>5 DEF InterruptionIInv, WellTyped, NodeTyped
<1>9. InformerLags' /\ HealthRecorded' /\ NoMessageDropped' /\ CountedOnce' /\ PollSound'
  BY Zenon, <1>1 DEF InterruptionIInv, InformerLags, HealthRecorded, NoMessageDropped, Body, CountedOnce, PollSound
<1>10. EveryTaskCaused'
  <2>1. ASSUME NEW i \in Instances, NEW p \in task'[i].todo
        PROVE  Caused(i, p)'
    <3>1. p[2] = i /\ p[1] \in OverThreshold(i)
      BY SMTT(30), <1>6, <2>1
    <3>2. CASE p[1] = "event_status"
      BY Zenon, <1>1, <3>1, <3>2 DEF Caused, OverThreshold, InterruptionIInv, HealthRecorded
    <3>3. CASE p[1] # "event_status"
      BY Zenon, <1>1, <3>1, <3>3 DEF Caused, OverThreshold, InterruptionIInv, HealthRecorded, Categories, nodeRepair
    <3> QED BY Zenon, <3>2, <3>3
  <2>2. ASSUME NEW m \in Messages, NEW p \in task'[m].todo
        PROVE  Caused(m, p)'
    BY Zenon, <1>1, <1>7, <2>2 DEF InterruptionIInv, EveryTaskCaused, Caused, Handlers, Body, nodeRepair
  <2> QED BY Zenon, <2>1, <2>2 DEF EveryTaskCaused, Handlers
<1>11. MessagesHandled'
  BY Zenon, <1>1, <1>7 DEF InterruptionIInv, MessagesHandled, Handled, Removed, Body
<1>12. TasksSound'
  <2>1. ASSUME NEW m \in Messages
        PROVE  /\ task'[m].pc = "idle" => task'[m] = IdleTask
               /\ task'[m].pc \in {"annotate", "delete"} => Midway(m)'
    BY ZenonT(30), <1>1, <1>7 DEF InterruptionIInv, TasksSound, Midway, Handlers
  <2>2. ASSUME NEW i \in Instances
        PROVE  /\ task'[i].pc = "idle" => task'[i] = IdleTask
               /\ task'[i].pc \notin {"annotate", "delete"}
    BY Zenon, <1>3, <1>6
  <2> QED BY Zenon, <2>1, <2>2 DEF TasksSound, Handlers
<1>13. CountSound'
  <2> SUFFICES ASSUME NEW i \in Instances, NEW c \in Categories, counted[<<i, c>>] # 0
               PROVE  informer[i].phase # "none" /\ Remembered(i, c)'
    BY Zenon, <1>1 DEF CountSound
  <2>1. informer[i].phase # "none" /\ Remembered(i, c)
    BY Zenon DEF InterruptionIInv, CountSound
  <2>2. poll.currentKeys \subseteq seen
    BY Zenon DEF InterruptionIInv, WellTyped
  <2>3. OverThreshold(i)' = OverThreshold(i)
    BY Zenon, <1>1 DEF OverThreshold, nodeRepair
  <2>4. <<c, i>> \in task'[i].todo <=> c \in OverThreshold(i)
    BY <1>6
  <2> QED BY Zenon, <1>1, <2>1, <2>2, <2>3, <2>4 DEF Remembered
<1>14. OnlyForCause'
  BY Zenon, <1>1 DEF InterruptionIInv, OnlyForCause, Named, Body, nodeRepair
<1> QED BY Zenon, <1>8, <1>9, <1>10, <1>11, <1>12, <1>13, <1>14 DEF InterruptionIInv

(* The poller stops, or forgets the keys it did not meet in this pass.       *)
LEMMA PollEndStep ==
  ASSUME InterruptionIInv, PollUnauthorized \/ Prune
  PROVE  InterruptionIInv'
<1>1. /\ UNCHANGED <<scenario, claim, informer, health, queue, task, unavailable, node, condition>>
      /\ UNCHANGED <<broken, doomed, counted>>
  BY Zenon DEF PollUnauthorized, Prune, external, conditions, history
<1>2. poll \in [pc : {"idle", "run", "stopped"}, currentKeys : SUBSET Keys] /\ seen \subseteq Keys
      /\ poll.currentKeys \subseteq seen
  BY Zenon DEF InterruptionIInv, WellTyped
<1>3. /\ poll' \in [pc : {"idle", "run", "stopped"}, currentKeys : SUBSET Keys]
      /\ poll'.pc # "run" /\ seen' \subseteq seen /\ poll'.currentKeys \subseteq seen'
  BY <1>2 DEF PollUnauthorized, Prune
<1>4. \A i \in Instances : task[i].pc = "idle" /\ task[i].todo = {}
  BY DEF PollUnauthorized, Prune, InterruptionIInv, PollSound, TasksSound, IdleTask, Handlers
<1>5. WellTyped' /\ NodeTyped'
  BY Zenon, <1>1, <1>2, <1>3 DEF InterruptionIInv, WellTyped, NodeTyped
<1>6. InformerLags' /\ HealthRecorded' /\ EveryTaskCaused' /\ MessagesHandled' /\ NoMessageDropped'
  BY SMTT(30), <1>1 DEF InterruptionIInv, InformerLags, HealthRecorded, EveryTaskCaused, Caused, Body, nodeRepair,
              MessagesHandled, Handled, Removed, NoMessageDropped
<1>7. TasksSound' /\ CountedOnce' /\ PollSound'
  <2>1. ASSUME NEW a \in Handlers, task[a].pc \in {"annotate", "delete"}
        PROVE  Midway(a)'
    <3>1. a \notin Instances /\ Midway(a)
      BY Zenon, <1>4, <2>1 DEF InterruptionIInv, TasksSound
    <3> QED BY ZenonT(30), <1>1, <3>1 DEF Midway
  <2> QED BY ZenonT(30), <1>1, <1>4, <2>1 DEF InterruptionIInv, TasksSound, CountedOnce, PollSound
<1>8. CountSound'
  <2> SUFFICES ASSUME NEW i \in Instances, NEW c \in Categories, counted[<<i, c>>] # 0
               PROVE  informer[i].phase # "none" /\ Remembered(i, c)'
    BY Zenon, <1>1 DEF CountSound
  <2>1. informer[i].phase # "none" /\ Remembered(i, c)
    BY Zenon DEF InterruptionIInv, CountSound
  <2>2. OverThreshold(i)' = OverThreshold(i)
    BY Zenon, <1>1 DEF OverThreshold, nodeRepair
  <2>3. CASE PollUnauthorized
    BY Zenon, <1>1, <1>2, <2>1, <2>2, <2>3 DEF Remembered, PollUnauthorized
  <2>4. CASE Prune
    BY Zenon, <1>1, <1>2, <1>3, <1>4, <2>1, <2>2, <2>4 DEF Remembered, Prune
  <2> QED BY Zenon, <2>3, <2>4
<1>9. OnlyForCause'
  BY ZenonT(30), <1>1 DEF InterruptionIInv, OnlyForCause, Named, Body, nodeRepair
<1> QED BY Zenon, <1>5, <1>6, <1>7, <1>8, <1>9 DEF InterruptionIInv

-----------------------------------------------------------------------------
(* The handlers.  A call of a handler leaves this alone, or moves it on.     *)
CallFrame ==
  /\ UNCHANGED <<scenario, informer, health, queue, node, condition, broken, doomed>>
  /\ claim' \in [Instances -> Claims]
  /\ \A j \in Instances : Behind(claim[j], claim'[j])
  /\ unavailable \subseteq unavailable' /\ unavailable' \subseteq Instances

(* What holds after any call, whatever becomes of the task.                  *)
LEMMA CallKeeps ==
  ASSUME InterruptionIInv, CallFrame
  PROVE  /\ NodeTyped' /\ InformerLags' /\ HealthRecorded' /\ NoMessageDropped'
         /\ \A i \in Instances : Removed(i) => Removed(i)'
<1>1. NodeTyped' /\ HealthRecorded'
  BY Zenon DEF CallFrame, InterruptionIInv, NodeTyped, HealthRecorded
<1>2. InformerLags'
  BY Zenon, BehindTransitive DEF CallFrame, InterruptionIInv, InformerLags
<1>3. \A i \in Instances : Removed(i) => Removed(i)'
  BY Zenon DEF CallFrame, Removed, Behind
<1>4. NoMessageDropped'
  BY Zenon, <1>3, ScenarioAssumption DEF CallFrame, InterruptionIInv, WellTyped, NoMessageDropped, Removed, Body
<1> QED BY Zenon, <1>1, <1>2, <1>3, <1>4

(* A call of one handler does not disturb another one.                       *)
LEMMA OtherMidway ==
  ASSUME InterruptionIInv, CallFrame, NEW b \in Handlers, task[b].pc \in {"annotate", "delete"},
         task'[b] = task[b],
         b \in Instances => <<b, task[b].cur[1]>> \in seen' \/ counted'[<<b, task[b].cur[1]>>] = 0
  PROVE  Midway(b)'
<1>1. Midway(b)
  BY Zenon DEF InterruptionIInv, TasksSound
<1>2. task[b].cur[2] \in Instances /\ task[b].obj \in Claims
  BY Zenon, <1>1 DEF Midway, InterruptionIInv, WellTyped, Tasks, Pairs
<1>3. Behind(task[b].obj, claim'[task[b].cur[2]])
  BY ZenonT(30), <1>1, <1>2, BehindTransitive DEF Midway, CallFrame
<1>4. /\ MarksOffering(task[b].cur[1]) => task[b].cur[2] \in unavailable'
      /\ informer'[task[b].cur[2]].phase # "none"
  BY ZenonT(30), <1>1 DEF Midway, CallFrame
<1> QED BY Zenon, <1>1, <1>3, <1>4 DEF Midway

(* A handler that goes on to its next call for the same pair.                *)
LEMMA NextCallStep ==
  ASSUME InterruptionIInv, CallFrame, OnlyForCause',
         NEW a \in Handlers, NEW p \in task[a].todo, NEW o \in Claims, NEW next \in {"annotate", "delete"},
         task' = [task EXCEPT ![a].pc = next, ![a].cur = p, ![a].obj = o],
         UNCHANGED <<poll, seen, counted>>, task[a].pc # "idle",
         o.phase \in {"live", "deleting"}, Behind(o, claim'[p[2]]),
         next = "annotate" => p[1] \in Checks,
         next = "delete" => o.phase = "live",
         actionForMessage(p[1]) # "NoAction",
         MarksOffering(p[1]) => p[2] \in unavailable',
         informer[p[2]].phase # "none",
         a \in Instances => <<a, p[1]>> \in seen \/ counted[<<a, p[1]>>] = 0
  PROVE  InterruptionIInv'
<1>1. task \in [Handlers -> Tasks] /\ p \in Pairs
  BY Zenon DEF InterruptionIInv, WellTyped, Tasks
<1>2. /\ task' \in [Handlers -> Tasks]
      /\ \A b \in Handlers : b # a => task'[b] = task[b]
      /\ task'[a].pc = next /\ task'[a].cur = p /\ task'[a].obj = o
      /\ task'[a].todo = task[a].todo /\ task'[a].err = task[a].err
  BY ZenonT(30), <1>1 DEF Tasks
<1>3. WellTyped'
  BY Zenon, <1>2 DEF CallFrame, InterruptionIInv, WellTyped
<1>4. EveryTaskCaused'
  BY <1>2 DEF CallFrame, InterruptionIInv, EveryTaskCaused, Caused, Body, nodeRepair
<1>5. MessagesHandled'
  <2> SUFFICES ASSUME NEW m \in Messages, task'[m].pc # "idle"
               PROVE  /\ queue[m] = "hidden"
                      /\ ~task'[m].err /\ actionForMessage(Parse(Body(m))) # "NoAction" => Handled(m)'
    BY ZenonT(30) DEF MessagesHandled, CallFrame, Body
  <2>1. /\ task[m].pc # "idle"
        /\ task'[m].todo = task[m].todo /\ task'[m].err = task[m].err
    BY Zenon, <1>2 DEF Handlers
  <2>2. Body(m)' = Body(m) /\ Body(m).ids \subseteq Instances
    BY Zenon, ScenarioAssumption DEF CallFrame, Body, InterruptionIInv, WellTyped
  <2>3. Handled(m) => Handled(m)'
    BY Zenon, <2>1, <2>2, CallKeeps DEF Handled
  <2> QED BY Zenon, <2>1, <2>3 DEF InterruptionIInv, MessagesHandled
<1>6. TasksSound'
  <2> SUFFICES ASSUME NEW b \in Handlers
               PROVE  /\ task'[b].pc = "idle" => task'[b] = IdleTask
                      /\ task'[b].pc \in {"annotate", "delete"} => Midway(b)'
    BY ZenonT(30) DEF TasksSound
  <2>1. CASE b = a
    BY <1>2, <2>1 DEF Midway, CallFrame
  <2>2. CASE b # a
    <3>1. task'[b] = task[b]
      BY Zenon, <1>2, <2>2
    <3>2. task[b].pc \in {"annotate", "delete"} => Midway(b)'
      BY ZenonT(30), <3>1, OtherMidway DEF InterruptionIInv, TasksSound, Midway
    <3> QED BY ZenonT(30), <3>1, <3>2 DEF InterruptionIInv, TasksSound
  <2> QED BY Zenon, <2>1, <2>2
<1>7. PollSound'
  BY Zenon, <1>2 DEF InterruptionIInv, PollSound, Handlers
<1>8. CountSound' /\ CountedOnce'
  BY SMTT(30), <1>2 DEF CallFrame, InterruptionIInv, CountSound, Remembered, OverThreshold, nodeRepair, CountedOnce, Handlers
<1> QED BY Zenon, <1>3, <1>4, <1>5, <1>6, <1>7, <1>8, CallKeeps DEF InterruptionIInv

Done(pc, todo, err) == [pc |-> pc, todo |-> todo, cur |-> <<>>, obj |-> Claim("none"), err |-> err]

(* A handler that is done with a pair: a message may only forget an instance  *)
(* that is being removed, and the poller counts a key it remembers.           *)
LEMMA FinishStep ==
  ASSUME InterruptionIInv, CallFrame, OnlyForCause',
         NEW a \in Handlers, NEW p \in task[a].todo, NEW found \in BOOLEAN, NEW err \in BOOLEAN,
         Finish(a, p, found, err), task[a].pc # "idle",
         a \in Messages /\ ~err /\ actionForMessage(p[1]) # "NoAction" /\ p[2] \notin Unlaunched
           => claim'[p[2]].phase \in {"deleting", "gone"},
         a \in Instances /\ ~err /\ found => <<a, p[1]>> \in seen \/ counted[<<a, p[1]>>] = 0,
         a \in Instances /\ found /\ ~err => informer[a].phase # "none",
         a \in Instances /\ ~found /\ ~err => informer[a].phase \in {"none", "gone"}
  PROVE  InterruptionIInv'
<1> DEFINE left == IF err /\ a \in Instances THEN {} ELSE task[a].todo \ {p}
           pc == IF a \in Instances /\ left = {} THEN "idle" ELSE "handle"
           failed == a \in Messages /\ (task[a].err \/ err)
           done == Done(pc, left, failed)
<1>1. task \in [Handlers -> Tasks] /\ p \in Pairs /\ task[a].todo \subseteq Pairs /\ task[a].err \in BOOLEAN
  BY Zenon DEF InterruptionIInv, WellTyped, Tasks
<1>2. task'[a] = done /\ DOMAIN task' = Handlers /\ \A b \in Handlers : b # a => task'[b] = task[b]
  <2>1. task'[a] = [IdleTask EXCEPT !.pc = pc, !.todo = left, !.err = failed]
    BY Zenon, <1>1 DEF Finish
  <2>2. DOMAIN task' = Handlers /\ \A b \in Handlers : b # a => task'[b] = task[b]
    BY Zenon, <1>1 DEF Finish
  <2> HIDE DEF pc, left, failed
  <2>3. task'[a] = done
    BY ZenonT(30), <2>1 DEF IdleTask, Done
  <2> QED BY Zenon, <2>2, <2>3
<1>3. /\ left \in SUBSET Pairs /\ left \subseteq task[a].todo
      /\ ~(err /\ a \in Instances) => left = task[a].todo \ {p}
      /\ pc \in {"idle", "handle"} /\ (pc = "idle" <=> a \in Instances /\ left = {})
      /\ failed \in BOOLEAN
      /\ a \in Instances => failed = FALSE
      /\ a \in Messages /\ ~failed => ~task[a].err /\ ~err
  <2>1. left \in SUBSET Pairs /\ left \subseteq task[a].todo /\ (~(err /\ a \in Instances) => left = task[a].todo \ {p})
    BY Zenon, <1>1
  <2>2. a \in Instances => failed = FALSE
    BY ScenarioAssumption, Zenon
  <2>3. failed \in BOOLEAN /\ (a \in Messages /\ ~failed => ~task[a].err /\ ~err)
    BY Zenon
  <2> HIDE DEF left
  <2>4. pc \in {"idle", "handle"} /\ (pc = "idle" <=> a \in Instances /\ left = {})
    BY Zenon
  <2> QED BY Zenon, <2>1, <2>2, <2>3, <2>4
<1> HIDE DEF left, pc, failed
<1>4. /\ done \in Tasks /\ done.pc = pc /\ done.todo = left /\ done.err = failed
      /\ pc = "idle" => done = IdleTask
  <2>1. pc = "idle" => left = {} /\ failed = FALSE
    BY Zenon, <1>3
  <2>2. pc \in {"idle", "handle"} /\ left \in SUBSET Pairs /\ failed \in BOOLEAN
    BY Zenon, <1>3
  <2>3. Claim("none") \in Claims
    BY Zenon DEF Claim, Claims
  <2>4. CASE failed = TRUE
    BY ZenonT(30), <2>1, <2>2, <2>3, <2>4 DEF Done, Tasks
  <2>5. CASE failed = FALSE
    BY ZenonT(30), <2>1, <2>2, <2>3, <2>5 DEF Done, Tasks, IdleTask
  <2> QED BY ZenonT(30), <2>2, <2>4, <2>5
<1> HIDE DEF done
<1>5. /\ task' \in [Handlers -> Tasks] /\ task'[a] = done
      /\ \A b \in Handlers : b # a => task'[b] = task[b]
  <2>1. \A b \in Handlers : task'[b] \in Tasks
    BY Zenon, <1>1, <1>2, <1>4
  <2>2. task' = [b \in Handlers |-> task'[b]]
    BY ZenonT(30), <1>1 DEF Finish
  <2> QED BY Zenon, <1>2, <2>1, <2>2
<1>6. /\ poll' \in [pc : {"idle", "run", "stopped"}, currentKeys : SUBSET Keys] /\ poll'.pc = poll.pc
      /\ seen' \subseteq Keys /\ seen \subseteq seen'
      /\ poll.currentKeys \subseteq poll'.currentKeys /\ poll'.currentKeys \subseteq seen'
      /\ counted' \in [Keys -> Nat]
      /\ \A i \in Instances, c \in Categories :
           \/ counted'[<<i, c>>] = 0
           \/ /\ counted'[<<i, c>>] = counted[<<i, c>>]
              /\ ~(a = i /\ err)
              /\ a = i /\ p[1] = c => ~found \/ <<i, c>> \in poll'.currentKeys
           \/ /\ a = i /\ p[1] = c /\ found /\ ~err
              /\ <<i, c>> \notin seen /\ <<i, c>> \in poll'.currentKeys
              /\ counted'[<<i, c>>] = counted[<<i, c>>] + 1
  <2>1. /\ poll \in [pc : {"idle", "run", "stopped"}, currentKeys : SUBSET Keys]
        /\ seen \subseteq Keys /\ poll.currentKeys \subseteq seen /\ counted \in [Keys -> Nat]
        /\ \A k \in Keys : k[1] \in Instances /\ k[2] \in Categories
        /\ \A i \in Instances, c \in Categories : <<i, c>> \in Keys
        /\ \A i \in Instances, c \in Categories, j \in Instances, d \in Categories :
             <<i, c>> = <<j, d>> <=> i = j /\ c = d
    BY Zenon DEF InterruptionIInv, WellTyped, Keys
  <2>2. CASE a \in Instances /\ found /\ ~err
    <3> DEFINE k == <<a, p[1]>>
    <3>1. p[1] \in Categories /\ k \in Keys
      BY ZenonT(30), <2>1, <2>2, ScenarioAssumption DEF InterruptionIInv, EveryTaskCaused, Caused, Categories
    <3>2. /\ poll' = [poll EXCEPT !.currentKeys = @ \cup {k}]
          /\ seen' = seen \cup {k}
          /\ counted' = IF k \in seen THEN counted ELSE [counted EXCEPT ![k] = @ + 1]
      BY Zenon, <2>2 DEF Finish, recordUnhealthyInstance
    <3>3. \A i \in Instances, c \in Categories : <<i, c>> = k <=> a = i /\ p[1] = c
      BY Zenon, <2>1, <2>2, <3>1
    <3> HIDE DEF k
    <3>4. /\ poll'.pc = poll.pc /\ poll'.currentKeys = poll.currentKeys \cup {k}
          /\ poll' \in [pc : {"idle", "run", "stopped"}, currentKeys : SUBSET Keys]
      BY <2>1, <3>1, <3>2
    <3>5. counted' \in [Keys -> Nat] /\ counted'[k] = IF k \in seen THEN counted[k] ELSE counted[k] + 1
      BY <2>1, <3>1, <3>2
    <3>6. \A j \in Keys : j # k => counted'[j] = counted[j]
      BY Zenon, <2>1, <3>2
    <3> QED BY <2>1, <2>2, <3>1, <3>2, <3>3, <3>4, <3>5, <3>6
  <2>3. CASE ~(a \in Instances /\ found /\ ~err)
    <3>1. /\ UNCHANGED <<poll, seen>>
          /\ counted' = IF err THEN [k \in Keys |-> IF k[1] = a THEN 0 ELSE counted[k]] ELSE counted
      BY <2>3, Zenon DEF Finish
    <3>2. CASE err
      BY Zenon, <2>1, <3>1, <3>2
    <3>3. CASE ~err
      BY Zenon, <2>1, <2>3, <3>1, <3>3
    <3> QED BY Zenon, <3>2, <3>3
  <2> QED BY ZenonT(30), <2>2, <2>3
<1>8. WellTyped'
  BY ZenonT(30), <1>5, <1>6 DEF CallFrame, InterruptionIInv, WellTyped
<1>9. EveryTaskCaused'
  BY SMTT(30), <1>3, <1>4, <1>5 DEF CallFrame, InterruptionIInv, EveryTaskCaused, Caused, Body, nodeRepair
<1>10. MessagesHandled'
  <2> SUFFICES ASSUME NEW m \in Messages, task'[m].pc # "idle"
               PROVE  /\ queue[m] = "hidden"
                      /\ ~task'[m].err /\ actionForMessage(Parse(Body(m))) # "NoAction" => Handled(m)'
    BY Zenon DEF MessagesHandled, CallFrame, Body
  <2>1. Body(m)' = Body(m) /\ Body(m).ids \subseteq Instances
    BY ZenonT(30), ScenarioAssumption DEF CallFrame, Body, InterruptionIInv, WellTyped
  <2>2. CASE m # a
    <3>1. task'[m] = task[m]
      BY Zenon, <1>5, <2>2 DEF Handlers
    <3>2. Handled(m) => Handled(m)'
      BY Zenon, <2>1, <3>1, CallKeeps DEF Handled
    <3> QED BY ZenonT(30), <3>1, <3>2 DEF InterruptionIInv, MessagesHandled
  <2>3. CASE m = a
    <3>1. queue[a] = "hidden" /\ p[1] = Parse(Body(a)) /\ a \notin Instances
      BY Zenon, <2>3, ScenarioAssumption DEF InterruptionIInv, EveryTaskCaused, Caused
    <3>2. ASSUME ~task'[a].err, actionForMessage(Parse(Body(a))) # "NoAction"
          PROVE  Handled(a)'
      <4>1. ~task[a].err /\ ~err /\ task'[a].todo = task[a].todo \ {p}
        BY Zenon, <1>3, <1>4, <1>5, <2>3, <3>1, <3>2
      <4>2. Handled(a)
        BY Zenon, <2>3, <3>2, <4>1 DEF InterruptionIInv, MessagesHandled
      <4>3. p[2] \notin Unlaunched => Removed(p[2])'
        BY Zenon, <2>3, <3>1, <3>2, <4>1 DEF Removed
      <4>4. p = <<p[1], p[2]>>
        BY <1>1 DEF Pairs
      <4>5. \A i \in Body(a).ids \ Unlaunched : <<Parse(Body(a)), i>> # p \/ i = p[2]
        BY <4>4
      <4> QED BY Zenon, <2>1, <2>3, <4>1, <4>2, <4>3, <4>5, CallKeeps DEF Handled
    <3> QED BY ZenonT(30), <2>3, <3>1, <3>2
  <2> QED BY Zenon, <2>2, <2>3
<1>11. TasksSound'
  <2> SUFFICES ASSUME NEW b \in Handlers
               PROVE  /\ task'[b].pc = "idle" => task'[b] = IdleTask
                      /\ task'[b].pc \in {"annotate", "delete"} => Midway(b)'
    BY Zenon DEF TasksSound
  <2>1. CASE b = a
    BY Zenon, <1>3, <1>4, <1>5, <2>1
  <2>2. CASE b # a
    <3>1. task'[b] = task[b]
      BY Zenon, <1>5, <2>2
    <3>2. ASSUME task[b].pc \in {"annotate", "delete"} PROVE Midway(b)'
      <4>1. Midway(b)
        BY ZenonT(30), <3>2 DEF InterruptionIInv, TasksSound
      <4>2. b \in Instances => task[b].cur[1] \in Categories
        BY ZenonT(30), <4>1, ScenarioAssumption DEF Midway, InterruptionIInv, EveryTaskCaused, Caused, Categories
      <4>3. b \in Instances => <<b, task[b].cur[1]>> \in seen' \/ counted'[<<b, task[b].cur[1]>>] = 0
        BY ZenonT(30), <1>6, <2>2, <4>1, <4>2 DEF Midway
      <4> QED BY ZenonT(30), <3>1, <3>2, <4>3, OtherMidway
    <3> QED BY Zenon, <3>1, <3>2 DEF InterruptionIInv, TasksSound
  <2> QED BY Zenon, <2>1, <2>2
<1>12. PollSound'
  BY Zenon, <1>5, <1>6 DEF InterruptionIInv, PollSound, Handlers
<1>13. CountSound'
  <2> SUFFICES ASSUME NEW i \in Instances, NEW c \in Categories, counted'[<<i, c>>] # 0
               PROVE  informer[i].phase # "none" /\ Remembered(i, c)'
    BY Zenon DEF CountSound, CallFrame
  <2>1. OverThreshold(i)' = OverThreshold(i) /\ informer' = informer
    BY Zenon DEF OverThreshold, nodeRepair, CallFrame
  <2>2. CASE a = i /\ p[1] = c /\ found /\ ~err
    <3>1. <<i, c>> \in poll'.currentKeys
      BY ZenonT(30), <1>6, <2>2
    <3> QED BY Zenon, <2>2, <3>1 DEF Remembered
  <2>3. CASE ~(a = i /\ p[1] = c /\ found /\ ~err)
    <3>1. counted[<<i, c>>] # 0 /\ ~(a = i /\ err)
      BY ZenonT(30), <1>6, <2>3
    <3>2. informer[i].phase # "none" /\ Remembered(i, c)
      BY ZenonT(30), <3>1 DEF InterruptionIInv, CountSound
    <3>3. CASE a = i
      <4>1. task'[i].todo = task[i].todo \ {p}
        BY Zenon, <1>3, <1>4, <1>5, <3>1, <3>3
      <4>2. CASE p[1] = c
        BY Zenon, <2>1, <2>3, <3>1, <3>2, <3>3, <4>2 DEF Remembered
      <4>3. CASE p[1] # c
        <5>1. <<c, i>> \in task'[i].todo <=> <<c, i>> \in task[i].todo
          BY <4>1, <4>3
        <5> QED BY Zenon, <1>6, <2>1, <3>2, <5>1 DEF Remembered
      <4> QED BY ZenonT(30), <4>2, <4>3
    <3>4. CASE a # i
      BY ZenonT(30), <1>5, <1>6, <2>1, <3>2, <3>4 DEF Remembered, Handlers
    <3> QED BY ZenonT(30), <3>3, <3>4
  <2> QED BY Zenon, <2>2, <2>3
<1>14. CountedOnce'
  <2> SUFFICES ASSUME NEW k \in Keys
               PROVE  counted'[k] <= 1
    BY Zenon DEF CountedOnce
  <2>1. counted[k] \in Nat /\ counted[k] <= 1
    BY ZenonT(30) DEF InterruptionIInv, WellTyped, CountedOnce
  <2>2. PICK i \in Instances, c \in Categories : k = <<i, c>>
    BY SMTT(30) DEF Keys
  <2>3. CASE counted'[k] = 0 \/ counted'[k] = counted[k]
    BY SMTT(30), <2>1, <2>3
  <2>4. CASE /\ a = i /\ p[1] = c /\ found /\ ~err /\ <<i, c>> \notin seen
             /\ counted'[k] = counted[k] + 1
    <3>1. counted[k] = 0
      BY Zenon, <2>2, <2>4
    <3> QED BY <2>4, <3>1
  <2> QED BY Zenon, <1>6, <2>2, <2>3, <2>4
<1> QED BY Zenon, <1>8, <1>9, <1>10, <1>11, <1>12, <1>13, <1>14, CallKeeps DEF InterruptionIInv

(* A pair a handler may count: it is remembered or was never counted.        *)
LEMMA Countable ==
  ASSUME InterruptionIInv, NEW a \in Instances, NEW p \in task[a].todo, Listed(informer[p[2]])
  PROVE  <<a, p[1]>> \in seen \/ counted[<<a, p[1]>>] = 0
<1>1. p[2] = a /\ p[1] \in Categories /\ p = <<p[1], a>>
  <2>1. Caused(a, p) /\ p \in Pairs
    BY Zenon DEF InterruptionIInv, EveryTaskCaused, Handlers, WellTyped, Tasks
  <2> QED BY <2>1, ScenarioAssumption DEF Caused, Categories, Pairs
<1>2. counted[<<a, p[1]>>] # 0 => Remembered(a, p[1])
  BY Zenon, <1>1 DEF InterruptionIInv, CountSound
<1>3. <<p[1], a>> \in task[a].todo /\ informer[a].phase # "gone" /\ poll.currentKeys \subseteq seen
  BY Zenon, <1>1 DEF Listed, InterruptionIInv, WellTyped
<1> QED BY Zenon, <1>2, <1>3 DEF Remembered

LEMMA HandleMessageStep ==
  ASSUME InterruptionIInv, NEW a \in Handlers, NEW p \in task[a].todo, handleMessage(a, p)
  PROVE  InterruptionIInv'
<1> DEFINE o == informer[p[2]]
           action == actionForMessage(p[1])
<1>1. /\ task[a].pc = "handle"
      /\ unavailable' = IF Listed(o) /\ MarksOffering(p[1]) THEN unavailable \cup {p[2]} ELSE unavailable
      /\ IF ~Listed(o) \/ action = "NoAction"
         THEN Finish(a, p, Listed(o), FALSE)
         ELSE Advance(a, p, o, action = "ForcefulTermination" /\ ~o.forced)
      /\ UNCHANGED <<scenario, claim, informer, health, queue, node, condition, broken, doomed>>
  BY ZenonT(30) DEF handleMessage, external, conditions
<1>2. /\ p \in Pairs /\ p[1] \in MessageKinds \cup Categories /\ p[2] \in Instances
      /\ claim \in [Instances -> Claims] /\ informer \in [Instances -> Claims] /\ unavailable \subseteq Instances
  BY SMTT(30) DEF InterruptionIInv, WellTyped, Tasks, Pairs
<1>3. /\ o \in Claims /\ Behind(o, claim[p[2]]) /\ (p[2] \notin Unlaunched => o.phase # "none")
  BY Zenon, <1>2 DEF InterruptionIInv, InformerLags
<1>4. CallFrame
  BY ZenonT(30), <1>1, <1>2 DEF CallFrame, Behind
<1>5. OnlyForCause'
  BY ZenonT(30), <1>1 DEF InterruptionIInv, OnlyForCause, Named, Body, nodeRepair
<1>6. Listed(o) => o.phase \in {"live", "deleting"}
  BY Zenon DEF Listed
<1>7. ~Listed(o) => o.phase \in {"none", "gone"}
  BY Zenon, <1>3 DEF Listed, Claims
<1>8. a \in Instances => p[2] = a
  BY Zenon, ScenarioAssumption DEF InterruptionIInv, EveryTaskCaused, Caused
<1>9. a \in Instances /\ Listed(o) => <<a, p[1]>> \in seen \/ counted[<<a, p[1]>>] = 0
  BY Zenon, Countable
<1>10. ASSUME NEW found \in BOOLEAN, Finish(a, p, found, FALSE), found <=> Listed(o),
              actionForMessage(p[1]) # "NoAction" => o.phase # "live"
       PROVE  InterruptionIInv'
  <2>1. a \in Messages /\ actionForMessage(p[1]) # "NoAction" /\ p[2] \notin Unlaunched
          => claim'[p[2]].phase \in {"deleting", "gone"}
    BY ZenonT(30), <1>1, <1>3, <1>6, <1>7, <1>10 DEF Behind
  <2>2. a \in Instances /\ found => <<a, p[1]>> \in seen \/ counted[<<a, p[1]>>] = 0
    BY Zenon, <1>9, <1>10
  <2>3. a \in Instances /\ found => informer[a].phase # "none"
    BY ZenonT(30), <1>6, <1>8, <1>10
  <2>4. a \in Instances /\ ~found => informer[a].phase \in {"none", "gone"}
    BY Zenon, <1>7, <1>8, <1>10
  <2>5. task[a].pc # "idle"
    BY ZenonT(30), <1>1
  <2> QED BY ZenonT(30), <1>4, <1>5, <1>10, <2>1, <2>2, <2>3, <2>4, <2>5, FinishStep
<1>11. CASE ~Listed(o) \/ action = "NoAction"
  <2>1. Listed(o) \in BOOLEAN
    BY DEF Listed
  <2>3. Finish(a, p, Listed(o), FALSE)
    <3> HIDE DEF o, action
    <3> QED BY ZenonT(30), <1>1, <1>11
  <2>2. actionForMessage(p[1]) # "NoAction" => o.phase # "live"
    BY Zenon, <1>11 DEF Listed
  <2> QED BY ZenonT(30), <1>10, <2>1, <2>2, <2>3
<1>12. CASE Listed(o) /\ action # "NoAction"
  <2> DEFINE annotate == action = "ForcefulTermination" /\ ~o.forced
  <2>1. Advance(a, p, o, annotate) /\ annotate \in BOOLEAN
    BY ZenonT(30), <1>1, <1>12
  <2>2. annotate => p[1] \in Checks
    BY ZenonT(30), <1>2, PollerKinds
  <2>3. MarksOffering(p[1]) => p[2] \in unavailable'
    BY ZenonT(30), <1>1, <1>12
  <2> HIDE DEF annotate
  <2>4. CASE annotate \/ o.phase = "live"
    <3> DEFINE next == IF annotate THEN "annotate" ELSE "delete"
    <3>1. /\ task' = [task EXCEPT ![a].pc = next, ![a].cur = p, ![a].obj = o]
          /\ UNCHANGED <<poll, seen, counted>>
      BY ZenonT(30), <2>1, <2>4 DEF Advance
    <3>2. /\ next \in {"annotate", "delete"}
          /\ next = "annotate" => p[1] \in Checks
          /\ next = "delete" => o.phase = "live"
      BY Zenon, <2>2, <2>4
    <3>3. Behind(o, claim'[p[2]]) /\ informer[p[2]].phase # "none" /\ task[a].pc # "idle"
      BY ZenonT(30), <1>1, <1>3, <1>6, <1>12
    <3> HIDE DEF next
    <3> QED BY ZenonT(30), <1>3, <1>4, <1>5, <1>6, <1>9, <1>12, <2>3, <3>1, <3>2, <3>3, NextCallStep
  <2>5. CASE ~(annotate \/ o.phase = "live")
    <3>1. Finish(a, p, TRUE, FALSE)
      BY ZenonT(30), <2>1, <2>5 DEF Advance
    <3> QED BY ZenonT(30), <1>10, <1>12, <2>5, <3>1
  <2> QED BY Zenon, <2>4, <2>5
<1> QED BY Zenon, <1>11, <1>12

(* The patch of the annotation: only the poller gets here, for a failed check. *)
LEMMA AnnotateStep ==
  ASSUME InterruptionIInv, NEW a \in Handlers, annotateTerminationTimestamp(a)
  PROVE  InterruptionIInv'
<1> DEFINE p == task[a].cur
           i == p[2]
           new == [claim[i] EXCEPT !.forced = TRUE]
           obj == IF Listed(claim[i]) THEN new ELSE task[a].obj
<1>1. /\ task[a].pc = "annotate"
      /\ claim' = IF Listed(claim[i]) THEN [claim EXCEPT ![i] = new] ELSE claim
      /\ Advance(a, p, obj, FALSE)
      /\ UNCHANGED <<scenario, informer, health, queue, unavailable, node, condition, broken, doomed>>
  BY ZenonT(30) DEF annotateTerminationTimestamp, conditions
<1>2. Midway(a)
  BY Zenon, <1>1 DEF InterruptionIInv, TasksSound
<1>3. /\ p \in task[a].todo /\ p \in Pairs /\ i \in Instances /\ task[a].obj \in Claims
      /\ claim \in [Instances -> Claims] /\ unavailable \subseteq Instances
  BY <1>2 DEF Midway, InterruptionIInv, WellTyped, Tasks, Pairs
<1>4. p[1] \in Checks
  BY Zenon, <1>1, <1>2 DEF Midway
<1>5. i \in broken /\ ~nodeRepair
  <2>1. Caused(a, p)
    BY Zenon, <1>3 DEF InterruptionIInv, EveryTaskCaused
  <2>2. ~(a \in Messages /\ p[1] = Parse(Body(a)))
    BY Zenon, <1>4, Parsing, PollerKinds DEF Categories
  <2> QED BY ZenonT(30), <1>4, <2>1, <2>2 DEF Caused, Checks
<1>6. new \in Claims /\ new.phase = claim[i].phase
  BY ZenonT(30), <1>3 DEF Claims
<1> HIDE DEF new
<1>7. /\ claim' \in [Instances -> Claims]
      /\ \A j \in Instances : claim'[j].phase = claim[j].phase /\ (claim'[j].forced => j = i \/ claim[j].forced)
  <2>1. CASE Listed(claim[i])
    BY ZenonT(30), <1>1, <1>3, <1>6, <2>1
  <2>2. CASE ~Listed(claim[i])
    BY ZenonT(30), <1>1, <1>3, <2>2
  <2> QED BY Zenon, <2>1, <2>2
<1>8. CallFrame
  BY ZenonT(30), <1>1, <1>3, <1>7 DEF CallFrame, Behind
<1>9. OnlyForCause'
  BY ZenonT(30), <1>1, <1>5, <1>7 DEF InterruptionIInv, OnlyForCause, Named, Body, nodeRepair
<1>10. /\ obj \in Claims /\ obj.phase \in {"live", "deleting"} /\ Behind(obj, claim'[i])
  <2>1. CASE Listed(claim[i])
    BY ZenonT(30), <1>3, <1>6, <1>7, <2>1 DEF Listed, Behind
  <2>2. CASE ~Listed(claim[i])
    BY ZenonT(30), <1>2, <1>3, <1>7, <2>2 DEF Midway, Behind
  <2> QED BY ZenonT(30), <2>1, <2>2
<1>11. /\ actionForMessage(p[1]) # "NoAction"
       /\ MarksOffering(p[1]) => p[2] \in unavailable'
       /\ informer[p[2]].phase # "none" /\ task[a].pc # "idle"
       /\ a \in Instances => p[2] = a
       /\ a \in Instances => <<a, p[1]>> \in seen \/ counted[<<a, p[1]>>] = 0
  <2>1. Caused(a, p)
    BY Zenon, <1>3 DEF InterruptionIInv, EveryTaskCaused
  <2> QED BY ZenonT(30), <1>1, <1>2, <2>1, ScenarioAssumption DEF Midway, Caused
<1> HIDE DEF obj
<1>12. CASE obj.phase = "live"
  <2>1. /\ task' = [task EXCEPT ![a].pc = "delete", ![a].cur = p, ![a].obj = obj]
        /\ UNCHANGED <<poll, seen, counted>>
    BY Zenon, <1>1, <1>12 DEF Advance
  <2> HIDE DEF p
  <2> QED BY ZenonT(30), <1>3, <1>8, <1>9, <1>10, <1>11, <1>12, <2>1, NextCallStep
<1>13. CASE obj.phase # "live"
  <2>1. Finish(a, p, TRUE, FALSE)
    BY ZenonT(30), <1>1, <1>13 DEF Advance
  <2>2. claim'[p[2]].phase \in {"deleting", "gone"}
    BY ZenonT(30), <1>10, <1>13 DEF Behind
  <2> HIDE DEF p
  <2> QED BY ZenonT(30), <1>3, <1>8, <1>9, <1>11, <2>1, <2>2, FinishStep
<1> QED BY Zenon, <1>12, <1>13

(* Why a NodeClaim is deleted, and that its offering is marked if that is why. *)
LEMMA DeletionCaused ==
  ASSUME InterruptionIInv, NEW a \in Handlers, task[a].pc \in {"annotate", "delete"}
  PROVE  LET p == task[a].cur IN
         /\ p[2] \in Instances
         /\ \/ p[2] \in broken \cup doomed
            \/ Named(p[2], DrainKinds)
            \/ Named(p[2], ReplaceKinds) /\ p[2] \in unavailable
<1> DEFINE p == task[a].cur
<1>1. Midway(a)
  BY Zenon DEF InterruptionIInv, TasksSound
<1>2. p \in task[a].todo /\ p[1] \in MessageKinds \cup Categories /\ p[2] \in Instances
  BY Zenon, <1>1 DEF Midway, InterruptionIInv, WellTyped, Tasks, Pairs
<1>3. Caused(a, p)
  BY Zenon, <1>2 DEF InterruptionIInv, EveryTaskCaused
<1>4. CASE a \in Messages /\ queue[a] = "hidden" /\ p[2] \in Body(a).ids /\ p[1] = Parse(Body(a))
  <2>1. p[1] \in DrainKinds \cup ReplaceKinds
    BY ZenonT(30), <1>1, <1>4, Parsing DEF Midway
  <2>2. p[1] \in DrainKinds => Named(p[2], DrainKinds)
    BY Zenon, <1>4 DEF Named
  <2>3. p[1] \in ReplaceKinds => Named(p[2], ReplaceKinds) /\ p[2] \in unavailable
    BY ZenonT(30), <1>1, <1>2, <1>4, PollerKinds DEF Named, Midway
  <2> QED BY Zenon, <1>2, <2>1, <2>2, <2>3
<1> QED BY ZenonT(30), <1>2, <1>3, <1>4 DEF Caused

LEMMA DeleteNodeClaimStep ==
  ASSUME InterruptionIInv, NEW a \in Handlers, deleteNodeClaim(a)
  PROVE  InterruptionIInv'
<1> DEFINE p == task[a].cur
           i == p[2]
<1>1. /\ task[a].pc = "delete"
      /\ claim' = IF claim[i].phase = "live" THEN [claim EXCEPT ![i].phase = "deleting"] ELSE claim
      /\ Finish(a, p, TRUE, FALSE)
      /\ UNCHANGED <<scenario, informer, health, queue, unavailable, node, condition, broken, doomed>>
  BY ZenonT(30) DEF deleteNodeClaim, conditions
<1>2. Midway(a)
  BY Zenon, <1>1 DEF InterruptionIInv, TasksSound
<1>3. /\ p \in task[a].todo /\ i \in Instances
      /\ claim \in [Instances -> Claims] /\ unavailable \subseteq Instances
      /\ task[a].obj.phase = "live" /\ Behind(task[a].obj, claim[i])
  BY <1>1, <1>2 DEF Midway, InterruptionIInv, WellTyped, Tasks, Pairs
<1>4. claim[i].phase \in {"live", "deleting", "gone"}
  BY Zenon, <1>3 DEF Behind, Claims
<1>5. /\ claim' \in [Instances -> Claims]
      /\ claim'[i].phase \in {"deleting", "gone"}
      /\ \A j \in Instances : /\ j # i => claim'[j] = claim[j]
                              /\ claim'[j].forced = claim[j].forced
                              /\ Behind(claim[j], claim'[j])
  <2>1. CASE claim[i].phase = "live"
    <3> DEFINE c == [claim[i] EXCEPT !.phase = "deleting"]
    <3>1. c \in Claims /\ c.phase = "deleting" /\ c.forced = claim[i].forced
      BY <1>3 DEF Claims
    <3>2. claim' = [claim EXCEPT ![i] = c]
      BY Zenon, <1>1, <1>3, <2>1
    <3> HIDE DEF c
    <3> QED BY ZenonT(30), <1>3, <2>1, <3>1, <3>2 DEF Behind
  <2>2. CASE claim[i].phase # "live"
    BY Zenon, <1>1, <1>3, <1>4, <2>2 DEF Behind
  <2> QED BY ZenonT(30), <2>1, <2>2
<1>6. CallFrame
  BY ZenonT(30), <1>1, <1>3, <1>5 DEF CallFrame
<1>7. OnlyForCause'
  <2>1. Named(i, DrainKinds \cup ReplaceKinds) \/ i \in broken \cup doomed
    BY Zenon, <1>1, DeletionCaused DEF Named
  <2> QED BY ZenonT(30), <1>1, <1>5, <2>1 DEF InterruptionIInv, OnlyForCause, Named, Body, nodeRepair
<1>8. claim'[p[2]].phase \in {"deleting", "gone"}
  BY Zenon, <1>5
<1>9. /\ a \in Instances => p[2] = a
      /\ a \in Instances => <<a, p[1]>> \in seen \/ counted[<<a, p[1]>>] = 0
      /\ informer[p[2]].phase # "none" /\ task[a].pc # "idle"
  <2>1. Caused(a, p)
    BY Zenon, <1>3 DEF InterruptionIInv, EveryTaskCaused
  <2> QED BY Zenon, <1>1, <1>2, <2>1, ScenarioAssumption DEF Midway, Caused
<1> HIDE DEF p
<1> QED BY ZenonT(30), <1>1, <1>3, <1>6, <1>7, <1>8, <1>9, FinishStep

LEMMA HandlerFailsStep ==
  ASSUME InterruptionIInv, NEW a \in Handlers, NEW p \in task[a].todo, HandlerFails(a, p)
  PROVE  InterruptionIInv'
<1>1. /\ task[a].pc # "idle" /\ Finish(a, p, TRUE, TRUE)
      /\ UNCHANGED <<scenario, claim, informer, health, queue, unavailable, node, condition, broken, doomed>>
  BY ZenonT(30) DEF HandlerFails, external, conditions
<1>2. CallFrame
  BY ZenonT(30), <1>1 DEF CallFrame, Behind, InterruptionIInv, WellTyped
<1>3. OnlyForCause'
  BY ZenonT(30), <1>1 DEF InterruptionIInv, OnlyForCause, Named, Body, nodeRepair
<1> QED BY ZenonT(30), <1>1, <1>2, <1>3, FinishStep

LEMMA HandleStep ==
  ASSUME InterruptionIInv, NEW a \in DOMAIN task, Handle(a)
  PROVE  InterruptionIInv'
<1>1. a \in Handlers
  BY Zenon DEF InterruptionIInv, WellTyped
<1> QED BY Zenon, <1>1, HandleMessageStep, HandlerFailsStep, AnnotateStep, DeleteNodeClaimStep DEF Handle

-----------------------------------------------------------------------------
(* What a message or a check lists is its kind, for the instances it names.    *)
LEMMA WorkNames == \A kind, ids : \A p \in Work(kind, ids) : p[1] = kind /\ p[2] \in ids
<1> SUFFICES ASSUME NEW kind, NEW ids, NEW p \in Work(kind, ids)
             PROVE  p[1] = kind /\ p[2] \in ids
  BY Zenon
<1>1. PICK i \in ids : p = <<kind, i>>
  BY Zenon DEF Work
<1> QED BY Zenon, <1>1

(* The queue.  A message is received with everything still to do.            *)
LEMMA ReceiveStep ==
  ASSUME InterruptionIInv, Receive
  PROVE  InterruptionIInv'
<1>1. /\ UNCHANGED <<scenario, claim, informer, health, poll, seen, unavailable, node, condition>>
      /\ UNCHANGED <<broken, doomed, counted>>
      /\ \A m \in Messages : task[m].pc = "idle"
  BY ZenonT(30) DEF Receive, external, conditions, history
<1> DEFINE Received(m) == [IdleTask EXCEPT !.pc = "handle", !.todo = Work(Parse(Body(m)), Body(m).ids)]
<1>2. PICK batch \in SUBSET {m \in Messages : queue[m] = "visible"} :
        /\ queue' = [m \in Messages |-> IF m \in batch THEN "hidden" ELSE queue[m]]
        /\ task' = [a \in DOMAIN task |-> IF a \in batch THEN Received(a) ELSE task[a]]
  BY Zenon DEF Receive, GetSQSMessages
<1>3. \A m \in Messages : /\ Received(m).pc = "handle" /\ Received(m).err = FALSE
                          /\ Received(m).todo = Work(Parse(Body(m)), Body(m).ids)
                          /\ Received(m) \in Tasks
  <2> SUFFICES ASSUME NEW m \in Messages
               PROVE  /\ Received(m).pc = "handle" /\ Received(m).err = FALSE
                      /\ Received(m).todo = Work(Parse(Body(m)), Body(m).ids)
                      /\ Received(m) \in Tasks
    BY ZenonT(30)
  <2>1. Work(Parse(Body(m)), Body(m).ids) \in SUBSET Pairs
    BY Parsing, ScenarioAssumption DEF Work, Pairs, Body, InterruptionIInv, WellTyped
  <2>2. Claim("none") \in Claims
    BY Zenon DEF Claim, Claims
  <2> QED BY ZenonT(30), <2>1, <2>2 DEF IdleTask, Tasks
<1>4. /\ task \in [Handlers -> Tasks] /\ queue \in [Messages -> {"unsent", "visible", "hidden", "deleted"}]
      /\ \A a \in batch : a \in Messages /\ a \in Handlers /\ a \notin Instances /\ queue[a] = "visible"
  BY ZenonT(30), ScenarioAssumption DEF InterruptionIInv, WellTyped, Handlers
<1> HIDE DEF Received
<1>5. /\ task' \in [Handlers -> Tasks]
      /\ \A a \in Handlers : task'[a] = IF a \in batch THEN Received(a) ELSE task[a]
  BY Zenon, <1>2, <1>3, <1>4
<1>6. /\ queue' \in [Messages -> {"unsent", "visible", "hidden", "deleted"}]
      /\ \A m \in Messages : queue'[m] = IF m \in batch THEN "hidden" ELSE queue[m]
  BY Zenon, <1>2, <1>4
<1>7. \A i \in Instances : task'[i] = task[i]
  BY Zenon, <1>4, <1>5 DEF Handlers
<1>8. WellTyped' /\ NodeTyped'
  BY Zenon, <1>1, <1>5, <1>6 DEF InterruptionIInv, WellTyped, NodeTyped
<1>9. InformerLags' /\ HealthRecorded' /\ PollSound' /\ CountedOnce'
  BY ZenonT(30), <1>1, <1>7 DEF InterruptionIInv, InformerLags, HealthRecorded, PollSound, CountedOnce
<1>10. EveryTaskCaused'
  <2> SUFFICES ASSUME NEW a \in Handlers, NEW p \in task'[a].todo
               PROVE  Caused(a, p)'
    BY Zenon DEF EveryTaskCaused
  <2>1. CASE a \in batch
    <3>1. p[1] = Parse(Body(a)) /\ p[2] \in Body(a).ids /\ queue'[a] = "hidden" /\ a \in Messages
      <4>1. a \in Messages /\ task'[a] = Received(a) /\ queue'[a] = "hidden"
        BY ZenonT(30), <1>4, <1>5, <1>6, <2>1
      <4>2. p \in Work(Parse(Body(a)), Body(a).ids)
        BY ZenonT(30), <1>3, <4>1
      <4> QED BY SMTT(30), <4>1, <4>2, WorkNames
    <3> QED BY ZenonT(30), <1>1, <3>1 DEF Caused, Body
  <2>2. CASE a \notin batch
    <3>1. task'[a] = task[a] /\ Caused(a, p)
      BY Zenon, <1>5, <2>2 DEF InterruptionIInv, EveryTaskCaused
    <3> QED BY Zenon, <1>1, <1>6, <2>2, <3>1 DEF Caused, Body, nodeRepair
  <2> QED BY Zenon, <2>1, <2>2
<1>11. MessagesHandled'
  <2> SUFFICES ASSUME NEW m \in Messages, task'[m].pc # "idle"
               PROVE  /\ queue'[m] = "hidden"
                      /\ actionForMessage(Parse(Body(m))) # "NoAction" => Handled(m)'
    BY Zenon, <1>1 DEF MessagesHandled, Body
  <2>1. m \in batch
    BY Zenon, <1>1, <1>5 DEF Handlers
  <2>2. task'[m].todo = Work(Parse(Body(m)), Body(m).ids) /\ queue'[m] = "hidden"
    BY Zenon, <1>3, <1>5, <1>6, <2>1 DEF Handlers
  <2>3. ASSUME actionForMessage(Parse(Body(m))) # "NoAction"
        PROVE  \A i \in Body(m).ids : <<Parse(Body(m)), i>> \in task'[m].todo
    <3>1. Parse(Body(m)) \notin {"noop", "error"}
      BY Zenon, <2>3, Parsing DEF DrainKinds, ReplaceKinds
    <3> QED BY Zenon, <2>2, <3>1 DEF Work
  <2> QED BY Zenon, <1>1, <2>2, <2>3 DEF Handled, Body
<1>12. TasksSound'
  <2> SUFFICES ASSUME NEW a \in Handlers
               PROVE  /\ task'[a].pc = "idle" => task'[a] = IdleTask
                      /\ task'[a].pc \in {"annotate", "delete"} => Midway(a)'
    BY Zenon DEF TasksSound
  <2>1. CASE a \in batch
    BY Zenon, <1>3, <1>4, <1>5, <2>1
  <2>2. CASE a \notin batch
    BY ZenonT(30), <1>1, <1>5, <2>2 DEF InterruptionIInv, TasksSound, Midway
  <2> QED BY Zenon, <2>1, <2>2
<1>13. CountSound'
  BY ZenonT(30), <1>1, <1>7 DEF InterruptionIInv, CountSound, Remembered, OverThreshold, nodeRepair
<1>14. NoMessageDropped'
  BY ZenonT(30), <1>1, <1>6 DEF InterruptionIInv, NoMessageDropped, Body
<1>15. OnlyForCause'
  BY Zenon, <1>1, <1>6 DEF InterruptionIInv, OnlyForCause, Named, Body, nodeRepair
<1> QED BY Zenon, <1>8, <1>9, <1>10, <1>11, <1>12, <1>13, <1>14, <1>15 DEF InterruptionIInv

(* A message leaves the queue when nothing is left to do and nothing failed.  *)
LEMMA DeleteMessageStep ==
  ASSUME InterruptionIInv, NEW m \in Messages, deleteMessage(m)
  PROVE  InterruptionIInv'
<1>1. /\ UNCHANGED <<scenario, claim, informer, health, poll, seen, unavailable, node, condition>>
      /\ UNCHANGED <<broken, doomed, counted>>
      /\ task[m].pc = "handle" /\ task[m].todo = {} /\ task' = [task EXCEPT ![m] = IdleTask]
      /\ queue' = queue \/ (~task[m].err /\ queue' = [queue EXCEPT ![m] = "deleted"])
  BY Zenon DEF deleteMessage, external, conditions, history
<1>2. /\ task \in [Handlers -> Tasks] /\ m \in Handlers /\ m \notin Instances
      /\ queue \in [Messages -> {"unsent", "visible", "hidden", "deleted"}]
      /\ IdleTask \in Tasks /\ IdleTask.pc = "idle" /\ IdleTask.todo = {}
  BY ZenonT(30), ScenarioAssumption DEF InterruptionIInv, WellTyped, Handlers, IdleTask, Tasks, Claim, Claims
<1>3. /\ task' \in [Handlers -> Tasks] /\ task'[m] = IdleTask
      /\ \A a \in Handlers : a # m => task'[a] = task[a]
  BY ZenonT(30), <1>1, <1>2
<1>4. /\ queue' \in [Messages -> {"unsent", "visible", "hidden", "deleted"}]
      /\ \A n \in Messages : n # m => queue'[n] = queue[n]
      /\ queue'[m] # "unsent"
  BY ZenonT(30), <1>1, <1>2 DEF InterruptionIInv, MessagesHandled
<1>5. \A i \in Instances : task'[i] = task[i]
  BY Zenon, <1>2, <1>3 DEF Handlers
<1>6. WellTyped' /\ NodeTyped'
  BY ZenonT(30), <1>1, <1>3, <1>4 DEF InterruptionIInv, WellTyped, NodeTyped
<1>7. InformerLags' /\ HealthRecorded' /\ PollSound' /\ CountedOnce'
  BY ZenonT(30), <1>1, <1>5 DEF InterruptionIInv, InformerLags, HealthRecorded, PollSound, CountedOnce
<1>8. EveryTaskCaused'
  <2> SUFFICES ASSUME NEW a \in Handlers, NEW p \in task'[a].todo
               PROVE  Caused(a, p)'
    BY Zenon DEF EveryTaskCaused
  <2>1. a # m /\ task'[a] = task[a]
    BY Zenon, <1>2, <1>3
  <2>2. Caused(a, p)
    BY Zenon, <2>1 DEF InterruptionIInv, EveryTaskCaused
  <2> QED BY ZenonT(30), <1>1, <1>4, <2>1, <2>2 DEF Caused, Body, nodeRepair
<1>9. MessagesHandled'
  <2> SUFFICES ASSUME NEW n \in Messages, n # m
               PROVE  /\ task'[n].pc # "idle" => queue'[n] = "hidden"
                      /\ task'[n].pc # "idle" /\ ~task'[n].err /\ actionForMessage(Parse(Body(n))) # "NoAction"
                           => Handled(n)'
    BY ZenonT(30), <1>1, <1>2, <1>3 DEF MessagesHandled, Body
  <2>1. task'[n] = task[n] /\ queue'[n] = queue[n]
    BY Zenon, <1>3, <1>4 DEF Handlers
  <2>2. Handled(n) => Handled(n)'
    BY ZenonT(30), <1>1, <2>1 DEF Handled, Removed, Body
  <2> QED BY ZenonT(30), <2>1, <2>2 DEF InterruptionIInv, MessagesHandled
<1>10. TasksSound'
  BY ZenonT(30), <1>1, <1>2, <1>3 DEF InterruptionIInv, TasksSound, Midway
<1>11. CountSound'
  BY ZenonT(30), <1>1, <1>5 DEF InterruptionIInv, CountSound, Remembered, OverThreshold, nodeRepair
<1>12. NoMessageDropped'
  <2> SUFFICES ASSUME NEW n \in Messages, queue'[n] = "deleted", actionForMessage(Parse(Body(n))) # "NoAction",
                      NEW i \in Body(n).ids \ Unlaunched
               PROVE  claim[i].phase \in {"deleting", "gone"}
    BY ZenonT(30), <1>1 DEF NoMessageDropped, Body
  <2>1. CASE queue[n] = "deleted"
    BY ZenonT(30), <2>1 DEF InterruptionIInv, NoMessageDropped
  <2>2. CASE queue[n] # "deleted"
    <3>1. n = m /\ ~task[m].err
      BY Zenon, <1>1, <1>2, <1>4, <2>2
    <3>2. Handled(m)
      BY Zenon, <1>1, <3>1 DEF InterruptionIInv, MessagesHandled
    <3> QED BY Zenon, <1>1, <3>1, <3>2 DEF Handled, Removed
  <2> QED BY Zenon, <2>1, <2>2
<1>13. OnlyForCause'
  BY Zenon, <1>1, <1>4 DEF InterruptionIInv, OnlyForCause, Named, Body, nodeRepair
<1> QED BY Zenon, <1>6, <1>7, <1>8, <1>9, <1>10, <1>11, <1>12, <1>13 DEF InterruptionIInv

-----------------------------------------------------------------------------
LEMMA NextStep == InterruptionIInv /\ [InterruptionNext]_interruptionVars => InterruptionIInv'
<1> SUFFICES ASSUME InterruptionIInv, [InterruptionNext]_interruptionVars PROVE InterruptionIInv'
  BY Zenon
<1>1. CASE Environment
  BY Zenon, <1>1, QueueStep, HealthStep, ClaimStep, InformStep, RestartStep DEF Environment
<1>2. CASE Receive
  BY Zenon, <1>2, ReceiveStep
<1>3. CASE \E m \in Messages : deleteMessage(m)
  BY Zenon, <1>3, DeleteMessageStep
<1>4. CASE \E a \in DOMAIN task : Handle(a)
  BY Zenon, <1>4, HandleStep
<1>5. CASE Poller
  BY Zenon, <1>5, PollListStep, PollEndStep DEF Poller
<1>6. CASE ConditionController
  BY Zenon, <1>6, ConditionStep
<1>7. CASE UNCHANGED interruptionVars
  <2>1. /\ UNCHANGED <<scenario, claim, informer, health, queue, task, poll, seen, unavailable, node, condition>>
        /\ UNCHANGED <<broken, doomed, counted>>
    BY Zenon, <1>7 DEF interruptionVars, external, handlers, conditions, history
  <2>2. WellTyped' /\ NodeTyped' /\ InformerLags' /\ HealthRecorded' /\ PollSound' /\ CountedOnce'
    BY Zenon, <2>1 DEF InterruptionIInv, WellTyped, NodeTyped, InformerLags, HealthRecorded, PollSound, CountedOnce
  <2>3. EveryTaskCaused' /\ MessagesHandled' /\ NoMessageDropped'
    BY SMTT(30), <2>1 DEF InterruptionIInv, EveryTaskCaused, Caused, MessagesHandled, Handled, Removed, NoMessageDropped,
                Body, nodeRepair
  <2>4. TasksSound' /\ CountSound'
    BY ZenonT(30), <2>1 DEF InterruptionIInv, TasksSound, Midway, CountSound, Remembered, OverThreshold, nodeRepair
  <2>5. OnlyForCause'
    BY Zenon, <2>1 DEF InterruptionIInv, OnlyForCause, Named, Body, nodeRepair
  <2> QED BY Zenon, <2>2, <2>3, <2>4, <2>5 DEF InterruptionIInv
<1> QED BY Zenon, <1>1, <1>2, <1>3, <1>4, <1>5, <1>6, <1>7 DEF InterruptionNext

LEMMA InvariantHolds == InterruptionSpec => []InterruptionIInv
BY InitHolds, NextStep, PTL DEF InterruptionSpec

(* The interruption controllers drop no message that calls for an action,     *)
(* delete and bypass the drain of nothing without a cause, and count an        *)
(* impairment once (interruption/controller.go, utils.go,                      *)
(* instancestatus_controller.go), for any messages, instances and faults.      *)
THEOREM InterruptionIsSafe == InterruptionSpec => []InterruptionInv
<1>1. InterruptionIInv => InterruptionInv
  <2> SUFFICES ASSUME InterruptionIInv PROVE InterruptionTypeOK
    BY Zenon DEF InterruptionIInv, InterruptionInv
  <2>1. \A a \in Handlers :
          /\ task[a].pc \in {"idle", "handle", "annotate", "delete"}
          /\ task[a].pc \in {"annotate", "delete"} => task[a].cur \in task[a].todo
          /\ task[a].pc = "delete" => task[a].obj.phase = "live"
          /\ task[a].pc = "idle" => task[a] = IdleTask
    BY ZenonT(30) DEF InterruptionIInv, WellTyped, Tasks, TasksSound, Midway
  <2> QED BY ZenonT(30), <2>1 DEF InterruptionIInv, WellTyped, InterruptionTypeOK, Handlers
<1> QED BY <1>1, InvariantHolds, PTL

(* The offering of an interrupted spot or reserved instance is marked         *)
(* unavailable before its NodeClaim is deleted (interruption/utils.go), so     *)
(* that the replacement avoids it.                                           *)
THEOREM OfferingMarkedFirst == InterruptionSpec => MarkedBeforeReplaced
<1>1. ASSUME InterruptionIInv, [InterruptionNext]_interruptionVars, NEW i \in Instances,
             claim[i].phase = "live", claim'[i].phase = "deleting",
             i \notin broken \cup doomed, ~Named(i, DrainKinds)
      PROVE  i \in unavailable
  <2>1. claim \in [Instances -> Claims] /\ claim' # claim
    BY Zenon, <1>1 DEF InterruptionIInv, WellTyped
  <2>2. CASE \E a \in Handlers : deleteNodeClaim(a)
    <3> PICK a \in Handlers : deleteNodeClaim(a)
      BY Zenon, <2>2
    <3>1. task[a].pc = "delete" /\ i = task[a].cur[2]
      <4>1. /\ task[a].pc = "delete"
            /\ claim' \in {claim, [claim EXCEPT ![task[a].cur[2]].phase = "deleting"]}
        BY Zenon DEF deleteNodeClaim
      <4> QED BY Zenon, <1>1, <2>1, <4>1
    <3> QED BY Zenon, <1>1, <3>1, DeletionCaused
  <2>3. CASE \E a \in Handlers : annotateTerminationTimestamp(a)
    <3> PICK a \in Handlers : annotateTerminationTimestamp(a)
      BY Zenon, <2>3
    <3> DEFINE j == task[a].cur[2]
    <3>1. claim' \in {claim, [claim EXCEPT ![j] = [claim[j] EXCEPT !.forced = TRUE]]}
      BY Zenon DEF annotateTerminationTimestamp
    <3>2. claim'[i].phase = claim[i].phase
      BY <2>1, <3>1 DEF Claims
    <3> QED BY Zenon, <1>1, <3>2
  <2>4. CASE \E j \in Instances : Launch(j) \/ Reboot(j) \/ Terminate(j)
    <3> PICK j \in Instances : Launch(j) \/ Reboot(j) \/ Terminate(j)
      BY Zenon, <2>4
    <3>1. claim[j] \in Claims
      BY Zenon, <2>1
    <3>2. CASE Launch(j)
      BY Zenon, <1>1, <2>1, <3>2 DEF Launch, SetClaim, Claim
    <3>3. CASE Reboot(j)
      BY Zenon, <1>1, <2>1, <3>1, <3>3 DEF Reboot, SetClaim, Claims
    <3>4. CASE Terminate(j)
      BY Zenon, <1>1, <2>1, <3>1, <3>4 DEF Terminate, SetClaim, Claims
    <3> QED BY Zenon, <3>2, <3>3, <3>4
  <2>5. DOMAIN task = Handlers
    BY ZenonT(30), <1>1 DEF InterruptionIInv, WellTyped
  <2> QED
    BY ZenonT(30), <1>1, <2>1, <2>2, <2>3, <2>4, <2>5
    DEF InterruptionNext, Environment, Send, Redeliver, Inform, Impair, Persist, Recover, Restart, Receive,
        deleteMessage, Handle, handleMessage, HandlerFails, Poller, PollList, PollUnauthorized, Prune,
        ConditionController, ConditionList, ConditionSelect, ConditionPatch, ConditionEnd,
        external, interruptionVars
<1>2. InterruptionIInv /\ [InterruptionNext]_interruptionVars
        => [\A i \in Instances :
              /\ claim[i].phase = "live" /\ claim'[i].phase = "deleting"
              /\ i \notin broken \cup doomed
              /\ ~Named(i, DrainKinds)
              => i \in unavailable]_interruptionVars
  BY Zenon, <1>1
<1> QED BY <1>2, InvariantHolds, PTL DEF InterruptionSpec, MarkedBeforeReplaced
=============================================================================
