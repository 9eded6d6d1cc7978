------------------------------ MODULE Kubereplay ------------------------------
(***************************************************************************)
(* tools/kubereplay: "capture and replay workload events from EKS audit      *)
(* logs for Karpenter A/B testing".  A capture reads the audit events of a    *)
(* window, in the order in which CloudWatch returns them, into a replay log    *)
(* under new names; a replay, which may be run again and again, applies the    *)
(* log, sorted by time, to an empty namespace of another cluster.             *)
(*                                                                         *)
(* The time of an event is its place in the audit log; time 0 is the start    *)
(* of the window, and a second lasts TicksPerSecond.  Pod templates, labels    *)
(* and disruption budgets are left out, as are the jobs of the target          *)
(* namespace, which nothing reads.                                           *)
(***************************************************************************)
EXTENDS Integers, Sequences, FiniteSets, SequencesExt

CONSTANTS Workloads,       \* deployments of the captured cluster
          BatchJobs,       \* its jobs
          MaxReplicas,
          MaxAudit,        \* bound on audit events in the window
          MaxMishaps       \* bound on interrupted replays and failing calls of the API

VARIABLES
  stage,          \* "live", "capture", "captured", "replay", "replayed"
  original,       \* Workloads -> replicas in the captured cluster, or NoWorkload
  audit,          \* the audit events of the window
  undelivered,    \* those that CloudWatch has not returned yet
  inOrder,        \* history: the events came in the order of their times
  tracked,        \* the Parser: [emitted, replicas, created]
  keyMapping,     \* original key -> sanitized key, or NoWorkload
  pendingEvents,
  replayLog,      \* [type, key, replicas, t], and [type, key, t, duration] for jobs
  applied,        \* places of replayLog that the running replay is done with
  failed,         \* those of them that it reported as FAILED
  deploymentNames,
  replayed,       \* the target namespace: sanitized key -> replicas, or NoWorkload
  mishaps

captureVars == <<tracked, keyMapping, pendingEvents, replayLog>>
engineVars == <<applied, failed, deploymentNames, replayed, mishaps>>
replayVars == <<stage, original, audit, undelivered, inOrder, captureVars, engineVars>>

NoWorkload == -1
Names == 0..MaxAudit
Nowhere == [n \in Names |-> NoWorkload]

(* Audit events are stamped more finely than a job's completionTime, which has *)
(* whole seconds.                                                            *)
TicksPerSecond == 2
Seconds(t) == t - (t % TicksPerSecond)

NewParser ==
  [emitted |-> {}, replicas |-> [d \in Workloads |-> NoWorkload], created |-> [j \in BatchJobs |-> NoWorkload]]

(* Deployments and jobs may be older than the window.                         *)
ReplayInit ==
  /\ stage = "live"
  /\ original \in [Workloads -> {NoWorkload, 1}]
  /\ audit = <<>> /\ undelivered = {} /\ inOrder = TRUE
  /\ tracked = NewParser
  /\ keyMapping = [k \in Workloads \cup BatchJobs |-> NoWorkload]
  /\ pendingEvents = <<>> /\ replayLog = <<>>
  /\ applied = {} /\ failed = {} /\ deploymentNames = {} /\ replayed = Nowhere /\ mishaps = 0

-----------------------------------------------------------------------------
(* The captured cluster *)

Audited(e) ==
  /\ stage = "live" /\ Len(audit) < MaxAudit
  /\ audit' = Append(audit, e)
  /\ UNCHANGED <<stage, undelivered, inOrder, captureVars, engineVars>>

Now == Len(audit) + 1

(* A deployment is created, or its full object or only its scale written.     *)
ClusterWrites(d) ==
  \E verb \in {"create", "update", "scale"}, n \in 1..MaxReplicas :
    /\ verb = "create" <=> original[d] = NoWorkload
    /\ Audited([verb |-> verb, key |-> d, replicas |-> n, t |-> Now])
    /\ original' = [original EXCEPT ![d] = n]

ClusterDeletes(d) ==
  /\ original[d] # NoWorkload
  /\ Audited([verb |-> "delete", key |-> d, replicas |-> NoWorkload, t |-> Now])
  /\ original' = [original EXCEPT ![d] = NoWorkload]

EventsOf(j, verb) == {i \in DOMAIN audit : audit[i].key = j /\ audit[i].verb = verb}

(* The completionTime of a job, once its status has been written since it was  *)
(* created.                                                                  *)
CompletionTime(j) ==
  LET done == {i \in EventsOf(j, "jobStatus") : \A k \in EventsOf(j, "jobCreate") : k < i}
  IN IF done = {} THEN NoWorkload ELSE Seconds(CHOOSE i \in done : TRUE)

(* The job controller writes a completion to the status subresource; whoever   *)
(* writes the full object later, a label or a finalizer, gets it in the answer. *)
(* A completed job may be deleted, and its name used again.                   *)
JobWrites(j) ==
  /\ \E verb \in {"jobCreate", "jobStatus", "jobUpdate"} :
       /\ verb = "jobCreate" => CompletionTime(j) # NoWorkload \/ \A i \in DOMAIN audit : audit[i].key # j
       /\ verb = "jobStatus" => CompletionTime(j) = NoWorkload
       /\ Audited([verb |-> verb, key |-> j, t |-> Now,
                   completion |-> CASE verb = "jobCreate" -> NoWorkload
                                    [] verb = "jobStatus" -> Seconds(Now)
                                    [] verb = "jobUpdate" -> CompletionTime(j)])
  /\ UNCHANGED original

StartCapture ==
  /\ stage = "live" /\ audit # <<>>
  /\ stage' = "capture"
  /\ undelivered' = DOMAIN audit
  /\ UNCHANGED <<original, audit, inOrder, captureVars, engineVars>>

-----------------------------------------------------------------------------
(* Capture *)

(* The update of a deployment not seen before tells that it is older.         *)
PreExisting(e) == e.verb = "update" /\ e.key \notin tracked.emitted

ParsesDeployment(e) == e.verb = "create" \/ PreExisting(e)

(* A map of Go gives 0 for a missing key.                                    *)
ParsesScale(e) ==
  /\ e.verb \in {"update", "scale"} /\ e.key \in tracked.emitted
  /\ e.replicas # IF tracked.replicas[e.key] = NoWorkload THEN 0 ELSE tracked.replicas[e.key]

(* Mutant: the replicas of a scale are not remembered.                        *)
TrackFullObjects(e) ==
  [tracked EXCEPT !.emitted = IF e.verb = "delete" THEN tracked.emitted \ {e.key}
               ELSE IF ParsesDeployment(e) THEN tracked.emitted \cup {e.key} ELSE tracked.emitted,
   !.replicas[e.key] = IF e.verb = "scale" THEN @ ELSE e.replicas]

(* What the Parser remembers after an event of a deployment.                  *)
TrackAfter(e) ==
  [tracked EXCEPT !.emitted = IF e.verb = "delete" THEN tracked.emitted \ {e.key}
               ELSE IF ParsesDeployment(e) THEN tracked.emitted \cup {e.key} ELSE tracked.emitted,
   !.replicas[e.key] = e.replicas]

Delivered(i) ==
  /\ stage = "capture" /\ i \in undelivered
  /\ undelivered' = undelivered \ {i}
  /\ inOrder' = (inOrder /\ \A j \in undelivered : i <= j)
  /\ UNCHANGED <<stage, original, audit, engineVars>>

(* The sanitized names: deployment-0, deployment-1, ... and job-0, job-1, ...  *)
NextName(isJob) == Cardinality({i \in DOMAIN replayLog : (replayLog[i].type = "job") = isJob})

CaptureDeployment(i) ==
  LET e == audit[i]
  IN /\ e.key \in Workloads /\ Delivered(i)
     /\ ParsesDeployment(e)
     /\ tracked' = TrackAfter(e)
     /\ keyMapping' = [keyMapping EXCEPT ![e.key] = NextName(FALSE)]
     /\ replayLog' = Append(replayLog, [type |-> "create", key |-> NextName(FALSE), replicas |-> e.replicas,
                                        t |-> IF PreExisting(e) THEN 0 ELSE e.t])
     /\ UNCHANGED pendingEvents

(* Scales and deletes wait for all events; a scale without effect is skipped. *)
CaptureChange(i) ==
  LET e == audit[i]
  IN /\ e.key \in Workloads /\ Delivered(i)
     /\ ~ParsesDeployment(e)
     /\ tracked' = TrackAfter(e)
     /\ pendingEvents' = IF e.verb = "delete" \/ ParsesScale(e) THEN Append(pendingEvents, e) ELSE pendingEvents
     /\ UNCHANGED <<keyMapping, replayLog>>

CaptureJob(i) ==
  LET e == audit[i]
  IN /\ e.verb = "jobCreate" /\ Delivered(i)
     /\ tracked' = [tracked EXCEPT !.created[e.key] = e.t]
     /\ keyMapping' = [keyMapping EXCEPT ![e.key] = NextName(TRUE)]
     /\ replayLog' = Append(replayLog, [type |-> "job", key |-> NextName(TRUE), t |-> e.t, duration |-> NoWorkload])
     /\ UNCHANGED pendingEvents

(* Writes of a subresource are skipped, and full objects without a completion. *)
CaptureJobUpdate(i) ==
  LET e == audit[i]
  IN /\ e.verb \in {"jobStatus", "jobUpdate"} /\ Delivered(i)
     /\ pendingEvents' = IF e.verb = "jobUpdate" /\ e.completion # NoWorkload
                         THEN Append(pendingEvents, e) ELSE pendingEvents
     /\ UNCHANGED <<tracked, keyMapping, replayLog>>

GetSanitizedKey(e) == keyMapping[e.key] # NoWorkload

(* The completions that give the job of an entry a duration; the last one is    *)
(* kept.  GetJobCreateTime: the time of the last create that was delivered.    *)
Completions(entry) ==
  SelectSeq(pendingEvents, LAMBDA e : /\ e.key \in BatchJobs /\ keyMapping[e.key] = entry.key
                                      /\ e.completion - tracked.created[e.key] > 0)

SetJobDuration(entry) ==
  IF entry.type # "job" \/ Completions(entry) = <<>> THEN entry
  ELSE [entry EXCEPT !.duration = Last(Completions(entry)).completion - tracked.created[Last(Completions(entry)).key]]

(* All events are in: what is known by now gets its event or its duration.    *)
Correlated ==
  LET changes == SelectSeq(pendingEvents, LAMBDA e : e.key \in Workloads /\ GetSanitizedKey(e))
  IN [i \in DOMAIN replayLog |-> SetJobDuration(replayLog[i])]
     \o [i \in DOMAIN changes |->
           [type |-> IF changes[i].verb = "delete" THEN "delete" ELSE "scale", key |-> keyMapping[changes[i].key],
            replicas |-> changes[i].replicas, t |-> changes[i].t]]

(* The log is written; the parser ends with the command.                      *)
FinishCapture ==
  /\ stage = "capture" /\ undelivered = {}
  /\ stage' = "captured"
  /\ replayLog' = Correlated
  /\ tracked' = NewParser /\ pendingEvents' = <<>>
  /\ UNCHANGED <<original, audit, undelivered, inOrder, keyMapping, engineVars>>

-----------------------------------------------------------------------------
(* Replay *)

(* runReplay with a new engine: CleanupWorkloads before anything is created.   *)
StartReplay ==
  /\ stage = "captured"
  /\ stage' = "replay"
  /\ replayed' = Nowhere
  /\ UNCHANGED <<original, audit, undelivered, inOrder, captureVars, applied, failed, deploymentNames, mishaps>>

(* The next event in the order of time; sort.Slice leaves equals in any order. *)
IsNext(i) == i \notin applied /\ \A j \in DOMAIN replayLog \ applied : replayLog[i].t <= replayLog[j].t

(* Changes are made under the name that the create has left.                  *)
HasName(e) == e.type \in {"create", "job"} \/ e.key \in deploymentNames

Exists(e) == replayed[e.key] # NoWorkload

(* What the API does to the namespace.                                       *)
Effect(e) ==
  CASE e.type = "create" /\ ~Exists(e) -> [replayed EXCEPT ![e.key] = e.replicas]
    [] e.type = "scale" /\ Exists(e) -> [replayed EXCEPT ![e.key] = e.replicas]
    [] e.type = "delete" -> [replayed EXCEPT ![e.key] = NoWorkload]
    [] OTHER -> replayed

Turn(i) ==
  /\ stage = "replay" /\ IsNext(i)
  /\ applied' = applied \cup {i}
  /\ UNCHANGED <<stage, original, audit, undelivered, inOrder, captureVars>>

(* A create of what exists, and a delete of what does not, are taken for done;  *)
(* a change of an unknown name, and a scale of what does not exist, fail.      *)
ApplyEvent(i) ==
  LET e == replayLog[i]
  IN /\ Turn(i)
     /\ failed' = IF HasName(e) /\ (e.type = "scale" => Exists(e)) THEN failed ELSE failed \cup {i}
     /\ replayed' = IF HasName(e) THEN Effect(e) ELSE replayed
     /\ deploymentNames' = CASE e.type = "create" -> deploymentNames \cup {e.key}
                             [] e.type = "delete" /\ Exists(e) -> deploymentNames \ {e.key}
                             [] OTHER -> deploymentNames
     /\ UNCHANGED mishaps

(* The call of the API returns an error, whether or not it has taken effect:   *)
(* RunTimed reports the event and goes on.  A create has noted its name before. *)
ApplyFails(i) ==
  LET e == replayLog[i]
  IN /\ mishaps < MaxMishaps /\ mishaps' = mishaps + 1
     /\ Turn(i) /\ HasName(e)
     /\ failed' = failed \cup {i}
     /\ replayed' \in {replayed, Effect(e)}
     /\ deploymentNames' = IF e.type = "create" THEN deploymentNames \cup {e.key} ELSE deploymentNames

(* The engine ends with the command.                                         *)
EngineEnds == applied' = {} /\ failed' = {} /\ deploymentNames' = {}

(* RunTimed returns the error of the context, and nothing is cleaned up.      *)
Interrupt ==
  /\ stage = "replay" /\ mishaps < MaxMishaps
  /\ stage' = "captured"
  /\ mishaps' = mishaps + 1
  /\ EngineEnds
  /\ UNCHANGED <<original, audit, undelivered, inOrder, captureVars, replayed>>

FinishReplay ==
  /\ stage = "replay" /\ applied = DOMAIN replayLog
  /\ stage' = "replayed"
  /\ UNCHANGED <<original, audit, undelivered, inOrder, captureVars, engineVars>>

(* The workloads are stable, or the wait for it ends: the namespace is emptied, *)
(* unless a call fails, which is ignored.                                    *)
CleanupWorkloads ==
  /\ stage = "replayed"
  /\ stage' = "captured"
  /\ replayed' \in {replayed, Nowhere}
  /\ EngineEnds
  /\ UNCHANGED <<original, audit, undelivered, inOrder, captureVars, mishaps>>

ReplayNext ==
  \/ \E d \in Workloads : ClusterWrites(d) \/ ClusterDeletes(d)
  \/ \E j \in BatchJobs : JobWrites(j)
  \/ StartCapture
  \/ \E i \in DOMAIN audit : CaptureDeployment(i) \/ CaptureChange(i) \/ CaptureJob(i) \/ CaptureJobUpdate(i)
  \/ FinishCapture
  \/ StartReplay \/ Interrupt \/ FinishReplay \/ CleanupWorkloads
  \/ \E i \in DOMAIN replayLog : ApplyEvent(i) \/ ApplyFails(i)

ReplaySpec == ReplayInit /\ [][ReplayNext]_replayVars

-----------------------------------------------------------------------------
(* Properties *)

(* Types; the log names only deployments and jobs that it also creates, so    *)
(* that validateReplayLog has nothing to refuse.                             *)
ReplayTypeOK ==
  /\ stage \in {"live", "capture", "captured", "replay", "replayed"}
  /\ undelivered \subseteq DOMAIN audit /\ applied \subseteq DOMAIN replayLog
  /\ failed \subseteq applied /\ mishaps \in 0..MaxMishaps /\ deploymentNames \subseteq Names
  /\ replayed \in [Names -> NoWorkload..MaxReplicas]
  /\ \A i \in DOMAIN replayLog : replayLog[i].type # "job" =>
       \E j \in DOMAIN replayLog : replayLog[j].type = "create" /\ replayLog[j].key = replayLog[i].key

Creates == {i \in DOMAIN replayLog : replayLog[i].type = "create"}
CapturedWorkloads == {d \in Workloads : keyMapping[d] # NoWorkload}

PlacesOf(n) == {i \in DOMAIN replayLog : replayLog[i].type # "job" /\ replayLog[i].key = n}
LastPlaceOf(n) == CHOOSE i \in PlacesOf(n) : \A k \in PlacesOf(n) : replayLog[k].t <= replayLog[i].t

(* When the audit events came in order and no deployment got two names, a      *)
(* replay, also one after an interrupted one or an incomplete cleanup, leaves  *)
(* a deployment whose object was seen as the original was at the end of the     *)
(* window, with its replicas or gone, if its create and its last event did not  *)
(* fail: a failure in between is made up for.  Whatever fails, there is nothing *)
(* else in the namespace.                                                    *)
FaithfulReplay ==
  stage = "replayed" /\ inOrder /\ Cardinality(Creates) = Cardinality(CapturedWorkloads) =>
    /\ \A d \in CapturedWorkloads :
         LET n == keyMapping[d]
         IN failed \cap ({LastPlaceOf(n)} \cup {i \in Creates : replayLog[i].key = n}) = {} => replayed[n] = original[d]
    /\ \A n \in Names : replayed[n] # NoWorkload => \E d \in Workloads : keyMapping[d] = n

(* The duration of the job created by event i, as far as a full object written   *)
(* since then tells it: in whole seconds of completion, and only if positive.  *)
OwnDuration(i) ==
  LET told == {audit[k].completion - audit[i].t : k \in {x \in EventsOf(audit[i].key, "jobUpdate") : x > i}}
  IN IF \E n \in told : n > 0 THEN CHOOSE n \in told : n > 0 ELSE NoWorkload

(* A job is replayed with the duration that the audit log tells, in whichever    *)
(* order the events came: "correlate job completion with job create"             *)
(* (capture.go).  When the name was used again, and the events came in order,     *)
(* the completion of the first job is not taken for that of the second, and       *)
(* the first is replayed without a duration.                                  *)
DurationsKnown ==
  stage = "captured" =>
    \A i \in DOMAIN audit :
      LET creates == EventsOf(audit[i].key, "jobCreate")
      IN i \in creates /\ (inOrder \/ creates = {i}) =>
           \E m \in DOMAIN replayLog :
             /\ replayLog[m].type = "job" /\ replayLog[m].t = audit[i].t
             /\ replayLog[m].duration = IF \E k \in creates : k > i THEN NoWorkload ELSE OwnDuration(i)

(* What kubereplay promises: a well-formed log, replayed faithfully and with    *)
(* the durations of its jobs.                                                *)
ReplayInv == ReplayTypeOK /\ FaithfulReplay /\ DurationsKnown
=============================================================================
