# karpenter-provider-aws in TLA+

TLA+ models of the AWS cloud provider of Karpenter (`src/pkg`, and two tools beside it),
TLC configurations that check them on small instances, and TLAPS proofs for every value of
the constants. `PROJECT.json` holds the machine-readable side: components, runs, mutants, the
map from definitions to source lines, findings, hazards and theorems.

    tlc -workers 2 -config MCBatcher.cfg MCBatcher     # one run
    tlapm BatcherProofs.tla                            # the proofs of one module

Contents: 1 the system, 2 the modules, 3 the runs and their bounds, 4 fairness,
5 what is proved, 6 what is only model-checked, 7 what the models show about the code,
8 not modelled.

## 1. The system

Karpenter's core decides that a node is needed and creates a NodeClaim; this provider turns
it into an EC2 instance, keeps it tagged and labelled, says when it has drifted and deletes
it. It is one Go process: controller-runtime reconcilers (several workers each), singleton
pollers, and providers with in-memory caches that all of them share. The state that lasts is
elsewhere, in the Kubernetes API, read through informers that lag, and in EC2, IAM, SQS and
SSM, whose answers are eventually consistent. Everything in memory is lost on a restart.

A launch (`CloudProvider.Create`) asks for instance types with their offerings (resolvers,
which read the unavailable offerings, the reservations and prices), filters them, picks
subnets, ensures launch templates (which ask for the placement group) and calls CreateFleet
through the batcher. A failure is written back: to the unavailable offerings, to the
reservation's count, to the launch template cache. Deletion goes through DescribeInstances and
TerminateInstances, both batched, and returns the slot of a reservation. Reconcilers of the
NodeClass poll the same providers and set the conditions that gate launches.

The properties that matter: callers get their own answers and all of them; instances are
neither lost nor given twice; what is known to be unavailable is not offered, and is offered
again; counts of reservations do not stay wrong; nodes end up where, and labelled as, the
NodeClass says; templates and profiles in use are not deleted, and unused ones are; a node is
called drifted for a reason, and every lasting reason is found; no wait without end.

## 2. The modules

| Module | Models | Grain of a step |
|---|---|---|
| `Batcher` | `batcher/batcher.go` | a critical section of `b.mu`, one channel operation, start or end of a worker, one executor call |
| `BatchService` | what callers of the batcher may rely on | one executor call answers a batch of pending requests of one hash |
| `CreateFleet` | `batcher/createfleet.go`, composed with `Batcher` | as `Batcher`; the executor is one step |
| `InstanceBatch` | `batcher/terminateinstances.go`, `describeinstances.go` | the aggregated call, a page, one goroutine's single call |
| `InstanceLaunch` | `instance.go` Create, the filters of `instance/filter`, the bookkeeping of fleet errors | one attempt of a launch |
| `InstanceLifecycle` | Get, List and Delete of the instance provider, `nodeclaim/garbagecollection`, `nodeclaim/tagging` | a list, an EC2 call, a write to the API server |
| `Offerings` | `cache/unavailableofferings.go`, `offering/base_resolver.go` | a cache operation, a counter read or increment, one offering |
| `CapacityReservation` | `capacityreservation/provider.go`, `types.go`, their callers | a lock section, a clock reading, an EC2 call |
| `ReservationSync` | `capacityreservation/capacitytype`, `.../expiration` controllers | a list, a patch |
| `LaunchTemplate` | `launchtemplate/launchtemplate.go`, the launch and its retry, go-cache's cleanup | a lock section or EC2 call; a callback is separate from the eviction |
| `PlacementGroup` | `placementgroup/provider.go`, the reconciler, the launch, drift and the registration hook | a call of Get; each caller's use of it |
| `Subnet` | `subnet/subnet.go` | a call under the provider's lock |
| `ZonalShift` | `arczonalshift` provider and controller | an update, an expiry, a read |
| `InstanceProfile` | `instanceprofile/instanceprofile.go`, reconciler, status patch and finalize, `nodeclass/garbagecollection` | an IAM call, a write to the API server, a list, a cache expiry |
| `NodeClassReady` | the loop of the NodeClass controller, `nodeclass/validation.go` | a reconciler, a dry run, the patch |
| `NodeClassHash` | `nodeclass/hash`, static drift | a patch |
| `NodeDrift` | `cloudprovider/drift.go` for subnets, security groups and reservations | a list through its cache, the patch, a check |
| `AmiDiscovery` | `amifamily/ami.go`, `ssm/provider.go`, the SSM invalidation, AMI drift | a reconciliation, a sweep, an expiry |
| `InstanceTypes` | `instancetype/instancetype.go`, its two refreshes and the memory learnt from nodes | a lock section, a shared build |
| `KubeletResources` | maxPods and reservations as the scheduler, the launch template and validation resolve them, `cel/environment.go` | a list, a launch, a validation |
| `Pricing` | `pricing/pricing.go` and its controller | a page, a lock section, a read |
| `Interruption` | the queue controller, the instance-status poller, the node condition controller | a receive, the handling of one NodeClaim, a patch, a deletion |
| `Kwok` | `kwok/ec2/ec2.go`, the simulated EC2 | a call, one thread's step, a ConfigMap |
| `Kubereplay` | `tools/kubereplay`: capture, replay | an audit event, an event of the replay |
| `MC*` | instances for TLC | |
| `BatcherProofs`, `ExecutorProofs`, `LaunchProofs`, `OfferingsProofs`, `CacheProofs`, `ProfileProofs`, `ProviderProofs`, `InterruptionProofs` | theorems, see section 5 | |

State and code, where it is not plain from the module:

- **`Batcher`**: `requests`, `trigger` and `requestor` are the fields and channels of the
  code; `pc` is where each caller stands in Add, `run` where the goroutine stands, `taken` the
  local map of run, `calls` the workers. Timers of waitForIdle fire at any time. The executor
  is a constant operator `Exec` with the contract of the type `BatchExecutor`.
- **`CreateFleet`** replaces the step Execute by one call of EC2 that may fail after starting
  instances, return too few, too many, or spread over several reservations.
- **`InstanceBatch`** starts from every batch over the instance ids, duplicates included, and
  every state of the instances, and runs either executor (`api`).
- **`Offerings`**: an entry is absent, live or expired (missed by Get, not yet removed). Setting
  an entry and advancing its counter are two steps, and so are removing it and OnEvicted.
  `held` and `gone` are history variables: the entries that were in force, or absent, during
  all of a call, against which its answer is judged. So is the `number` of a cached answer: the
  sequence number that the call which computed it had read.
- **`CapacityReservation`**: `clock` may advance at any moment; `now` fields hold a reading made
  before a lock is taken. `returned` is a history variable.
- **`PlacementGroup`**: the short cache, the 24-hour cache, the condition, one node with its
  labels. `forgets` counts restarts and outages longer than the long cache.
- **`LaunchTemplate`**: templates have a name and an id; `evicted` holds the items of a cleanup
  whose callbacks are pending; `onEvicted` is off while InvalidateCache runs. `outOfSync` and
  `dropped` are history variables. An item expires only when no launch is between taking it
  and its end: an assumption on time, since its lifetime is renewed by each use and a launch
  takes seconds. A launch that outlives it can lose its template and depends on the retry.
- **`InstanceProfile`**: one NodeClass in the API server and in the informer, its NodeClaims in
  both, the profiles in IAM, the four caches. A role may have a path; `BaseOf` gives the name IAM
  knows. `doomed` is a history variable: profiles the collector chose while Create was still at
  work on them. Time is in the guards of the expiry actions: reconciliations and informer lag
  are shorter than a minute, entries made together expire in the order of their lifetimes, and
  an hour of protection outlives a launch and a pass of the collector.
- **`InstanceLifecycle`**: an instance is `old` once it is past the collector's 30 seconds; that a
  NodeClaim has stored its id by then, and that the informer shows it, is an assumption on time
  (`Age`). EC2 shows an instance in lists and lookups only some time after its launch.
- **`InstanceLaunch`**: minValues of a NodeClaim is for its instance types; there are no more types
  than a request may hold, so that Truncate drops none and fails where too few are left.
- **`InstanceTypes`**: the learnt memory lapses at any time, its 60 days being renewed by reports only;
  `least` is the history of the reports since then.
- **`Kubereplay`**: time is the place in the audit log. A job's completion is written to its status, which
  the parser skips, and shows in later writes of the full object, in whole seconds. A call of the
  target's API may fail with or without effect; `failed` are the events the replay reports as FAILED.

Code outside the repository is modelled from its use and marked external in the map: go-cache
(expired items are missed before they are cleaned up; the cleanup collects the items under the
cache's lock and calls the callback for each outside of it, reading the callback anew), EC2's
answers, and the parts of Karpenter's core that call the provider.

## 3. The runs

| Run | Shows | Bounds |
|---|---|---|
| `batcher` | every request is in one place and answered with its own result; no lost wakeup, no blocked worker; shutdown drains; `Batcher` implements `BatchService` | 3 requests, 2 hashes, window of 2, 2 workers: the smallest with two requests in a bucket next to another bucket, a full window, a trigger left over and two workers at once |
| `launches` | no instance is shared or forgotten and no answer is empty; each slot of a batch is answered about its own instance; what the filters leave is allowed and unambiguous, and what a failure marks is what the next launch avoids; a recording replays to the recorded state, and jobs with the durations the log tells | 3 requests of one hash, window of 2, 1 worker, one surplus instance: a full batch and a rest; batches of up to 3 over 2 instances: a duplicate next to another instance; two launches in a row, by 5 kinds of NodeClaim, over clusters of at most two of ten offerings, of on-demand and two others, or of two sibling reservations and two others; 1 deployment, 1 job (created, completed, written and its name used again takes 4), 4 audit events, 1 interrupt or failing call |
| `offerings` | an answer is never stale with respect to entries that did not change during the call, and all is offered again; a kubelet gets what the scheduler counted on | 1 NodeClass with a placement group, 1 caller, 2 marks (one hides another); 1 change of spec, gate or types |
| `offerings_two_classes` | violation: finding 1 | 2 NodeClasses, 1 mark |
| `caches` | templates: a launch fails only if each of its two tries lost a template to a deletion of its own, those in use stay, unused ones go, every launch ends. Reservations: a slot is returned once, the count stays in range and does not stay at zero | 2 launches sharing 2 templates (with one shared template the callback cannot meet a second try), one template left by an earlier process, 1 deletion from outside, 3 ids; 2 NodeClaims and another owner for 1 slot, so that everything is contended; a clock of two values gives before, same and after |
| `polls` | prices are not lost to a failing poll, follow AWS, and readers are not locked out; drift has a reason, and a lasting reason is found | a type of the compiled table and a bare-metal one, 2 zones, 2 events; 2 subnets, 2 groups, 1 reservation, 2 events |
| `instance_profile` | profiles in use are kept, ready means usable, finalize leaves nothing, leftovers are collected, the NodeClass becomes usable | 2 generated names besides the legacy and the user's one, 2 roles (one missing at first, one with a path), 1 NodeClaim, a new or an upgraded NodeClass, 1 event |
| `interruption` | no interruption is lost, nothing is deleted without a cause, an offering is marked before its node is replaced, broken nodes go even when their drain is blocked | 2 instances, 2 messages, 2 events |
| `instance_lifecycle` | the collector never takes an owned instance and finds every leaked one; tags and cache follow EC2; a shift keeps the cache | 1 NodeClaim that may be launched twice, 2 instances, 2 events |
| `controllers` | placement groups, subnets, hash migration, zonal shifts, the end of reservations, the simulated EC2 | two of each thing that competes (launches, NodeClaims, zones, subnets, partitions), 1 to 3 events |
| `placement_group_partition` | violation: finding 2 | two allowed partitions |
| `nodeclass` | validation is of what is stored and leads to the right condition; AMIs are current and drift has a cause; instance types are current, follow the learnt memory and its lapse, and nobody is locked out | 4 kinds of spec, 3 images of 2 variants, 2 listers, 2 or 3 events |

Symmetry is used where it is sound: in `launches`, which checks no liveness, the requests are
interchangeable (`MCSymmetry`), and so are two sibling reservations, of which a cluster has the first or both; in `caches` both
launches need the same templates, so the first one to begin is called `l1` (`FirstBegins`). That the
second capacity block comes only with the first, and the plain reservation of an exotic type only with one of
the other type, is not symmetry but a bound of `launches`.

Components without common state share a run: a variable `mode` is chosen at the start and says
which of them takes steps, under its own fairness. This asks each its own questions and
interleaves nothing that does not interact. A property that ends in `Inv` is the conjunction of the
safety invariants of a component, with its type invariant; `Live` is that of its temporal
properties, and `Contract` of both. The conjuncts are defined and explained just before.

An event is something the environment or a failure does: a change or deletion of a spec, a failing
call, a conflict, a restart, a shift. Few events let each of them interleave with everything
else; combinations of more events than the bound are outside of it.

Deadlock is not checked where the system really may stop: after Shutdown, when a batch is
returned, when all launches have ended or the node is registered. Each property of a passing
run has a mutant, a definition that changes one mapped definition the way a bug would, under
which TLC finds the property violated; the mutants stand in the modules before what they change.

## 4. Fairness

- `Batcher`: goroutines that can run do, timers fire, AWS calls end. Go's select is random among
  ready cases, so the Done case and the timers get weak fairness of their own. Callers need not
  call, the process need not stop.
- `Offerings`: entries expire, the cleanup runs, a mark in progress completes and reconcilers
  keep asking. The resolver's own TTL gets no fairness: freshness must not depend on it.
- `CapacityReservation`: the NodeClass controller polls, the query cache lapses, and EC2 does not
  fail for ever (strong fairness of the successful call only).
- `InstanceTypes`, `Pricing`: strong fairness for those who compete for a mutex all the time, which
  Go hands to a starving waiter; weak fairness for pollers, for time, and for the refreshes of the
  instance types, which only their own steps disable (a waiting writer keeps new readers out).
- `LaunchTemplate`: weak fairness of the launches, of the janitor, of hydration and of time. A launch
  takes the lock a bounded number of times, so nobody starves.
- `InstanceProfile`: both controllers run, watches deliver and entries expire. Each name has its turn
  in the collector, because a pass lists them all (strong fairness per name). Nobody need create a
  NodeClaim, change the spec or create a missing role.
- `AmiDiscovery`, `NodeDrift`, `NodeClassReady`: reconcilers run and caches expire (weak fairness). The
  sweep of the SSM cache and a list that misses its cache recur, because each is periodic (strong
  fairness).
- The other controllers: weak fairness of their own steps and of the informers. Failures are events
  and get none.

## 5. What is proved

Eight modules of proofs, all checked by `tlapm`. Assumptions on constants are stated, by name, in the
module that declares them, and TLC evaluates them in the runs. They say that sets are finite where
the code counts, bounds are numbers, and the values that stand for "nothing" are not values; what
else they say is noted below.

| Theorem | States, for every value of the constants |
|---|---|
| `BatcherProofs!BatcherSafety` | `BatcherInv`: no request is lost or duplicated, answers are one's own, no blocked worker, no lost wakeup, one hash per batch, drained when stopped |
| `BatcherProofs!ServiceRefinement` | `ServiceSafety`: `Batcher` implements `BatchService` |
| `ExecutorProofs!FleetSafety` | `FleetInv`: no instance goes to two callers, none that was asked for is forgotten, no answer is empty |
| `ExecutorProofs!InstanceBatchSafety`, `AnswersAreKept` | `InstanceBatchInv`, `AnswerKept`: every slot is answered about its own instance, success means terminating, retries do not overwrite |
| `LaunchProofs!LaunchSafety` | `LaunchInv`: a reserved request is unambiguous, and an offering is closed only for a failure that concerns it |
| `LaunchProofs!LaunchesAreRight`, `RefusalsAreRemembered` | `LaunchIsRight`, `RefusedIsNotAskedAgain`: a request is allowed, launchable, refused only if nothing is left or too little for minValues, and no dearer or more exotic than needed; what EC2 refused is not asked for again |
| `OfferingsProofs!OfferingsAreFresh` | `OfferingsInv`, for any reconcilers and NodeClasses: an answer computed from the number that the call has read is fresh, and a sole caller gets no other |
| `CacheProofs!ReservationSafety` | `ReservationInv`: a slot is returned once, the count stays in range |
| `CacheProofs!TemplatesInUseStay`, `TemplatesAreTracked` | `NotDeletedInUse`: the eviction callback spares a template in use; the cache keeps track of all templates |
| `ProfileProofs!ProfilesAreSafe`, `FinalizeLeavesNone` | `ProfileInv`, `FinalizedIsClean`: profiles in use are kept, ready means usable, finalize leaves none |
| `ProviderProofs!PlacementSafety`, `ErrorsAreHarmless` | `PlacementInv`, if a NodeClaim requires at most one partition; without that condition `LaunchedInGroup` and `NoFalseDrift` |
| `ProviderProofs!PricingSafety`, `PricesNeverLost` | `PricingInv` and `PricesAreMaintained`: no price is lost to a failing poll |
| `ProviderProofs!LifecycleSafety`, `ShiftKeeps` | `LifecycleInv`, `ShiftKeepsEntries`: the collector spares owned instances, annotated means tagged, a shift keeps the cache |
| `InterruptionProofs!InterruptionIsSafe`, `OfferingMarkedFirst` | `InterruptionInv`, `MarkedBeforeReplaced`: no interruption is dropped, nothing is deleted without a cause, an impairment is counted once, the offering is marked first |

Two statements have a condition on the constants, and it is needed: findings 1 and 2 of section 7 are
what happens without it. One is that at most one partition is required (`PlacementSafety`); the other, in
the last conjunct of `OfferingsInv`, that there is one reconciler and one NodeClass.

The arguments. None of these properties is inductive alone. For the batcher, the executors, the caches,
pricing and the lifecycle, what is added is a definition of the component's module and a conjunct of the
invariant that the run checks; for the others the inductive invariant (a name that ends in `IInv`) stands at
the head of its proofs, and TLC has checked it on the instance of the
run (`OfferingsIInv` on smaller ones), its quantifiers over numbers and strings cut down to those that occur.

- **Batcher.** Further assumptions: at least one worker is allowed; the executor returns at most as
  many results as inputs, in the order of the inputs (the comment on `BatchExecutor`). `IInv` adds
  `Bucketed` (distinct requests, each under its own hash), `WellFormedCalls` (results fit the batch by
  position, and nothing is delivered before the executor returns), `DisjointCalls` (no two workers
  owe the same request), `RunPhase`, `OwnChannel` and `ReturnedWithResult`. One lemma per action;
  steps that move no request share `QuietStep`.
- **Refinement.** Under the mapping in `Batcher`, a registration is Submit, the return of the executor
  is AnswerBatch of the worker's whole batch, a receive is Return, and Shutdown is Close. Every other
  step is shown to leave the mapped variables as they are; `IInv` gives that an answered batch was
  pending and of one hash.
- **CreateFleet** is `Batcher` with an executor of its own: `FleetIsBatcher` shows its steps to be
  steps of `Batcher`, which gives it `IInv`. `InstancesDealt` adds that an answer says something, that
  its instance is nobody else's, because it is named after a request of its own fleet, and that
  every instance that was asked for is in an answer. Assumed of the constant executor: it allows
  what this one returns.
- **InstanceBatch.** `SlotsFollow`: a request whose instance was found has it, one whose instance is
  still to be asked for has the zero result, and one whose goroutine is done has an answer about
  its own instance.
- **InstanceLaunch.** Assumed of the catalog: prices are numbers, an instance type has one offering per
  capacity type and zone outside reservations and one per reservation. The first half of the module
  follows the filters of Create in their order: the lemmas from `MarketFilter` to `FilteredOthers` say
  what each one leaves, with `HasCheapest` and `HasRoomiest` for its choices. `LaunchIInv` links the failures so far with the marks, in both
  directions: `AllNoted` (what is to be remembered is in the count, the capacity types, the subnets or
  the offerings, in its scope) and `MarkedForCause` (each mark is the trace of a failure).
- **Offerings.** `OfferingsIInv` says of a cached answer, and of one being computed, that there were past
  sets of entries `L`, one per offering, from which it was computed (`Snapshot`). If `L` disagrees with what is
  in force or absent now, the number of the answer is behind the sum of the counters; if it disagrees with
  what was so throughout a call that is still reading, the number is behind what that call can read
  (`Reach`: what it has read so far and what is still to read, which never decreases). So a call that reads the
  number of the answer agrees with `L`. For a sole caller `NumbersAgree` adds that the number the resolver
  compares with is the number of the cached answer. The witnesses are values, not history variables.
- **CapacityReservation.** `SlotsAccounted`: EC2's slots are not overdrawn, an instance whose slot was
  returned is in the termination cache or its NodeClaim is removed, and the count is at most
  the capacity plus the slots returned. Facts about cardinality come from the library.
- **LaunchTemplate.** `TemplatesTracked` has four parts: `LockIsHeld` (the lock is where the steps say),
  `IdsAreApart` (an id found under one name is never that of another), `CacheTracks` (a template in
  EC2 is what the cache has, or a launch is about to put it there, or it is let go of), and `UseIsSafe`
  (what is in use and not let go of is cached). When the callback has the lock no launch is between
  EC2 and the cache, so the uncached name of its item is not in use: `CallbackStep`. The theorem
  rests on the assumption on time of section 2, which is in the guard of `ExpireTemplate`.
- **InstanceLifecycle.** `IdStoredOnce` (a NodeClaim gets its id once, and the informer's copy lags but
  does not differ), `OldIsStored` (what is past the age check is on its way to no NodeClaim, and the
  informer shows its owner) and `WorkIsKnown` (what a controller works on stays what it was when it
  looked). The collector reads EC2 first and the informer after, so an old instance it found is
  owned only if the informer says so. `OldIsStored` rests on the assumption on time in `Age`.
- **InstanceProfile.** `ProfileIInv` is `Control /\ (Over \/ Alive)`: `Control` is where the two threads
  are and how old their copies of the NodeClass may be; `Over` holds once finalize is past its wait
  for NodeClaims, when nothing can be launched from the NodeClass again. Until then `Alive`: a name that
  the NodeClass, the informer, the reconciliation in progress, the recreation cache, a launch or a
  NodeClaim has (`Named`) has its role in IAM, and where two of these may differ both are
  protected (`Sheltered`), so that the collector, which reads the NodeClasses, the NodeClaims and the
  protection one after the other, does not choose it. Time is in the guards of section 2.
- **PlacementGroup.** `GroupRemembered`: while the group exists and the process remembers it, an answer
  of Get that a launch or a drift check works with has the group, errors included. `PartitionFollows`:
  the partition of the instance and the label come from the same requirement.
- **Interruption.** `InformerLags` (a copy of a NodeClaim is an earlier state of it), `EveryTaskCaused` (a
  handler works on a pair because of its message, or of the poller's instance), `MessagesHandled` (a message
  without an error so far has dealt with all of its instances but those still to do), `Midway` (between
  two calls the offering is already marked) and `CountSound` (a category that was counted is in one of
  the poller's two sets, has recovered, or its NodeClaim is gone).
- **Pricing.** `PollHoldsSteady`: a poll in progress has the prices of the zones it is done with, and
  once spot prices were updated those always published are known. Prices are only stored whole.

## 6. What is only model-checked

- All liveness, and so the `Live` and `Contract` properties, which have temporal parts: the prover
  handles neither fairness nor ENABLED.
- `RetrySuffices` of `LaunchTemplate` (its run also checks `TemplatesTracked`): it bounds how often each
  of several launches can be put out of step, which takes an invariant over their histories.
  It depends on the bounds: with a single shared template a stronger form holds that two shared
  templates refute (section 7). It also holds with 3 launches and 4 ids (27 million states), and with
  2 deletions from outside and 5 ids (10 million), which are too large for the run.
- `NodeDrift`, `NodeClassReady`, `NodeClassHash`, `AmiDiscovery`, `InstanceTypes`, `ZonalShift`,
  `ReservationSync`, `Subnet`, `Kwok`: their safety is checked on the instances of section 3, most of it
  as a part of a `Contract`, together with the liveness that gives it its sense.
- `OwnNumberIsFresh`, besides its proof, also holds with 2 reconcilers and 1 mark, and with 2 NodeClasses and
  2 marks. `ReplayInv` also holds with 2 deployments (9 million states), with 5 audit events (11 million),
  and with 3 interrupts or failing calls.
- `KubeletInv` and `ReplayInv`: `KubeletResources` and `Kubereplay` compute over lists and tables; that such
  a computation is right for every input needs induction over data, which the provers here do not do.

## 7. What the models show about the code

Two findings, each a violation run with a short counterexample:

1. `offerings_two_classes`. The sequence number that guards cached offerings is kept per instance
   type, the offerings per instance type and NodeClass. After a mark, the NodeClass that resolves
   first stores the new number, and the other one reuses its stale answer until the TTL.
2. `placement_group_partition`. With several allowed partitions the launch takes the lowest and the
   label the first of an unsorted list.

Observations that have no run of their own. The properties are stated so as to except these cases,
or the models contain them as steps.

Launches and offerings:

- A partition entry of the unavailable offerings (`instance.go:476`) is never looked up, though
  the comment at `:471` says it scopes the entry.
- Two concurrent offering calls for one NodeClass (`base_resolver.go:147`) can leave older offerings
  under the newer number.
- A reserved launch that meets a spread limit marks nothing (`instance.go:718`).
- MarkLaunched compares the sync time with a clock read after the launch; a poll in between makes
  the launch count twice, an underestimate, where the comment (`capacityreservation/types.go:142`) would
  rather overestimate. The next poll corrects it.
- An early failure of a launch keeps its deduction of addresses until the next refresh, and the
  add-back of `subnet.go:210` compares counts, which may be equal across a refresh.
- If every reserved entry of a kubelet configuration resolves to nothing, the raw expressions reach the
  node (`resolver.go:250`).

Templates, profiles and groups:

- While one launch invalidates a template, the callback of an earlier eviction may delete the
  template another launch has just ensured. If that launch is in its first try, it recovers; in its
  second try it fails, though only one template was ever deleted from outside. It takes two
  launches that share two templates: both lose the first one, and the slower one invalidates the
  second as well, which the faster one has ensured again. The comment on the retry promises a new
  template for the first try only, so this is no finding; `RetrySuffices` counts the deletion.
- InvalidateCache switches the eviction callback off without go-cache's lock. A cleanup at that
  moment drops items without deleting their templates, and one that is between two callbacks
  calls a nil function; the process then restarts and hydration finds the templates again.
- Hydration may store a template that was deleted since it was listed; a launch that uses it
  loses a try, which `RetrySuffices` counts like a deletion from outside.
- The collector can choose a profile between CreateInstanceProfile and protectProfile
  (`controllers/nodeclass/instanceprofile.go:103`). The NodeClass then becomes ready with a profile
  that is gone, until the 15-minute cache expires; `ProfileLive` shows that it heals.
- For a role with a path, AddRole and the not-found cache use the base name, the checks the full one.
  So the cache never refuses such a role, and its profile is replaced whenever the cache expires.
- After a placement group is deleted the condition turns ready again at the next cached answer
  (`designs/placement-groups-support.md:530` says otherwise). After a restart, one failing call of
  EC2 makes Get return no group: the launch goes outside of it, or the node is called drifted.

Drift and the NodeClass:

- An SSM error that skips a variant makes its nodes drift (`drift.go:98`; compare
  `managing-amis.md:42`). A cached SSM parameter that names a deregistered AMI stays for 24 hours.
- In a shifted zone, Get with SkipCache answers from the cache, so a demoted instance can be
  reported as CapacityReservationDrift (`drift.go:139`).
- Static drift may be reported while an annotation lags, is masked by a migration of hash versions,
  and a rollback of the version can hide a change.
- A terminal validation error stops the requeues of the other reconcilers, and ValidationSucceeded keeps an
  old True while dry runs are throttled.
- Discovered memory that changes, or lapses after 60 days without a report, is in the listed instance types
  only when their cache lapses.

Lifecycle and interruption:

- The age check of the collector is an assumption on time; tagging does not retry a NotFound.
- Get does not evict on an empty describe. A cancelled zonal shift lingers while another one is active
  (`designs/zonal-shift.md:77`), and the guards of a shifted zone depend on the cache entry.
- A message for an instance whose NodeClaim lacks its id is deleted unhandled; the state change parser
  compares states without lower case; the instance-status metric is counted again after an error, and
  an omitted ImpairedSince passes the threshold at once; a termination timestamp may be patched
  again over a stale copy.

Pricing and the tools:

- A region without bare-metal types never refreshes on-demand prices; locks are held over network
  calls; a type without spot data loses its default after the first update.
- kwok: a shift of ConfigMap chunks and a crash can lose a backed-up instance, CreateTags replaces all
  tags (`ec2.go:793`), and a failed ConfigMap delete leads to an index out of range (`ec2.go:194`).
- kubereplay: a scale seen before its create is dropped (`capture.go:157`), two names may be
  sanitized to one, and an interrupted replay returns without its cleanup. A failed create fails the later
  scales of its deployment; other failures are made up for by the next event. Job completions are written to
  the status subresource, which the parser skips (`audit.go:258`), so that a job gets its duration only if
  somebody writes the full object after that; otherwise, and when the completion, in whole seconds, does not
  come after the create, it is replayed with the default of 10 seconds.

## 8. Not modelled

`PROJECT.json` lists every part with its status and reason. Half of the lines of the repository are
generated tables (prices, bandwidths, network limits), and much of the rest is text or wiring:
bootstrap user data, the rendering of AMI families, device metadata, API types, error codes, options,
metrics, documentation generators. The models follow the state that is left: about 11% of all lines.

Within the modelled parts: of what a launch template contains, only the kubelet values; the translation
of selector terms into filters; isolated VPCs in finalize, legacy profile names that IAM would refuse,
and replacing the role of an existing profile; events and metrics; jitter and the exact lifetimes
of caches, which expire at any time that the guards of section 2 allow.
