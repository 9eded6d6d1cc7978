---------------------------- MODULE LaunchTemplate ----------------------------
(***************************************************************************)
(* The launch templates in EC2 and the cache in front of them              *)
(* (pkg/providers/launchtemplate), with the launches that use them         *)
(* (pkg/providers/instance).  Templates are found by name and deleted by   *)
(* id; a name that is deleted and created again has a new id.              *)
(*                                                                         *)
(* EnsureAll, InvalidateCache and the eviction callback run under the      *)
(* provider's lock.  The cache's cleanup, the hydration at the start and   *)
(* those who delete templates in EC2 do not.                               *)
(***************************************************************************)
EXTENDS Integers, FiniteSets

CONSTANTS
    Launches,       \* the launches
    Needs,          \* the names of the templates of each launch
    Earlier,        \* names that an earlier process may have left in EC2
    MaxId,          \* bound on the templates ever created
    MaxForeign,     \* bound on the templates deleted by others
    Janitor,        \* the cache's cleanup goroutine
    NoTemplate

Names == UNION {Needs[l] : l \in Launches} \cup Earlier

Ids == 1..MaxId

ASSUME NeedsAssumption ==
    /\ Needs \in [Launches -> SUBSET Names]
    /\ Janitor \notin Launches /\ NoTemplate \notin Launches \cup {Janitor}
    /\ IsFiniteSet(Earlier) /\ MaxId \in Nat /\ Cardinality(Earlier) <= MaxId
    /\ NoTemplate \notin Ids /\ NoTemplate \notin Names
    /\ NoTemplate \notin [id: Ids, live: BOOLEAN]

VARIABLES
    ec2,        \* the id of the template of each name, or NoTemplate
    nextId,
    cache,      \* the cached item of each name, or NoTemplate
    onEvicted,  \* the cache has its callback
    evicted,    \* items of the last cleanup whose callback is still to be called
    janitor,    \* the callback that runs
    lock,       \* the holder of the provider's lock
    launch,     \* the progress of each launch
    hydrate,    \* the hydration of the cache
    outOfSync,  \* how often the cache was put out of step with EC2
    dropped     \* history: templates the cache let go of without deleting them

templateVars == <<ec2, nextId, cache, onEvicted, evicted, janitor, lock, launch, hydrate, outOfSync, dropped>>

-----------------------------------------------------------------------------

Item(n, id) == [name |-> n, id |-> id]

Cached(id, live) == [id |-> id, live |-> live]

\* Cache.Get finds an item until it expires, whether or not it was cleaned up.
Hit(n) == cache[n] # NoTemplate /\ cache[n].live

\* A launch at its start: the first try, with all its templates to ensure.
Begin(l) == [pc |-> "begin", try |-> 1, todo |-> Needs[l], name |-> NoTemplate, id |-> NoTemplate]

IdleJanitor == [pc |-> "idle", item |-> NoTemplate]

\* How a launch may end.
Ended == {"launched", "error", "notFound"}

TemplateInit ==
    /\ \E S \in SUBSET Earlier, f \in [Earlier -> 1..Cardinality(Earlier)] :
          /\ \A m, n \in Earlier : f[m] = f[n] => m = n
          /\ ec2 = [n \in Names |-> IF n \in S THEN f[n] ELSE NoTemplate]
    /\ nextId = Cardinality(Earlier) + 1
    /\ cache = [n \in Names |-> NoTemplate]
    /\ onEvicted = TRUE
    /\ evicted = {}
    /\ janitor = IdleJanitor
    /\ lock = NoTemplate
    /\ launch = [l \in Launches |-> Begin(l)]
    /\ hydrate = [pc |-> "list", page |-> {}]
    /\ outOfSync = 0
    /\ dropped = {}

-----------------------------------------------------------------------------
(* EnsureAll *)

Lock(p) == lock = NoTemplate /\ lock' = p

Unlock(p) == lock = p /\ lock' = NoTemplate

EnsureAll(l) ==
    /\ launch[l].pc = "begin"
    /\ Lock(l)
    /\ launch' = [launch EXCEPT ![l].pc = "ensure", ![l].todo = Needs[l]]
    /\ UNCHANGED <<ec2, nextId, cache, onEvicted, evicted, janitor, hydrate, outOfSync, dropped>>

\* A cached template is taken, and its expiry put off; ...
EnsureCached(l, n) ==
    /\ launch[l].pc = "ensure" /\ n \in launch[l].todo
    /\ Hit(n)
    /\ launch' = [launch EXCEPT ![l].todo = @ \ {n}]
    /\ UNCHANGED <<ec2, nextId, cache, onEvicted, evicted, janitor, lock, hydrate, outOfSync, dropped>>

\* ... another one is looked up in EC2 ...
EnsureDescribe(l, n) ==
    /\ launch[l].pc = "ensure" /\ n \in launch[l].todo
    /\ ~Hit(n)
    /\ launch' = [launch EXCEPT ![l].pc = IF ec2[n] = NoTemplate THEN "create" ELSE "set",
                                ![l].name = n, ![l].id = ec2[n]]
    /\ UNCHANGED <<ec2, nextId, cache, onEvicted, evicted, janitor, lock, hydrate, outOfSync, dropped>>

\* ... and created if there is none.
CreateLaunchTemplate(l) ==
    /\ launch[l].pc = "create"
    /\ nextId <= MaxId
    /\ ec2' = [ec2 EXCEPT ![launch[l].name] = nextId]
    /\ nextId' = nextId + 1
    /\ launch' = [launch EXCEPT ![l].pc = "set", ![l].id = nextId]
    /\ UNCHANGED <<cache, onEvicted, evicted, janitor, lock, hydrate, outOfSync, dropped>>

EnsureSet(l) ==
    /\ launch[l].pc = "set"
    /\ cache' = [cache EXCEPT ![launch[l].name] = Cached(launch[l].id, TRUE)]
    /\ launch' = [launch EXCEPT ![l].pc = "ensure", ![l].todo = @ \ {launch[l].name},
                                ![l].name = NoTemplate, ![l].id = NoTemplate]
    /\ UNCHANGED <<ec2, nextId, onEvicted, evicted, janitor, lock, hydrate, outOfSync, dropped>>

\* EC2 fails, and EnsureAll returns the error.
EnsureError(l) ==
    /\ launch[l].pc = "create" \/ (launch[l].pc = "ensure" /\ \E n \in launch[l].todo : ~Hit(n))
    /\ Unlock(l)
    /\ launch' = [launch EXCEPT ![l].pc = "error", ![l].name = NoTemplate]
    /\ UNCHANGED <<ec2, nextId, cache, onEvicted, evicted, janitor, hydrate, outOfSync, dropped>>

EnsureReturn(l) ==
    /\ launch[l].pc = "ensure" /\ launch[l].todo = {}
    /\ Unlock(l)
    /\ launch' = [launch EXCEPT ![l].pc = "fleet"]
    /\ UNCHANGED <<ec2, nextId, cache, onEvicted, evicted, janitor, hydrate, outOfSync, dropped>>

-----------------------------------------------------------------------------
(* CreateFleet *)

CreateFleet(l) ==
    /\ launch[l].pc = "fleet"
    /\ \A n \in Needs[l] : ec2[n] # NoTemplate
    /\ launch' = [launch EXCEPT ![l].pc = "launched"]
    /\ UNCHANGED <<ec2, nextId, cache, onEvicted, evicted, janitor, lock, hydrate, outOfSync, dropped>>

\* A template is not found: all templates of the launch are to be invalidated.
FleetNotFound(l) ==
    /\ launch[l].pc = "fleet"
    /\ \E n \in Needs[l] : ec2[n] = NoTemplate
    /\ launch' = [launch EXCEPT ![l].pc = "invalidate", ![l].todo = Needs[l]]
    /\ UNCHANGED <<ec2, nextId, cache, onEvicted, evicted, janitor, lock, hydrate, outOfSync, dropped>>

\* InvalidateCache takes the callback off the cache, ...
InvalidateCache(l, n) ==
    /\ launch[l].pc = "invalidate" /\ n \in launch[l].todo
    /\ Lock(l)
    /\ onEvicted' = FALSE
    /\ launch' = [launch EXCEPT ![l].pc = "delete", ![l].name = n]
    /\ UNCHANGED <<ec2, nextId, cache, evicted, janitor, hydrate, outOfSync, dropped>>

\* The template of name n, if its item is cached and it is still in EC2.
Abandoned(n) == IF cache[n] # NoTemplate /\ cache[n].id = ec2[n] THEN {ec2[n]} ELSE {}

\* Mutant: the callback is left in place, so Delete calls it, and it waits for the
\* lock its caller holds.
InvalidateDeleteWithCallback(l) ==
    /\ launch[l].pc = "delete"
    /\ cache[launch[l].name] # NoTemplate => lock = NoTemplate
    /\ cache' = [cache EXCEPT ![launch[l].name] = NoTemplate]
    /\ dropped' = dropped \cup Abandoned(launch[l].name)
    /\ launch' = [launch EXCEPT ![l].pc = "restore"]
    /\ UNCHANGED <<ec2, nextId, onEvicted, evicted, janitor, lock, hydrate, outOfSync>>

\* Mutant: the item stays in the cache.
InvalidateDeleteNothing(l) ==
    /\ launch[l].pc = "delete"
    /\ launch' = [launch EXCEPT ![l].pc = "restore"]
    /\ UNCHANGED <<ec2, nextId, cache, onEvicted, evicted, janitor, lock, hydrate, outOfSync, dropped>>

\* ... deletes the item, ...
InvalidateDelete(l) ==
    /\ launch[l].pc = "delete"
    /\ cache' = [cache EXCEPT ![launch[l].name] = NoTemplate]
    /\ dropped' = dropped \cup Abandoned(launch[l].name)
    /\ launch' = [launch EXCEPT ![l].pc = "restore"]
    /\ UNCHANGED <<ec2, nextId, onEvicted, evicted, janitor, lock, hydrate, outOfSync>>

\* ... and puts the callback back.
InvalidateReturn(l) ==
    /\ launch[l].pc = "restore"
    /\ Unlock(l)
    /\ onEvicted' = TRUE
    /\ launch' = [launch EXCEPT ![l].pc = "invalidate", ![l].todo = @ \ {launch[l].name},
                                ![l].name = NoTemplate]
    /\ UNCHANGED <<ec2, nextId, cache, evicted, janitor, hydrate, outOfSync, dropped>>

\* The launch is tried once more, ...
Retry(l) ==
    /\ launch[l].pc = "invalidate" /\ launch[l].todo = {}
    /\ launch[l].try = 1
    /\ launch' = [launch EXCEPT ![l] = [Begin(l) EXCEPT !.try = 2]]
    /\ UNCHANGED <<ec2, nextId, cache, onEvicted, evicted, janitor, lock, hydrate, outOfSync, dropped>>

\* ... and fails if that does not find its templates either.
GiveUp(l) ==
    /\ launch[l].pc = "invalidate" /\ launch[l].todo = {}
    /\ launch[l].try = 2
    /\ launch' = [launch EXCEPT ![l].pc = "notFound"]
    /\ UNCHANGED <<ec2, nextId, cache, onEvicted, evicted, janitor, lock, hydrate, outOfSync, dropped>>

-----------------------------------------------------------------------------
(* The cache's cleanup and the eviction callback *)

\* A launch has ensured n and not yet had the answer of CreateFleet.
InUse(n) ==
    \E l \in Launches :
        /\ launch[l].pc \in {"ensure", "create", "set", "fleet"}
        /\ n \in Needs[l]
        /\ launch[l].pc = "fleet" \/ n \notin launch[l].todo

\* A launch under way has ensured n, in its first try or in its second.
Recent(n) ==
    \/ InUse(n)
    \/ \E l \in Launches :
          /\ n \in Needs[l]
          /\ launch[l].pc \in {"invalidate", "delete", "restore"} \/ (launch[l].try = 2 /\ launch[l].pc \notin Ended)

\* The TTL of an item, a minute from its last use, is taken to be longer than a
\* launch, and than hydration.
ExpireTemplate(n) ==
    /\ Hit(n)
    /\ ~Recent(n) /\ hydrate.pc = "done"
    /\ cache' = [cache EXCEPT ![n].live = FALSE]
    /\ UNCHANGED <<ec2, nextId, onEvicted, evicted, janitor, lock, launch, hydrate, outOfSync, dropped>>

Expired == {n \in Names : cache[n] # NoTemplate /\ ~cache[n].live}

\* DeleteExpired removes all expired items under the cache's own lock.  It keeps
\* them for the callback, if there is one at that moment.
DeleteExpired ==
    /\ janitor = IdleJanitor /\ evicted = {}
    /\ Expired # {}
    /\ cache' = [n \in Names |-> IF n \in Expired THEN NoTemplate ELSE cache[n]]
    /\ evicted' = IF onEvicted THEN {Item(n, cache[n].id) : n \in Expired} ELSE {}
    /\ dropped' = IF onEvicted THEN dropped ELSE dropped \cup UNION {Abandoned(n) : n \in Expired}
    /\ UNCHANGED <<ec2, nextId, onEvicted, janitor, lock, launch, hydrate, outOfSync>>

\* It then calls the callback for each, reading it anew every time.
CallOnEvicted(item) ==
    /\ janitor = IdleJanitor /\ item \in evicted
    /\ onEvicted
    /\ janitor' = [pc |-> "called", item |-> item]
    /\ evicted' = evicted \ {item}
    /\ UNCHANGED <<ec2, nextId, cache, onEvicted, lock, launch, hydrate, outOfSync, dropped>>

\* If InvalidateCache has taken the callback off in the meantime, the call of a nil
\* function ends the process; launches under way begin again in the next one.
CallNil ==
    /\ janitor = IdleJanitor /\ evicted # {}
    /\ ~onEvicted
    /\ cache' = [n \in Names |-> NoTemplate]
    /\ onEvicted' = TRUE
    /\ evicted' = {}
    /\ janitor' = IdleJanitor
    /\ lock' = NoTemplate
    /\ launch' = [l \in Launches |-> IF launch[l].pc \in Ended THEN launch[l] ELSE Begin(l)]
    /\ hydrate' = [pc |-> "list", page |-> {}]
    /\ UNCHANGED <<ec2, nextId, outOfSync, dropped>>

\* Mutant: the callback does not look whether the name is cached again.
CachedEvictedNoCheck ==
    /\ janitor.pc = "called"
    /\ Lock(Janitor)
    /\ janitor' = [janitor EXCEPT !.pc = "delete"]
    /\ UNCHANGED <<ec2, nextId, cache, onEvicted, evicted, launch, hydrate, outOfSync, dropped>>

\* The callback takes the lock, and does nothing if the name is cached again.
CachedEvictedFunc ==
    /\ janitor.pc = "called"
    /\ IF Hit(janitor.item.name)
       THEN lock = NoTemplate /\ janitor' = IdleJanitor /\ UNCHANGED lock
       ELSE Lock(Janitor) /\ janitor' = [janitor EXCEPT !.pc = "delete"]
    /\ UNCHANGED <<ec2, nextId, cache, onEvicted, evicted, launch, hydrate, outOfSync, dropped>>

\* Otherwise it deletes the template by its id, ...
DeleteLaunchTemplate ==
    /\ janitor.pc = "delete"
    /\ ec2' = [n \in Names |-> IF ec2[n] = janitor.item.id THEN NoTemplate ELSE ec2[n]]
    /\ janitor' = IdleJanitor
    /\ Unlock(Janitor)
    /\ UNCHANGED <<nextId, cache, onEvicted, evicted, launch, hydrate, outOfSync, dropped>>

\* ... or logs that it could not.
DeleteError ==
    /\ janitor.pc = "delete"
    /\ dropped' = dropped \cup {janitor.item.id}
    /\ janitor' = IdleJanitor
    /\ Unlock(Janitor)
    /\ UNCHANGED <<ec2, nextId, cache, onEvicted, evicted, launch, hydrate, outOfSync>>

-----------------------------------------------------------------------------
(* Hydration, and those who delete templates in EC2 *)

HydrateList ==
    /\ hydrate.pc = "list"
    /\ hydrate' = [pc |-> "store", page |-> {Item(n, ec2[n]) : n \in {m \in Names : ec2[m] # NoTemplate}}]
    /\ UNCHANGED <<ec2, nextId, cache, onEvicted, evicted, janitor, lock, launch, outOfSync, dropped>>

\* EC2 fails: the templates of an earlier process stay unknown.
HydrateError ==
    /\ hydrate.pc = "list"
    /\ hydrate' = [pc |-> "done", page |-> {}]
    /\ dropped' = dropped \cup {ec2[n] : n \in {m \in Names : ec2[m] # NoTemplate}}
    /\ UNCHANGED <<ec2, nextId, cache, onEvicted, evicted, janitor, lock, launch, outOfSync>>

\* The items of the page are stored, without the lock, over what is there.
HydrateStore ==
    /\ hydrate.pc = "store"
    /\ IF hydrate.page = {}
       THEN hydrate' = [hydrate EXCEPT !.pc = "done"] /\ UNCHANGED <<cache, outOfSync, dropped>>
       ELSE \E item \in hydrate.page :
               /\ cache' = [cache EXCEPT ![item.name] = Cached(item.id, TRUE)]
               /\ hydrate' = [hydrate EXCEPT !.page = @ \ {item}]
               /\ outOfSync' = IF ec2[item.name] = item.id THEN outOfSync ELSE outOfSync + 1
               /\ dropped' = dropped \cup (Abandoned(item.name) \ {item.id})
    /\ UNCHANGED <<ec2, nextId, onEvicted, evicted, janitor, lock, launch>>

\* DeleteAll, for a NodeClass that is deleted, and others outside of the process
\* delete templates by name, and leave the cache as it is.
DeleteAll(n) ==
    /\ outOfSync < MaxForeign
    /\ ec2[n] # NoTemplate
    /\ ec2' = [ec2 EXCEPT ![n] = NoTemplate]
    /\ outOfSync' = outOfSync + 1
    /\ dropped' = dropped \ {ec2[n]}
    /\ UNCHANGED <<nextId, cache, onEvicted, evicted, janitor, lock, launch, hydrate>>

-----------------------------------------------------------------------------

LaunchStep(l) ==
    \/ EnsureAll(l) \/ CreateLaunchTemplate(l) \/ EnsureSet(l) \/ EnsureError(l) \/ EnsureReturn(l)
    \/ CreateFleet(l) \/ FleetNotFound(l) \/ InvalidateDelete(l) \/ InvalidateReturn(l)
    \/ Retry(l) \/ GiveUp(l)
    \/ \E n \in Names : EnsureCached(l, n) \/ EnsureDescribe(l, n) \/ InvalidateCache(l, n)

JanitorStep ==
    \/ DeleteExpired \/ CallNil \/ CachedEvictedFunc \/ DeleteLaunchTemplate \/ DeleteError
    \/ \E item \in evicted : CallOnEvicted(item)

HydrateStep == HydrateList \/ HydrateError \/ HydrateStore

TemplateNext ==
    \/ \E l \in Launches : LaunchStep(l)
    \/ JanitorStep
    \/ HydrateStep
    \/ \E n \in Names : ExpireTemplate(n) \/ DeleteAll(n)

TemplateSpec == TemplateInit /\ [][TemplateNext]_templateVars

\* Goroutines run, calls of EC2 end, and time passes.  The lock needs no more: each
\* launch takes it a bounded number of times, so it does not stay contended.
FairTemplateSpec ==
    /\ TemplateSpec
    /\ \A l \in Launches : WF_templateVars(LaunchStep(l))
    /\ WF_templateVars(JanitorStep)
    /\ WF_templateVars(HydrateStep)
    /\ \A n \in Names : WF_templateVars(ExpireTemplate(n))

-----------------------------------------------------------------------------
(* Properties *)

Progress ==
    [pc: Ended \cup {"begin", "ensure", "create", "set", "fleet", "invalidate", "delete", "restore"},
     try: 1..2, todo: SUBSET Names, name: Names \cup {NoTemplate}, id: Ids \cup {NoTemplate}]

TemplateTypeOK ==
    /\ ec2 \in [Names -> Ids \cup {NoTemplate}]
    /\ nextId \in 1..(MaxId + 1)
    /\ cache \in [Names -> [id: Ids, live: BOOLEAN] \cup {NoTemplate}]
    /\ onEvicted \in BOOLEAN
    /\ evicted \subseteq [name: Names, id: Ids]
    /\ janitor # IdleJanitor => janitor \in [pc: {"called", "delete"}, item: [name: Names, id: Ids]]
    /\ lock \in Launches \cup {Janitor, NoTemplate}
    /\ launch \in [Launches -> Progress]
    /\ hydrate \in [pc: {"list", "store", "done"}, page: SUBSET [name: Names, id: Ids]]
    /\ outOfSync \in Nat
    /\ dropped \subseteq Ids

\* The callback runs some time after the cleanup took the item out of the cache, and
\* a launch may have found the template again by then: what a launch has ensured
\* and is using is not deleted by the eviction of an earlier item, unless another
\* launch has invalidated it in between.
NotDeletedInUse ==
    [][\A n \in Names :
          InUse(n) /\ ec2[n] \notin dropped \cup {NoTemplate} /\ ec2'[n] = NoTemplate => outOfSync' # outOfSync]_templateVars

\* Templates the cache let go of, and that the callback of an earlier eviction
\* deleted nevertheless.
DeletedAfterDrop == {id \in dropped : \A n \in Names : ec2[n] # id}

\* "This allows karpenter to generate a new LT if the cache was out-of-sync on the
\* first try": each of the two tries fails for a reason of its own.  Others deleted a
\* template, hydration stored one deleted since it was listed, or another launch
\* invalidated one in use and the callback of an earlier eviction deleted it.
RetrySuffices ==
    \A l \in Launches : launch[l].pc = "notFound" => outOfSync + Cardinality(DeletedAfterDrop) >= 2

\* Why.  The lock is where the steps say it is.
LockIsHeld ==
    /\ \A l \in Launches : lock = l <=> launch[l].pc \in {"ensure", "create", "set", "delete", "restore"}
    /\ lock = Janitor <=> janitor.pc = "delete"
    /\ \A l \in Launches : launch[l].pc \in {"create", "set", "delete", "restore"} => launch[l].name \in Names

\* An id that was found under a name is not the id of another name, then or later.
Apart(n, id) == id \in 1..(nextId - 1) /\ \A m \in Names : ec2[m] = id => m = n

IdsAreApart ==
    /\ \A n \in Names : /\ ec2[n] # NoTemplate => Apart(n, ec2[n])
                        /\ cache[n] # NoTemplate => Apart(n, cache[n].id)
    /\ \A item \in evicted \cup hydrate.page : Apart(item.name, item.id)
    /\ janitor # IdleJanitor => Apart(janitor.item.name, janitor.item.id)
    /\ dropped \subseteq 1..(nextId - 1)

\* The template of a name is gone or let go of, or it is what the cache has, or a
\* launch is about to put it there.
Gone(n) == ec2[n] \in dropped \cup {NoTemplate}

Setting(n) == \E l \in Launches : launch[l].pc = "set" /\ launch[l].name = n /\ launch[l].id = ec2[n]

Tracked(n) == Gone(n) \/ Setting(n) \/ (cache[n] # NoTemplate /\ cache[n].id = ec2[n])

CacheTracks ==
    /\ \A n \in Names : cache[n] # NoTemplate => Tracked(n)
    /\ \A n \in Names : cache[n] # NoTemplate /\ ~cache[n].live => hydrate.pc = "done"
    /\ \A item \in hydrate.page : item.id # ec2[item.name] => Tracked(item.name)
    /\ hydrate.pc # "store" => hydrate.page = {}
    /\ \A l \in Launches : launch[l].pc = "set" =>
          Apart(launch[l].name, launch[l].id) /\ ec2[launch[l].name] \in {launch[l].id, NoTemplate}

\* What is in use and not let go of is cached, or about to be, so that the callback
\* leaves it alone.
UseIsSafe ==
    /\ \A n \in Names : InUse(n) => Hit(n) \/ Gone(n) \/ Setting(n)
    /\ janitor.pc = "delete" => \A n \in Names : InUse(n) /\ ec2[n] = janitor.item.id => Gone(n)

TemplatesTracked == LockIsHeld /\ IdsAreApart /\ CacheTracks /\ UseIsSafe

\* Safety of the launch template provider: well-formed, every template accounted for,
\* and one retry suffices.
TemplateInv == TemplateTypeOK /\ TemplatesTracked /\ RetrySuffices

\* Liveness of the launch template provider: neither the lock nor the callback taken
\* off and put back stops a launch, and after the launches no template stays in EC2,
\* whichever process created it, except for those the cache let go of: its item
\* removed or replaced while the callback was off, its deletion refused, or never
\* hydrated.
TemplateLive ==
    <>[](/\ \A l \in Launches : launch[l].pc \in Ended
         /\ \A n \in Names : ec2[n] \in dropped \cup {NoTemplate})
=============================================================================
