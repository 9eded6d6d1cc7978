---------------------------- MODULE InstanceTypes ----------------------------
(***************************************************************************)
(* The instance type provider: List under two read locks with its cache and   *)
(* the builds that concurrent callers share, the two refreshes that take the  *)
(* write locks and flush the cache, and the memory learnt from nodes.         *)
(*                                                                         *)
(* One NodeClass, with zones and unchanging AMIs, so one cache key.  Instance *)
(* types and their offerings are versions: what was described last, 0 for     *)
(* nothing.                                                                *)
(***************************************************************************)
EXTENDS Naturals, FiniteSets

CONSTANTS Listers,        \* concurrent callers of List
          Memories,       \* the memory nodes report, positive numbers
          MaxTypeEvents   \* bound on changes in EC2, failed calls and nodes

Tables == {"info", "offerings"}

VARIABLES
  ec2Table,     \* EC2: the version of each table
  table,        \* the provider's copy of each table
  readers,      \* the callers of List that hold each read lock
  writer,       \* the refresh of each table: "idle", "waiting", "locked"
  lister,       \* the progress of each List
  building,     \* the List that builds for all, or NoLister
  typesCache,   \* the cached instance types; NotCached
  discovered,   \* the discovered memory, 0 for none
  least,        \* history: the least memory a node with a current AMI reported since
                \* the discovered memory lapsed
  typeEvents

typeVars == <<ec2Table, table, readers, writer, lister, building, typesCache, discovered, least, typeEvents>>

NoLister == "none"
NotCached == [info |-> 0, offerings |-> 0, memory |-> 0]
Built == [info |-> table["info"], offerings |-> table["offerings"], memory |-> discovered]
Asleep == [pc |-> "idle", built |-> NotCached]

TypesInit ==
  /\ ec2Table = [t \in Tables |-> 1]
  /\ table = [t \in Tables |-> 0]
  /\ readers = [t \in Tables |-> {}]
  /\ writer = [t \in Tables |-> "idle"]
  /\ lister = [l \in Listers |-> Asleep]
  /\ building = NoLister
  /\ typesCache = NotCached
  /\ discovered = 0
  /\ least = 0
  /\ typeEvents = 0

TypeEvent == typeEvents < MaxTypeEvents /\ typeEvents' = typeEvents + 1

EC2Changes(t) ==
  /\ TypeEvent
  /\ ec2Table' = [ec2Table EXCEPT ![t] = @ + 1]
  /\ UNCHANGED <<table, readers, writer, lister, building, typesCache, discovered, least>>

ExpireTypes ==
  /\ typesCache # NotCached
  /\ typesCache' = NotCached
  /\ UNCHANGED <<ec2Table, table, readers, writer, lister, building, discovered, least, typeEvents>>

-----------------------------------------------------------------------------
(* The refreshes *)

(* A writer that waits keeps new readers out, as sync.RWMutex does.           *)
UpdateBegin(t) ==
  /\ writer[t] = "idle"
  /\ writer' = [writer EXCEPT ![t] = "waiting"]
  /\ UNCHANGED <<ec2Table, table, readers, lister, building, typesCache, discovered, least, typeEvents>>

UpdateLock(t) ==
  /\ writer[t] = "waiting" /\ readers[t] = {}
  /\ writer' = [writer EXCEPT ![t] = "locked"]
  /\ UNCHANGED <<ec2Table, table, readers, lister, building, typesCache, discovered, least, typeEvents>>

Flushed(t) == table[t] # ec2Table[t]

Update(t) ==
  /\ writer[t] = "locked"
  /\ typesCache' = IF Flushed(t) THEN NotCached ELSE typesCache
  /\ table' = [table EXCEPT ![t] = ec2Table[t]]
  /\ writer' = [writer EXCEPT ![t] = "idle"]
  /\ UNCHANGED <<ec2Table, readers, lister, building, discovered, least, typeEvents>>

UpdateFails(t) ==
  /\ writer[t] = "locked"
  /\ TypeEvent
  /\ writer' = [writer EXCEPT ![t] = "idle"]
  /\ UNCHANGED <<ec2Table, table, readers, lister, building, typesCache, discovered, least>>

-----------------------------------------------------------------------------
(* List *)

ReadLock(l, t) == writer[t] = "idle" /\ readers' = [readers EXCEPT ![t] = @ \cup {l}]
Goto(l, pc) == lister' = [lister EXCEPT ![l].pc = pc]
ReadUnlock(l) == readers' = [t \in Tables |-> readers[t] \ {l}]

ListLockInfo(l) ==
  /\ lister[l].pc = "idle"
  /\ ReadLock(l, "info") /\ Goto(l, "lock")
  /\ UNCHANGED <<ec2Table, table, writer, building, typesCache, discovered, least, typeEvents>>

ListLockOfferings(l) ==
  /\ lister[l].pc = "lock"
  /\ ReadLock(l, "offerings") /\ Goto(l, "get")
  /\ UNCHANGED <<ec2Table, table, writer, building, typesCache, discovered, least, typeEvents>>

(* A hit returns; before the first refresh of both tables List fails.         *)
ListGet(l) ==
  /\ lister[l].pc = "get" /\ (typesCache # NotCached \/ \E t \in Tables : table[t] = 0)
  /\ ReadUnlock(l) /\ Goto(l, "idle")
  /\ UNCHANGED <<ec2Table, table, writer, building, typesCache, discovered, least, typeEvents>>

ListMiss(l) ==
  /\ lister[l].pc = "get" /\ typesCache = NotCached /\ \A t \in Tables : table[t] # 0
  /\ Goto(l, "do")
  /\ UNCHANGED <<ec2Table, table, readers, writer, building, typesCache, discovered, least, typeEvents>>

(* One caller builds, the others wait for its result.                        *)
ListDo(l) ==
  /\ lister[l].pc = "do"
  /\ IF building = NoLister
     THEN building' = l /\ Goto(l, "build")
     ELSE Goto(l, "wait") /\ UNCHANGED building
  /\ UNCHANGED <<ec2Table, table, readers, writer, typesCache, discovered, least, typeEvents>>

(* Mutant: the build takes the read lock of the instance types once more.     *)
MayBuildAfterRelock(l) == lister[l].pc = "build" /\ writer["info"] = "idle"

MayBuild(l) == lister[l].pc = "build"

(* What the builder returns, all that wait for it return.                     *)
Share(l) ==
  LET sharing == {m \in Listers : m = l \/ lister[m].pc = "wait"}
  IN  /\ building' = NoLister
      /\ lister' = [m \in Listers |-> IF m \in sharing THEN Asleep ELSE lister[m]]
      /\ readers' = [t \in Tables |-> readers[t] \ sharing]

(* "Another caller may have populated the cache while we were waiting".       *)
ListBuilt(l) ==
  /\ MayBuild(l) /\ typesCache # NotCached
  /\ Share(l)
  /\ UNCHANGED <<ec2Table, table, writer, typesCache, discovered, least, typeEvents>>

ListBuild(l) ==
  /\ MayBuild(l) /\ typesCache = NotCached
  /\ lister' = [lister EXCEPT ![l] = [pc |-> "store", built |-> Built]]
  /\ UNCHANGED <<ec2Table, table, readers, writer, building, typesCache, discovered, least, typeEvents>>

ListStore(l) ==
  /\ lister[l].pc = "store"
  /\ typesCache' = lister[l].built
  /\ Share(l)
  /\ UNCHANGED <<ec2Table, table, writer, discovered, least, typeEvents>>

(* An instance type cannot be resolved: nothing is cached.                   *)
ListBuildFails(l) ==
  /\ MayBuild(l) /\ typesCache = NotCached
  /\ TypeEvent
  /\ Share(l)
  /\ UNCHANGED <<ec2Table, table, writer, typesCache, discovered, least>>

-----------------------------------------------------------------------------
(* UpdateInstanceTypeCapacityFromNode *)

DiscoverLeast(m) == IF discovered = 0 \/ m <= discovered THEN m ELSE discovered

(* A node with an AMI that is no longer current does not count.              *)
NodeRegisters(m, current) ==
  /\ TypeEvent
  /\ discovered' = IF current THEN DiscoverLeast(m) ELSE discovered
  /\ least' = IF current /\ (least = 0 \/ m < least) THEN m ELSE least
  /\ UNCHANGED <<ec2Table, table, readers, writer, lister, building, typesCache>>

(* The discovered memory lapses 60 days after it was last reported.           *)
ExpireDiscovered ==
  /\ discovered # 0
  /\ discovered' = 0 /\ least' = 0
  /\ UNCHANGED <<ec2Table, table, readers, writer, lister, building, typesCache, typeEvents>>

-----------------------------------------------------------------------------

ListStep(l) ==
  \/ ListLockInfo(l) \/ ListLockOfferings(l) \/ ListGet(l) \/ ListMiss(l)
  \/ ListDo(l) \/ ListBuilt(l) \/ ListBuild(l) \/ ListStore(l)

UpdateStep(t) == UpdateBegin(t) \/ UpdateLock(t) \/ Update(t)

TypesNext ==
  \/ \E t \in Tables : EC2Changes(t) \/ UpdateStep(t) \/ UpdateFails(t)
  \/ \E l \in Listers : ListStep(l) \/ ListBuildFails(l)
  \/ \E m \in Memories, current \in BOOLEAN : NodeRegisters(m, current)
  \/ ExpireTypes \/ ExpireDiscovered

(* The refreshes run every 12 hours, List is called all the time and not      *)
(* starved by the read locks, and cached instance types lapse after five      *)
(* minutes.  Only its own steps disable a refresh: it keeps new readers out.  *)
TypesSpec ==
  /\ TypesInit /\ [][TypesNext]_typeVars
  /\ \A l \in Listers : SF_typeVars(ListStep(l))
  /\ \A t \in Tables : WF_typeVars(UpdateStep(t))
  /\ WF_typeVars(ExpireTypes)

-----------------------------------------------------------------------------
(* Properties *)

TypesTypeOK ==
  /\ readers \in [Tables -> SUBSET Listers]
  /\ writer \in [Tables -> {"idle", "waiting", "locked"}]
  /\ \A t \in Tables : writer[t] = "locked" => readers[t] = {}
  /\ \A t \in Tables : table[t] \in 0..ec2Table[t] /\ typesCache[t] \in 0..ec2Table[t]
  /\ \A l \in Listers : lister[l].pc \in {"idle", "lock", "get", "do", "build", "wait", "store"}
  /\ building \in Listers \cup {NoLister}
  /\ discovered \in Memories \cup {0} /\ least \in Memories \cup {0}
  /\ typeEvents \in 0..MaxTypeEvents

(* "None of the cached instance type info is valid when the instance type      *)
(* info changes": no interleaving of a build with a refresh leaves instance   *)
(* types in the cache that were built from older tables.                     *)
CachedIsCurrent == typesCache # NotCached => \A t \in Tables : typesCache[t] = table[t]

(* The two read locks, the refreshes that want to write, and a shared build   *)
(* never leave a List waiting for ever.                                      *)
ListReturns == \A l \in Listers : []<>(lister[l].pc = "idle")

(* Neither learning that nodes have less memory nor the lapse of what was       *)
(* learnt flushes the cache; still, once the tables are there, what List offers *)
(* comes again and again to the least memory a current node has reported since  *)
(* the last lapse, and to the estimate, 0, when there was none.                *)
MemoryIsLearnt ==
  ~<>[]((\A t \in Tables : table[t] # 0) /\ (typesCache = NotCached \/ typesCache.memory # least))

(* What the instance type provider promises: the cache never outlives its       *)
(* tables, no List waits for ever, and discovered memory is learnt.          *)
TypesContract == [](TypesTypeOK /\ CachedIsCurrent) /\ ListReturns /\ MemoryIsLearnt
=============================================================================
