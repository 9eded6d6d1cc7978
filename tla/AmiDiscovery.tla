----------------------------- MODULE AmiDiscovery -----------------------------
(***************************************************************************)
(* How an EC2NodeClass gets its AMIs: the AMI provider with its cache, the    *)
(* SSM provider with its cache, the AMI reconciler, the controller that       *)
(* takes deprecated AMIs out of the SSM cache, and AMI drift.                *)
(*                                                                         *)
(* The AMIs are selected either by an alias with version "latest", which      *)
(* reads one SSM parameter per variant, or by tags, which every image has.    *)
(* Variants stand for the sets of requirements of an image (architecture,     *)
(* accelerator); each image has one.  Images are numbered by creation date.  *)
(***************************************************************************)
EXTENDS Integers, FiniteSets, Sequences, SequencesExt

CONSTANTS Variants,
          Images,        \* a set of positive numbers, by age
          VariantOf,     \* the variant of each image
          MaxAmiEvents   \* bound on what EC2 and SSM do and on failed calls

NoImage == 0

VARIABLES
  selector,    \* "alias" or "tags"
  image,       \* EC2: each image is "available", "deprecated" or "gone"
  latest,      \* SSM: the image each parameter names
  ssmCache,    \* the cached value of each parameter, or NoImage
  amiCache,    \* the cached AMI of each variant found, as a set of at most one entry
  amis,        \* status.AMIs: the AMI of each variant, or NoImage
  listing,     \* the reconcile that holds the AMI provider's lock
  sweep,       \* the invalidation controller
  nodeImage,   \* the image of the node of each variant, or NoImage
  unread,      \* history: variants whose parameter could not be read for amis
  amiEvents

amiVars == <<selector, image, latest, ssmCache, amiCache, amis, listing, sweep, nodeImage, unread, amiEvents>>

IdleListing == [pc |-> "idle", ids |-> {}, unread |-> {}]
IdleSweep == [pc |-> "idle", read |-> [v \in Variants |-> NoImage], todo |-> {}, stale |-> {}]

AmiInit ==
  /\ selector \in {"alias", "tags"}
  /\ image = [x \in Images |-> "available"]
  /\ latest \in {f \in [Variants -> Images] : \A v \in Variants : VariantOf[f[v]] = v}
  /\ ssmCache = [v \in Variants |-> NoImage]
  /\ amiCache = {}
  /\ amis = [v \in Variants |-> NoImage]
  /\ listing = IdleListing
  /\ sweep = IdleSweep
  /\ nodeImage = [v \in Variants |-> NoImage]
  /\ unread = {}
  /\ amiEvents = 0

AmiEvent == amiEvents < MaxAmiEvents /\ amiEvents' = amiEvents + 1

-----------------------------------------------------------------------------
(* EC2, SSM and the passing of time *)

PublishImage(v, x) ==
  /\ AmiEvent
  /\ VariantOf[x] = v /\ latest[v] # x /\ image[x] = "available"
  /\ latest' = [latest EXCEPT ![v] = x]
  /\ UNCHANGED <<selector, image, ssmCache, amiCache, amis, listing, sweep, nodeImage, unread>>

(* A deprecated image can still be launched; later it may be deregistered.   *)
AgeImage(x) ==
  /\ AmiEvent
  /\ image[x] # "gone"
  /\ image' = [image EXCEPT ![x] = IF @ = "available" THEN "deprecated" ELSE "gone"]
  /\ UNCHANGED <<selector, latest, ssmCache, amiCache, amis, listing, sweep, nodeImage, unread>>

(* After 24 hours.                                                          *)
ExpireParameter(v) ==
  /\ AmiEvent
  /\ ssmCache[v] # NoImage
  /\ ssmCache' = [ssmCache EXCEPT ![v] = NoImage]
  /\ UNCHANGED <<selector, image, latest, amiCache, amis, listing, sweep, nodeImage, unread>>

(* After AMI_REFRESH_INTERVAL.                                              *)
ExpireAMIs ==
  /\ amiCache # {}
  /\ amiCache' = {}
  /\ UNCHANGED <<selector, image, latest, ssmCache, amis, listing, sweep, nodeImage, unread, amiEvents>>

LaunchNode(v) ==
  /\ nodeImage[v] = NoImage /\ amis[v] # NoImage
  /\ nodeImage' = [nodeImage EXCEPT ![v] = amis[v]]
  /\ UNCHANGED <<selector, image, latest, ssmCache, amiCache, amis, listing, sweep, unread, amiEvents>>

-----------------------------------------------------------------------------
(* The AMI reconciler and the AMI provider's List *)

(* The value of a parameter for a List that fails to read those of failed.    *)
Get(v, failed) ==
  CASE ssmCache[v] # NoImage -> ssmCache[v]
    [] v \in failed -> NoImage
    [] OTHER -> latest[v]

CacheParameters(failed) == [v \in Variants |-> Get(v, failed)]

(* DescribeImageQueries resolves the alias before the cache is looked at.  A  *)
(* parameter that cannot be read, for whatever reason, is left out; only when *)
(* all of them fail does List fail.                                          *)
ResolveAlias ==
  /\ selector = "alias" /\ listing.pc = "idle"
  /\ \E failed \in SUBSET Variants :
        /\ failed # {} => AmiEvent
        /\ failed = {} => UNCHANGED amiEvents
        /\ ssmCache' = CacheParameters(failed)
        /\ LET lost == {v \in Variants : Get(v, failed) = NoImage} IN
           listing' = IF lost = Variants THEN IdleListing
                      ELSE [pc |-> "describe", ids |-> {Get(v, failed) : v \in Variants \ lost}, unread |-> lost]
  /\ UNCHANGED <<selector, image, latest, amiCache, amis, sweep, nodeImage, unread>>

ResolveTags ==
  /\ selector = "tags" /\ listing.pc = "idle"
  /\ listing' = [pc |-> "describe", ids |-> Images, unread |-> {}]
  /\ UNCHANGED <<selector, image, latest, ssmCache, amiCache, amis, sweep, nodeImage, unread, amiEvents>>

(* Negative when x is preferred to y.                                       *)
compareAMI(x, y) ==
  IF (image[x] = "deprecated") # (image[y] = "deprecated")
  THEN IF image[x] = "deprecated" THEN 1 ELSE -1
  ELSE y - x

(* Of the images of a variant, in the order in which the pages list them.     *)
Keep(found, v) ==
  FoldSeq(LAMBDA x, kept : IF kept # NoImage /\ compareAMI(kept, x) <= 0 THEN kept ELSE x, NoImage,
          SelectSeq(found, LAMBDA x : VariantOf[x] = v))

Described(found) ==
  LET described == {v \in Variants : \E i \in DOMAIN found : VariantOf[found[i]] = v}
  IN  [v \in described |-> Keep(found, v)]

(* The reconciler stores what List returns; AMIs of earlier reconciles do not *)
(* survive in the status.                                                    *)
StoreAMIs(found) ==
  /\ amis' = [v \in Variants |-> IF v \in DOMAIN found THEN found[v] ELSE NoImage]
  /\ listing' = IdleListing

(* unread stays what it was when the cached entry was described.             *)
ListCached ==
  /\ listing.pc = "describe" /\ amiCache # {}
  /\ \E found \in amiCache : StoreAMIs(found)
  /\ UNCHANGED <<selector, image, latest, ssmCache, amiCache, sweep, nodeImage, unread, amiEvents>>

ListDescribe ==
  /\ listing.pc = "describe" /\ amiCache = {}
  /\ \E found \in SetToSeqs({x \in listing.ids \cap Images : image[x] # "gone"}) :
        /\ amiCache' = {Described(found)}
        /\ StoreAMIs(Described(found))
  /\ unread' = listing.unread
  /\ UNCHANGED <<selector, image, latest, ssmCache, sweep, nodeImage, amiEvents>>

(* A page fails: the status stays as it is, and the reconcile is retried.     *)
ListError ==
  /\ listing.pc = "describe" /\ amiCache = {}
  /\ AmiEvent
  /\ listing' = IdleListing
  /\ UNCHANGED <<selector, image, latest, ssmCache, amiCache, amis, sweep, nodeImage, unread>>

-----------------------------------------------------------------------------
(* The SSM invalidation controller *)

SweepBegin ==
  /\ sweep.pc = "idle" /\ \E v \in Variants : ssmCache[v] # NoImage
  /\ sweep' = [pc |-> "list", read |-> ssmCache, stale |-> {},
               todo |-> {ssmCache[v] : v \in Variants} \ {NoImage}]
  /\ UNCHANGED <<selector, image, latest, ssmCache, amiCache, amis, listing, nodeImage, unread, amiEvents>>

(* Mutant: the condition is inverted.                                       *)
InvalidatesCurrent(x) == image[x] = "available"

Invalidates(x) == image[x] = "deprecated"

(* List, past the AMI cache, waits for the lock of the provider.  An image    *)
(* that is gone is not listed, and so not deprecated.                        *)
SweepList ==
  /\ sweep.pc = "list" /\ listing.pc = "idle"
  /\ \E x \in sweep.todo :
        sweep' = [sweep EXCEPT !.todo = @ \ {x}, !.stale = IF Invalidates(x) THEN @ \cup {x} ELSE @]
  /\ UNCHANGED <<selector, image, latest, ssmCache, amiCache, amis, listing, nodeImage, unread, amiEvents>>

SweepError ==
  /\ sweep.pc = "list" /\ listing.pc = "idle" /\ sweep.todo # {}
  /\ AmiEvent
  /\ sweep' = IdleSweep
  /\ UNCHANGED <<selector, image, latest, ssmCache, amiCache, amis, listing, nodeImage, unread>>

(* Deletes by parameter, whatever the cache holds for it by now.             *)
SweepDelete ==
  /\ sweep.pc = "list" /\ sweep.todo = {}
  /\ ssmCache' = [v \in Variants |-> IF sweep.read[v] \in sweep.stale THEN NoImage ELSE ssmCache[v]]
  /\ sweep' = IdleSweep
  /\ UNCHANGED <<selector, image, latest, amiCache, amis, listing, nodeImage, unread, amiEvents>>

-----------------------------------------------------------------------------

AmiReconcile == ResolveAlias \/ ResolveTags \/ ListCached \/ ListDescribe
Sweep == SweepBegin \/ SweepList \/ SweepDelete

AmiNext ==
  \/ \E v \in Variants : ExpireParameter(v) \/ LaunchNode(v) \/ \E x \in Images : PublishImage(v, x)
  \/ \E x \in Images : AgeImage(x)
  \/ ExpireAMIs \/ AmiReconcile \/ ListError \/ Sweep \/ SweepError

(* The reconciler requeues after five minutes, or at once after an error, the *)
(* controller runs every 30 minutes, a mutex does not starve those who wait,  *)
(* and cached AMIs lapse.  That parameters lapse after a day is not relied on. *)
AmiSpec ==
  /\ AmiInit /\ [][AmiNext]_amiVars
  /\ WF_amiVars(AmiReconcile) /\ SF_amiVars(Sweep) /\ WF_amiVars(ExpireAMIs)

-----------------------------------------------------------------------------
(* Properties *)

AmiTypeOK ==
  /\ selector \in {"alias", "tags"}
  /\ image \in [Images -> {"available", "deprecated", "gone"}]
  /\ latest \in [Variants -> Images]
  /\ ssmCache \in [Variants -> Images \cup {NoImage}]
  /\ Cardinality(amiCache) <= 1
  /\ \A found \in amiCache : DOMAIN found \subseteq Variants /\ \A v \in DOMAIN found : found[v] \in Images
  /\ amis \in [Variants -> Images \cup {NoImage}]
  /\ listing \in [pc: {"idle", "describe"}, ids: SUBSET Images, unread: SUBSET Variants]
  /\ sweep \in [pc: {"idle", "list"}, read: [Variants -> Images \cup {NoImage}],
                todo: SUBSET Images, stale: SUBSET Images]
  /\ nodeImage \in [Variants -> Images \cup {NoImage}]
  /\ unread \subseteq Variants
  /\ amiEvents \in 0..MaxAmiEvents

(* The images a variant can be given by the List in progress.                *)
Candidates(v) == {x \in listing.ids : VariantOf[x] = v /\ image[x] # "gone"}

(* "always prioritize non deprecated AMIs": whatever order the pages come in,  *)
(* the AMI kept for a variant is the newest of those that are not deprecated, *)
(* or of all when all of them are.                                           *)
BestIsKept ==
  [][amiCache' # amiCache =>
       \A found \in amiCache' : \A v \in DOMAIN found :
          LET good == {x \in Candidates(v) : image[x] = "available"}
              pool == IF good = {} THEN Candidates(v) ELSE good
          IN  found[v] \in pool /\ \A x \in pool : x <= found[v]]_amiVars

(* isAMIDrifted of the node of a variant: some AMI is known, and the one that *)
(* maps to the node's instance type is not the node's.                       *)
Drifted(v) == nodeImage[v] # NoImage /\ (\E u \in Variants : amis[u] # NoImage) /\ amis[v] # nodeImage[v]

(* AMI drift is "initiated when a new AMI is selected"; the exceptions are an *)
(* image that is gone and a parameter that SSM failed to return, in which     *)
(* case the variant drops out of the status and its nodes drift.             *)
DriftHasCause ==
  \A v \in Variants : Drifted(v) =>
     amis[v] # NoImage \/ v \in unread \/ \E x \in Images : VariantOf[x] = v /\ image[x] = "gone"

(* A call that fails does not cost a variant its AMI for long: it is not      *)
(* missing for ever while the image its parameter names can be described.     *)
VariantReturns ==
  \A v \in Variants :
     ~<>[](/\ selector = "alias" /\ amis[v] = NoImage /\ image[latest[v]] # "gone"
           /\ \A x \in Images : ssmCache[v] = x => image[x] # "gone")

(* "This controller will ensure Karpenter reacts to AMI deprecations": when    *)
(* the parameter has moved on to a good image, a deprecated one does not stay *)
(* in the status until the cached parameter lapses.                          *)
DeprecatedIsReplaced ==
  \A v \in Variants :
     ~<>[](/\ selector = "alias" /\ amis[v] # NoImage
           /\ image[amis[v]] = "deprecated" /\ image[latest[v]] = "available")

(* What AMI discovery promises: the best image of each variant, drift only for  *)
(* a cause, and no variant left without its image or with a deprecated one.  *)
AmiContract == [](AmiTypeOK /\ DriftHasCause) /\ BestIsKept /\ VariantReturns /\ DeprecatedIsReplaced
=============================================================================
