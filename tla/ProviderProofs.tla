--------------------------- MODULE ProviderProofs ----------------------------
(***************************************************************************)
(* Proofs about three providers that keep what they know through errors.    *)
(* Instances, for any number of NodeClaims: the garbage collector spares    *)
(* owned instances, and the tagger's annotation is true.  Prices, for any   *)
(* instance types and zones: an error does not take a price away, and what  *)
(* a poll brought is only replaced.  The placement group of a NodeClass,    *)
(* for any partitions and requirements: an error of EC2 does not make a     *)
(* launch ignore the group, nor a node drift.                               *)
(***************************************************************************)
EXTENDS InstanceLifecycle, Pricing, PlacementGroup, TLAPS

-----------------------------------------------------------------------------
(* NodeClaims, their instances and the informer *)

\* Updates of a NodeClaim are NodeClaims.
LEMMA ClaimUpdates ==
  ASSUME NEW f \in [Claims -> NodeClaims], NEW c \in Claims
  PROVE  /\ \A p \in {"live", "deleting", "gone"} : [f EXCEPT ![c].phase = p] \in [Claims -> NodeClaims]
         /\ [f EXCEPT ![c].tagged = TRUE] \in [Claims -> NodeClaims]
         /\ [f[c] EXCEPT !.node = TRUE] \in NodeClaims
         /\ \A i \in Instances : \A b \in BOOLEAN :
               [f EXCEPT ![c].id = i, ![c].node = b] \in [Claims -> NodeClaims]
<1>1. f[c] \in NodeClaims
  BY Zenon
<1>2. \A p \in {"live", "deleting", "gone"} : [f[c] EXCEPT !.phase = p] \in NodeClaims
  BY Zenon, <1>1 DEF NodeClaims
<1>3. [f[c] EXCEPT !.tagged = TRUE] \in NodeClaims /\ [f[c] EXCEPT !.node = TRUE] \in NodeClaims
  BY ZenonT(30), <1>1 DEF NodeClaims
<1>4. \A i \in Instances : \A b \in BOOLEAN : [f[c] EXCEPT !.id = i, !.node = b] \in NodeClaims
  BY ZenonT(30), <1>1 DEF NodeClaims
<1>5. \A i \in Instances : \A b \in BOOLEAN :
        [f EXCEPT ![c].id = i, ![c].node = b] = [f EXCEPT ![c] = [f[c] EXCEPT !.id = i, !.node = b]]
  BY ZenonT(30), <1>1 DEF NodeClaims
<1>6. \A i \in Instances : \A b \in BOOLEAN :
        [f EXCEPT ![c].id = i, ![c].node = b] \in [Claims -> NodeClaims]
  <2> SUFFICES ASSUME NEW i \in Instances, NEW b \in BOOLEAN
               PROVE  [f EXCEPT ![c] = [f[c] EXCEPT !.id = i, !.node = b]] \in [Claims -> NodeClaims]
    BY <1>5, Zenon
  <2> DEFINE e == [f[c] EXCEPT !.id = i, !.node = b]
  <2>1. e \in NodeClaims
    BY ZenonT(30), <1>4
  <2> HIDE DEF e
  <2>2. [f EXCEPT ![c] = e] \in [Claims -> NodeClaims]
    BY Zenon, <2>1
  <2> QED
    BY Zenon, <2>2 DEF e
<1> QED
  BY ZenonT(30), <1>2, <1>3, <1>6

LEMMA LaunchStep ==
  ASSUME LifecycleInv, NEW c \in Claims, Launch(c)
  PROVE  LifecycleInv'
<1> DEFINE i == CHOOSE j \in Instances : ec2[j].state = "none"
<1>1. i \in Instances /\ ec2[i].state = "none"
  BY Zenon DEF Launch
<1>2. /\ ec2' = [ec2 EXCEPT ![i].state = "running"]
      /\ inflight' = [inflight EXCEPT ![c] = i]
      /\ claim[c].id = None
      /\ UNCHANGED <<nodes, claim, informer, shifted, cache, deleter, gc, tagger, tagQueue, events>>
  BY Zenon DEF Launch
<1> HIDE DEF i
<1>3. LifecycleTypeOK'
  BY <1>1, <1>2 DEF LifecycleInv, LifecycleTypeOK, States
<1>4. /\ \A j \in Instances : /\ ec2'[j].old = ec2[j].old /\ ec2'[j].tagged = ec2[j].tagged
                              /\ ec2'[j].visible = ec2[j].visible
                              /\ ec2'[j].state = IF j = i THEN "running" ELSE ec2[j].state
      /\ \A d \in Claims : inflight'[d] = IF d = c THEN i ELSE inflight[d]
  BY <1>1, <1>2 DEF LifecycleInv, LifecycleTypeOK
<1>5. ~ec2[i].old
  BY Zenon, <1>1 DEF LifecycleInv, OldIsStored
<1>6. IdStoredOnce'
  BY Zenon, <1>2, <1>4 DEF LifecycleInv, IdStoredOnce
<1>7. OldIsStored'
  BY <1>2, <1>4, <1>5 DEF LifecycleInv, OldIsStored
<1>8. WorkIsKnown'
  BY <1>2, <1>4 DEF LifecycleInv, LifecycleTypeOK, WorkIsKnown
<1>9. OwnedIsNotCollected'
  BY <1>2, <1>4, <1>5 DEF LifecycleInv, LifecycleTypeOK, OwnedIsNotCollected, Owned, WorkIsKnown
<1>10. AnnotatedIsTagged'
  BY <1>2, <1>4 DEF LifecycleInv, LifecycleTypeOK, AnnotatedIsTagged, IdStoredOnce, NodeClaims
<1> QED
  BY Zenon, <1>3, <1>6, <1>7, <1>8, <1>9, <1>10 DEF LifecycleInv

LEMMA StoreStep ==
  ASSUME LifecycleInv, NEW c \in Claims, Store(c)
  PROVE  LifecycleInv'
<1>1. /\ inflight[c] \in Instances /\ claim[c].id = None /\ ~claim[c].tagged
      /\ ~ec2[inflight[c]].old /\ tagger.pc # "idle" => tagger.on # c
  BY DEF Store, LifecycleInv, LifecycleTypeOK, IdStoredOnce, OldIsStored, WorkIsKnown
<1>2. /\ UNCHANGED <<ec2, nodes, informer, shifted, cache, deleter, gc, tagger, tagQueue, events>>
      /\ inflight' = [inflight EXCEPT ![c] = None]
      /\ \/ claim' = claim
         \/ claim' = [claim EXCEPT ![c].id = inflight[c], ![c].node = inflight[c] \in nodes]
            /\ claim[c].phase # "gone"
  BY Zenon DEF Store
<1>3. LifecycleTypeOK'
  <2> DEFINE b == inflight[c] \in nodes
  <2>1. b \in BOOLEAN
    OBVIOUS
  <2>2. claim' = claim \/ claim' = [claim EXCEPT ![c].id = inflight[c], ![c].node = b]
    BY Zenon, <1>2
  <2> HIDE DEF b
  <2>3. claim' \in [Claims -> NodeClaims]
    <3>1. claim \in [Claims -> NodeClaims]
      BY Zenon DEF LifecycleInv, LifecycleTypeOK
    <3>2. [claim EXCEPT ![c].id = inflight[c], ![c].node = b] \in [Claims -> NodeClaims]
      BY <1>1, <2>1, <3>1, ClaimUpdates, Zenon
    <3> QED
      BY <2>2, <3>1, <3>2, Zenon
  <2> QED
    BY ZenonT(30), <1>2, <2>3 DEF LifecycleInv, LifecycleTypeOK
<1>4. \A d \in Claims :
        /\ claim'[d].phase = claim[d].phase /\ claim'[d].tagged = claim[d].tagged
        /\ d # c => claim'[d] = claim[d] /\ inflight'[d] = inflight[d]
        /\ claim'[c].id \in {None, inflight[c]} /\ inflight'[c] = None
        /\ claim'[c].node => claim[c].node \/ claim'[c].id = inflight[c]
  BY <1>1, <1>2 DEF LifecycleInv, LifecycleTypeOK, NodeClaims
<1>5. IdStoredOnce'
  BY <1>1, <1>2, <1>4, NoneAssumption DEF LifecycleInv, IdStoredOnce
<1>6. OldIsStored'
  BY <1>1, <1>2, <1>4, NoneAssumption DEF LifecycleInv, OldIsStored
<1>7. WorkIsKnown'
  BY Zenon, <1>1, <1>2, <1>4 DEF LifecycleInv, WorkIsKnown
<1>8. OwnedIsNotCollected'
  BY <1>1, <1>2, <1>4, NoneAssumption
     DEF LifecycleInv, LifecycleTypeOK, OwnedIsNotCollected, Owned, WorkIsKnown
<1>9. AnnotatedIsTagged'
  BY Zenon, <1>1, <1>2, <1>4 DEF LifecycleInv, AnnotatedIsTagged
<1> QED
  BY Zenon, <1>3, <1>5, <1>6, <1>7, <1>8, <1>9 DEF LifecycleInv

\* A step that moves NodeClaims on in phase, node and annotation only, and ends calls.
LEMMA ClaimsMove ==
  ASSUME LifecycleInv, LifecycleTypeOK',
         UNCHANGED <<ec2, informer, inflight>>,
         \A c \in Claims :
            /\ claim'[c].id = claim[c].id
            /\ claim[c].phase = "gone" => claim'[c].phase = "gone"
            /\ claim'[c].node => claim[c].node \/ claim[c].id # None
            /\ claim'[c].tagged => claim[c].tagged \/ (claim[c].id # None /\ ec2[claim[c].id].tagged),
         gc'.todo \subseteq gc.todo,
         \A c \in Claims : deleter'[c].pc # "idle" => deleter[c].pc # "idle",
         tagger' = tagger \/ tagger'.pc = "idle",
         \A i \in Instances : cache'[i] # None /\ cache'[i].tagged => ec2[i].tagged
  PROVE  LifecycleInv'
<1>1. IdStoredOnce'
  BY Zenon DEF LifecycleInv, IdStoredOnce
<1>2. OldIsStored'
  BY DEF LifecycleInv, OldIsStored
<1>3. WorkIsKnown'
  BY Zenon DEF LifecycleInv, WorkIsKnown
<1>4. OwnedIsNotCollected'
  BY Zenon DEF LifecycleInv, OwnedIsNotCollected, Owned
<1>5. AnnotatedIsTagged'
  BY Zenon DEF LifecycleInv, AnnotatedIsTagged
<1> QED
  BY Zenon, <1>1, <1>2, <1>3, <1>4, <1>5 DEF LifecycleInv

LEMMA DeleteClaimStep ==
  ASSUME LifecycleInv, NEW c \in Claims, DeleteClaim(c) \/ FinalizeUnlaunched(c)
  PROVE  LifecycleInv'
<1>1. /\ UNCHANGED <<ec2, nodes, informer, inflight, shifted, cache, deleter, gc, tagger, tagQueue, events>>
      /\ claim[c].phase # "gone"
      /\ \E p \in {"gone", "deleting"} : claim' = [claim EXCEPT ![c].phase = p]
  BY Zenon DEF DeleteClaim, FinalizeUnlaunched
<1>2. LifecycleTypeOK'
  <2>1. claim \in [Claims -> NodeClaims]
    BY Zenon DEF LifecycleInv, LifecycleTypeOK
  <2>2. PICK p \in {"live", "deleting", "gone"} : claim' = [claim EXCEPT ![c].phase = p]
    BY ZenonT(30), <1>1
  <2>3. claim' \in [Claims -> NodeClaims]
    BY <2>1, <2>2, ClaimUpdates, Zenon
  <2> QED
    BY Zenon, <1>1, <2>3 DEF LifecycleInv, LifecycleTypeOK
<1>3. \A d \in Claims :
        /\ claim'[d].id = claim[d].id /\ claim'[d].node = claim[d].node /\ claim'[d].tagged = claim[d].tagged
        /\ claim[d].phase = "gone" => claim'[d].phase = "gone"
  BY <1>1 DEF LifecycleInv, LifecycleTypeOK, NodeClaims
<1>4. \A i \in Instances : cache'[i] # None /\ cache'[i].tagged => ec2[i].tagged
  BY Zenon, <1>1 DEF LifecycleInv, WorkIsKnown
<1> QED
  BY Zenon, <1>1, <1>2, <1>3, <1>4, ClaimsMove

LEMMA JoinStep ==
  ASSUME LifecycleInv, NEW i \in Instances, Join(i)
  PROVE  LifecycleInv'
<1>1. /\ UNCHANGED <<ec2, informer, inflight, shifted, cache, deleter, gc, tagger, tagQueue, events>>
      /\ nodes' = nodes \cup {i}
      /\ claim' = [c \in Claims |-> IF claim[c].id = i /\ claim[c].phase = "live"
                                    THEN [claim[c] EXCEPT !.node = TRUE] ELSE claim[c]]
  BY Zenon DEF Join
<1>2. LifecycleTypeOK'
  BY ZenonT(30), <1>1, ClaimUpdates DEF LifecycleInv, LifecycleTypeOK
<1>3. \A d \in Claims :
        /\ claim'[d].id = claim[d].id /\ claim'[d].phase = claim[d].phase /\ claim'[d].tagged = claim[d].tagged
        /\ claim'[d].node => claim[d].node \/ claim[d].id # None
  BY <1>1, NoneAssumption DEF LifecycleInv, LifecycleTypeOK, NodeClaims
<1>4. \A j \in Instances : cache'[j] # None /\ cache'[j].tagged => ec2[j].tagged
  BY Zenon, <1>1 DEF LifecycleInv, WorkIsKnown
<1> QED
  BY Zenon, <1>1, <1>2, <1>3, <1>4, ClaimsMove

LEMMA TagPatchStep ==
  ASSUME LifecycleInv, TagPatch
  PROVE  LifecycleInv'
<1>1. /\ UNCHANGED <<ec2, nodes, informer, inflight, shifted, cache, deleter, gc, tagQueue, events>>
      /\ tagger' = IdleTagger
      /\ claim' = claim \/ claim' = [claim EXCEPT ![tagger.on].tagged = TRUE]
  BY Zenon DEF TagPatch, TagEnd
<1>2. tagger.on \in Claims /\ claim[tagger.on].id # None /\ ec2[claim[tagger.on].id].tagged
  BY Zenon DEF TagPatch, LifecycleInv, WorkIsKnown
<1>3. LifecycleTypeOK'
  <2>1. claim \in [Claims -> NodeClaims]
    BY Zenon DEF LifecycleInv, LifecycleTypeOK
  <2>2. [claim EXCEPT ![tagger.on].tagged = TRUE] \in [Claims -> NodeClaims]
    BY <1>2, <2>1, ClaimUpdates, Zenon
  <2>3. claim' \in [Claims -> NodeClaims]
    BY <1>1, <2>1, <2>2, Zenon
  <2> QED
    BY Zenon, <1>1, <2>3 DEF LifecycleInv, LifecycleTypeOK, IdleTagger
<1>4. \A d \in Claims :
        /\ claim'[d].id = claim[d].id /\ claim'[d].phase = claim[d].phase /\ claim'[d].node = claim[d].node
        /\ claim'[d].tagged => claim[d].tagged \/ d = tagger.on
  BY <1>1, <1>2 DEF LifecycleInv, LifecycleTypeOK, NodeClaims
<1>5. \A j \in Instances : cache'[j] # None /\ cache'[j].tagged => ec2[j].tagged
  BY Zenon, <1>1 DEF LifecycleInv, WorkIsKnown
<1>6. tagger'.pc = "idle"
  BY Zenon, <1>1 DEF IdleTagger
<1> QED
  BY Zenon, <1>1, <1>2, <1>3, <1>4, <1>5, <1>6, ClaimsMove

LEMMA InformStep ==
  ASSUME LifecycleInv, NEW c \in Claims, Inform(c)
  PROVE  LifecycleInv'
<1>1. /\ UNCHANGED <<ec2, nodes, claim, inflight, shifted, cache, deleter, gc, tagger, events>>
      /\ informer' = [informer EXCEPT ![c] = claim[c]]
      /\ tagQueue' \subseteq tagQueue \cup {c}
  BY Zenon DEF Inform
<1>2. LifecycleTypeOK'
  BY Zenon, <1>1 DEF LifecycleInv, LifecycleTypeOK
<1>3. \A d \in Claims : informer'[d] = IF d = c THEN claim[c] ELSE informer[d]
  BY Zenon, <1>1 DEF LifecycleInv, LifecycleTypeOK
<1>4. IdStoredOnce'
  BY <1>1, <1>3 DEF LifecycleInv, IdStoredOnce
<1>5. OldIsStored'
  BY <1>1, <1>3 DEF LifecycleInv, OldIsStored
<1>6. WorkIsKnown'
  BY <1>1, <1>3 DEF LifecycleInv, WorkIsKnown, IdStoredOnce
<1>7. OwnedIsNotCollected' /\ AnnotatedIsTagged'
  BY Zenon, <1>1 DEF LifecycleInv, OwnedIsNotCollected, Owned, AnnotatedIsTagged
<1> QED
  BY Zenon, <1>2, <1>4, <1>5, <1>6, <1>7 DEF LifecycleInv

-----------------------------------------------------------------------------
(* EC2 and restarts *)

\* A step that leaves the NodeClaims and the ages of instances alone.
LEMMA Frame ==
  ASSUME LifecycleInv, LifecycleTypeOK', UNCHANGED <<claim, informer, inflight>>,
         \A i \in Instances :
            /\ ec2'[i].old = ec2[i].old
            /\ ec2[i].tagged => ec2'[i].tagged
            /\ ec2'[i].visible => ec2'[i].state # "none"
            /\ ec2[i].state # "none" => ec2'[i].state # "none",
         gc'.todo \subseteq gc.todo,
         \A c \in Claims : deleter'[c].pc # "idle" => informer[c].id # None,
         tagger'.pc # "idle" => tagger'.on \in Claims /\ claim[tagger'.on].id # None,
         tagger'.pc = "patch" => ec2'[claim[tagger'.on].id].tagged,
         \A i \in Instances : cache'[i] # None /\ cache'[i].tagged => ec2'[i].tagged
  PROVE  LifecycleInv'
<1>1. IdStoredOnce'
  BY Zenon DEF LifecycleInv, IdStoredOnce
<1>2. OldIsStored'
  BY Zenon DEF LifecycleInv, OldIsStored
<1>3. WorkIsKnown'
  BY Zenon DEF LifecycleInv, LifecycleTypeOK, WorkIsKnown
<1>4. OwnedIsNotCollected'
  BY Zenon DEF LifecycleInv, OwnedIsNotCollected, Owned
<1>5. AnnotatedIsTagged'
  BY Zenon DEF LifecycleInv, LifecycleTypeOK, NodeClaims, AnnotatedIsTagged, IdStoredOnce
<1> QED
  BY Zenon, <1>1, <1>2, <1>3, <1>4, <1>5 DEF LifecycleInv

LEMMA InstanceStep ==
  ASSUME LifecycleInv, NEW i \in Instances, Appear(i) \/ ShutDown(i)
  PROVE  LifecycleInv'
<1>1. /\ UNCHANGED <<objects, shifted, cache, deleter, gc, tagger, tagQueue, events>>
      /\ ec2[i].state # "none"
      /\ \/ ec2' = [ec2 EXCEPT ![i].visible = TRUE]
         \/ ec2' = [ec2 EXCEPT ![i].state = "terminated"]
  BY Zenon DEF Appear, ShutDown
<1>2. LifecycleTypeOK'
  <2> DEFINE Machines == [state : States, visible : BOOLEAN, old : BOOLEAN, tagged : BOOLEAN]
  <2>0. ec2 \in [Instances -> Machines] /\ ec2[i] \in Machines
    BY Zenon DEF LifecycleInv, LifecycleTypeOK
  <2>1. /\ [ec2[i] EXCEPT !.visible = TRUE] \in Machines
        /\ [ec2[i] EXCEPT !.state = "terminated"] \in Machines
    BY ZenonT(30), <2>0 DEF States
  <2> HIDE DEF Machines
  <2>2. ec2' \in [Instances -> Machines]
    BY ZenonT(30), <1>1, <2>0, <2>1
  <2> QED
    BY Zenon, <1>1, <2>2 DEF LifecycleInv, LifecycleTypeOK, objects, Machines
<1>3. \A j \in Instances :
        /\ ec2'[j].old = ec2[j].old /\ ec2'[j].tagged = ec2[j].tagged
        /\ ec2'[j].visible => ec2[j].visible \/ j = i
        /\ ec2'[j].state \in {ec2[j].state, "terminated"}
  BY <1>1 DEF LifecycleInv, LifecycleTypeOK
<1>4. \A j \in Instances :
        /\ ec2'[j].visible => ec2'[j].state # "none"
        /\ ec2[j].state # "none" => ec2'[j].state # "none"
  BY <1>1, <1>3 DEF LifecycleInv, OldIsStored
<1>5. /\ tagger'.pc # "idle" => tagger'.on \in Claims /\ claim[tagger'.on].id # None
      /\ tagger'.pc = "patch" => ec2'[claim[tagger'.on].id].tagged
      /\ \A j \in Instances : cache'[j] # None /\ cache'[j].tagged => ec2'[j].tagged
      /\ \A c \in Claims : deleter'[c].pc # "idle" => informer[c].id # None
  BY <1>1, <1>3 DEF LifecycleInv, LifecycleTypeOK, NodeClaims, WorkIsKnown
<1> QED
  BY Zenon, <1>1, <1>2, <1>3, <1>4, <1>5, Frame DEF objects

LEMMA AgeStep ==
  ASSUME LifecycleInv, NEW i \in Instances, Age(i)
  PROVE  LifecycleInv'
<1>1. /\ UNCHANGED <<nodes, claim, informer, inflight, shifted, cache, deleter, gc, tagger, tagQueue, events>>
      /\ ec2[i].state = "running"
      /\ \A c \in Claims : inflight[c] # i /\ (claim[c].id = i => informer[c].id = i)
      /\ ec2' = [ec2 EXCEPT ![i].old = TRUE]
  BY Zenon DEF Age, objects
<1>2. LifecycleTypeOK'
  BY ZenonT(30), <1>1 DEF LifecycleInv, LifecycleTypeOK
<1>3. \A j \in Instances :
        /\ ec2'[j].state = ec2[j].state /\ ec2'[j].tagged = ec2[j].tagged
        /\ ec2'[j].visible = ec2[j].visible
        /\ ec2[j].old => ec2'[j].old
        /\ ec2'[j].old => ec2[j].old \/ j = i
  BY <1>1 DEF LifecycleInv, LifecycleTypeOK
<1>4. IdStoredOnce'
  BY Zenon, <1>1 DEF LifecycleInv, IdStoredOnce
<1>5. OldIsStored'
  BY <1>1, <1>3 DEF LifecycleInv, OldIsStored
<1>6. WorkIsKnown'
  BY <1>1, <1>3 DEF LifecycleInv, LifecycleTypeOK, NodeClaims, WorkIsKnown
<1>7. OwnedIsNotCollected'
  BY Zenon, <1>1 DEF LifecycleInv, OwnedIsNotCollected, Owned
<1>8. AnnotatedIsTagged'
  BY <1>1, <1>3 DEF LifecycleInv, LifecycleTypeOK, NodeClaims, AnnotatedIsTagged, IdStoredOnce
<1> QED
  BY Zenon, <1>2, <1>4, <1>5, <1>6, <1>7, <1>8 DEF LifecycleInv

LEMMA EventBound ==
  ASSUME LifecycleInv, Event
  PROVE  events' \in 0..MaxEvents /\ events' # events
BY NoneAssumption DEF LifecycleInv, LifecycleTypeOK, Event

LEMMA ShiftStep ==
  ASSUME LifecycleInv, Shift \/ Unshift \/ UNCHANGED lifecycleVars
  PROVE  LifecycleInv'
<1>1. /\ UNCHANGED <<ec2, objects, cache, deleter, gc, tagger, tagQueue>>
      /\ shifted' \in BOOLEAN /\ events' \in 0..MaxEvents
  BY ZenonT(30), EventBound DEF Shift, Unshift, lifecycleVars, LifecycleInv, LifecycleTypeOK
<1> QED
  BY <1>1 DEF objects, LifecycleInv, LifecycleTypeOK, IdStoredOnce, OldIsStored, WorkIsKnown,
              OwnedIsNotCollected, Owned, AnnotatedIsTagged

LEMMA RestartStep ==
  ASSUME LifecycleInv, Restart
  PROVE  LifecycleInv'
<1>1. /\ UNCHANGED <<ec2, nodes, claim, shifted>>
      /\ inflight' = [c \in Claims |-> None]
      /\ informer' = claim
      /\ cache' = [i \in Instances |-> None]
      /\ deleter' = [a \in Deleters |-> IdleDelete]
      /\ gc' = IdleGC /\ tagger' = IdleTagger /\ tagQueue' \subseteq Claims
      /\ events' \in 0..MaxEvents
  BY Zenon, EventBound DEF Restart
<1>2. LifecycleTypeOK'
  BY Zenon, <1>1 DEF LifecycleInv, LifecycleTypeOK, IdleDelete, IdleGC, IdleTagger, Entries, States
<1>3. /\ \A c \in Claims : inflight'[c] = None /\ informer'[c] = claim[c] /\ deleter'[c].pc = "idle"
      /\ gc'.todo = {} /\ tagger'.pc = "idle" /\ \A i \in Instances : cache'[i] = None
  BY Zenon, <1>1 DEF IdleGC, IdleTagger, IdleDelete, Deleters
<1>4. IdStoredOnce'
  BY Zenon, <1>1, <1>3 DEF LifecycleInv, IdStoredOnce
<1>5. OldIsStored'
  BY Zenon, <1>1, <1>3, NoneAssumption DEF LifecycleInv, OldIsStored
<1>6. WorkIsKnown' /\ OwnedIsNotCollected'
  BY Zenon, <1>1, <1>3 DEF WorkIsKnown, OwnedIsNotCollected
<1>7. AnnotatedIsTagged'
  BY Zenon, <1>1 DEF LifecycleInv, AnnotatedIsTagged
<1> QED
  BY Zenon, <1>2, <1>4, <1>5, <1>6, <1>7 DEF LifecycleInv

-----------------------------------------------------------------------------
(* The instance provider and Delete *)

\* What a lookup leaves in the cache is well-formed, and no more tagged than EC2's.
LEMMA Looked ==
  ASSUME LifecycleInv, NEW i \in Instances, Describe(i)
  PROVE  /\ cache' \in [Instances -> Entries]
         /\ \A j \in Instances : cache'[j] # None /\ cache'[j].tagged => ec2[j].tagged
         /\ \A j \in Instances : cache'[j] # cache[j] => j = i
<1>1. /\ cache \in [Instances -> Entries]
      /\ ec2[i].state \in States /\ ec2[i].tagged \in BOOLEAN
      /\ ec2[i].visible => ec2[i].state # "none"
      /\ \A j \in Instances : cache[j] # None /\ cache[j].tagged => ec2[j].tagged
  BY Zenon DEF LifecycleInv, LifecycleTypeOK, OldIsStored, WorkIsKnown
<1>2. CASE cache' = [cache EXCEPT ![i] = Entry(i)] /\ Found(i)
  <2>1. Entry(i) \in Entries /\ Entry(i).tagged = ec2[i].tagged
    BY Zenon, <1>1, <1>2 DEF Entry, Entries, Found, States
  <2> QED
    BY Zenon, <1>1, <1>2, <2>1
<1>3. CASE cache' = [cache EXCEPT ![i] = None] \/ UNCHANGED cache
  BY Zenon, <1>1, <1>3 DEF Entries
<1> QED
  BY Zenon, <1>2, <1>3 DEF Describe

\* A Delete under way is about an instance.
LEMMA TargetIsInstance ==
  ASSUME LifecycleInv, NEW a \in Deleters, deleter[a].pc # "idle"
  PROVE  Target(a) \in Instances
BY Zenon DEF LifecycleInv, LifecycleTypeOK, NodeClaims, WorkIsKnown, Target, Deleters

\* The end of a Delete.
LEMMA Returned ==
  ASSUME LifecycleInv, NEW a \in Deleters, deleter[a].pc # "idle",
         NEW notFound \in BOOLEAN, NEW deleted \in BOOLEAN, Return(a, notFound, deleted)
  PROVE  /\ deleter' = [deleter EXCEPT ![a] = IdleDelete]
         /\ deleter' \in [Deleters -> [pc : {"idle", "describe", "terminate"}, state : States]]
         /\ claim' = claim \/ (a \in Claims /\ notFound /\ claim' = [claim EXCEPT ![a].phase = "gone"])
         /\ claim' \in [Claims -> NodeClaims]
         /\ nodes' \subseteq nodes
         /\ gc'.todo \subseteq gc.todo
         /\ gc' \in [pc : {"idle", "listed", "collect"}, found : SUBSET Instances,
                     nodes : SUBSET Instances, todo : SUBSET Instances]
         /\ UNCHANGED <<informer, inflight>>
         /\ \A c \in Claims : deleter'[c].pc # "idle" => deleter[c].pc # "idle"
<1>1. /\ deleter \in [Deleters -> [pc : {"idle", "describe", "terminate"}, state : States]]
      /\ claim \in [Claims -> NodeClaims]
      /\ gc \in [pc : {"idle", "listed", "collect"}, found : SUBSET Instances,
                 nodes : SUBSET Instances, todo : SUBSET Instances]
  BY Zenon DEF LifecycleInv, LifecycleTypeOK
<1>2. deleter' = [deleter EXCEPT ![a] = IdleDelete] /\ UNCHANGED <<informer, inflight>> /\ nodes' \subseteq nodes
  BY Zenon DEF Return
<1>3. /\ deleter' \in [Deleters -> [pc : {"idle", "describe", "terminate"}, state : States]]
      /\ \A c \in Claims : deleter'[c].pc # "idle" => deleter[c].pc # "idle"
  BY Zenon, <1>1, <1>2 DEF IdleDelete, States, Deleters
<1>4. claim' = claim \/ (a \in Claims /\ notFound /\ claim' = [claim EXCEPT ![a].phase = "gone"])
  BY Zenon DEF Return
<1>5. claim' \in [Claims -> NodeClaims]
  <2>1. CASE claim' = claim
    BY Zenon, <1>1, <2>1
  <2>2. CASE a \in Claims /\ claim' = [claim EXCEPT ![a].phase = "gone"]
    BY ZenonT(30), <1>1, <2>2, ClaimUpdates
  <2> QED
    BY Zenon, <1>4, <2>1, <2>2
<1>6. /\ gc'.todo \subseteq gc.todo
      /\ gc' \in [pc : {"idle", "listed", "collect"}, found : SUBSET Instances,
                  nodes : SUBSET Instances, todo : SUBSET Instances]
  <2>1. gc' = gc \/ gc' = IdleGC \/ gc' = [gc EXCEPT !.todo = gc.todo \ {a}]
    BY Zenon DEF Return
  <2>2. CASE gc' = gc
    BY Zenon, <1>1, <2>2
  <2>3. CASE gc' = IdleGC
    BY Zenon, <2>3 DEF IdleGC
  <2>4. CASE gc' = [gc EXCEPT !.todo = gc.todo \ {a}]
    BY Zenon, <1>1, <2>4
  <2> QED
    BY Zenon, <2>1, <2>2, <2>3, <2>4
<1> QED
  BY Zenon, <1>2, <1>3, <1>4, <1>5, <1>6

LEMMA DeleteGetStep ==
  ASSUME LifecycleInv, NEW a \in Deleters, DeleteGet(a)
  PROVE  LifecycleInv'
<1>1. /\ UNCHANGED <<ec2, nodes, claim, informer, inflight, shifted, cache, gc, tagger, tagQueue, events>>
      /\ a \in Claims => informer[a].id # None
  BY Zenon DEF DeleteGet, objects
<1>2. Target(a) \in Instances
  BY Zenon, <1>1 DEF Target, Deleters, LifecycleInv, LifecycleTypeOK, NodeClaims
<1>3. PICK d \in [pc : {"idle", "describe", "terminate"}, state : States] :
        deleter' = [deleter EXCEPT ![a] = d]
  <2>1. FromCache(Target(a)) => cache[Target(a)].state \in States
    BY Zenon, <1>2 DEF FromCache, LifecycleInv, LifecycleTypeOK, Entries, States
  <2>2. CASE FromCache(Target(a))
    <3>1. deleter' = [deleter EXCEPT ![a] = [pc |-> "terminate", state |-> cache[Target(a)].state]]
      BY Zenon, <2>2 DEF DeleteGet
    <3> QED
      BY ZenonT(30), <2>1, <2>2, <3>1
  <2>3. CASE ~FromCache(Target(a))
    <3>1. deleter' = [deleter EXCEPT ![a] = [pc |-> "describe", state |-> "none"]]
      BY Zenon, <2>3 DEF DeleteGet
    <3> QED
      BY ZenonT(30), <3>1 DEF States
  <2> QED
    BY Zenon, <2>2, <2>3
<1>4. LifecycleTypeOK'
  BY Zenon, <1>1, <1>3 DEF LifecycleInv, LifecycleTypeOK
<1>5. \A c \in Claims : deleter'[c].pc # "idle" => informer[c].id # None
  BY Zenon, <1>1, <1>3 DEF LifecycleInv, LifecycleTypeOK, WorkIsKnown, Deleters
<1>6. IdStoredOnce' /\ OldIsStored' /\ OwnedIsNotCollected' /\ AnnotatedIsTagged'
  BY <1>1 DEF LifecycleInv, IdStoredOnce, OldIsStored, OwnedIsNotCollected, Owned, AnnotatedIsTagged
<1>7. WorkIsKnown'
  BY Zenon, <1>1, <1>5 DEF LifecycleInv, WorkIsKnown
<1> QED
  BY Zenon, <1>4, <1>6, <1>7 DEF LifecycleInv

LEMMA DeleteDescribeStep ==
  ASSUME LifecycleInv, NEW a \in Deleters, DeleteDescribe(a)
  PROVE  LifecycleInv'
<1> DEFINE i == Target(a)
<1>1. i \in Instances /\ deleter[a].pc = "describe"
  BY Zenon, TargetIsInstance DEF DeleteDescribe
<1>2. /\ UNCHANGED <<ec2, shifted, tagger, tagQueue, events>> /\ Describe(i)
      /\ \/ /\ deleter' = [deleter EXCEPT ![a] = [pc |-> "terminate", state |-> ec2[i].state]]
            /\ UNCHANGED <<nodes, claim, informer, inflight, gc>>
         \/ Return(a, TRUE, FALSE)
  BY ZenonT(30) DEF DeleteDescribe, objects
<1> HIDE DEF i
<1>3. /\ cache' \in [Instances -> Entries]
      /\ \A j \in Instances : cache'[j] # None /\ cache'[j].tagged => ec2[j].tagged
  BY Zenon, <1>1, <1>2, Looked
<1>4. CASE /\ deleter' = [deleter EXCEPT ![a] = [pc |-> "terminate", state |-> ec2[i].state]]
           /\ UNCHANGED <<nodes, claim, informer, inflight, gc>>
  <2>1. LifecycleTypeOK'
    BY Zenon, <1>1, <1>2, <1>3, <1>4 DEF LifecycleInv, LifecycleTypeOK
  <2>2. \A c \in Claims : deleter'[c].pc # "idle" => deleter[c].pc # "idle"
    BY Zenon, <1>1, <1>4 DEF LifecycleInv, LifecycleTypeOK, Deleters
  <2>3. \A c \in Claims : claim'[c] = claim[c]
    BY Zenon, <1>4
  <2> QED
    BY Zenon, <1>2, <1>3, <1>4, <2>1, <2>2, <2>3, ClaimsMove
<1>5. CASE Return(a, TRUE, FALSE)
  <2>1. /\ claim' = claim \/ (a \in Claims /\ claim' = [claim EXCEPT ![a].phase = "gone"])
        /\ claim' \in [Claims -> NodeClaims] /\ nodes' \subseteq nodes /\ gc'.todo \subseteq gc.todo
        /\ deleter' \in [Deleters -> [pc : {"idle", "describe", "terminate"}, state : States]]
        /\ gc' \in [pc : {"idle", "listed", "collect"}, found : SUBSET Instances,
                    nodes : SUBSET Instances, todo : SUBSET Instances]
        /\ UNCHANGED <<informer, inflight>>
        /\ \A c \in Claims : deleter'[c].pc # "idle" => deleter[c].pc # "idle"
    BY ZenonT(30), <1>1, <1>5, Returned
  <2>2. LifecycleTypeOK'
    BY Zenon, <1>2, <1>3, <2>1 DEF LifecycleInv, LifecycleTypeOK
  <2>3. \A c \in Claims :
          /\ claim'[c].id = claim[c].id /\ claim'[c].node = claim[c].node /\ claim'[c].tagged = claim[c].tagged
          /\ claim[c].phase = "gone" => claim'[c].phase = "gone"
    BY <2>1 DEF LifecycleInv, LifecycleTypeOK, NodeClaims
  <2>4. \A c \in Claims : /\ claim'[c].node => claim[c].node
                          /\ claim'[c].tagged => claim[c].tagged
    BY <2>3, Zenon
  <2> QED
    BY Zenon, <1>2, <1>3, <2>1, <2>2, <2>3, <2>4, ClaimsMove
<1> QED
  BY ZenonT(30), <1>2, <1>4, <1>5

LEMMA DeleteTerminateStep ==
  ASSUME LifecycleInv, NEW a \in Deleters, DeleteTerminate(a) \/ DeleteFails(a)
  PROVE  LifecycleInv'
<1> DEFINE i == Target(a)
<1>1. i \in Instances /\ deleter[a].pc = "terminate"
  BY ZenonT(30), TargetIsInstance DEF DeleteTerminate, DeleteFails
<1>2. /\ UNCHANGED <<shifted, cache, tagger, tagQueue>> /\ events' \in 0..MaxEvents
      /\ \E deleted \in BOOLEAN : Return(a, FALSE, deleted)
      /\ ec2' = ec2 \/ (ec2[i].state = "running" /\ ec2' = [ec2 EXCEPT ![i].state = "shutting-down"])
  BY ZenonT(30), EventBound DEF DeleteTerminate, DeleteFails, LifecycleInv, LifecycleTypeOK
<1> HIDE DEF i
<1>3. /\ UNCHANGED <<claim, informer, inflight>> /\ nodes' \subseteq nodes /\ gc'.todo \subseteq gc.todo
      /\ deleter' \in [Deleters -> [pc : {"idle", "describe", "terminate"}, state : States]]
      /\ gc' \in [pc : {"idle", "listed", "collect"}, found : SUBSET Instances,
                  nodes : SUBSET Instances, todo : SUBSET Instances]
      /\ \A c \in Claims : deleter'[c].pc # "idle" => deleter[c].pc # "idle"
  BY ZenonT(30), <1>1, <1>2, Returned
<1>4. ec2' \in [Instances -> [state : States, visible : BOOLEAN, old : BOOLEAN, tagged : BOOLEAN]]
  BY <1>1, <1>2 DEF LifecycleInv, LifecycleTypeOK, States
<1>5. \A j \in Instances :
        /\ ec2'[j].old = ec2[j].old /\ ec2'[j].tagged = ec2[j].tagged /\ ec2'[j].visible = ec2[j].visible
        /\ ec2'[j].state \in {ec2[j].state, "shutting-down"}
  BY <1>1, <1>2 DEF LifecycleInv, LifecycleTypeOK
<1>6. LifecycleTypeOK'
  BY Zenon, <1>2, <1>3, <1>4 DEF LifecycleInv, LifecycleTypeOK
<1>7. \A j \in Instances :
        /\ ec2[j].tagged => ec2'[j].tagged
        /\ ec2'[j].visible => ec2'[j].state # "none"
        /\ ec2[j].state # "none" => ec2'[j].state # "none"
  BY Zenon, <1>5 DEF LifecycleInv, OldIsStored
<1>8. /\ tagger'.pc # "idle" => tagger'.on \in Claims /\ claim[tagger'.on].id # None
      /\ tagger'.pc = "patch" => ec2'[claim[tagger'.on].id].tagged
      /\ \A j \in Instances : cache'[j] # None /\ cache'[j].tagged => ec2'[j].tagged
      /\ \A c \in Claims : deleter'[c].pc # "idle" => informer[c].id # None
  BY <1>2, <1>3, <1>7 DEF LifecycleInv, LifecycleTypeOK, NodeClaims, WorkIsKnown
<1> QED
  BY Zenon, <1>3, <1>5, <1>6, <1>7, <1>8, Frame

-----------------------------------------------------------------------------
(* The garbage collector *)

LEMMA GCListStep ==
  ASSUME LifecycleInv, GCList
  PROVE  LifecycleInv'
<1>1. PICK found \in SUBSET {i \in Instances : Found(i)} :
        /\ List(found)
        /\ gc' = [gc EXCEPT !.pc = "listed", !.found = {i \in found : ec2[i].state = "running"}]
  BY ZenonT(30) DEF GCList
<1>2. UNCHANGED <<ec2, nodes, claim, informer, inflight, shifted, deleter, tagger, tagQueue, events>>
  BY Zenon DEF GCList, objects
<1>3. \A i \in Instances :
        /\ cache'[i] \in Entries
        /\ cache'[i] # None /\ cache'[i].tagged => ec2[i].tagged
  <2> SUFFICES ASSUME NEW i \in Instances
               PROVE  cache'[i] \in Entries /\ (cache'[i] # None /\ cache'[i].tagged => ec2[i].tagged)
    BY Zenon
  <2>1. /\ cache[i] \in Entries /\ ec2[i].state \in States /\ ec2[i].tagged \in BOOLEAN
        /\ ec2[i].visible => ec2[i].state # "none"
        /\ cache[i] # None /\ cache[i].tagged => ec2[i].tagged
    BY Zenon DEF LifecycleInv, LifecycleTypeOK, OldIsStored, WorkIsKnown
  <2>2. cache'[i] \in {cache[i], None} \/ (Found(i) /\ cache'[i] = Entry(i))
    BY Zenon, <1>1 DEF List
  <2>3. CASE cache'[i] \in {cache[i], None}
    BY Zenon, <2>1, <2>3 DEF Entries
  <2>4. CASE Found(i) /\ cache'[i] = Entry(i)
    BY <2>1, <2>4 DEF Entry, Entries, Found, States
  <2> QED
    BY Zenon, <2>2, <2>3, <2>4
<1>4. cache' \in [Instances -> Entries]
  BY Zenon, <1>1, <1>3 DEF List
<1>5. /\ gc' \in [pc : {"idle", "listed", "collect"}, found : SUBSET Instances,
                  nodes : SUBSET Instances, todo : SUBSET Instances]
      /\ gc'.todo = gc.todo
  <2> DEFINE f == {i \in found : ec2[i].state = "running"}
  <2>1. f \in SUBSET Instances /\ gc' = [gc EXCEPT !.pc = "listed", !.found = f]
    BY Zenon, <1>1
  <2> HIDE DEF f
  <2> QED
    BY ZenonT(30), <2>1 DEF LifecycleInv, LifecycleTypeOK
<1>6. LifecycleTypeOK'
  BY Zenon, <1>2, <1>4, <1>5 DEF LifecycleInv, LifecycleTypeOK
<1>7. \A c \in Claims : claim'[c] = claim[c]
  BY Zenon, <1>2
<1> QED
  BY Zenon, <1>2, <1>3, <1>5, <1>6, <1>7, ClaimsMove

\* What the collector takes for leaked is nobody's: an old instance that no copy of
\* a NodeClaim names is not named by a NodeClaim either.
LEMMA LeakedIsNotOwned ==
  ASSUME LifecycleInv, NEW i \in Leaked
  PROVE  i \in Instances /\ ec2[i].old /\ ~Owned(i)
<1>1. i \in Instances /\ ec2[i].old /\ i \notin Known(informer)
  BY Zenon DEF Leaked, LifecycleInv, LifecycleTypeOK
<1>2. ASSUME NEW c \in Claims, claim[c].id = i, claim[c].phase # "gone" PROVE FALSE
  <2>1. informer[c].id = i /\ informer[c].phase # "gone"
    BY Zenon, <1>1, <1>2 DEF LifecycleInv, OldIsStored, IdStoredOnce
  <2> QED
    BY Zenon, <1>1, <2>1 DEF Known
<1>3. \A c \in Claims : inflight[c] # i
  BY Zenon, <1>1 DEF LifecycleInv, OldIsStored
<1> QED
  BY Zenon, <1>1, <1>2, <1>3 DEF Owned

LEMMA GCFilterStep ==
  ASSUME LifecycleInv, GCFilter
  PROVE  LifecycleInv'
<1>1. /\ UNCHANGED <<ec2, nodes, claim, informer, inflight, shifted, cache, deleter, tagger, tagQueue, events>>
      /\ \/ gc' = IdleGC
         \/ gc' = [pc |-> "collect", found |-> {}, nodes |-> nodes \cap Leaked, todo |-> Leaked]
  BY Zenon DEF GCFilter, objects
<1>2. Leaked \subseteq Instances
  BY Zenon, LeakedIsNotOwned
<1>3. /\ gc' \in [pc : {"idle", "listed", "collect"}, found : SUBSET Instances,
                  nodes : SUBSET Instances, todo : SUBSET Instances]
      /\ gc'.todo \subseteq Leaked
  <2>1. nodes \cap Leaked \in SUBSET Instances /\ Leaked \in SUBSET Instances
    BY Zenon, <1>2
  <2>2. CASE gc' = IdleGC
    BY Zenon, <2>2 DEF IdleGC
  <2>3. CASE gc' = [pc |-> "collect", found |-> {}, nodes |-> nodes \cap Leaked, todo |-> Leaked]
    BY Zenon, <2>1, <2>3
  <2> QED
    BY Zenon, <1>1, <2>2, <2>3
<1>4. LifecycleTypeOK'
  BY Zenon, <1>1, <1>3 DEF LifecycleInv, LifecycleTypeOK
<1>5. \A i \in gc'.todo : ec2[i].old /\ ~Owned(i)
  BY Zenon, <1>3, LeakedIsNotOwned
<1>6. \A i : Owned(i)' <=> Owned(i)
  BY Zenon, <1>1 DEF Owned
<1>7. IdStoredOnce' /\ OldIsStored' /\ AnnotatedIsTagged'
  BY Zenon, <1>1 DEF LifecycleInv, IdStoredOnce, OldIsStored, AnnotatedIsTagged
<1>8. WorkIsKnown' /\ OwnedIsNotCollected'
  BY Zenon, <1>1, <1>5, <1>6 DEF LifecycleInv, WorkIsKnown, OwnedIsNotCollected
<1> QED
  BY Zenon, <1>4, <1>7, <1>8 DEF LifecycleInv

-----------------------------------------------------------------------------
(* The tagging controller *)

\* A step of the tagger before its patch: it goes on with a NodeClaim that has an
\* instance, and patches only if that is tagged.
LEMMA TaggerMoves ==
  ASSUME LifecycleInv,
         UNCHANGED <<nodes, claim, informer, inflight, shifted, deleter, gc>>,
         events' \in 0..MaxEvents, tagQueue' \subseteq Claims,
         cache' \in [Instances -> Entries],
         \A j \in Instances : cache'[j] # None /\ cache'[j].tagged => ec2[j].tagged,
         ec2' \in [Instances -> [state : States, visible : BOOLEAN, old : BOOLEAN, tagged : BOOLEAN]],
         \A j \in Instances :
            /\ ec2'[j].old = ec2[j].old /\ ec2'[j].visible = ec2[j].visible /\ ec2'[j].state = ec2[j].state
            /\ ec2[j].tagged => ec2'[j].tagged,
         \/ tagger' = IdleTagger
         \/ /\ tagger' \in [pc : {"describe", "create", "patch"}, on : Claims]
            /\ claim[tagger'.on].id # None
            /\ tagger'.pc = "patch" => ec2'[claim[tagger'.on].id].tagged
  PROVE  LifecycleInv'
<1>1. /\ tagger' \in [pc : {"idle", "describe", "create", "patch"}, on : Claims \cup {None}]
      /\ tagger'.pc # "idle" => tagger'.on \in Claims /\ claim[tagger'.on].id # None
      /\ tagger'.pc = "patch" => ec2'[claim[tagger'.on].id].tagged
  <2>1. CASE tagger' = IdleTagger
    BY Zenon, <2>1 DEF IdleTagger
  <2>2. CASE tagger' # IdleTagger
    BY Zenon, <2>2
  <2> QED
    BY Zenon, <2>1, <2>2
<1>2. LifecycleTypeOK'
  BY Zenon, <1>1 DEF LifecycleInv, LifecycleTypeOK
<1>3. /\ \A c \in Claims : deleter'[c].pc # "idle" => informer[c].id # None
      /\ \A j \in Instances : cache'[j] # None /\ cache'[j].tagged => ec2'[j].tagged
      /\ \A j \in Instances : /\ ec2'[j].visible => ec2'[j].state # "none"
                              /\ ec2[j].state # "none" => ec2'[j].state # "none"
  BY Zenon DEF LifecycleInv, WorkIsKnown, OldIsStored
<1> QED
  BY Zenon, <1>1, <1>2, <1>3, Frame

\* The facts about the present state that the tagger's steps use.
LEMMA TaggerFacts ==
  ASSUME LifecycleInv
  PROVE  /\ cache \in [Instances -> Entries] /\ tagQueue \subseteq Claims /\ events \in 0..MaxEvents
         /\ \A j \in Instances : cache[j] # None /\ cache[j].tagged => ec2[j].tagged
         /\ ec2 \in [Instances -> [state : States, visible : BOOLEAN, old : BOOLEAN, tagged : BOOLEAN]]
         /\ tagger.pc # "idle" => tagger.on \in Claims /\ claim[tagger.on].id \in Instances
         /\ tagger \in [pc : {"idle", "describe", "create", "patch"}, on : Claims \cup {None}]
BY DEF LifecycleInv, LifecycleTypeOK, WorkIsKnown, NodeClaims

LEMMA TagStartStep ==
  ASSUME LifecycleInv, NEW c \in Claims, TagStart(c)
  PROVE  LifecycleInv'
<1>1. /\ UNCHANGED <<ec2, nodes, claim, informer, inflight, shifted, cache, deleter, gc, events>>
      /\ tagQueue' \subseteq tagQueue
      /\ \/ tagger' = IdleTagger
         \/ /\ isTaggable(informer[c])
            /\ \/ tagger' = [pc |-> "describe", on |-> c]
               \/ tagger' = [pc |-> "create", on |-> c]
               \/ /\ tagger' = [pc |-> "patch", on |-> c]
                  /\ FromCache(informer[c].id) /\ cache[informer[c].id].tagged
  BY Zenon DEF TagStart, objects
<1>2. ASSUME isTaggable(informer[c])
      PROVE  /\ claim[c].id \in Instances /\ claim[c].id # None /\ informer[c].id = claim[c].id
             /\ FromCache(informer[c].id) /\ cache[informer[c].id].tagged => ec2[claim[c].id].tagged
  <2>1. informer[c].id # None /\ informer[c].id = claim[c].id
    BY Zenon, <1>2 DEF isTaggable, LifecycleInv, IdStoredOnce
  <2>2. claim[c].id \in Instances
    BY Zenon, <2>1 DEF LifecycleInv, LifecycleTypeOK, NodeClaims
  <2> QED
    BY Zenon, <2>1, <2>2, TaggerFacts DEF FromCache
<1>3. \/ tagger' = IdleTagger
      \/ /\ tagger' \in [pc : {"describe", "create", "patch"}, on : Claims]
         /\ claim[tagger'.on].id # None
         /\ tagger'.pc = "patch" => ec2'[claim[tagger'.on].id].tagged
  BY <1>1, <1>2
<1> QED
  BY Zenon, <1>1, <1>3, TaggerFacts, TaggerMoves

LEMMA TagDescribeStep ==
  ASSUME LifecycleInv, TagDescribe
  PROVE  LifecycleInv'
<1> DEFINE c == tagger.on
           i == claim[tagger.on].id
<1>1. tagger.pc = "describe" /\ c \in Claims /\ i \in Instances /\ i # None
  BY Zenon, TaggerFacts, NoneAssumption DEF TagDescribe
<1>2. /\ UNCHANGED <<ec2, nodes, claim, informer, inflight, shifted, deleter, gc, events>>
      /\ Describe(i)
      /\ \/ /\ tagger' = [tagger EXCEPT !.pc = "create"] /\ UNCHANGED tagQueue
         \/ /\ tagger' = [tagger EXCEPT !.pc = "patch"] /\ UNCHANGED tagQueue /\ ec2[i].tagged
         \/ tagger' = IdleTagger /\ tagQueue' = tagQueue
  BY Zenon DEF TagDescribe, TagEnd, objects
<1>3. /\ cache' \in [Instances -> Entries]
      /\ \A j \in Instances : cache'[j] # None /\ cache'[j].tagged => ec2[j].tagged
  BY Zenon, <1>1, <1>2, Looked
<1>4. \/ tagger' = IdleTagger
      \/ /\ tagger' \in [pc : {"describe", "create", "patch"}, on : Claims]
         /\ claim[tagger'.on].id # None
         /\ tagger'.pc = "patch" => ec2'[claim[tagger'.on].id].tagged
  BY Zenon, <1>1, <1>2, TaggerFacts
<1> QED
  BY Zenon, <1>2, <1>3, <1>4, TaggerFacts, TaggerMoves

LEMMA TagCreateStep ==
  ASSUME LifecycleInv, TagCreate
  PROVE  LifecycleInv'
<1> DEFINE i == claim[tagger.on].id
<1>1. tagger.pc = "create" /\ tagger.on \in Claims /\ i \in Instances /\ i # None
  BY Zenon, TaggerFacts, NoneAssumption DEF TagCreate
<1>2. /\ UNCHANGED <<nodes, claim, informer, inflight, shifted, cache, deleter, gc, events>>
      /\ tagQueue' \subseteq tagQueue \cup {tagger.on}
      /\ \/ ec2' = ec2 /\ tagger' = IdleTagger
         \/ ec2' = [ec2 EXCEPT ![i].tagged = TRUE] /\ tagger' = [tagger EXCEPT !.pc = "patch"]
  BY Zenon DEF TagCreate, CreateTags, TagEnd, objects
<1> HIDE DEF i
<1>3. /\ ec2' \in [Instances -> [state : States, visible : BOOLEAN, old : BOOLEAN, tagged : BOOLEAN]]
      /\ \A j \in Instances :
            /\ ec2'[j].old = ec2[j].old /\ ec2'[j].visible = ec2[j].visible /\ ec2'[j].state = ec2[j].state
            /\ ec2[j].tagged => ec2'[j].tagged
  <2> DEFINE Machines == [state : States, visible : BOOLEAN, old : BOOLEAN, tagged : BOOLEAN]
  <2>1. ec2 \in [Instances -> Machines] /\ [ec2[i] EXCEPT !.tagged = TRUE] \in Machines
    BY ZenonT(30), <1>1, TaggerFacts
  <2>2. ec2' \in [Instances -> Machines]
    <3> HIDE DEF Machines
    <3> QED
      BY ZenonT(30), <1>1, <1>2, <2>1
  <2>3. \A j \in Instances :
          /\ ec2'[j].old = ec2[j].old /\ ec2'[j].visible = ec2[j].visible /\ ec2'[j].state = ec2[j].state
          /\ ec2[j].tagged => ec2'[j].tagged
    BY <1>1, <1>2, <2>1
  <2> QED
    BY Zenon, <2>2, <2>3
<1>4. \/ tagger' = IdleTagger
      \/ /\ tagger' \in [pc : {"describe", "create", "patch"}, on : Claims]
         /\ claim[tagger'.on].id # None
         /\ tagger'.pc = "patch" => ec2'[claim[tagger'.on].id].tagged
  <2>1. CASE ec2' = [ec2 EXCEPT ![i].tagged = TRUE] /\ tagger' = [tagger EXCEPT !.pc = "patch"]
    <3>1. tagger' \in [pc : {"describe", "create", "patch"}, on : Claims] /\ tagger'.on = tagger.on
      BY Zenon, <1>1, <2>1, TaggerFacts
    <3>2. ec2'[i].tagged
      BY Zenon, <1>1, <2>1, TaggerFacts
    <3> QED
      BY Zenon, <1>1, <3>1, <3>2 DEF i
  <2> QED
    BY Zenon, <1>2, <2>1
<1>5. tagQueue' \subseteq Claims
  BY Zenon, <1>1, <1>2, TaggerFacts
<1> QED
  BY Zenon, <1>2, <1>3, <1>4, <1>5, TaggerFacts, TaggerMoves

LEMMA TagFailsStep ==
  ASSUME LifecycleInv, TagFails
  PROVE  LifecycleInv'
<1>1. /\ UNCHANGED <<ec2, nodes, claim, informer, inflight, shifted, cache, deleter, gc>>
      /\ tagger' = IdleTagger /\ tagQueue' = tagQueue \cup {tagger.on} /\ tagger.pc # "idle"
      /\ events' \in 0..MaxEvents
  BY Zenon, EventBound DEF TagFails, TagEnd, objects
<1>2. tagQueue' \subseteq Claims
  BY Zenon, <1>1, TaggerFacts
<1> QED
  BY Zenon, <1>1, <1>2, TaggerFacts, TaggerMoves

-----------------------------------------------------------------------------

LEMMA LifecycleInitInv == LifecycleInit => LifecycleInv
<1> SUFFICES ASSUME LifecycleInit PROVE LifecycleInv
  BY Zenon
<1>1. /\ ec2 = [i \in Instances |-> [state |-> "none", visible |-> FALSE, old |-> FALSE, tagged |-> FALSE]]
      /\ claim = [c \in Claims |-> [phase |-> "live", id |-> None, node |-> FALSE, tagged |-> FALSE]]
      /\ informer = claim /\ inflight = [c \in Claims |-> None] /\ nodes = {} /\ shifted = FALSE
      /\ cache = [i \in Instances |-> None] /\ deleter = [a \in Deleters |-> IdleDelete]
      /\ gc = IdleGC /\ tagger = IdleTagger /\ tagQueue = {} /\ events = 0
  BY Zenon DEF LifecycleInit
<1>2. LifecycleTypeOK
  <2>1. ec2 \in [Instances -> [state : States, visible : BOOLEAN, old : BOOLEAN, tagged : BOOLEAN]]
    BY Zenon, <1>1 DEF States
  <2>2. claim \in [Claims -> NodeClaims] /\ informer \in [Claims -> NodeClaims]
    BY Zenon, <1>1 DEF NodeClaims
  <2>3. /\ deleter \in [Deleters -> [pc : {"idle", "describe", "terminate"}, state : States]]
        /\ cache \in [Instances -> Entries] /\ inflight \in [Claims -> Instances \cup {None}]
    BY Zenon, <1>1 DEF IdleDelete, States, Entries
  <2>4. /\ gc \in [pc : {"idle", "listed", "collect"}, found : SUBSET Instances,
                   nodes : SUBSET Instances, todo : SUBSET Instances]
        /\ tagger \in [pc : {"idle", "describe", "create", "patch"}, on : Claims \cup {None}]
    BY Zenon, <1>1 DEF IdleGC, IdleTagger
  <2>5. events \in 0..MaxEvents /\ nodes \subseteq Instances /\ tagQueue \subseteq Claims /\ shifted \in BOOLEAN
    <3>1. events \in 0..MaxEvents
      BY NoneAssumption DEF LifecycleInit
    <3>2. nodes \subseteq Instances /\ tagQueue \subseteq Claims /\ shifted \in BOOLEAN
      BY ZenonT(30) DEF LifecycleInit
    <3> QED
      BY Zenon, <3>1, <3>2
  <2> QED
    BY Zenon, <2>1, <2>2, <2>3, <2>4, <2>5 DEF LifecycleTypeOK
<1>3. /\ \A c \in Claims : /\ claim[c].id = None /\ ~claim[c].node /\ ~claim[c].tagged
                           /\ claim[c].phase = "live" /\ inflight[c] = None /\ informer[c] = claim[c]
                           /\ deleter[c].pc = "idle"
      /\ \A i \in Instances : ~ec2[i].visible /\ ~ec2[i].old /\ cache[i] = None
      /\ gc.todo = {} /\ tagger.pc = "idle"
  BY Zenon, <1>1 DEF IdleGC, IdleTagger, IdleDelete, Deleters
<1>4. IdStoredOnce /\ OldIsStored /\ AnnotatedIsTagged
  BY Zenon, <1>3 DEF IdStoredOnce, OldIsStored, AnnotatedIsTagged
<1>5. WorkIsKnown /\ OwnedIsNotCollected
  BY Zenon, <1>3 DEF WorkIsKnown, OwnedIsNotCollected
<1> QED
  BY Zenon, <1>2, <1>4, <1>5 DEF LifecycleInv

LEMMA LifecycleNextInv == LifecycleInv /\ [LifecycleNext]_lifecycleVars => LifecycleInv'
<1> SUFFICES ASSUME LifecycleInv, [LifecycleNext]_lifecycleVars PROVE LifecycleInv'
  BY Zenon
<1>1. CASE \E c \in Claims : Launch(c) \/ Store(c) \/ DeleteClaim(c) \/ FinalizeUnlaunched(c) \/ Inform(c)
  BY Zenon, <1>1, LaunchStep, StoreStep, DeleteClaimStep, InformStep
<1>2. CASE \E i \in Instances : Appear(i) \/ Age(i) \/ Join(i) \/ ShutDown(i)
  BY Zenon, <1>2, InstanceStep, AgeStep, JoinStep
<1>3. CASE \E a \in Deleters : Delete(a) \/ DeleteFails(a)
  BY Zenon, <1>3, DeleteGetStep, DeleteDescribeStep, DeleteTerminateStep DEF Delete
<1>4. CASE Collect
  BY Zenon, <1>4, GCListStep, GCFilterStep DEF Collect
<1>5. CASE Tag \/ TagFails
  BY Zenon, <1>5, TagStartStep, TagDescribeStep, TagCreateStep, TagPatchStep, TagFailsStep DEF Tag
<1>6. CASE Shift \/ Unshift \/ UNCHANGED lifecycleVars
  BY Zenon, <1>6, ShiftStep
<1>7. CASE Restart
  BY Zenon, <1>7, RestartStep
<1> QED
  BY Zenon, <1>1, <1>2, <1>3, <1>4, <1>5, <1>6, <1>7 DEF LifecycleNext

\* The safety of instances from launch to termination (providers/instance,
\* controllers/nodeclaim/garbagecollection and tagging): with lagging informers,
\* restarts, failing calls and zonal shifts, the collector never works on an instance
\* that a NodeClaim has or is about to get, and an annotated NodeClaim has a tagged
\* instance.
THEOREM LifecycleSafety == LifecycleSpec => []LifecycleInv
BY LifecycleInitInv, LifecycleNextInv, PTL DEF LifecycleSpec

\* In a shifted zone only a lookup that had decided to ask EC2 before takes an entry
\* out of instanceCache, so that the zonal shift guards keep finding it.
THEOREM ShiftKeeps == LifecycleSpec => ShiftKeepsEntries
<1> DEFINE A == \A i \in Instances : FromCache(i) /\ cache'[i] = None /\ events' = events => Asking(i)
<1>1. LifecycleInv /\ [LifecycleNext]_lifecycleVars => [A]_lifecycleVars
  <2> SUFFICES ASSUME LifecycleInv, LifecycleNext,
                      NEW i \in Instances, FromCache(i), cache'[i] = None, events' = events
               PROVE  Asking(i)
    BY Zenon
  <2>1. cache[i] # None /\ shifted
    BY Zenon DEF FromCache
  <2>2. ASSUME NEW a \in Deleters, DeleteDescribe(a) PROVE Asking(i)
    <3>1. deleter[a].pc = "describe" /\ Target(a) \in Instances /\ Describe(Target(a))
      BY Zenon, <2>2, TargetIsInstance DEF DeleteDescribe
    <3>2. Target(a) = i
      BY Zenon, <2>1, <3>1, Looked
    <3> QED
      BY Zenon, <3>1, <3>2 DEF Asking
  <2>3. ASSUME TagDescribe PROVE Asking(i)
    <3>1. tagger.pc = "describe" /\ claim[tagger.on].id \in Instances /\ Describe(claim[tagger.on].id)
      BY Zenon, <2>3, TaggerFacts DEF TagDescribe
    <3>2. claim[tagger.on].id = i
      BY Zenon, <2>1, <3>1, Looked
    <3> QED
      BY Zenon, <3>1, <3>2 DEF Asking
  <2>4. ASSUME GCList PROVE FALSE
    <3>1. PICK found \in SUBSET {j \in Instances : Found(j)} : List(found)
      BY Zenon, <2>4 DEF GCList
    <3>2. cache'[i] = cache[i] \/ (Found(i) /\ cache'[i] = Entry(i))
      BY Zenon, <2>1, <3>1 DEF List
    <3>3. Found(i) => Entry(i) \in [state : {"running", "shutting-down"}, tagged : BOOLEAN]
      BY Zenon DEF Found, Entry, States, LifecycleInv, LifecycleTypeOK, OldIsStored
    <3> QED
      BY Zenon, <2>1, <3>2, <3>3, NoneAssumption
  <2>5. ASSUME Restart PROVE FALSE
    BY Zenon, <2>5, EventBound DEF Restart
  <2>6. CASE UNCHANGED cache
    BY Zenon, <2>1, <2>6
  <2> QED
    BY ZenonT(30), <2>2, <2>3, <2>4, <2>5, <2>6
       DEF LifecycleNext, Launch, Store, DeleteClaim, FinalizeUnlaunched, Inform, Appear, Age, Join, ShutDown,
           Shift, Unshift, Delete, DeleteGet, DeleteTerminate, DeleteFails, Collect, GCFilter, Tag,
           TagStart, TagCreate, TagFails, TagPatch
<1> QED
  BY <1>1, LifecycleSafety, PTL DEF LifecycleSpec, ShiftKeepsEntries

-----------------------------------------------------------------------------
(* Prices *)

SpotEntry == [known : BOOLEAN, defaultPrice : Price, prices : [PriceZones -> Price]]

LEMMA PriceFacts ==
  /\ 0 \in Price /\ 1 \in Price
  /\ NoPrices \in [SpotOffers -> Price] /\ NoOnDemand \in [PricedTypes -> Price]
  /\ staticPricing \in [PricedTypes -> Price]
  /\ IdleSpotPoll \in [pc : {"idle", "pages"}, left : SUBSET PriceZones, prices : [SpotOffers -> Price]]
  /\ IdleOnDemandPoll \in [pc : {"idle", "fetch"}, left : SUBSET {"standard", "metal"},
                           prices : [PricedTypes -> Price], failed : BOOLEAN]
  /\ \A o \in SteadyOffers : o \in SpotOffers /\ o[1] \in PricedTypes /\ o[2] \in PriceZones
                             /\ <<o[1], o[2]>> = o
<1>1. 0 \in Price /\ 1 \in Price
  BY PricingAssumption DEF Price
<1>2. NoPrices \in [SpotOffers -> Price] /\ NoOnDemand \in [PricedTypes -> Price]
      /\ staticPricing \in [PricedTypes -> Price]
  BY Zenon, <1>1 DEF NoPrices, NoOnDemand, staticPricing
<1>3. \A o \in SteadyOffers : o \in SpotOffers /\ o[1] \in PricedTypes /\ o[2] \in PriceZones
                              /\ <<o[1], o[2]>> = o
  BY PricingAssumption DEF SpotOffers
<1> QED
  BY Zenon, <1>1, <1>2, <1>3 DEF IdleSpotPoll, IdleOnDemandPoll

LEMMA InitialSpotPricing ==
  /\ populateInitialSpotPricing \in [PricedTypes -> SpotEntry]
  /\ \A t \in StaticTypes : populateInitialSpotPricing[t].known
                            /\ populateInitialSpotPricing[t].defaultPrice # 0
<1>1. staticPricing \in [PricedTypes -> Price] /\ 0 \in Price
  BY Zenon, PriceFacts
<1>2. \A t \in StaticTypes : t \in PricedTypes /\ staticPricing[t] = 1
  BY Zenon, PricingAssumption DEF staticPricing
<1> DEFINE k(t) == t \in StaticTypes
           none == [z \in PriceZones |-> 0]
<1>3. none \in [PriceZones -> Price] /\ \A t \in PricedTypes : k(t) \in BOOLEAN
  BY <1>1
<1>4. populateInitialSpotPricing =
        [t \in PricedTypes |-> [known |-> k(t), defaultPrice |-> staticPricing[t], prices |-> none]]
  BY Zenon DEF populateInitialSpotPricing
<1>5. \A t \in StaticTypes : k(t)
  BY Zenon
<1> HIDE DEF k, none
<1>6. \A t \in PricedTypes :
        [known |-> k(t), defaultPrice |-> staticPricing[t], prices |-> none] \in SpotEntry
  BY ZenonT(30), <1>1, <1>3 DEF SpotEntry
<1>7. \A t \in PricedTypes : populateInitialSpotPricing[t].known = k(t)
                             /\ populateInitialSpotPricing[t].defaultPrice = staticPricing[t]
  BY ZenonT(30), <1>4
<1>8. \A t \in StaticTypes : populateInitialSpotPricing[t].known
  BY <1>2, <1>5, <1>7, Zenon
<1>9. \A t \in StaticTypes : populateInitialSpotPricing[t].defaultPrice # 0
  <2>1. \A t \in PricedTypes : populateInitialSpotPricing[t].defaultPrice = staticPricing[t]
    BY <1>7, Zenon
  <2>2. \A t \in StaticTypes : populateInitialSpotPricing[t].defaultPrice = 1
    BY <1>2, <2>1, Zenon
  <2> QED
    BY <2>2
<1>10. populateInitialSpotPricing \in [PricedTypes -> SpotEntry]
  BY Zenon, <1>4, <1>6
<1> QED
  BY <1>8, <1>9, <1>10, Zenon

\* The part of the invariant that is not type correctness, and implies the rest.
LEMMA SteadyFollows == PricingTypeOK /\ PollHoldsSteady => SteadyIsPriced
<1> SUFFICES ASSUME PricingTypeOK, PollHoldsSteady, NEW o \in SteadyOffers, o[1] \in StaticTypes
             PROVE  SpotPrice(o[1], o[2]) # 0
  BY Zenon DEF SteadyIsPriced
<1>1. spotPrices[o[1]].known /\ spotPrices[o[1]].defaultPrice # 0
      /\ (spotPricingUpdated => spotPrices[o[1]].prices[o[2]] # 0)
  BY Zenon DEF PollHoldsSteady
<1> QED
  BY Zenon, <1>1 DEF SpotPrice

LEMMA PricingInitInv == PricingInit => PricingInv
<1> SUFFICES ASSUME PricingInit PROVE PricingTypeOK /\ PollHoldsSteady
  BY Zenon, SteadyFollows DEF PricingInv
<1>1. published \in [onDemand : [PricedTypes -> Price], spot : [SpotOffers -> Price]]
      /\ \A o \in SteadyOffers : published.spot[o] # 0
  BY PriceFacts DEF PricingInit
<1>2. PricingTypeOK
  <2>1. spotPrices \in [PricedTypes -> SpotEntry] /\ pricingEvents \in 0..MaxPricingEvents
    BY InitialSpotPricing, PricingAssumption DEF PricingInit
  <2>2. /\ onDemandPrices \in [PricedTypes -> Price] /\ isolated \in BOOLEAN /\ spotPricingUpdated \in BOOLEAN
        /\ resolver \in {"idle", "onDemand", "spot"}
    BY ZenonT(30), PriceFacts DEF PricingInit
  <2> QED
    BY Zenon, <1>1, <2>1, <2>2, PriceFacts DEF PricingInit, PricingTypeOK, SpotEntry
<1>3. spotPoll.pc = "idle"
  BY Zenon DEF PricingInit, IdleSpotPoll
<1> QED
  BY Zenon, <1>1, <1>2, <1>3, InitialSpotPricing DEF PricingInit, PollHoldsSteady

\* What StoreSpot makes of the entries: the new prices, over the old ones.
LEMMA StoreSpotResult ==
  ASSUME PricingTypeOK, NEW ps \in [SpotOffers -> Price], StoreSpot(ps)
  PROVE  /\ spotPrices' \in [PricedTypes -> SpotEntry]
         /\ \A t \in PricedTypes :
               /\ spotPrices'[t].defaultPrice = spotPrices[t].defaultPrice
               /\ spotPrices[t].known => spotPrices'[t].known
               /\ \A z \in PriceZones :
                     /\ spotPrices'[t].prices[z] =
                           IF ps[<<t, z>>] # 0 THEN ps[<<t, z>>] ELSE spotPrices[t].prices[z]
                     /\ ps[<<t, z>>] # 0 => spotPrices'[t].known
<1>1. spotPrices \in [PricedTypes -> SpotEntry]
  BY Zenon DEF PricingTypeOK, SpotEntry
<1> DEFINE new(t) == IF \A z \in PriceZones : ps[<<t, z>>] = 0 THEN spotPrices[t]
                     ELSE [spotPrices[t] EXCEPT !.known = TRUE,
                             !.prices = combineZonalPricing(spotPrices[t].prices, Of(ps, t))]
<1>2. spotPrices' = [t \in PricedTypes |-> new(t)]
  BY ZenonT(30) DEF StoreSpot
<1>3. ASSUME NEW t \in PricedTypes
      PROVE  /\ new(t) \in SpotEntry
             /\ new(t).defaultPrice = spotPrices[t].defaultPrice
             /\ spotPrices[t].known => new(t).known
             /\ \A z \in PriceZones :
                   /\ new(t).prices[z] = IF ps[<<t, z>>] # 0 THEN ps[<<t, z>>] ELSE spotPrices[t].prices[z]
                   /\ ps[<<t, z>>] # 0 => new(t).known
  <2>1. spotPrices[t] \in SpotEntry /\ \A z \in PriceZones : <<t, z>> \in SpotOffers /\ ps[<<t, z>>] \in Price
    BY Zenon, <1>1 DEF SpotOffers
  <2>2. CASE \A z \in PriceZones : ps[<<t, z>>] = 0
    BY Zenon, <2>1, <2>2
  <2>3. CASE ~\A z \in PriceZones : ps[<<t, z>>] = 0
    <3> DEFINE c == combineZonalPricing(spotPrices[t].prices, Of(ps, t))
    <3>1. c \in [PriceZones -> Price]
          /\ \A z \in PriceZones : c[z] = IF ps[<<t, z>>] # 0 THEN ps[<<t, z>>] ELSE spotPrices[t].prices[z]
      BY Zenon, <2>1 DEF combineZonalPricing, Of, SpotEntry
    <3> HIDE DEF c
    <3>2. new(t) = [spotPrices[t] EXCEPT !.known = TRUE, !.prices = c]
      BY Zenon, <2>3 DEF c
    <3> HIDE DEF new
    <3> QED
      BY ZenonT(30), <2>1, <3>1, <3>2 DEF SpotEntry
  <2> QED
    BY Zenon, <2>2, <2>3
<1> HIDE DEF new
<1> QED
  BY Zenon, <1>2, <1>3

-----------------------------------------------------------------------------
(* Preservation of the invariant, by action *)

\* Steps that leave the poll of spot prices and what it stored alone.
LEMMA OutsideSpot ==
  ASSUME PricingInv, UNCHANGED <<spotPrices, spotPricingUpdated, spotPoll>>,
         published' \in [onDemand : [PricedTypes -> Price], spot : [SpotOffers -> Price]],
         \A o \in SteadyOffers : published'.spot[o] # 0
  PROVE  PollHoldsSteady'
BY Zenon DEF PricingInv, PollHoldsSteady

LEMMA EventStep ==
  ASSUME PricingTypeOK, PricingEvent
  PROVE  pricingEvents' \in 0..MaxPricingEvents
BY PricingAssumption DEF PricingTypeOK, PricingEvent

LEMMA ChangeStep ==
  ASSUME PricingInv,
         \/ \E o \in SpotOffers, p \in Price : ChangeSpot(o, p)
         \/ \E t \in PricedTypes, p \in Price : ChangeOnDemand(t, p)
  PROVE  PricingTypeOK' /\ PollHoldsSteady'
<1>1. /\ UNCHANGED <<isolated, prices, spotPoll, onDemandPoll, resolver>> /\ PricingEvent
      /\ published' \in [onDemand : [PricedTypes -> Price], spot : [SpotOffers -> Price]]
      /\ \A o \in SteadyOffers : published'.spot[o] # 0
  <2>1. /\ published \in [onDemand : [PricedTypes -> Price], spot : [SpotOffers -> Price]]
        /\ \A o \in SteadyOffers : published.spot[o] # 0 /\ o \in SpotOffers
    BY Zenon, PriceFacts DEF PricingInv, PricingTypeOK, PollHoldsSteady
  <2>2. CASE \E o \in SpotOffers, p \in Price : ChangeSpot(o, p)
    <3>1. PICK o \in SpotOffers, p \in Price : ChangeSpot(o, p)
      BY Zenon, <2>2
    <3>2. published' = [published EXCEPT !.spot = [published.spot EXCEPT ![o] = p]]
          /\ (o \in SteadyOffers => p # 0)
      BY Zenon, <3>1 DEF ChangeSpot
    <3> QED
      BY <2>1, <3>1, <3>2 DEF ChangeSpot
  <2>3. CASE \E t \in PricedTypes, p \in Price : ChangeOnDemand(t, p)
    BY <2>1, <2>3 DEF ChangeOnDemand
  <2> QED
    BY Zenon, <2>2, <2>3
<1>2. PollHoldsSteady'
  BY Zenon, <1>1, OutsideSpot DEF prices
<1>3. PricingTypeOK'
  BY Zenon, <1>1, EventStep DEF prices, PricingInv, PricingTypeOK
<1> QED
  BY Zenon, <1>2, <1>3

LEMMA PricingRestartStep ==
  ASSUME PricingInv, RestartPricing
  PROVE  PricingTypeOK' /\ PollHoldsSteady'
<1>1. PricingTypeOK'
  <2>1. spotPrices' \in [PricedTypes -> SpotEntry] /\ pricingEvents' \in 0..MaxPricingEvents
    BY Zenon, InitialSpotPricing, EventStep DEF RestartPricing, PricingInv
  <2>2. /\ onDemandPrices' \in [PricedTypes -> Price] /\ spotPricingUpdated' \in BOOLEAN
        /\ resolver' \in {"idle", "onDemand", "spot"} /\ UNCHANGED <<isolated, published>>
        /\ spotPoll' = IdleSpotPoll /\ onDemandPoll' = IdleOnDemandPoll
    BY ZenonT(30), PriceFacts DEF RestartPricing
  <2> QED
    BY Zenon, <2>1, <2>2, PriceFacts DEF PricingInv, PricingTypeOK, SpotEntry
<1>2. spotPoll'.pc = "idle" /\ UNCHANGED published /\ spotPricingUpdated' = FALSE
      /\ spotPrices' = populateInitialSpotPricing
  BY Zenon DEF RestartPricing, IdleSpotPoll
<1> QED
  BY Zenon, <1>1, <1>2, InitialSpotPricing DEF PollHoldsSteady, PricingInv

LEMMA PricingStartStep ==
  ASSUME PricingInv, StartPolls
  PROVE  PricingTypeOK' /\ PollHoldsSteady'
<1>1. /\ spotPoll' = [pc |-> "pages", left |-> PriceZones, prices |-> NoPrices]
      /\ UNCHANGED <<isolated, published, onDemandPrices, spotPrices, spotPricingUpdated, resolver, pricingEvents>>
  BY ZenonT(30) DEF StartPolls, IdleSpotPoll, prices
<1>2. onDemandPoll' \in [pc : {"idle", "fetch"}, left : SUBSET {"standard", "metal"},
                         prices : [PricedTypes -> Price], failed : BOOLEAN]
  <2>1. \/ onDemandPoll' = IdleOnDemandPoll
        \/ onDemandPoll' = [pc |-> "fetch", left |-> {"standard", "metal"}, prices |-> NoOnDemand, failed |-> FALSE]
    BY ZenonT(30) DEF StartPolls, IdleOnDemandPoll
  <2>2. NoOnDemand \in [PricedTypes -> Price]
    BY Zenon, PriceFacts
  <2>3. CASE onDemandPoll' = IdleOnDemandPoll
    BY <2>3, PriceFacts, Zenon
  <2>4. CASE onDemandPoll' = [pc |-> "fetch", left |-> {"standard", "metal"}, prices |-> NoOnDemand, failed |-> FALSE]
    BY Zenon, <2>2, <2>4
  <2> QED
    BY Zenon, <2>1, <2>3, <2>4
<1>3. PricingTypeOK'
  BY Zenon, <1>1, <1>2, PriceFacts DEF PricingInv, PricingTypeOK
<1>4. \A o \in SteadyOffers : o[2] \in spotPoll'.left
  BY Zenon, <1>1, PriceFacts
<1> QED
  BY Zenon, <1>1, <1>3, <1>4 DEF PricingInv, PollHoldsSteady

LEMMA SpotPageStep ==
  ASSUME PricingInv, SpotPage
  PROVE  PricingTypeOK' /\ PollHoldsSteady'
<1>1. PICK z \in spotPoll.left :
        spotPoll' = [spotPoll EXCEPT !.left = spotPoll.left \ {z},
           !.prices = [o \in SpotOffers |-> IF spotPage(z)[o] # 0 THEN spotPage(z)[o] ELSE spotPoll.prices[o]]]
  BY ZenonT(30) DEF SpotPage
<1> DEFINE got == [o \in SpotOffers |-> IF spotPage(z)[o] # 0 THEN spotPage(z)[o] ELSE spotPoll.prices[o]]
<1>2. /\ published.spot \in [SpotOffers -> Price] /\ spotPoll.prices \in [SpotOffers -> Price]
      /\ spotPoll \in [pc : {"idle", "pages"}, left : SUBSET PriceZones, prices : [SpotOffers -> Price]]
      /\ spotPoll.pc = "pages"
      /\ \A o \in SteadyOffers : /\ published.spot[o] # 0
                                 /\ o[2] \notin spotPoll.left => spotPoll.prices[o] # 0
  BY Zenon DEF PricingInv, PricingTypeOK, PollHoldsSteady, SpotPage
<1>3. /\ got \in [SpotOffers -> Price]
      /\ \A o \in SpotOffers : got[o] = IF o[2] = z /\ published.spot[o] # 0 THEN published.spot[o]
                                        ELSE spotPoll.prices[o]
  BY Zenon, <1>2 DEF spotPage
<1>4. spotPoll' = [spotPoll EXCEPT !.left = spotPoll.left \ {z}, !.prices = got]
  BY Zenon, <1>1
<1> HIDE DEF got
<1>5. /\ spotPoll' \in [pc : {"idle", "pages"}, left : SUBSET PriceZones, prices : [SpotOffers -> Price]]
      /\ spotPoll'.left = spotPoll.left \ {z} /\ spotPoll'.prices = got
  BY ZenonT(30), <1>2, <1>3, <1>4
<1>6. \A o \in SteadyOffers : o[2] \notin spotPoll'.left => spotPoll'.prices[o] # 0
  BY Zenon, <1>2, <1>3, <1>5, PriceFacts
<1>7. UNCHANGED <<isolated, published, prices, onDemandPoll, resolver, pricingEvents>>
  BY Zenon DEF SpotPage
<1> QED
  BY Zenon, <1>5, <1>6, <1>7 DEF prices, PricingInv, PricingTypeOK, PollHoldsSteady

LEMMA SpotEndStep ==
  ASSUME PricingInv, SpotFails \/ UpdateSpotPricing
  PROVE  PricingTypeOK' /\ PollHoldsSteady'
<1>1. /\ spotPoll' = IdleSpotPoll /\ spotPoll'.pc = "idle"
      /\ UNCHANGED <<isolated, published, onDemandPoll, resolver>>
      /\ pricingEvents' \in 0..MaxPricingEvents
  BY EventStep DEF SpotFails, UpdateSpotPricing, IdleSpotPoll, PricingInv, PricingTypeOK
<1>2. CASE UNCHANGED prices
  BY Zenon, <1>1, <1>2, PriceFacts DEF prices, PricingInv, PricingTypeOK, PollHoldsSteady
<1>3. CASE UpdateSpotPricing /\ StoreSpot(spotPoll.prices)
  <2>1. spotPoll.prices \in [SpotOffers -> Price] /\ PricingTypeOK
        /\ \A o \in SteadyOffers : spotPoll.prices[o] # 0
    BY Zenon, <1>3 DEF UpdateSpotPricing, PricingInv, PricingTypeOK, PollHoldsSteady
  <2>2. /\ spotPrices' \in [PricedTypes -> SpotEntry] /\ spotPricingUpdated' = TRUE
        /\ UNCHANGED onDemandPrices
    BY ZenonT(30), <1>3, <2>1, StoreSpotResult DEF StoreSpot
  <2>3. \A o \in SteadyOffers : spotPrices'[o[1]].known /\ spotPrices'[o[1]].prices[o[2]] # 0
    <3> SUFFICES ASSUME NEW o \in SteadyOffers
                 PROVE  spotPrices'[o[1]].known /\ spotPrices'[o[1]].prices[o[2]] # 0
      BY Zenon
    <3>1. o[1] \in PricedTypes /\ o[2] \in PriceZones /\ spotPoll.prices[<<o[1], o[2]>>] # 0
      BY Zenon, <2>1, PriceFacts
    <3>2. spotPrices'[o[1]].known
      BY <1>3, <2>1, <3>1, StoreSpotResult
    <3>3. spotPrices'[o[1]].prices[o[2]] = spotPoll.prices[<<o[1], o[2]>>]
      BY Zenon, <1>3, <2>1, <3>1, StoreSpotResult
    <3> QED
      BY Zenon, <3>1, <3>2, <3>3
  <2>4. \A t \in StaticTypes : spotPrices'[t].known /\ spotPrices'[t].defaultPrice # 0
    <3> SUFFICES ASSUME NEW t \in StaticTypes
                 PROVE  spotPrices'[t].known /\ spotPrices'[t].defaultPrice # 0
      BY Zenon
    <3>1. t \in PricedTypes /\ spotPrices[t].known /\ spotPrices[t].defaultPrice # 0
      BY Zenon, PricingAssumption DEF PricingInv, PollHoldsSteady
    <3>2. spotPrices'[t].known
      BY Zenon, <1>3, <2>1, <3>1, StoreSpotResult
    <3>3. spotPrices'[t].defaultPrice = spotPrices[t].defaultPrice
      BY Zenon, <1>3, <2>1, <3>1, StoreSpotResult
    <3> QED
      BY Zenon, <3>1, <3>2, <3>3
  <2>5. PollHoldsSteady'
    BY Zenon, <1>1, <2>2, <2>3, <2>4 DEF PricingInv, PollHoldsSteady
  <2>6. PricingTypeOK'
    BY Zenon, <1>1, <2>2, PriceFacts DEF PricingInv, PricingTypeOK, SpotEntry
  <2> QED
    BY Zenon, <2>5, <2>6
<1> QED
  BY Zenon, <1>2, <1>3 DEF SpotFails, UpdateSpotPricing

LEMMA OnDemandStep ==
  ASSUME PricingInv, OnDemandPoller
  PROVE  PricingTypeOK' /\ PollHoldsSteady'
<1> DEFINE Polls == [pc : {"idle", "fetch"}, left : SUBSET {"standard", "metal"},
                     prices : [PricedTypes -> Price], failed : BOOLEAN]
<1>1. /\ onDemandPoll \in Polls /\ onDemandPrices \in [PricedTypes -> Price]
      /\ published.onDemand \in [PricedTypes -> Price]
      /\ pricingEvents \in 0..MaxPricingEvents
  BY Zenon DEF PricingInv, PricingTypeOK
<1>2. /\ UNCHANGED <<isolated, published, spotPrices, spotPricingUpdated, spotPoll, resolver>>
      /\ onDemandPoll' \in Polls /\ onDemandPrices' \in [PricedTypes -> Price]
      /\ pricingEvents' \in 0..MaxPricingEvents
  <2>1. ASSUME NEW f \in {"standard", "metal"}, fetchOnDemandPricing(f)
        PROVE  /\ UNCHANGED <<isolated, published, prices, spotPoll, resolver>>
               /\ onDemandPoll' \in Polls /\ pricingEvents' \in 0..MaxPricingEvents
    <3> DEFINE new == [t \in PricedTypes |-> IF t \in Family(f) THEN published.onDemand[t] ELSE onDemandPoll.prices[t]]
    <3>1. new \in [PricedTypes -> Price]
      BY Zenon, <1>1
    <3>2. \/ /\ onDemandPoll' = [onDemandPoll EXCEPT !.left = onDemandPoll.left \ {f}, !.prices = new]
             /\ UNCHANGED pricingEvents
          \/ /\ PricingEvent
             /\ onDemandPoll' = [onDemandPoll EXCEPT !.left = onDemandPoll.left \ {f}, !.failed = TRUE]
      BY Zenon, <2>1 DEF fetchOnDemandPricing
    <3> HIDE DEF new
    <3>3. onDemandPoll' \in Polls
      BY ZenonT(30), <1>1, <3>1, <3>2
    <3>4. pricingEvents' \in 0..MaxPricingEvents
      BY Zenon, <1>1, <3>2, EventStep DEF PricingInv
    <3> QED
      BY Zenon, <2>1, <3>3, <3>4 DEF fetchOnDemandPricing
  <2>2. ASSUME UpdateOnDemandPricing
        PROVE  /\ UNCHANGED <<isolated, published, spotPrices, spotPricingUpdated, spotPoll, resolver>>
               /\ onDemandPoll' \in Polls /\ onDemandPrices' \in [PricedTypes -> Price]
               /\ UNCHANGED pricingEvents
    <3>1. onDemandPrices' \in [PricedTypes -> Price]
      BY Zenon, <1>1, <2>2 DEF UpdateOnDemandPricing
    <3>2. onDemandPoll' \in Polls
      BY <2>2, PriceFacts, Zenon DEF UpdateOnDemandPricing
    <3> QED
      BY Zenon, <2>2, <3>1, <3>2 DEF UpdateOnDemandPricing
  <2> QED
    BY Zenon, <1>1, <2>1, <2>2 DEF OnDemandPoller, prices
<1>3. PricingTypeOK'
  BY Zenon, <1>2 DEF PricingInv, PricingTypeOK
<1> QED
  BY Zenon, <1>2, <1>3 DEF PricingInv, PollHoldsSteady

LEMMA PricingNextInv == PricingInv /\ [PricingNext]_pricingVars => PricingInv'
<1> SUFFICES ASSUME PricingInv, [PricingNext]_pricingVars PROVE PricingTypeOK' /\ PollHoldsSteady'
  <2>1. PricingTypeOK' /\ PollHoldsSteady' => SteadyIsPriced'
    BY SteadyFollows, PTL
  <2> QED
    BY Zenon, <2>1 DEF PricingInv
<1>1. CASE Resolve \/ ReadOnDemand \/ ReadSpot \/ UNCHANGED pricingVars
  <2>1. /\ UNCHANGED <<isolated, published, prices, spotPoll, onDemandPoll, pricingEvents>>
        /\ resolver' \in {"idle", "onDemand", "spot"}
    BY Zenon, <1>1 DEF Resolve, ReadOnDemand, ReadSpot, pricingVars, PricingInv, PricingTypeOK
  <2> QED
    BY Zenon, <2>1 DEF prices, PricingInv, PricingTypeOK, PollHoldsSteady
<1> QED
  BY Zenon, <1>1, ChangeStep, PricingRestartStep, PricingStartStep, SpotPageStep, SpotEndStep, OnDemandStep
     DEF PricingNext, SpotPoller

\* The safety of the pricing provider (providers/pricing): through failing pages,
\* restarts and changes at AWS, a type of the compiled table has a spot price wherever
\* EC2 always lists one.
THEOREM PricingSafety == PricingSpec => []PricingInv
BY PricingInitInv, PricingNextInv, PTL DEF PricingSpec

\* UpdateSpotPricing and UpdateOnDemandPricing only ever replace a price by a price:
\* no poll, complete, partial or failed, takes one away that an earlier poll brought.
THEOREM PricesNeverLost == PricingSpec => PricesAreMaintained
<1> DEFINE Kept == \A t \in PricedTypes :
                     /\ onDemandPrices[t] # 0 => onDemandPrices'[t] # 0
                     /\ \A z \in PriceZones : spotPrices[t].prices[z] # 0 => spotPrices'[t].prices[z] # 0
<1>1. PricingInv /\ [PricingNext]_pricingVars => [RestartPricing \/ Kept]_pricingVars
  <2> SUFFICES ASSUME PricingInv, [PricingNext]_pricingVars, ~RestartPricing PROVE Kept
    BY Zenon
  <2>1. CASE UNCHANGED <<onDemandPrices, spotPrices>>
    BY Zenon, <2>1
  <2>2. CASE UpdateSpotPricing /\ StoreSpot(spotPoll.prices)
    <3>1. spotPoll.prices \in [SpotOffers -> Price] /\ PricingTypeOK /\ UNCHANGED onDemandPrices
      BY ZenonT(30), <2>2 DEF PricingInv, PricingTypeOK, StoreSpot
    <3>2. \A t \in PricedTypes : \A z \in PriceZones :
            spotPrices'[t].prices[z] =
               IF spotPoll.prices[<<t, z>>] # 0 THEN spotPoll.prices[<<t, z>>] ELSE spotPrices[t].prices[z]
      BY ZenonT(30), <2>2, <3>1, StoreSpotResult
    <3> QED
      BY ZenonT(30), <3>1, <3>2
  <2>3. CASE UpdateOnDemandPricing
    BY Zenon, <2>3 DEF UpdateOnDemandPricing
  <2> QED
    BY ZenonT(30), <2>1, <2>2, <2>3
       DEF PricingNext, SpotPoller, OnDemandPoller, ChangeSpot, ChangeOnDemand, StartPolls, SpotPage, SpotFails,
           UpdateSpotPricing, fetchOnDemandPricing, Resolve, ReadOnDemand, ReadSpot, pricingVars, prices
<1> QED
  BY <1>1, PricingSafety, PTL DEF PricingSpec, PricesAreMaintained

-----------------------------------------------------------------------------
(* Placement groups *)

\* As long as nothing has been forgotten the long-lived cache remembers a group that
\* made the NodeClass ready, and with it every launch and every node that followed:
\* what a call returned for them is the group, unless it has been deleted.
GroupRemembered ==
    /\ group = "absent" => ~pgAvailabilityCache /\ ~call["launch"].pg
    /\ drifted \/ call["drift"].pc # "idle" => node.pc \in {"labelled", "registered"}
    /\ node.pc = "none" => ~node.inGroup
    /\ forgets = 0 =>
          /\ \/ ready = "True"
             \/ node.pc # "none"
             \/ call["launch"].pc # "idle"
             \/ call["reconcile"].pc = "got" /\ call["reconcile"].pg
             => pgAvailabilityCache
          /\ group = "present" =>
                \A c \in {"launch", "drift"} : call[c].pc = "got" => call[c].pg

\* The partition of an instance in the group and the label of its NodeClaim follow
\* from the same requirement.
PartitionFollows ==
    /\ node.inGroup /\ node.allowed # {} => node.partition = Lowest(node.allowed)
    /\ node.label => node.partitionLabel \in PartitionLabels(node.allowed) \cup {node.partition}
    /\ node.pc \in {"none", "launched"} => ~node.label
    /\ node.pc = "registered" /\ node.label => node.partitionLabel # Sentinel

PlacedWell == PlacementTypeOK /\ LaunchedInGroup /\ NoFalseDrift
PlacementIInv == PlacedWell /\ GroupRemembered /\ PartitionFollows

Calls == [pc: {"idle", "slow", "got"}, pg: BOOLEAN, err: BOOLEAN]

Nodes ==
    [pc: {"none", "launched", "labelled", "registered"}, allowed: Requirements,
     inGroup: BOOLEAN, partition: Partitions \cup {NoLabel}, shown: BOOLEAN,
     label: BOOLEAN, partitionLabel: Partitions \cup {Sentinel, NoLabel}]

\* A caller's call ends, or moves on.
LEMMA CallUpdates ==
  ASSUME call \in [Callers -> Calls], NEW c \in Callers
  PROVE  /\ NotCalled \in Calls /\ NotCalled.pc = "idle" /\ ~NotCalled.pg
         /\ [NotCalled EXCEPT !.pc = "slow"] \in Calls
         /\ [NotCalled EXCEPT !.pc = "slow"].pc = "slow" /\ ~[NotCalled EXCEPT !.pc = "slow"].pg
         /\ \A pg, err \in BOOLEAN : Got(pg, err) \in Calls /\ Got(pg, err).pc = "got" /\ Got(pg, err).pg = pg
         /\ \A r \in Calls : /\ [call EXCEPT ![c] = r] \in [Callers -> Calls]
                             /\ [call EXCEPT ![c] = r][c] = r
                             /\ \A d \in Callers \ {c} : [call EXCEPT ![c] = r][d] = call[d]
  BY ZenonT(30) DEF NotCalled, Got, Calls

\* Nobody waits for a group at first.
LEMMA PlacementInitInv == PlacementInit => PlacementIInv
<1> SUFFICES ASSUME PlacementInit PROVE PlacementIInv
  BY Zenon
<1>1. PICK allowed \in Requirements : node = NoNode(allowed)
  BY Zenon DEF PlacementInit
<1>2. forgets \in 0..MaxForgets
  BY BoundAssumption DEF PlacementInit
<1>3. node \in Nodes
  BY Zenon, <1>1 DEF NoNode, Nodes
<1>4. call \in [Callers -> Calls]
  BY Zenon DEF PlacementInit, NotCalled, Calls
<1>5. PlacementTypeOK
  BY ZenonT(30), <1>2, <1>3, <1>4 DEF PlacementInit, PlacementTypeOK, Nodes, Calls
<1> QED BY Zenon, <1>1, <1>5 DEF PlacementInit, PlacementIInv, PlacedWell, LaunchedInGroup, NoFalseDrift,
          GroupRemembered, PartitionFollows, NoNode, NotCalled, Callers

\* Steps that leave the group, the condition and the node alone.
LEMMA TypeFrame ==
  ASSUME PlacementTypeOK, group' = group, ready' = ready, node' = node, drifted' = drifted, pgCache' \in BOOLEAN,
         pgAvailabilityCache' \in BOOLEAN, call' \in [Callers -> Calls], forgets' \in 0..MaxForgets
  PROVE  PlacementTypeOK'
  BY DEF PlacementTypeOK, Calls

\* EC2, time and restarts.  A group does not come back once it is deleted, and what
\* a restart loses is counted.
LEMMA PlacementEnvironmentStep ==
  ASSUME PlacementIInv,
         CreateGroup \/ DeleteGroup \/ CacheExpire \/ AvailabilityExpire \/ RestartPlacement
  PROVE  PlacementIInv'
<1> USE DEF PlacementIInv, PlacedWell
<1>0. /\ call \in [Callers -> Calls] /\ PlacementTypeOK /\ forgets \in 0..MaxForgets
      /\ pgCache \in BOOLEAN /\ pgAvailabilityCache \in BOOLEAN
  BY Zenon DEF PlacementTypeOK, Calls
<1>1. CASE CreateGroup
  BY <1>1 DEF CreateGroup, PlacementTypeOK, LaunchedInGroup, NoFalseDrift, GroupRemembered,
              PartitionFollows, Callers
<1>2. CASE DeleteGroup
  BY <1>2 DEF DeleteGroup, PlacementTypeOK, LaunchedInGroup, NoFalseDrift, GroupRemembered,
              PartitionFollows, Callers
<1>3. CASE CacheExpire
  <2>1. PlacementTypeOK'
    BY ZenonT(30), <1>0, <1>3, TypeFrame DEF CacheExpire
  <2>2. GroupRemembered'
    BY Zenon, <1>3 DEF CacheExpire, GroupRemembered
  <2> QED BY Zenon, <1>3, <2>1, <2>2 DEF CacheExpire, LaunchedInGroup, NoFalseDrift, PartitionFollows
<1>4. CASE AvailabilityExpire
  <2>1. forgets' # 0 /\ forgets' \in 0..MaxForgets
    BY <1>4, BoundAssumption DEF AvailabilityExpire, PlacementTypeOK
  <2>2. PlacementTypeOK'
    BY ZenonT(30), <1>0, <1>4, <2>1, TypeFrame DEF AvailabilityExpire
  <2> QED BY Zenon, <1>4, <2>1, <2>2 DEF AvailabilityExpire, LaunchedInGroup, NoFalseDrift, GroupRemembered,
              PartitionFollows, Callers
<1>5. CASE RestartPlacement
  <2>1. forgets' # 0 /\ forgets' \in 0..MaxForgets
    BY <1>5, BoundAssumption DEF RestartPlacement, PlacementTypeOK
  <2>2. PlacementTypeOK'
    <3>1. call' \in [Callers -> Calls]
      BY Zenon, <1>5 DEF RestartPlacement, Calls, NotCalled
    <3> QED BY ZenonT(30), <1>0, <1>5, <2>1, <3>1, TypeFrame DEF RestartPlacement
  <2>3. GroupRemembered'
    BY Zenon, <1>5, <2>1 DEF RestartPlacement, GroupRemembered, NotCalled, Callers
  <2> QED BY Zenon, <1>5, <2>1, <2>2, <2>3 DEF RestartPlacement, LaunchedInGroup, NoFalseDrift, PartitionFollows
<1> QED BY Zenon, <1>1, <1>2, <1>3, <1>4, <1>5

\* Get.  With the group remembered, every path returns it while it exists.
LEMMA GetStep ==
  ASSUME PlacementIInv, NEW c \in Callers, Get(c)
  PROVE  PlacementIInv'
<1> USE DEF PlacementIInv, PlacedWell
<1>1. call \in [Callers -> Calls] /\ pgAvailabilityCache \in BOOLEAN /\ (group = "present") \in BOOLEAN
  BY Zenon DEF PlacementTypeOK, Calls
<1>2. PICK r \in Calls :
        /\ call' = [call EXCEPT ![c] = r] /\ UNCHANGED <<group, ready, node, drifted, forgets>>
        /\ pgCache' \in BOOLEAN /\ pgAvailabilityCache' \in BOOLEAN
        /\ pgAvailabilityCache => pgAvailabilityCache'
        /\ pgAvailabilityCache' => pgAvailabilityCache \/ group = "present"
        /\ call[c].pc = "idle" => Wants(c)
        /\ r.pc # "idle"
        /\ r.pc = "slow" => ~r.pg
        /\ r.pc = "got" =>
             /\ r.pg => pgAvailabilityCache'
             /\ ~r.pg => ~pgAvailabilityCache \/ group # "present"
  <2>1. CASE GetFast(c)
    <3>1. CASE pgCache
      <4>1. Got(pgAvailabilityCache, FALSE) \in Calls /\ call' = [call EXCEPT ![c] = Got(pgAvailabilityCache, FALSE)]
        BY ZenonT(30), <1>1, <2>1, <3>1, CallUpdates DEF GetFast
      <4> QED BY ZenonT(30), <1>1, <2>1, <4>1, CallUpdates DEF GetFast, PlacementTypeOK
    <3>2. CASE ~pgCache
      <4>1. [NotCalled EXCEPT !.pc = "slow"] \in Calls /\ call' = [call EXCEPT ![c] = [NotCalled EXCEPT !.pc = "slow"]]
        BY Zenon, <1>1, <2>1, <3>2, CallUpdates DEF GetFast
      <4> QED BY ZenonT(30), <1>1, <2>1, <4>1, CallUpdates DEF GetFast, PlacementTypeOK
    <3> QED BY Zenon, <3>1, <3>2
  <2>2. CASE GetAgain(c)
    BY ZenonT(30), <1>1, <2>2, CallUpdates DEF GetAgain, PlacementTypeOK
  <2>3. CASE GetDescribe(c)
    <3>1. Got(group = "present", FALSE) \in Calls /\ call' = [call EXCEPT ![c] = Got(group = "present", FALSE)]
      BY ZenonT(30), <1>1, <2>3, CallUpdates DEF GetDescribe
    <3> QED BY ZenonT(30), <1>1, <2>3, <3>1, CallUpdates DEF GetDescribe, PlacementTypeOK
  <2>4. CASE GetError(c)
    BY ZenonT(30), <1>1, <2>4, CallUpdates DEF GetError, PlacementTypeOK
  <2> QED BY Zenon, <2>1, <2>2, <2>3, <2>4 DEF Get
<1>3. /\ call' \in [Callers -> Calls] /\ call'[c] = r
      /\ \A d \in Callers \ {c} : call'[d] = call[d]
  BY Zenon, <1>1, <1>2, CallUpdates
<1>4. PlacementTypeOK' /\ LaunchedInGroup' /\ NoFalseDrift' /\ PartitionFollows'
  BY <1>2, <1>3 DEF PlacementTypeOK, LaunchedInGroup, NoFalseDrift, PartitionFollows, Calls
<1>5. GroupRemembered'
  <2>1. CASE c = "reconcile"
    BY Zenon, <1>2, <1>3, <2>1 DEF GroupRemembered, Callers
  <2>2. CASE c = "launch"
    <3>1. forgets = 0 => pgAvailabilityCache
      BY Zenon, <1>2, <2>2 DEF GroupRemembered, Wants
    <3>2. /\ r.pg => group # "absent"
          /\ forgets = 0 /\ group = "present" /\ r.pc = "got" => r.pg
      BY Zenon, <1>1, <1>2, <3>1 DEF GroupRemembered, Calls
    <3>3. call'["drift"] = call["drift"] /\ call'["reconcile"] = call["reconcile"]
      BY Zenon, <1>3, <2>2 DEF Callers
    <3> QED BY Zenon, <1>2, <1>3, <2>2, <3>1, <3>2, <3>3 DEF GroupRemembered
  <2>3. CASE c = "drift"
    <3>1. node.pc \in {"labelled", "registered"}
      BY Zenon, <1>2, <2>3 DEF GroupRemembered, Wants
    <3> QED BY Zenon, <1>2, <1>3, <2>3, <3>1 DEF GroupRemembered, Callers
  <2> QED BY Zenon, <2>1, <2>2, <2>3 DEF Callers
<1> QED BY Zenon, <1>4, <1>5

\* The callers use what they got.
LEMMA CallerStep ==
  ASSUME PlacementIInv,
         Reconcile \/ EnsureAll \/ LaunchRefused \/ Label \/ IsPlacementGroupDrifted
  PROVE  PlacementIInv'
<1> USE DEF PlacementIInv, PlacedWell
<1>1. call \in [Callers -> Calls] /\ NotCalled \in Calls /\ NotCalled.pc = "idle" /\ ~NotCalled.pg
  BY Zenon DEF PlacementTypeOK, Calls, NotCalled
<1>2. CASE Reconcile
  <2>1. /\ call' \in [Callers -> Calls] /\ call'["reconcile"] = NotCalled
        /\ \A d \in Callers \ {"reconcile"} : call'[d] = call[d]
    BY Zenon, <1>1, <1>2 DEF Reconcile, Callers
  <2>2. /\ ready' \in {"Unknown", "True", "NotFound", "ResolutionFailed"}
        /\ ready' = "True" => call["reconcile"].pg
    BY Zenon, <1>1, <1>2 DEF Reconcile, Calls, Callers
  <2>3. PlacementTypeOK' /\ LaunchedInGroup' /\ NoFalseDrift' /\ PartitionFollows'
    BY <1>2, <2>1, <2>2 DEF Reconcile, PlacementTypeOK, LaunchedInGroup, NoFalseDrift, PartitionFollows, Calls
  <2>4. GroupRemembered'
    BY Zenon, <1>1, <1>2, <2>1, <2>2 DEF Reconcile, GroupRemembered, Callers
  <2> QED BY Zenon, <2>3, <2>4
<1>3. ASSUME EnsureAll \/ LaunchRefused \/ Label
      PROVE  /\ call' \in [Callers -> Calls] /\ call'["launch"] = NotCalled
             /\ \A d \in Callers \ {"launch"} : call'[d] = call[d]
  BY ZenonT(30), <1>1, <1>3 DEF EnsureAll, LaunchRefused, Label, Callers
<1>4. node \in Nodes
  BY Zenon DEF PlacementTypeOK, Nodes
<1>5. CASE EnsureAll
  <2>1. PICK p \in Partitions :
          /\ node.allowed # {} => p = Lowest(node.allowed)
          /\ node' = [node EXCEPT !.pc = "launched",
                                  !.inGroup = call["launch"].pg,
                                  !.partition = IF call["launch"].pg THEN p ELSE NoLabel]
    BY ZenonT(30), <1>5 DEF EnsureAll
  <2>2. call["launch"] \in Calls
    BY Zenon, <1>1 DEF Callers
  <2>3. /\ node' \in Nodes /\ node'.pc = "launched" /\ node'.inGroup = call["launch"].pg
        /\ node'.allowed = node.allowed /\ node'.label = node.label
        /\ node'.inGroup /\ node.allowed # {} => node'.partition = Lowest(node.allowed)
    BY ZenonT(30), <1>4, <2>1, <2>2 DEF Nodes, Calls
  <2>4. PlacementTypeOK'
    BY ZenonT(30), <1>3, <1>5, <2>3 DEF EnsureAll, PlacementTypeOK, Nodes, Calls
  <2>5. /\ call["launch"].pc = "got" /\ node.pc = "none" /\ ~node.label /\ ~drifted
        /\ UNCHANGED <<group, pgAvailabilityCache, ready, drifted, forgets>>
    BY ZenonT(30), <1>5 DEF EnsureAll, PartitionFollows, GroupRemembered
  <2>6. LaunchedInGroup' /\ NoFalseDrift'
    BY Zenon, <2>3, <2>5 DEF LaunchedInGroup, NoFalseDrift, GroupRemembered
  <2>7. GroupRemembered'
    BY Zenon, <1>1, <1>3, <1>5, <2>3, <2>5 DEF GroupRemembered, Callers
  <2>8. PartitionFollows'
    BY Zenon, <2>3, <2>5 DEF PartitionFollows
  <2> QED BY Zenon, <2>4, <2>6, <2>7, <2>8
<1>6. CASE LaunchRefused
  <2>1. PlacementTypeOK' /\ LaunchedInGroup' /\ NoFalseDrift' /\ PartitionFollows'
    BY <1>3, <1>6 DEF LaunchRefused, PlacementTypeOK, LaunchedInGroup, NoFalseDrift, PartitionFollows, Calls
  <2>2. GroupRemembered'
    BY Zenon, <1>1, <1>3, <1>6 DEF LaunchRefused, GroupRemembered, Callers
  <2> QED BY Zenon, <2>1, <2>2
<1>7. CASE Label
  <2>1. /\ node' \in Nodes /\ node'.pc = "labelled" /\ node'.inGroup = node.inGroup
        /\ node'.allowed = node.allowed /\ node'.partition = node.partition
        /\ node'.label => node'.partitionLabel \in PartitionLabels(node.allowed)
    <3>1. CASE call["launch"].pg
      <4>1. PICK v \in PartitionLabels(node.allowed) :
              node' = [node EXCEPT !.pc = "labelled", !.label = TRUE, !.partitionLabel = v]
        BY ZenonT(30), <1>7, <3>1 DEF Label
      <4>2. v \in Partitions \cup {Sentinel, NoLabel}
        BY Zenon, <1>4, PartitionsAssumption DEF Nodes, PartitionLabels
      <4> QED BY ZenonT(30), <1>4, <4>1, <4>2 DEF Nodes
    <3>2. CASE ~call["launch"].pg
      <4>1. node' = [node EXCEPT !.pc = "labelled"] /\ ~node.label
        BY Zenon, <1>7, <3>2 DEF Label, PartitionFollows
      <4> QED BY Zenon, <1>4, <4>1 DEF Nodes
    <3> QED BY Zenon, <3>1, <3>2
  <2>2. PlacementTypeOK'
    BY ZenonT(30), <1>3, <1>7, <2>1 DEF Label, PlacementTypeOK, Nodes, Calls
  <2>3. /\ node.pc = "launched" /\ ~drifted
        /\ UNCHANGED <<group, pgAvailabilityCache, ready, drifted, forgets>>
    BY ZenonT(30), <1>7 DEF Label, GroupRemembered
  <2>4. LaunchedInGroup' /\ NoFalseDrift'
    BY Zenon, <2>1, <2>3 DEF LaunchedInGroup, NoFalseDrift
  <2>5. GroupRemembered'
    BY Zenon, <1>1, <1>3, <1>7, <2>1, <2>3 DEF GroupRemembered, Callers
  <2>6. PartitionFollows'
    BY Zenon, <2>1 DEF PartitionFollows
  <2> QED BY Zenon, <2>2, <2>4, <2>5, <2>6
<1>8. CASE IsPlacementGroupDrifted
  <2>1. /\ call' \in [Callers -> Calls] /\ call'["drift"] = NotCalled
        /\ \A d \in Callers \ {"drift"} : call'[d] = call[d]
    BY Zenon, <1>1, <1>8 DEF IsPlacementGroupDrifted, Callers
  <2>2. PlacementTypeOK'
    BY <1>8, <2>1 DEF IsPlacementGroupDrifted, PlacementTypeOK, Calls
  <2>3. LaunchedInGroup' /\ PartitionFollows'
    BY Zenon, <1>8 DEF IsPlacementGroupDrifted, LaunchedInGroup, PartitionFollows
  <2>4. NoFalseDrift'
    <3>1. call["drift"].pc = "got" /\ drifted' = (node.label # call["drift"].pg)
      BY Zenon, <1>8 DEF IsPlacementGroupDrifted
    <3>2. group = "present" /\ forgets = 0 => call["drift"].pg
      BY Zenon, <3>1 DEF GroupRemembered
    <3>3. node.label \in BOOLEAN /\ call["drift"].pg \in BOOLEAN
      BY Zenon, <1>1, <1>4 DEF Nodes, Calls, Callers
    <3> QED BY ZenonT(30), <1>8, <3>1, <3>2, <3>3 DEF IsPlacementGroupDrifted, NoFalseDrift
  <2>5. GroupRemembered'
    BY Zenon, <1>1, <1>8, <2>1 DEF IsPlacementGroupDrifted, GroupRemembered, Callers
  <2> QED BY Zenon, <2>2, <2>3, <2>4, <2>5
<1> QED BY Zenon, <1>2, <1>5, <1>6, <1>7, <1>8

\* Registration: the sentinel gives way to the partition that EC2 shows.
LEMMA RegistrationStep ==
  ASSUME PlacementIInv, ShowPartition \/ Registered
  PROVE  PlacementIInv'
<1> USE DEF PlacementIInv, PlacedWell
<1>1. node \in Nodes
  BY Zenon DEF PlacementTypeOK, Nodes
<1>2. /\ node' \in Nodes /\ node'.pc \in {"labelled", "registered"} /\ node'.inGroup = node.inGroup
      /\ node'.allowed = node.allowed /\ node'.partition = node.partition /\ node'.label = node.label
      /\ node'.partitionLabel \in {node.partitionLabel, node.partition}
      /\ node'.pc = "registered" /\ node.label => node'.partitionLabel # Sentinel
  <2>1. CASE ShowPartition
    BY ZenonT(30), <1>1, <2>1 DEF ShowPartition, Nodes
  <2>2. CASE Registered
    <3>1. node.partition # Sentinel
      BY <1>1, PartitionsAssumption DEF Nodes, Sentinel, NoLabel
    <3>2. CASE node.label /\ node.partitionLabel = Sentinel
      BY ZenonT(30), <1>1, <2>2, <3>1, <3>2 DEF Registered, Nodes
    <3>3. CASE ~(node.label /\ node.partitionLabel = Sentinel)
      BY Zenon, <1>1, <2>2, <3>3 DEF Registered, Nodes
    <3> QED BY Zenon, <3>2, <3>3
  <2> QED BY Zenon, <2>1, <2>2
<1>3. node.pc = "labelled" /\ UNCHANGED <<group, pgCache, pgAvailabilityCache, call, ready, drifted, forgets>>
  BY Zenon DEF ShowPartition, Registered
<1>4. PlacementTypeOK'
  BY Zenon, <1>2, <1>3 DEF PlacementTypeOK, Nodes
<1>5. LaunchedInGroup' /\ NoFalseDrift'
  BY Zenon, <1>2, <1>3 DEF LaunchedInGroup, NoFalseDrift
<1>6. GroupRemembered'
  BY Zenon, <1>2, <1>3 DEF GroupRemembered
<1>7. PartitionFollows'
  BY Zenon, <1>2, <1>3 DEF PartitionFollows
<1> QED BY Zenon, <1>4, <1>5, <1>6, <1>7

LEMMA PlacementInvariant == PlacementSpec => []PlacementIInv
<1>1. PlacementIInv /\ [PlacementNext]_placementVars => PlacementIInv'
  <2> SUFFICES ASSUME PlacementIInv, [PlacementNext]_placementVars PROVE PlacementIInv'
    BY Zenon
  <2>1. CASE UNCHANGED placementVars
    BY <2>1 DEF placementVars, PlacementIInv, PlacedWell, PlacementTypeOK, LaunchedInGroup, NoFalseDrift,
                GroupRemembered, PartitionFollows
  <2>2. CASE PlacementNext
    BY Zenon, <2>2, PlacementEnvironmentStep, GetStep, CallerStep, RegistrationStep DEF PlacementNext
  <2> QED BY Zenon, <2>1, <2>2
<1> QED BY <1>1, PlacementInitInv, PTL DEF PlacementSpec

\* PlacementInv for any group and any number of restarts, if a NodeClaim requires
\* at most one partition: launches land in the group, the label of a registered node
\* is the partition of its instance, and a node in the group is never drifted.
\* instanceToNodeClaim takes the first value of the requirement and EnsureAll the
\* lowest, so with two partitions the label may be another (PartitionIsAccurate).
THEOREM PlacementSafety ==
  ASSUME \A allowed \in Requirements : \A p, q \in allowed : p = q
  PROVE  PlacementSpec => []PlacementInv
<1>1. PlacementIInv => PlacementInv
  <2> SUFFICES ASSUME PlacementIInv PROVE PartitionIsAccurate
    BY Zenon DEF PlacementInv, PlacementIInv, PlacedWell
  <2> SUFFICES ASSUME node.pc = "registered", node.inGroup, node.label
               PROVE  node.partitionLabel = node.partition
    BY Zenon DEF PartitionIsAccurate
  <2>1. node.allowed \in Requirements
    BY Zenon DEF PlacementIInv, PlacedWell, PlacementTypeOK
  <2>2. CASE node.partitionLabel \in node.allowed
    <3>1. Lowest(node.allowed) = node.partitionLabel
      <4>1. \A p \in node.allowed : p = node.partitionLabel
        BY Zenon, <2>1, <2>2
      <4>2. \A q \in node.allowed : node.partitionLabel <= q
        <5>1. node.partitionLabel \in Nat
          BY ZenonT(30), <2>1, <2>2, PartitionsAssumption
        <5> QED BY <4>1, <5>1
      <4> QED BY Zenon, <2>2, <4>1, <4>2 DEF Lowest
    <3> QED BY Zenon, <2>2, <3>1 DEF PlacementIInv, PartitionFollows
  <2>3. CASE node.partitionLabel \notin node.allowed
    BY Zenon, <2>3 DEF PlacementIInv, PartitionFollows, PartitionLabels
  <2> QED BY Zenon, <2>2, <2>3
<1> QED BY <1>1, PlacementInvariant, PTL

\* Whatever a NodeClaim requires: while the process remembers the group, launches
\* land in it and a node in it is not drifted, although EnsureAll and
\* isPlacementGroupDrifted ignore the errors of Get.
THEOREM ErrorsAreHarmless == PlacementSpec => [](LaunchedInGroup /\ NoFalseDrift)
<1>1. PlacementIInv => LaunchedInGroup /\ NoFalseDrift
  BY Zenon DEF PlacementIInv, PlacedWell
<1> QED BY <1>1, PlacementInvariant, PTL

=============================================================================
