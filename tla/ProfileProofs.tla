---------------------------- MODULE ProfileProofs ----------------------------
(***************************************************************************)
(* The instance profiles of a NodeClass, for any names, roles, NodeClaims   *)
(* and any number of faults: a profile in use keeps its role, a NodeClass   *)
(* that is ready names a usable profile, and finalize leaves none behind.   *)
(*                                                                         *)
(* A name is of interest while the NodeClass, the informer, the             *)
(* reconciliation in progress, the recreation cache, a launch or a claim    *)
(* has it.  Only creation adds to these names, and until finalize takes     *)
(* over each of them has its role in IAM and is kept from the collector:    *)
(* the informer shows it where the collector looks next, or it is           *)
(* protected.                                                               *)
(***************************************************************************)
EXTENDS InstanceProfile, TLAPS

Making == {"addrole", "created", "delete"}
Choosing == {"create", "addrole", "created", "delete", "patch"}
Reconciling == {"reconcile"} \cup Choosing
Finalizing == {"finalize", "list", "cleanup"}

ClassStates ==
  [phase : {"live", "deleting", "gone"}, finalizer : BOOLEAN, role : Roles \cup {NoRole},
   gen : Nat, status : Names \cup {None}, obs : Nat]
RecStates ==
  [pc : {"idle", "finalizer"} \cup Reconciling \cup Finalizing, stored : ClassStates,
   status : Names \cup {None}, obs : Nat, new : Profiles \cup {None}, todo : SUBSET (Profiles \cup {Legacy})]

\* The maps, whatever the threads are at.
MapsOK ==
  /\ iam \in [Names -> RoleNames \cup {Absent, Bare}] /\ iam[Unmanaged] = UserRole
  /\ roles \subseteq RoleNames
  /\ claims \in [Claims -> Names \cup {None, Pending}] /\ seenClaims \in [Claims -> Names \cup {None, Pending}]
  /\ launch \in [Claims -> Names \cup {None}]
  /\ instanceProfileCache \in [Names -> RoleNames \cup Roles \cup {Absent, Bare}]
  /\ roleNotFoundErrorCache \subseteq RoleNames
  /\ protectedProfileCache \subseteq Names
  /\ recreationCache \in [Roles -> Profiles \cup {None}]
  /\ events \in 0..MaxEvents

\* The threads, and the bounds of the generations.
ThreadsOK ==
  /\ nodeClass \in ClassStates /\ seenClass \in ClassStates /\ rec \in RecStates
  /\ \A n \in {nodeClass, seenClass, rec.stored} : 1 <= n.gen /\ n.gen <= events + 1 /\ n.obs <= n.gen
  /\ rec.obs <= rec.stored.gen
  /\ gc \in [pc : {"idle", "current", "list", "check", "delete"}, name : Profiles \cup {None}]
  /\ del \in [Threads -> [pc : {"none", "get", "remove", "delete"}, name : Profiles \cup {Legacy, None}]]
  /\ rec.pc = "idle" => rec = Idle
  /\ gc.pc # "idle" => gc.name \in Profiles
  /\ \A t \in Threads : del[t].pc # "none" => del[t].name \in Profiles \cup {Legacy}
  /\ rec.pc \in Making => rec.new \in Profiles

\* Finalize has taken over: nothing is launched from the NodeClass again.
Over ==
  /\ nodeClass.phase # "live" /\ seenClass.phase # "live"
  /\ rec.pc = "idle" \/ rec.stored.phase # "live"
  /\ \A c \in Claims : launch[c] = None /\ claims[c] \notin Names

\* The objects of one NodeClass grow old together.
PhasesOK ==
  /\ seenClass.phase # "live" => nodeClass.phase # "live"
  /\ seenClass.phase = "gone" => nodeClass.phase = "gone"
  /\ rec.stored.phase # "live" => seenClass.phase # "live"
  /\ rec.pc \in Finalizing => rec.stored.phase = "deleting"
  /\ rec.pc \in {"finalizer"} \cup Reconciling => rec.stored.phase = "live"
  /\ rec.pc \in Reconciling => rec.stored.finalizer
  /\ nodeClass.phase = "live" /\ ~nodeClass.finalizer => nodeClass.status = None
  /\ nodeClass.phase = "gone" => nodeClass.status = None \/ Over
  /\ rec.pc \in {"list", "cleanup"} => Over

\* The first name comes from the NodeClass.
NoneYet ==
  nodeClass.status = None =>
      /\ seenClass.status = None /\ rec.stored.status = None
      /\ \A c \in Claims : launch[c] = None /\ claims[c] \notin Names

LaunchesOK ==
  \A c \in Claims : /\ launch[c] # None => claims[c] = Pending /\ seenClaims[c] = Pending
                    /\ claims[c] \in Names => seenClaims[c] # None

\* The name of a reconciliation for spec.role.
ChosenOK ==
  /\ rec.pc \in {"create"} \cup Making => rec.stored.role # NoRole
  /\ rec.pc \in Choosing /\ rec.stored.role # NoRole => rec.status = CurrentName
  /\ rec.pc = "patch" /\ rec.stored.role = NoRole => rec.status = Unmanaged
  /\ rec.pc \in {"finalizer"} \cup (Reconciling \ {"patch"}) => rec.obs = rec.stored.obs

\* What Delete is at.
DeletesOK ==
  /\ del["nodeclass"].pc # "none" => rec.pc \in {"delete", "cleanup"}
  /\ rec.pc = "delete" /\ del["nodeclass"].pc # "none" => del["nodeclass"].name = rec.new
  /\ rec.pc = "cleanup" /\ del["nodeclass"].pc # "none" => del["nodeclass"].name \in rec.todo
  /\ del["gc"].pc # "none" => gc.pc = "delete" /\ del["gc"].name = gc.name

\* What is left in IAM is still to be cleaned up.
CleanupOK == rec.pc = "cleanup" => \A p \in Profiles \cup {Legacy} : iam[p] # Absent => p \in rec.todo

-----------------------------------------------------------------------------

Named(p) ==
  \/ p \in {nodeClass.status, seenClass.status, rec.stored.status, Unmanaged}
  \/ \E r \in Roles : recreationCache[r] = p
  \/ \E c \in Claims : launch[c] = p \/ claims[c] = p

Sheltered(p) == p \in protectedProfileCache \cup doomed \cup {None, Unmanaged, Legacy}

NamedHasRole ==
  \A p \in Names \ doomed : Named(p) =>
      /\ iam[p] \in RoleNames
      /\ instanceProfileCache[p] \in Roles => iam[p] = BaseOf[instanceProfileCache[p]]

\* Where two readers of the NodeClass may differ both names are protected.
LagIsSheltered ==
  /\ nodeClass.status # seenClass.status => Sheltered(nodeClass.status) /\ Sheltered(seenClass.status)
  /\ rec.pc # "idle" =>
        /\ rec.stored.status # seenClass.status => Sheltered(rec.stored.status)
        /\ rec.stored.status # nodeClass.status => Sheltered(nodeClass.status)
  /\ rec.pc = "patch" /\ rec.stored.role = NoRole => Sheltered(rec.stored.status)

RecreatedOK ==
  \A r \in Roles : recreationCache[r] # None =>
      /\ Sheltered(recreationCache[r]) /\ Sheltered(nodeClass.status) /\ Sheltered(seenClass.status)
      /\ Sheltered(rec.stored.status)
      /\ recreationCache[r] \notin doomed => iam[recreationCache[r]] = BaseOf[r]

UseIsSheltered ==
  \A c \in Claims :
      /\ launch[c] # None => Sheltered(launch[c]) \/ launch[c] = seenClass.status
      /\ claims[c] \in Names =>
            Sheltered(claims[c]) \/ claims[c] = seenClass.status \/ claims[c] = seenClaims[c]

NotCollected ==
  Named(gc.name) =>
      /\ gc.pc = "current" => Sheltered(gc.name) \/ gc.name = seenClass.status
      /\ gc.pc \in {"list", "check"} => Sheltered(gc.name)
      /\ gc.pc = "delete" => gc.name \in doomed

MakingOK ==
  /\ rec.pc \in Making => ~Named(rec.new)
  /\ rec.pc \in {"addrole", "created"} /\ gc.pc = "delete" /\ gc.name = rec.new => rec.new \in doomed
  /\ rec.pc = "created" /\ rec.new \notin doomed => iam[rec.new] = BaseOf[rec.stored.role]

\* A patch that reports the profile as ready has a profile with the role.
PatchOK ==
  rec.pc = "patch" /\ rec.stored.role # NoRole =>
      \/ rec.obs = rec.stored.obs
      \/ rec.status \in Names /\ (rec.status \notin doomed => iam[rec.status] = BaseOf[rec.stored.role])

ReadyOK == ReadyMeansUsable /\ (nodeClass.obs # 0 => nodeClass.status \in Names)

Alive ==
  /\ NamedHasRole /\ LagIsSheltered /\ RecreatedOK /\ UseIsSheltered
  /\ NotCollected /\ MakingOK /\ PatchOK /\ ReadyOK

Control ==
  MapsOK /\ ThreadsOK /\ PhasesOK /\ NoneYet /\ LaunchesOK /\ ChosenOK /\ DeletesOK /\ CleanupOK

ProfileIInv == Control /\ (Over \/ Alive)

-----------------------------------------------------------------------------
(* Types *)

LEMMA Values ==
  /\ None \notin Names /\ Pending \notin Names /\ None # Pending /\ Absent # Bare
  /\ Absent \notin RoleNames /\ Bare \notin RoleNames /\ Absent \notin Roles /\ Bare \notin Roles /\ NoRole \notin Roles
  /\ \A r \in Roles : BaseOf[r] \in RoleNames
  /\ Unmanaged \in Names /\ Legacy \in Names /\ Profiles \subseteq Names
  /\ Unmanaged \notin Profiles /\ Legacy \notin Profiles /\ Unmanaged # Legacy
  BY Zenon, ValuesAssumption, BaseAssumption, NamesAssumption DEF None, Pending, Absent, Bare, Names

LEMMA IdleFacts ==
  /\ Idle \in RecStates /\ Idle.pc = "idle" /\ Idle.stored.status = None /\ Idle.stored.phase = "live"
  /\ Idle.stored.gen = 1 /\ Idle.stored.obs = 0 /\ Idle.obs = 0 /\ Idle.stored.finalizer = FALSE
  /\ Idle.stored.role = NoRole
  BY Zenon DEF Idle, RecStates, ClassStates, NodeClass, Reconciling, Choosing, Finalizing

LEMMA TypeSplit ==
  TypeOK <=>
    /\ iam \in [Names -> RoleNames \cup {Absent, Bare}]
    /\ roles \subseteq RoleNames
    /\ \A n \in {nodeClass, seenClass, rec.stored} :
         /\ n.phase \in {"live", "deleting", "gone"} /\ n.finalizer \in BOOLEAN
         /\ n.role \in Roles \cup {NoRole} /\ n.status \in Names \cup {None}
         /\ n.gen \in 1..(MaxEvents + 1) /\ n.obs \in 0..n.gen
    /\ claims \in [Claims -> Names \cup {None, Pending}] /\ seenClaims \in [Claims -> Names \cup {None, Pending}]
    /\ launch \in [Claims -> Names \cup {None}]
    /\ instanceProfileCache \in [Names -> RoleNames \cup Roles \cup {Absent, Bare}]
    /\ roleNotFoundErrorCache \subseteq RoleNames
    /\ protectedProfileCache \subseteq Names
    /\ recreationCache \in [Roles -> Profiles \cup {None}]
    /\ events \in 0..MaxEvents
  BY Zenon DEF TypeOK

LEMMA TypesFollow == MapsOK /\ ThreadsOK <=> TypeOK /\ ThreadsOK /\ iam[Unmanaged] = UserRole
<1>1. ASSUME MapsOK, ThreadsOK PROVE TypeOK
  <2>1. \A n \in {nodeClass, seenClass, rec.stored} :
         /\ n.phase \in {"live", "deleting", "gone"} /\ n.finalizer \in BOOLEAN
         /\ n.role \in Roles \cup {NoRole} /\ n.status \in Names \cup {None}
         /\ n.gen \in 1..(MaxEvents + 1) /\ n.obs \in 0..n.gen
    <3>1. \A n \in {nodeClass, seenClass, rec.stored} : n \in ClassStates
      BY Zenon, <1>1 DEF ThreadsOK, RecStates
    <3>2. events \in Nat /\ events <= MaxEvents
      BY <1>1, EventsAssumption DEF MapsOK
    <3> QED BY <1>1, <3>1, <3>2, EventsAssumption DEF ThreadsOK, ClassStates
  <2> QED BY Zenon, <1>1, <2>1, TypeSplit DEF MapsOK
<1>2. ASSUME TypeOK, iam[Unmanaged] = UserRole PROVE MapsOK
  BY Zenon, <1>2, TypeSplit DEF MapsOK
<1> QED BY Zenon, <1>1, <1>2 DEF MapsOK

\* Writes of the NodeClass.
WithRole(n, r, g) == [n EXCEPT !.role = r, !.gen = g]

LEMMA RoleWrite ==
  ASSUME NEW n \in ClassStates, NEW r \in Roles \cup {NoRole}, NEW g \in Nat
  PROVE  LET m == WithRole(n, r, g)
         IN  /\ m \in ClassStates /\ m.phase = n.phase /\ m.finalizer = n.finalizer /\ m.role = r
             /\ m.gen = g /\ m.status = n.status /\ m.obs = n.obs
<1> DEFINE m == WithRole(n, r, g)
<1>1. PICK k : k = [n EXCEPT !.role = r, !.gen = g]
  BY Zenon
<1>2. /\ k \in ClassStates /\ k.phase = n.phase /\ k.finalizer = n.finalizer /\ k.role = r
      /\ k.gen = g /\ k.status = n.status /\ k.obs = n.obs
  BY ZenonT(30), <1>1 DEF ClassStates
<1>3. m = k
  BY Zenon, <1>1 DEF WithRole
<1> QED BY Zenon, <1>2, <1>3

WithPhase(n, ph, f) == [n EXCEPT !.phase = ph, !.finalizer = f]

LEMMA PhaseWrite ==
  ASSUME NEW n \in ClassStates, NEW ph \in {"live", "deleting", "gone"}, NEW f \in BOOLEAN
  PROVE  LET m == WithPhase(n, ph, f)
         IN  /\ m \in ClassStates /\ m.phase = ph /\ m.finalizer = f /\ m.role = n.role
             /\ m.gen = n.gen /\ m.status = n.status /\ m.obs = n.obs
<1> DEFINE m == WithPhase(n, ph, f)
<1>1. PICK k : k = [n EXCEPT !.phase = ph, !.finalizer = f]
  BY Zenon
<1>2. /\ k \in ClassStates /\ k.phase = ph /\ k.finalizer = f /\ k.role = n.role
      /\ k.gen = n.gen /\ k.status = n.status /\ k.obs = n.obs
  BY ZenonT(30), <1>1 DEF ClassStates
<1>3. m = k
  BY Zenon, <1>1 DEF WithPhase
<1> QED BY Zenon, <1>2, <1>3

WithStatus(n, s, o) == [n EXCEPT !.status = s, !.obs = o]

LEMMA StatusWrite ==
  ASSUME NEW n \in ClassStates, NEW s \in Names \cup {None}, NEW o \in Nat
  PROVE  LET m == WithStatus(n, s, o)
         IN  /\ m \in ClassStates /\ m.phase = n.phase /\ m.finalizer = n.finalizer /\ m.role = n.role
             /\ m.gen = n.gen /\ m.status = s /\ m.obs = o
<1> DEFINE m == WithStatus(n, s, o)
<1>1. PICK k : k = [n EXCEPT !.status = s, !.obs = o]
  BY Zenon
<1>2. /\ k \in ClassStates /\ k.phase = n.phase /\ k.finalizer = n.finalizer /\ k.role = n.role
      /\ k.gen = n.gen /\ k.status = s /\ k.obs = o
  BY ZenonT(30), <1>1 DEF ClassStates
<1>3. m = k
  BY Zenon, <1>1 DEF WithStatus
<1> QED BY Zenon, <1>2, <1>3

-----------------------------------------------------------------------------
(* The user, and the informers *)

LEMMA ChangeRoleStep ==
  ASSUME Control, NEW r \in Roles \cup {NoRole}, ChangeRole(r)
  PROVE  Control' /\ (Over => Over') /\ (Alive => Alive')
<1>1. /\ iam' = iam /\ roles' = roles /\ seenClass' = seenClass /\ claims' = claims /\ seenClaims' = seenClaims
      /\ launch' = launch /\ instanceProfileCache' = instanceProfileCache
      /\ roleNotFoundErrorCache' = roleNotFoundErrorCache /\ protectedProfileCache' = protectedProfileCache
      /\ recreationCache' = recreationCache /\ rec' = rec /\ gc' = gc /\ del' = del /\ doomed' = doomed
      /\ events' = events + 1 /\ events < MaxEvents /\ nodeClass.phase = "live"
      /\ nodeClass' = [nodeClass EXCEPT !.role = r, !.gen = nodeClass.gen + 1]
  BY Zenon DEF ChangeRole, Event, iamVars, caches
<1>2. /\ nodeClass \in ClassStates /\ rec \in RecStates /\ nodeClass.gen \in Nat /\ nodeClass.obs \in Nat
      /\ nodeClass.gen <= events + 1 /\ nodeClass.obs <= nodeClass.gen /\ events \in Nat
      /\ rec.stored.gen \in Nat /\ seenClass.gen \in Nat /\ 1 <= nodeClass.gen
  BY DEF Control, ThreadsOK, MapsOK, ClassStates, RecStates
<1>3. /\ nodeClass' \in ClassStates /\ nodeClass'.phase = "live" /\ nodeClass'.finalizer = nodeClass.finalizer
      /\ nodeClass'.status = nodeClass.status /\ nodeClass'.obs = nodeClass.obs /\ nodeClass'.gen = nodeClass.gen + 1
  <2>1. PICK g : g = nodeClass.gen + 1
    BY Zenon
  <2>2. g \in Nat /\ nodeClass' = WithRole(nodeClass, r, g)
    BY <1>1, <1>2, <2>1 DEF WithRole
  <2> QED BY <1>1, <1>2, <2>1, <2>2, RoleWrite
<1>4. MapsOK'
  BY <1>1, EventsAssumption DEF Control, MapsOK
<1>5. ThreadsOK'
  BY <1>1, <1>2, <1>3 DEF Control, ThreadsOK
<1>6. Over => Over'
  BY Zenon, <1>1, <1>3 DEF Over
<1>7. PhasesOK' /\ NoneYet' /\ LaunchesOK' /\ DeletesOK' /\ CleanupOK'
  BY Zenon, <1>1, <1>3, <1>6 DEF Control, PhasesOK, NoneYet, LaunchesOK, DeletesOK, CleanupOK
<1>8. ChosenOK'
  BY Zenon, <1>1 DEF Control, ChosenOK, CurrentName
<1>9. ASSUME Alive PROVE Alive'
  <2>1. ReadyOK'
    BY <1>2, <1>3, <1>9 DEF Alive, ReadyOK, ReadyMeansUsable
  <2>2. \A p : (Named(p)' <=> Named(p)) /\ (Sheltered(p)' <=> Sheltered(p))
    BY Zenon, <1>1, <1>3 DEF Named, Sheltered
  <2>3. NamedHasRole' /\ LagIsSheltered' /\ RecreatedOK' /\ UseIsSheltered' /\ NotCollected' /\ MakingOK' /\ PatchOK'
    BY <1>1, <1>3, <1>9, <2>2
       DEF Alive, NamedHasRole, LagIsSheltered, RecreatedOK, UseIsSheltered, NotCollected, MakingOK, PatchOK
  <2> QED BY Zenon, <2>1, <2>3 DEF Alive
<1> QED BY Zenon, <1>4, <1>5, <1>6, <1>7, <1>8, <1>9 DEF Control

LEMMA DeleteNodeClassStep ==
  ASSUME Control, DeleteNodeClass
  PROVE  Control' /\ (Over => Over') /\ (Alive => Alive')
<1>1. /\ iam' = iam /\ roles' = roles /\ seenClass' = seenClass /\ claims' = claims /\ seenClaims' = seenClaims
      /\ launch' = launch /\ instanceProfileCache' = instanceProfileCache
      /\ roleNotFoundErrorCache' = roleNotFoundErrorCache /\ protectedProfileCache' = protectedProfileCache
      /\ recreationCache' = recreationCache /\ rec' = rec /\ gc' = gc /\ del' = del /\ doomed' = doomed
      /\ events' = events + 1 /\ events < MaxEvents /\ nodeClass.phase = "live"
      /\ nodeClass' = [nodeClass EXCEPT !.phase = IF nodeClass.finalizer THEN "deleting" ELSE "gone"]
  BY Zenon DEF DeleteNodeClass, Event, iamVars, caches
<1>2. /\ nodeClass \in ClassStates /\ events \in Nat /\ nodeClass.gen \in Nat /\ seenClass.gen \in Nat /\ rec.stored.gen \in Nat
  BY DEF Control, ThreadsOK, MapsOK, ClassStates, RecStates
<1>3. /\ nodeClass' \in ClassStates /\ nodeClass'.phase # "live" /\ nodeClass'.finalizer = nodeClass.finalizer
      /\ nodeClass'.phase = "gone" => ~nodeClass.finalizer
      /\ nodeClass'.status = nodeClass.status /\ nodeClass'.obs = nodeClass.obs /\ nodeClass'.gen = nodeClass.gen
  <2>1. PICK ph \in {"live", "deleting", "gone"} : ph = IF nodeClass.finalizer THEN "deleting" ELSE "gone"
    BY Zenon
  <2>2. PICK f \in BOOLEAN : f = nodeClass.finalizer
    BY Zenon, <1>2 DEF ClassStates
  <2>3. nodeClass' = WithPhase(nodeClass, ph, f)
    BY ZenonT(30), <1>1, <1>2, <2>1, <2>2 DEF WithPhase, ClassStates
  <2>4. /\ nodeClass' \in ClassStates /\ nodeClass'.phase = ph /\ nodeClass'.finalizer = f
        /\ nodeClass'.status = nodeClass.status /\ nodeClass'.obs = nodeClass.obs /\ nodeClass'.gen = nodeClass.gen
    BY <1>2, <2>3, PhaseWrite
  <2> QED BY Zenon, <2>1, <2>2, <2>4
<1>4. MapsOK'
  BY <1>1, EventsAssumption DEF Control, MapsOK
<1>5. ThreadsOK'
  BY <1>1, <1>2, <1>3 DEF Control, ThreadsOK
<1>6. Over => Over'
  BY Zenon, <1>1, <1>3 DEF Over
<1>7. PhasesOK' /\ NoneYet' /\ LaunchesOK' /\ DeletesOK' /\ CleanupOK'
  BY Zenon, <1>1, <1>3, <1>6 DEF Control, PhasesOK, NoneYet, LaunchesOK, DeletesOK, CleanupOK
<1>8. ChosenOK'
  BY Zenon, <1>1 DEF Control, ChosenOK, CurrentName
<1>9. ASSUME Alive PROVE Alive'
  <2>1. ReadyOK'
    BY Zenon, <1>3, <1>9 DEF Alive, ReadyOK, ReadyMeansUsable
  <2>2. \A p : (Named(p)' <=> Named(p)) /\ (Sheltered(p)' <=> Sheltered(p))
    BY Zenon, <1>1, <1>3 DEF Named, Sheltered
  <2>3. NamedHasRole' /\ LagIsSheltered' /\ RecreatedOK' /\ UseIsSheltered' /\ NotCollected' /\ MakingOK' /\ PatchOK'
    BY <1>1, <1>3, <1>9, <2>2
       DEF Alive, NamedHasRole, LagIsSheltered, RecreatedOK, UseIsSheltered, NotCollected, MakingOK, PatchOK
  <2> QED BY Zenon, <2>1, <2>3 DEF Alive
<1> QED BY Zenon, <1>4, <1>5, <1>6, <1>7, <1>8, <1>9 DEF Control

LEMMA CreateRoleStep ==
  ASSUME Control, CreateRole
  PROVE  Control' /\ (Over => Over') /\ (Alive => Alive')
<1>1. /\ iam' = iam /\ nodeClass' = nodeClass /\ seenClass' = seenClass /\ claims' = claims
      /\ seenClaims' = seenClaims /\ launch' = launch /\ instanceProfileCache' = instanceProfileCache
      /\ roleNotFoundErrorCache' = roleNotFoundErrorCache /\ protectedProfileCache' = protectedProfileCache
      /\ recreationCache' = recreationCache /\ rec' = rec /\ gc' = gc /\ del' = del /\ events' = events
      /\ doomed' = doomed
      /\ roles' = RoleNames
  BY Zenon DEF CreateRole, apiVars, caches
<1>2. MapsOK' /\ ThreadsOK' /\ (Over => Over')
  BY Zenon, <1>1 DEF Control, MapsOK, ThreadsOK, Over
<1>3. PhasesOK' /\ NoneYet' /\ LaunchesOK' /\ ChosenOK' /\ DeletesOK' /\ CleanupOK'
  BY <1>1, <1>2 DEF Control, PhasesOK, NoneYet, LaunchesOK, ChosenOK, CurrentName, DeletesOK, CleanupOK
<1>4. ASSUME Alive PROVE Alive'
  <2>1. \A p : (Named(p)' <=> Named(p)) /\ (Sheltered(p)' <=> Sheltered(p))
    BY Zenon, <1>1 DEF Named, Sheltered
  <2> QED BY <1>1, <1>4, <2>1
       DEF Alive, NamedHasRole, LagIsSheltered, RecreatedOK, UseIsSheltered, NotCollected, MakingOK, PatchOK, ReadyOK, ReadyMeansUsable
<1> QED BY Zenon, <1>2, <1>3, <1>4 DEF Control

\* Claims that have no profile yet, or are deleted, add no name.
LEMMA ClaimStep ==
  ASSUME Control, NEW c \in Claims, CreateClaim(c) \/ DeleteClaim(c)
  PROVE  Control' /\ (Over => Over') /\ (Alive => Alive')
<1>1. /\ iam' = iam /\ roles' = roles /\ nodeClass' = nodeClass /\ seenClass' = seenClass
      /\ seenClaims' = seenClaims /\ launch' = launch /\ instanceProfileCache' = instanceProfileCache
      /\ roleNotFoundErrorCache' = roleNotFoundErrorCache /\ protectedProfileCache' = protectedProfileCache
      /\ recreationCache' = recreationCache /\ rec' = rec /\ gc' = gc /\ del' = del /\ events' = events
      /\ doomed' = doomed
      /\ claims' = [claims EXCEPT ![c] = Pending] \/ claims' = [claims EXCEPT ![c] = None]
      /\ claims'[c] = Pending => seenClaims[c] = None /\ claims[c] = None
      /\ claims'[c] = None => launch[c] = None
  BY Values DEF Control, MapsOK, CreateClaim, DeleteClaim, iamVars, caches
<1>2. /\ claims \in [Claims -> Names \cup {None, Pending}] /\ claims'[c] \in {None, Pending}
      /\ \A d \in Claims : d # c => claims'[d] = claims[d]
      /\ claims' \in [Claims -> Names \cup {None, Pending}]
  BY Zenon, <1>1 DEF Control, MapsOK
<1>3. MapsOK' /\ ThreadsOK'
  BY Zenon, <1>1, <1>2 DEF Control, MapsOK, ThreadsOK
<1>4. Over => Over'
  BY Zenon, <1>1, <1>2, Values DEF Over
<1>5. PhasesOK' /\ ChosenOK' /\ DeletesOK' /\ CleanupOK'
  BY <1>1, <1>4 DEF Control, PhasesOK, ChosenOK, CurrentName, DeletesOK, CleanupOK
<1>6. NoneYet' /\ LaunchesOK'
  BY <1>1, <1>2, Values DEF Control, NoneYet, LaunchesOK
<1>7. ASSUME Alive PROVE Alive'
  <2>1. \A p \in Names : Named(p)' => Named(p)
    BY Zenon, <1>1, <1>2, Values DEF Named
  <2>2. \A p : Sheltered(p)' <=> Sheltered(p)
    BY Zenon, <1>1 DEF Sheltered
  <2>3. /\ gc.pc # "idle" => gc.name \in Names
        /\ rec.pc \in Making => rec.new \in Names
    BY Zenon, Values DEF Control, ThreadsOK
  <2>4. NamedHasRole' /\ NotCollected' /\ MakingOK'
    BY Zenon, <1>1, <1>7, <2>1, <2>2, <2>3 DEF Alive, NamedHasRole, NotCollected, MakingOK, Making
  <2>5. LagIsSheltered' /\ RecreatedOK' /\ PatchOK' /\ ReadyOK'
    BY Zenon, <1>1, <1>7, <2>2 DEF Alive, LagIsSheltered, RecreatedOK, PatchOK, ReadyOK, ReadyMeansUsable
  <2>6. UseIsSheltered'
    BY Zenon, <1>1, <1>2, <1>7, <2>2, Values DEF Alive, UseIsSheltered
  <2> QED BY Zenon, <2>4, <2>5, <2>6 DEF Alive
<1> QED BY Zenon, <1>3, <1>4, <1>5, <1>6, <1>7 DEF Control

\* The informer catches up with the NodeClass: its old name is protected.
LEMMA InformNodeClassStep ==
  ASSUME Control, InformNodeClass
  PROVE  Control' /\ (Over => Over') /\ (Alive => Alive')
<1>1. /\ iam' = iam /\ roles' = roles /\ nodeClass' = nodeClass /\ claims' = claims /\ seenClaims' = seenClaims
      /\ launch' = launch /\ instanceProfileCache' = instanceProfileCache
      /\ roleNotFoundErrorCache' = roleNotFoundErrorCache /\ protectedProfileCache' = protectedProfileCache
      /\ recreationCache' = recreationCache /\ rec' = rec /\ gc' = gc /\ del' = del /\ events' = events
      /\ doomed' = doomed
      /\ seenClass' = nodeClass
  BY Zenon DEF InformNodeClass, iamVars, caches
<1>2. MapsOK' /\ ThreadsOK'
  BY Zenon, <1>1 DEF Control, MapsOK, ThreadsOK
<1>3. Over => Over'
  BY Zenon, <1>1 DEF Over
<1>4. PhasesOK' /\ NoneYet' /\ LaunchesOK' /\ DeletesOK' /\ CleanupOK'
  BY Zenon, <1>1, <1>3 DEF Control, PhasesOK, NoneYet, LaunchesOK, DeletesOK, CleanupOK
<1>5. ChosenOK'
  BY Zenon, <1>1 DEF Control, ChosenOK, CurrentName
<1>6. ASSUME Alive PROVE Alive'
  <2>1. \A p \in Names : Named(p)' => Named(p)
    BY Zenon, <1>1 DEF Named
  <2>2. \A p : Sheltered(p)' <=> Sheltered(p)
    BY Zenon, <1>1 DEF Sheltered
  <2>3. /\ gc.pc # "idle" => gc.name \in Names
        /\ rec.pc \in Making => rec.new \in Names
    BY Zenon, Values DEF Control, ThreadsOK
  <2>4. NamedHasRole' /\ MakingOK'
    BY Zenon, <1>1, <1>6, <2>1, <2>3 DEF Alive, NamedHasRole, MakingOK, Making
  <2>5. LagIsSheltered' /\ RecreatedOK' /\ PatchOK' /\ ReadyOK' /\ UseIsSheltered'
    BY Zenon, <1>1, <1>6, <2>2 DEF Alive, LagIsSheltered, RecreatedOK, PatchOK, ReadyOK, ReadyMeansUsable, UseIsSheltered
  <2>6. NotCollected'
    <3>1. gc.name = seenClass.status => Sheltered(gc.name) \/ gc.name = nodeClass.status
      BY Zenon, <1>6 DEF Alive, LagIsSheltered
    <3> QED BY Zenon, <1>1, <1>6, <2>1, <2>2, <2>3, <3>1 DEF Alive, NotCollected
  <2> QED BY Zenon, <2>4, <2>5, <2>6 DEF Alive
<1> QED BY Zenon, <1>2, <1>3, <1>4, <1>5, <1>6 DEF Control

LEMMA InformClaimsStep ==
  ASSUME Control, InformClaims
  PROVE  Control' /\ (Over => Over') /\ (Alive => Alive')
<1>1. /\ iam' = iam /\ roles' = roles /\ nodeClass' = nodeClass /\ seenClass' = seenClass /\ claims' = claims
      /\ launch' = launch /\ instanceProfileCache' = instanceProfileCache
      /\ roleNotFoundErrorCache' = roleNotFoundErrorCache /\ protectedProfileCache' = protectedProfileCache
      /\ recreationCache' = recreationCache /\ rec' = rec /\ gc' = gc /\ del' = del /\ events' = events
      /\ doomed' = doomed
      /\ seenClaims' = claims
  BY Zenon DEF InformClaims, iamVars, caches
<1>2. MapsOK' /\ ThreadsOK' /\ (Over => Over')
  BY Zenon, <1>1 DEF Control, MapsOK, ThreadsOK, Over
<1>3. PhasesOK' /\ NoneYet' /\ ChosenOK' /\ DeletesOK' /\ CleanupOK'
  BY <1>1, <1>2 DEF Control, PhasesOK, NoneYet, ChosenOK, CurrentName, DeletesOK, CleanupOK
<1>4. LaunchesOK'
  BY Zenon, <1>1, Values DEF Control, LaunchesOK
<1>5. ASSUME Alive PROVE Alive'
  <2>1. \A p : (Named(p)' <=> Named(p)) /\ (Sheltered(p)' <=> Sheltered(p))
    BY Zenon, <1>1 DEF Named, Sheltered
  <2> QED BY <1>1, <1>5, <2>1
       DEF Alive, NamedHasRole, LagIsSheltered, RecreatedOK, UseIsSheltered, NotCollected, MakingOK, PatchOK, ReadyOK, ReadyMeansUsable
<1> QED BY Zenon, <1>2, <1>3, <1>4, <1>5 DEF Control

-----------------------------------------------------------------------------
(* Launches *)

LEMMA CreateBeginStep ==
  ASSUME Control, NEW c \in Claims, CreateBegin(c)
  PROVE  Control' /\ (Over => Over') /\ (Alive => Alive')
<1>1. /\ iam' = iam /\ roles' = roles /\ nodeClass' = nodeClass /\ seenClass' = seenClass /\ claims' = claims
      /\ seenClaims' = seenClaims /\ instanceProfileCache' = instanceProfileCache
      /\ roleNotFoundErrorCache' = roleNotFoundErrorCache /\ protectedProfileCache' = protectedProfileCache
      /\ recreationCache' = recreationCache /\ rec' = rec /\ gc' = gc /\ del' = del /\ events' = events
      /\ doomed' = doomed
      /\ launch' = [launch EXCEPT ![c] = seenClass.status] /\ seenClass.phase = "live"
      /\ claims[c] = Pending /\ seenClaims[c] = Pending
  BY Zenon DEF CreateBegin, iamVars, apiVars, caches
<1>2. /\ launch \in [Claims -> Names \cup {None}] /\ seenClass.status \in Names \cup {None}
  BY Zenon DEF Control, MapsOK, ThreadsOK, ClassStates
<1>3. /\ launch' \in [Claims -> Names \cup {None}] /\ launch'[c] = seenClass.status
      /\ \A d \in Claims : d # c => launch'[d] = launch[d]
  BY Zenon, <1>1, <1>2
<1>4. MapsOK' /\ ThreadsOK' /\ (Over => Over')
  BY Zenon, <1>1, <1>3 DEF Control, MapsOK, ThreadsOK, Over
<1>5. PhasesOK' /\ ChosenOK' /\ DeletesOK' /\ CleanupOK'
  BY SMTT(30), <1>1, <1>4 DEF Control, PhasesOK, ChosenOK, CurrentName, DeletesOK, CleanupOK
<1>6. NoneYet' /\ LaunchesOK'
  BY Zenon, <1>1, <1>3 DEF Control, NoneYet, LaunchesOK
<1>7. ASSUME Alive PROVE Alive'
  <2>1. \A p \in Names : Named(p)' => Named(p)
    BY Zenon, <1>1, <1>3 DEF Named
  <2>2. \A p : Sheltered(p)' <=> Sheltered(p)
    BY Zenon, <1>1 DEF Sheltered
  <2>3. /\ gc.pc # "idle" => gc.name \in Names
        /\ rec.pc \in Making => rec.new \in Names
    BY Zenon, Values DEF Control, ThreadsOK
  <2>4. NamedHasRole' /\ NotCollected' /\ MakingOK'
    BY Zenon, <1>1, <1>7, <2>1, <2>2, <2>3 DEF Alive, NamedHasRole, NotCollected, MakingOK, Making
  <2>5. LagIsSheltered' /\ RecreatedOK' /\ PatchOK' /\ ReadyOK'
    BY Zenon, <1>1, <1>7, <2>2 DEF Alive, LagIsSheltered, RecreatedOK, PatchOK, ReadyOK, ReadyMeansUsable
  <2>6. UseIsSheltered'
    BY Zenon, <1>1, <1>3, <1>7, <2>2 DEF Alive, UseIsSheltered
  <2> QED BY Zenon, <2>4, <2>5, <2>6 DEF Alive
<1> QED BY Zenon, <1>4, <1>5, <1>6, <1>7 DEF Control

LEMMA CreateEndStep ==
  ASSUME Control, NEW c \in Claims, CreateEnd(c)
  PROVE  Control' /\ (Over => Over') /\ (Alive => Alive')
<1>1. /\ iam' = iam /\ roles' = roles /\ nodeClass' = nodeClass /\ seenClass' = seenClass
      /\ seenClaims' = seenClaims /\ instanceProfileCache' = instanceProfileCache
      /\ roleNotFoundErrorCache' = roleNotFoundErrorCache /\ protectedProfileCache' = protectedProfileCache
      /\ recreationCache' = recreationCache /\ rec' = rec /\ gc' = gc /\ del' = del /\ events' = events
      /\ doomed' = doomed
      /\ launch' = [launch EXCEPT ![c] = None] /\ launch[c] # None
      /\ claims' = [claims EXCEPT ![c] = IF iam[launch[c]] # Absent THEN launch[c] ELSE claims[c]]
  BY Zenon DEF CreateEnd, iamVars, caches
<1>2. /\ launch \in [Claims -> Names \cup {None}] /\ claims \in [Claims -> Names \cup {None, Pending}]
      /\ claims[c] = Pending /\ seenClaims[c] = Pending /\ launch[c] \in Names
  BY Zenon, <1>1 DEF Control, MapsOK, LaunchesOK
<1>3. /\ launch' \in [Claims -> Names \cup {None}] /\ launch'[c] = None
      /\ \A d \in Claims : d # c => launch'[d] = launch[d] /\ claims'[d] = claims[d]
      /\ claims' \in [Claims -> Names \cup {None, Pending}] /\ claims'[c] \in {launch[c], Pending}
  BY Zenon, <1>1, <1>2
<1>4. MapsOK' /\ ThreadsOK' /\ (Over => Over')
  BY Zenon, <1>1, <1>3 DEF Control, MapsOK, ThreadsOK, Over
<1>5. PhasesOK' /\ ChosenOK' /\ DeletesOK' /\ CleanupOK'
  BY <1>1, <1>4 DEF Control, PhasesOK, ChosenOK, CurrentName, DeletesOK, CleanupOK
<1>6. NoneYet' /\ LaunchesOK'
  BY Zenon, <1>1, <1>2, <1>3, Values DEF Control, NoneYet, LaunchesOK
<1>7. ASSUME Alive PROVE Alive'
  <2>1. \A p \in Names : Named(p)' => Named(p)
    BY Zenon, <1>1, <1>3, Values DEF Named
  <2>2. \A p : Sheltered(p)' <=> Sheltered(p)
    BY Zenon, <1>1 DEF Sheltered
  <2>3. /\ gc.pc # "idle" => gc.name \in Names
        /\ rec.pc \in Making => rec.new \in Names
    BY Zenon, Values DEF Control, ThreadsOK
  <2>4. NamedHasRole' /\ NotCollected' /\ MakingOK'
    BY Zenon, <1>1, <1>7, <2>1, <2>2, <2>3 DEF Alive, NamedHasRole, NotCollected, MakingOK, Making
  <2>5. LagIsSheltered' /\ RecreatedOK' /\ PatchOK' /\ ReadyOK'
    BY Zenon, <1>1, <1>7, <2>2 DEF Alive, LagIsSheltered, RecreatedOK, PatchOK, ReadyOK, ReadyMeansUsable
  <2>6. UseIsSheltered'
    BY Zenon, <1>1, <1>2, <1>3, <1>7, <2>2, Values DEF Alive, UseIsSheltered
  <2> QED BY Zenon, <2>4, <2>5, <2>6 DEF Alive
<1> QED BY Zenon, <1>4, <1>5, <1>6, <1>7 DEF Control

-----------------------------------------------------------------------------
(* The reconciliation *)

\* Writes of the state of the reconciliation.
RecPhases == {"idle", "finalizer"} \cup Reconciling \cup Finalizing
Reported(x, s, o, k) == [x EXCEPT !.status = s, !.obs = o, !.pc = k]
Chosen(x, s, k) == [x EXCEPT !.status = s, !.pc = k]
AtNew(x, n, k) == [x EXCEPT !.new = n, !.pc = k]
Listed(x, td, k) == [x EXCEPT !.todo = td, !.pc = k]

LEMMA ReportedWrite ==
  ASSUME NEW x \in RecStates, NEW k \in RecPhases, NEW s \in Names \cup {None}, NEW o \in Nat
  PROVE  LET m == Reported(x, s, o, k)
         IN  /\ m \in RecStates /\ m.pc = k /\ m.stored = x.stored /\ m.status = s /\ m.obs = o
             /\ m.new = x.new /\ m.todo = x.todo
<1> DEFINE m == Reported(x, s, o, k)
<1>1. PICK y : y = [x EXCEPT !.status = s, !.obs = o, !.pc = k]
  BY Zenon
<1>2. /\ y \in RecStates /\ y.pc = k /\ y.stored = x.stored /\ y.status = s /\ y.obs = o
      /\ y.new = x.new /\ y.todo = x.todo
  BY ZenonT(30), <1>1 DEF RecStates, RecPhases
<1>3. m = y
  BY Zenon, <1>1 DEF Reported
<1> QED BY Zenon, <1>2, <1>3

LEMMA ChosenWrite ==
  ASSUME NEW x \in RecStates, NEW k \in RecPhases, NEW s \in Names \cup {None}
  PROVE  LET m == Chosen(x, s, k)
         IN  /\ m \in RecStates /\ m.pc = k /\ m.stored = x.stored /\ m.status = s /\ m.obs = x.obs
             /\ m.new = x.new /\ m.todo = x.todo
<1> DEFINE m == Chosen(x, s, k)
<1>1. PICK y : y = [x EXCEPT !.status = s, !.pc = k]
  BY Zenon
<1>2. /\ y \in RecStates /\ y.pc = k /\ y.stored = x.stored /\ y.status = s /\ y.obs = x.obs
      /\ y.new = x.new /\ y.todo = x.todo
  BY ZenonT(30), <1>1 DEF RecStates, RecPhases
<1>3. m = y
  BY Zenon, <1>1 DEF Chosen
<1> QED BY Zenon, <1>2, <1>3

LEMMA NewWrite ==
  ASSUME NEW x \in RecStates, NEW k \in RecPhases, NEW n \in Profiles \cup {None}
  PROVE  LET m == AtNew(x, n, k)
         IN  /\ m \in RecStates /\ m.pc = k /\ m.stored = x.stored /\ m.status = x.status /\ m.obs = x.obs
             /\ m.new = n /\ m.todo = x.todo
<1> DEFINE m == AtNew(x, n, k)
<1>1. PICK y : y = [x EXCEPT !.new = n, !.pc = k]
  BY Zenon
<1>2. /\ y \in RecStates /\ y.pc = k /\ y.stored = x.stored /\ y.status = x.status /\ y.obs = x.obs
      /\ y.new = n /\ y.todo = x.todo
  BY ZenonT(30), <1>1 DEF RecStates, RecPhases
<1>3. m = y
  BY Zenon, <1>1 DEF AtNew
<1> QED BY Zenon, <1>2, <1>3

LEMMA ListedWrite ==
  ASSUME NEW x \in RecStates, NEW k \in RecPhases, NEW td \in SUBSET (Profiles \cup {Legacy})
  PROVE  LET m == Listed(x, td, k)
         IN  /\ m \in RecStates /\ m.pc = k /\ m.stored = x.stored /\ m.status = x.status /\ m.obs = x.obs
             /\ m.new = x.new /\ m.todo = td
<1> DEFINE m == Listed(x, td, k)
<1>1. PICK y : y = [x EXCEPT !.todo = td, !.pc = k]
  BY Zenon
<1>2. /\ y \in RecStates /\ y.pc = k /\ y.stored = x.stored /\ y.status = x.status /\ y.obs = x.obs
      /\ y.new = x.new /\ y.todo = td
  BY ZenonT(30), <1>1 DEF RecStates, RecPhases
<1>3. m = y
  BY Zenon, <1>1 DEF Listed
<1> QED BY Zenon, <1>2, <1>3

\* A change of the pc alone is the first of these with the name it has.
LEMMA StepWrite ==
  ASSUME NEW x \in RecStates, NEW k \in RecPhases
  PROVE  LET m == [x EXCEPT !.pc = k]
         IN  /\ m \in RecStates /\ m.pc = k /\ m.stored = x.stored /\ m.status = x.status /\ m.obs = x.obs
             /\ m.new = x.new /\ m.todo = x.todo
BY Zenon DEF RecStates, RecPhases

StartWith(k, n) == [Idle EXCEPT !.stored = n, !.status = n.status, !.obs = n.obs, !.pc = k]

LEMMA StartWrite ==
  ASSUME NEW n \in ClassStates, NEW k \in {"finalizer", "reconcile", "finalize"}
  PROVE  LET m == StartWith(k, n)
         IN  m \in RecStates /\ m.pc = k /\ m.stored = n /\ m.obs = n.obs
<1> DEFINE m == StartWith(k, n)
<1>1. PICK y, x : x = Idle /\ y = [x EXCEPT !.stored = n, !.status = n.status, !.obs = n.obs, !.pc = k]
  BY ZenonT(30)
<1>2. x \in RecStates /\ k \in {"idle", "finalizer"} \cup Reconciling \cup Finalizing
  BY Zenon, <1>1, IdleFacts DEF Reconciling, Finalizing
<1>3. n.status \in Names \cup {None} /\ n.obs \in Nat
  BY Zenon DEF ClassStates
<1>4. y \in RecStates /\ y.pc = k /\ y.stored = n /\ y.obs = n.obs
  BY ZenonT(30), <1>1, <1>2, <1>3 DEF RecStates
<1>5. m = y
  BY Zenon, <1>1 DEF StartWith
<1> QED BY Zenon, <1>4, <1>5

LEMMA StartStep ==
  ASSUME Control, Start
  PROVE  Control' /\ (Over => Over') /\ (Alive => Alive')
<1>1. /\ iam' = iam /\ roles' = roles /\ nodeClass' = nodeClass /\ seenClass' = seenClass /\ claims' = claims
      /\ seenClaims' = seenClaims /\ launch' = launch /\ instanceProfileCache' = instanceProfileCache
      /\ roleNotFoundErrorCache' = roleNotFoundErrorCache /\ protectedProfileCache' = protectedProfileCache
      /\ recreationCache' = recreationCache /\ gc' = gc /\ del' = del /\ events' = events /\ doomed' = doomed
      /\ rec.pc = "idle" /\ seenClass.phase # "gone"
  BY Zenon DEF Start, iamVars, apiVars, caches
<1>2. /\ seenClass \in ClassStates /\ nodeClass.gen \in Nat /\ rec = Idle
  BY Zenon, <1>1 DEF Control, ThreadsOK, ClassStates
<1>3. PICK k \in {"finalizer", "reconcile", "finalize"} :
         k = IF seenClass.phase = "deleting" THEN "finalize"
             ELSE IF seenClass.finalizer THEN "reconcile" ELSE "finalizer"
  BY Zenon
<1>4. rec' \in RecStates /\ rec'.pc = k /\ rec'.stored = seenClass /\ rec'.obs = seenClass.obs
  <2>1. rec' = StartWith(k, seenClass)
    BY Zenon, <1>3 DEF Start, StartWith
  <2> QED BY Zenon, <1>2, <2>1, StartWrite
<1>5. MapsOK'
  BY Zenon, <1>1 DEF Control, MapsOK
<1>6. ThreadsOK'
  BY Zenon, <1>1, <1>3, <1>4 DEF Control, ThreadsOK, Making
<1>7. Over => Over'
  BY Zenon, <1>1, <1>4 DEF Over
<1>8. PhasesOK'
  <2>1. seenClass.phase \in {"live", "deleting"} /\ seenClass.finalizer \in BOOLEAN
    BY Zenon, <1>1, <1>2 DEF ClassStates
  <2> QED BY Zenon, <1>1, <1>3, <1>4, <1>7, <2>1 DEF Control, PhasesOK, Finalizing, Reconciling, Choosing
<1>9. NoneYet' /\ LaunchesOK' /\ DeletesOK' /\ CleanupOK'
  BY Zenon, <1>1, <1>3, <1>4 DEF Control, NoneYet, LaunchesOK, DeletesOK, CleanupOK
<1>10. ChosenOK'
  BY Zenon, <1>1, <1>3, <1>4 DEF ChosenOK, Choosing, Making
<1>11. ASSUME Alive PROVE Alive'
  <2>1. \A p \in Names : Named(p)' => Named(p)
    BY Zenon, <1>1, <1>4 DEF Named
  <2>2. \A p : Sheltered(p)' <=> Sheltered(p)
    BY Zenon, <1>1 DEF Sheltered
  <2>3. gc.pc # "idle" => gc.name \in Names
    BY Zenon, Values DEF Control, ThreadsOK
  <2>4. NamedHasRole' /\ NotCollected' /\ MakingOK' /\ PatchOK'
    BY Zenon, <1>1, <1>3, <1>4, <1>11, <2>1, <2>2, <2>3 DEF Alive, NamedHasRole, NotCollected, MakingOK, Making, PatchOK
  <2>5. LagIsSheltered' /\ RecreatedOK' /\ ReadyOK' /\ UseIsSheltered'
    BY Zenon, <1>1, <1>3, <1>4, <1>11, <2>2 DEF Alive, LagIsSheltered, RecreatedOK, ReadyOK, ReadyMeansUsable, UseIsSheltered
  <2> QED BY Zenon, <2>4, <2>5 DEF Alive
<1> QED BY Zenon, <1>5, <1>6, <1>7, <1>8, <1>9, <1>10, <1>11 DEF Control

Ticks == events' = events \/ (events < MaxEvents /\ events' = events + 1)

\* A reconciliation ends without having written anything.
LEMMA GiveUp ==
  ASSUME Control, iam' = iam, roles' = roles, nodeClass' = nodeClass, seenClass' = seenClass, claims' = claims, seenClaims' = seenClaims,
         launch' = launch, instanceProfileCache' = instanceProfileCache, roleNotFoundErrorCache' = roleNotFoundErrorCache, protectedProfileCache' = protectedProfileCache, recreationCache' = recreationCache,
         gc' = gc, del' = del, doomed' = doomed, Ticks, rec' = Idle, del["nodeclass"].pc = "none"
  PROVE  Control' /\ (Over => Over') /\ (Alive => Alive')
<1>1. /\ rec' \in RecStates /\ rec'.pc = "idle" /\ rec'.stored.status = None /\ rec'.stored.phase = "live"
      /\ rec'.stored.gen = 1 /\ rec'.stored.obs = 0 /\ rec'.obs = 0
  BY Zenon, IdleFacts
<1>2. /\ nodeClass.gen \in Nat /\ seenClass.gen \in Nat /\ events \in Nat /\ events' \in Nat /\ events <= events'
  BY DEF Control, ThreadsOK, ClassStates, MapsOK, Ticks
<1>3. MapsOK'
  BY EventsAssumption DEF Control, MapsOK, Ticks
<1>4. ThreadsOK'
  BY <1>1, <1>2 DEF Control, ThreadsOK, Making
<1>5. Over => Over'
  BY Zenon, <1>1 DEF Over
<1>6. PhasesOK'
  BY Zenon, <1>1, <1>5 DEF Control, PhasesOK, Finalizing, Reconciling, Choosing
<1>7. NoneYet' /\ LaunchesOK' /\ DeletesOK' /\ CleanupOK'
  BY Zenon, <1>1 DEF Control, NoneYet, LaunchesOK, DeletesOK, CleanupOK
<1>8. ChosenOK'
  BY Zenon, <1>1 DEF ChosenOK, Choosing, Making, Reconciling
<1>9. ASSUME Alive PROVE Alive'
  <2>1. \A p \in Names : Named(p)' => Named(p)
    BY Zenon, <1>1, Values DEF Named
  <2>2. \A p : Sheltered(p)' <=> Sheltered(p)
    BY Zenon DEF Sheltered
  <2>3. gc.pc # "idle" => gc.name \in Names
    BY Zenon, Values DEF Control, ThreadsOK
  <2>4. NamedHasRole' /\ NotCollected' /\ MakingOK' /\ PatchOK'
    BY Zenon, <1>1, <1>9, <2>1, <2>2, <2>3 DEF Alive, NamedHasRole, NotCollected, MakingOK, Making, PatchOK
  <2>5. LagIsSheltered' /\ ReadyOK' /\ UseIsSheltered'
    BY Zenon, <1>1, <1>9, <2>2 DEF Alive, LagIsSheltered, ReadyOK, ReadyMeansUsable, UseIsSheltered
  <2>6. RecreatedOK'
    <3>1. Sheltered(None)
      BY Zenon DEF Sheltered
    <3> QED BY Zenon, <1>1, <1>9, <2>2, <3>1 DEF Alive, RecreatedOK
  <2> QED BY Zenon, <2>4, <2>5, <2>6 DEF Alive
<1> QED BY Zenon, <1>3, <1>4, <1>5, <1>6, <1>7, <1>8, <1>9 DEF Control

WithFinalizer(x) == [x EXCEPT !.stored.finalizer = TRUE, !.pc = "reconcile"]

LEMMA FinalizerWrite ==
  ASSUME NEW x \in RecStates
  PROVE  LET m == WithFinalizer(x)
         IN  /\ m \in RecStates /\ m.pc = "reconcile" /\ m.obs = x.obs /\ m.stored.finalizer = TRUE
             /\ m.stored.phase = x.stored.phase /\ m.stored.role = x.stored.role /\ m.stored.gen = x.stored.gen
             /\ m.stored.status = x.stored.status /\ m.stored.obs = x.stored.obs
<1> DEFINE m == WithFinalizer(x)
<1>1. PICK n \in ClassStates : n = x.stored
  BY Zenon DEF RecStates
<1>2. PICK k : k = [n EXCEPT !.finalizer = TRUE]
  BY ZenonT(30)
<1>3. /\ k \in ClassStates /\ k.finalizer = TRUE /\ k.phase = n.phase /\ k.role = n.role /\ k.gen = n.gen
      /\ k.status = n.status /\ k.obs = n.obs
  BY ZenonT(30), <1>2 DEF ClassStates
<1>4. PICK y : y = [x EXCEPT !.stored = k, !.pc = "reconcile"]
  BY Zenon
<1>5. y \in RecStates /\ y.pc = "reconcile" /\ y.obs = x.obs /\ y.stored = k
  BY ZenonT(30), <1>3, <1>4 DEF RecStates, Reconciling
<1>6. m = y
  BY Zenon, <1>1, <1>2, <1>4 DEF WithFinalizer, RecStates
<1> QED BY Zenon, <1>1, <1>3, <1>5, <1>6

LEMMA AddFinalizerStep ==
  ASSUME Control, AddFinalizer
  PROVE  Control' /\ (Over => Over') /\ (Alive => Alive')
<1>1. /\ iam' = iam /\ roles' = roles /\ seenClass' = seenClass /\ claims' = claims /\ seenClaims' = seenClaims
      /\ launch' = launch /\ instanceProfileCache' = instanceProfileCache
      /\ roleNotFoundErrorCache' = roleNotFoundErrorCache /\ protectedProfileCache' = protectedProfileCache
      /\ recreationCache' = recreationCache /\ gc' = gc /\ del' = del /\ doomed' = doomed
      /\ rec.pc = "finalizer"
  BY Zenon DEF AddFinalizer, iamVars, caches
<1>2. del["nodeclass"].pc = "none" /\ rec \in RecStates /\ nodeClass \in ClassStates /\ rec.stored.phase = "live"
  BY Zenon, <1>1 DEF Control, DeletesOK, ThreadsOK, PhasesOK
<1>3. CASE rec' = Idle /\ nodeClass' = nodeClass /\ Ticks
  BY Zenon, <1>1, <1>2, <1>3, GiveUp
<1>4. CASE /\ rec' = [rec EXCEPT !.stored.finalizer = TRUE, !.pc = "reconcile"] /\ events' = events
           /\ \/ nodeClass = rec.stored /\ nodeClass' = [nodeClass EXCEPT !.finalizer = TRUE]
              \/ nodeClass.phase = "gone" /\ nodeClass' = nodeClass
  <2>1. /\ rec' \in RecStates /\ rec'.pc = "reconcile" /\ rec'.obs = rec.obs /\ rec'.stored.finalizer = TRUE
        /\ rec'.stored.phase = rec.stored.phase /\ rec'.stored.role = rec.stored.role /\ rec'.stored.gen = rec.stored.gen
        /\ rec'.stored.status = rec.stored.status /\ rec'.stored.obs = rec.stored.obs
    <3>1. rec' = WithFinalizer(rec)
      BY Zenon, <1>4 DEF WithFinalizer
    <3> QED BY ZenonT(30), <1>2, <3>1, FinalizerWrite
  <2>2. /\ nodeClass' \in ClassStates /\ nodeClass'.phase = nodeClass.phase /\ nodeClass'.role = nodeClass.role
        /\ nodeClass'.gen = nodeClass.gen /\ nodeClass'.status = nodeClass.status /\ nodeClass'.obs = nodeClass.obs
        /\ nodeClass'.phase = "live" => nodeClass'.finalizer
    <3>1. CASE nodeClass = rec.stored /\ nodeClass' = [nodeClass EXCEPT !.finalizer = TRUE]
      <4>1. PICK ph \in {"live", "deleting", "gone"} : ph = nodeClass.phase
        BY Zenon, <1>2 DEF ClassStates
      <4>2. nodeClass' = WithPhase(nodeClass, ph, TRUE)
        BY ZenonT(30), <1>2, <3>1, <4>1 DEF WithPhase, ClassStates
      <4>3. /\ nodeClass' \in ClassStates /\ nodeClass'.phase = ph /\ nodeClass'.finalizer = TRUE /\ nodeClass'.role = nodeClass.role
            /\ nodeClass'.gen = nodeClass.gen /\ nodeClass'.status = nodeClass.status /\ nodeClass'.obs = nodeClass.obs
        BY ZenonT(30), <1>2, <4>2, PhaseWrite
      <4> QED BY Zenon, <4>1, <4>3
    <3>2. CASE nodeClass.phase = "gone" /\ nodeClass' = nodeClass
      BY Zenon, <1>2, <3>2
    <3> QED BY Zenon, <1>4, <3>1, <3>2
  <2>3. MapsOK'
    BY Zenon, <1>1, <1>4 DEF Control, MapsOK
  <2>4. ThreadsOK'
    BY Zenon, <1>1, <1>4, <2>1, <2>2 DEF Control, ThreadsOK, Making
  <2>5. Over => Over'
    BY Zenon, <1>1, <1>2, <2>1, <2>2 DEF Over
  <2>6. PhasesOK'
    BY Zenon, <1>1, <1>2, <2>1, <2>2, <2>5 DEF Control, PhasesOK, Finalizing, Reconciling, Choosing
  <2>7. NoneYet' /\ LaunchesOK' /\ DeletesOK' /\ CleanupOK'
    BY Zenon, <1>1, <1>2, <2>1, <2>2 DEF Control, NoneYet, LaunchesOK, DeletesOK, CleanupOK
  <2>8. ChosenOK'
    BY Zenon, <1>1, <2>1 DEF Control, ChosenOK, Choosing, Making
  <2>9. ASSUME Alive PROVE Alive'
    <3>1. \A p : (Named(p)' <=> Named(p)) /\ (Sheltered(p)' <=> Sheltered(p))
      BY Zenon, <1>1, <2>1, <2>2 DEF Named, Sheltered
    <3>2. NamedHasRole' /\ RecreatedOK' /\ UseIsSheltered' /\ NotCollected'
      BY Zenon, <1>1, <2>1, <2>2, <2>9, <3>1 DEF Alive, NamedHasRole, RecreatedOK, UseIsSheltered, NotCollected
    <3>3. LagIsSheltered' /\ MakingOK' /\ PatchOK'
      BY Zenon, <1>1, <2>1, <2>2, <2>9, <3>1 DEF Alive, LagIsSheltered, MakingOK, PatchOK, Making
    <3>4. ReadyOK'
      BY Zenon, <1>1, <2>2, <2>9 DEF Alive, ReadyOK, ReadyMeansUsable
    <3> QED BY Zenon, <3>2, <3>3, <3>4 DEF Alive
  <2> QED BY Zenon, <2>3, <2>4, <2>5, <2>6, <2>7, <2>8, <2>9 DEF Control
<1>5. \/ rec' = Idle /\ nodeClass' = nodeClass /\ Ticks
      \/ /\ rec' = [rec EXCEPT !.stored.finalizer = TRUE, !.pc = "reconcile"] /\ events' = events
         /\ \/ nodeClass = rec.stored /\ nodeClass' = [nodeClass EXCEPT !.finalizer = TRUE]
            \/ nodeClass.phase = "gone" /\ nodeClass' = nodeClass
  BY Zenon DEF AddFinalizer, Fault, Event, Ticks
<1> QED BY Zenon, <1>3, <1>4, <1>5

\* A step of a reconciliation that changes only its own state, its caches and
\* protects more names: what does not follow of itself is left to the caller.
RecSteps ==
  /\ iam' = iam /\ roles' = roles /\ nodeClass' = nodeClass /\ seenClass' = seenClass /\ claims' = claims
  /\ seenClaims' = seenClaims /\ launch' = launch /\ roleNotFoundErrorCache' = roleNotFoundErrorCache
  /\ recreationCache' = recreationCache /\ gc' = gc /\ doomed' = doomed /\ Ticks
  /\ protectedProfileCache \subseteq protectedProfileCache' /\ protectedProfileCache' \subseteq Names
  /\ instanceProfileCache' \in [Names -> RoleNames \cup Roles \cup {Absent, Bare}]
  /\ rec.pc \in Reconciling /\ rec' \in RecStates /\ rec'.pc \in Choosing
  /\ rec'.stored = rec.stored /\ rec'.obs <= rec.stored.gen
  /\ rec'.pc \in Making => rec'.new \in Profiles

LEMMA RecStepControl ==
  ASSUME Control, RecSteps, del' = del, rec'.pc # "delete", del["nodeclass"].pc = "none", ChosenOK'
  PROVE  Control' /\ (Over => Over')
<1>1. rec.stored.phase = "live" /\ rec.stored.finalizer /\ rec.pc # "idle" /\ rec'.pc # "idle" /\ rec'.pc \notin Finalizing
      /\ rec'.pc \in Reconciling
  BY Zenon DEF Control, PhasesOK, RecSteps, Reconciling, Choosing, Finalizing
<1>2. events' \in Nat /\ events \in Nat /\ events <= events' /\ events' \in 0 .. MaxEvents
  BY EventsAssumption DEF Control, MapsOK, RecSteps, Ticks
<1>3. MapsOK'
  BY Zenon, <1>2 DEF Control, MapsOK, RecSteps
<1>4. ThreadsOK'
  <2>1. nodeClass.gen \in Nat /\ seenClass.gen \in Nat /\ rec.stored.gen \in Nat
    BY Zenon DEF Control, ThreadsOK, RecStates, ClassStates
  <2> QED BY <1>1, <1>2, <2>1 DEF Control, ThreadsOK, RecSteps
<1>5. Over => Over'
  BY ZenonT(30), <1>1 DEF Over, RecSteps
<1>6. PhasesOK'
  BY ZenonT(30), <1>1, <1>5 DEF Control, PhasesOK, RecSteps, Finalizing, Reconciling, Choosing
<1>7. NoneYet' /\ LaunchesOK' /\ DeletesOK' /\ CleanupOK'
  BY Zenon, <1>1 DEF Control, NoneYet, LaunchesOK, DeletesOK, CleanupOK, RecSteps, Finalizing
<1> QED BY Zenon, <1>3, <1>4, <1>5, <1>6, <1>7 DEF Control

LEMMA RecStepAlive ==
  ASSUME Control, RecSteps, Alive, MakingOK', PatchOK',
         rec'.pc = "patch" /\ rec.stored.role = NoRole => Sheltered(rec.stored.status)',
         \A p \in Names \ doomed : Named(p) =>
             (instanceProfileCache'[p] \in Roles => iam[p] = BaseOf[instanceProfileCache'[p]])
  PROVE  Alive'
<1>1. rec.pc # "idle" /\ rec'.pc # "idle"
  BY Zenon DEF RecSteps, Reconciling, Choosing
<1>2. \A p : (Named(p)' <=> Named(p)) /\ (Sheltered(p) => Sheltered(p)')
  BY Zenon DEF RecSteps, Named, Sheltered
<1>3. NamedHasRole'
  BY Zenon, <1>2 DEF Alive, NamedHasRole, RecSteps
<1>4. LagIsSheltered'
  BY Zenon, <1>1, <1>2 DEF Alive, LagIsSheltered, RecSteps
<1>5. RecreatedOK' /\ UseIsSheltered'
  BY ZenonT(30), <1>2 DEF Alive, RecreatedOK, UseIsSheltered, RecSteps
<1>6. NotCollected'
  BY Zenon, <1>2 DEF Alive, NotCollected, RecSteps
<1>7. ReadyOK'
  BY Zenon DEF Alive, ReadyOK, ReadyMeansUsable, RecSteps
<1> QED BY Zenon, <1>3, <1>4, <1>5, <1>6, <1>7 DEF Alive

\* The name that a reconciliation for spec.role goes on with.
LEMMA CurrentNameFacts ==
  ASSUME Control, rec.stored.role # NoRole
  PROVE  /\ rec.stored.role \in Roles /\ CurrentName \in Names \cup {None} /\ Named(CurrentName)
         /\ CurrentName = IF recreationCache[rec.stored.role] # None THEN recreationCache[rec.stored.role] ELSE rec.stored.status
<1>1. rec.stored.role \in Roles /\ rec.stored.status \in Names \cup {None}
  BY Zenon DEF Control, ThreadsOK, ClassStates, RecStates
<1>2. recreationCache[rec.stored.role] \in Names \cup {None}
  BY Zenon, <1>1, Values DEF Control, MapsOK
<1> QED BY Zenon, <1>1, <1>2 DEF CurrentName, Named

\* A reconciliation for spec.role chooses its name and does no more.
LEMMA ChooseStep ==
  ASSUME Control, RecSteps, del' = del, del["nodeclass"].pc = "none", rec'.pc \in {"create", "patch"},
         rec.stored.role # NoRole, rec'.status = CurrentName,
         \/ rec'.obs = rec.stored.obs
         \/ /\ rec'.pc = "patch"
            /\ Alive => CurrentName \in Names /\ (CurrentName \notin doomed => iam[CurrentName] = BaseOf[rec.stored.role]),
         Alive => \A p \in Names \ doomed : Named(p) =>
             (instanceProfileCache'[p] \in Roles => iam[p] = BaseOf[instanceProfileCache'[p]])
  PROVE  Control' /\ (Over => Over') /\ (Alive => Alive')
<1>1. CurrentName' = CurrentName /\ rec'.stored = rec.stored
  BY Zenon DEF CurrentName, RecSteps
<1>2. ChosenOK'
  BY Zenon, <1>1 DEF ChosenOK, Choosing, Making, Reconciling
<1>3. Control' /\ (Over => Over')
  BY Zenon, <1>2, RecStepControl
<1>4. ASSUME Alive PROVE Alive'
  <2>1. MakingOK'
    BY Zenon DEF MakingOK, Making
  <2>2. PatchOK'
    BY Zenon, <1>1, <1>4 DEF PatchOK, RecSteps
  <2> QED BY Zenon, <1>4, <2>1, <2>2, RecStepAlive
<1> QED BY Zenon, <1>3, <1>4

LEMMA ReconcileUnmanagedStep ==
  ASSUME Control, ReconcileUnmanaged
  PROVE  Control' /\ (Over => Over') /\ (Alive => Alive')
<1>1. /\ iam' = iam /\ roles' = roles /\ nodeClass' = nodeClass /\ seenClass' = seenClass /\ claims' = claims
      /\ seenClaims' = seenClaims /\ launch' = launch /\ instanceProfileCache' = instanceProfileCache
      /\ roleNotFoundErrorCache' = roleNotFoundErrorCache /\ recreationCache' = recreationCache /\ gc' = gc
      /\ del' = del /\ events' = events /\ doomed' = doomed
      /\ rec.pc = "reconcile" /\ rec.stored.role = NoRole
      /\ protectedProfileCache' = protectedProfileCache \cup ({rec.stored.status} \ {None})
  BY Zenon DEF ReconcileUnmanaged, iamVars, apiVars, protectProfile
<1>2. /\ del["nodeclass"].pc = "none" /\ rec \in RecStates /\ rec.stored.gen \in Nat /\ Unmanaged \in Names \cup {None}
      /\ rec.stored.status \in Names \cup {None} /\ rec.new \in Profiles \cup {None} /\ rec.todo \in SUBSET (Profiles \cup {Legacy})
      /\ "patch" \in RecPhases
  BY Zenon, <1>1, Values DEF Control, DeletesOK, ThreadsOK, ClassStates, RecStates, RecPhases, Reconciling, Choosing
<1>3. rec' \in RecStates /\ rec'.pc = "patch" /\ rec'.stored = rec.stored /\ rec'.status = Unmanaged /\ rec'.obs = rec.stored.gen
  <2>1. PICK g \in Nat : g = rec.stored.gen
    BY Zenon, <1>2
  <2>2. rec' = Reported(rec, Unmanaged, g, "patch")
    BY Zenon, <1>1, <2>1 DEF ReconcileUnmanaged, Reported
  <2> QED BY SMTT(30), <1>2, <2>1, <2>2, ReportedWrite
<1>4. RecSteps
  BY <1>1, <1>2, <1>3 DEF RecSteps, Ticks, Control, MapsOK, Reconciling, Choosing, Making
<1>5. ChosenOK'
  BY Zenon, <1>1, <1>3 DEF ChosenOK, Choosing, Making, Reconciling
<1>6. Control' /\ (Over => Over')
  BY Zenon, <1>1, <1>2, <1>3, <1>4, <1>5, RecStepControl
<1>7. ASSUME Alive PROVE Alive'
  <2>1. MakingOK' /\ PatchOK'
    BY Zenon, <1>1, <1>3 DEF MakingOK, Making, PatchOK
  <2>2. Sheltered(rec.stored.status)'
    BY Zenon, <1>1, <1>3 DEF Sheltered
  <2>3. \A p \in Names \ doomed : Named(p) =>
            (instanceProfileCache'[p] \in Roles => iam[p] = BaseOf[instanceProfileCache'[p]])
    BY Zenon, <1>1, <1>7 DEF Alive, NamedHasRole
  <2> QED BY Zenon, <1>4, <1>7, <2>1, <2>2, <2>3, RecStepAlive
<1> QED BY Zenon, <1>6, <1>7

\* What Get returns for a name in use, from its cache or from IAM.
LEMMA GetIsRight ==
  ASSUME Control, Alive, NEW p \in Names \ doomed, Named(p), GetRole(p) \in Roles
  PROVE  iam[p] = BaseOf[GetRole(p)]
<1>1. /\ iam[p] \in RoleNames
      /\ instanceProfileCache[p] \in Roles => iam[p] = BaseOf[instanceProfileCache[p]]
  BY Zenon DEF Alive, NamedHasRole
<1> QED BY Zenon, <1>1, Values, PathAssumption DEF GetRole

LEMMA ReconcileRoleStep ==
  ASSUME Control, ReconcileRole
  PROVE  Control' /\ (Over => Over') /\ (Alive => Alive')
<1>1. PICK name : name = CurrentName
  BY Zenon
<1>2. PICK kept \in BOOLEAN : kept = (GetRole(name) = rec.stored.role)
  BY ZenonT(30)
<1>3. /\ iam' = iam /\ roles' = roles /\ nodeClass' = nodeClass /\ seenClass' = seenClass /\ claims' = claims
      /\ seenClaims' = seenClaims /\ launch' = launch /\ roleNotFoundErrorCache' = roleNotFoundErrorCache
      /\ recreationCache' = recreationCache /\ gc' = gc /\ del' = del /\ events' = events /\ doomed' = doomed
      /\ rec.pc = "reconcile" /\ rec.stored.role # NoRole
      /\ protectedProfileCache' = protectedProfileCache \cup ((IF kept /\ name # rec.stored.status THEN {rec.stored.status} ELSE {}) \ {None})
      /\ instanceProfileCache' = [p \in Names |-> IF p = name THEN GetRole(name) ELSE instanceProfileCache[p]]
      /\ rec' = IF kept THEN [rec EXCEPT !.status = name, !.obs = rec.stored.gen, !.pc = "patch"]
                ELSE [rec EXCEPT !.status = name, !.pc = "create"]
  BY ZenonT(30), <1>1, <1>2 DEF ReconcileRole, iamVars, apiVars, protectProfile, GetCaches
<1>4. /\ rec.stored.role \in Roles /\ name \in Names \cup {None} /\ Named(name)
      /\ name = IF recreationCache[rec.stored.role] # None THEN recreationCache[rec.stored.role] ELSE rec.stored.status
  BY Zenon, <1>1, <1>3, CurrentNameFacts
<1>5. /\ del["nodeclass"].pc = "none" /\ rec \in RecStates /\ rec.stored.gen \in Nat /\ rec.obs \in Nat /\ rec.obs = rec.stored.obs
      /\ rec.stored.obs <= rec.stored.gen
      /\ rec.stored.status \in Names \cup {None} /\ rec.new \in Profiles \cup {None} /\ rec.todo \in SUBSET (Profiles \cup {Legacy})
      /\ "patch" \in RecPhases
      /\ "create" \in RecPhases
  BY Zenon, <1>3 DEF Control, DeletesOK, ThreadsOK, ClassStates, RecStates, RecPhases, Reconciling, Choosing, ChosenOK
<1>6. /\ rec' \in RecStates /\ rec'.stored = rec.stored /\ rec'.status = name
      /\ IF kept THEN rec'.pc = "patch" /\ rec'.obs = rec.stored.gen ELSE rec'.pc = "create" /\ rec'.obs = rec.stored.obs
  <2>1. CASE kept
    <3>1. PICK g \in Nat : g = rec.stored.gen
      BY Zenon, <1>5
    <3>2. rec' = Reported(rec, name, g, "patch")
      BY Zenon, <1>3, <2>1, <3>1 DEF Reported
    <3>3. rec' \in RecStates /\ rec'.stored = rec.stored /\ rec'.status = name /\ rec'.pc = "patch" /\ rec'.obs = g
      <4>1. name \in Names \cup {None} /\ rec \in RecStates /\ "patch" \in RecPhases
        BY Zenon, <1>4, <1>5
      <4> QED BY SMTT(30), <3>2, <4>1, ReportedWrite
    <3> QED BY Zenon, <2>1, <3>1, <3>3
  <2>2. CASE ~kept
    <3>1. rec' = Chosen(rec, name, "create")
      BY Zenon, <1>3, <2>2 DEF Chosen
    <3>2. rec' \in RecStates /\ rec'.stored = rec.stored /\ rec'.status = name /\ rec'.pc = "create" /\ rec'.obs = rec.obs
      BY <1>4, <1>5, <3>1, ChosenWrite
    <3> QED BY Zenon, <1>5, <2>2, <3>2
  <2> QED BY Zenon, <2>1, <2>2
<1>7. instanceProfileCache' \in [Names -> RoleNames \cup Roles \cup {Absent, Bare}]
  <2>1. GetRole(name) \in RoleNames \cup Roles \cup {Absent, Bare}
    BY Zenon, <1>4 DEF GetRole, Control, MapsOK
  <2> QED BY Zenon, <1>3, <2>1 DEF Control, MapsOK
<1>8. RecSteps
  <2>1. /\ protectedProfileCache \subseteq protectedProfileCache' /\ protectedProfileCache' \subseteq Names
    BY Zenon, <1>3, <1>5 DEF Control, MapsOK
  <2>2. rec.pc \in Reconciling /\ rec'.pc \in Choosing /\ rec'.pc \notin Making /\ rec'.obs <= rec.stored.gen
    BY <1>3, <1>5, <1>6 DEF Reconciling, Choosing, Making
  <2> QED BY Zenon, <1>3, <1>6, <1>7, <2>1, <2>2 DEF RecSteps, Ticks
<1>9. ASSUME Alive, kept PROVE name \in Names /\ (name \notin doomed => iam[name] = BaseOf[rec.stored.role])
  <2>1. name \in Names
    BY ZenonT(30), <1>2, <1>4, <1>9, Values DEF GetRole
  <2> QED BY ZenonT(30), <1>2, <1>4, <1>9, <2>1, GetIsRight
<1>10. ASSUME Alive, NEW p \in Names \ doomed, Named(p), instanceProfileCache'[p] \in Roles
       PROVE  iam[p] = BaseOf[instanceProfileCache'[p]]
  <2>1. CASE p = name
    BY Zenon, <1>3, <1>10, <2>1, GetIsRight
  <2>2. CASE p # name
    BY Zenon, <1>3, <1>10, <2>2 DEF Alive, NamedHasRole
  <2> QED BY Zenon, <2>1, <2>2
<1> QED BY Zenon, <1>1, <1>3, <1>5, <1>6, <1>8, <1>9, <1>10, ChooseStep

LEMMA ReconcileGetFailsStep ==
  ASSUME Control, ReconcileGetFails \/ CreateRefused
  PROVE  Control' /\ (Over => Over') /\ (Alive => Alive')
<1>1. PICK name : name = CurrentName
  BY Zenon
<1>2. /\ iam' = iam /\ roles' = roles /\ nodeClass' = nodeClass /\ seenClass' = seenClass /\ claims' = claims
      /\ seenClaims' = seenClaims /\ launch' = launch /\ instanceProfileCache' = instanceProfileCache
      /\ roleNotFoundErrorCache' = roleNotFoundErrorCache /\ protectedProfileCache' = protectedProfileCache
      /\ recreationCache' = recreationCache /\ gc' = gc /\ del' = del /\ doomed' = doomed
      /\ rec.pc \in {"reconcile", "create"} /\ Ticks
  BY Zenon DEF ReconcileGetFails, CreateRefused, iamVars, apiVars, caches, Ticks, Fault, Event
<1>3. rec.stored.role # NoRole
  BY Zenon, <1>2 DEF ReconcileGetFails, CreateRefused, Control, ChosenOK
<1>4. name \in Names \cup {None}
  BY Zenon, <1>1, <1>3, CurrentNameFacts
<1>5. /\ del["nodeclass"].pc = "none" /\ rec \in RecStates /\ rec.obs \in Nat /\ rec.obs = rec.stored.obs /\ rec.stored.obs <= rec.stored.gen
      /\ rec.new \in Profiles \cup {None} /\ rec.todo \in SUBSET (Profiles \cup {Legacy})
      /\ "patch" \in RecPhases
      /\ rec.pc = "create" => rec.status = name
  BY Zenon, <1>1, <1>2, <1>3 DEF Control, DeletesOK, ThreadsOK, RecStates, RecPhases, Reconciling, Choosing, ChosenOK
<1>6. /\ rec' \in RecStates /\ rec'.stored = rec.stored /\ rec'.status = name /\ rec'.pc = "patch" /\ rec'.obs = rec.stored.obs
  <2>1. CASE ReconcileGetFails
    <3>1. rec' = Chosen(rec, name, "patch")
      BY Zenon, <1>1, <2>1 DEF ReconcileGetFails, Chosen
    <3> QED BY Zenon, <1>4, <1>5, <3>1, ChosenWrite
  <2>2. CASE CreateRefused
    BY SMTT(30), <1>5, <2>2, StepWrite DEF CreateRefused
  <2> QED BY Zenon, <2>1, <2>2
<1>7. RecSteps
  BY Zenon, <1>2, <1>5, <1>6 DEF RecSteps, Control, MapsOK, Reconciling, Choosing, Making
<1>8. ASSUME Alive, NEW p \in Names \ doomed, Named(p), instanceProfileCache'[p] \in Roles
      PROVE  iam[p] = BaseOf[instanceProfileCache'[p]]
  BY Zenon, <1>2, <1>8 DEF Alive, NamedHasRole
<1> QED BY Zenon, <1>1, <1>2, <1>3, <1>5, <1>6, <1>7, <1>8, ChooseStep

\* IAM changes for the name of a new profile, and nothing has the name yet.
CreationSteps ==
  /\ roles' = roles /\ nodeClass' = nodeClass /\ seenClass' = seenClass /\ claims' = claims
  /\ seenClaims' = seenClaims /\ launch' = launch /\ instanceProfileCache' = instanceProfileCache
  /\ protectedProfileCache' = protectedProfileCache /\ recreationCache' = recreationCache /\ gc' = gc /\ Ticks
  /\ roleNotFoundErrorCache' \subseteq RoleNames
  /\ rec.pc \in {"create", "addrole"} /\ rec' \in RecStates /\ rec'.pc \in Making /\ rec'.stored = rec.stored
  /\ rec'.obs = rec.obs /\ rec'.status = rec.status /\ rec'.new \in Profiles
  /\ del["nodeclass"].pc = "none"
  /\ \/ del' = del /\ rec'.pc # "delete"
     \/ del' = [del EXCEPT !["nodeclass"] = [pc |-> "get", name |-> rec'.new]] /\ rec'.pc = "delete"
  /\ iam' \in [Names -> RoleNames \cup {Absent, Bare}] /\ \A q \in Names \ {rec'.new} : iam'[q] = iam[q]
  /\ \A q : q # rec'.new => (q \in doomed' <=> q \in doomed)

LEMMA CreationControl ==
  ASSUME Control, CreationSteps
  PROVE  Control' /\ (Over => Over')
<1>1. /\ rec.stored.phase = "live" /\ rec.stored.finalizer /\ rec'.pc \in Reconciling \cap Choosing /\ rec'.pc \notin Finalizing
      /\ rec'.pc # "idle" /\ rec.pc # "idle" /\ rec'.pc # "patch" /\ rec'.pc # "cleanup" /\ rec'.pc # "finalizer"
  BY Zenon DEF Control, PhasesOK, CreationSteps, Reconciling, Choosing, Finalizing, Making
<1>2. events' \in Nat /\ events \in Nat /\ events <= events' /\ events' \in 0 .. MaxEvents
  BY EventsAssumption DEF Control, MapsOK, CreationSteps, Ticks
<1>3. MapsOK'
  BY ZenonT(30), <1>2, Values DEF Control, MapsOK, CreationSteps
<1>4. del' \in [Threads -> [pc : {"none", "get", "remove", "delete"}, name : Profiles \cup {Legacy, None}]]
      /\ del'["gc"] = del["gc"] /\ (rec'.pc # "delete" => del'["nodeclass"].pc = "none")
      /\ (del'["nodeclass"].pc # "none" => del'["nodeclass"].name = rec'.new)
  <2>1. del \in [Threads -> [pc : {"none", "get", "remove", "delete"}, name : Profiles \cup {Legacy, None}]]
        /\ rec'.new \in Profiles
    BY Zenon DEF Control, ThreadsOK, CreationSteps
  <2>2. CASE del' = del /\ rec'.pc # "delete"
    BY Zenon, <2>1, <2>2 DEF CreationSteps
  <2>3. CASE del' = [del EXCEPT !["nodeclass"] = [pc |-> "get", name |-> rec'.new]] /\ rec'.pc = "delete"
    BY Zenon, <2>1, <2>3 DEF Threads
  <2> QED BY ZenonT(30), <2>2, <2>3 DEF CreationSteps
<1>5. ThreadsOK'
  <2>1. nodeClass.gen \in Nat /\ seenClass.gen \in Nat /\ rec.stored.gen \in Nat
    BY Zenon DEF Control, ThreadsOK, RecStates, ClassStates
  <2>2. \A t \in Threads : del'[t].pc # "none" => del'[t].name \in Profiles \cup {Legacy}
    BY Zenon, <1>4 DEF Control, ThreadsOK, Threads, CreationSteps
  <2> QED BY <1>1, <1>2, <1>4, <2>1, <2>2 DEF Control, ThreadsOK, CreationSteps
<1>6. Over => Over'
  BY Zenon, <1>1 DEF Over, CreationSteps
<1>7. PhasesOK'
  BY ZenonT(30), <1>1, <1>6 DEF Control, PhasesOK, CreationSteps, Finalizing, Reconciling, Choosing
<1>8. NoneYet' /\ LaunchesOK' /\ CleanupOK'
  BY ZenonT(30), <1>1 DEF Control, NoneYet, LaunchesOK, CleanupOK, CreationSteps
<1>9. DeletesOK'
  BY Zenon, <1>1, <1>4 DEF Control, DeletesOK, CreationSteps
<1>10. ChosenOK'
  <2>1. CurrentName' = CurrentName
    BY ZenonT(30) DEF CurrentName, CreationSteps
  <2>2. rec.pc \in {"create"} \cup Making /\ rec.pc \in Choosing /\ rec.pc \in Reconciling \ {"patch"}
    BY Zenon DEF CreationSteps, Making, Choosing, Reconciling
  <2> QED BY ZenonT(30), <1>1, <2>1, <2>2 DEF Control, ChosenOK, CreationSteps
<1> QED BY Zenon, <1>3, <1>5, <1>6, <1>7, <1>8, <1>9, <1>10 DEF Control

LEMMA CreationAlive ==
  ASSUME Control, CreationSteps, Alive, ~Named(rec'.new), MakingOK'
  PROVE  Alive'
<1>1. PICK n \in Profiles : n = rec'.new
  BY Zenon DEF CreationSteps
<1>2. rec.pc # "idle" /\ rec.pc # "patch" /\ rec'.pc # "idle" /\ rec'.pc # "patch" /\ rec'.stored = rec.stored
  BY Zenon DEF CreationSteps, Making
<1>3. \A p : Named(p)' <=> Named(p)
  BY ZenonT(30) DEF CreationSteps, Named
<1>4. \A p : p # n => (Sheltered(p)' <=> Sheltered(p))
  BY Zenon, <1>1 DEF CreationSteps, Sheltered
<1>5. \A p : Named(p) => (Sheltered(p)' <=> Sheltered(p)) /\ (p \in doomed' <=> p \in doomed) /\ p # n
  BY Zenon, <1>1, <1>4 DEF CreationSteps
<1>6. \A p \in Names : Named(p) => iam'[p] = iam[p]
  BY Zenon, <1>1, <1>5 DEF CreationSteps
<1>7. Named(nodeClass.status) /\ Named(seenClass.status) /\ Named(rec.stored.status)
  BY Zenon DEF Named
<1>8. NamedHasRole'
  BY ZenonT(30), <1>3, <1>5, <1>6 DEF Alive, NamedHasRole, CreationSteps
<1>9. LagIsSheltered'
  BY Zenon, <1>2, <1>5, <1>7 DEF Alive, LagIsSheltered, CreationSteps
<1>10. RecreatedOK'
  <2>1. ASSUME NEW r \in Roles, recreationCache[r] # None
        PROVE  Named(recreationCache[r]) /\ recreationCache[r] \in Names
    BY ZenonT(30), <2>1, Values DEF Named, Control, MapsOK
  <2> QED BY ZenonT(30), <1>2, <1>5, <1>6, <1>7, <2>1 DEF Alive, RecreatedOK, CreationSteps
<1>11. UseIsSheltered'
  <2>1. \A c \in Claims : Named(launch[c]) /\ Named(claims[c])
    BY ZenonT(30) DEF Named
  <2> QED BY Zenon, <1>5, <2>1 DEF Alive, UseIsSheltered, CreationSteps
<1>12. NotCollected'
  BY ZenonT(30), <1>3, <1>5 DEF Alive, NotCollected, CreationSteps
<1>13. PatchOK'
  BY Zenon, <1>2 DEF PatchOK
<1>14. ReadyOK'
  <2>1. nodeClass.gen \in Nat /\ 1 <= nodeClass.gen /\ Unmanaged \in Names
    BY ZenonT(30), Values DEF Control, ThreadsOK, ClassStates
  <2>2. nodeClass' = nodeClass
    BY Zenon DEF CreationSteps
  <2> QED BY SMTT(30), <1>5, <1>6, <1>7, <2>1, <2>2 DEF Alive, ReadyOK, ReadyMeansUsable
<1> QED BY Zenon, <1>8, <1>9, <1>10, <1>11, <1>12, <1>13, <1>14 DEF Alive

LEMMA CreateProfileStep ==
  ASSUME Control, CreateProfile
  PROVE  Control' /\ (Over => Over') /\ (Alive => Alive')
<1>1. /\ roles' = roles /\ nodeClass' = nodeClass /\ seenClass' = seenClass /\ claims' = claims
      /\ seenClaims' = seenClaims /\ launch' = launch /\ instanceProfileCache' = instanceProfileCache
      /\ roleNotFoundErrorCache' = roleNotFoundErrorCache /\ protectedProfileCache' = protectedProfileCache
      /\ recreationCache' = recreationCache /\ gc' = gc
      /\ rec.pc = "create" /\ Ticks
  BY Zenon DEF CreateProfile, apiVars, caches, Ticks, Fault, Event
<1>2. PICK p \in Profiles \ Referenced :
         /\ doomed' = doomed \ {p}
         /\ iam' = iam \/ iam' = [iam EXCEPT ![p] = Bare]
         /\ \/ rec' = [rec EXCEPT !.new = p, !.pc = "addrole"] /\ del' = del
            \/ /\ rec' = [rec EXCEPT !.new = p, !.pc = "delete"]
               /\ del' = [del EXCEPT !["nodeclass"] = [pc |-> "get", name |-> p]]
  BY ZenonT(30) DEF CreateProfile
<1>3. /\ rec \in RecStates /\ del["nodeclass"].pc = "none" /\ p \in Profiles \cup {None} /\ "addrole" \in RecPhases /\ "delete" \in RecPhases
  BY Zenon, <1>1 DEF Control, ThreadsOK, DeletesOK, RecPhases, Reconciling, Choosing
<1>4. /\ rec' \in RecStates /\ rec'.pc \in {"addrole", "delete"} /\ rec'.stored = rec.stored /\ rec'.status = rec.status /\ rec'.obs = rec.obs
      /\ rec'.new = p
      /\ \/ del' = del /\ rec'.pc # "delete"
         \/ del' = [del EXCEPT !["nodeclass"] = [pc |-> "get", name |-> p]] /\ rec'.pc = "delete"
  <2>1. CASE rec' = [rec EXCEPT !.new = p, !.pc = "addrole"] /\ del' = del
    <3>1. rec' = AtNew(rec, p, "addrole")
      BY Zenon, <2>1 DEF AtNew
    <3> QED BY <1>3, <2>1, <3>1, NewWrite
  <2>2. CASE rec' = [rec EXCEPT !.new = p, !.pc = "delete"] /\ del' = [del EXCEPT !["nodeclass"] = [pc |-> "get", name |-> p]]
    <3>1. rec' = AtNew(rec, p, "delete")
      BY Zenon, <2>2 DEF AtNew
    <3> QED BY <1>3, <2>2, <3>1, NewWrite
  <2> QED BY Zenon, <1>2, <2>1, <2>2
<1>5. /\ iam' \in [Names -> RoleNames \cup {Absent, Bare}] /\ \A q \in Names \ {p} : iam'[q] = iam[q]
  BY Zenon, <1>2, Values DEF Control, MapsOK
<1>6. CreationSteps
  <2>1. roleNotFoundErrorCache' \subseteq RoleNames
    BY Zenon, <1>1 DEF Control, MapsOK
  <2> QED BY Zenon, <1>1, <1>2, <1>3, <1>4, <1>5, <2>1 DEF CreationSteps, Making
<1>7. ASSUME Alive PROVE Alive'
  <2>1. ~Named(p) /\ ~(gc.pc = "delete" /\ gc.name = p)
    BY Zenon, <1>2, Values DEF Referenced, Named
  <2>2. Named(p)' <=> Named(p)
    BY Zenon, <1>1, <1>4 DEF Named
  <2>3. MakingOK'
    BY Zenon, <1>1, <1>4, <2>1, <2>2 DEF MakingOK, Making
  <2> QED BY Zenon, <1>4, <1>6, <1>7, <2>1, <2>3, CreationAlive
<1> QED BY Zenon, <1>6, <1>7, CreationControl

LEMMA ensureRoleStep ==
  ASSUME Control, ensureRole
  PROVE  Control' /\ (Over => Over') /\ (Alive => Alive')
<1>1. /\ roles' = roles /\ nodeClass' = nodeClass /\ seenClass' = seenClass /\ claims' = claims
      /\ seenClaims' = seenClaims /\ launch' = launch /\ instanceProfileCache' = instanceProfileCache
      /\ protectedProfileCache' = protectedProfileCache /\ recreationCache' = recreationCache /\ gc' = gc
      /\ doomed' = doomed
      /\ rec.pc = "addrole" /\ Ticks
  BY Zenon DEF ensureRole, CreateFailed, apiVars, Ticks, Fault, Event
<1>2. /\ rec \in RecStates /\ del["nodeclass"].pc = "none" /\ "created" \in RecPhases /\ "delete" \in RecPhases
      /\ rec.new \in Profiles /\ rec.stored.role \in Roles
  BY ZenonT(30), <1>1, CurrentNameFacts DEF Control, ThreadsOK, DeletesOK, ChosenOK, RecPhases, Reconciling, Choosing, Making
<1>3. PICK role \in RoleNames : role = BaseOf[rec.stored.role]
  BY Zenon, <1>2, Values
<1>4. /\ iam' = iam \/ iam' = [iam EXCEPT ![rec.new] = role]
      /\ roleNotFoundErrorCache' = roleNotFoundErrorCache \/ roleNotFoundErrorCache' = roleNotFoundErrorCache \cup {role}
      /\ \/ rec' = [rec EXCEPT !.pc = "created"] /\ del' = del /\ iam' = [iam EXCEPT ![rec.new] = role]
         \/ /\ rec' = [rec EXCEPT !.pc = "delete"]
            /\ del' = [del EXCEPT !["nodeclass"] = [pc |-> "get", name |-> rec.new]]
  BY Zenon, <1>3 DEF ensureRole, CreateFailed
<1>5. /\ rec' \in RecStates /\ rec'.pc \in {"created", "delete"} /\ rec'.stored = rec.stored /\ rec'.status = rec.status /\ rec'.obs = rec.obs
      /\ rec'.new = rec.new
      /\ \/ del' = del /\ rec'.pc # "delete" /\ iam' = [iam EXCEPT ![rec.new] = role]
         \/ del' = [del EXCEPT !["nodeclass"] = [pc |-> "get", name |-> rec.new]] /\ rec'.pc = "delete"
  <2>1. CASE rec' = [rec EXCEPT !.pc = "created"] /\ del' = del /\ iam' = [iam EXCEPT ![rec.new] = role]
    BY Zenon, <1>2, <2>1, StepWrite
  <2>2. CASE rec' = [rec EXCEPT !.pc = "delete"] /\ del' = [del EXCEPT !["nodeclass"] = [pc |-> "get", name |-> rec.new]]
    BY Zenon, <1>2, <2>2, StepWrite
  <2> QED BY Zenon, <1>4, <2>1, <2>2
<1>6. /\ iam' \in [Names -> RoleNames \cup {Absent, Bare}] /\ \A q \in Names \ {rec.new} : iam'[q] = iam[q]
  BY SMTT(30), <1>4, Values DEF Control, MapsOK
<1>7. CreationSteps
  <2>1. roleNotFoundErrorCache' \subseteq RoleNames
    BY Zenon, <1>1, <1>4 DEF Control, MapsOK
  <2>2. \/ del' = del /\ rec'.pc # "delete"
        \/ del' = [del EXCEPT !["nodeclass"] = [pc |-> "get", name |-> rec'.new]] /\ rec'.pc = "delete"
    BY Zenon, <1>5
  <2> QED BY Zenon, <1>1, <1>2, <1>5, <1>6, <2>1, <2>2 DEF CreationSteps, Making
<1>8. ASSUME Alive PROVE Alive'
  <2>1. ~Named(rec.new) /\ (gc.pc = "delete" /\ gc.name = rec.new => rec.new \in doomed)
    BY Zenon, <1>1, <1>8 DEF Alive, MakingOK, Making
  <2>2. Named(rec.new)' <=> Named(rec.new)
    BY Zenon, <1>1, <1>5 DEF Named
  <2>3. rec'.pc = "created" => iam'[rec.new] = BaseOf[rec.stored.role]
    BY Zenon, <1>2, <1>3, <1>5, Values DEF Control, MapsOK
  <2>4. MakingOK'
    BY ZenonT(30), <1>1, <1>5, <2>1, <2>2, <2>3 DEF MakingOK, Making
  <2> QED BY Zenon, <1>5, <1>7, <1>8, <2>1, <2>4, CreationAlive
<1> QED BY Zenon, <1>7, <1>8, CreationControl

LEMMA ReconcileCreatedStep ==
  ASSUME Control, ReconcileCreated
  PROVE  Control' /\ (Over => Over') /\ (Alive => Alive')
<1>1. /\ iam' = iam /\ roles' = roles /\ nodeClass' = nodeClass /\ seenClass' = seenClass /\ claims' = claims
      /\ seenClaims' = seenClaims /\ launch' = launch /\ roleNotFoundErrorCache' = roleNotFoundErrorCache
      /\ gc' = gc /\ del' = del /\ events' = events /\ doomed' = doomed
      /\ rec.pc = "created"
  BY Zenon DEF ReconcileCreated, iamVars, apiVars
<1>2. /\ rec \in RecStates /\ del["nodeclass"].pc = "none" /\ "patch" \in RecPhases /\ rec.stored.role \in Roles
      /\ rec.stored.role # NoRole /\ rec.stored.phase = "live" /\ rec.stored.finalizer
  BY ZenonT(30), <1>1, CurrentNameFacts DEF Control, ThreadsOK, DeletesOK, ChosenOK, PhasesOK, RecPhases, Reconciling, Choosing, Making
<1>3. rec.new \in Profiles /\ rec.stored.status \in Names \cup {None} /\ rec.stored.gen \in Nat
  BY Zenon, <1>1 DEF Control, ThreadsOK, RecStates, ClassStates, Making
<1>4. PICK n \in Profiles, role \in Roles, old \in Names \cup {None}, g \in Nat :
         n = rec.new /\ role = rec.stored.role /\ old = rec.stored.status /\ g = rec.stored.gen
  BY Zenon, <1>2, <1>3
<1>5. n \in Names \cup {None} /\ n \in Names /\ n # None
  BY Zenon, Values
<1>6. /\ instanceProfileCache' = [instanceProfileCache EXCEPT ![n] = role]
      /\ recreationCache' = [recreationCache EXCEPT ![role] = n]
      /\ protectedProfileCache' = protectedProfileCache \cup ({n, old} \ {None})
  BY Zenon, <1>4 DEF ReconcileCreated, protectProfile
<1>7. rec' \in RecStates /\ rec'.pc = "patch" /\ rec'.stored = rec.stored /\ rec'.status = n /\ rec'.obs = g
  <2>1. rec' = Reported(rec, n, g, "patch")
    BY Zenon, <1>4 DEF ReconcileCreated, Reported
  <2> QED BY <1>2, <1>5, <2>1, ReportedWrite
<1>8. /\ recreationCache'[role] = n /\ \A r \in Roles \ {role} : recreationCache'[r] = recreationCache[r]
      /\ instanceProfileCache'[n] = role /\ \A p \in Names \ {n} : instanceProfileCache'[p] = instanceProfileCache[p]
      /\ recreationCache' \in [Roles -> Profiles \cup {None}]
      /\ instanceProfileCache' \in [Names -> RoleNames \cup Roles \cup {Absent, Bare}]
      /\ protectedProfileCache' \subseteq Names
  BY Zenon, <1>5, <1>6 DEF Control, MapsOK
<1>9. MapsOK'
  BY Zenon, <1>1, <1>8 DEF Control, MapsOK
<1>10. ThreadsOK'
  BY SMTT(30), <1>1, <1>4, <1>7 DEF Control, ThreadsOK, Making
<1>11. Over => Over'
  BY ZenonT(30), <1>1, <1>2, <1>7 DEF Over
<1>12. PhasesOK'
  BY Zenon, <1>1, <1>2, <1>7, <1>11 DEF Control, PhasesOK, Finalizing, Reconciling, Choosing
<1>13. NoneYet' /\ LaunchesOK' /\ DeletesOK' /\ CleanupOK'
  BY ZenonT(30), <1>1, <1>2, <1>7 DEF Control, NoneYet, LaunchesOK, DeletesOK, CleanupOK
<1>14. ChosenOK'
  <2>1. CurrentName' = n
    BY Zenon, <1>4, <1>5, <1>7, <1>8 DEF CurrentName
  <2> QED BY Zenon, <1>2, <1>7, <2>1 DEF ChosenOK, Making, Reconciling
<1>15. ASSUME Alive PROVE Alive'
  <2>1. \A p : Named(p)' => Named(p) \/ p = n
    BY ZenonT(30), <1>1, <1>7, <1>8 DEF Named
  <2>2. /\ \A p : Sheltered(p) => Sheltered(p)'
        /\ \A p : p \in {n, old} => Sheltered(p)'
    BY Zenon, <1>1, <1>6 DEF Sheltered
  <2>3. /\ ~Named(n) /\ (gc.pc = "delete" /\ gc.name = n => n \in doomed)
        /\ n \notin doomed => iam[n] = BaseOf[role]
    BY Zenon, <1>1, <1>4, <1>15 DEF Alive, MakingOK, Making
  <2>4. BaseOf[role] \in RoleNames
    BY Zenon, Values
  <2>5. NamedHasRole'
    <3>1. ASSUME NEW p \in Names \ doomed, Named(p)'
          PROVE  iam[p] \in RoleNames /\ (instanceProfileCache'[p] \in Roles => iam[p] = BaseOf[instanceProfileCache'[p]])
      <4>1. CASE p = n
        BY Zenon, <1>8, <2>3, <2>4, <3>1, <4>1
      <4>2. CASE p # n
        BY Zenon, <1>8, <1>15, <2>1, <3>1, <4>2 DEF Alive, NamedHasRole
      <4> QED BY Zenon, <4>1, <4>2
    <3> QED BY Zenon, <1>1, <3>1 DEF NamedHasRole
  <2>6. LagIsSheltered'
    BY Zenon, <1>1, <1>2, <1>7, <1>15, <2>2 DEF Alive, LagIsSheltered
  <2>7. RecreatedOK'
    <3>1. Sheltered(nodeClass.status)' /\ Sheltered(seenClass.status)' /\ Sheltered(rec.stored.status)'
      <4>1. /\ nodeClass.status # old => Sheltered(nodeClass.status)
            /\ nodeClass.status # seenClass.status => Sheltered(seenClass.status)
        BY Zenon, <1>1, <1>4, <1>15 DEF Alive, LagIsSheltered
      <4> QED BY Zenon, <1>1, <1>4, <1>7, <2>2, <4>1
    <3>2. ASSUME NEW r \in Roles, recreationCache'[r] # None
          PROVE  Sheltered(recreationCache[r])' /\ (recreationCache'[r] \notin doomed => iam[recreationCache'[r]] = BaseOf[r])
      <4>1. CASE r = role
        BY Zenon, <1>8, <2>2, <2>3, <4>1
      <4>2. CASE r # role
        BY Zenon, <1>8, <1>15, <2>2, <3>2, <4>2 DEF Alive, RecreatedOK
      <4> QED BY Zenon, <4>1, <4>2
    <3> QED BY Zenon, <1>1, <3>1, <3>2 DEF RecreatedOK
  <2>8. UseIsSheltered'
    BY Zenon, <1>1, <1>15, <2>2 DEF Alive, UseIsSheltered
  <2>9. NotCollected'
    BY Zenon, <1>1, <1>15, <2>1, <2>2, <2>3 DEF Alive, NotCollected
  <2>10. MakingOK'
    BY Zenon, <1>7 DEF MakingOK, Making
  <2>11. PatchOK'
    BY ZenonT(30), <1>1, <1>4, <1>5, <1>7, <2>3 DEF PatchOK
  <2>12. ReadyOK'
    BY Zenon, <1>1, <1>15 DEF Alive, ReadyOK, ReadyMeansUsable
  <2> QED BY Zenon, <2>5, <2>6, <2>7, <2>8, <2>9, <2>10, <2>11, <2>12 DEF Alive
<1> QED BY Zenon, <1>9, <1>10, <1>11, <1>12, <1>13, <1>14, <1>15 DEF Control

LEMMA StatusPatchStep ==
  ASSUME Control, StatusPatch
  PROVE  Control' /\ (Over => Over') /\ (Alive => Alive')
<1>1. /\ iam' = iam /\ roles' = roles /\ seenClass' = seenClass /\ claims' = claims /\ seenClaims' = seenClaims
      /\ launch' = launch /\ instanceProfileCache' = instanceProfileCache
      /\ roleNotFoundErrorCache' = roleNotFoundErrorCache /\ protectedProfileCache' = protectedProfileCache
      /\ recreationCache' = recreationCache /\ gc' = gc /\ del' = del /\ doomed' = doomed
      /\ rec.pc = "patch" /\ rec' = Idle
  BY Zenon DEF StatusPatch, iamVars, caches
<1>2. del["nodeclass"].pc = "none"
  BY Zenon, <1>1 DEF Control, DeletesOK
<1>3. CASE nodeClass' = nodeClass /\ Ticks
  BY Zenon, <1>1, <1>2, <1>3, GiveUp
<1>4. CASE /\ nodeClass = rec.stored /\ events' = events
           /\ nodeClass' = [rec.stored EXCEPT !.status = rec.status, !.obs = rec.obs]
  <2>1. /\ rec'.pc = "idle" /\ rec'.stored.status = None /\ rec'.stored.phase = "live"
        /\ rec' \in RecStates /\ rec'.stored.gen = 1 /\ rec'.stored.obs = 0 /\ rec'.obs = 0
    BY Zenon, <1>1, IdleFacts
  <2>2. /\ nodeClass \in ClassStates /\ nodeClass.phase = "live" /\ nodeClass.finalizer /\ nodeClass.gen \in Nat /\ nodeClass.obs \in Nat
        /\ rec.obs <= nodeClass.gen /\ rec.status \in Names \cup {None} /\ rec.obs \in Nat
    BY Zenon, <1>1, <1>4 DEF Control, ThreadsOK, PhasesOK, ClassStates, RecStates, Reconciling, Choosing
  <2>3. PICK new \in Names \cup {None}, o \in Nat : new = rec.status /\ o = rec.obs
    BY Zenon, <2>2
  <2>4. /\ nodeClass' \in ClassStates /\ nodeClass'.phase = "live" /\ nodeClass'.finalizer /\ nodeClass'.role = nodeClass.role
        /\ nodeClass'.gen = nodeClass.gen /\ nodeClass'.status = new /\ nodeClass'.obs = o
    <3>1. nodeClass' = WithStatus(nodeClass, new, o)
      BY Zenon, <1>4, <2>3 DEF WithStatus
    <3>2. /\ nodeClass' \in ClassStates /\ nodeClass'.phase = nodeClass.phase /\ nodeClass'.finalizer = nodeClass.finalizer
          /\ nodeClass'.role = nodeClass.role /\ nodeClass'.gen = nodeClass.gen /\ nodeClass'.status = new /\ nodeClass'.obs = o
      <4>1. nodeClass \in ClassStates
        BY Zenon, <2>2
      <4> QED BY <3>1, <4>1, StatusWrite
    <3> QED BY Zenon, <2>2, <3>2
  <2>5. \/ nodeClass.role = NoRole /\ new = Unmanaged
        \/ /\ nodeClass.role \in Roles /\ nodeClass.role # NoRole
           /\ \/ recreationCache[nodeClass.role] = None /\ new = nodeClass.status
              \/ recreationCache[nodeClass.role] # None /\ new = recreationCache[nodeClass.role] /\ new \in Profiles
    <3>1. CASE rec.stored.role = NoRole
      BY Zenon, <1>1, <1>4, <2>3, <3>1 DEF Control, ChosenOK
    <3>2. CASE rec.stored.role # NoRole
      <4>1. new = CurrentName
        BY Zenon, <1>1, <2>3, <3>2 DEF Control, ChosenOK, Choosing
      <4> QED BY Zenon, <1>4, <3>2, <4>1, CurrentNameFacts DEF Control, MapsOK
    <3> QED BY Zenon, <3>1, <3>2
  <2>6. MapsOK'
    BY Zenon, <1>1, <1>4 DEF Control, MapsOK
  <2>7. ThreadsOK'
    <3>1. \A n \in {nodeClass', seenClass', rec'.stored} : 1 <= n.gen /\ n.gen <= events' + 1 /\ n.obs <= n.gen
      <4>1. 1 <= nodeClass'.gen /\ nodeClass'.gen <= events' + 1 /\ nodeClass'.obs <= nodeClass'.gen
        BY Zenon, <1>4, <2>2, <2>3, <2>4 DEF Control, ThreadsOK
      <4>2. 1 <= seenClass'.gen /\ seenClass'.gen <= events' + 1 /\ seenClass'.obs <= seenClass'.gen /\ events \in Nat
        BY <1>1, <1>4 DEF Control, ThreadsOK, MapsOK
      <4>3. 1 <= rec'.stored.gen /\ rec'.stored.gen <= events' + 1 /\ rec'.stored.obs <= rec'.stored.gen
        BY <1>4, <2>1, <4>2
      <4> QED BY Zenon, <4>1, <4>2, <4>3
    <3> QED BY ZenonT(30), <1>1, <2>1, <2>4, <3>1 DEF Control, ThreadsOK, Making
  <2>8. ~Over
    BY Zenon, <2>2 DEF Over
  <2>9. PhasesOK'
    <3>1. seenClass.phase = "live"
      BY Zenon, <2>2 DEF Control, PhasesOK
    <3> QED BY Zenon, <1>1, <2>1, <2>4, <3>1 DEF PhasesOK, Finalizing, Reconciling, Choosing
  <2>10. NoneYet'
    BY ZenonT(30), <1>1, <2>1, <2>4, <2>5, Values DEF Control, NoneYet
  <2>11. LaunchesOK' /\ DeletesOK' /\ CleanupOK' /\ ChosenOK'
    BY ZenonT(30), <1>1, <1>2, <2>1 DEF Control, LaunchesOK, DeletesOK, CleanupOK, ChosenOK, Making, Choosing, Reconciling
  <2>12. ASSUME Alive PROVE Alive'
    <3>1. \A p : Named(p)' => Named(p) \/ p = None
      <4>1. Named(new)
        BY Zenon, <2>5 DEF Named
      <4> QED BY Zenon, <1>1, <2>1, <2>4, <4>1 DEF Named
    <3>2. /\ \A p : Sheltered(p)' <=> Sheltered(p)
          /\ Sheltered(None) /\ Sheltered(Unmanaged)
      BY Zenon, <1>1 DEF Sheltered
    <3>3. NamedHasRole'
      BY ZenonT(30), <1>1, <2>12, <3>1, Values DEF Alive, NamedHasRole
    <3>4. /\ nodeClass.status # seenClass.status => Sheltered(nodeClass.status) /\ Sheltered(seenClass.status)
          /\ nodeClass.role = NoRole => Sheltered(nodeClass.status)
          /\ \A r \in Roles : recreationCache[r] # None =>
                /\ Sheltered(recreationCache[r]) /\ Sheltered(nodeClass.status) /\ Sheltered(seenClass.status)
                /\ recreationCache[r] \notin doomed => iam[recreationCache[r]] = BaseOf[r]
      BY Zenon, <1>1, <1>4, <2>12 DEF Alive, LagIsSheltered, RecreatedOK
    <3>5. new # seenClass.status => Sheltered(new) /\ Sheltered(seenClass.status)
      BY Zenon, <2>5, <3>2, <3>4
    <3>6. LagIsSheltered'
      BY Zenon, <1>1, <2>1, <2>4, <3>2, <3>5 DEF LagIsSheltered
    <3>7. RecreatedOK'
      <4>1. ASSUME NEW r \in Roles, recreationCache[r] # None PROVE Sheltered(new)
        BY ZenonT(30), <2>5, <3>2, <3>4, <4>1
      <4> QED BY ZenonT(30), <1>1, <2>1, <2>4, <3>2, <3>4, <4>1 DEF RecreatedOK
    <3>8. UseIsSheltered'
      BY ZenonT(30), <1>1, <2>12, <3>2 DEF Alive, UseIsSheltered
    <3>9. NotCollected'
      <4>1. gc.pc # "idle" => gc.name # None
        BY Zenon, Values DEF Control, ThreadsOK
      <4> QED BY Zenon, <1>1, <2>12, <3>1, <3>2, <4>1 DEF Alive, NotCollected
    <3>10. MakingOK' /\ PatchOK'
      BY Zenon, <2>1 DEF MakingOK, Making, PatchOK
    <3>11. ReadyOK'
      <4>1. \/ nodeClass.role = NoRole
            \/ o = nodeClass.obs
            \/ new \in Names /\ (new \notin doomed => iam[new] = BaseOf[nodeClass.role])
        BY Zenon, <1>1, <1>4, <2>3, <2>12 DEF Alive, PatchOK
      <4>2. /\ nodeClass.obs # 0 => nodeClass.status \in Names
            /\ nodeClass.obs = nodeClass.gen /\ nodeClass.status \notin doomed /\ nodeClass.role # NoRole =>
                  iam[nodeClass.status] = BaseOf[nodeClass.role]
        BY Zenon, <2>2, <2>12 DEF Alive, ReadyOK, ReadyMeansUsable
      <4>3. o # 0 => new \in Names
        BY Zenon, <2>5, <4>1, <4>2, Values
      <4>4. o = nodeClass.gen /\ new \notin doomed /\ nodeClass.role # NoRole => iam[new] = BaseOf[nodeClass.role]
        BY Zenon, <2>5, <3>4, <4>1, <4>2
      <4> QED BY Zenon, <1>1, <2>4, <2>5, <4>3, <4>4 DEF ReadyOK, ReadyMeansUsable
    <3> QED BY Zenon, <3>3, <3>6, <3>7, <3>8, <3>9, <3>10, <3>11 DEF Alive
  <2> QED BY Zenon, <2>6, <2>7, <2>8, <2>9, <2>10, <2>11, <2>12 DEF Control
<1>5. \/ nodeClass' = nodeClass /\ Ticks
      \/ /\ nodeClass = rec.stored /\ events' = events
         /\ nodeClass' = [rec.stored EXCEPT !.status = rec.status, !.obs = rec.obs]
  BY Zenon DEF StatusPatch, Fault, Event, Ticks
<1> QED BY Zenon, <1>3, <1>4, <1>5

-----------------------------------------------------------------------------
(* Delete *)

DelStates == [pc : {"none", "get", "remove", "delete"}, name : Profiles \cup {Legacy, None}]

\* A call of Delete goes on, or returns.
Returned(t, d) ==
  \/ t = "gc" /\ rec' = rec /\ gc' = GCIdle
  \/ /\ t = "nodeclass" /\ gc' = gc
     /\ \/ rec.pc = "delete" /\ rec' = [rec EXCEPT !.pc = "patch"]
        \/ rec.pc # "delete" /\ rec' = [rec EXCEPT !.todo = @ \ {d}] /\ iam'[d] = Absent
        \/ rec.pc # "delete" /\ rec' = Idle

DeleteSteps(t, d) ==
  /\ roles' = roles /\ nodeClass' = nodeClass /\ seenClass' = seenClass /\ claims' = claims
  /\ seenClaims' = seenClaims /\ launch' = launch /\ roleNotFoundErrorCache' = roleNotFoundErrorCache
  /\ recreationCache' = recreationCache /\ doomed' = doomed /\ Ticks
  /\ d = del[t].name /\ del[t].pc # "none"
  /\ iam' \in [Names -> RoleNames \cup {Absent, Bare}] /\ \A q \in Names \ {d} : iam'[q] = iam[q]
  /\ iam[d] = Absent => iam'[d] = Absent
  /\ instanceProfileCache' \in [Names -> RoleNames \cup Roles \cup {Absent, Bare}]
  /\ \A q \in Names \ {d} : instanceProfileCache'[q] = instanceProfileCache[q]
  /\ protectedProfileCache \ {d} \subseteq protectedProfileCache' /\ protectedProfileCache' \subseteq protectedProfileCache
  /\ del' \in [Threads -> DelStates] /\ \A u \in Threads \ {t} : del'[u] = del[u]
  /\ \/ del'[t].pc # "none" /\ del'[t].name = d /\ rec' = rec /\ gc' = gc
     \/ del'[t].pc = "none" /\ Returned(t, d)

LEMMA DeleteReturns ==
  ASSUME Control, NEW t \in Threads, NEW ok \in BOOLEAN, Returns(t, ok), ok => iam'[del[t].name] = Absent
  PROVE  /\ del' \in [Threads -> DelStates] /\ \A u \in Threads \ {t} : del'[u] = del[u]
         /\ del'[t].pc = "none" /\ Returned(t, del[t].name)
<1>1. del \in [Threads -> DelStates] /\ NoDelete \in DelStates /\ NoDelete.pc = "none"
  BY Zenon DEF Control, ThreadsOK, DelStates, NoDelete
<1>2. del' \in [Threads -> DelStates] /\ (\A u \in Threads \ {t} : del'[u] = del[u]) /\ del'[t].pc = "none"
  BY Zenon, <1>1 DEF Returns
<1>3. Returned(t, del[t].name)
  <2>1. CASE t = "gc"
    BY Zenon, <2>1 DEF Returns, Returned
  <2>2. CASE t = "nodeclass"
    <3>1. CASE rec.pc = "delete"
      BY Zenon, <2>2, <3>1 DEF Returns, Returned
    <3>2. CASE rec.pc # "delete" /\ ok
      BY Zenon, <2>2, <3>2 DEF Returns, Returned
    <3>3. CASE rec.pc # "delete" /\ ~ok
      BY Zenon, <2>2, <3>3 DEF Returns, Returned
    <3> QED BY Zenon, <3>1, <3>2, <3>3
  <2> QED BY Zenon, <2>1, <2>2 DEF Threads
<1> QED BY Zenon, <1>2, <1>3

LEMMA DeleteGoesOn ==
  ASSUME Control, NEW t \in Threads, NEW k \in {"remove", "delete"}, del' = [del EXCEPT ![t].pc = k]
  PROVE  /\ del' \in [Threads -> DelStates] /\ \A u \in Threads \ {t} : del'[u] = del[u]
         /\ del'[t].pc = k /\ del'[t].name = del[t].name
<1>1. del \in [Threads -> DelStates]
  BY Zenon DEF Control, ThreadsOK, DelStates
<1>2. PICK x \in DelStates : x = del[t]
  BY Zenon, <1>1
<1>3. PICK y : y = [x EXCEPT !.pc = k]
  BY ZenonT(30)
<1>4. y \in DelStates /\ y.pc = k /\ y.name = x.name
  BY Zenon, <1>3 DEF DelStates
<1>5. del' = [del EXCEPT ![t] = y]
  BY Zenon, <1>2, <1>3
<1> QED BY Zenon, <1>1, <1>2, <1>4, <1>5

LEMMA DeleteGetStep ==
  ASSUME Control, NEW t \in Threads, DeleteGet(t)
  PROVE  DeleteSteps(t, del[t].name)
<1>1. /\ iam' = iam /\ roles' = roles /\ nodeClass' = nodeClass /\ seenClass' = seenClass /\ claims' = claims
      /\ seenClaims' = seenClaims /\ launch' = launch /\ instanceProfileCache' = instanceProfileCache
      /\ roleNotFoundErrorCache' = roleNotFoundErrorCache /\ protectedProfileCache' = protectedProfileCache
      /\ recreationCache' = recreationCache /\ doomed' = doomed
      /\ Ticks /\ del[t].pc # "none"
  BY ZenonT(30) DEF DeleteGet, iamVars, apiVars, caches, Ticks, Fault, Event
<1>2. PICK d : d = del[t].name
  BY Zenon
<1>3. /\ del' \in [Threads -> DelStates] /\ \A u \in Threads \ {t} : del'[u] = del[u]
      /\ \/ del'[t].pc # "none" /\ del'[t].name = d /\ rec' = rec /\ gc' = gc
         \/ del'[t].pc = "none" /\ Returned(t, d)
  <2>1. CASE iam[del[t].name] = Absent /\ Returns(t, TRUE)
    BY ZenonT(30), <1>1, <1>2, <2>1, DeleteReturns
  <2>2. CASE del' = [del EXCEPT ![t].pc = IF iam[del[t].name] = Bare THEN "delete" ELSE "remove"] /\ rec' = rec /\ gc' = gc
    <3>1. PICK k \in {"remove", "delete"} : k = IF iam[del[t].name] = Bare THEN "delete" ELSE "remove"
      BY Zenon
    <3>2. del' = [del EXCEPT ![t].pc = k]
      BY Zenon, <2>2, <3>1
    <3> QED BY ZenonT(30), <1>2, <2>2, <3>2, DeleteGoesOn
  <2>3. CASE Returns(t, FALSE)
    BY ZenonT(30), <1>2, <2>3, DeleteReturns
  <2> QED BY ZenonT(30), <2>1, <2>2, <2>3 DEF DeleteGet
<1>4. DeleteSteps(t, d)
  BY ZenonT(30), <1>1, <1>2, <1>3 DEF DeleteSteps, Control, MapsOK
<1> QED BY Zenon, <1>2, <1>4

LEMMA DeleteRemoveRoleStep ==
  ASSUME Control, NEW t \in Threads, DeleteRemoveRole(t)
  PROVE  DeleteSteps(t, del[t].name)
<1>1. /\ roles' = roles /\ nodeClass' = nodeClass /\ seenClass' = seenClass /\ claims' = claims
      /\ seenClaims' = seenClaims /\ launch' = launch /\ instanceProfileCache' = instanceProfileCache
      /\ roleNotFoundErrorCache' = roleNotFoundErrorCache /\ protectedProfileCache' = protectedProfileCache
      /\ recreationCache' = recreationCache /\ doomed' = doomed
      /\ Ticks /\ del[t].pc # "none"
  BY ZenonT(30) DEF DeleteRemoveRole, apiVars, caches, Ticks, Fault, Event
<1>2. PICK d : d = del[t].name
  BY Zenon
<1>3. iam' = iam \/ (iam[d] \in RoleNames /\ iam' = [iam EXCEPT ![d] = Bare])
  BY ZenonT(30), <1>2 DEF DeleteRemoveRole
<1>4. /\ iam' \in [Names -> RoleNames \cup {Absent, Bare}] /\ \A q \in Names \ {d} : iam'[q] = iam[q]
      /\ iam[d] = Absent => iam'[d] = Absent
  BY ZenonT(30), <1>3, Values DEF Control, MapsOK
<1>5. /\ del' \in [Threads -> DelStates] /\ \A u \in Threads \ {t} : del'[u] = del[u]
      /\ \/ del'[t].pc # "none" /\ del'[t].name = d /\ rec' = rec /\ gc' = gc
         \/ del'[t].pc = "none" /\ Returned(t, d)
  <2>1. CASE del' = [del EXCEPT ![t].pc = "delete"] /\ rec' = rec /\ gc' = gc
    BY ZenonT(30), <1>2, <2>1, DeleteGoesOn
  <2>2. CASE Returns(t, FALSE)
    BY ZenonT(30), <1>2, <2>2, DeleteReturns
  <2> QED BY ZenonT(30), <2>1, <2>2 DEF DeleteRemoveRole
<1>6. DeleteSteps(t, d)
  BY ZenonT(30), <1>1, <1>2, <1>4, <1>5 DEF DeleteSteps, Control, MapsOK
<1> QED BY Zenon, <1>2, <1>6

LEMMA DeleteProfileStep ==
  ASSUME Control, NEW t \in Threads, DeleteProfile(t)
  PROVE  DeleteSteps(t, del[t].name)
<1>1. /\ roles' = roles /\ nodeClass' = nodeClass /\ seenClass' = seenClass /\ claims' = claims
      /\ seenClaims' = seenClaims /\ launch' = launch /\ roleNotFoundErrorCache' = roleNotFoundErrorCache
      /\ recreationCache' = recreationCache /\ doomed' = doomed
      /\ Ticks /\ del[t].pc # "none"
  BY ZenonT(30) DEF DeleteProfile, apiVars, Ticks, Fault, Event
<1>2. PICK d : d = del[t].name
  BY Zenon
<1>3. d \in Names
  BY Zenon, <1>1, <1>2, Values DEF Control, ThreadsOK
<1>4. /\ iam' = iam \/ iam' = [iam EXCEPT ![d] = Absent]
      /\ instanceProfileCache' = instanceProfileCache \/ instanceProfileCache' = [instanceProfileCache EXCEPT ![d] = Absent]
      /\ protectedProfileCache' = protectedProfileCache \/ protectedProfileCache' = protectedProfileCache \ {d}
      /\ \/ iam' = [iam EXCEPT ![d] = Absent] /\ Returns(t, TRUE)
         \/ iam' = iam /\ Returns(t, iam[d] = Absent)
         \/ Returns(t, FALSE)
  BY ZenonT(30), <1>2 DEF DeleteProfile
<1>5. /\ iam' \in [Names -> RoleNames \cup {Absent, Bare}] /\ \A q \in Names \ {d} : iam'[q] = iam[q]
      /\ iam[d] = Absent => iam'[d] = Absent
      /\ iam' = [iam EXCEPT ![d] = Absent] => iam'[d] = Absent
  BY Zenon, <1>3, <1>4 DEF Control, MapsOK
<1>6. /\ instanceProfileCache' \in [Names -> RoleNames \cup Roles \cup {Absent, Bare}]
      /\ \A q \in Names \ {d} : instanceProfileCache'[q] = instanceProfileCache[q]
  BY Zenon, <1>3, <1>4 DEF Control, MapsOK
<1>7. /\ del' \in [Threads -> DelStates] /\ \A u \in Threads \ {t} : del'[u] = del[u]
      /\ del'[t].pc = "none" /\ Returned(t, d)
  <2>1. CASE iam' = [iam EXCEPT ![d] = Absent] /\ Returns(t, TRUE)
    BY ZenonT(30), <1>2, <1>5, <2>1, DeleteReturns
  <2>2. CASE iam' = iam /\ Returns(t, iam[d] = Absent)
    <3>1. PICK ok \in BOOLEAN : ok = (iam[d] = Absent)
      BY ZenonT(30)
    <3>2. Returns(t, ok)
      BY Zenon, <2>2, <3>1
    <3>3. ok => iam'[d] = Absent
      BY ZenonT(30), <2>2, <3>1
    <3> QED BY Zenon, <1>2, <3>2, <3>3, DeleteReturns
  <2>3. CASE Returns(t, FALSE)
    BY ZenonT(30), <1>2, <2>3, DeleteReturns
  <2> QED BY ZenonT(30), <1>4, <2>1, <2>2, <2>3
<1>8. DeleteSteps(t, d)
  BY ZenonT(30), <1>1, <1>2, <1>4, <1>5, <1>6, <1>7 DEF DeleteSteps
<1> QED BY Zenon, <1>2, <1>8

\* What a call of Delete leaves of the reconciliation.
LEMMA DeleteRec ==
  ASSUME Control, NEW t \in Threads, NEW d, DeleteSteps(t, d)
  PROVE  /\ rec' \in RecStates /\ d \in Profiles \cup {Legacy}
         /\ \/ rec' = rec
            \/ rec' = Idle /\ t = "nodeclass" /\ rec.pc = "cleanup" /\ rec'.pc = "idle" /\ rec'.stored.status = None
               /\ rec'.stored.phase = "live" /\ rec'.stored.gen = 1 /\ rec'.stored.obs = 0 /\ rec'.obs = 0
            \/ /\ t = "nodeclass" /\ rec'.stored = rec.stored /\ rec'.obs = rec.obs /\ rec'.status = rec.status /\ rec'.new = rec.new
               /\ \/ rec.pc = "delete" /\ rec'.pc = "patch" /\ rec'.todo = rec.todo
                  \/ rec.pc = "cleanup" /\ rec'.pc = "cleanup" /\ rec'.todo = rec.todo \ {d} /\ iam'[d] = Absent
         /\ t = "gc" => rec' = rec
<1>1. rec \in RecStates /\ d \in Profiles \cup {Legacy} /\ "patch" \in RecPhases /\ rec.todo \in SUBSET (Profiles \cup {Legacy})
  BY ZenonT(30) DEF DeleteSteps, Control, ThreadsOK, RecPhases, Reconciling, Choosing, RecStates
<1>2. t = "nodeclass" => rec.pc \in {"delete", "cleanup"}
  BY Zenon DEF DeleteSteps, Control, DeletesOK
<1>3. CASE rec' = rec
  BY Zenon, <1>1, <1>3
<1>4. CASE rec' = Idle /\ t = "nodeclass" /\ rec.pc # "delete"
  BY Zenon, <1>1, <1>2, <1>4, IdleFacts
<1>5. CASE rec.pc = "delete" /\ rec' = [rec EXCEPT !.pc = "patch"] /\ t = "nodeclass"
  BY Zenon, <1>1, <1>5, StepWrite
<1>6. CASE rec.pc # "delete" /\ rec' = [rec EXCEPT !.todo = @ \ {d}] /\ iam'[d] = Absent /\ t = "nodeclass"
  <2>1. PICK td \in SUBSET (Profiles \cup {Legacy}) : td = rec.todo \ {d}
    BY ZenonT(30), <1>1
  <2>2. rec' = [rec EXCEPT !.todo = td]
    BY Zenon, <1>6, <2>1
  <2>3. rec' \in RecStates /\ rec'.stored = rec.stored /\ rec'.obs = rec.obs /\ rec'.status = rec.status /\ rec'.new = rec.new
        /\ rec'.pc = rec.pc /\ rec'.todo = td
    BY Zenon, <1>1, <2>2 DEF RecStates
  <2> QED BY Zenon, <1>1, <1>2, <1>6, <2>1, <2>3
<1>7. /\ \/ rec' = rec \/ (rec' = Idle /\ t = "nodeclass" /\ rec.pc # "delete")
         \/ (rec.pc = "delete" /\ rec' = [rec EXCEPT !.pc = "patch"] /\ t = "nodeclass")
         \/ (rec.pc # "delete" /\ rec' = [rec EXCEPT !.todo = @ \ {d}] /\ iam'[d] = Absent /\ t = "nodeclass")
      /\ t = "gc" => rec' = rec
  BY Zenon DEF DeleteSteps, Returned
<1> QED BY Zenon, <1>3, <1>4, <1>5, <1>6, <1>7

LEMMA DeleteControl ==
  ASSUME Control, NEW t \in Threads, NEW d, DeleteSteps(t, d)
  PROVE  Control' /\ (Over => Over')
<1>1. /\ rec' \in RecStates /\ d \in Profiles \cup {Legacy}
      /\ \/ rec' = rec
         \/ rec.pc = "cleanup" /\ rec'.pc = "idle" /\ rec' = Idle /\ rec'.stored.status = None
            /\ rec'.stored.phase = "live" /\ rec'.stored.gen = 1 /\ rec'.stored.obs = 0 /\ rec'.obs = 0
         \/ /\ rec'.stored = rec.stored /\ rec'.obs = rec.obs /\ rec'.status = rec.status
            /\ \/ rec.pc = "delete" /\ rec'.pc = "patch"
               \/ rec.pc = "cleanup" /\ rec'.pc = "cleanup" /\ rec'.todo = rec.todo \ {d} /\ iam'[d] = Absent
  BY Zenon, DeleteRec
<1>2. events' \in Nat /\ events \in Nat /\ events <= events' /\ events' \in 0 .. MaxEvents
  BY SMTT(30), EventsAssumption DEF Control, MapsOK, DeleteSteps, Ticks
<1>3. MapsOK'
  BY ZenonT(30), <1>1, <1>2, Values DEF Control, MapsOK, DeleteSteps
<1>4. gc' = gc \/ (gc' = GCIdle /\ t = "gc")
  BY Zenon DEF DeleteSteps, Returned
<1>5. gc' \in [pc : {"idle", "current", "list", "check", "delete"}, name : Profiles \cup {None}]
      /\ (gc'.pc # "idle" => gc'.name \in Profiles)
  BY <1>4 DEF Control, ThreadsOK, GCIdle
<1>6. ThreadsOK'
  <2>1. nodeClass.gen \in Nat /\ seenClass.gen \in Nat /\ rec.stored.gen \in Nat
    BY Zenon DEF Control, ThreadsOK, RecStates, ClassStates
  <2>2. \A n \in {nodeClass', seenClass', rec'.stored} : 1 <= n.gen /\ n.gen <= events' + 1 /\ n.obs <= n.gen
    <3>1. \A n \in {nodeClass, seenClass, rec.stored} : 1 <= n.gen /\ n.gen <= events' + 1 /\ n.obs <= n.gen
      BY SMTT(30), <1>2, <2>1 DEF Control, ThreadsOK
    <3>2. rec'.stored = rec.stored \/ (rec'.stored.gen = 1 /\ rec'.stored.obs = 0)
      BY ZenonT(30), <1>1
    <3> QED BY <1>2, <3>1, <3>2 DEF DeleteSteps
  <2>3. rec'.obs <= rec'.stored.gen /\ (rec'.pc = "idle" => rec' = Idle) /\ (rec'.pc \in Making => rec'.new \in Profiles)
    BY SMTT(30), <1>1 DEF Control, ThreadsOK, Making
  <2>4. \A u \in Threads : del'[u].pc # "none" => del'[u].name \in Profiles \cup {Legacy}
    BY ZenonT(30), <1>1 DEF Control, ThreadsOK, DeleteSteps
  <2>5. nodeClass' \in ClassStates /\ seenClass' \in ClassStates
    BY ZenonT(30) DEF Control, ThreadsOK, DeleteSteps
  <2> QED BY ZenonT(30), <1>1, <1>5, <2>2, <2>3, <2>4, <2>5 DEF ThreadsOK, DeleteSteps, DelStates
<1>7. Over => Over'
  BY ZenonT(30), <1>1 DEF Over, DeleteSteps
<1>8. PhasesOK'
  BY ZenonT(30), <1>1, <1>7 DEF Control, PhasesOK, DeleteSteps, Finalizing, Reconciling, Choosing
<1>9. NoneYet' /\ LaunchesOK'
  BY ZenonT(30), <1>1 DEF Control, NoneYet, LaunchesOK, DeleteSteps
<1>10. ChosenOK'
  <2>1. rec'.stored = rec.stored => CurrentName' = CurrentName
    BY ZenonT(30) DEF CurrentName, DeleteSteps
  <2> QED BY ZenonT(30), <1>1, <2>1 DEF Control, ChosenOK, Making, Choosing, Reconciling
<1>11. DeletesOK'
  <2>1. "gc" \in Threads /\ "nodeclass" \in Threads /\ t \in {"gc", "nodeclass"}
    BY Zenon DEF Threads
  <2>2. CASE t = "gc"
    <3>1. rec' = rec /\ del'["nodeclass"] = del["nodeclass"]
      BY ZenonT(30), <2>1, <2>2, DeleteRec DEF DeleteSteps
    <3>2. del'["gc"].pc # "none" => gc' = gc /\ del'["gc"].name = del["gc"].name /\ del["gc"].pc # "none"
      BY ZenonT(30), <2>2 DEF DeleteSteps
    <3> QED BY ZenonT(30), <3>1, <3>2 DEF Control, DeletesOK
  <2>3. CASE t = "nodeclass"
    <3>1. gc' = gc /\ del'["gc"] = del["gc"]
      BY Zenon, <1>4, <2>1, <2>3 DEF DeleteSteps
    <3>2. del'["nodeclass"].pc # "none" => rec' = rec /\ del'["nodeclass"].name = del["nodeclass"].name /\ del["nodeclass"].pc # "none"
      BY Zenon, <2>3 DEF DeleteSteps
    <3> QED BY ZenonT(30), <3>1, <3>2 DEF Control, DeletesOK
  <2> QED BY Zenon, <2>1, <2>2, <2>3
<1>12. CleanupOK'
  <2>1. \A p \in Profiles \cup {Legacy} : iam'[p] # Absent => iam[p] # Absent
    BY ZenonT(30), Values DEF DeleteSteps
  <2> QED BY ZenonT(30), <1>1, <2>1 DEF Control, CleanupOK
<1> QED BY Zenon, <1>3, <1>6, <1>7, <1>8, <1>9, <1>10, <1>11, <1>12 DEF Control

LEMMA DeleteAlive ==
  ASSUME Control, Alive, NEW t \in Threads, NEW d, DeleteSteps(t, d), t = "gc" \/ rec.pc # "cleanup"
  PROVE  Alive'
<1>1. /\ rec'.stored = rec.stored /\ rec'.obs = rec.obs /\ rec'.status = rec.status /\ rec'.new = rec.new
      /\ rec' = rec \/ (t = "nodeclass" /\ rec.pc = "delete" /\ rec'.pc = "patch")
      /\ t = "gc" => rec' = rec
  BY Zenon, DeleteRec
<1>2. gc' = gc \/ gc' = GCIdle
  BY Zenon DEF DeleteSteps, Returned
<1>3. Named(d) => d \in doomed
  <2>1. CASE t = "gc"
    BY ZenonT(30), <2>1 DEF Alive, NotCollected, Control, DeletesOK, DeleteSteps
  <2>2. CASE t = "nodeclass"
    BY ZenonT(30), <2>2 DEF Alive, MakingOK, Making, Control, DeletesOK, DeleteSteps
  <2> QED BY Zenon, <2>1, <2>2 DEF Threads
<1>4. \A p : Named(p)' <=> Named(p)
  BY ZenonT(30), <1>1 DEF Named, DeleteSteps
<1>5. \A p : Named(p) /\ Sheltered(p) => Sheltered(p)'
  BY ZenonT(30), <1>3 DEF Sheltered, DeleteSteps
<1>6. \A p \in Names \ doomed : Named(p) => iam'[p] = iam[p] /\ instanceProfileCache'[p] = instanceProfileCache[p]
  BY ZenonT(30), <1>3 DEF DeleteSteps
<1>7. Named(nodeClass.status) /\ Named(seenClass.status) /\ Named(rec.stored.status)
  BY Zenon DEF Named
<1>8. NamedHasRole'
  BY ZenonT(30), <1>4, <1>6 DEF Alive, NamedHasRole, DeleteSteps
<1>9. LagIsSheltered'
  <2>1. rec.stored.role = NoRole /\ rec'.pc = "patch" => rec.pc = "patch"
    BY ZenonT(30), <1>1 DEF Control, ChosenOK, Making
  <2>2. rec'.pc # "idle" => rec.pc # "idle"
    BY Zenon, <1>1
  <2> QED BY ZenonT(30), <1>1, <1>5, <1>7, <2>1, <2>2 DEF Alive, LagIsSheltered, DeleteSteps
<1>10. RecreatedOK'
  <2>1. ASSUME NEW r \in Roles, recreationCache[r] # None
        PROVE  Named(recreationCache[r]) /\ recreationCache[r] \in Names
    BY ZenonT(30), <2>1, Values DEF Named, Control, MapsOK
  <2> QED BY ZenonT(30), <1>1, <1>5, <1>6, <1>7, <2>1 DEF Alive, RecreatedOK, DeleteSteps
<1>11. UseIsSheltered'
  <2>1. \A c \in Claims : Named(launch[c]) /\ Named(claims[c])
    BY Zenon DEF Named
  <2> QED BY ZenonT(30), <1>5, <2>1 DEF Alive, UseIsSheltered, DeleteSteps
<1>12. NotCollected'
  <2>1. CASE gc' = gc
    BY ZenonT(30), <1>4, <1>5, <2>1 DEF Alive, NotCollected, DeleteSteps
  <2>2. CASE gc' = GCIdle
    BY Zenon, <2>2 DEF NotCollected, GCIdle
  <2> QED BY Zenon, <1>2, <2>1, <2>2
<1>13. MakingOK'
  <2>1. rec'.pc \in Making => rec' = rec
    BY Zenon, <1>1 DEF Making
  <2>2. gc'.pc = "delete" => gc' = gc
    BY <1>2 DEF GCIdle
  <2>3. ASSUME rec.pc = "created", rec.new \notin doomed PROVE iam'[rec.new] = iam[rec.new]
    <3>1. d # rec.new
      <4>1. CASE t = "gc"
        BY ZenonT(30), <2>3, <4>1 DEF Alive, MakingOK, Control, DeletesOK, DeleteSteps
      <4>2. CASE t = "nodeclass"
        BY ZenonT(30), <2>3, <4>2 DEF Control, DeletesOK, DeleteSteps
      <4> QED BY Zenon, <4>1, <4>2 DEF Threads
    <3>2. rec.new \in Names
      BY Zenon, <2>3, Values DEF Control, ThreadsOK, Making
    <3> QED BY ZenonT(30), <3>1, <3>2 DEF DeleteSteps
  <2> QED BY ZenonT(30), <1>4, <2>1, <2>2, <2>3 DEF Alive, MakingOK, Making, DeleteSteps
<1>14. PatchOK'
  <2>1. CASE rec' = rec
    <3>1. ASSUME rec.pc = "patch", rec.stored.role # NoRole, rec.status \in Names, rec.status \notin doomed
          PROVE  iam'[rec.status] = iam[rec.status]
      <4>1. Named(rec.status)
        BY ZenonT(30), <3>1, CurrentNameFacts DEF Control, ChosenOK, Choosing
      <4> QED BY Zenon, <1>6, <3>1, <4>1
    <3> QED BY ZenonT(30), <2>1, <3>1 DEF Alive, PatchOK, DeleteSteps
  <2>2. CASE rec.pc = "delete"
    BY ZenonT(30), <1>1, <2>2 DEF PatchOK, Control, ChosenOK, Reconciling, Choosing
  <2> QED BY Zenon, <1>1, <2>1, <2>2
<1>15. ReadyOK'
  <2>1. nodeClass.gen \in Nat /\ 1 <= nodeClass.gen
    BY ZenonT(30) DEF Control, ThreadsOK, ClassStates
  <2>2. nodeClass' = nodeClass /\ doomed' = doomed
    BY Zenon DEF DeleteSteps
  <2> QED BY <1>6, <1>7, <2>1, <2>2 DEF Alive, ReadyOK, ReadyMeansUsable
<1> QED BY Zenon, <1>8, <1>9, <1>10, <1>11, <1>12, <1>13, <1>14, <1>15 DEF Alive

LEMMA DeleteStep ==
  ASSUME Control, NEW t \in Threads, Delete(t)
  PROVE  Control' /\ (Over => Over') /\ (Alive => Over' \/ Alive')
<1>1. PICK d : d = del[t].name
  BY Zenon
<1>2. DeleteSteps(t, d)
  BY Zenon, <1>1, DeleteGetStep, DeleteRemoveRoleStep, DeleteProfileStep DEF Delete
<1>3. Control' /\ (Over => Over')
  BY Zenon, <1>2, DeleteControl
<1>4. rec.pc = "cleanup" => Over
  BY Zenon DEF Control, PhasesOK
<1> QED BY Zenon, <1>2, <1>3, <1>4, DeleteAlive

-----------------------------------------------------------------------------
(* finalize *)

LEMMA FinalizeBeginStep ==
  ASSUME Control, FinalizeBegin
  PROVE  Control' /\ (Over => Over') /\ (Alive => Over' \/ Alive')
<1>1. /\ iam' = iam /\ roles' = roles /\ nodeClass' = nodeClass /\ seenClass' = seenClass /\ claims' = claims
      /\ seenClaims' = seenClaims /\ launch' = launch /\ instanceProfileCache' = instanceProfileCache
      /\ roleNotFoundErrorCache' = roleNotFoundErrorCache /\ protectedProfileCache' = protectedProfileCache
      /\ recreationCache' = recreationCache /\ gc' = gc /\ del' = del /\ events' = events /\ doomed' = doomed
      /\ rec.pc = "finalize" /\ Ticks
  BY Zenon DEF FinalizeBegin, iamVars, apiVars, caches, Ticks
<1>2. del["nodeclass"].pc = "none" /\ rec \in RecStates /\ "list" \in RecPhases
  BY Zenon, <1>1 DEF Control, DeletesOK, ThreadsOK, RecPhases, Finalizing
<1>3. CASE rec' = Idle
  BY ZenonT(30), <1>1, <1>2, <1>3, GiveUp
<1>4. CASE rec' = [rec EXCEPT !.pc = "list"] /\ \A c \in Claims : seenClaims[c] = None
  <2>1. rec' \in RecStates /\ rec'.pc = "list" /\ rec'.stored = rec.stored /\ rec'.obs = rec.obs /\ rec'.todo = rec.todo
    BY Zenon, <1>2, <1>4, StepWrite
  <2>2. rec.stored.phase = "deleting" /\ seenClass.phase # "live" /\ nodeClass.phase # "live"
    BY Zenon, <1>1 DEF Control, PhasesOK, Finalizing
  <2>3. Over'
    BY Zenon, <1>1, <1>4, <2>1, <2>2, Values DEF Over, Control, LaunchesOK
  <2>4. MapsOK' /\ ThreadsOK'
    BY ZenonT(30), <1>1, <2>1 DEF Control, MapsOK, ThreadsOK, Making
  <2>5. PhasesOK'
    BY ZenonT(30), <1>1, <2>1, <2>2, <2>3 DEF Control, PhasesOK, Finalizing, Reconciling, Choosing
  <2>6. NoneYet' /\ LaunchesOK' /\ ChosenOK' /\ DeletesOK' /\ CleanupOK'
    BY ZenonT(30), <1>1, <1>2, <2>1 DEF Control, NoneYet, LaunchesOK, ChosenOK, DeletesOK, CleanupOK, Making, Choosing, Reconciling
  <2> QED BY Zenon, <2>3, <2>4, <2>5, <2>6 DEF Control
<1> QED BY Zenon, <1>3, <1>4 DEF FinalizeBegin

LEMMA FinalizeListStep ==
  ASSUME Control, FinalizeList
  PROVE  Control' /\ (Over => Over') /\ (Alive => Over' \/ Alive')
<1>1. /\ iam' = iam /\ roles' = roles /\ nodeClass' = nodeClass /\ seenClass' = seenClass /\ claims' = claims
      /\ seenClaims' = seenClaims /\ launch' = launch /\ instanceProfileCache' = instanceProfileCache
      /\ roleNotFoundErrorCache' = roleNotFoundErrorCache /\ protectedProfileCache' = protectedProfileCache
      /\ recreationCache' = recreationCache /\ gc' = gc /\ del' = del /\ doomed' = doomed
      /\ rec.pc = "list" /\ Ticks
  BY Zenon DEF FinalizeList, iamVars, apiVars, caches, Ticks, Fault, Event
<1>2. del["nodeclass"].pc = "none" /\ rec \in RecStates /\ "cleanup" \in RecPhases /\ Over
  BY ZenonT(30), <1>1 DEF Control, DeletesOK, ThreadsOK, RecPhases, Finalizing, PhasesOK
<1>3. CASE rec' = Idle
  BY ZenonT(30), <1>1, <1>2, <1>3, GiveUp
<1>4. CASE rec' = [rec EXCEPT !.todo = Managed \cup {Legacy}, !.pc = "cleanup"] /\ events' = events
  <2>1. PICK td \in SUBSET (Profiles \cup {Legacy}) : td = Managed \cup {Legacy}
    BY ZenonT(30) DEF Managed
  <2>2. rec' = Listed(rec, td, "cleanup")
    BY Zenon, <1>4, <2>1 DEF Listed
  <2>3. rec' \in RecStates /\ rec'.pc = "cleanup" /\ rec'.stored = rec.stored /\ rec'.obs = rec.obs /\ rec'.todo = td
    BY Zenon, <1>2, <2>2, ListedWrite
  <2>4. Over'
    BY ZenonT(30), <1>1, <1>2, <2>3 DEF Over
  <2>5. MapsOK' /\ ThreadsOK'
    BY Zenon, <1>1, <1>4, <2>3 DEF Control, MapsOK, ThreadsOK, Making
  <2>6. PhasesOK'
    BY ZenonT(30), <1>1, <2>3, <2>4 DEF Control, PhasesOK, Finalizing, Reconciling, Choosing
  <2>7. NoneYet' /\ LaunchesOK' /\ ChosenOK' /\ DeletesOK'
    BY ZenonT(30), <1>1, <1>2, <2>3 DEF Control, NoneYet, LaunchesOK, ChosenOK, DeletesOK, Making, Choosing, Reconciling
  <2>8. CleanupOK'
    BY Zenon, <1>1, <2>1, <2>3 DEF CleanupOK, Managed
  <2> QED BY Zenon, <2>4, <2>5, <2>6, <2>7, <2>8 DEF Control
<1> QED BY Zenon, <1>3, <1>4 DEF FinalizeList

LEMMA FinalizeDeleteStep ==
  ASSUME Control, FinalizeDelete
  PROVE  Control' /\ (Over => Over') /\ (Alive => Over' \/ Alive')
<1>1. /\ iam' = iam /\ roles' = roles /\ nodeClass' = nodeClass /\ seenClass' = seenClass /\ claims' = claims
      /\ seenClaims' = seenClaims /\ launch' = launch /\ instanceProfileCache' = instanceProfileCache
      /\ roleNotFoundErrorCache' = roleNotFoundErrorCache /\ protectedProfileCache' = protectedProfileCache
      /\ recreationCache' = recreationCache /\ rec' = rec /\ gc' = gc /\ events' = events /\ doomed' = doomed
      /\ rec.pc = "cleanup"
  BY ZenonT(30) DEF FinalizeDelete, iamVars, apiVars, caches
<1>2. Over /\ rec.todo \subseteq Profiles \cup {Legacy}
  BY ZenonT(30), <1>1 DEF Control, PhasesOK, ThreadsOK, RecStates
<1>3. PICK p \in rec.todo : del' = [del EXCEPT !["nodeclass"] = [pc |-> "get", name |-> p]]
  BY ZenonT(30) DEF FinalizeDelete
<1>4. /\ del' \in [Threads -> [pc : {"none", "get", "remove", "delete"}, name : Profiles \cup {Legacy, None}]]
      /\ del'["gc"] = del["gc"] /\ del'["nodeclass"].name = p
  BY Zenon, <1>2, <1>3 DEF Control, ThreadsOK, Threads
<1>5. Over'
  BY Zenon, <1>1, <1>2 DEF Over
<1>6. MapsOK' /\ PhasesOK' /\ NoneYet' /\ LaunchesOK' /\ CleanupOK'
  BY ZenonT(30), <1>1, <1>5 DEF Control, MapsOK, PhasesOK, NoneYet, LaunchesOK, CleanupOK
<1>7. ThreadsOK'
  <2>1. \A t \in Threads : del'[t].pc # "none" => del'[t].name \in Profiles \cup {Legacy}
    BY Zenon, <1>2, <1>4 DEF Control, ThreadsOK, Threads
  <2> QED BY ZenonT(30), <1>1, <1>4, <2>1 DEF Control, ThreadsOK
<1>8. ChosenOK' /\ DeletesOK'
  BY ZenonT(30), <1>1, <1>4 DEF Control, ChosenOK, DeletesOK, CurrentName
<1> QED BY Zenon, <1>5, <1>6, <1>7, <1>8 DEF Control

LEMMA FinalizeEndStep ==
  ASSUME Control, FinalizeEnd
  PROVE  Control' /\ (Over => Over') /\ (Alive => Over' \/ Alive')
<1>1. /\ iam' = iam /\ roles' = roles /\ seenClass' = seenClass /\ claims' = claims /\ seenClaims' = seenClaims
      /\ launch' = launch /\ instanceProfileCache' = instanceProfileCache
      /\ roleNotFoundErrorCache' = roleNotFoundErrorCache /\ protectedProfileCache' = protectedProfileCache
      /\ recreationCache' = recreationCache /\ gc' = gc /\ del' = del /\ doomed' = doomed
      /\ rec.pc = "cleanup" /\ rec.todo = {} /\ rec' = Idle
  BY Zenon DEF FinalizeEnd, iamVars, caches
<1>2. del["nodeclass"].pc = "none" /\ Over /\ nodeClass \in ClassStates
  BY Zenon, <1>1 DEF Control, DeletesOK, PhasesOK, ThreadsOK
<1>3. CASE nodeClass' = nodeClass /\ Ticks
  BY ZenonT(30), <1>1, <1>2, <1>3, GiveUp
<1>4. CASE nodeClass' = [nodeClass EXCEPT !.phase = "gone", !.finalizer = FALSE] /\ events' = events
  <2>1. /\ rec' \in RecStates /\ rec'.pc = "idle" /\ rec'.stored.status = None /\ rec'.stored.phase = "live"
        /\ rec'.stored.gen = 1 /\ rec'.stored.obs = 0 /\ rec'.obs = 0
    BY Zenon, <1>1, IdleFacts
  <2>2. /\ nodeClass' \in ClassStates /\ nodeClass'.phase = "gone" /\ nodeClass'.status = nodeClass.status
        /\ nodeClass'.gen = nodeClass.gen /\ nodeClass'.obs = nodeClass.obs
    <3>1. nodeClass' = WithPhase(nodeClass, "gone", FALSE)
      BY Zenon, <1>4 DEF WithPhase
    <3> QED BY ZenonT(30), <1>2, <3>1, PhaseWrite
  <2>3. Over'
    BY Zenon, <1>1, <1>2, <2>1, <2>2 DEF Over
  <2>4. MapsOK'
    BY Zenon, <1>1, <1>4 DEF Control, MapsOK
  <2>5. ThreadsOK'
    <3>1. events \in Nat /\ 1 <= events + 1
      BY SMTT(30) DEF Control, MapsOK
    <3> QED BY <1>1, <1>4, <2>1, <2>2, <3>1 DEF Control, ThreadsOK, Making
  <2>6. PhasesOK'
    <3>1. nodeClass'.phase # "live" /\ seenClass'.phase # "live"
      BY Zenon, <2>3 DEF Over
    <3> QED BY Zenon, <2>1, <2>2, <2>3, <3>1 DEF PhasesOK, Finalizing, Reconciling, Choosing
  <2>7. NoneYet' /\ LaunchesOK' /\ ChosenOK' /\ DeletesOK' /\ CleanupOK'
    BY ZenonT(30), <1>1, <1>2, <2>1, <2>2 DEF Control, NoneYet, LaunchesOK, ChosenOK, DeletesOK, CleanupOK, Making, Choosing, Reconciling
  <2> QED BY Zenon, <2>3, <2>4, <2>5, <2>6, <2>7 DEF Control
<1> QED BY Zenon, <1>3, <1>4 DEF FinalizeEnd, Fault, Event, Ticks

-----------------------------------------------------------------------------
(* The garbage collector *)

CollectorSteps ==
  /\ iam' = iam /\ roles' = roles /\ nodeClass' = nodeClass /\ seenClass' = seenClass /\ claims' = claims
  /\ seenClaims' = seenClaims /\ launch' = launch /\ instanceProfileCache' = instanceProfileCache
  /\ roleNotFoundErrorCache' = roleNotFoundErrorCache /\ protectedProfileCache' = protectedProfileCache
  /\ recreationCache' = recreationCache /\ rec' = rec /\ doomed \subseteq doomed' /\ Ticks
  /\ gc.pc # "delete"
  /\ gc' = GCIdle \/ (gc'.pc \in {"current", "list", "check", "delete"} /\ gc'.name \in Profiles)
  /\ gc' \in [pc : {"idle", "current", "list", "check", "delete"}, name : Profiles \cup {None}]
  /\ \/ del' = del
     \/ gc'.pc = "delete" /\ del' = [del EXCEPT !["gc"] = [pc |-> "get", name |-> gc'.name]]

LEMMA CollectorControl ==
  ASSUME Control, CollectorSteps
  PROVE  Control' /\ (Over => Over')
<1>1. events' \in Nat /\ events \in Nat /\ events <= events' /\ events' \in 0 .. MaxEvents
  BY SMTT(30), EventsAssumption DEF Control, MapsOK, CollectorSteps, Ticks
<1>2. MapsOK'
  BY Zenon, <1>1 DEF Control, MapsOK, CollectorSteps
<1>3. /\ del' \in [Threads -> [pc : {"none", "get", "remove", "delete"}, name : Profiles \cup {Legacy, None}]]
      /\ del'["nodeclass"] = del["nodeclass"]
      /\ del'["gc"].pc # "none" => gc'.pc = "delete" /\ del'["gc"].name = gc'.name /\ gc'.name \in Profiles
  <2>1. /\ del \in [Threads -> [pc : {"none", "get", "remove", "delete"}, name : Profiles \cup {Legacy, None}]]
        /\ del["gc"].pc = "none"
    BY ZenonT(30) DEF Control, ThreadsOK, DeletesOK, CollectorSteps
  <2>2. CASE del' = del
    BY Zenon, <2>1, <2>2
  <2>3. CASE gc'.pc = "delete" /\ del' = [del EXCEPT !["gc"] = [pc |-> "get", name |-> gc'.name]]
    <3>1. gc'.name \in Profiles
      BY <2>3 DEF CollectorSteps, GCIdle
    <3> QED BY Zenon, <2>1, <2>3, <3>1 DEF Threads
  <2> QED BY Zenon, <2>2, <2>3 DEF CollectorSteps
<1>4. ThreadsOK'
  <2>1. nodeClass.gen \in Nat /\ seenClass.gen \in Nat /\ rec.stored.gen \in Nat
    BY Zenon DEF Control, ThreadsOK, RecStates, ClassStates
  <2>2. \A t \in Threads : del'[t].pc # "none" => del'[t].name \in Profiles \cup {Legacy}
    BY Zenon, <1>3 DEF Control, ThreadsOK, Threads
  <2>3. gc'.pc # "idle" => gc'.name \in Profiles
    BY DEF CollectorSteps, GCIdle
  <2> QED BY SMTT(30), <1>1, <1>3, <2>1, <2>2, <2>3 DEF Control, ThreadsOK, CollectorSteps
<1>5. Over => Over'
  BY Zenon DEF Over, CollectorSteps
<1>6. PhasesOK' /\ NoneYet' /\ LaunchesOK' /\ CleanupOK'
  BY ZenonT(30), <1>5 DEF Control, PhasesOK, NoneYet, LaunchesOK, CleanupOK, CollectorSteps
<1>7. ChosenOK' /\ DeletesOK'
  BY ZenonT(30), <1>3 DEF Control, ChosenOK, DeletesOK, CurrentName, CollectorSteps
<1> QED BY Zenon, <1>2, <1>4, <1>5, <1>6, <1>7 DEF Control

LEMMA CollectorAlive ==
  ASSUME Control, CollectorSteps, Alive, NotCollected', MakingOK'
  PROVE  Alive'
<1>1. \A p : (Named(p)' <=> Named(p)) /\ (Sheltered(p) => Sheltered(p)')
  BY ZenonT(30) DEF Named, Sheltered, CollectorSteps
<1>2. NamedHasRole'
  BY ZenonT(30), <1>1 DEF Alive, NamedHasRole, CollectorSteps
<1>3. LagIsSheltered'
  BY ZenonT(30), <1>1 DEF Alive, LagIsSheltered, CollectorSteps
<1>4. RecreatedOK'
  BY ZenonT(30), <1>1 DEF Alive, RecreatedOK, CollectorSteps
<1>5. UseIsSheltered'
  BY ZenonT(30), <1>1 DEF Alive, UseIsSheltered, CollectorSteps
<1>6. PatchOK' /\ ReadyOK'
  BY ZenonT(30) DEF Alive, PatchOK, ReadyOK, ReadyMeansUsable, CollectorSteps
<1> QED BY Zenon, <1>2, <1>3, <1>4, <1>5, <1>6 DEF Alive

\* No step of the collector but the last leaves a doubt about a profile in creation.
LEMMA CollectorMaking ==
  ASSUME CollectorSteps, Alive, gc'.pc # "delete"
  PROVE  MakingOK'
<1>1. \A p : Named(p)' => Named(p)
  BY Zenon DEF Named, CollectorSteps
<1> QED BY ZenonT(30), <1>1 DEF Alive, MakingOK, CollectorSteps

LEMMA getActiveProfilesStep ==
  ASSUME Control, NEW p \in Profiles, getActiveProfiles(p)
  PROVE  Control' /\ (Over => Over') /\ (Alive => Over' \/ Alive')
<1>1. /\ iam' = iam /\ roles' = roles /\ nodeClass' = nodeClass /\ seenClass' = seenClass /\ claims' = claims
      /\ seenClaims' = seenClaims /\ launch' = launch /\ instanceProfileCache' = instanceProfileCache
      /\ roleNotFoundErrorCache' = roleNotFoundErrorCache /\ protectedProfileCache' = protectedProfileCache
      /\ recreationCache' = recreationCache /\ rec' = rec /\ del' = del /\ events' = events /\ doomed' = doomed
      /\ gc.pc = "idle" /\ (\A c \in Claims : seenClaims[c] # p) /\ gc' = [pc |-> "current", name |-> p]
  BY Zenon DEF getActiveProfiles, iamVars, apiVars, caches
<1>2. CollectorSteps /\ gc'.pc = "current" /\ gc'.name = p
  BY Zenon, <1>1 DEF CollectorSteps, Ticks
<1>3. ASSUME Alive PROVE Alive'
  <2>1. p \in Names /\ p # None /\ p # Unmanaged
    BY Zenon, Values
  <2>2. Named(p) => Sheltered(p) \/ p = seenClass.status
    <3>1. CASE p = nodeClass.status
      BY Zenon, <1>3, <3>1 DEF Alive, LagIsSheltered
    <3>2. CASE p = rec.stored.status
      <4>1. rec.pc # "idle"
        BY ZenonT(30), <2>1, <3>2, IdleFacts DEF Control, ThreadsOK
      <4> QED BY ZenonT(30), <1>3, <3>2, <4>1 DEF Alive, LagIsSheltered
    <3>3. ASSUME NEW r \in Roles, recreationCache[r] = p PROVE Sheltered(p)
      BY Zenon, <1>3, <2>1, <3>3 DEF Alive, RecreatedOK
    <3>4. ASSUME NEW c \in Claims, launch[c] = p \/ claims[c] = p PROVE Sheltered(p) \/ p = seenClass.status
      BY ZenonT(30), <1>1, <1>3, <2>1, <3>4 DEF Alive, UseIsSheltered
    <3> QED BY Zenon, <2>1, <3>1, <3>2, <3>3, <3>4 DEF Named
  <2>3. (Named(p)' => Named(p)) /\ (Sheltered(p) => Sheltered(p)')
    BY ZenonT(30), <1>1 DEF Named, Sheltered
  <2>4. NotCollected'
    BY ZenonT(30), <1>1, <1>2, <2>2, <2>3 DEF NotCollected
  <2> QED BY Zenon, <1>2, <1>3, <2>4, CollectorMaking, CollectorAlive
<1> QED BY Zenon, <1>2, <1>3, CollectorControl

LEMMA getCurrentProfilesStep ==
  ASSUME Control, getCurrentProfiles
  PROVE  Control' /\ (Over => Over') /\ (Alive => Over' \/ Alive')
<1>1. /\ iam' = iam /\ roles' = roles /\ nodeClass' = nodeClass /\ seenClass' = seenClass /\ claims' = claims
      /\ seenClaims' = seenClaims /\ launch' = launch /\ instanceProfileCache' = instanceProfileCache
      /\ roleNotFoundErrorCache' = roleNotFoundErrorCache /\ protectedProfileCache' = protectedProfileCache
      /\ recreationCache' = recreationCache /\ rec' = rec /\ del' = del /\ events' = events /\ doomed' = doomed
      /\ gc.pc = "current"
      /\ gc' = IF seenClass.phase # "gone" /\ seenClass.status = gc.name THEN GCIdle ELSE [gc EXCEPT !.pc = "list"]
  BY Zenon DEF getCurrentProfiles, iamVars, apiVars, caches
<1>2. /\ gc \in [pc : {"idle", "current", "list", "check", "delete"}, name : Profiles \cup {None}]
      /\ gc.name \in Profiles
  BY Zenon, <1>1 DEF Control, ThreadsOK
<1>3. \/ gc' = GCIdle
      \/ gc'.pc = "list" /\ gc'.name = gc.name /\ (seenClass.phase = "gone" \/ seenClass.status # gc.name)
  BY Zenon, <1>1, <1>2
<1>4. CollectorSteps
  BY Zenon, <1>1, <1>2, <1>3 DEF CollectorSteps, Ticks, GCIdle
<1>5. ASSUME Alive, ~Over PROVE Alive'
  <2>1. seenClass.phase = "gone" => seenClass.status = None
    BY Zenon, <1>5 DEF Control, PhasesOK, NoneYet
  <2>2. gc.name # None
    BY Zenon, <1>2, Values
  <2>4. gc'.pc = "list" /\ Named(gc.name)' => Sheltered(gc.name)'
    <3>1. CASE gc'.pc = "list" /\ gc'.name = gc.name /\ (seenClass.phase = "gone" \/ seenClass.status # gc.name)
      <4>1. (Named(gc.name)' => Named(gc.name)) /\ (Sheltered(gc.name) => Sheltered(gc.name)')
        BY Zenon, <1>1, <3>1 DEF Named, Sheltered
      <4> QED BY Zenon, <1>1, <1>5, <2>1, <2>2, <3>1, <4>1 DEF Alive, NotCollected
    <3>2. CASE gc' = GCIdle
      BY Zenon, <3>2 DEF GCIdle
    <3> QED BY Zenon, <1>3, <3>1, <3>2
  <2>5. gc'.pc \in {"idle", "list"}
    BY <1>3 DEF GCIdle
  <2>6. NotCollected'
    BY Zenon, <2>4, <2>5 DEF NotCollected
  <2> QED BY Zenon, <1>4, <1>5, <2>5, <2>6, CollectorMaking, CollectorAlive
<1> QED BY Zenon, <1>4, <1>5, CollectorControl

LEMMA GCListStep ==
  ASSUME Control, GCList
  PROVE  Control' /\ (Over => Over') /\ (Alive => Over' \/ Alive')
<1>1. /\ iam' = iam /\ roles' = roles /\ nodeClass' = nodeClass /\ seenClass' = seenClass /\ claims' = claims
      /\ seenClaims' = seenClaims /\ launch' = launch /\ instanceProfileCache' = instanceProfileCache
      /\ roleNotFoundErrorCache' = roleNotFoundErrorCache /\ protectedProfileCache' = protectedProfileCache
      /\ recreationCache' = recreationCache /\ rec' = rec /\ del' = del /\ doomed' = doomed
      /\ gc.pc = "list" /\ Ticks /\ (gc' = GCIdle \/ gc' = [gc EXCEPT !.pc = "check"])
  BY Zenon DEF GCList, iamVars, apiVars, caches, Ticks, Fault, Event
<1>2. /\ gc \in [pc : {"idle", "current", "list", "check", "delete"}, name : Profiles \cup {None}]
      /\ gc.name \in Profiles
  BY Zenon, <1>1 DEF Control, ThreadsOK
<1>3. gc' = GCIdle \/ (gc'.pc = "check" /\ gc'.name = gc.name)
  BY Zenon, <1>1, <1>2
<1>4. CollectorSteps
  BY <1>1, <1>2, <1>3 DEF CollectorSteps, GCIdle
<1>5. ASSUME Alive PROVE Alive'
  <2>1. NotCollected'
    <3>1. CASE gc'.pc = "check" /\ gc'.name = gc.name
      <4>1. (Named(gc.name)' => Named(gc.name)) /\ (Sheltered(gc.name) => Sheltered(gc.name)')
        BY Zenon, <1>1, <3>1 DEF Named, Sheltered
      <4> QED BY Zenon, <1>1, <1>5, <3>1, <4>1 DEF Alive, NotCollected
    <3>2. CASE gc' = GCIdle
      BY Zenon, <3>2 DEF GCIdle, NotCollected
    <3> QED BY Zenon, <1>3, <3>1, <3>2
  <2>2. gc'.pc \in {"idle", "check"}
    BY <1>3 DEF GCIdle
  <2> QED BY Zenon, <1>4, <1>5, <2>1, <2>2, CollectorMaking, CollectorAlive
<1> QED BY Zenon, <1>4, <1>5, CollectorControl

LEMMA cleanupInactiveProfilesStep ==
  ASSUME Control, cleanupInactiveProfiles
  PROVE  Control' /\ (Over => Over') /\ (Alive => Over' \/ Alive')
<1>1. /\ iam' = iam /\ roles' = roles /\ nodeClass' = nodeClass /\ seenClass' = seenClass /\ claims' = claims
      /\ seenClaims' = seenClaims /\ launch' = launch /\ instanceProfileCache' = instanceProfileCache
      /\ roleNotFoundErrorCache' = roleNotFoundErrorCache /\ protectedProfileCache' = protectedProfileCache
      /\ recreationCache' = recreationCache /\ rec' = rec
      /\ gc.pc = "check" /\ Ticks
      /\ \/ gc' = GCIdle /\ del' = del /\ doomed' = doomed
         \/ /\ gc.name \notin protectedProfileCache /\ gc' = [gc EXCEPT !.pc = "delete"]
            /\ del' = [del EXCEPT !["gc"] = [pc |-> "get", name |-> gc.name]]
            /\ doomed' = IF InCreation(gc.name) THEN doomed \cup {gc.name} ELSE doomed
  BY Zenon DEF cleanupInactiveProfiles, iamVars, apiVars, caches, Ticks, Event
<1>2. /\ gc \in [pc : {"idle", "current", "list", "check", "delete"}, name : Profiles \cup {None}]
      /\ gc.name \in Profiles
  BY Zenon, <1>1 DEF Control, ThreadsOK
<1>3. \/ gc' = GCIdle /\ del' = del /\ doomed' = doomed
      \/ /\ gc.name \notin protectedProfileCache /\ gc'.pc = "delete" /\ gc'.name = gc.name
         /\ del' = [del EXCEPT !["gc"] = [pc |-> "get", name |-> gc'.name]]
         /\ doomed' = IF InCreation(gc.name) THEN doomed \cup {gc.name} ELSE doomed
         /\ gc' \in [pc : {"idle", "current", "list", "check", "delete"}, name : Profiles \cup {None}]
  BY Zenon, <1>1, <1>2
<1>4. CollectorSteps
  BY SMTT(30), <1>1, <1>2, <1>3 DEF CollectorSteps, GCIdle
<1>5. ASSUME Alive PROVE Alive'
  <2>1. CASE gc' = GCIdle
    <3>1. NotCollected' /\ gc'.pc # "delete"
      BY Zenon, <2>1 DEF GCIdle, NotCollected
    <3> QED BY Zenon, <1>4, <1>5, <3>1, CollectorMaking, CollectorAlive
  <2>2. CASE /\ gc.name \notin protectedProfileCache /\ gc'.pc = "delete" /\ gc'.name = gc.name
             /\ doomed' = IF InCreation(gc.name) THEN doomed \cup {gc.name} ELSE doomed
    <3>1. Named(gc.name)' <=> Named(gc.name)
      BY Zenon, <1>1, <2>2 DEF Named
    <3>2. NotCollected'
      <4>1. Named(gc.name) => gc.name \in doomed
        BY Zenon, <1>1, <1>2, <1>5, <2>2, Values DEF Alive, NotCollected, Sheltered
      <4> QED BY ZenonT(30), <1>4, <2>2, <3>1, <4>1 DEF NotCollected, CollectorSteps
    <3>3. MakingOK'
      <4>1. Named(rec.new)' <=> Named(rec.new)
        BY Zenon, <1>1 DEF Named
      <4>2. rec.pc \in {"addrole", "created"} /\ gc.name = rec.new => rec.new \in doomed'
        BY Zenon, <2>2 DEF InCreation
      <4> QED BY Zenon, <1>1, <1>4, <1>5, <2>2, <4>1, <4>2 DEF Alive, MakingOK, CollectorSteps
    <3> QED BY Zenon, <1>4, <1>5, <3>2, <3>3, CollectorAlive
  <2> QED BY Zenon, <1>3, <2>1, <2>2
<1> QED BY Zenon, <1>4, <1>5, CollectorControl

-----------------------------------------------------------------------------
(* Time, and restarts *)

LEMMA ExpireStep ==
  ASSUME Control, ExpireRoleNotFound \/ \E p \in Names : ExpireProfile(p)
  PROVE  Control' /\ (Over => Over') /\ (Alive => Alive')
<1>1. /\ iam' = iam /\ roles' = roles /\ nodeClass' = nodeClass /\ seenClass' = seenClass /\ claims' = claims
      /\ seenClaims' = seenClaims /\ launch' = launch /\ protectedProfileCache' = protectedProfileCache
      /\ recreationCache' = recreationCache /\ rec' = rec /\ gc' = gc /\ del' = del /\ events' = events
      /\ doomed' = doomed
  BY ZenonT(30) DEF ExpireRoleNotFound, ExpireProfile, iamVars, apiVars
<1>2. /\ instanceProfileCache' \in [Names -> RoleNames \cup Roles \cup {Absent, Bare}] /\ roleNotFoundErrorCache' \subseteq RoleNames
      /\ \A q \in Names : instanceProfileCache'[q] \in {instanceProfileCache[q], Absent}
  BY Zenon DEF ExpireRoleNotFound, ExpireProfile, Control, MapsOK
<1>3. MapsOK' /\ ThreadsOK'
  BY ZenonT(30), <1>1, <1>2 DEF Control, MapsOK, ThreadsOK
<1>4. Over => Over'
  BY Zenon, <1>1 DEF Over
<1>5. PhasesOK' /\ NoneYet' /\ LaunchesOK' /\ ChosenOK' /\ DeletesOK' /\ CleanupOK'
  BY SMTT(30), <1>1, <1>4 DEF Control, PhasesOK, NoneYet, LaunchesOK, ChosenOK, CurrentName, DeletesOK, CleanupOK
<1>6. ASSUME Alive PROVE Alive'
  <2>1. \A p : (Named(p)' <=> Named(p)) /\ (Sheltered(p)' <=> Sheltered(p))
    BY ZenonT(30), <1>1 DEF Named, Sheltered
  <2>2. NamedHasRole'
    BY ZenonT(30), <1>1, <1>2, <1>6, <2>1, Values DEF Alive, NamedHasRole
  <2>3. LagIsSheltered' /\ RecreatedOK' /\ UseIsSheltered' /\ NotCollected' /\ MakingOK'
    BY ZenonT(30), <1>1, <1>6, <2>1 DEF Alive, LagIsSheltered, RecreatedOK, UseIsSheltered, NotCollected, MakingOK
  <2>4. PatchOK' /\ ReadyOK'
    BY ZenonT(30), <1>1, <1>6 DEF Alive, PatchOK, ReadyOK, ReadyMeansUsable
  <2> QED BY Zenon, <2>2, <2>3, <2>4 DEF Alive
<1> QED BY Zenon, <1>3, <1>4, <1>5, <1>6 DEF Control

LEMMA ExpireRecreationStep ==
  ASSUME Control, NEW r \in Roles, ExpireRecreation(r)
  PROVE  Control' /\ (Over => Over') /\ (Alive => Alive')
<1>1. /\ iam' = iam /\ roles' = roles /\ nodeClass' = nodeClass /\ seenClass' = seenClass /\ claims' = claims
      /\ seenClaims' = seenClaims /\ launch' = launch /\ instanceProfileCache' = instanceProfileCache
      /\ roleNotFoundErrorCache' = roleNotFoundErrorCache /\ protectedProfileCache' = protectedProfileCache
      /\ rec' = rec /\ gc' = gc /\ del' = del /\ events' = events /\ doomed' = doomed
      /\ rec.pc = "idle" /\ recreationCache' = [recreationCache EXCEPT ![r] = None]
  BY Zenon DEF ExpireRecreation, iamVars, apiVars
<1>2. /\ recreationCache' \in [Roles -> Profiles \cup {None}] /\ recreationCache'[r] = None
      /\ \A q \in Roles \ {r} : recreationCache'[q] = recreationCache[q]
  BY Zenon, <1>1 DEF Control, MapsOK
<1>3. MapsOK' /\ ThreadsOK'
  BY ZenonT(30), <1>1, <1>2 DEF Control, MapsOK, ThreadsOK
<1>4. Over => Over'
  BY ZenonT(30), <1>1 DEF Over
<1>5. PhasesOK' /\ NoneYet' /\ LaunchesOK' /\ DeletesOK' /\ CleanupOK'
  BY ZenonT(30), <1>1, <1>4 DEF Control, PhasesOK, NoneYet, LaunchesOK, DeletesOK, CleanupOK
<1>6. ChosenOK'
  BY ZenonT(30), <1>1 DEF ChosenOK, Making, Choosing, Reconciling
<1>7. ASSUME Alive PROVE Alive'
  <2>1. \A p : (Named(p)' => Named(p) \/ p = None) /\ (Sheltered(p)' <=> Sheltered(p))
    BY ZenonT(30), <1>1, <1>2 DEF Named, Sheltered
  <2>2. NamedHasRole'
    BY ZenonT(30), <1>1, <1>7, <2>1, Values DEF Alive, NamedHasRole
  <2>3. LagIsSheltered' /\ UseIsSheltered' /\ PatchOK' /\ ReadyOK'
    BY ZenonT(30), <1>1, <1>7, <2>1 DEF Alive, LagIsSheltered, UseIsSheltered, PatchOK, ReadyOK, ReadyMeansUsable
  <2>4. RecreatedOK'
    BY ZenonT(30), <1>1, <1>2, <1>7, <2>1 DEF Alive, RecreatedOK
  <2>5. NotCollected'
    <3>1. gc.pc # "idle" => gc.name # None
      BY ZenonT(30), Values DEF Control, ThreadsOK
    <3> QED BY ZenonT(30), <1>1, <1>7, <2>1, <3>1 DEF Alive, NotCollected
  <2>6. MakingOK'
    BY Zenon, <1>1 DEF MakingOK, Making
  <2> QED BY Zenon, <2>2, <2>3, <2>4, <2>5, <2>6 DEF Alive
<1> QED BY Zenon, <1>3, <1>4, <1>5, <1>6, <1>7 DEF Control

LEMMA ExpireProtectedStep ==
  ASSUME Control, NEW p \in Names, ExpireProtected(p)
  PROVE  Control' /\ (Over => Over') /\ (Alive => Alive')
<1>1. /\ iam' = iam /\ roles' = roles /\ nodeClass' = nodeClass /\ seenClass' = seenClass /\ claims' = claims
      /\ seenClaims' = seenClaims /\ launch' = launch /\ instanceProfileCache' = instanceProfileCache
      /\ roleNotFoundErrorCache' = roleNotFoundErrorCache /\ recreationCache' = recreationCache /\ rec' = rec
      /\ gc' = gc /\ del' = del /\ events' = events /\ doomed' = doomed
      /\ Settled(p) /\ protectedProfileCache' = protectedProfileCache \ {p}
  BY Zenon DEF ExpireProtected, iamVars, apiVars
<1>2. /\ \A r \in Roles : recreationCache[r] = None
      /\ rec.pc = "idle" /\ (nodeClass.status = p <=> seenClass.status = p)
      /\ \A c \in Claims : claims[c] = p \/ launch[c] = p => launch[c] # p /\ seenClaims[c] = p /\ gc.name # p
      /\ nodeClass.status = p => gc.name # p
  BY Zenon, <1>1 DEF Settled, UsedBy
<1>3. MapsOK' /\ ThreadsOK'
  BY ZenonT(30), <1>1 DEF Control, MapsOK, ThreadsOK
<1>4. Over => Over'
  BY ZenonT(30), <1>1 DEF Over
<1>5. PhasesOK' /\ NoneYet' /\ LaunchesOK' /\ DeletesOK' /\ CleanupOK' /\ ChosenOK'
  BY SMTT(30), <1>1, <1>4 DEF Control, PhasesOK, NoneYet, LaunchesOK, DeletesOK, CleanupOK, ChosenOK, CurrentName
<1>6. ASSUME Alive PROVE Alive'
  <2>1. \A q : (Named(q)' <=> Named(q)) /\ (q # p /\ Sheltered(q) => Sheltered(q)')
    BY ZenonT(30), <1>1 DEF Named, Sheltered
  <2>2. NamedHasRole' /\ PatchOK' /\ ReadyOK'
    BY ZenonT(30), <1>1, <1>6, <2>1 DEF Alive, NamedHasRole, PatchOK, ReadyOK, ReadyMeansUsable
  <2>3. LagIsSheltered'
    BY ZenonT(30), <1>1, <1>2, <1>6, <2>1 DEF Alive, LagIsSheltered
  <2>4. RecreatedOK' /\ MakingOK'
    BY ZenonT(30), <1>1, <1>2 DEF RecreatedOK, MakingOK, Making
  <2>5. UseIsSheltered'
    BY ZenonT(30), <1>1, <1>2, <1>6, <2>1 DEF Alive, UseIsSheltered
  <2>6. NotCollected'
    <3>1. ASSUME gc.pc # "idle", Named(gc.name) PROVE gc.name # p
      <4>1. rec.stored.status = None /\ gc.name # None /\ gc.name # Unmanaged
        BY ZenonT(30), <1>2, <3>1, Values, IdleFacts DEF Control, ThreadsOK
      <4> QED BY ZenonT(30), <1>2, <3>1, <4>1 DEF Named
    <3> QED BY ZenonT(30), <1>1, <1>6, <2>1, <3>1 DEF Alive, NotCollected
  <2> QED BY Zenon, <2>2, <2>3, <2>4, <2>5, <2>6 DEF Alive
<1> QED BY Zenon, <1>3, <1>4, <1>5, <1>6 DEF Control

LEMMA RestartStep ==
  ASSUME Control, Restart
  PROVE  Control' /\ (Over => Over') /\ (Alive => Alive')
<1>1. /\ iam' = iam /\ roles' = roles /\ nodeClass' = nodeClass /\ claims' = claims /\ doomed' = doomed
      /\ seenClass' = nodeClass /\ seenClaims' = claims /\ launch' = [c \in Claims |-> None]
      /\ instanceProfileCache' = [p \in Names |-> Absent] /\ roleNotFoundErrorCache' = {} /\ protectedProfileCache' = {}
      /\ recreationCache' = [r \in Roles |-> None] /\ rec' = Idle /\ gc' = GCIdle
      /\ del' = [t \in Threads |-> NoDelete] /\ events < MaxEvents /\ events' = events + 1
  BY Zenon DEF Restart, Fault, Event, iamVars
<1>2. /\ rec' \in RecStates /\ rec'.pc = "idle" /\ rec'.stored.status = None /\ rec'.stored.phase = "live"
      /\ rec'.stored.gen = 1 /\ rec'.stored.obs = 0 /\ rec'.obs = 0
  BY ZenonT(30), <1>1, IdleFacts
<1>3. MapsOK'
  BY <1>1, EventsAssumption DEF Control, MapsOK
<1>4. ThreadsOK'
  <2>1. events \in Nat /\ nodeClass.gen \in Nat
    BY SMTT(30) DEF Control, MapsOK, ThreadsOK, ClassStates
  <2>2. \A n \in {nodeClass', seenClass', rec'.stored} : 1 <= n.gen /\ n.gen <= events' + 1 /\ n.obs <= n.gen
    BY SMTT(30), <1>1, <1>2, <2>1 DEF Control, ThreadsOK
  <2>3. /\ gc' \in [pc : {"idle", "current", "list", "check", "delete"}, name : Profiles \cup {None}] /\ gc'.pc = "idle"
        /\ del' \in [Threads -> [pc : {"none", "get", "remove", "delete"}, name : Profiles \cup {Legacy, None}]]
        /\ \A t \in Threads : del'[t].pc = "none"
    BY Zenon, <1>1 DEF GCIdle, NoDelete
  <2> QED BY ZenonT(30), <1>1, <1>2, <2>2, <2>3 DEF Control, ThreadsOK, Making
<1>5. Over => Over'
  BY Zenon, <1>1, <1>2 DEF Over
<1>6. PhasesOK'
  BY ZenonT(30), <1>1, <1>2, <1>5 DEF Control, PhasesOK, Finalizing, Reconciling, Choosing
<1>7. NoneYet' /\ LaunchesOK'
  BY ZenonT(30), <1>1, <1>2, Values DEF Control, NoneYet, LaunchesOK
<1>8. ChosenOK' /\ CleanupOK'
  BY ZenonT(30), <1>2 DEF ChosenOK, CleanupOK, Making, Choosing, Reconciling
<1>9. DeletesOK'
  BY ZenonT(30), <1>1 DEF DeletesOK, NoDelete, Threads
<1>10. ASSUME Alive PROVE Alive'
  <2>1. \A p : Named(p)' => Named(p) \/ p = None
    BY ZenonT(30), <1>1, <1>2 DEF Named
  <2>2. NamedHasRole'
    BY ZenonT(30), <1>1, <1>10, <2>1, Values DEF Alive, NamedHasRole
  <2>3. LagIsSheltered' /\ RecreatedOK'
    BY ZenonT(30), <1>1, <1>2 DEF LagIsSheltered, RecreatedOK
  <2>4. UseIsSheltered'
    BY Zenon, <1>1 DEF UseIsSheltered
  <2>5. NotCollected' /\ MakingOK' /\ PatchOK'
    BY ZenonT(30), <1>1, <1>2 DEF NotCollected, MakingOK, Making, PatchOK, GCIdle
  <2>6. ReadyOK'
    BY ZenonT(30), <1>1, <1>10 DEF Alive, ReadyOK, ReadyMeansUsable
  <2> QED BY Zenon, <2>2, <2>3, <2>4, <2>5, <2>6 DEF Alive
<1> QED BY Zenon, <1>3, <1>4, <1>5, <1>6, <1>7, <1>8, <1>9, <1>10 DEF Control

LEMMA StandStill ==
  ASSUME Control, UNCHANGED vars
  PROVE  Control' /\ (Over => Over') /\ (Alive => Alive')
<1>1. /\ iam' = iam /\ roles' = roles /\ nodeClass' = nodeClass /\ seenClass' = seenClass /\ claims' = claims
      /\ seenClaims' = seenClaims /\ launch' = launch /\ instanceProfileCache' = instanceProfileCache
      /\ roleNotFoundErrorCache' = roleNotFoundErrorCache /\ protectedProfileCache' = protectedProfileCache
      /\ recreationCache' = recreationCache /\ rec' = rec /\ gc' = gc /\ del' = del /\ events' = events
      /\ doomed' = doomed
  BY Zenon DEF vars, iamVars, apiVars, caches
<1>2. Over => Over'
  BY Zenon, <1>1 DEF Over
<1>3. MapsOK' /\ ThreadsOK'
  BY ZenonT(30), <1>1 DEF Control, MapsOK, ThreadsOK
<1>4. PhasesOK' /\ NoneYet' /\ LaunchesOK' /\ DeletesOK' /\ CleanupOK' /\ ChosenOK'
  BY SMTT(30), <1>1, <1>2 DEF Control, PhasesOK, NoneYet, LaunchesOK, DeletesOK, CleanupOK, ChosenOK, CurrentName
<1>5. ASSUME Alive PROVE Alive'
  <2>1. \A p : (Named(p)' <=> Named(p)) /\ (Sheltered(p)' <=> Sheltered(p))
    BY ZenonT(30), <1>1 DEF Named, Sheltered
  <2>2. NamedHasRole' /\ LagIsSheltered' /\ RecreatedOK' /\ UseIsSheltered'
    BY ZenonT(30), <1>1, <1>5, <2>1 DEF Alive, NamedHasRole, LagIsSheltered, RecreatedOK, UseIsSheltered
  <2>3. NotCollected' /\ MakingOK' /\ PatchOK' /\ ReadyOK'
    BY ZenonT(30), <1>1, <1>5, <2>1 DEF Alive, NotCollected, MakingOK, PatchOK, ReadyOK, ReadyMeansUsable
  <2> QED BY Zenon, <2>2, <2>3 DEF Alive
<1> QED BY Zenon, <1>2, <1>3, <1>4, <1>5 DEF Control

-----------------------------------------------------------------------------
(* The theorems *)

LEMMA InitHolds == Init => ProfileIInv
<1> SUFFICES ASSUME Init PROVE Control /\ Alive
  BY Zenon DEF ProfileIInv
<1>1. PICK upgraded \in BOOLEAN :
         /\ roles = IF upgraded THEN RoleNames ELSE RoleNames \ Missing
         /\ nodeClass = IF upgraded THEN [NodeClass(InitRole, Legacy, 1) EXCEPT !.finalizer = TRUE]
                        ELSE NodeClass(InitRole, None, 0)
         /\ iam = [p \in Names |-> CASE p = Unmanaged -> UserRole
                                   [] p = Legacy /\ upgraded -> BaseOf[InitRole]
                                   [] OTHER -> Absent]
  BY Zenon, InitAssumption DEF Init
<1>2. /\ seenClass = nodeClass /\ claims = [c \in Claims |-> None] /\ seenClaims = claims
      /\ launch = [c \in Claims |-> None] /\ instanceProfileCache = [p \in Names |-> Absent]
      /\ roleNotFoundErrorCache = {} /\ protectedProfileCache = {} /\ recreationCache = [r \in Roles |-> None]
      /\ rec = Idle /\ gc = GCIdle /\ del = [t \in Threads |-> NoDelete] /\ events = 0 /\ doomed = {}
  BY Zenon DEF Init
<1>3. /\ rec \in RecStates /\ rec.pc = "idle" /\ rec.stored.status = None /\ rec.stored.phase = "live"
      /\ rec.stored.gen = 1 /\ rec.stored.obs = 0 /\ rec.obs = 0
  BY ZenonT(30), <1>2, IdleFacts
<1>4. InitRole \in Roles /\ BaseOf[InitRole] \in RoleNames /\ UserRole \in RoleNames
  BY Zenon, InitAssumption, Values
<1>5. /\ nodeClass \in ClassStates /\ nodeClass.phase = "live" /\ nodeClass.gen = 1 /\ nodeClass.role = InitRole
      /\ IF upgraded THEN nodeClass.status = Legacy /\ nodeClass.obs = 1 /\ nodeClass.finalizer
         ELSE nodeClass.status = None /\ nodeClass.obs = 0
  <2>1. CASE upgraded
    <3>1. nodeClass = [phase |-> "live", finalizer |-> TRUE, role |-> InitRole, gen |-> 1, status |-> Legacy, obs |-> 1]
      BY ZenonT(30), <1>1, <2>1 DEF NodeClass
    <3>2. Legacy \in Names
      BY Zenon, Values
    <3> QED BY Zenon, <1>4, <2>1, <3>1, <3>2 DEF ClassStates
  <2>2. CASE ~upgraded
    <3>1. nodeClass = [phase |-> "live", finalizer |-> FALSE, role |-> InitRole, gen |-> 1, status |-> None, obs |-> 0]
      BY Zenon, <1>1, <2>2 DEF NodeClass
    <3> QED BY Zenon, <1>4, <2>2, <3>1 DEF ClassStates
  <2> QED BY Zenon, <2>1, <2>2
<1>6. /\ iam \in [Names -> RoleNames \cup {Absent, Bare}] /\ iam[Unmanaged] = UserRole
      /\ upgraded => iam[Legacy] = BaseOf[InitRole]
  <2>1. Unmanaged \in Names /\ Legacy \in Names /\ Unmanaged # Legacy
    BY Zenon, Values
  <2>2. iam[Unmanaged] = UserRole
    BY Zenon, <1>1, <2>1
  <2>3. upgraded => iam[Legacy] = BaseOf[InitRole]
    BY Zenon, <1>1, <2>1
  <2>4. ASSUME NEW p \in Names PROVE iam[p] \in RoleNames \cup {Absent, Bare}
    <3>1. CASE p = Unmanaged
      BY Zenon, <1>4, <2>2, <3>1
    <3>2. CASE p = Legacy /\ upgraded
      BY Zenon, <1>4, <2>3, <3>2
    <3>3. CASE p # Unmanaged /\ ~(p = Legacy /\ upgraded)
      BY Zenon, <1>1, <3>3
    <3> QED BY Zenon, <3>1, <3>2, <3>3
  <2>5. iam = [p \in Names |-> iam[p]]
    BY <1>1
  <2> QED BY Zenon, <2>2, <2>3, <2>4, <2>5
<1>7. MapsOK
  BY <1>1, <1>2, <1>6, EventsAssumption DEF MapsOK
<1>8. ThreadsOK
  <2>1. /\ gc \in [pc : {"idle", "current", "list", "check", "delete"}, name : Profiles \cup {None}] /\ gc.pc = "idle"
        /\ del \in [Threads -> [pc : {"none", "get", "remove", "delete"}, name : Profiles \cup {Legacy, None}]]
        /\ \A t \in Threads : del[t].pc = "none"
    BY Zenon, <1>2 DEF GCIdle, NoDelete
  <2>2. \A n \in {nodeClass, seenClass, rec.stored} : 1 <= n.gen /\ n.gen <= events + 1 /\ n.obs <= n.gen
    BY SMTT(30), <1>2, <1>3, <1>5
  <2> QED BY ZenonT(30), <1>2, <1>3, <1>5, <2>1, <2>2 DEF ThreadsOK, Making
<1>9. PhasesOK
  BY Zenon, <1>2, <1>3, <1>5 DEF PhasesOK, Finalizing, Reconciling, Choosing
<1>10. NoneYet /\ LaunchesOK
  BY ZenonT(30), <1>2, <1>3, Values DEF NoneYet, LaunchesOK
<1>11. ChosenOK /\ CleanupOK
  BY ZenonT(30), <1>3 DEF ChosenOK, CleanupOK, Making, Choosing, Reconciling
<1>12. DeletesOK
  BY Zenon, <1>2 DEF DeletesOK, NoDelete, Threads
<1>13. NamedHasRole
  <2>1. ASSUME NEW p \in Names, Named(p) PROVE p = Unmanaged \/ (upgraded /\ p = Legacy)
    BY ZenonT(30), <1>2, <1>3, <1>5, <2>1, Values DEF Named
  <2> QED BY ZenonT(30), <1>2, <1>4, <1>6, <2>1, Values DEF NamedHasRole
<1>14. LagIsSheltered /\ RecreatedOK /\ UseIsSheltered
  BY ZenonT(30), <1>2, <1>3, Values DEF LagIsSheltered, RecreatedOK, UseIsSheltered
<1>15. NotCollected /\ MakingOK /\ PatchOK
  BY ZenonT(30), <1>2, <1>3 DEF NotCollected, MakingOK, Making, PatchOK, GCIdle
<1>16. ReadyOK
  BY SMTT(30), <1>4, <1>5, <1>6, Values DEF ReadyOK, ReadyMeansUsable
<1> QED BY Zenon, <1>7, <1>8, <1>9, <1>10, <1>11, <1>12, <1>13, <1>14, <1>15, <1>16 DEF Control, Alive

LEMMA NextHolds == ProfileIInv /\ [Next]_vars => ProfileIInv'
<1> SUFFICES ASSUME Control, [Next]_vars
             PROVE  Control' /\ (Over => Over') /\ (Alive => Over' \/ Alive')
  BY Zenon DEF ProfileIInv
<1>1. CASE Environment
  BY Zenon, <1>1, ChangeRoleStep, DeleteNodeClassStep, CreateRoleStep, ClaimStep DEF Environment
<1>2. CASE InformNodeClass \/ InformClaims
  BY Zenon, <1>2, InformNodeClassStep, InformClaimsStep
<1>3. CASE \E c \in Claims : CreateBegin(c) \/ CreateEnd(c)
  BY Zenon, <1>3, CreateBeginStep, CreateEndStep
<1>4. CASE Reconciler
  <2>1. CASE Start \/ AddFinalizer \/ ReconcileUnmanaged \/ ReconcileRole \/ ReconcileGetFails \/ CreateRefused
    BY Zenon, <2>1, StartStep, AddFinalizerStep, ReconcileUnmanagedStep, ReconcileRoleStep, ReconcileGetFailsStep
  <2>2. CASE CreateProfile \/ ensureRole \/ ReconcileCreated \/ StatusPatch
    BY Zenon, <2>2, CreateProfileStep, ensureRoleStep, ReconcileCreatedStep, StatusPatchStep
  <2>3. CASE FinalizeBegin \/ FinalizeList \/ FinalizeDelete \/ FinalizeEnd
    BY Zenon, <2>3, FinalizeBeginStep, FinalizeListStep, FinalizeDeleteStep, FinalizeEndStep
  <2> QED BY Zenon, <1>4, <2>1, <2>2, <2>3 DEF Reconciler
<1>5. CASE Collector
  BY Zenon, <1>5, getActiveProfilesStep, getCurrentProfilesStep, GCListStep, cleanupInactiveProfilesStep DEF Collector
<1>6. CASE \E t \in Threads : Delete(t)
  BY Zenon, <1>6, DeleteStep
<1>7. CASE (\E p \in Names : ExpireProfile(p) \/ ExpireProtected(p)) \/ ExpireRoleNotFound
  BY Zenon, <1>7, ExpireStep, ExpireProtectedStep
<1>8. CASE \E r \in Roles : ExpireRecreation(r)
  BY Zenon, <1>8, ExpireRecreationStep
<1>9. CASE Restart
  BY Zenon, <1>9, RestartStep
<1>10. CASE UNCHANGED vars
  BY Zenon, <1>10, StandStill
<1> QED BY Zenon, <1>1, <1>2, <1>3, <1>4, <1>5, <1>6, <1>7, <1>8, <1>9, <1>10 DEF Next

LEMMA ProfileInduction == Spec => []ProfileIInv
BY InitHolds, NextHolds, PTL DEF Spec

(* For any names, roles, NodeClaims and any number of events: a profile that *)
(* a NodeClaim or a launch uses is neither collected nor finalized away      *)
(* (save one the collector chose while Create was at work on it), and a      *)
(* NodeClass that reports its profile ready names one with the role of its   *)
(* spec (controllers/nodeclass/instanceprofile.go, garbagecollection).       *)
THEOREM ProfilesAreSafe == Spec => []ProfileInv
<1>1. ProfileIInv => ProfileInv
  <2> SUFFICES ASSUME ProfileIInv PROVE ProfileInv
    BY Zenon
  <2>1. TypeOK
    BY Zenon, TypesFollow DEF ProfileIInv, Control
  <2>2. KeptInUse
    <3>1. ASSUME NEW p \in Names \ doomed, UsedBy(p) # {} PROVE iam[p] \in RoleNames
      <4>1. PICK c \in Claims : claims[c] = p \/ launch[c] = p
        BY Zenon, <3>1 DEF UsedBy
      <4>2. ~Over
        BY Zenon, <3>1, <4>1, Values DEF Over
      <4>3. Alive /\ Named(p)
        BY Zenon, <4>1, <4>2 DEF ProfileIInv, Named
      <4> QED BY Zenon, <3>1, <4>3 DEF Alive, NamedHasRole
    <3> QED BY Zenon, <3>1 DEF KeptInUse
  <2>3. ReadyMeansUsable
    <3>1. CASE Over
      BY Zenon, <3>1 DEF Over, ReadyMeansUsable
    <3>2. CASE Alive
      BY Zenon, <3>2 DEF Alive, ReadyOK
    <3> QED BY Zenon, <3>1, <3>2 DEF ProfileIInv
  <2> QED BY Zenon, <2>1, <2>2, <2>3 DEF ProfileInv
<1> QED BY <1>1, ProfileInduction, PTL

(* When the finalizer is removed no profile of the NodeClass is left in IAM, *)
(* the legacy one included, whatever failed or restarted on the way          *)
(* (cleanupManagedInstanceProfiles of controllers/nodeclass/controller.go).  *)
THEOREM FinalizeLeavesNone == Spec => FinalizedIsClean
<1>1. ProfileIInv /\ [Next]_vars
      => [nodeClass.phase = "deleting" /\ nodeClass'.phase = "gone"
            => \A p \in Profiles \cup {Legacy} : iam'[p] = Absent]_vars
  <2> SUFFICES ASSUME Control, Next, nodeClass.phase = "deleting", nodeClass'.phase = "gone"
               PROVE  \A p \in Profiles \cup {Legacy} : iam'[p] = Absent
    BY Zenon DEF ProfileIInv
  <2>1. nodeClass \in ClassStates /\ rec.stored \in ClassStates /\ nodeClass' # nodeClass
    BY Zenon DEF Control, ThreadsOK, RecStates
  <2>2. ~Environment
    BY Zenon, <2>1 DEF Environment, ChangeRole, DeleteNodeClass, CreateRole, CreateClaim, DeleteClaim, apiVars
  <2>3. ~(InformNodeClass \/ InformClaims \/ \E c \in Claims : CreateBegin(c) \/ CreateEnd(c))
    BY Zenon, <2>1 DEF InformNodeClass, InformClaims, CreateBegin, CreateEnd, apiVars
  <2>4. ~(Start \/ ReconcileUnmanaged \/ ReconcileRole \/ ReconcileGetFails \/ CreateRefused)
    BY Zenon, <2>1 DEF Start, ReconcileUnmanaged, ReconcileRole, ReconcileGetFails, CreateRefused, apiVars
  <2>5. ~(CreateProfile \/ ensureRole \/ ReconcileCreated \/ FinalizeBegin \/ FinalizeList \/ FinalizeDelete)
    BY ZenonT(30), <2>1 DEF CreateProfile, ensureRole, ReconcileCreated, FinalizeBegin, FinalizeList, FinalizeDelete, apiVars
  <2>6. ~Collector
    BY Zenon, <2>1 DEF Collector, getActiveProfiles, getCurrentProfiles, GCList, cleanupInactiveProfiles, apiVars
  <2>7. ~(\E t \in Threads : Delete(t))
    BY ZenonT(30), <2>1 DEF Delete, DeleteGet, DeleteRemoveRole, DeleteProfile, apiVars
  <2>8. ~((\E p \in Names : ExpireProfile(p) \/ ExpireProtected(p)) \/ ExpireRoleNotFound
            \/ (\E r \in Roles : ExpireRecreation(r)) \/ Restart)
    BY ZenonT(30), <2>1 DEF ExpireProfile, ExpireProtected, ExpireRoleNotFound, ExpireRecreation, Restart, apiVars
  <2>9. ~AddFinalizer
    <3>1. ASSUME nodeClass' = [nodeClass EXCEPT !.finalizer = TRUE] PROVE FALSE
      BY Zenon, <2>1, <3>1 DEF ClassStates
    <3> QED BY Zenon, <2>1, <3>1 DEF AddFinalizer
  <2>10. ~StatusPatch
    <3>1. ASSUME nodeClass = rec.stored, nodeClass' = [rec.stored EXCEPT !.status = rec.status, !.obs = rec.obs] PROVE FALSE
      BY Zenon, <2>1, <3>1 DEF ClassStates
    <3> QED BY Zenon, <2>1, <3>1 DEF StatusPatch
  <2>11. FinalizeEnd
    BY Zenon, <2>2, <2>3, <2>4, <2>5, <2>6, <2>7, <2>8, <2>9, <2>10 DEF Next, Reconciler
  <2>12. rec.pc = "cleanup" /\ rec.todo = {} /\ iam' = iam
    BY Zenon, <2>11 DEF FinalizeEnd, iamVars
  <2> QED BY Zenon, <2>12 DEF Control, CleanupOK
<1> QED BY <1>1, ProfileInduction, PTL DEF Spec, FinalizedIsClean
=============================================================================
