------------------------------ MODULE ZonalShift ------------------------------
(***************************************************************************)
(* Zonal shifts (providers/arczonalshift, controllers/arczonalshift).  The   *)
(* provider keeps the shifts ARC reported, with their expiry; the controller *)
(* updates them every 30 seconds and publishes an event when a zone starts or *)
(* stops being shifted.  Before the first update the first reader updates    *)
(* them itself, so two answers of ARC can be under way and be stored in      *)
(* either order.  ARC, the clock and the objects of the API server are       *)
(* external.                                                                 *)
(***************************************************************************)
EXTENDS Naturals, FiniteSets

CONSTANTS Zones,         \* zone IDs
          ReachableZones,\* zones of the subnets and the requirements of the NodePool
          ShiftHorizon,  \* bound on the clock
          MaxShiftEvents \* bound on changes in ARC and on failing calls

ASSUME ZonesAssumption == ReachableZones \subseteq Zones

Updaters == {"controller", "reader"}

VARIABLES
  now,             \* the clock
  arc,             \* zone |-> [expiry, applied]; expiry 0: no shift
  statuses,        \* zonalShiftStatuses
  hydrated,
  update,          \* updater |-> [pc, shifts]: the answer of ARC it has not stored yet
  previousShifted, \* previousShiftedZones
  detected,        \* zones whose last event is NodePoolZonalShiftDetected
  shiftEvents      \* changes and failures so far

zonalShiftVars == <<now, arc, statuses, hydrated, update, previousShifted, detected, shiftEvents>>

Beyond == ShiftHorizon + 1   \* the expiry of a shift that outlasts the run
NoShift == [expiry |-> 0, applied |-> FALSE]
ShiftStatus == [expiry : 0..Beyond, applied : BOOLEAN]
Active(s) == s.expiry > now
IdleUpdate == [pc |-> "idle", shifts |-> [z \in Zones |-> NoShift]]

ZonalShiftInit ==
  /\ now = 0
  /\ arc = [z \in Zones |-> NoShift]
  /\ statuses = arc
  /\ hydrated = FALSE
  /\ update = [u \in Updaters |-> IdleUpdate]
  /\ previousShifted = {} /\ detected = {}
  /\ shiftEvents = 0

ShiftEvent == shiftEvents < MaxShiftEvents /\ shiftEvents' = shiftEvents + 1

-----------------------------------------------------------------------------
(* External: ARC starts, changes or cancels a shift, and drops it when it     *)
(* expires.                                                                  *)
ChangeShift(z) ==
  /\ ShiftEvent
  /\ \E s \in {NoShift} \cup [expiry : {ShiftHorizon, Beyond}, applied : BOOLEAN] :
       /\ s # arc[z] /\ (s # NoShift => Active(s))
       /\ arc' = [arc EXCEPT ![z] = s]
  /\ UNCHANGED <<now, statuses, hydrated, update, previousShifted, detected>>

Tick ==
  /\ now < ShiftHorizon
  /\ now' = now + 1
  /\ arc' = [z \in Zones |-> IF arc[z].expiry > now + 1 THEN arc[z] ELSE NoShift]
  /\ UNCHANGED <<statuses, hydrated, update, previousShifted, detected, shiftEvents>>

-----------------------------------------------------------------------------
(* GetManagedResource, outside the lock.                                     *)
Fetch(u) ==
  /\ update[u].pc = "idle" /\ (u = "reader" => ~hydrated)
  /\ update' = [update EXCEPT ![u] = [pc |-> "fetched", shifts |-> arc]]
  /\ UNCHANGED <<now, arc, statuses, hydrated, previousShifted, detected, shiftEvents>>

\* Mutant: a zone that is stored already keeps its status.
UpdateKeepsFirst(shifts) ==
  IF \A z \in Zones : shifts[z] = NoShift THEN shifts
  ELSE [z \in Zones |-> IF statuses[z] = NoShift THEN shifts[z] ELSE statuses[z]]

(* An empty answer resets the store, any other one overwrites the zones it    *)
(* names.                                                                    *)
UpdateZonalShifts(shifts) ==
  IF \A z \in Zones : shifts[z] = NoShift THEN shifts
  ELSE [z \in Zones |-> IF shifts[z] # NoShift THEN shifts[z] ELSE statuses[z]]

(* ensureHydrated of a reader.                                               *)
Hydrate ==
  /\ update["reader"].pc = "fetched"
  /\ statuses' = UpdateZonalShifts(update["reader"].shifts)
  /\ hydrated' = TRUE
  /\ update' = [update EXCEPT !["reader"] = IdleUpdate]
  /\ UNCHANGED <<now, arc, previousShifted, detected, shiftEvents>>

IsZonalShifted(s) == Active(s) /\ s.applied
ShiftedZones == {z \in Zones : IsZonalShifted(statuses[z])}

UpdateStore ==
  /\ update["controller"].pc = "fetched"
  /\ statuses' = UpdateZonalShifts(update["controller"].shifts)
  /\ update' = [update EXCEPT !["controller"].pc = "publish"]
  /\ UNCHANGED <<now, arc, hydrated, previousShifted, detected, shiftEvents>>

(* The NodePools and NodeClasses are read only when the set has changed; an   *)
(* error leaves previousShiftedZones for the next pass.                      *)
PublishZonalShiftEvents ==
  LET shifted == (ShiftedZones \ previousShifted) \cap ReachableZones
      cleared == (previousShifted \ ShiftedZones) \cap ReachableZones
  IN (detected \cup shifted) \ cleared

Publish ==
  /\ update["controller"].pc = "publish"
  /\ update' = [update EXCEPT !["controller"] = IdleUpdate]
  /\ \/ detected' = PublishZonalShiftEvents /\ previousShifted' = ShiftedZones /\ UNCHANGED shiftEvents
     \/ ShiftedZones # previousShifted /\ ShiftEvent /\ UNCHANGED <<detected, previousShifted>>
  /\ UNCHANGED <<now, arc, statuses, hydrated>>

(* GetManagedResource fails: the reader goes on unhydrated.                  *)
UpdateFails(u) ==
  /\ update[u].pc = "fetched" /\ ShiftEvent
  /\ update' = [update EXCEPT ![u] = IdleUpdate]
  /\ UNCHANGED <<now, arc, statuses, hydrated, previousShifted, detected>>

-----------------------------------------------------------------------------
ShiftController == Fetch("controller") \/ UpdateStore \/ Publish
ShiftReader == Fetch("reader") \/ Hydrate
ZonalShiftNext ==
  \/ \E z \in Zones : ChangeShift(z)
  \/ Tick \/ ShiftController \/ ShiftReader
  \/ \E u \in Updaters : UpdateFails(u)

(* The controller runs every 30 seconds, a reader that called ARC gets its    *)
(* answer, and time goes on.                                                 *)
ZonalShiftSpec ==
  /\ ZonalShiftInit /\ [][ZonalShiftNext]_zonalShiftVars
  /\ WF_zonalShiftVars(ShiftController) /\ WF_zonalShiftVars(Hydrate) /\ WF_zonalShiftVars(Tick)

-----------------------------------------------------------------------------
(* Type correctness.  Events name zones a NodePool can use only, and only a   *)
(* zone that was seen shifted has an open event.                             *)
ZonalShiftTypeOK ==
  /\ now \in 0..ShiftHorizon
  /\ arc \in [Zones -> ShiftStatus] /\ statuses \in [Zones -> ShiftStatus]
  /\ hydrated \in BOOLEAN
  /\ update \in [Updaters -> [pc : {"idle", "fetched", "publish"}, shifts : [Zones -> ShiftStatus]]]
  /\ previousShifted \subseteq Zones
  /\ detected = previousShifted \cap ReachableZones
  /\ shiftEvents \in 0..MaxShiftEvents

(* A zone that ARC keeps shifted is treated as shifted, also when an older     *)
(* answer was stored after a newer one (UpdateZonalShifts calls ARC outside   *)
(* the lock).                                                                *)
ShiftIsSeen ==
  \A z \in Zones : ~<>[](Active(arc[z]) /\ arc[z].applied /\ z \notin ShiftedZones)

(* The store keeps a cancelled shift while another zone is shifted.          *)
Lingers(z) == statuses[z].expiry = Beyond /\ \E y \in Zones : Active(arc[y])

(* A zone whose shift is over is used again and the open event is closed, at   *)
(* the latest when the stored shift expires.                                 *)
ShiftIsCleared ==
  \A z \in Zones : ~<>[](~Active(arc[z]) /\ z \in ShiftedZones \cup detected /\ ~Lingers(z))

(* What the zonal-shift provider promises: shifts are seen, cleared, and        *)
(* reported for the zones NodePools use.                                     *)
ZonalShiftContract == []ZonalShiftTypeOK /\ ShiftIsSeen /\ ShiftIsCleared
=============================================================================
