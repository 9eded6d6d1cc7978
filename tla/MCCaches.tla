------------------------------- MODULE MCCaches -------------------------------
(***************************************************************************)
(* Instances of two providers whose caches must keep step with AWS: launch    *)
(* templates and capacity reservations.  They share no state: a behaviour      *)
(* picks one and runs it under its own fairness.                              *)
(***************************************************************************)
EXTENDS MCLaunchTemplate, CapacityReservation

VARIABLE mode  \* the provider that runs

vars == <<mode, templateVars, reservationVars>>

Init ==
  /\ mode \in {"templates", "reservations"}
  /\ TemplateInit /\ (mode # "templates" => \A n \in Names : ec2[n] = NoTemplate)
  /\ ReservationInit

(* The launches need the same templates: it does not matter which one begins   *)
(* first.                                                                     *)
FirstBegins == launch["l1"].pc = "begin" /\ launch["l1"].try = 1 => launch'["l2"] = launch["l2"]

Templates == mode = "templates" /\ UNCHANGED <<mode, reservationVars>>
OfReservations == mode = "reservations" /\ UNCHANGED <<mode, templateVars>>

Next ==
  \/ Templates /\ TemplateNext /\ FirstBegins
  \/ OfReservations /\ ReservationNext

(* The fairness of FairTemplateSpec and FairReservationSpec.  As only one         *)
(* provider runs in a behaviour, one conjunct serves an action of each.        *)
Fairness ==
  /\ SF_vars(OfReservations /\ ListDescribe)
  /\ WF_vars(\/ Templates /\ LaunchStep("l1")
             \/ OfReservations /\ (\E q \in Queries : ListStart(q)))
  /\ WF_vars(Templates /\ LaunchStep("l2"))
  /\ WF_vars(Templates /\ JanitorStep)
  /\ WF_vars(Templates /\ HydrateStep)
  /\ WF_vars(\/ Templates /\ ExpireTemplate("n1")
             \/ OfReservations /\ (SyncNow \/ SyncStore))
  /\ WF_vars(\/ Templates /\ ExpireTemplate("n2")
             \/ OfReservations /\ (\E q \in Queries : QueryExpire(q)))

Spec == Init /\ [][Next]_vars /\ Fairness

(* UsableAgain of the capacity reservation provider, while it runs: polling   *)
(* makes a reservation with free instances usable again.                     *)
ReservationUsableAgain == mode = "reservations" => UsableAgain

(* TemplateLive of the launch template provider, while it runs: neither the   *)
(* lock nor the callback taken off and put back stops a launch, and what      *)
(* nobody uses is deleted.                                                    *)
TemplatesSettle == mode = "templates" => TemplateLive
=============================================================================
