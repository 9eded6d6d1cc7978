------------------------------- MODULE Pricing -------------------------------
(***************************************************************************)
(* Prices (providers/pricing, controllers/providers/pricing).  They start     *)
(* with the table compiled in, spot at the price on demand.  Every 12 hours,  *)
(* or at once after an error, two polls run side by side: one asks EC2 for     *)
(* the spot prices page by page, the other the Pricing API for the prices on   *)
(* demand, of virtual and of bare-metal types in parallel.  Each holds its     *)
(* lock over all of its calls.  The offering resolver                          *)
(* (providers/instancetype/offering) reads one price after the other and       *)
(* offers nothing that has no price.  A price is a number, 0 is none; a page   *)
(* of spot prices holds those of one zone.  External: what AWS publishes.      *)
(***************************************************************************)
EXTENDS Naturals

CONSTANTS PricedTypes,       \* instance types
          MetalTypes,        \* the bare-metal ones
          StaticTypes,       \* those in the compiled table, all at price 1
          PriceZones,        \* availability zones
          SteadyOffers,      \* <<type, zone>> that AWS always has a spot price for
          MaxPrice,
          MaxPricingEvents   \* bound on failing calls, restarts and changes of prices

ASSUME PricingAssumption ==
  /\ MetalTypes \cup StaticTypes \subseteq PricedTypes
  /\ SteadyOffers \subseteq PricedTypes \X PriceZones
  /\ MaxPrice \in Nat \ {0}
  /\ MaxPricingEvents \in Nat

VARIABLES
  isolated,        \* isolated VPC or GovCloud: no polls of the Pricing API
  published,       \* AWS: [onDemand, spot]
  onDemandPrices,  \* type |-> price
  spotPrices,      \* type |-> [known, defaultPrice, prices]
  spotPricingUpdated,
  spotPoll,        \* UpdateSpotPricing: [pc, left, prices]
  onDemandPoll,    \* UpdateOnDemandPricing: [pc, left, prices, failed]
  resolver,        \* what the resolver reads next: "idle", "onDemand" or "spot"
  pricingEvents    \* events so far

prices == <<onDemandPrices, spotPrices, spotPricingUpdated>>
pricingVars == <<isolated, published, prices, spotPoll, onDemandPoll, resolver, pricingEvents>>

SpotOffers == PricedTypes \X PriceZones
Price == 0..MaxPrice
NoPrices == [o \in SpotOffers |-> 0]
NoOnDemand == [t \in PricedTypes |-> 0]
IdleSpotPoll == [pc |-> "idle", left |-> {}, prices |-> NoPrices]
IdleOnDemandPoll == [pc |-> "idle", left |-> {}, prices |-> NoOnDemand, failed |-> FALSE]

staticPricing == [t \in PricedTypes |-> IF t \in StaticTypes THEN 1 ELSE 0]

populateInitialSpotPricing ==
  [t \in PricedTypes |-> [known |-> t \in StaticTypes, defaultPrice |-> staticPricing[t], prices |-> [z \in PriceZones |-> 0]]]

PricingInit ==
  /\ isolated \in BOOLEAN
  /\ published = [onDemand |-> [t \in PricedTypes |-> 1],
                  spot |-> [o \in SpotOffers |-> IF o \in SteadyOffers THEN 1 ELSE 0]]
  /\ onDemandPrices = staticPricing
  /\ spotPrices = populateInitialSpotPricing
  /\ spotPricingUpdated = FALSE
  /\ spotPoll = IdleSpotPoll
  /\ onDemandPoll = IdleOnDemandPoll
  /\ resolver = "idle"
  /\ pricingEvents = 0

PricingEvent == pricingEvents < MaxPricingEvents /\ pricingEvents' = pricingEvents + 1

-----------------------------------------------------------------------------
(* External: AWS changes a price, or lists an offer no longer.               *)
ChangeSpot(o, p) ==
  /\ PricingEvent /\ p # published.spot[o] /\ (p = 0 => o \notin SteadyOffers)
  /\ published' = [published EXCEPT !.spot[o] = p]
  /\ UNCHANGED <<isolated, prices, spotPoll, onDemandPoll, resolver>>

ChangeOnDemand(t, p) ==
  /\ PricingEvent /\ p # published.onDemand[t]
  /\ published' = [published EXCEPT !.onDemand[t] = p]
  /\ UNCHANGED <<isolated, prices, spotPoll, onDemandPoll, resolver>>

RestartPricing ==
  /\ PricingEvent
  /\ onDemandPrices' = staticPricing
  /\ spotPrices' = populateInitialSpotPricing
  /\ spotPricingUpdated' = FALSE
  /\ spotPoll' = IdleSpotPoll /\ onDemandPoll' = IdleOnDemandPoll /\ resolver' = "idle"
  /\ UNCHANGED <<isolated, published>>

-----------------------------------------------------------------------------
(* The polls of the controller; a pass ends when both have returned.         *)
StartPolls ==
  /\ spotPoll.pc = "idle" /\ onDemandPoll.pc = "idle"
  /\ spotPoll' = [IdleSpotPoll EXCEPT !.pc = "pages", !.left = PriceZones]
  /\ onDemandPoll' = IF isolated THEN IdleOnDemandPoll
                     ELSE [IdleOnDemandPoll EXCEPT !.pc = "fetch", !.left = {"standard", "metal"}]
  /\ UNCHANGED <<isolated, published, prices, resolver, pricingEvents>>

spotPage(z) == [o \in SpotOffers |-> IF o[2] = z THEN published.spot[o] ELSE 0]

(* Later prices win, and earlier ones are kept where there is no later one.  *)
combineZonalPricing(old, new) == [z \in PriceZones |-> IF new[z] # 0 THEN new[z] ELSE old[z]]

Of(ps, t) == [z \in PriceZones |-> ps[<<t, z>>]]

(* Types without a new price keep their entry as it is.                      *)
StoreSpot(ps) ==
  /\ spotPrices' = [t \in PricedTypes |->
       IF \A z \in PriceZones : ps[<<t, z>>] = 0 THEN spotPrices[t]
       ELSE [spotPrices[t] EXCEPT !.known = TRUE, !.prices = combineZonalPricing(@, Of(ps, t))]]
  /\ spotPricingUpdated' = TRUE
  /\ UNCHANGED onDemandPrices

SpotPage ==
  /\ spotPoll.pc = "pages"
  /\ \E z \in spotPoll.left :
       LET got == [o \in SpotOffers |-> IF spotPage(z)[o] # 0 THEN spotPage(z)[o] ELSE spotPoll.prices[o]]
       IN  spotPoll' = [spotPoll EXCEPT !.left = @ \ {z}, !.prices = got]
  /\ UNCHANGED <<isolated, published, prices, onDemandPoll, resolver, pricingEvents>>

\* Mutant: after an error the pages that came are stored.
SpotFailsStored ==
  /\ spotPoll.pc = "pages" /\ spotPoll.left # {} /\ PricingEvent
  /\ StoreSpot(spotPoll.prices)
  /\ spotPoll' = IdleSpotPoll
  /\ UNCHANGED <<isolated, published, onDemandPoll, resolver>>

(* A page that fails ends the poll and nothing is stored.                    *)
SpotFails ==
  /\ spotPoll.pc = "pages" /\ spotPoll.left # {} /\ PricingEvent
  /\ spotPoll' = IdleSpotPoll
  /\ UNCHANGED <<isolated, published, prices, onDemandPoll, resolver>>

UpdateSpotPricing ==
  /\ spotPoll.pc = "pages" /\ spotPoll.left = {}
  /\ IF spotPoll.prices = NoPrices THEN UNCHANGED prices ELSE StoreSpot(spotPoll.prices)
  /\ spotPoll' = IdleSpotPoll
  /\ UNCHANGED <<isolated, published, onDemandPoll, resolver, pricingEvents>>

Family(f) == IF f = "metal" THEN MetalTypes ELSE PricedTypes \ MetalTypes

(* One of the two parallel fetches returns; with an error it has no prices.  *)
fetchOnDemandPricing(f) ==
  /\ onDemandPoll.pc = "fetch" /\ f \in onDemandPoll.left
  /\ \/ /\ onDemandPoll' = [onDemandPoll EXCEPT !.left = @ \ {f},
             !.prices = [t \in PricedTypes |-> IF t \in Family(f) THEN published.onDemand[t] ELSE @[t]]]
        /\ UNCHANGED pricingEvents
     \/ /\ PricingEvent
        /\ onDemandPoll' = [onDemandPoll EXCEPT !.left = @ \ {f}, !.failed = TRUE]
  /\ UNCHANGED <<isolated, published, prices, spotPoll, resolver>>

(* Both must have succeeded and found something.                             *)
FetchedAll ==
  ~onDemandPoll.failed /\ \A f \in {"standard", "metal"} : \E t \in Family(f) : onDemandPoll.prices[t] # 0

\* Mutant: an error is returned with the lock held.
UpdateOnDemandLocked ==
  /\ onDemandPoll.pc = "fetch" /\ onDemandPoll.left = {} /\ FetchedAll
  /\ onDemandPrices' = [t \in PricedTypes |-> IF onDemandPoll.prices[t] # 0 THEN onDemandPoll.prices[t] ELSE onDemandPrices[t]]
  /\ onDemandPoll' = IdleOnDemandPoll
  /\ UNCHANGED <<isolated, published, spotPrices, spotPricingUpdated, spotPoll, resolver, pricingEvents>>

UpdateOnDemandPricing ==
  /\ onDemandPoll.pc = "fetch" /\ onDemandPoll.left = {}
  /\ onDemandPrices' = IF FetchedAll
                       THEN [t \in PricedTypes |-> IF onDemandPoll.prices[t] # 0 THEN onDemandPoll.prices[t] ELSE onDemandPrices[t]]
                       ELSE onDemandPrices
  /\ onDemandPoll' = IdleOnDemandPoll
  /\ UNCHANGED <<isolated, published, spotPrices, spotPricingUpdated, spotPoll, resolver, pricingEvents>>

-----------------------------------------------------------------------------
(* createOfferings reads the prices of a type, each under the read lock of its *)
(* map, which it gets when no poll holds the lock.                           *)
OnDemandPrice(t) == onDemandPrices[t]

SpotPrice(t, z) ==
  IF ~spotPrices[t].known THEN 0
  ELSE IF ~spotPricingUpdated THEN spotPrices[t].defaultPrice
  ELSE spotPrices[t].prices[z]

Resolve ==
  /\ resolver = "idle"
  /\ resolver' = "onDemand"
  /\ UNCHANGED <<isolated, published, prices, spotPoll, onDemandPoll, pricingEvents>>

ReadOnDemand ==
  /\ resolver = "onDemand" /\ onDemandPoll.pc = "idle"
  /\ resolver' = "spot"
  /\ UNCHANGED <<isolated, published, prices, spotPoll, onDemandPoll, pricingEvents>>

ReadSpot ==
  /\ resolver = "spot" /\ spotPoll.pc = "idle"
  /\ resolver' = "idle"
  /\ UNCHANGED <<isolated, published, prices, spotPoll, onDemandPoll, pricingEvents>>

-----------------------------------------------------------------------------
SpotPoller == SpotPage \/ UpdateSpotPricing
OnDemandPoller == (\E f \in {"standard", "metal"} : fetchOnDemandPricing(f)) \/ UpdateOnDemandPricing

PricingNext ==
  \/ \E o \in SpotOffers, p \in Price : ChangeSpot(o, p)
  \/ \E t \in PricedTypes, p \in Price : ChangeOnDemand(t, p)
  \/ RestartPricing \/ StartPolls \/ SpotPoller \/ SpotFails \/ OnDemandPoller
  \/ Resolve \/ ReadOnDemand \/ ReadSpot

(* The controller polls for ever, calls return, and a waiting reader gets its *)
(* turn between two polls: sync.RWMutex lets readers that wait in before the   *)
(* next writer.                                                              *)
PricingSpec ==
  /\ PricingInit /\ [][PricingNext]_pricingVars
  /\ WF_pricingVars(StartPolls) /\ WF_pricingVars(SpotPoller) /\ WF_pricingVars(OnDemandPoller)
  /\ SF_pricingVars(ReadOnDemand) /\ SF_pricingVars(ReadSpot)

-----------------------------------------------------------------------------
(* Type correctness.                                                         *)
PricingTypeOK ==
  /\ published \in [onDemand : [PricedTypes -> Price], spot : [SpotOffers -> Price]]
  /\ onDemandPrices \in [PricedTypes -> Price]
  /\ spotPrices \in [PricedTypes -> [known : BOOLEAN, defaultPrice : Price, prices : [PriceZones -> Price]]]
  /\ isolated \in BOOLEAN /\ spotPricingUpdated \in BOOLEAN
  /\ spotPoll \in [pc : {"idle", "pages"}, left : SUBSET PriceZones, prices : [SpotOffers -> Price]]
  /\ onDemandPoll \in [pc : {"idle", "fetch"}, left : SUBSET {"standard", "metal"}, prices : [PricedTypes -> Price], failed : BOOLEAN]
  /\ resolver \in {"idle", "onDemand", "spot"}
  /\ pricingEvents \in 0..MaxPricingEvents

(* A type of the compiled table has a spot price in every zone in which EC2    *)
(* always publishes one, from the start and across failing pages: an error     *)
(* of UpdateSpotPricing must not leave spotPricingUpdated with half the prices *)
(* and so take offerings away.                                               *)
SteadyIsPriced ==
  \A o \in SteadyOffers : o[1] \in StaticTypes => SpotPrice(o[1], o[2]) # 0

(* UpdateSpotPricing and UpdateOnDemandPricing keep what they retrieved         *)
(* before: within one process a price that a poll brought is only replaced by  *)
(* a price, also when AWS stops listing the offer.                            *)
PricesAreMaintained ==
  [][RestartPricing \/
     \A t \in PricedTypes :
       /\ onDemandPrices[t] # 0 => onDemandPrices'[t] # 0
       /\ \A z \in PriceZones : spotPrices[t].prices[z] # 0 => spotPrices'[t].prices[z] # 0]_pricingVars

(* A spot price that AWS changed and then leaves alone reaches SpotPrice, past  *)
(* failing pages and restarts.                                               *)
SpotIsFollowed ==
  \A o \in SpotOffers : ~<>[](published.spot[o] # 0 /\ SpotPrice(o[1], o[2]) # published.spot[o])

(* A price on demand does as well, where the Pricing API is polled at all and   *)
(* lists both a virtual and a bare-metal type.                                *)
OnDemandIsFollowed ==
  \A t \in PricedTypes :
    ~<>[](/\ ~isolated /\ published.onDemand[t] # 0 /\ OnDemandPrice(t) # published.onDemand[t]
          /\ \A f \in {"standard", "metal"} : \E u \in Family(f) : published.onDemand[u] # 0)

(* createOfferings, which waits for a poll that holds its lock over calls to    *)
(* AWS, always returns: every end of a poll gives the lock back, an error and   *)
(* an empty answer as well.                                                   *)
ResolverReturns == ~<>[](resolver # "idle")

(* Why: the pages a poll has read hold the steady offers of their zones, so     *)
(* that all of them are there when UpdateSpotPricing stores, and the default    *)
(* price is there until it does.                                             *)
PollHoldsSteady ==
  /\ \A o \in SteadyOffers : published.spot[o] # 0
  /\ \A o \in SteadyOffers : spotPoll.pc = "pages" /\ o[2] \notin spotPoll.left => spotPoll.prices[o] # 0
  /\ \A o \in SteadyOffers : spotPricingUpdated => spotPrices[o[1]].known /\ spotPrices[o[1]].prices[o[2]] # 0
  /\ \A t \in StaticTypes : spotPrices[t].known /\ spotPrices[t].defaultPrice # 0

(* Safety of the pricing provider: well-formed, and no offering loses its       *)
(* price to a poll that failed.                                              *)
PricingInv == PricingTypeOK /\ SteadyIsPriced /\ PollHoldsSteady

(* What the polls promise over time: prices are kept, they follow AWS, and      *)
(* readers are not locked out.                                               *)
PricingLive == PricesAreMaintained /\ SpotIsFollowed /\ OnDemandIsFollowed /\ ResolverReturns
=============================================================================
