------------------------------- MODULE MCGame -------------------------------
(* What a game day runs, each in an instance of its own: its events, the   *)
(* session that runs the days, the market, what a pop buys, the treasury,  *)
(* an operation and an artisan.  part says which of them this behaviour is *)
(* about, and the others keep still.                                       *)
EXTENDS GameEvents, GameSession, NeedsAllocation, MCEconomy

VARIABLE part

(* Two countries and a province of the first.  A spontaneous               *)
(* fire_only_once event has options that fire and queue another, which     *)
(* fires a province event that queues it again.                            *)
MCCountryOrder == <<"A", "B">>
MCProvinceOrder == <<"p", "q">>
MCOwnerOf == [p |-> "A", q |-> "nobody"]

Effect(e, scope, d) == [event |-> e, scope |-> scope, delay |-> d]
Scope == [t \in Targets |-> t]
Neighbour == [A |-> "B"]
Capital == [A |-> "p", B |-> "q"]
Owner == [p |-> "A"]

MCEventOrder == <<"levy", "news", "riot">>
MCKindOf == [levy |-> "country", news |-> "country", riot |-> "province"]
MCImmediateOf ==
  [levy |-> <<Effect("riot", Scope, 0)>>, news |-> <<>>, riot |-> <<Effect("news", Owner, 1)>>]
MCOptionsOf ==
  [levy |-> <<<<Effect("news", Neighbour, 0)>>, <<Effect("news", Scope, 1)>>>>,
   news |-> <<<<Effect("riot", Capital, 0)>>>>,
   riot |-> <<>>]
MCTablesOn == <<<<>>, <<{"levy", "news"}>>, <<>>>>

(* The market and a pop. *)
BothRules == BOOLEAN
OrderQuantities == {2, 4}
OneCountry == {"FRA"}
ThreeGoods == 1 .. 3
TwoCategories == 1 .. 2
TwoPrices == {3, 7}
SomeNeeds == {0, 1, 8}
SomeCash == {7, 30}

-----------------------------------------------------------------------------
gameVars ==
  <<part, eventVars, sessionVars, marketVars, needsVars, treasuryVars, rgoVars, artisanVars>>


(* The choices a part starts from are made for that part only. *)
GameInit ==
  /\ part \in {"events", "session", "market", "needs", "treasury", "production", "artisans"}
  /\ InitEvents /\ (part = "events" \/ players = {})
  /\ InitSession
  /\ MarketInit /\ (part = "market" \/ (is_available = TRUE /\ optimal = FALSE))
  /\ TreasuryInit /\ (part = "treasury" \/ OneTreasury)
  /\ ProductionInit /\ (part = "production" \/ OneFarm)
  /\ ArtisansInit /\ (part = "artisans" \/ OneArtisan)
  /\ IF part = "needs" THEN NeedsInit
     ELSE /\ good_price = [g \in Good |-> One] /\ needs = [k \in Category |-> [g \in Good |-> 0]]
          /\ cash = 0 /\ spending = [g \in Good |-> 0] /\ cash_left = -1

OthersStill ==
  /\ part # "events" => UNCHANGED eventVars
  /\ part # "session" => UNCHANGED sessionVars
  /\ part # "market" => UNCHANGED marketVars
  /\ part # "needs" => UNCHANGED needsVars
  /\ part # "treasury" => UNCHANGED treasuryVars
  /\ part # "production" => UNCHANGED rgoVars
  /\ part # "artisans" => UNCHANGED artisanVars

GameNext ==
  /\ UNCHANGED part
  /\ \/ part = "events" /\ NextEvents /\ OthersStill
     \/ part = "session" /\ NextSession /\ OthersStill
     \/ part = "market" /\ MarketNext /\ OthersStill
     \/ part = "needs" /\ pop_tick /\ OthersStill
     \/ part = "treasury" /\ TreasuryNext /\ OthersStill
     \/ part = "production" /\ ProductionNext /\ OthersStill
     \/ part = "artisans" /\ ArtisansNext /\ OthersStill

(* Each keeps the fairness of its own module. *)
GameFairness ==
  /\ WF_eventVars(part = "events" /\ Tick)
  /\ WF_sessionVars(part = "session" /\ SessionStep)
  /\ SF_sessionVars(part = "session" /\ UpdateClock)
  /\ WF_sessionVars(part = "session" /\ Elapse)

GameSpec == GameInit /\ [][GameNext]_gameVars /\ GameFairness

-----------------------------------------------------------------------------
(* A game goes on: a tick of the events ends, whatever they fire, and a    *)
(* clock that runs brings the next day, whoever updates it                 *)
(* (pending_events_tick, conditionally_advance_game).                      *)
GameGoesOn == TickEnds /\ TimeAdvances
=============================================================================
