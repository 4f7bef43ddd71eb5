----------------------------- MODULE GameEvents -----------------------------
(***************************************************************************)
(* The firing of events (misc/EventInstanceManager.cpp, with Event::fire   *)
(* and the country_event and province_event effects): the daily tick over  *)
(* queued, spontaneous and pulse events, the events awaiting a player, and *)
(* the player's answers.                                                   *)
(*                                                                         *)
(* One thread runs all of it.  What is hard is reentrancy: an effect fires *)
(* further events at once, inside the loops of the tick that fired it, so  *)
(* the model steps through the effects with an explicit stack of firings.  *)
(* Triggers, fire chances, rolls and AI choices depend on the rest of the  *)
(* game and are arbitrary.  The sender an event keeps as FROM is left out. *)
(***************************************************************************)
EXTENDS Integers, SequencesExt

CONSTANTS
  CountryOrder,   \* the country instances, in order
  ProvinceOrder,  \* the land province instances, in order
  OwnerOf,        \* the owner of each province, or Unowned
  Unowned,
  EventOrder,     \* the event definitions, in order
  KindOf,         \* "country" or "province", per event
  TriggeredOnly, FireOnlyOnce,
  ImmediateOf,    \* the effects of each event: which event, its scope as a
                  \* function of the scope it runs in, the days of delay
  OptionsOf,      \* the options of each event: sequences of effects
  TablesOn,       \* the on_action tables that pulse, per day
  Seats,          \* bound: the countries that a player may hold
  Answers,        \* bound: the option numbers a player may send
  MaxDay,         \* bound: the days played
  MaxFirings,     \* bound: the firings of one behaviour
  FIRED_EVENT_LOG_CAPACITY

VARIABLES
  event_day, players, fired, pending_events, pending_player_events,
  next_player_event_instance_id, fired_event_log,
  phase,      \* the part of events_tick that runs, or "idle"
  cursor,     \* its loop variables: the outer and the inner index
  fired_for,  \* the pointer country_events_tick and province_events_tick keep
  stack,      \* the firings in progress
  firings     \* history: every firing, with what has been run of it

eventVars == <<event_day, players, fired, pending_events, pending_player_events,
               next_player_event_instance_id, fired_event_log,
               phase, cursor, fired_for, stack, firings>>

Events == Range(EventOrder)
Targets == Range(CountryOrder) \cup Range(ProvinceOrder)
TypeOf(t) == IF t \in Range(ProvinceOrder) THEN "province" ELSE "country"

(* Who chooses the option: the country itself, the owner of a province. *)
Chooser(t) == IF TypeOf(t) = "province" THEN OwnerOf[t] ELSE t

(* Options are numbered from 1; an event without options is given number 1. *)
AnswersOf(e) == IF OptionsOf[e] = <<>> THEN {1} ELSE DOMAIN OptionsOf[e]
OptionEffects(e, o) == IF OptionsOf[e] = <<>> THEN <<>> ELSE OptionsOf[e][o]

(* Scripts refer to events that are defined; a scope may reach no target, a *)
(* delay is an unsigned number of days.                                     *)
Effects == [event : Events, scope : UNION {[D -> Targets] : D \in SUBSET Targets}, delay : Nat]

ASSUME EventsAssumption ==
  /\ CountryOrder \in Seq(Targets) /\ ProvinceOrder \in Seq(Targets) /\ EventOrder \in Seq(Events)
  /\ ImmediateOf \in [Events -> Seq(Effects)]
  /\ OptionsOf \in [Events -> Seq(Seq(Effects))]
  /\ MaxDay \in Nat /\ \A d \in 1 .. MaxDay : TablesOn[d] \in Seq(SUBSET Events)
  /\ Answers \subseteq Nat

Quiet == phase = "idle" /\ stack = <<>>

InitEvents ==
  /\ event_day = 0
  /\ players \in SUBSET Seats
  /\ fired = [e \in Events |-> {}]
  /\ pending_events = <<>>
  /\ pending_player_events = <<>>
  /\ next_player_event_instance_id = 1
  /\ fired_event_log = <<>>
  /\ phase = "idle"
  /\ cursor = <<1, 0>>
  /\ fired_for = "null"
  /\ stack = <<>>
  /\ firings = <<>>

-----------------------------------------------------------------------------
(* Firing an event, on top of the frames below.  The option number of a    *)
(* frame is 0 when a player is to choose.                                  *)

Recorded(e, t) == IF e \in FireOnlyOnce THEN [fired EXCEPT ![e] = @ \cup {t}] ELSE fired

(* A new key may reallocate the vector behind the ordered map, and leaves   *)
(* the pointer that a loop over the same map holds without its object.      *)
PointerAfter(e) ==
  IF fired_for = "entry" /\ e \in FireOnlyOnce /\ fired[e] = {} /\ KindOf[e] = phase
  THEN {"entry", "dangling"} ELSE {fired_for}

Logged(e, t, o) ==
  IF Len(fired_event_log) >= FIRED_EVENT_LOG_CAPACITY THEN fired_event_log
  ELSE Append(fired_event_log, [event |-> e, target |-> t, option |-> o])

Fire(e, t, below) ==
  /\ Len(firings) < MaxFirings
  /\ fired' = Recorded(e, t)
  /\ fired_for' \in PointerAfter(e)
  /\ firings' = Append(firings, [event |-> e, target |-> t, ran |-> <<0>>])
  /\ \E o \in IF Chooser(t) \in players THEN {0} ELSE AnswersOf(e) :
       /\ fired_event_log' = IF o = 0 THEN fired_event_log ELSE Logged(e, t, o)
       /\ stack' = Append(below, [firing |-> Len(firings) + 1, immediate |-> TRUE,
                                  option |-> o, todo |-> ImmediateOf[e]])

Top == Last(stack)
Running == firings[Top.firing]

(* The scope the effect is executed in, if there is one of the event's kind. *)
Reached(effect) ==
  {t \in Targets : /\ Running.target \in DOMAIN effect.scope
                   /\ t = effect.scope[Running.target]
                   /\ TypeOf(t) = KindOf[effect.event]}

(* The country_event and province_event effects: nothing is done without a  *)
(* target of the event's kind, a delayed event is queued, any other fires.  *)
RunEffect ==
  /\ stack # <<>> /\ Top.todo # <<>>
  /\ LET effect == Head(Top.todo)
         below == Append(Front(stack), [Top EXCEPT !.todo = Tail(@)])
     IN  \/ /\ Reached(effect) = {}
            /\ stack' = below
            /\ UNCHANGED <<fired, fired_for, firings, fired_event_log, pending_events>>
         \/ \E t \in Reached(effect) :
            /\ effect.delay > 0
            /\ pending_events' = Append(pending_events,
                 [event |-> effect.event, target |-> t, date |-> event_day + effect.delay])
            /\ stack' = below
            /\ UNCHANGED <<fired, fired_for, firings, fired_event_log>>
         \/ \E t \in Reached(effect) :
            /\ effect.delay = 0
            /\ Fire(effect.event, t, below)
            /\ UNCHANGED pending_events
  /\ UNCHANGED <<event_day, players, pending_player_events, next_player_event_instance_id,
                 phase, cursor>>

OptionFrame(i, o) ==
  [firing |-> i, immediate |-> FALSE, option |-> o,
   todo |-> OptionEffects(firings[i].event, o)]

(* The immediate effects of an event of the AI are followed by its option. *)
BeginOption ==
  /\ stack # <<>> /\ Top.todo = <<>> /\ Top.immediate /\ Top.option # 0
  /\ firings' = [firings EXCEPT ![Top.firing].ran = Append(@, Top.option)]
  /\ stack' = Append(Front(stack), OptionFrame(Top.firing, Top.option))
  /\ UNCHANGED <<event_day, players, fired, pending_events, pending_player_events,
                 next_player_event_instance_id, fired_event_log, phase, cursor, fired_for>>

(* The option of an event of a player waits for the answer. *)
AwaitPlayer ==
  /\ stack # <<>> /\ Top.todo = <<>> /\ Top.immediate /\ Top.option = 0
  /\ pending_player_events' = Append(pending_player_events,
       [instance_id |-> next_player_event_instance_id, firing |-> Top.firing])
  /\ next_player_event_instance_id' = next_player_event_instance_id + 1
  /\ stack' = Front(stack)
  /\ UNCHANGED <<event_day, players, fired, pending_events, fired_event_log, phase, cursor,
                 fired_for, firings>>

EndOption ==
  /\ stack # <<>> /\ Top.todo = <<>> /\ ~Top.immediate
  /\ stack' = Front(stack)
  /\ UNCHANGED <<event_day, players, fired, pending_events, pending_player_events,
                 next_player_event_instance_id, fired_event_log, phase, cursor, fired_for,
                 firings>>

-----------------------------------------------------------------------------
(* The tick: queued events, spontaneous country and province events, pulses. *)

Untouched == UNCHANGED <<event_day, players, pending_player_events,
                         next_player_event_instance_id>>

Enter(p) == /\ phase' = p /\ cursor' = <<1, 0>> /\ fired_for' = "null"
            /\ UNCHANGED <<fired, pending_events, fired_event_log, stack, firings>>

Move(c) == cursor' = c /\ UNCHANGED phase

NothingFires == UNCHANGED <<fired, fired_event_log, stack, firings>>

BeginTick ==
  /\ Quiet /\ event_day < MaxDay
  /\ event_day' = event_day + 1
  /\ Enter("pending")
  /\ UNCHANGED <<players, pending_player_events, next_player_event_instance_id>>

(* Passing over a queued event moves the index on; firing one erases it and *)
(* leaves the index where it is.                                            *)
(* Mutants: an event that is not due holds the loop up, and the one after an *)
(* erased one is skipped.                                                    *)
PassOverNothing(i) == i
ErasedAndPassed(i) == i + 1

PassOver(i) == i + 1
AfterErasing(i) == i

PendingStep ==
  /\ phase = "pending" /\ stack = <<>> /\ cursor[1] <= Len(pending_events)
  /\ LET p == pending_events[cursor[1]] IN
     \/ /\ p.date > event_day
        /\ Move(<<PassOver(cursor[1]), 0>>)
        /\ UNCHANGED <<pending_events, fired_for>> /\ NothingFires
     \/ /\ p.date <= event_day
        /\ pending_events' = RemoveAt(pending_events, cursor[1])
        /\ Move(<<AfterErasing(cursor[1]), 0>>)
        /\ Fire(p.event, p.target, <<>>)
  /\ Untouched

EndPending ==
  /\ phase = "pending" /\ stack = <<>> /\ cursor[1] > Len(pending_events)
  /\ Enter("country") /\ Untouched

Spontaneous == phase \in {"country", "province"} /\ stack = <<>>
Visited == IF phase = "country" THEN CountryOrder ELSE ProvinceOrder
PassedOver(t) == phase = "province" /\ OwnerOf[t] = Unowned

BeginEvent ==
  /\ Spontaneous /\ cursor[1] <= Len(EventOrder) /\ cursor[2] = 0
  /\ LET e == EventOrder[cursor[1]]
         considered == KindOf[e] = phase /\ e \notin TriggeredOnly
     IN  /\ Move(IF considered THEN <<cursor[1], 1>> ELSE <<cursor[1] + 1, 0>>)
         /\ fired_for' = IF considered /\ e \in FireOnlyOnce /\ fired[e] # {}
                         THEN "entry" ELSE "null"
  /\ UNCHANGED pending_events /\ NothingFires /\ Untouched

(* What contains() may answer; a dangling pointer may answer either way. *)
FoundInEntry(e, t) ==
  CASE fired_for = "null"     -> {FALSE}
    [] fired_for = "entry"    -> {t \in fired[e]}
    [] fired_for = "dangling" -> BOOLEAN

VisitTarget ==
  /\ Spontaneous /\ cursor[1] <= Len(EventOrder) /\ cursor[2] \in 1 .. Len(Visited)
  /\ LET e == EventOrder[cursor[1]]
         t == Visited[cursor[2]]
     IN  \/ UNCHANGED fired_for /\ NothingFires
         \/ ~PassedOver(t) /\ FALSE \in FoundInEntry(e, t) /\ Fire(e, t, <<>>)
  /\ Move(<<cursor[1], cursor[2] + 1>>)
  /\ UNCHANGED pending_events /\ Untouched

EndEvent ==
  /\ Spontaneous /\ cursor[1] <= Len(EventOrder) /\ cursor[2] > Len(Visited)
  /\ Move(<<cursor[1] + 1, 0>>)
  /\ UNCHANGED <<pending_events, fired_for>> /\ NothingFires /\ Untouched

EndEvents ==
  /\ Spontaneous /\ cursor[1] > Len(EventOrder)
  /\ Enter(IF phase = "country" THEN "province" ELSE "pulse")
  /\ Untouched

(* A pulse looks fire_only_once up afresh for every country. *)
PulseMayFire(e, t) == e \in FireOnlyOnce => t \notin fired[e]

PulseCountry ==
  /\ phase = "pulse" /\ stack = <<>> /\ cursor[1] <= Len(TablesOn[event_day])
  /\ cursor[2] < Len(CountryOrder)
  /\ LET t == CountryOrder[cursor[2] + 1] IN
     \/ UNCHANGED fired_for /\ NothingFires
     \/ \E e \in TablesOn[event_day][cursor[1]] : PulseMayFire(e, t) /\ Fire(e, t, <<>>)
  /\ Move(<<cursor[1], cursor[2] + 1>>)
  /\ UNCHANGED pending_events /\ Untouched

EndPulse ==
  /\ phase = "pulse" /\ stack = <<>> /\ cursor[1] <= Len(TablesOn[event_day])
  /\ cursor[2] = Len(CountryOrder)
  /\ Move(<<cursor[1] + 1, 0>>)
  /\ UNCHANGED <<pending_events, fired_for>> /\ NothingFires /\ Untouched

EndTick ==
  /\ phase = "pulse" /\ stack = <<>> /\ cursor[1] > Len(TablesOn[event_day])
  /\ Enter("idle") /\ Untouched

-----------------------------------------------------------------------------
(* Between ticks: answers, a change of who plays a country, draining the log. *)

(* Mutant of Respond: the answer leaves the event on the list. *)
RespondWithoutErasing(i, o) ==
  /\ Quiet
  /\ LET f == pending_player_events[i].firing
         e == firings[f].event
     IN  /\ Len(firings[f].ran) < 3
         /\ o \in AnswersOf(e)
         /\ firings' = [firings EXCEPT ![f].ran = Append(@, o)]
         /\ fired_event_log' = Logged(e, firings[f].target, o)
         /\ stack' = <<OptionFrame(f, o)>>
  /\ UNCHANGED <<event_day, players, fired, pending_events, pending_player_events,
                 next_player_event_instance_id, phase, cursor, fired_for>>

(* An answer takes the event off the list before the option is looked at.   *)
(* A bad option is refused, and the event is not offered again.             *)
Respond(i, o) ==
  /\ Quiet
  /\ LET f == pending_player_events[i].firing
         e == firings[f].event
         valid == o \in AnswersOf(e) \/ OptionsOf[e] = <<>>
     IN  /\ firings' = [firings EXCEPT ![f].ran = Append(@, o)]
         /\ fired_event_log' = IF valid THEN Logged(e, firings[f].target, o)
                               ELSE fired_event_log
         /\ stack' = IF valid THEN <<OptionFrame(f, o)>> ELSE <<>>
  /\ pending_player_events' = RemoveAt(pending_player_events, i)
  /\ UNCHANGED <<event_day, players, fired, pending_events, next_player_event_instance_id,
                 phase, cursor, fired_for>>

SetAi(c) ==
  /\ Quiet
  /\ players' = IF c \in players THEN players \ {c} ELSE players \cup {c}
  /\ UNCHANGED <<event_day, fired, pending_events, pending_player_events,
                 next_player_event_instance_id, fired_event_log, phase, cursor, fired_for,
                 stack, firings>>

DrainLog ==
  /\ Quiet
  /\ fired_event_log' = <<>>
  /\ UNCHANGED <<event_day, players, fired, pending_events, pending_player_events,
                 next_player_event_instance_id, phase, cursor, fired_for, stack, firings>>

Tick == \/ RunEffect \/ BeginOption \/ AwaitPlayer \/ EndOption
        \/ PendingStep \/ EndPending
        \/ BeginEvent \/ VisitTarget \/ EndEvent \/ EndEvents
        \/ PulseCountry \/ EndPulse \/ EndTick

NextEvents ==
  \/ Tick \/ BeginTick \/ DrainLog
  \/ \E i \in DOMAIN pending_player_events : \E o \in Answers : Respond(i, o)
  \/ \E c \in Seats : SetAi(c)

(* The tick and the effects of an answer run on one thread to their end. *)
EventsSpec == InitEvents /\ [][NextEvents]_eventVars /\ WF_eventVars(Tick)

-----------------------------------------------------------------------------
(* Properties.                                                              *)

(* A queued event fires on its day, neither earlier nor later: none is ever  *)
(* overdue, and the loop over the queue, which erases and appends as it      *)
(* goes, leaves none that is due (pending_events_tick).                      *)
NeverOverdue ==
  \A i \in DOMAIN pending_events :
    /\ pending_events[i].date >= event_day
    /\ phase # "pending" => pending_events[i].date > event_day

Awaiting == {pending_player_events[i].firing : i \in DOMAIN pending_player_events}

(* What the log tells a UI did happen: as many firings of that event for     *)
(* that target ran that option as there are records of it, and it is one of  *)
(* the event's options (record_fired_event, resolve_player_event).           *)
LogExplained ==
  \A r \in Range(fired_event_log) :
    /\ r.option \in AnswersOf(r.event) \/ OptionsOf[r.event] = <<>>
    /\ Cardinality({i \in DOMAIN fired_event_log : fired_event_log[i] = r})
         <= Cardinality({f \in DOMAIN firings :
              firings[f].event = r.event /\ firings[f].target = r.target
              /\ Len(firings[f].ran) = 2 /\ firings[f].ran[2] = r.option})

(* Once everything in progress has returned, the option of a firing has been *)
(* answered exactly once, unless it is on the list of exactly one pending    *)
(* player event: no nested firing, answer or change of player loses or       *)
(* repeats one (fire_country_event, fire_province_event, resolve_player_event), *)
(* and the log tells no other story.                                         *)
FiringsComplete ==
  /\ IsInjective([i \in DOMAIN pending_player_events |-> pending_player_events[i].firing])
  /\ IsInjective([i \in DOMAIN pending_player_events |-> pending_player_events[i].instance_id])
  /\ stack = <<>> =>
       LogExplained /\ \A f \in DOMAIN firings : Len(firings[f].ran) = IF f \in Awaiting THEN 1 ELSE 2

(* A tick comes to its end, also when the events it fires queue further ones *)
(* (the index loop of pending_events_tick).                                  *)
TickEnds == phase # "idle" ~> phase = "idle"
=============================================================================
