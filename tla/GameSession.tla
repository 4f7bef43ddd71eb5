---------------------------- MODULE GameSession ----------------------------
(***************************************************************************)
(* A game session as its front end drives it (GameManager, InstanceManager *)
(* and SimulationClock): actions are queued, and the clock that the front  *)
(* end polls adds the tick that is due, executes the queue and refreshes   *)
(* the gamestate, which calls the front end back.  One thread does all of  *)
(* it, so what can go wrong is the order of steps and reentrancy: the      *)
(* callback may queue actions while the refresh is going on.               *)
(*                                                                         *)
(* What an action does to the game is whether it changes it and reports so *)
(* to the queue; a change an action does not report (the sliders, which    *)
(* the front end follows by other means, and an event answered out of      *)
(* range) is no change here.  A tick is one step: see WorkPool, GameEvents.*)
(***************************************************************************)
EXTENDS Integers, Sequences

CONSTANTS
  MaxQueue,     \* bound of the model on the actions queued at a time
  Days,         \* bound of the model: the calendar starts again after so many days
  NUM_SPEEDS

ASSUME SessionAssumption ==
  /\ MaxQueue \in Nat /\ Days \in Nat \ {0} /\ NUM_SPEEDS \in Nat \ {0}

VARIABLES
  status,                           \* "none", "setup" or "started"
  today,
  game_action_queue,
  gamestate_needs_update, currently_updating_gamestate, currently_executing_game_actions,
  paused, current_speed,
  due,                              \* next_tick_time has come
  pc,                               \* "rest", "execute", "update" or "callback"
  executed,                         \* the actions of the queue that have been executed
  needs_gamestate_update,           \* the local of execute_game_actions
  stale,                            \* history: a reported change since the last refresh
  accepted, completed               \* history: numbers of the last action queued and executed

clockVars == <<paused, current_speed, due>>
flagVars == <<gamestate_needs_update, currently_updating_gamestate,
              currently_executing_game_actions>>
sessionVars == <<status, today, game_action_queue, flagVars, clockVars, pc, executed,
                 needs_gamestate_update, stale, accepted, completed>>

(* Actions are numbered as they are accepted, modulo more than there can be. *)
Serials == 0 .. MaxQueue + 1
Successor(n) == (n + 1) % (MaxQueue + 2)

Kinds == {"tick", "forced", "pause", "resume", "slower", "faster", "order"}
NextDay(d) == (d + 1) % Days

InitSession ==
  /\ status = "none"
  /\ today = 0
  /\ game_action_queue = <<>>
  /\ gamestate_needs_update = FALSE
  /\ currently_updating_gamestate = FALSE
  /\ currently_executing_game_actions = FALSE
  /\ paused = TRUE /\ current_speed = 0 /\ due = TRUE
  /\ pc = "rest" /\ executed = 0 /\ needs_gamestate_update = FALSE
  /\ stale = FALSE
  /\ accepted = 0 /\ completed = 0

-----------------------------------------------------------------------------
(* setup_instance: a new InstanceManager, set up and with a bookmark loaded. *)
SetupInstance ==
  /\ status = "none"
  /\ status' = "setup"
  /\ UNCHANGED <<today, game_action_queue, flagVars, clockVars, pc, executed,
                 needs_gamestate_update, stale, accepted, completed>>

StartSession ==
  /\ status = "setup" /\ pc = "rest"
  /\ status' = "started"
  /\ paused' = TRUE /\ current_speed' = 0 /\ due' = TRUE
  /\ gamestate_needs_update' = TRUE
  /\ UNCHANGED <<today, game_action_queue, currently_updating_gamestate,
                 currently_executing_game_actions, pc, executed, needs_gamestate_update,
                 stale, accepted, completed>>

(* end_game_session destroys the instance, with the actions still queued. *)
EndSession ==
  /\ status # "none" /\ pc = "rest"
  /\ status' = "none"
  /\ today' = 0 /\ game_action_queue' = <<>>
  /\ gamestate_needs_update' = FALSE /\ currently_updating_gamestate' = FALSE
  /\ currently_executing_game_actions' = FALSE
  /\ paused' = TRUE /\ current_speed' = 0 /\ due' = TRUE
  /\ pc' = "rest" /\ executed' = 0 /\ needs_gamestate_update' = FALSE
  /\ stale' = FALSE /\ accepted' = 0 /\ completed' = 0

-----------------------------------------------------------------------------
(* queue_game_action: refused while actions are being executed. *)
Queued(kind) ==
  IF currently_executing_game_actions THEN UNCHANGED <<game_action_queue, accepted>>
  ELSE /\ Len(game_action_queue) < MaxQueue
       /\ game_action_queue' =
            Append(game_action_queue, [kind |-> kind, number |-> Successor(accepted)])
       /\ accepted' = Successor(accepted)

(* The front end queues an action, at rest or from the callback; one place  *)
(* of the queue is left for the tick.                                       *)
QueueGameAction(kind) ==
  /\ status # "none" /\ pc \in {"rest", "callback"}
  /\ Len(game_action_queue) + 1 < MaxQueue
  /\ Queued(kind)
  /\ UNCHANGED <<status, today, flagVars, clockVars, pc, executed, needs_gamestate_update,
                 stale, completed>>

(* The head of execute_game_actions, called by the clock's update function. *)
BeginExecution ==
  IF currently_executing_game_actions \/ game_action_queue' = <<>>
  THEN pc' = "update" /\ UNCHANGED <<currently_executing_game_actions, executed,
                                     needs_gamestate_update>>
  ELSE /\ pc' = "execute" /\ executed' = 0 /\ needs_gamestate_update' = FALSE
       /\ currently_executing_game_actions' = TRUE

(* update_clock: conditionally_advance_game *)
UpdateClock ==
  /\ status = "started" /\ pc = "rest"
  /\ IF ~paused /\ due
     THEN due' = FALSE /\ Queued("tick")
     ELSE UNCHANGED <<due, game_action_queue, accepted>>
  /\ BeginExecution
  /\ UNCHANGED <<status, today, paused, current_speed, gamestate_needs_update,
                 currently_updating_gamestate, stale, completed>>

(* force_tick_and_update, for debugging: it asks for no started session.    *)
ForceTick ==
  /\ status # "none" /\ pc = "rest"
  /\ due' = FALSE /\ Queued("forced")
  /\ BeginExecution
  /\ UNCHANGED <<status, today, paused, current_speed, gamestate_needs_update,
                 currently_updating_gamestate, stale, completed>>

(* The console's date command. *)
SetTodayAndUpdate(d) ==
  /\ status = "started" /\ pc = "rest"
  /\ today' = d
  /\ stale' = TRUE
  /\ gamestate_needs_update' = TRUE
  /\ pc' = "update"
  /\ UNCHANGED <<status, game_action_queue, currently_updating_gamestate,
                 currently_executing_game_actions, clockVars, executed,
                 needs_gamestate_update, accepted, completed>>

-----------------------------------------------------------------------------
(* One action: whether it changes the game and says so. *)
Reports(kind) ==
  CASE kind \in {"tick", "forced"} -> {TRUE}
    [] kind = "pause"              -> {~paused}
    [] kind = "resume"             -> {paused}
    [] kind = "slower"             -> {current_speed > 0}
    [] kind = "faster"             -> {current_speed < NUM_SPEEDS - 1}
    [] kind = "order"              -> BOOLEAN

(* A mutant: the last report counts. *)
LastReport(earlier, report) == report
Accumulated(earlier, report) == earlier \/ report

ExecuteAction ==
  /\ pc = "execute" /\ executed < Len(game_action_queue)
  /\ LET action == game_action_queue[executed + 1] IN
     /\ today' = IF action.kind \in {"tick", "forced"} THEN NextDay(today) ELSE today
     /\ paused' = CASE action.kind = "pause"  -> TRUE
                    [] action.kind = "resume" -> FALSE
                    [] OTHER -> paused
     /\ current_speed' =
          CASE action.kind = "slower" /\ current_speed > 0              -> current_speed - 1
            [] action.kind = "faster" /\ current_speed < NUM_SPEEDS - 1 -> current_speed + 1
            [] OTHER -> current_speed
     /\ \E report \in Reports(action.kind) :
          /\ needs_gamestate_update' = Accumulated(needs_gamestate_update, report)
          /\ stale' = (stale \/ report)
     /\ completed' = action.number
  /\ executed' = executed + 1
  /\ UNCHANGED <<status, game_action_queue, flagVars, due, pc, accepted>>

(* A mutant: the early way out when nothing has changed leaves the flag set. *)
EndExecutionStillExecuting ==
  /\ pc = "execute" /\ executed = Len(game_action_queue)
  /\ game_action_queue' = <<>>
  /\ gamestate_needs_update' = (gamestate_needs_update \/ needs_gamestate_update)
  /\ currently_executing_game_actions' = ~needs_gamestate_update
  /\ pc' = "update"
  /\ UNCHANGED <<status, today, currently_updating_gamestate, clockVars, executed,
                 needs_gamestate_update, stale, accepted, completed>>

(* A mutant: the queue is not cleared. *)
EndExecutionUncleared ==
  /\ pc = "execute" /\ executed = Len(game_action_queue)
  /\ gamestate_needs_update' = (gamestate_needs_update \/ needs_gamestate_update)
  /\ currently_executing_game_actions' = FALSE
  /\ pc' = "update"
  /\ UNCHANGED <<status, today, game_action_queue, currently_updating_gamestate, clockVars,
                 executed, needs_gamestate_update, stale, accepted, completed>>

EndExecution ==
  /\ pc = "execute" /\ executed = Len(game_action_queue)
  /\ game_action_queue' = <<>>
  /\ gamestate_needs_update' =
       (gamestate_needs_update \/ (needs_gamestate_update /\ ~currently_updating_gamestate))
  /\ currently_executing_game_actions' = FALSE
  /\ pc' = "update"
  /\ UNCHANGED <<status, today, currently_updating_gamestate, clockVars, executed,
                 needs_gamestate_update, stale, accepted, completed>>

(* update_gamestate up to the callback, and after it. *)
UpdateGamestate ==
  /\ pc = "update"
  /\ IF gamestate_needs_update /\ ~currently_updating_gamestate
     THEN /\ currently_updating_gamestate' = TRUE /\ stale' = FALSE /\ pc' = "callback"
     ELSE /\ pc' = "rest" /\ UNCHANGED <<currently_updating_gamestate, stale>>
  /\ UNCHANGED <<status, today, game_action_queue, gamestate_needs_update,
                 currently_executing_game_actions, clockVars, executed,
                 needs_gamestate_update, accepted, completed>>

EndUpdate ==
  /\ pc = "callback"
  /\ gamestate_needs_update' = FALSE
  /\ currently_updating_gamestate' = FALSE
  /\ pc' = "rest"
  /\ UNCHANGED <<status, today, game_action_queue, currently_executing_game_actions,
                 clockVars, executed, needs_gamestate_update, stale, accepted, completed>>

(* Real time passes. *)
Elapse ==
  /\ ~due /\ due' = TRUE
  /\ UNCHANGED <<status, today, game_action_queue, flagVars, paused, current_speed, pc,
                 executed, needs_gamestate_update, stale, accepted, completed>>

SessionStep == ExecuteAction \/ EndExecution \/ UpdateGamestate \/ EndUpdate

NextSession ==
  \/ SetupInstance \/ StartSession \/ EndSession
  \/ \E kind \in Kinds \ {"tick", "forced"} : QueueGameAction(kind)
  \/ UpdateClock \/ ForceTick
  \/ \E d \in 0 .. Days - 1 : SetTodayAndUpdate(d)
  \/ SessionStep
  \/ Elapse

SessionSpec == InitSession /\ [][NextSession]_sessionVars

(* The thread runs on, the front end polls the clock again and again, and   *)
(* real time passes.                                                        *)
SessionFairness == /\ WF_sessionVars(SessionStep)
                   /\ SF_sessionVars(UpdateClock)
                   /\ WF_sessionVars(Elapse)

FairSessionSpec == SessionSpec /\ SessionFairness

-----------------------------------------------------------------------------
(* Every action that is accepted is executed exactly once, in the order of  *)
(* acceptance: those left to execute are numbered on from the last one that *)
(* was, up to the last that was accepted (queue_game_action,                *)
(* execute_game_actions), also for those queued from the callback.          *)
ExecutedInOrder ==
  LET first == IF pc = "execute" THEN executed + 1 ELSE 1
      left == SubSeq(game_action_queue, first, Len(game_action_queue))
  IN  \A i \in 0 .. Len(left) :
        LET before == IF i = 0 THEN completed ELSE left[i].number
        IN  IF i = Len(left) THEN before = accepted
            ELSE left[i + 1].number = Successor(before)

(* When the session is at rest, every reported change has reached the front  *)
(* end or a refresh is still asked for (update_gamestate).                   *)
GamestateFresh == pc = "rest" /\ stale => gamestate_needs_update

(* While the session is not paused, the day changes again and again.         *)
(* (conditionally_advance_game, and the flags that refuse reentrant calls)   *)
TimeAdvances ==
  \A d \in 0 .. Days - 1 :
    status = "started" /\ ~paused /\ today = d ~> status # "started" \/ paused \/ today # d
=============================================================================
