----------------------------- MODULE GameProofs -----------------------------
(***************************************************************************)
(* Proofs about a game, for every value of the constants: the queue of     *)
(* actions and the refreshes of a session (GameSession); the queue, the    *)
(* firings and the log of events (GameEvents); the books of provinces and  *)
(* countries (ProvinceOwnership), those of armies and leaders              *)
(* (UnitGroups), what countries are to each other (Diplomacy), and what    *)
(* they have unlocked (CountryUnlocks).                                    *)
(***************************************************************************)
EXTENDS GameEvents, GameSession, ProvinceOwnership, UnitGroups, Diplomacy, CountryUnlocks,
        SequenceTheorems, FiniteSetTheorems, TLAPS

-----------------------------------------------------------------------------
(* The session.                                                            *)

Statuses == {"none", "setup", "started"}
Pcs == {"rest", "execute", "update", "callback"}
GameActions == [kind : Kinds, number : Serials]

(* The shapes of the variables that the properties depend on. *)
SessionTypeOK ==
  /\ game_action_queue \in Seq(GameActions)
  /\ accepted \in Serials /\ completed \in Serials
  /\ executed \in Nat
  /\ pc \in Pcs
  /\ gamestate_needs_update \in BOOLEAN /\ needs_gamestate_update \in BOOLEAN
  /\ currently_updating_gamestate \in BOOLEAN /\ currently_executing_game_actions \in BOOLEAN
  /\ stale \in BOOLEAN

(* The flags tell where the thread is. *)
FlagsFollow ==
  /\ currently_executing_game_actions <=> pc = "execute"
  /\ currently_updating_gamestate <=> pc = "callback"
  /\ pc = "execute" => executed <= Len(game_action_queue)

(* The first action that is left to execute, and the number before it. *)
First == IF pc = "execute" THEN executed + 1 ELSE 1
NumberBefore(k) == IF k = First THEN completed ELSE game_action_queue[k - 1].number

(* Those left are numbered on from the last one executed to the last one accepted. *)
QueueInOrder ==
  /\ \A k \in First .. Len(game_action_queue) :
       game_action_queue[k].number = Successor(NumberBefore(k))
  /\ accepted = NumberBefore(Len(game_action_queue) + 1)

(* A change that was not shown yet is on its way to be. *)
RefreshComing ==
  stale => \/ gamestate_needs_update /\ pc # "callback"
           \/ pc = "execute" /\ needs_gamestate_update

SessionInv == SessionTypeOK /\ FlagsFollow /\ QueueInOrder /\ RefreshComing

LEMMA SuccessorType == \A n \in Serials : Successor(n) \in Serials
  BY SessionAssumption DEF Successor, Serials

LEMMA SessionInit == InitSession => SessionInv
  <1> SUFFICES ASSUME InitSession PROVE SessionInv
    OBVIOUS
  <1>1. SessionTypeOK
    <2>1. 0 \in Serials
      BY SessionAssumption DEF Serials
    <2>2. game_action_queue \in Seq(GameActions)
      BY DEF InitSession
    <2> QED
      BY <2>1, <2>2 DEF InitSession, SessionTypeOK, Pcs
  <1>2. FlagsFollow
    BY DEF InitSession, FlagsFollow
  <1>3. QueueInOrder
    BY DEF InitSession, QueueInOrder, First, NumberBefore
  <1>4. RefreshComing
    BY DEF InitSession, RefreshComing
  <1> QED
    BY <1>1, <1>2, <1>3, <1>4 DEF SessionInv

(* What queueing an action does to those that are left. *)
LEMMA QueuedFacts ==
  ASSUME SessionInv, NEW kind \in Kinds, Queued(kind), pc # "execute"
  PROVE  /\ game_action_queue' \in Seq(GameActions) /\ accepted' \in Serials
         /\ game_action_queue' # <<>>
         /\ \A k \in 1 .. Len(game_action_queue') :
              game_action_queue'[k].number =
                Successor(IF k = 1 THEN completed ELSE game_action_queue'[k - 1].number)
         /\ accepted' = game_action_queue'[Len(game_action_queue')].number
  <1> DEFINE q == game_action_queue
             a == [kind |-> kind, number |-> Successor(accepted)]
  <1>1. q' = Append(q, a) /\ accepted' = Successor(accepted)
    BY DEF Queued, SessionInv, FlagsFollow
  <1>2. q \in Seq(GameActions) /\ a \in GameActions
    BY SuccessorType DEF SessionInv, SessionTypeOK, GameActions
  <1>3. /\ q' \in Seq(GameActions) /\ q' # <<>> /\ Len(q') = Len(q) + 1
        /\ \A i \in 1 .. Len(q) : q'[i] = q[i]
        /\ q'[Len(q) + 1] = a
    BY <1>1, <1>2, AppendProperties
  <1> QED
    BY <1>1, <1>2, <1>3, SuccessorType
    DEF SessionInv, SessionTypeOK, QueueInOrder, NumberBefore, First

(* Whether the actions that were queued begin to be executed. *)
LEMMA BeginExecutionStep ==
  ASSUME SessionInv, pc = "rest", BeginExecution,
         UNCHANGED <<gamestate_needs_update, currently_updating_gamestate, stale, completed>>,
         \/ UNCHANGED <<game_action_queue, accepted>>
         \/ \E kind \in Kinds : Queued(kind)
  PROVE  SessionInv'
  <1> DEFINE q == game_action_queue
  <1>1. /\ q' \in Seq(GameActions) /\ accepted' \in Serials
        /\ \A k \in 1 .. Len(q') :
             q'[k].number = Successor(IF k = 1 THEN completed ELSE q'[k - 1].number)
        /\ accepted' = IF Len(q') = 0 THEN completed ELSE q'[Len(q')].number
    <2>1. CASE UNCHANGED <<game_action_queue, accepted>>
      BY <2>1 DEF SessionInv, SessionTypeOK, QueueInOrder, First, NumberBefore
    <2>2. CASE \E kind \in Kinds : Queued(kind)
      <3>1. PICK kind \in Kinds : Queued(kind)
        BY <2>2
      <3>2. /\ q' \in Seq(GameActions) /\ accepted' \in Serials
            /\ q' # <<>>
            /\ \A k \in 1 .. Len(q') :
                 q'[k].number = Successor(IF k = 1 THEN completed ELSE q'[k - 1].number)
            /\ accepted' = q'[Len(q')].number
        BY <3>1, QueuedFacts
      <3> QED
        BY <3>2, EmptySeq
    <2> QED
      BY <2>1, <2>2
  <1>2. ~currently_executing_game_actions /\ ~currently_updating_gamestate
    BY DEF SessionInv, FlagsFollow
  <1>3. CASE q' = <<>>
    <2>1. /\ pc' = "update"
          /\ UNCHANGED <<currently_executing_game_actions, executed, needs_gamestate_update>>
      BY <1>3 DEF BeginExecution
    <2>2. SessionTypeOK' /\ FlagsFollow' /\ RefreshComing'
      BY <1>1, <1>2, <2>1 DEF SessionInv, SessionTypeOK, FlagsFollow, RefreshComing, Pcs
    <2>3. QueueInOrder'
      BY <1>1, <1>3, <2>1 DEF QueueInOrder, First, NumberBefore
    <2> QED
      BY <2>2, <2>3 DEF SessionInv
  <1>4. CASE q' # <<>>
    <2>1. /\ pc' = "execute" /\ executed' = 0 /\ needs_gamestate_update' = FALSE
          /\ currently_executing_game_actions' = TRUE
      BY <1>2, <1>4 DEF BeginExecution
    <2>2. Len(q') \in Nat \ {0}
      BY <1>1, <1>4, EmptySeq
    <2>3. SessionTypeOK'
      BY <1>1, <2>1 DEF SessionInv, SessionTypeOK, Pcs
    <2>4. FlagsFollow'
      BY <1>2, <2>1, <2>2 DEF FlagsFollow
    <2>5. QueueInOrder'
      BY <1>1, <2>1, <2>2 DEF QueueInOrder, First, NumberBefore
    <2>6. RefreshComing'
      BY <2>1 DEF SessionInv, RefreshComing
    <2> QED
      BY <2>3, <2>4, <2>5, <2>6 DEF SessionInv
  <1> QED
    BY <1>3, <1>4

(* The actions that leave the queue, its place and the flags alone. *)
LEMMA SessionKept ==
  ASSUME SessionInv,
         UNCHANGED <<game_action_queue, accepted, completed, executed, pc, flagVars,
                     needs_gamestate_update, stale>>
  PROVE  SessionInv'
  BY DEF flagVars, SessionInv, SessionTypeOK, FlagsFollow, QueueInOrder, RefreshComing, First,
         NumberBefore

LEMMA SessionStepKept == SessionInv /\ [NextSession]_sessionVars => SessionInv'
  <1> SUFFICES ASSUME SessionInv, [NextSession]_sessionVars PROVE SessionInv'
    OBVIOUS
  <1> DEFINE q == game_action_queue
  <1>0. q \in Seq(GameActions) /\ Len(q) \in Nat
    BY DEF SessionInv, SessionTypeOK
  <1>1. CASE SetupInstance
    BY <1>1, SessionKept DEF SetupInstance, flagVars
  <1>2. CASE StartSession
    <2>1. SessionTypeOK' /\ FlagsFollow' /\ RefreshComing'
      BY <1>2 DEF StartSession, SessionInv, SessionTypeOK, FlagsFollow, RefreshComing
    <2>2. QueueInOrder'
      BY <1>2 DEF StartSession, SessionInv, QueueInOrder, First, NumberBefore
    <2> QED
      BY <2>1, <2>2 DEF SessionInv
  <1>3. CASE EndSession
    <2>1. 0 \in Serials /\ <<>> \in Seq(GameActions)
      BY SessionAssumption DEF Serials
    <2>2. SessionTypeOK'
      BY <1>3, <2>1 DEF EndSession, SessionTypeOK, Pcs
    <2>3. FlagsFollow' /\ RefreshComing'
      BY <1>3 DEF EndSession, FlagsFollow, RefreshComing
    <2>4. QueueInOrder'
      BY <1>3 DEF EndSession, QueueInOrder, First, NumberBefore
    <2> QED
      BY <2>2, <2>3, <2>4 DEF SessionInv
  <1>4. CASE \E kind \in Kinds \ {"tick", "forced"} : QueueGameAction(kind)
    <2>1. PICK kind \in Kinds : QueueGameAction(kind)
      BY <1>4
    <2>2. Queued(kind) /\ pc \in {"rest", "callback"}
          /\ UNCHANGED <<flagVars, pc, executed, needs_gamestate_update, stale, completed>>
      BY <2>1 DEF QueueGameAction
    <2>3. /\ q' \in Seq(GameActions) /\ accepted' \in Serials
          /\ q' # <<>>
          /\ \A k \in 1 .. Len(q') :
               q'[k].number = Successor(IF k = 1 THEN completed ELSE q'[k - 1].number)
          /\ accepted' = q'[Len(q')].number
      BY <2>2, QueuedFacts
    <2>4. SessionTypeOK' /\ FlagsFollow' /\ RefreshComing'
      BY <2>2, <2>3 DEF flagVars, SessionInv, SessionTypeOK, FlagsFollow, RefreshComing
    <2>5. QueueInOrder'
      BY <2>2, <2>3, EmptySeq DEF QueueInOrder, First, NumberBefore
    <2> QED
      BY <2>4, <2>5 DEF SessionInv
  <1>5. CASE UpdateClock
    <2>1. "tick" \in Kinds
      BY DEF Kinds
    <2> QED
      BY <1>5, <2>1, BeginExecutionStep DEF UpdateClock
  <1>6. CASE ForceTick
    <2>1. "forced" \in Kinds
      BY DEF Kinds
    <2> QED
      BY <1>6, <2>1, BeginExecutionStep DEF ForceTick
  <1>7. CASE \E d \in 0 .. Days - 1 : SetTodayAndUpdate(d)
    <2>1. PICK d \in 0 .. Days - 1 : SetTodayAndUpdate(d)
      BY <1>7
    <2>2. SessionTypeOK' /\ FlagsFollow' /\ RefreshComing'
      BY <2>1 DEF SetTodayAndUpdate, SessionInv, SessionTypeOK, FlagsFollow, RefreshComing, Pcs
    <2>3. QueueInOrder'
      BY <2>1 DEF SetTodayAndUpdate, SessionInv, QueueInOrder, First, NumberBefore
    <2> QED
      BY <2>2, <2>3 DEF SessionInv
  <1>8. CASE ExecuteAction
    <2>1. /\ pc = "execute" /\ executed < Len(q) /\ executed' = executed + 1
          /\ completed' = q[executed + 1].number
          /\ UNCHANGED <<game_action_queue, flagVars, pc, accepted>>
          /\ \E changed \in BOOLEAN :
               /\ needs_gamestate_update' = (needs_gamestate_update \/ changed)
               /\ stale' = (stale \/ changed)
      BY <1>8 DEF ExecuteAction, Accumulated, Reports
    <2>2. executed + 1 \in 1 .. Len(q) /\ q[executed + 1] \in GameActions
      BY <1>0, <2>1, ElementOfSeq DEF SessionInv, SessionTypeOK
    <2>3. SessionTypeOK' /\ FlagsFollow'
      BY <2>1, <2>2 DEF flagVars, SessionInv, SessionTypeOK, FlagsFollow, GameActions
    <2>4. RefreshComing'
      BY <2>1 DEF flagVars, SessionInv, RefreshComing
    <2>5. QueueInOrder'
      BY <1>0, <2>1, <2>2 DEF SessionInv, SessionTypeOK, QueueInOrder, First, NumberBefore
    <2> QED
      BY <2>3, <2>4, <2>5 DEF SessionInv
  <1>9. CASE EndExecution
    <2>1. SessionTypeOK'
      <3>1. game_action_queue' \in Seq(GameActions) /\ pc' \in Pcs
        BY <1>9 DEF EndExecution, Pcs
      <3>2. gamestate_needs_update' \in BOOLEAN /\ currently_executing_game_actions' \in BOOLEAN
        BY <1>9, Zenon DEF EndExecution, SessionInv, SessionTypeOK
      <3> QED
        BY <1>9, <3>1, <3>2 DEF EndExecution, SessionInv, SessionTypeOK
    <2>2. accepted = completed
      BY <1>0, <1>9 DEF EndExecution, SessionInv, QueueInOrder, First, NumberBefore
    <2>3. QueueInOrder'
      BY <1>9, <2>2 DEF EndExecution, QueueInOrder, First, NumberBefore
    <2>4. FlagsFollow' /\ RefreshComing'
      BY <1>9 DEF EndExecution, SessionInv, SessionTypeOK, FlagsFollow, RefreshComing
    <2> QED
      BY <2>1, <2>3, <2>4 DEF SessionInv
  <1>10. CASE UpdateGamestate
    <2>1. SessionTypeOK' /\ FlagsFollow' /\ RefreshComing'
      BY <1>10 DEF UpdateGamestate, SessionInv, SessionTypeOK, FlagsFollow, RefreshComing, Pcs
    <2>2. QueueInOrder'
      BY <1>10 DEF UpdateGamestate, SessionInv, QueueInOrder, First, NumberBefore
    <2> QED
      BY <2>1, <2>2 DEF SessionInv
  <1>11. CASE EndUpdate
    <2>1. SessionTypeOK' /\ FlagsFollow' /\ RefreshComing'
      BY <1>11 DEF EndUpdate, SessionInv, SessionTypeOK, FlagsFollow, RefreshComing, Pcs
    <2>2. QueueInOrder'
      BY <1>11 DEF EndUpdate, SessionInv, QueueInOrder, First, NumberBefore
    <2> QED
      BY <2>1, <2>2 DEF SessionInv
  <1>12. CASE Elapse
    BY <1>12, SessionKept DEF Elapse, flagVars
  <1>13. CASE UNCHANGED sessionVars
    BY <1>13, SessionKept DEF sessionVars, flagVars
  <1> QED
    BY <1>1, <1>2, <1>3, <1>4, <1>5, <1>6, <1>7, <1>8, <1>9, <1>10, <1>11, <1>12, <1>13
    DEF NextSession, SessionStep

(* For every bound on the queue and every calendar, the queue, the place in *)
(* it, the flags and the numbers of the actions fit together at every step  *)
(* of execute_game_actions and update_gamestate.                            *)
THEOREM SessionInductive == SessionSpec => []SessionInv
  BY SessionInit, SessionStepKept, PTL DEF SessionSpec

(* Every action that was accepted is executed exactly once and in the order *)
(* of acceptance, also when the refresh callback queues some                *)
(* (queue_game_action, execute_game_actions).                               *)
THEOREM ActionsInOrder == SessionSpec => []ExecutedInOrder
  <1>1. SessionInv => ExecutedInOrder
    <2> SUFFICES ASSUME SessionInv PROVE ExecutedInOrder
      OBVIOUS
    <2> DEFINE q == game_action_queue
               left == SubSeq(q, First, Len(q))
    <2>1. q \in Seq(GameActions) /\ Len(q) \in Nat /\ First \in 1 .. Len(q) + 1
      BY DEF SessionInv, SessionTypeOK, FlagsFollow, First
    <2>2. \A i \in First .. Len(q) : q[i] \in GameActions
      BY <2>1, ElementOfSeq
    <2>3. /\ Len(left) = IF First <= Len(q) THEN Len(q) - First + 1 ELSE 0
          /\ \A i \in 1 .. Len(q) - First + 1 : left[i] = q[First + i - 1]
      BY <2>1, <2>2, SubSeqProperties
    <2>4. Len(left) = Len(q) - First + 1
      BY <2>1, <2>3
    <2> SUFFICES ASSUME NEW i \in 0 .. Len(left)
                 PROVE  LET before == IF i = 0 THEN completed ELSE left[i].number
                        IN  IF i = Len(left) THEN before = accepted
                            ELSE left[i + 1].number = Successor(before)
      BY DEF ExecutedInOrder, First
    <2>5. (IF i = 0 THEN completed ELSE left[i].number) = NumberBefore(First + i)
      BY <2>1, <2>3, <2>4 DEF NumberBefore
    <2>6. CASE i = Len(left)
      BY <2>1, <2>4, <2>5, <2>6 DEF SessionInv, QueueInOrder
    <2>7. CASE i # Len(left)
      <3>1. First + i \in First .. Len(q) /\ left[i + 1] = q[First + i]
        BY <2>1, <2>3, <2>4, <2>7
      <3> QED
        BY <2>5, <2>7, <3>1 DEF SessionInv, QueueInOrder
    <2> QED
      BY <2>6, <2>7
  <1> QED
    BY <1>1, SessionInductive, PTL

(* When the thread has returned to the front end, no reported change is     *)
(* unseen without a refresh being asked for (update_gamestate).             *)
THEOREM NoChangeUnseen == SessionSpec => []GamestateFresh
  <1>1. SessionInv => GamestateFresh
    BY DEF SessionInv, RefreshComing, GamestateFresh
  <1> QED
    BY <1>1, SessionInductive, PTL

-----------------------------------------------------------------------------
(* The events.                                                             *)

QueuedEvents == [event : Events, target : Targets, date : Int]
PlayerEvents == [instance_id : Nat, firing : Nat]
LogRecords == [event : Events, target : Targets, option : Nat]
Frames == [firing : Nat, immediate : BOOLEAN, option : Nat, todo : Seq(Effects)]
Firings == [event : Events, target : Targets, ran : Seq(Nat)]

(* The shapes of the variables of the events. *)
EventsTypeOK ==
  /\ event_day \in 0 .. MaxDay
  /\ phase \in {"idle", "pending", "country", "province", "pulse"}
  /\ phase # "idle" => event_day # 0
  /\ cursor \in (Nat \ {0}) \X Nat
  /\ pending_events \in Seq(QueuedEvents)
  /\ pending_player_events \in Seq(PlayerEvents)
  /\ next_player_event_instance_id \in Nat
  /\ fired_event_log \in Seq(LogRecords)
  /\ stack \in Seq(Frames)
  /\ firings \in Seq(Firings)

(* What the loop over the queue has passed is not due. *)
QueueInTime ==
  \A i \in 1 .. Len(pending_events) :
    /\ pending_events[i].date >= event_day
    /\ phase # "pending" \/ i < cursor[1] => pending_events[i].date > event_day

(* A frame of the stack s belongs to a firing of the history fs, and an      *)
(* option that is to follow is one of the event's.                          *)
FramesSound(s, fs) ==
  \A k \in 1 .. Len(s) :
    /\ s[k].firing \in 1 .. Len(fs)
    /\ s[k].immediate /\ s[k].option # 0 => s[k].option \in AnswersOf(fs[s[k].firing].event)

(* A firing waits for its option in a frame of its immediate effects, or    *)
(* among the events of the players, ps.                                     *)
Opens(s, k, f) == k \in 1 .. Len(s) /\ s[k].immediate /\ s[k].firing = f
Awaits(ps, i, f) == i \in 1 .. Len(ps) /\ ps[i].firing = f

Waits(s, ps, f) ==
  (\E k \in 1 .. Len(s) : Opens(s, k, f)) \/ (\E i \in 1 .. Len(ps) : Awaits(ps, i, f))

WaitingOnce(s, fs, ps) ==
  \A f \in 1 .. Len(fs) :
    /\ \A k, l \in 1 .. Len(s) : Opens(s, k, f) /\ Opens(s, l, f) => k = l
    /\ \A i, j \in 1 .. Len(ps) : Awaits(ps, i, f) /\ Awaits(ps, j, f) => i = j
    /\ \A k \in 1 .. Len(s), i \in 1 .. Len(ps) : ~(Opens(s, k, f) /\ Awaits(ps, i, f))
    /\ Len(fs[f].ran) = IF Waits(s, ps, f) THEN 1 ELSE 2

PlayersSound(fs, ps, next) ==
  \A i \in 1 .. Len(ps) :
    /\ ps[i].firing \in 1 .. Len(fs)
    /\ ps[i].instance_id < next
    /\ \A j \in 1 .. Len(ps) : ps[i].instance_id = ps[j].instance_id => i = j

(* A firing that ran the option of the record r, or is about to. *)
Explains(s, fs, r, f) ==
  /\ fs[f].event = r.event /\ fs[f].target = r.target
  /\ \/ Len(fs[f].ran) = 2 /\ fs[f].ran[2] = r.option
     \/ r.option # 0 /\ \E k \in 1 .. Len(s) : Opens(s, k, f) /\ s[k].option = r.option

(* No two records of the log are explained by one firing. *)
LogSound(s, fs, log) ==
  /\ \A i \in 1 .. Len(log) :
       log[i].option \in AnswersOf(log[i].event) \/ OptionsOf[log[i].event] = <<>>
  /\ \E m \in [1 .. Len(log) -> 1 .. Len(fs)] :
       /\ \A i, j \in 1 .. Len(log) : m[i] = m[j] => i = j
       /\ \A i \in 1 .. Len(log) : Explains(s, fs, log[i], m[i])

History ==
  /\ FramesSound(stack, firings)
  /\ WaitingOnce(stack, firings, pending_player_events)
  /\ PlayersSound(firings, pending_player_events, next_player_event_instance_id)
  /\ LogSound(stack, firings, fired_event_log)

EventsInv == EventsTypeOK /\ QueueInTime /\ History

LEMMA StretchLength ==
  \A m, n \in Int : m <= n + 1 => (IF m <= n THEN n - m + 1 ELSE 0) = n - m + 1
  OBVIOUS

(* What the loop of a queue leaves when it erases an entry. *)
LEMMA RemoveAtFacts ==
  ASSUME NEW S, NEW s \in Seq(S), NEW i \in 1 .. Len(s)
  PROVE  /\ RemoveAt(s, i) \in Seq(S)
         /\ Len(RemoveAt(s, i)) = Len(s) - 1
         /\ \A k \in 1 .. Len(s) - 1 : RemoveAt(s, i)[k] = IF k < i THEN s[k] ELSE s[k + 1]
  <1> DEFINE a == SubSeq(s, 1, i - 1)
             b == SubSeq(s, i + 1, Len(s))
  <1>0. /\ Len(s) \in Nat /\ Len(s) \in Int /\ i \in Int /\ i + 1 \in Int
        /\ i - 1 \in 0 .. Len(s) /\ Len(s) \in 0 .. Len(s) /\ i + 1 \in Nat \ {0} /\ 1 \in Nat \ {0}
        /\ 1 <= (i - 1) + 1 /\ i + 1 <= Len(s) + 1
        /\ (i - 1) - 1 + 1 = i - 1 /\ Len(s) - (i + 1) + 1 = Len(s) - i
        /\ \A k \in Int : 1 + k - 1 = k
    BY LenProperties
  <1>1. /\ a \in Seq(S) /\ Len(a) = i - 1
        /\ \A k \in 1 .. i - 1 : a[k] = s[k]
    <2>1. \A k \in 1 .. i - 1 : s[k] \in S
      BY <1>0, ElementOfSeq
    <2>2. /\ a \in Seq(S) /\ Len(a) = (IF 1 <= i - 1 THEN (i - 1) - 1 + 1 ELSE 0)
          /\ \A k \in 1 .. (i - 1) - 1 + 1 : a[k] = s[1 + k - 1]
      BY <1>0, <2>1, SubSeqProperties
    <2> QED
      BY <1>0, <2>2
  <1>2. ASSUME NEW k \in 1 .. i - 1 PROVE a[k] = s[k]
    BY <1>1, Zenon
  <1>3. /\ b \in Seq(S) /\ Len(b) = Len(s) - i
        /\ \A k \in 1 .. Len(s) - i : b[k] = s[k + i]
    <2>1. \A k \in i + 1 .. Len(s) : s[k] \in S
      BY <1>0, ElementOfSeq
    <2>2. b \in Seq(S) /\ Len(b) = (IF i + 1 <= Len(s) THEN Len(s) - (i + 1) + 1 ELSE 0)
      BY <1>0, <2>1, SubSeqProperties
    <2>3. \A k \in 1 .. Len(s) - (i + 1) + 1 : b[k] = s[(i + 1) + k - 1]
      BY <1>0, <2>1, SubSeqProperties
    <2>4. ASSUME NEW k \in 1 .. Len(s) - i
          PROVE  k \in 1 .. Len(s) - (i + 1) + 1 /\ (i + 1) + k - 1 = k + i
      BY <1>0
    <2> HIDE DEF b
    <2> QED
      <3>1. Len(b) = Len(s) - i
        <4>1. Len(b) = (IF i + 1 <= Len(s) THEN Len(s) - (i + 1) + 1 ELSE 0)
          BY <2>2, Zenon
        <4> QED
          BY <1>0, <4>1, StretchLength, Zenon
      <3> QED
        BY <2>2, <2>3, <2>4, <3>1, Zenon
  <1>4. ASSUME NEW k \in 1 .. Len(s) - i PROVE b[k] = s[k + i]
    BY <1>3, Zenon
  <1>5. /\ a \o b \in Seq(S) /\ Len(a \o b) = Len(a) + Len(b)
        /\ \A k \in 1 .. Len(a) + Len(b) : (a \o b)[k] = IF k <= Len(a) THEN a[k] ELSE b[k - Len(a)]
    BY <1>1, <1>3, ConcatProperties, Zenon
  <1>6. Len(a) + Len(b) = Len(s) - 1
    <2>1. Len(a) = i - 1 /\ Len(b) = Len(s) - i
      BY <1>1, <1>3, Zenon
    <2> HIDE DEF a, b
    <2> QED
      BY <1>0, <2>1
  <1>7. ASSUME NEW k \in 1 .. Len(s) - 1
        PROVE  (a \o b)[k] = IF k < i THEN s[k] ELSE s[k + 1]
    <2>1. (a \o b)[k] = IF k <= Len(a) THEN a[k] ELSE b[k - Len(a)]
      BY <1>5, <1>6, Zenon
    <2>0. Len(a) = i - 1
      BY <1>1, Zenon
    <2> HIDE DEF a, b
    <2>2. CASE k < i
      <3>1. k <= Len(a) /\ k \in 1 .. i - 1
        BY <1>0, <2>0, <2>2
      <3> QED
        BY <1>2, <2>1, <2>2, <3>1, Zenon
    <2>3. CASE ~(k < i)
      <3>1. ~(k <= Len(a)) /\ k - Len(a) \in 1 .. Len(s) - i /\ (k - Len(a)) + i = k + 1
        BY <1>0, <2>0, <2>3
      <3>2. b[k - Len(a)] = s[(k - Len(a)) + i]
        BY <1>4, <3>1, Zenon
      <3> QED
        BY <2>1, <2>3, <3>1, <3>2, Zenon
    <2> QED
      BY <2>2, <2>3
  <1>8. RemoveAt(s, i) = a \o b
    BY Zenon DEF RemoveAt
  <1> HIDE DEF a, b
  <1> QED
    BY <1>5, <1>6, <1>7, <1>8, Zenon

LEMMA FrontFacts ==
  ASSUME NEW S, NEW s \in Seq(S), s # <<>>
  PROVE  /\ Len(s) \in Nat \ {0} /\ Last(s) \in S
         /\ Front(s) \in Seq(S) /\ Len(Front(s)) = Len(s) - 1
         /\ \A k \in 1 .. Len(s) - 1 : Front(s)[k] = s[k]
  <1> DEFINE f == SubSeq(s, 1, Len(s) - 1)
  <1>1. Len(s) \in Nat \ {0} /\ Last(s) \in S
    BY EmptySeq, ElementOfSeq DEF Last
  <1>2. \A k \in 1 .. Len(s) - 1 : s[k] \in S
    BY <1>1, ElementOfSeq
  <1>3. /\ f \in Seq(S) /\ Len(f) = Len(s) - 1
        /\ \A k \in 1 .. Len(s) - 1 : f[k] = s[k]
    <2>1. f \in Seq(S) /\ Len(f) = (IF 1 <= Len(s) - 1 THEN (Len(s) - 1) - 1 + 1 ELSE 0)
      BY <1>1, <1>2, SubSeqProperties
    <2>2. \A k \in 1 .. (Len(s) - 1) - 1 + 1 : f[k] = s[1 + k - 1]
      BY <1>1, <1>2, SubSeqProperties
    <2>3. ASSUME NEW k \in 1 .. Len(s) - 1 PROVE k \in 1 .. (Len(s) - 1) - 1 + 1 /\ 1 + k - 1 = k
      BY <1>1
    <2> HIDE DEF f
    <2> QED
      <3>1. Len(f) = Len(s) - 1
        <4>1. Len(f) = (IF 1 <= Len(s) - 1 THEN (Len(s) - 1) - 1 + 1 ELSE 0)
          BY <2>1, Zenon
        <4>2. 1 <= (Len(s) - 1) + 1 /\ Len(s) - 1 \in Int /\ 1 \in Int /\ (Len(s) - 1) - 1 + 1 = Len(s) - 1
          BY <1>1
        <4> QED
          BY <4>1, <4>2, StretchLength, Zenon
      <3> QED
        BY <2>1, <2>2, <2>3, <3>1, Zenon
  <1>4. Front(s) = f
    BY DEF Front
  <1> HIDE DEF f
  <1> QED
    BY <1>1, <1>3, <1>4, Zenon

(* Two stacks of frames of the same firings that differ only in how far     *)
(* their effects have come.                                                 *)
SameMarks(s, t) ==
  /\ Len(s) = Len(t)
  /\ \A k \in 1 .. Len(s) :
       s[k].firing = t[k].firing /\ s[k].immediate = t[k].immediate /\ s[k].option = t[k].option

LEMMA HistoryKept ==
  ASSUME History, SameMarks(stack', stack),
         UNCHANGED <<firings, pending_player_events, next_player_event_instance_id,
                     fired_event_log>>
  PROVE  History'
  <1>1. \A k, f : Opens(stack', k, f) <=> Opens(stack, k, f)
    BY DEF SameMarks, Opens
  <1>2. Len(stack') = Len(stack) /\ \A k \in 1 .. Len(stack) : stack'[k].option = stack[k].option
    BY DEF SameMarks
  <1>3. FramesSound(stack', firings)
    BY DEF History, FramesSound, SameMarks
  <1>4. WaitingOnce(stack', firings, pending_player_events)
    BY <1>1, <1>2 DEF History, WaitingOnce, Waits
  <1>5. \A r, f : Explains(stack', firings, r, f) <=> Explains(stack, firings, r, f)
    BY <1>1, <1>2 DEF Explains
  <1>6. LogSound(stack', firings, fired_event_log)
    BY <1>5 DEF History, LogSound
  <1> QED
    BY <1>3, <1>4, <1>6 DEF History

LEMMA AnswersFacts ==
  ASSUME NEW e \in Events
  PROVE  /\ AnswersOf(e) \subseteq Nat \ {0}
         /\ \A o \in Nat : o \in AnswersOf(e) \/ OptionsOf[e] = <<>> => OptionEffects(e, o) \in Seq(Effects)
         /\ ImmediateOf[e] \in Seq(Effects)
  <1>1. OptionsOf[e] \in Seq(Seq(Effects)) /\ ImmediateOf[e] \in Seq(Effects)
    BY EventsAssumption
  <1>2. DOMAIN OptionsOf[e] = 1 .. Len(OptionsOf[e])
    BY <1>1, LenProperties
  <1>3. AnswersOf(e) \subseteq Nat \ {0}
    BY <1>2 DEF AnswersOf
  <1>4. ASSUME NEW o \in Nat, o \in AnswersOf(e) \/ OptionsOf[e] = <<>>
        PROVE  OptionEffects(e, o) \in Seq(Effects)
    <2>1. CASE OptionsOf[e] = <<>>
      BY <2>1 DEF OptionEffects
    <2>2. CASE OptionsOf[e] # <<>>
      BY <1>1, <1>2, <1>4, <2>2, ElementOfSeq DEF OptionEffects, AnswersOf
    <2> QED
      BY <2>1, <2>2
  <1> QED
    BY <1>1, <1>3, <1>4

(* Firing an event on top of the frames there are. *)
(* A firing of e for t and its frame, with the option o, are added. *)
Added(s, s2, fs, fs2, L, n, e, t, o) ==
  /\ Len(fs) = n /\ Len(s) = L /\ Len(fs2) = n + 1 /\ Len(s2) = L + 1
  /\ s2[L + 1].firing = n + 1 /\ s2[L + 1].immediate /\ s2[L + 1].option = o
  /\ o # 0 => o \in AnswersOf(e)
  /\ \A k \in 1 .. L : /\ s2[k].firing = s[k].firing /\ s2[k].immediate = s[k].immediate
                       /\ s2[k].option = s[k].option
  /\ fs2[n + 1].event = e /\ fs2[n + 1].target = t /\ Len(fs2[n + 1].ran) = 1
  /\ \A f \in 1 .. n : fs2[f] = fs[f]

LEMMA FiringAdded ==
  ASSUME NEW s, NEW s2, NEW fs, NEW fs2, NEW ps, NEW next, NEW n \in Nat, NEW L \in Nat,
         NEW e, NEW t, NEW o, Added(s, s2, fs, fs2, L, n, e, t, o),
         FramesSound(s, fs), WaitingOnce(s, fs, ps), PlayersSound(fs, ps, next)
  PROVE  /\ FramesSound(s2, fs2) /\ WaitingOnce(s2, fs2, ps) /\ PlayersSound(fs2, ps, next)
         /\ \A r, f : f \in 1 .. n /\ Explains(s, fs, r, f) => Explains(s2, fs2, r, f)
         /\ \A r : r.event = e /\ r.target = t /\ r.option = o /\ o # 0 => Explains(s2, fs2, r, n + 1)
  <1> USE DEF Added
  <1>a. /\ L + 1 \in 1 .. L + 1 /\ L + 1 \notin 1 .. L /\ n + 1 \notin 1 .. n /\ n + 1 \in 1 .. n + 1
        /\ \A k : k \in 1 .. L + 1 <=> k \in 1 .. L \/ k = L + 1
        /\ \A f : f \in 1 .. n + 1 <=> f \in 1 .. n \/ f = n + 1
    OBVIOUS
  <1>1. \A k \in 1 .. L : s[k].firing \in 1 .. n
    BY Zenon DEF FramesSound
  <1>2. \A k \in 1 .. L : s2[k].firing \in 1 .. n
    BY <1>1, Zenon
  <1>3. \A f \in 1 .. n : \A k : Opens(s2, k, f) <=> Opens(s, k, f)
    <2> SUFFICES ASSUME NEW f \in 1 .. n, NEW k PROVE Opens(s2, k, f) <=> Opens(s, k, f)
      BY Zenon
    <2>1. CASE k \in 1 .. L
      BY <1>a, <2>1, Zenon DEF Opens
    <2>2. CASE k = L + 1
      BY <1>a, <2>2, Zenon DEF Opens
    <2>3. CASE k \notin 1 .. L /\ k # L + 1
      BY <1>a, <2>3, Zenon DEF Opens
    <2> QED
      BY <2>1, <2>2, <2>3
  <1>4. \A k : Opens(s2, k, n + 1) <=> k = L + 1
    <2> SUFFICES ASSUME NEW k PROVE Opens(s2, k, n + 1) <=> k = L + 1
      BY Zenon
    <2>1. CASE k \in 1 .. L
      BY <1>2, <1>a, <2>1, Zenon DEF Opens
    <2>2. CASE k = L + 1
      BY <1>a, <2>2, Zenon DEF Opens
    <2>3. CASE k \notin 1 .. L /\ k # L + 1
      BY <1>a, <2>3, Zenon DEF Opens
    <2> QED
      BY <2>1, <2>2, <2>3
  <1>5. \A i : ~Awaits(ps, i, n + 1)
    BY <1>a, Zenon DEF Awaits, PlayersSound
  <1>6. FramesSound(s2, fs2)
    <2> SUFFICES ASSUME NEW k \in 1 .. L + 1
                 PROVE  /\ s2[k].firing \in 1 .. n + 1
                        /\ s2[k].immediate /\ s2[k].option # 0 =>
                             s2[k].option \in AnswersOf(fs2[s2[k].firing].event)
      BY Zenon DEF FramesSound
    <2>1. CASE k = L + 1
      BY <1>a, <2>1, Zenon
    <2>2. CASE k \in 1 .. L
      <3>1. /\ s[k].firing \in 1 .. n
            /\ s[k].immediate /\ s[k].option # 0 => s[k].option \in AnswersOf(fs[s[k].firing].event)
        BY <2>2, Zenon DEF FramesSound
      <3>2. s[k].firing \in 1 .. n + 1 /\ fs2[s[k].firing] = fs[s[k].firing]
        BY <1>a, <3>1, Zenon
      <3>3. s2[k].firing = s[k].firing /\ s2[k].immediate = s[k].immediate /\ s2[k].option = s[k].option
        BY <2>2, Zenon
      <3> HIDE DEF Added
      <3> QED
        BY <3>1, <3>2, <3>3, Zenon
    <2> QED
      BY <1>a, <2>1, <2>2, Zenon
  <1>7. WaitingOnce(s2, fs2, ps)
    <2> SUFFICES ASSUME NEW f \in 1 .. n + 1
                 PROVE  /\ \A k, l \in 1 .. L + 1 : Opens(s2, k, f) /\ Opens(s2, l, f) => k = l
                        /\ \A i, j \in 1 .. Len(ps) : Awaits(ps, i, f) /\ Awaits(ps, j, f) => i = j
                        /\ \A k \in 1 .. L + 1, i \in 1 .. Len(ps) :
                             ~(Opens(s2, k, f) /\ Awaits(ps, i, f))
                        /\ Len(fs2[f].ran) = IF Waits(s2, ps, f) THEN 1 ELSE 2
      BY Zenon DEF WaitingOnce
    <2>1. CASE f \in 1 .. n
      <3>1. /\ \A k, l \in 1 .. L : Opens(s, k, f) /\ Opens(s, l, f) => k = l
            /\ \A i, j \in 1 .. Len(ps) : Awaits(ps, i, f) /\ Awaits(ps, j, f) => i = j
            /\ \A k \in 1 .. L, i \in 1 .. Len(ps) : ~(Opens(s, k, f) /\ Awaits(ps, i, f))
            /\ Len(fs[f].ran) = IF Waits(s, ps, f) THEN 1 ELSE 2
        BY <2>1, Zenon DEF WaitingOnce
      <3>2. \A k : Opens(s2, k, f) <=> Opens(s, k, f)
        BY <1>3, <2>1, Zenon
      <3>3. \A k : Opens(s, k, f) => k \in 1 .. L
        BY DEF Opens
      <3>4. Waits(s2, ps, f) <=> Waits(s, ps, f)
        BY <1>a, <3>2, <3>3, Zenon DEF Waits
      <3>5. fs2[f] = fs[f]
        BY <2>1, Zenon
      <3>6. Len(fs2[f].ran) = IF Waits(s2, ps, f) THEN 1 ELSE 2
        BY <3>1, <3>4, <3>5, Zenon
      <3>7. \A k, l \in 1 .. L + 1 : Opens(s2, k, f) /\ Opens(s2, l, f) => k = l
        BY <3>1, <3>2, <3>3, Zenon
      <3>8. \A k \in 1 .. L + 1, i \in 1 .. Len(ps) : ~(Opens(s2, k, f) /\ Awaits(ps, i, f))
        BY <3>1, <3>2, <3>3, Zenon
      <3> QED
        BY <3>1, <3>6, <3>7, <3>8, Zenon
    <2>2. CASE f = n + 1
      <3>1. Waits(s2, ps, n + 1)
        BY <1>4, <1>a, Zenon DEF Waits
      <3>2. Len(fs2[n + 1].ran) = IF Waits(s2, ps, n + 1) THEN 1 ELSE 2
        BY <3>1, Zenon
      <3>3. \A k, l \in 1 .. L + 1 : Opens(s2, k, n + 1) /\ Opens(s2, l, n + 1) => k = l
        <4> SUFFICES ASSUME NEW k, NEW l, Opens(s2, k, n + 1), Opens(s2, l, n + 1) PROVE k = l
          BY Zenon
        <4>1. k = L + 1 /\ l = L + 1
          BY <1>4, Zenon
        <4> QED
          BY <4>1
      <3>4. \A i \in 1 .. Len(ps) : ~Awaits(ps, i, n + 1)
        BY <1>5, Zenon
      <3> HIDE DEF Added
      <3> QED
        BY <2>2, <3>2, <3>3, <3>4, Zenon
    <2> QED
      BY <1>a, <2>1, <2>2, Zenon
  <1>8. PlayersSound(fs2, ps, next)
    BY <1>a, Zenon DEF PlayersSound
  <1>9. ASSUME NEW r, NEW f, f \in 1 .. n, Explains(s, fs, r, f) PROVE Explains(s2, fs2, r, f)
    <2>1. fs2[f] = fs[f]
      BY <1>9, Zenon
    <2>2. CASE Len(fs[f].ran) = 2 /\ fs[f].ran[2] = r.option
      BY <1>9, <2>1, <2>2, Zenon DEF Explains
    <2>3. CASE r.option # 0 /\ \E k \in 1 .. L : Opens(s, k, f) /\ s[k].option = r.option
      <3>1. PICK k \in 1 .. L : Opens(s, k, f) /\ s[k].option = r.option
        BY <2>3, Zenon
      <3>2. k \in 1 .. L + 1 /\ Opens(s2, k, f) /\ s2[k].option = r.option
        BY <1>3, <1>9, <1>a, <3>1, Zenon
      <3> QED
        BY <1>9, <2>1, <2>3, <3>2, Zenon DEF Explains
    <2> QED
      BY <1>9, <2>2, <2>3, Zenon DEF Explains
  <1>10. ASSUME NEW r, r.event = e, r.target = t, r.option = o, o # 0
         PROVE  Explains(s2, fs2, r, n + 1)
    BY <1>4, <1>10, <1>a, Zenon DEF Explains
  <1> QED
    BY <1>6, <1>7, <1>8, <1>9, <1>10, Zenon

(* A record and the firing g that explains it are added to a log. *)
RecordFits(s, fs, log, log2, len, m, g) ==
  /\ m \in [1 .. len -> 1 .. Len(fs)]
  /\ \A i, j \in 1 .. len : m[i] = m[j] => i = j
  /\ \A i \in 1 .. len :
       /\ Explains(s, fs, log[i], m[i]) /\ m[i] # g /\ log2[i] = log[i]
       /\ log[i].option \in AnswersOf(log[i].event) \/ OptionsOf[log[i].event] = <<>>
  /\ log2[len + 1].option \in AnswersOf(log2[len + 1].event)
     \/ OptionsOf[log2[len + 1].event] = <<>>
  /\ g \in 1 .. Len(fs) /\ Explains(s, fs, log2[len + 1], g)
  /\ Len(log2) = len + 1

LEMMA RecordAdded ==
  ASSUME NEW s, NEW fs, NEW log, NEW log2, NEW len \in Nat, NEW m, NEW g,
         RecordFits(s, fs, log, log2, len, m, g)
  PROVE  LogSound(s, fs, log2)
  <1> USE DEF RecordFits
  <1> DEFINE w == [i \in 1 .. len + 1 |-> IF i = len + 1 THEN g ELSE m[i]]
  <1>1. \A i : i \in 1 .. len + 1 <=> i \in 1 .. len \/ i = len + 1
    OBVIOUS
  <1>2. len + 1 \notin 1 .. len
    OBVIOUS
  <1>3. \A i \in 1 .. len : m[i] \in 1 .. Len(fs)
    BY Zenon
  <1>4. w[len + 1] = g /\ \A i \in 1 .. len : w[i] = m[i]
    BY <1>1, <1>2, Zenon
  <1>5. w \in [1 .. len + 1 -> 1 .. Len(fs)]
    BY <1>1, <1>3, Zenon
  <1> HIDE DEF w
  <1>6. ASSUME NEW i \in 1 .. len + 1, NEW j \in 1 .. len + 1, w[i] = w[j] PROVE i = j
    <2>1. CASE i \in 1 .. len /\ j \in 1 .. len
      <3>1. m[i] = m[j]
        BY <1>4, <1>6, <2>1, Zenon
      <3>2. \A a, b \in 1 .. len : m[a] = m[b] => a = b
        BY Zenon
      <3> HIDE DEF RecordFits
      <3> QED
        BY <2>1, <3>1, <3>2, Zenon
    <2>2. CASE i = len + 1 /\ j \in 1 .. len
      BY <1>4, <1>6, <2>2, Zenon
    <2>3. CASE i \in 1 .. len /\ j = len + 1
      BY <1>4, <1>6, <2>3, Zenon
    <2> QED
      BY <1>1, <2>1, <2>2, <2>3, Zenon
  <1>7. ASSUME NEW i \in 1 .. len + 1
        PROVE  /\ Explains(s, fs, log2[i], w[i])
               /\ log2[i].option \in AnswersOf(log2[i].event) \/ OptionsOf[log2[i].event] = <<>>
    <2>1. CASE i \in 1 .. len
      BY <1>4, <2>1, Zenon
    <2>2. CASE i = len + 1
      BY <1>4, <2>2, Zenon
    <2> QED
      BY <1>1, <2>1, <2>2, Zenon
  <1>8. Len(log2) = len + 1
    OBVIOUS
  <1> HIDE DEF RecordFits
  <1>9. \E v \in [1 .. len + 1 -> 1 .. Len(fs)] :
           /\ \A i, j \in 1 .. len + 1 : v[i] = v[j] => i = j
           /\ \A i \in 1 .. len + 1 : Explains(s, fs, log2[i], v[i])
    BY <1>5, <1>6, <1>7, Zenon
  <1> QED
    BY <1>7, <1>8, <1>9, Zenon DEF LogSound

(* Firing an event on top of the frames there are. *)
LEMMA FireStep ==
  ASSUME EventsTypeOK, History, NEW e \in Events, NEW t \in Targets,
         NEW below \in Seq(Frames), SameMarks(below, stack), Fire(e, t, below),
         UNCHANGED <<pending_player_events, next_player_event_instance_id>>
  PROVE  /\ stack' \in Seq(Frames) /\ firings' \in Seq(Firings)
         /\ fired_event_log' \in Seq(LogRecords)
         /\ History'
  <1> DEFINE n == Len(firings)
             L == Len(stack)
             len == Len(fired_event_log)
             firing == [event |-> e, target |-> t, ran |-> <<0>>]
  <1>1. PICK o \in IF Chooser(t) \in players THEN {0} ELSE AnswersOf(e) :
          /\ fired_event_log' = IF o = 0 THEN fired_event_log ELSE Logged(e, t, o)
          /\ stack' = Append(below, [firing |-> n + 1, immediate |-> TRUE,
                                     option |-> o, todo |-> ImmediateOf[e]])
    BY DEF Fire
  <1> DEFINE frame == [firing |-> n + 1, immediate |-> TRUE, option |-> o, todo |-> ImmediateOf[e]]
             record == [event |-> e, target |-> t, option |-> o]
  <1>2. /\ firings' = Append(firings, firing) /\ firings \in Seq(Firings) /\ n \in Nat
        /\ L \in Nat /\ Len(below) = L
        /\ fired_event_log \in Seq(LogRecords) /\ len \in Nat
    BY LenProperties DEF Fire, EventsTypeOK, SameMarks
  <1>3. o \in Nat /\ (o # 0 => o \in AnswersOf(e)) /\ frame \in Frames /\ firing \in Firings
        /\ record \in LogRecords
    <2>1. o \in Nat /\ (o # 0 => o \in AnswersOf(e)) /\ ImmediateOf[e] \in Seq(Effects)
      BY <1>1, AnswersFacts
    <2>2. <<0>> \in Seq(Nat)
      OBVIOUS
    <2> QED
      BY <1>2, <2>1, <2>2 DEF Frames, Firings, LogRecords
  <1>4. /\ stack' \in Seq(Frames) /\ Len(stack') = L + 1
        /\ stack'[L + 1].firing = n + 1 /\ stack'[L + 1].immediate /\ stack'[L + 1].option = o
        /\ \A k \in 1 .. L :
             /\ stack'[k].firing = stack[k].firing /\ stack'[k].immediate = stack[k].immediate
             /\ stack'[k].option = stack[k].option
    <2>1. /\ Append(below, frame) \in Seq(Frames) /\ Len(Append(below, frame)) = Len(below) + 1
          /\ \A k \in 1 .. Len(below) : Append(below, frame)[k] = below[k]
          /\ Append(below, frame)[Len(below) + 1] = frame
      BY <1>3, AppendProperties
    <2>2. frame.firing = n + 1 /\ frame.immediate /\ frame.option = o
      OBVIOUS
    <2>3. stack' = Append(below, frame) /\ Len(below) = L
      BY <1>1, <1>2
    <2>4. \A k \in 1 .. L :
             /\ below[k].firing = stack[k].firing /\ below[k].immediate = stack[k].immediate
             /\ below[k].option = stack[k].option
      BY <1>2, Zenon DEF SameMarks
    <2> HIDE DEF frame, L, n
    <2>5. \A k \in 1 .. L : stack'[k] = below[k]
      BY <2>1, <2>3, Zenon
    <2>6. stack'[L + 1] = frame /\ stack' \in Seq(Frames) /\ Len(stack') = L + 1
      BY <2>1, <2>3, Zenon
    <2> QED
      BY <2>2, <2>4, <2>5, <2>6, Zenon
  <1>5. /\ firings' \in Seq(Firings) /\ Len(firings') = n + 1
        /\ firings'[n + 1].event = e /\ firings'[n + 1].target = t /\ Len(firings'[n + 1].ran) = 1
        /\ \A f \in 1 .. n : firings'[f] = firings[f]
    <2>1. /\ firings' \in Seq(Firings) /\ Len(firings') = n + 1 /\ firings'[n + 1] = firing
          /\ \A f \in 1 .. n : firings'[f] = firings[f]
      BY <1>2, <1>3, AppendProperties
    <2>2. firing.event = e /\ firing.target = t /\ Len(firing.ran) = 1
      OBVIOUS
    <2> HIDE DEF firing
    <2> QED
      BY <2>1, <2>2, Zenon
  <1>6. record.event = e /\ record.target = t /\ record.option = o
    OBVIOUS
  <1>7. /\ Len(firings) = n /\ Len(stack) = L /\ Len(fired_event_log) = len
        /\ FramesSound(stack, firings)
        /\ WaitingOnce(stack, firings, pending_player_events)
        /\ PlayersSound(firings, pending_player_events, next_player_event_instance_id)
        /\ LogSound(stack, firings, fired_event_log)
    BY DEF History
  <1>8. fired_event_log' = fired_event_log \/ (o # 0 /\ fired_event_log' = Append(fired_event_log, record))
    BY <1>1 DEF Logged
  <1> HIDE DEF L, n, len, frame, firing, record
  <1>9. /\ FramesSound(stack', firings')
        /\ WaitingOnce(stack', firings', pending_player_events)
        /\ PlayersSound(firings', pending_player_events, next_player_event_instance_id)
        /\ \A r, f : f \in 1 .. n /\ Explains(stack, firings, r, f) => Explains(stack', firings', r, f)
        /\ \A r : r.event = e /\ r.target = t /\ r.option = o /\ o # 0 =>
                    Explains(stack', firings', r, n + 1)
    <2>1. Added(stack, stack', firings, firings', L, n, e, t, o)
      BY <1>3, <1>4, <1>5, <1>7, Zenon DEF Added
    <2> QED
      BY <1>2, <1>7, <2>1, FiringAdded, Zenon
  <1>10. PICK m \in [1 .. len -> 1 .. n] :
           /\ \A i, j \in 1 .. len : m[i] = m[j] => i = j
           /\ \A i \in 1 .. len : Explains(stack, firings, fired_event_log[i], m[i])
    BY <1>7, Zenon DEF LogSound
  <1>11. /\ m \in [1 .. len -> 1 .. n + 1]
         /\ \A i \in 1 .. len : m[i] \in 1 .. n /\ m[i] # n + 1
    BY <1>2
  <1>12. \A i \in 1 .. len : Explains(stack', firings', fired_event_log[i], m[i])
    BY <1>9, <1>10, <1>11, Zenon
  <1>13. \A i \in 1 .. len : \/ fired_event_log[i].option \in AnswersOf(fired_event_log[i].event)
                            \/ OptionsOf[fired_event_log[i].event] = <<>>
    BY <1>7, Zenon DEF LogSound
  <1>14. CASE fired_event_log' = fired_event_log
    <2>1. LogSound(stack', firings', fired_event_log')
      <3>1. \E v \in [1 .. len -> 1 .. n + 1] :
               /\ \A i, j \in 1 .. len : v[i] = v[j] => i = j
               /\ \A i \in 1 .. len : Explains(stack', firings', fired_event_log[i], v[i])
        BY <1>10, <1>11, <1>12, Zenon
      <3> QED
        BY <1>5, <1>7, <1>13, <1>14, <3>1, ZenonT(40) DEF LogSound
    <2> QED
      BY <1>2, <1>4, <1>5, <1>9, <1>14, <2>1 DEF History
  <1>15. CASE o # 0 /\ fired_event_log' = Append(fired_event_log, record)
    <2>1. /\ fired_event_log' \in Seq(LogRecords) /\ Len(fired_event_log') = len + 1
          /\ fired_event_log'[len + 1] = record
          /\ \A i \in 1 .. len : fired_event_log'[i] = fired_event_log[i]
      BY <1>2, <1>3, <1>7, <1>15, AppendProperties, SMTT(40)
    <2>2. n + 1 \in 1 .. n + 1
      BY <1>2
    <2>3. LogSound(stack', firings', fired_event_log')
      <3>1. Explains(stack', firings', record, n + 1) /\ record.option \in AnswersOf(record.event)
        BY <1>3, <1>6, <1>9, <1>15, Zenon
      <3>2. RecordFits(stack', firings', fired_event_log, fired_event_log', len, m, n + 1)
        BY <1>5, <1>10, <1>11, <1>12, <1>13, <2>1, <2>2, <3>1, Zenon DEF RecordFits
      <3> QED
        BY <1>2, <3>2, RecordAdded, Zenon
    <2> QED
      BY <1>4, <1>5, <1>9, <2>1, <2>3 DEF History
  <1> QED
    BY <1>8, <1>14, <1>15

(* What a stack without any waiting frame, and the empty one, have in it. *)
LEMMA EmptyFacts ==
  /\ <<>> \in Seq(Frames) /\ Len(<<>>) = 0
  /\ \A k, f : ~Opens(<<>>, k, f)
  /\ \A fs : FramesSound(<<>>, fs)
  BY DEF Opens, FramesSound

(* The log keeps its explanations when every firing does. *)
LEMMA LogKept ==
  ASSUME NEW s, NEW s2, NEW fs, NEW fs2, NEW log, LogSound(s, fs, log), Len(fs2) = Len(fs),
         \A r, f : f \in 1 .. Len(fs) /\ Explains(s, fs, r, f) => Explains(s2, fs2, r, f)
  PROVE  LogSound(s2, fs2, log)
  <1>1. PICK m \in [1 .. Len(log) -> 1 .. Len(fs)] :
          /\ \A i, j \in 1 .. Len(log) : m[i] = m[j] => i = j
          /\ \A i \in 1 .. Len(log) : Explains(s, fs, log[i], m[i])
    BY Zenon DEF LogSound
  <1>2. \A i \in 1 .. Len(log) : m[i] \in 1 .. Len(fs)
    BY Zenon
  <1>3. \A i \in 1 .. Len(log) : Explains(s2, fs2, log[i], m[i])
    BY <1>1, <1>2, Zenon
  <1> QED
    BY <1>1, <1>3, Zenon DEF LogSound

(* The firing g, which waited for its option, has run the option o. *)
Settled(s, s2, fs, fs2, ps, ps2, g, o) ==
  /\ Len(fs2) = Len(fs) /\ g \in 1 .. Len(fs) /\ Waits(s, ps, g)
  /\ \A f \in 1 .. Len(fs) : f # g => fs2[f] = fs[f]
  /\ fs2[g].event = fs[g].event /\ fs2[g].target = fs[g].target
  /\ Len(fs2[g].ran) = 2 /\ fs2[g].ran[2] = o
  /\ \A k, f : f # g => (Opens(s2, k, f) <=> Opens(s, k, f))
  /\ \A k, f : f # g /\ Opens(s, k, f) => s2[k].option = s[k].option
  /\ \A k : ~Opens(s2, k, g)
  /\ \A k : Opens(s, k, g) => s[k].option = o
  /\ \A i : ~Awaits(ps2, i, g)
  /\ \A f : f # g => ((\E i : Awaits(ps2, i, f)) <=> (\E i : Awaits(ps, i, f)))
  /\ \A f \in 1 .. Len(fs) : \A i, j : Awaits(ps2, i, f) /\ Awaits(ps2, j, f) => i = j

LEMMA OptionSettled ==
  ASSUME NEW s, NEW s2, NEW fs, NEW fs2, NEW ps, NEW ps2, NEW g, NEW o,
         WaitingOnce(s, fs, ps), Settled(s, s2, fs, fs2, ps, ps2, g, o)
  PROVE  /\ WaitingOnce(s2, fs2, ps2)
         /\ \A r, f : f \in 1 .. Len(fs) /\ Explains(s, fs, r, f) => Explains(s2, fs2, r, f)
  <1>1. \A u, k, f : Opens(u, k, f) => k \in 1 .. Len(u)
    BY DEF Opens
  <1>2. \A q, i, f : Awaits(q, i, f) => i \in 1 .. Len(q)
    BY DEF Awaits
  <1>3. \A u, q, f : Waits(u, q, f) <=> (\E k : Opens(u, k, f)) \/ (\E i : Awaits(q, i, f))
    BY <1>1, <1>2, Zenon DEF Waits
  <1>4. ASSUME NEW f \in 1 .. Len(fs)
        PROVE  /\ \A k, l : Opens(s, k, f) /\ Opens(s, l, f) => k = l
               /\ \A k, i : ~(Opens(s, k, f) /\ Awaits(ps, i, f))
               /\ Len(fs[f].ran) = IF Waits(s, ps, f) THEN 1 ELSE 2
    BY <1>1, <1>2, Zenon DEF WaitingOnce
  <1>5. ASSUME NEW f \in 1 .. Len(fs)
        PROVE  /\ \A k, l : Opens(s2, k, f) /\ Opens(s2, l, f) => k = l
               /\ \A k, i : ~(Opens(s2, k, f) /\ Awaits(ps2, i, f))
               /\ Len(fs2[f].ran) = IF Waits(s2, ps2, f) THEN 1 ELSE 2
    <2>1. CASE f = g
      BY <1>3, <2>1, Zenon DEF Settled
    <2>2. CASE f # g
      <3>1. fs2[f] = fs[f] /\ \A k : Opens(s2, k, f) <=> Opens(s, k, f)
        BY <2>2, Zenon DEF Settled
      <3>2. (\E i : Awaits(ps2, i, f)) <=> (\E i : Awaits(ps, i, f))
        BY <2>2, Zenon DEF Settled
      <3>3. Waits(s2, ps2, f) <=> Waits(s, ps, f)
        BY <1>3, <3>1, <3>2, Zenon
      <3> QED
        BY <1>4, <3>1, <3>2, <3>3, Zenon
    <2> QED
      BY <2>1, <2>2
  <1>6. WaitingOnce(s2, fs2, ps2)
    BY <1>5, Zenon DEF WaitingOnce, Settled
  <1>7. ASSUME NEW r, NEW f, f \in 1 .. Len(fs), Explains(s, fs, r, f)
        PROVE  Explains(s2, fs2, r, f)
    <2>0. fs[f].event = r.event /\ fs[f].target = r.target
      BY <1>7, Zenon DEF Explains
    <2>1. CASE f = g
      <3>1. Len(fs[f].ran) = 1
        BY <1>4, <1>7, <2>1, Zenon DEF Settled
      <3>2. Len(fs[f].ran) # 2
        BY <3>1
      <3>3. PICK k : Opens(s, k, f) /\ s[k].option = r.option
        BY <1>7, <3>2, Zenon DEF Explains
      <3>4. r.option = o
        BY <2>1, <3>3, Zenon DEF Settled
      <3> QED
        BY <2>0, <2>1, <3>4, Zenon DEF Explains, Settled
    <2>2. CASE f # g
      <3>1. fs2[f] = fs[f]
        BY <1>7, <2>2, Zenon DEF Settled
      <3>2. CASE Len(fs[f].ran) = 2 /\ fs[f].ran[2] = r.option
        BY <2>0, <3>1, <3>2, Zenon DEF Explains
      <3>3. CASE r.option # 0 /\ \E k \in 1 .. Len(s) : Opens(s, k, f) /\ s[k].option = r.option
        <4>1. PICK k \in 1 .. Len(s) : Opens(s, k, f) /\ s[k].option = r.option
          BY <3>3
        <4>2. Opens(s2, k, f) /\ s2[k].option = r.option
          BY <2>2, <4>1, Zenon DEF Settled
        <4> QED
          BY <1>1, <2>0, <3>1, <3>3, <4>2, Zenon DEF Explains
      <3> QED
        BY <1>7, <3>2, <3>3, Zenon DEF Explains
    <2> QED
      BY <2>1, <2>2
  <1> QED
    BY <1>6, <1>7, Zenon

(* The firing g, whose frame is taken off the stack, waits for its player. *)
Offered(s, s2, fs, ps, ps2, L, P, g) ==
  /\ Len(s) = L + 1 /\ Len(s2) = L /\ Len(ps) = P /\ Len(ps2) = P + 1
  /\ \A k \in 1 .. L : s2[k] = s[k]
  /\ \A i \in 1 .. P : ps2[i] = ps[i]
  /\ s[L + 1].immediate /\ s[L + 1].firing = g /\ s[L + 1].option = 0 /\ ps2[P + 1].firing = g
  /\ g \in 1 .. Len(fs)

LEMMA FiringOffered ==
  ASSUME NEW s, NEW s2, NEW fs, NEW ps, NEW ps2, NEW L \in Nat, NEW P \in Nat, NEW g,
         WaitingOnce(s, fs, ps), Offered(s, s2, fs, ps, ps2, L, P, g)
  PROVE  /\ WaitingOnce(s2, fs, ps2)
         /\ \A r, f : f \in 1 .. Len(fs) /\ Explains(s, fs, r, f) => Explains(s2, fs, r, f)
  <1>a. /\ L + 1 \in 1 .. L + 1 /\ L + 1 \notin 1 .. L /\ P + 1 \in 1 .. P + 1 /\ P + 1 \notin 1 .. P
        /\ \A k : k \in 1 .. L + 1 <=> k \in 1 .. L \/ k = L + 1
        /\ \A k : k \in 1 .. P + 1 <=> k \in 1 .. P \/ k = P + 1
    OBVIOUS
  <1>1. \A k, f : Opens(s2, k, f) <=> k # L + 1 /\ Opens(s, k, f)
    <2> SUFFICES ASSUME NEW k, NEW f PROVE Opens(s2, k, f) <=> k # L + 1 /\ Opens(s, k, f)
      BY Zenon
    <2>1. CASE k \in 1 .. L
      <3>1. s2[k] = s[k] /\ k \in 1 .. L + 1 /\ k # L + 1 /\ Len(s2) = L /\ Len(s) = L + 1
        BY <1>a, <2>1, Zenon DEF Offered
      <3> QED
        BY <2>1, <3>1, Zenon DEF Opens
    <2>2. CASE k \notin 1 .. L
      BY <1>a, <2>2, Zenon DEF Offered, Opens
    <2> QED
      BY <2>1, <2>2
  <1>2. \A f : Opens(s, L + 1, f) <=> f = g
    BY <1>a, Zenon DEF Offered, Opens
  <1>3. \A i, f : Awaits(ps2, i, f) <=> Awaits(ps, i, f) \/ (i = P + 1 /\ f = g)
    <2> SUFFICES ASSUME NEW i, NEW f
                 PROVE  Awaits(ps2, i, f) <=> Awaits(ps, i, f) \/ (i = P + 1 /\ f = g)
      BY Zenon
    <2>1. CASE i \in 1 .. P
      <3>1. ps2[i] = ps[i] /\ i \in 1 .. P + 1 /\ i # P + 1 /\ Len(ps2) = P + 1 /\ Len(ps) = P
        BY <1>a, <2>1, Zenon DEF Offered
      <3>2. Awaits(ps2, i, f) <=> Awaits(ps, i, f)
        BY <2>1, <3>1, Zenon DEF Awaits
      <3> QED
        BY <3>1, <3>2, Zenon
    <2>2. CASE i = P + 1
      BY <1>a, <2>2, Zenon DEF Offered, Awaits
    <2>3. CASE i \notin 1 .. P /\ i # P + 1
      BY <1>a, <2>3, Zenon DEF Offered, Awaits
    <2> QED
      BY <2>1, <2>2, <2>3
  <1>4. \A u, k, f : Opens(u, k, f) => k \in 1 .. Len(u)
    BY DEF Opens
  <1>5. \A q, i, f : Awaits(q, i, f) => i \in 1 .. Len(q)
    BY DEF Awaits
  <1>6. \A u, q, f : Waits(u, q, f) <=> (\E k : Opens(u, k, f)) \/ (\E i : Awaits(q, i, f))
    BY <1>4, <1>5, Zenon DEF Waits
  <1>7. ASSUME NEW f \in 1 .. Len(fs)
        PROVE  /\ \A k, l : Opens(s, k, f) /\ Opens(s, l, f) => k = l
               /\ \A i, j : Awaits(ps, i, f) /\ Awaits(ps, j, f) => i = j
               /\ \A k, i : ~(Opens(s, k, f) /\ Awaits(ps, i, f))
               /\ Len(fs[f].ran) = IF Waits(s, ps, f) THEN 1 ELSE 2
    BY <1>4, <1>5, Zenon DEF WaitingOnce
  <1>8. ASSUME NEW f \in 1 .. Len(fs)
        PROVE  /\ \A k, l : Opens(s2, k, f) /\ Opens(s2, l, f) => k = l
               /\ \A i, j : Awaits(ps2, i, f) /\ Awaits(ps2, j, f) => i = j
               /\ \A k, i : ~(Opens(s2, k, f) /\ Awaits(ps2, i, f))
               /\ Waits(s2, ps2, f) <=> Waits(s, ps, f)
    <2>1. \A k, l : Opens(s2, k, f) /\ Opens(s2, l, f) => k = l
      BY <1>1, <1>7, Zenon
    <2>2. CASE f = g
      <3>1. \A k : ~Opens(s2, k, f)
        BY <1>1, <1>2, <1>7, <2>2, Zenon
      <3>2. \A i : ~Awaits(ps, i, f)
        BY <1>2, <1>7, <2>2, Zenon
      <3>3. \A i : Awaits(ps2, i, f) <=> i = P + 1
        BY <1>3, <2>2, <3>2, Zenon
      <3>4. Waits(s2, ps2, f) /\ Waits(s, ps, f)
        BY <1>2, <1>6, <2>2, <3>3, Zenon
      <3>5. ASSUME NEW i, NEW j, Awaits(ps2, i, f), Awaits(ps2, j, f) PROVE i = j
        <4>1. i = P + 1 /\ j = P + 1
          BY <3>3, <3>5, Zenon
        <4> QED
          BY <4>1
      <3> QED
        BY <2>1, <3>1, <3>4, <3>5, Zenon
    <2>3. CASE f # g
      <3>1. ASSUME NEW k PROVE Opens(s2, k, f) <=> Opens(s, k, f)
        <4>1. CASE k = L + 1
          BY <1>1, <1>2, <2>3, <4>1, Zenon
        <4>2. CASE k # L + 1
          BY <1>1, <4>2, Zenon
        <4> QED
          BY <4>1, <4>2
      <3>2. ASSUME NEW i PROVE Awaits(ps2, i, f) <=> Awaits(ps, i, f)
        <4>1. Awaits(ps2, i, f) <=> Awaits(ps, i, f) \/ (i = P + 1 /\ f = g)
          BY <1>3, Zenon
        <4> QED
          BY <2>3, <4>1
      <3> QED
        BY <1>6, <1>7, <3>1, <3>2, Zenon
    <2> QED
      BY <2>2, <2>3
  <1>9. WaitingOnce(s2, fs, ps2)
    BY <1>7, <1>8, Zenon DEF WaitingOnce
  <1>10. ASSUME NEW r, NEW f, f \in 1 .. Len(fs), Explains(s, fs, r, f)
         PROVE  Explains(s2, fs, r, f)
    <2>1. CASE Len(fs[f].ran) = 2 /\ fs[f].ran[2] = r.option
      BY <1>10, <2>1, Zenon DEF Explains
    <2>2. CASE r.option # 0 /\ \E k \in 1 .. Len(s) : Opens(s, k, f) /\ s[k].option = r.option
      <3>1. PICK k \in 1 .. Len(s) : Opens(s, k, f) /\ s[k].option = r.option
        BY <2>2
      <3>2. k # L + 1
        BY <2>2, <3>1, Zenon DEF Offered
      <3>3. k \in 1 .. L
        BY <1>a, <3>1, <3>2, Zenon DEF Offered
      <3>4. Opens(s2, k, f) /\ s2[k].option = r.option
        BY <1>1, <3>1, <3>2, <3>3, Zenon DEF Offered
      <3> QED
        BY <1>4, <1>10, <2>2, <3>4, Zenon DEF Explains
    <2> QED
      BY <1>10, <2>1, <2>2, Zenon DEF Explains
  <1> QED
    BY <1>9, <1>10, Zenon

LEMMA EventsInit == InitEvents => EventsInv
  <1> SUFFICES ASSUME InitEvents PROVE EventsInv
    OBVIOUS
  <1>1. EventsTypeOK /\ QueueInTime
    BY EventsAssumption DEF InitEvents, EventsTypeOK, QueueInTime
  <1>2. 1 .. Len(<<>>) = {}
    OBVIOUS
  <1>3. [i \in {} |-> i] \in [{} -> {}]
    OBVIOUS
  <1>4. LogSound(<<>>, <<>>, <<>>)
    BY <1>2, <1>3, Zenon DEF LogSound
  <1>5. History
    BY <1>2, <1>4, EmptyFacts DEF InitEvents, History, WaitingOnce, PlayersSound
  <1> QED
    BY <1>1, <1>5 DEF EventsInv

(* Outside the loop over the queue, a day that does not end makes nothing due. *)
LEMMA QueueKept ==
  ASSUME QueueInTime, UNCHANGED <<event_day, pending_events>>, phase # "pending", phase' # "pending"
  PROVE  QueueInTime'
  BY DEF QueueInTime

LEMMA HistorySame ==
  ASSUME History, UNCHANGED <<stack, firings, pending_player_events,
                              next_player_event_instance_id, fired_event_log>>
  PROVE  History'
  BY DEF History

(* Going to another part of the tick. *)
LEMMA EnterStep ==
  ASSUME EventsInv, NEW p \in {"idle", "country", "province", "pulse"}, Enter(p), Untouched,
         \A i \in 1 .. Len(pending_events) : pending_events[i].date > event_day,
         event_day # 0
  PROVE  EventsInv'
  <1>1. EventsTypeOK'
    BY DEF EventsInv, EventsTypeOK, Enter, Untouched
  <1>2. QueueInTime'
    BY DEF EventsInv, EventsTypeOK, QueuedEvents, QueueInTime, Enter, Untouched
  <1>3. History'
    BY HistorySame DEF EventsInv, Enter, Untouched
  <1> QED
    BY <1>1, <1>2, <1>3 DEF EventsInv

(* A loop fires an event, or none, and moves on. *)
LEMMA LoopStep ==
  ASSUME EventsInv, stack = <<>>, phase # "pending", phase # "idle", UNCHANGED phase,
         cursor' \in (Nat \ {0}) \X Nat, UNCHANGED pending_events, Untouched,
         \/ NothingFires
         \/ \E e \in Events, t \in Targets : Fire(e, t, <<>>)
  PROVE  EventsInv'
  <1>1. QueueInTime'
    BY QueueKept DEF EventsInv, Untouched
  <1>2. CASE NothingFires
    <2>1. EventsTypeOK'
      BY <1>2 DEF EventsInv, EventsTypeOK, NothingFires, Untouched
    <2>2. History'
      BY <1>2, HistorySame DEF EventsInv, NothingFires, Untouched
    <2> QED
      BY <1>1, <2>1, <2>2 DEF EventsInv
  <1>3. CASE \E e \in Events, t \in Targets : Fire(e, t, <<>>)
    <2>1. PICK e \in Events, t \in Targets : Fire(e, t, <<>>)
      BY <1>3
    <2>2. SameMarks(<<>>, stack) /\ <<>> \in Seq(Frames)
      BY EmptyFacts DEF SameMarks
    <2>3. /\ stack' \in Seq(Frames) /\ firings' \in Seq(Firings)
          /\ fired_event_log' \in Seq(LogRecords) /\ History'
      BY <2>1, <2>2, FireStep DEF EventsInv, Untouched
    <2>4. EventsTypeOK'
      BY <2>3 DEF EventsInv, EventsTypeOK, Untouched
    <2> QED
      BY <1>1, <2>3, <2>4 DEF EventsInv
  <1> QED
    BY <1>2, <1>3

LEMMA RunEffectStep == EventsInv /\ RunEffect => EventsInv'
  <1> SUFFICES ASSUME EventsInv, RunEffect PROVE EventsInv'
    OBVIOUS
  <1> DEFINE top == [Top EXCEPT !.todo = Tail(@)]
             below == Append(Front(stack), top)
             effect == Head(Top.todo)
  <1>1. /\ stack \in Seq(Frames) /\ stack # <<>> /\ Top.todo # <<>> /\ Top \in Frames
        /\ Len(stack) \in Nat \ {0}
        /\ Front(stack) \in Seq(Frames) /\ Len(Front(stack)) = Len(stack) - 1
        /\ \A k \in 1 .. Len(stack) - 1 : Front(stack)[k] = stack[k]
    BY FrontFacts DEF RunEffect, EventsInv, EventsTypeOK, Top
  <1>2. /\ effect \in Effects /\ top \in Frames
        /\ top.firing = Top.firing /\ top.immediate = Top.immediate /\ top.option = Top.option
    <2>1. Top.todo \in Seq(Effects)
      BY <1>1 DEF Frames
    <2>2. Head(Top.todo) \in Effects /\ Tail(Top.todo) \in Seq(Effects)
      BY <1>1, <2>1, HeadTailProperties
    <2> QED
      BY <1>1, <2>2 DEF Frames
  <1>3. below \in Seq(Frames) /\ SameMarks(below, stack)
    <2>1. /\ below \in Seq(Frames) /\ Len(below) = Len(Front(stack)) + 1
          /\ \A k \in 1 .. Len(Front(stack)) : below[k] = Front(stack)[k]
          /\ below[Len(Front(stack)) + 1] = top
      BY <1>1, <1>2, AppendProperties
    <2>2. Top = stack[Len(stack)]
      BY DEF Top, Last
    <2> HIDE DEF below, top
    <2>3. Len(below) = Len(stack) /\ below[Len(stack)] = top
      BY <1>1, <2>1
    <2>4. ASSUME NEW k \in 1 .. Len(stack)
          PROVE  below[k].firing = stack[k].firing /\ below[k].immediate = stack[k].immediate
                 /\ below[k].option = stack[k].option
      <3>1. CASE k = Len(stack)
        BY <1>2, <2>2, <2>3, <3>1, Zenon
      <3>2. CASE k # Len(stack)
        <4>1. k \in 1 .. Len(stack) - 1
          BY <1>1, <3>2
        <4> QED
          BY <1>1, <2>1, <4>1, Zenon
      <3> QED
        BY <3>1, <3>2
    <2> QED
      BY <2>1, <2>3, <2>4, Zenon DEF SameMarks
  <1>4. effect.event \in Events /\ effect.delay \in Nat /\ Reached(effect) \subseteq Targets
    BY <1>2 DEF Effects, Reached
  <1>5. UNCHANGED <<event_day, phase, cursor, pending_player_events,
                    next_player_event_instance_id>>
    BY DEF RunEffect
  <1> HIDE DEF below, effect, top
  <1>6. CASE stack' = below /\ UNCHANGED <<firings, fired_event_log>>
    <2>1. History'
      BY <1>3, <1>5, <1>6, HistoryKept DEF EventsInv
    <2>2. CASE UNCHANGED pending_events
      <3>1. EventsTypeOK' /\ QueueInTime'
        BY <1>3, <1>5, <1>6, <2>2 DEF EventsInv, EventsTypeOK, QueueInTime
      <3> QED
        BY <2>1, <3>1 DEF EventsInv
    <2>3. CASE \E t \in Reached(effect) :
                 /\ effect.delay > 0
                 /\ pending_events' = Append(pending_events,
                      [event |-> effect.event, target |-> t, date |-> event_day + effect.delay])
      <3>1. PICK t \in Reached(effect) :
              /\ effect.delay > 0
              /\ pending_events' = Append(pending_events,
                   [event |-> effect.event, target |-> t, date |-> event_day + effect.delay])
        BY <2>3
      <3> DEFINE p == [event |-> effect.event, target |-> t, date |-> event_day + effect.delay]
      <3>2. pending_events \in Seq(QueuedEvents) /\ event_day \in Nat
        BY EventsAssumption DEF EventsInv, EventsTypeOK
      <3>3. p \in QueuedEvents /\ p.date > event_day /\ p.date >= event_day
        BY <1>4, <3>1, <3>2 DEF QueuedEvents
      <3>4. /\ pending_events' \in Seq(QueuedEvents)
            /\ Len(pending_events') = Len(pending_events) + 1
            /\ \A k \in 1 .. Len(pending_events) : pending_events'[k] = pending_events[k]
            /\ pending_events'[Len(pending_events) + 1] = p
        BY <3>1, <3>2, <3>3, AppendProperties
      <3>5. EventsTypeOK'
        BY <1>3, <1>5, <1>6, <3>4 DEF EventsInv, EventsTypeOK
      <3> HIDE DEF p
      <3>6. \A k : k \in 1 .. Len(pending_events) + 1 =>
                     k \in 1 .. Len(pending_events) \/ k = Len(pending_events) + 1
        BY <3>2, LenProperties
      <3>7. QueueInTime'
        BY <1>5, <3>3, <3>4, <3>6, Zenon DEF EventsInv, QueueInTime
      <3> QED
        BY <2>1, <3>5, <3>7 DEF EventsInv
    <2> QED
      BY <1>4, <1>6, <2>2, <2>3 DEF RunEffect, Fire, effect
  <1>7. CASE \E t \in Reached(effect) : Fire(effect.event, t, below) /\ UNCHANGED pending_events
    <2>1. PICK t \in Reached(effect) : Fire(effect.event, t, below) /\ UNCHANGED pending_events
      BY <1>7
    <2>2. /\ stack' \in Seq(Frames) /\ firings' \in Seq(Firings)
          /\ fired_event_log' \in Seq(LogRecords) /\ History'
      BY <1>3, <1>4, <1>5, <2>1, FireStep DEF EventsInv
    <2>3. EventsTypeOK' /\ QueueInTime'
      BY <1>5, <2>1, <2>2 DEF EventsInv, EventsTypeOK, QueueInTime
    <2> QED
      BY <2>2, <2>3 DEF EventsInv
  <1> QED
    BY <1>6, <1>7 DEF RunEffect, effect, below, top

(* The frame on top of the stack and those below it. *)
LEMMA TopFacts ==
  ASSUME EventsTypeOK, stack # <<>>
  PROVE  /\ Len(stack) \in Nat \ {0} /\ Top = stack[Len(stack)] /\ Top \in Frames
         /\ Front(stack) \in Seq(Frames) /\ Len(Front(stack)) = Len(stack) - 1
         /\ \A k \in 1 .. Len(stack) - 1 : Front(stack)[k] = stack[k]
         /\ \A k : k \in 1 .. Len(stack) <=> k \in 1 .. Len(stack) - 1 \/ k = Len(stack)
         /\ Len(stack) \notin 1 .. Len(stack) - 1 /\ Len(stack) \in 1 .. Len(stack)
  <1>1. /\ Len(stack) \in Nat \ {0} /\ Top \in Frames
        /\ Front(stack) \in Seq(Frames) /\ Len(Front(stack)) = Len(stack) - 1
        /\ \A k \in 1 .. Len(stack) - 1 : Front(stack)[k] = stack[k]
    BY FrontFacts DEF EventsTypeOK, Top
  <1>2. /\ \A k : k \in 1 .. Len(stack) <=> k \in 1 .. Len(stack) - 1 \/ k = Len(stack)
        /\ Len(stack) \notin 1 .. Len(stack) - 1 /\ Len(stack) \in 1 .. Len(stack)
    BY <1>1
  <1> QED
    BY <1>1, <1>2 DEF Top, Last

LEMMA EndOptionStep == EventsInv /\ EndOption => EventsInv'
  <1> SUFFICES ASSUME EventsInv, EndOption PROVE EventsInv'
    OBVIOUS
  <1> DEFINE s2 == Front(stack)
  <1>1. /\ stack # <<>> /\ ~Top.immediate /\ stack' = s2
        /\ UNCHANGED <<event_day, pending_events, pending_player_events, phase, cursor,
                       next_player_event_instance_id, fired_event_log, firings>>
    BY DEF EndOption
  <1>2. /\ Len(stack) \in Nat \ {0} /\ Top = stack[Len(stack)]
        /\ s2 \in Seq(Frames) /\ Len(s2) = Len(stack) - 1
        /\ \A k \in 1 .. Len(stack) - 1 : s2[k] = stack[k]
        /\ \A k : k \in 1 .. Len(stack) <=> k \in 1 .. Len(stack) - 1 \/ k = Len(stack)
    BY <1>1, TopFacts DEF EventsInv
  <1> HIDE DEF s2
  <1>3. ASSUME NEW k, NEW f PROVE Opens(s2, k, f) <=> Opens(stack, k, f)
    <2>1. CASE k \in 1 .. Len(stack) - 1
      BY <1>2, <2>1, Zenon DEF Opens
    <2>2. CASE k \notin 1 .. Len(stack) - 1
      BY <1>1, <1>2, <2>2, Zenon DEF Opens
    <2> QED
      BY <2>1, <2>2
  <1>4. FramesSound(s2, firings)
    BY <1>2, Zenon DEF EventsInv, History, FramesSound
  <1>5. \A u, k, f : Opens(u, k, f) => k \in 1 .. Len(u)
    BY DEF Opens
  <1>6. \A q, f : Waits(s2, q, f) <=> Waits(stack, q, f)
    BY <1>3, <1>5, Zenon DEF Waits
  <1>7. WaitingOnce(s2, firings, pending_player_events)
    <2>1. ASSUME NEW f \in 1 .. Len(firings)
          PROVE  /\ \A k, l \in 1 .. Len(s2) : Opens(s2, k, f) /\ Opens(s2, l, f) => k = l
                 /\ \A i, j \in 1 .. Len(pending_player_events) :
                      Awaits(pending_player_events, i, f) /\ Awaits(pending_player_events, j, f) => i = j
                 /\ \A k \in 1 .. Len(s2), i \in 1 .. Len(pending_player_events) :
                      ~(Opens(s2, k, f) /\ Awaits(pending_player_events, i, f))
                 /\ Len(firings[f].ran) = IF Waits(s2, pending_player_events, f) THEN 1 ELSE 2
      BY <1>3, <1>5, <1>6, Zenon DEF EventsInv, History, WaitingOnce
    <2> QED
      BY <2>1, Zenon DEF WaitingOnce
  <1>8. ASSUME NEW r, NEW f, Explains(stack, firings, r, f) PROVE Explains(s2, firings, r, f)
    <2>1. CASE Len(firings[f].ran) = 2 /\ firings[f].ran[2] = r.option
      BY <1>8, <2>1, Zenon DEF Explains
    <2>2. CASE r.option # 0 /\ \E k \in 1 .. Len(stack) : Opens(stack, k, f) /\ stack[k].option = r.option
      <3>1. PICK k \in 1 .. Len(stack) : Opens(stack, k, f) /\ stack[k].option = r.option
        BY <2>2
      <3>2. k \in 1 .. Len(stack) - 1
        BY <1>1, <1>2, <3>1, Zenon DEF Opens
      <3>3. Opens(s2, k, f) /\ s2[k].option = r.option
        BY <1>2, <1>3, <3>1, <3>2, Zenon
      <3> QED
        BY <1>5, <1>8, <2>2, <3>3, Zenon DEF Explains
    <2> QED
      BY <1>8, <2>1, <2>2, Zenon DEF Explains
  <1>9. LogSound(s2, firings, fired_event_log)
    BY <1>8, LogKept, Zenon DEF EventsInv, History
  <1>10. History'
    BY <1>1, <1>4, <1>7, <1>9 DEF EventsInv, History
  <1>11. EventsTypeOK' /\ QueueInTime'
    BY <1>1, <1>2 DEF EventsInv, EventsTypeOK, QueueInTime
  <1> QED
    BY <1>10, <1>11 DEF EventsInv

LEMMA AwaitPlayerStep == EventsInv /\ AwaitPlayer => EventsInv'
  <1> SUFFICES ASSUME EventsInv, AwaitPlayer PROVE EventsInv'
    OBVIOUS
  <1> DEFINE s2 == Front(stack)
             L == Len(stack) - 1
             P == Len(pending_player_events)
             g == Top.firing
             next == next_player_event_instance_id
             offer == [instance_id |-> next, firing |-> g]
             ps2 == Append(pending_player_events, offer)
  <1>1. /\ stack # <<>> /\ Top.immediate /\ Top.option = 0 /\ stack' = s2
        /\ pending_player_events' = ps2 /\ next_player_event_instance_id' = next + 1
        /\ UNCHANGED <<event_day, pending_events, phase, cursor, fired_event_log, firings>>
    BY DEF AwaitPlayer
  <1>2. /\ L \in Nat /\ Len(stack) = L + 1 /\ Top = stack[L + 1] /\ Top \in Frames
        /\ s2 \in Seq(Frames) /\ Len(s2) = L /\ \A k \in 1 .. L : s2[k] = stack[k]
        /\ L + 1 \in 1 .. Len(stack)
    BY <1>1, TopFacts DEF EventsInv
  <1>3. /\ pending_player_events \in Seq(PlayerEvents) /\ P \in Nat /\ next \in Nat
        /\ g \in 1 .. Len(firings) /\ g \in Nat
    BY <1>2, LenProperties DEF EventsInv, EventsTypeOK, History, FramesSound, Frames
  <1>4. offer \in PlayerEvents /\ offer.instance_id = next /\ offer.firing = g
    BY <1>3 DEF PlayerEvents
  <1>5. /\ ps2 \in Seq(PlayerEvents) /\ Len(ps2) = P + 1 /\ ps2[P + 1] = offer
        /\ \A i \in 1 .. P : ps2[i] = pending_player_events[i]
    BY <1>3, <1>4, AppendProperties
  <1>6. /\ FramesSound(stack, firings) /\ WaitingOnce(stack, firings, pending_player_events)
        /\ PlayersSound(firings, pending_player_events, next)
        /\ LogSound(stack, firings, fired_event_log)
    BY DEF EventsInv, History
  <1>7. \A i \in 1 .. P : pending_player_events[i].instance_id \in Nat
    <2>1. \A i \in 1 .. P : pending_player_events[i] \in PlayerEvents
      BY <1>3, ElementOfSeq
    <2> QED
      BY <2>1 DEF PlayerEvents
  <1>a. /\ \A k : k \in 1 .. L => k \in 1 .. L + 1
        /\ \A i : i \in 1 .. P + 1 <=> i \in 1 .. P \/ i = P + 1
    <2> HIDE DEF L, P
    <2> QED
      BY <1>2, <1>3
  <1>b. P = Len(pending_player_events)
    OBVIOUS
  <1> HIDE DEF s2, L, P, g, next, offer, ps2
  <1>8. Offered(stack, s2, firings, pending_player_events, ps2, L, P, g)
    BY <1>1, <1>2, <1>3, <1>4, <1>5, Zenon DEF Offered, P, g
  <1>9. /\ WaitingOnce(s2, firings, ps2)
        /\ \A r, f : f \in 1 .. Len(firings) /\ Explains(stack, firings, r, f) => Explains(s2, firings, r, f)
    BY <1>2, <1>3, <1>6, <1>8, FiringOffered, Zenon
  <1>10. LogSound(s2, firings, fired_event_log)
    BY <1>6, <1>9, LogKept, Zenon
  <1>11. FramesSound(s2, firings)
    BY <1>2, <1>6, <1>a, Zenon DEF FramesSound
  <1>12. PlayersSound(firings, ps2, next + 1)
    <2>1. ASSUME NEW i \in 1 .. P
          PROVE  /\ ps2[i] = pending_player_events[i]
                 /\ ps2[i].firing \in 1 .. Len(firings)
                 /\ ps2[i].instance_id < next /\ ps2[i].instance_id \in Nat
                 /\ \A j \in 1 .. P : ps2[i].instance_id = ps2[j].instance_id => i = j
      BY <1>5, <1>6, <1>7, <1>b, Zenon DEF PlayersSound
    <2>2. ps2[P + 1].firing \in 1 .. Len(firings) /\ ps2[P + 1].instance_id = next
      BY <1>3, <1>4, <1>5, Zenon
    <2>3. ASSUME NEW i \in 1 .. P
          PROVE  ps2[i].instance_id < next + 1 /\ ps2[i].instance_id # next
      BY <1>3, <2>1
    <2>4. next < next + 1
      BY <1>3
    <2>5. ASSUME NEW i \in 1 .. P + 1
          PROVE  /\ ps2[i].firing \in 1 .. Len(firings)
                 /\ ps2[i].instance_id < next + 1
                 /\ \A j \in 1 .. P + 1 : ps2[i].instance_id = ps2[j].instance_id => i = j
      <3>1. CASE i \in 1 .. P
        BY <1>a, <2>1, <2>2, <2>3, <3>1, Zenon
      <3>2. CASE i = P + 1
        BY <1>a, <2>2, <2>3, <2>4, <3>2, Zenon
      <3> QED
        BY <1>a, <3>1, <3>2, Zenon
    <2> QED
      BY <1>5, <2>5, Zenon DEF PlayersSound
  <1>13. History'
    BY <1>1, <1>9, <1>10, <1>11, <1>12 DEF History
  <1>14. EventsTypeOK' /\ QueueInTime'
    BY <1>1, <1>2, <1>3, <1>5 DEF EventsInv, EventsTypeOK, QueueInTime
  <1> QED
    BY <1>13, <1>14 DEF EventsInv

LEMMA AppendOption ==
  ASSUME NEW q \in Seq(Nat), NEW o \in Nat, Len(q) = 1
  PROVE  Append(q, o) \in Seq(Nat) /\ Len(Append(q, o)) = 2 /\ Append(q, o)[2] = o
<1>1. Append(q, o) \in Seq(Nat)
  BY AppendProperties
<1>2. Len(Append(q, o)) = Len(q) + 1
  BY AppendProperties
<1>3. Append(q, o)[Len(q) + 1] = o
  BY AppendProperties, Zenon
<1> QED
  BY <1>1, <1>2, <1>3

(* A firing that waits for its option runs it. *)
RunsOption(fs, fs2, g, o) ==
  /\ fs \in Seq(Firings) /\ g \in 1 .. Len(fs) /\ o \in Nat /\ Len(fs[g].ran) = 1
  /\ fs2 = [fs EXCEPT ![g].ran = Append(@, o)]

LEMMA OptionRan ==
  ASSUME NEW fs, NEW fs2, NEW g, NEW o, RunsOption(fs, fs2, g, o)
  PROVE  /\ fs2 \in Seq(Firings) /\ Len(fs2) = Len(fs)
         /\ \A f \in 1 .. Len(fs) : f # g => fs2[f] = fs[f]
         /\ fs2[g].event = fs[g].event /\ fs2[g].target = fs[g].target
         /\ Len(fs2[g].ran) = 2 /\ fs2[g].ran[2] = o
  <1>0. fs \in Seq(Firings) /\ g \in 1 .. Len(fs) /\ o \in Nat /\ Len(fs[g].ran) = 1
    BY DEF RunsOption
  <1> DEFINE x == [fs[g] EXCEPT !.ran = Append(@, o)]
  <1>1. fs[g] \in Firings
    BY <1>0, ElementOfSeq
  <1>2. fs[g].ran \in Seq(Nat)
    BY <1>1 DEF Firings
  <1>3. /\ Append(fs[g].ran, o) \in Seq(Nat) /\ Len(Append(fs[g].ran, o)) = 2
        /\ Append(fs[g].ran, o)[2] = o
    BY <1>0, <1>2, AppendOption, Zenon
  <1>4. x \in Firings /\ x.event = fs[g].event /\ x.target = fs[g].target /\ x.ran = Append(fs[g].ran, o)
    BY <1>1, <1>3 DEF Firings
  <1>5. fs2 = [fs EXCEPT ![g] = x]
    BY DEF RunsOption
  <1> HIDE DEF x
  <1>6. fs2 \in Seq(Firings) /\ Len(fs2) = Len(fs) /\ fs2[g] = x
        /\ \A f \in 1 .. Len(fs) : f # g => fs2[f] = fs[f]
    BY <1>0, <1>4, <1>5, ExceptSeq
  <1> QED
    BY <1>3, <1>4, <1>6, Zenon

LEMMA BeginOptionStep == EventsInv /\ BeginOption => EventsInv'
  <1> SUFFICES ASSUME EventsInv, BeginOption PROVE EventsInv'
    OBVIOUS
  <1> DEFINE L == Len(stack) - 1
             g == Top.firing
             o == Top.option
             ps == pending_player_events
             s2 == Append(Front(stack), OptionFrame(g, o))
             fs2 == [firings EXCEPT ![g].ran = Append(@, o)]
  <1>1. /\ stack # <<>> /\ Top.immediate /\ Top.option # 0 /\ stack' = s2 /\ firings' = fs2
        /\ UNCHANGED <<event_day, pending_events, pending_player_events, phase, cursor,
                       next_player_event_instance_id, fired_event_log>>
    BY DEF BeginOption
  <1>2. /\ L \in Nat /\ Len(stack) = L + 1 /\ Top = stack[L + 1] /\ Top \in Frames
        /\ Front(stack) \in Seq(Frames) /\ Len(Front(stack)) = L
        /\ \A k \in 1 .. L : Front(stack)[k] = stack[k]
        /\ L + 1 \in 1 .. Len(stack)
    BY <1>1, TopFacts DEF EventsInv
  <1>3. /\ firings \in Seq(Firings)
        /\ FramesSound(stack, firings) /\ WaitingOnce(stack, firings, ps)
        /\ PlayersSound(firings, ps, next_player_event_instance_id)
        /\ LogSound(stack, firings, fired_event_log)
    BY DEF EventsInv, EventsTypeOK, History
  <1>4. g \in 1 .. Len(firings) /\ g \in Nat /\ o \in Nat /\ o # 0 /\ o \in AnswersOf(firings[g].event)
    BY <1>1, <1>2, <1>3 DEF FramesSound, Frames
  <1>5. OptionFrame(g, o) \in Frames /\ OptionFrame(g, o).firing = g /\ ~OptionFrame(g, o).immediate
    <2>1. firings[g] \in Firings
      BY <1>3, <1>4, ElementOfSeq
    <2>2. firings[g].event \in Events
      BY <2>1 DEF Firings
    <2>3. OptionEffects(firings[g].event, o) \in Seq(Effects)
      BY <1>4, <2>2, AnswersFacts
    <2> QED
      BY <1>4, <2>3 DEF OptionFrame, Frames
  <1>6. /\ s2 \in Seq(Frames) /\ Len(s2) = L + 1 /\ s2[L + 1] = OptionFrame(g, o)
        /\ \A k \in 1 .. L : s2[k] = Front(stack)[k]
    <2> DEFINE frame == OptionFrame(g, o)
    <2>1. frame \in Frames
      BY <1>5
    <2> HIDE DEF frame, L
    <2>2. /\ Append(Front(stack), frame) \in Seq(Frames)
          /\ Len(Append(Front(stack), frame)) = L + 1
          /\ Append(Front(stack), frame)[L + 1] = frame
          /\ \A k \in 1 .. L : Append(Front(stack), frame)[k] = Front(stack)[k]
      BY <1>2, <2>1, AppendProperties
    <2> QED
      BY <2>2 DEF frame
  <1>7. /\ Opens(stack, L + 1, g) /\ stack[L + 1].option = o
    BY <1>1, <1>2 DEF Opens
  <1>a. /\ \A k : k \in 1 .. L + 1 <=> k \in 1 .. L \/ k = L + 1
        /\ L + 1 \notin 1 .. L
    <2> HIDE DEF L
    <2> QED
      BY <1>2
  <1>b. fs2 = [firings EXCEPT ![g].ran = Append(@, o)]
    OBVIOUS
  <1> HIDE DEF L, g, o, ps, s2, fs2
  <1>8. \A k \in 1 .. L : s2[k] = stack[k]
    BY <1>2, <1>6, Zenon
  <1>9. \A u, k, f : Opens(u, k, f) => k \in 1 .. Len(u)
    BY DEF Opens
  <1>10. \A q, i, f : Awaits(q, i, f) => i \in 1 .. Len(q)
    BY DEF Awaits
  <1>11. /\ Waits(stack, ps, g) /\ Len(firings[g].ran) = 1
         /\ \A k : Opens(stack, k, g) => k = L + 1
         /\ \A i : ~Awaits(ps, i, g)
    <2>1. Waits(stack, ps, g)
      BY <1>2, <1>7, Zenon DEF Waits
    <2> QED
      BY <1>2, <1>3, <1>4, <1>7, <1>9, <1>10, <2>1, Zenon DEF WaitingOnce
  <1>12. /\ fs2 \in Seq(Firings) /\ Len(fs2) = Len(firings)
         /\ \A f \in 1 .. Len(firings) : f # g => fs2[f] = firings[f]
         /\ fs2[g].event = firings[g].event /\ fs2[g].target = firings[g].target
         /\ Len(fs2[g].ran) = 2 /\ fs2[g].ran[2] = o
    <2>1. RunsOption(firings, fs2, g, o)
      BY <1>3, <1>4, <1>b, <1>11, Zenon DEF RunsOption
    <2> QED
      BY <2>1, OptionRan
  <1>13. ASSUME NEW k, NEW f
         PROVE  Opens(s2, k, f) <=> k # L + 1 /\ Opens(stack, k, f)
    <2>1. CASE k \in 1 .. L
      BY <1>2, <1>6, <1>8, <1>a, <2>1, Zenon DEF Opens
    <2>2. CASE k = L + 1
      BY <1>5, <1>6, <2>2, Zenon DEF Opens
    <2>3. CASE k \notin 1 .. L /\ k # L + 1
      BY <1>2, <1>6, <1>a, <2>3, Zenon DEF Opens
    <2> QED
      BY <2>1, <2>2, <2>3
  <1>14. Settled(stack, s2, firings, fs2, ps, ps, g, o)
    <2>1. ASSUME NEW f, f # g, NEW k PROVE Opens(s2, k, f) <=> Opens(stack, k, f)
      <3>1. CASE k = L + 1
        BY <1>7, <1>13, <2>1, <3>1, Zenon DEF Opens
      <3>2. CASE k # L + 1
        BY <1>13, <3>2, Zenon
      <3> QED
        BY <3>1, <3>2
    <2>2. ASSUME NEW f, f # g, NEW k, Opens(stack, k, f) PROVE s2[k].option = stack[k].option
      <3>1. k # L + 1
        BY <1>7, <2>2, Zenon DEF Opens
      <3>2. k \in 1 .. L
        BY <1>2, <1>9, <1>a, <2>2, <3>1, Zenon
      <3> QED
        BY <1>8, <3>2, Zenon
    <2>3. ASSUME NEW k PROVE ~Opens(s2, k, g) /\ (Opens(stack, k, g) => stack[k].option = o)
      BY <1>7, <1>11, <1>13, Zenon
    <2>4. \A f \in 1 .. Len(firings) : \A i, j : Awaits(ps, i, f) /\ Awaits(ps, j, f) => i = j
      BY <1>3, <1>10, Zenon DEF WaitingOnce
    <2> QED
      BY <1>4, <1>11, <1>12, <2>1, <2>2, <2>3, <2>4, Zenon DEF Settled
  <1>15. /\ WaitingOnce(s2, fs2, ps)
         /\ \A r, f : f \in 1 .. Len(firings) /\ Explains(stack, firings, r, f) => Explains(s2, fs2, r, f)
    BY <1>3, <1>14, OptionSettled, Zenon
  <1>16. LogSound(s2, fs2, fired_event_log)
    BY <1>3, <1>12, <1>15, LogKept, Zenon
  <1>17. FramesSound(s2, fs2)
    <2>1. ASSUME NEW f \in 1 .. Len(firings) PROVE fs2[f].event = firings[f].event
      BY <1>12, Zenon
    <2>2. ASSUME NEW k \in 1 .. L + 1
          PROVE  /\ s2[k].firing \in 1 .. Len(fs2)
                 /\ s2[k].immediate /\ s2[k].option # 0 =>
                      s2[k].option \in AnswersOf(fs2[s2[k].firing].event)
      <3>1. CASE k = L + 1
        BY <1>4, <1>5, <1>6, <1>12, <3>1, Zenon
      <3>2. CASE k \in 1 .. L
        <4>1. s2[k] = stack[k] /\ k \in 1 .. Len(stack)
          BY <1>2, <1>8, <1>a, <3>2, Zenon
        <4>2. /\ stack[k].firing \in 1 .. Len(firings)
              /\ stack[k].immediate /\ stack[k].option # 0 =>
                   stack[k].option \in AnswersOf(firings[stack[k].firing].event)
          BY <1>3, <4>1, Zenon DEF FramesSound
        <4> QED
          BY <1>12, <2>1, <4>1, <4>2, Zenon
      <3> QED
        BY <1>a, <3>1, <3>2, Zenon
    <2> QED
      BY <1>6, <2>2, Zenon DEF FramesSound
  <1>18. PlayersSound(fs2, ps, next_player_event_instance_id)
    BY <1>3, <1>12, Zenon DEF PlayersSound
  <1>19. History'
    BY <1>1, <1>15, <1>16, <1>17, <1>18 DEF History, ps
  <1>20. EventsTypeOK' /\ QueueInTime'
    BY <1>1, <1>6, <1>12 DEF EventsInv, EventsTypeOK, QueueInTime
  <1> QED
    BY <1>19, <1>20 DEF EventsInv

(* The event at j, of the firing g, is taken off the list of the players. *)
Taken(ps, ps2, fs, next, j, g) ==
  /\ ps \in Seq(PlayerEvents) /\ j \in 1 .. Len(ps)
  /\ ps2 = RemoveAt(ps, j) /\ ps[j].firing = g /\ PlayersSound(fs, ps, next)
  /\ \A f \in 1 .. Len(fs) : \A i, k : Awaits(ps, i, f) /\ Awaits(ps, k, f) => i = k

LEMMA PlayerErased ==
  ASSUME NEW ps, NEW ps2, NEW fs, NEW next, NEW j, NEW g, Taken(ps, ps2, fs, next, j, g)
  PROVE  /\ ps2 \in Seq(PlayerEvents) /\ PlayersSound(fs, ps2, next)
         /\ \A i : ~Awaits(ps2, i, g)
         /\ \A f : f # g => ((\E i : Awaits(ps2, i, f)) <=> (\E i : Awaits(ps, i, f)))
         /\ \A f \in 1 .. Len(fs) : \A i, k : Awaits(ps2, i, f) /\ Awaits(ps2, k, f) => i = k
  <1> USE DEF Taken
  <1> DEFINE P == Len(ps)
             Old(i) == IF i < j THEN i ELSE i + 1
             New(i) == IF i < j THEN i ELSE i - 1
  <1>0. P \in Nat
    BY LenProperties
  <1>1. /\ ps2 \in Seq(PlayerEvents) /\ Len(ps2) = P - 1
        /\ \A i \in 1 .. P - 1 : ps2[i] = ps[Old(i)]
    <2>1. /\ RemoveAt(ps, j) \in Seq(PlayerEvents) /\ Len(RemoveAt(ps, j)) = Len(ps) - 1
          /\ \A i \in 1 .. Len(ps) - 1 :
               RemoveAt(ps, j)[i] = IF i < j THEN ps[i] ELSE ps[i + 1]
      BY RemoveAtFacts, Zenon
    <2> QED
      BY <2>1, Zenon
  <1>2. j \in 1 .. P
    OBVIOUS
  <1>3. ASSUME NEW i \in 1 .. P - 1
        PROVE  Old(i) \in 1 .. P /\ Old(i) # j /\ New(Old(i)) = i
    <2> HIDE DEF P
    <2> QED
      BY <1>0, <1>2
  <1>4. ASSUME NEW i \in 1 .. P, i # j
        PROVE  New(i) \in 1 .. P - 1 /\ Old(New(i)) = i
    <2> HIDE DEF P
    <2> QED
      BY <1>0, <1>2, <1>4
  <1>b. P = Len(ps)
    OBVIOUS
  <1> HIDE DEF P, Old, New
  <1>5. ASSUME NEW i, NEW f, Awaits(ps2, i, f)
        PROVE  i \in 1 .. P - 1 /\ Awaits(ps, Old(i), f) /\ Old(i) # j
    <2>1. i \in 1 .. P - 1 /\ ps2[i].firing = f
      BY <1>1, <1>5, Zenon DEF Awaits
    <2> QED
      BY <1>1, <1>3, <1>b, <2>1, Zenon DEF Awaits
  <1>6. ASSUME NEW i, NEW f, Awaits(ps, i, f), i # j PROVE Awaits(ps2, New(i), f)
    <2>1. i \in 1 .. P /\ ps[i].firing = f
      BY <1>6, <1>b, Zenon DEF Awaits
    <2>2. New(i) \in 1 .. P - 1 /\ Old(New(i)) = i
      BY <1>4, <1>6, <2>1, Zenon
    <2>3. ps2[New(i)] = ps[i]
      BY <1>1, <2>2, Zenon
    <2> QED
      BY <1>1, <2>1, <2>2, <2>3, Zenon DEF Awaits
  <1>7. Awaits(ps, j, g)
    BY <1>2, <1>b, Zenon DEF Awaits
  <1>8. g \in 1 .. Len(fs)
    BY <1>2, <1>b, Zenon DEF PlayersSound
  <1>9. \A i : ~Awaits(ps2, i, g)
    BY <1>5, <1>7, <1>8, Zenon
  <1>10. ASSUME NEW f, f # g PROVE (\E i : Awaits(ps2, i, f)) <=> (\E i : Awaits(ps, i, f))
    <2>1. ~Awaits(ps, j, f)
      BY <1>10, Zenon DEF Awaits
    <2> QED
      BY <1>5, <1>6, <2>1, Zenon
  <1>11. ASSUME NEW i \in 1 .. P - 1, NEW k \in 1 .. P - 1, Old(i) = Old(k) PROVE i = k
    BY <1>3, <1>11, Zenon
  <1>12. ASSUME NEW f \in 1 .. Len(fs), NEW i, NEW k, Awaits(ps2, i, f), Awaits(ps2, k, f)
         PROVE  i = k
    <2>1. i \in 1 .. P - 1 /\ Awaits(ps, Old(i), f)
      BY <1>5, <1>12, Zenon
    <2>2. k \in 1 .. P - 1 /\ Awaits(ps, Old(k), f)
      BY <1>5, <1>12, Zenon
    <2>3. Old(i) = Old(k)
      BY <2>1, <2>2, Zenon
    <2> QED
      BY <1>11, <2>1, <2>2, <2>3, Zenon
  <1>13. PlayersSound(fs, ps2, next)
    <2> SUFFICES ASSUME NEW i \in 1 .. P - 1
                 PROVE  /\ ps2[i].firing \in 1 .. Len(fs)
                        /\ ps2[i].instance_id < next
                        /\ \A k \in 1 .. P - 1 : ps2[i].instance_id = ps2[k].instance_id => i = k
      BY <1>1, Zenon DEF PlayersSound
    <2>1. ps2[i] = ps[Old(i)] /\ Old(i) \in 1 .. P
      BY <1>1, <1>3, Zenon
    <2>2. /\ ps[Old(i)].firing \in 1 .. Len(fs) /\ ps[Old(i)].instance_id < next
          /\ \A k \in 1 .. P : ps[Old(i)].instance_id = ps[k].instance_id => Old(i) = k
      BY <1>b, <2>1, Zenon DEF PlayersSound
    <2>3. ASSUME NEW k \in 1 .. P - 1, ps2[i].instance_id = ps2[k].instance_id PROVE i = k
      <3>1. ps2[k] = ps[Old(k)] /\ Old(k) \in 1 .. P
        BY <1>1, <1>3, Zenon
      <3>2. Old(i) = Old(k)
        BY <2>1, <2>2, <2>3, <3>1, Zenon
      <3> QED
        BY <1>11, <3>2, Zenon
    <2> QED
      BY <2>1, <2>2, <2>3, Zenon
  <1> QED
    BY <1>1, <1>9, <1>10, <1>12, <1>13, Zenon

LEMMA RespondStep ==
  ASSUME EventsInv, NEW i \in DOMAIN pending_player_events, NEW o \in Answers, Respond(i, o)
  PROVE  EventsInv'
  <1> DEFINE ps == pending_player_events
             g == ps[i].firing
             e == firings[g].event
             valid == o \in AnswersOf(e) \/ OptionsOf[e] = <<>>
             fs2 == firings'
             s2 == stack'
             ps2 == ps'
  <1>1. /\ stack = <<>> /\ phase = "idle" /\ fs2 = [firings EXCEPT ![g].ran = Append(@, o)]
        /\ fired_event_log' = IF valid THEN Logged(e, firings[g].target, o) ELSE fired_event_log
        /\ s2 = IF valid THEN <<OptionFrame(g, o)>> ELSE <<>>
        /\ ps2 = RemoveAt(ps, i)
        /\ UNCHANGED <<event_day, pending_events, next_player_event_instance_id, phase, cursor>>
    BY DEF Respond, Quiet
  <1>2. /\ ps \in Seq(PlayerEvents) /\ firings \in Seq(Firings) /\ o \in Nat
        /\ fired_event_log \in Seq(LogRecords)
        /\ WaitingOnce(stack, firings, ps)
        /\ PlayersSound(firings, ps, next_player_event_instance_id)
        /\ LogSound(stack, firings, fired_event_log)
    BY EventsAssumption DEF EventsInv, EventsTypeOK, History
  <1>3. i \in 1 .. Len(ps) /\ g \in 1 .. Len(firings) /\ g \in Nat
    BY <1>2, LenProperties DEF PlayersSound
  <1>4. e \in Events /\ firings[g].target \in Targets
    <2>1. firings[g] \in Firings
      BY <1>2, <1>3, ElementOfSeq
    <2> QED
      BY <2>1 DEF Firings
  <1>a. g = ps[i].firing /\ e = firings[g].event /\ ps = pending_player_events
        /\ ps2 = pending_player_events' /\ s2 = stack' /\ fs2 = firings'
    OBVIOUS
  <1> HIDE DEF ps, g, e, ps2, fs2, s2
  <1>5. valid => OptionFrame(g, o) \in Frames /\ ~OptionFrame(g, o).immediate
                 /\ OptionFrame(g, o).firing = g
    <2>1. valid => OptionEffects(e, o) \in Seq(Effects)
      BY <1>2, <1>4, AnswersFacts
    <2> QED
      BY <1>2, <1>3, <1>a, <2>1 DEF OptionFrame, Frames
  <1>6. /\ s2 \in Seq(Frames) /\ \A k, f : ~Opens(s2, k, f)
        /\ \A k \in 1 .. Len(s2) : s2[k].firing = g /\ ~s2[k].immediate
    <2>1. CASE valid
      <3> DEFINE frame == OptionFrame(g, o)
      <3>1. frame \in Frames /\ ~frame.immediate /\ frame.firing = g /\ s2 = <<frame>>
        BY <1>1, <1>5, <2>1
      <3> HIDE DEF frame
      <3>2. s2 \in Seq(Frames) /\ Len(s2) = 1 /\ s2[1] = frame /\ \A k : k \in 1 .. 1 <=> k = 1
        BY <3>1
      <3> QED
        BY <3>1, <3>2, Zenon DEF Opens
    <2>2. CASE ~valid
      <3>1. s2 = <<>>
        BY <1>1, <2>2, Zenon
      <3>2. \A k : k \notin 1 .. Len(<<>>)
        OBVIOUS
      <3> QED
        BY <3>1, <3>2, EmptyFacts, Zenon
    <2> QED
      BY <2>1, <2>2
  <1>7. \A k, f : ~Opens(stack, k, f)
    BY <1>1, EmptyFacts
  <1>8. \A q, j, f : Awaits(q, j, f) => j \in 1 .. Len(q)
    BY DEF Awaits
  <1>9. \A f \in 1 .. Len(firings) : \A j, k : Awaits(ps, j, f) /\ Awaits(ps, k, f) => j = k
    BY <1>2, <1>8, Zenon DEF WaitingOnce
  <1>10. /\ ps2 \in Seq(PlayerEvents) /\ PlayersSound(firings, ps2, next_player_event_instance_id)
         /\ \A j : ~Awaits(ps2, j, g)
         /\ \A f : f # g => ((\E j : Awaits(ps2, j, f)) <=> (\E j : Awaits(ps, j, f)))
         /\ \A f \in 1 .. Len(firings) : \A j, k : Awaits(ps2, j, f) /\ Awaits(ps2, k, f) => j = k
    <2>1. Taken(ps, ps2, firings, next_player_event_instance_id, i, g)
      BY <1>1, <1>2, <1>3, <1>9, <1>a, Zenon DEF Taken
    <2> QED
      BY <2>1, PlayerErased
  <1>11. Waits(stack, ps, g) /\ Len(firings[g].ran) = 1
    <2>1. Awaits(ps, i, g)
      BY <1>3, <1>a, Zenon DEF Awaits
    <2>2. Waits(stack, ps, g)
      BY <1>3, <2>1, Zenon DEF Waits
    <2> QED
      BY <1>2, <1>3, <2>2, Zenon DEF WaitingOnce
  <1>12. /\ fs2 \in Seq(Firings) /\ Len(fs2) = Len(firings)
         /\ \A f \in 1 .. Len(firings) : f # g => fs2[f] = firings[f]
         /\ fs2[g].event = firings[g].event /\ fs2[g].target = firings[g].target
         /\ Len(fs2[g].ran) = 2 /\ fs2[g].ran[2] = o
    <2>1. RunsOption(firings, fs2, g, o)
      BY <1>1, <1>2, <1>3, <1>11, Zenon DEF RunsOption
    <2> QED
      BY <2>1, OptionRan
  <1>13. Settled(stack, s2, firings, fs2, ps, ps2, g, o)
    BY <1>3, <1>6, <1>7, <1>10, <1>11, <1>12, Zenon DEF Settled
  <1>14. /\ WaitingOnce(s2, fs2, ps2)
         /\ \A r, f : f \in 1 .. Len(firings) /\ Explains(stack, firings, r, f) => Explains(s2, fs2, r, f)
    BY <1>2, <1>13, OptionSettled, Zenon
  <1>15. FramesSound(s2, fs2)
    BY <1>3, <1>6, <1>12, Zenon DEF FramesSound
  <1>16. PlayersSound(fs2, ps2, next_player_event_instance_id)
    BY <1>10, <1>12, Zenon DEF PlayersSound
  <1>17. fired_event_log' \in Seq(LogRecords) /\ LogSound(s2, fs2, fired_event_log')
    <2>1. CASE fired_event_log' = fired_event_log
      BY <1>2, <1>12, <1>14, <2>1, LogKept, Zenon
    <2>2. CASE fired_event_log' # fired_event_log
      <3> DEFINE record == [event |-> e, target |-> firings[g].target, option |-> o]
                 len == Len(fired_event_log)
      <3>1. valid /\ fired_event_log' = Append(fired_event_log, record)
        BY <1>1, <2>2, Zenon DEF Logged
      <3>2. record \in LogRecords /\ record.event = e /\ record.target = firings[g].target
            /\ record.option = o
        BY <1>2, <1>4 DEF LogRecords
      <3>3. len \in Nat
        BY <1>2, LenProperties
      <3>a. len = Len(fired_event_log)
        OBVIOUS
      <3> HIDE DEF record, len
      <3>4. /\ fired_event_log' \in Seq(LogRecords) /\ Len(fired_event_log') = len + 1
            /\ fired_event_log'[len + 1] = record
            /\ \A k \in 1 .. len : fired_event_log'[k] = fired_event_log[k]
        BY <1>2, <3>1, <3>2, <3>a, AppendProperties
      <3>5. PICK m \in [1 .. len -> 1 .. Len(firings)] :
              /\ \A k, l \in 1 .. len : m[k] = m[l] => k = l
              /\ \A k \in 1 .. len : Explains(stack, firings, fired_event_log[k], m[k])
        BY <1>2, <3>a, Zenon DEF LogSound
      <3>6. ASSUME NEW k \in 1 .. len
            PROVE  /\ Explains(s2, fs2, fired_event_log[k], m[k]) /\ m[k] # g
                   /\ fired_event_log[k].option \in AnswersOf(fired_event_log[k].event)
                      \/ OptionsOf[fired_event_log[k].event] = <<>>
        <4>1. Explains(stack, firings, fired_event_log[k], m[k]) /\ m[k] \in 1 .. Len(firings)
          BY <3>5, Zenon
        <4>2. m[k] # g
          <5>1. Len(firings[m[k]].ran) = 2
            BY <1>7, <4>1, Zenon DEF Explains
          <5>2. Len(firings[m[k]].ran) # Len(firings[g].ran)
            BY <1>11, <5>1
          <5> QED
            BY <5>2, Zenon
        <4>3. \/ fired_event_log[k].option \in AnswersOf(fired_event_log[k].event)
              \/ OptionsOf[fired_event_log[k].event] = <<>>
          BY <1>2, <3>a, Zenon DEF LogSound
        <4> QED
          BY <1>14, <4>1, <4>2, <4>3, Zenon
      <3>7. Explains(s2, fs2, record, g) /\ (record.option \in AnswersOf(record.event)
                                             \/ OptionsOf[record.event] = <<>>)
        BY <1>12, <1>a, <3>1, <3>2, Zenon DEF Explains
      <3>8. RecordFits(s2, fs2, fired_event_log, fired_event_log', len, m, g)
        BY <1>3, <1>12, <3>4, <3>5, <3>6, <3>7, Zenon DEF RecordFits
      <3> QED
        BY <3>3, <3>4, <3>8, RecordAdded, Zenon
    <2> QED
      BY <2>1, <2>2
  <1>18. History'
    BY <1>1, <1>14, <1>15, <1>16, <1>17, <1>a DEF History
  <1>19. EventsTypeOK' /\ QueueInTime'
    BY <1>1, <1>6, <1>10, <1>12, <1>17, <1>a DEF EventsInv, EventsTypeOK, QueueInTime
  <1> QED
    BY <1>18, <1>19 DEF EventsInv

LEMMA PendingStepStep == EventsInv /\ PendingStep => EventsInv'
  <1> SUFFICES ASSUME EventsInv, PendingStep PROVE EventsInv'
    OBVIOUS
  <1> DEFINE c == cursor[1]
             p == pending_events[c]
             N == Len(pending_events)
  <1>1. /\ phase = "pending" /\ stack = <<>> /\ c <= N /\ UNCHANGED phase /\ Untouched
        /\ event_day \in Nat /\ c \in Nat \ {0} /\ N \in Nat
        /\ pending_events \in Seq(QueuedEvents) /\ p \in QueuedEvents
    <2>1. phase = "pending" /\ stack = <<>> /\ c <= N /\ UNCHANGED phase /\ Untouched
      BY DEF PendingStep, Move
    <2>2. /\ event_day \in Nat /\ c \in Nat \ {0} /\ N \in Nat
          /\ pending_events \in Seq(QueuedEvents)
      BY EventsAssumption, LenProperties DEF EventsInv, EventsTypeOK
    <2> QED
      BY <2>1, <2>2, ElementOfSeq
  <1>2. \A i \in 1 .. N : /\ pending_events[i].date >= event_day
                          /\ i < c => pending_events[i].date > event_day
    BY DEF EventsInv, QueueInTime
  <1>3. CASE /\ p.date > event_day
             /\ Move(<<c + 1, 0>>)
             /\ UNCHANGED <<pending_events, fired_for>> /\ NothingFires
    <2>1. cursor'[1] = c + 1 /\ pending_events' = pending_events /\ event_day' = event_day
          /\ cursor' \in (Nat \ {0}) \X Nat
      BY <1>1, <1>3 DEF Move, Untouched
    <2>2. ASSUME NEW i \in 1 .. N, i < c + 1 PROVE pending_events[i].date > event_day
      <3>1. i < c \/ i = c
        BY <1>1, <2>2
      <3> QED
        BY <1>2, <1>3, <3>1
    <2>3. QueueInTime'
      BY <1>1, <1>2, <2>1, <2>2, Zenon DEF QueueInTime
    <2>4. EventsTypeOK'
      BY <1>1, <1>3, <2>1 DEF EventsInv, EventsTypeOK, NothingFires, Untouched
    <2>5. History'
      BY <1>1, <1>3, HistorySame DEF EventsInv, NothingFires, Untouched
    <2> QED
      BY <2>3, <2>4, <2>5 DEF EventsInv
  <1>4. CASE /\ pending_events' = RemoveAt(pending_events, c)
             /\ Move(<<c, 0>>)
             /\ Fire(p.event, p.target, <<>>)
    <2>1. SameMarks(<<>>, stack) /\ <<>> \in Seq(Frames)
      BY <1>1, EmptyFacts DEF SameMarks
    <2>2. p.event \in Events /\ p.target \in Targets
      BY <1>1 DEF QueuedEvents
    <2>3. /\ stack' \in Seq(Frames) /\ firings' \in Seq(Firings)
          /\ fired_event_log' \in Seq(LogRecords) /\ History'
      BY <1>1, <1>4, <2>1, <2>2, FireStep DEF EventsInv, Untouched
    <2>4. c \in 1 .. N
      BY <1>1
    <2>5. /\ pending_events' \in Seq(QueuedEvents) /\ Len(pending_events') = N - 1
          /\ \A k \in 1 .. N - 1 :
               pending_events'[k] = IF k < c THEN pending_events[k] ELSE pending_events[k + 1]
      BY <1>1, <1>4, <2>4, RemoveAtFacts
    <2>6. cursor'[1] = c /\ event_day' = event_day /\ cursor' \in (Nat \ {0}) \X Nat
      BY <1>1, <1>4 DEF Move, Untouched
    <2> HIDE DEF c, N, p
    <2>7. ASSUME NEW i \in 1 .. N - 1
          PROVE  /\ pending_events'[i].date >= event_day
                 /\ i < c => pending_events'[i].date > event_day
      <3>1. CASE i < c
        <4>1. pending_events'[i] = pending_events[i]
          BY <2>5, <3>1, Zenon
        <4>2. i \in 1 .. N
          BY <1>1
        <4> QED
          BY <1>2, <3>1, <4>1, <4>2
      <3>2. CASE ~(i < c)
        <4>1. pending_events'[i] = pending_events[i + 1]
          BY <2>5, <3>2, Zenon
        <4>2. i + 1 \in 1 .. N
          BY <1>1
        <4> QED
          BY <1>2, <3>2, <4>1, <4>2, Zenon
      <3> QED
        BY <3>1, <3>2
    <2>8. QueueInTime'
      BY <1>1, <2>5, <2>6, <2>7, Zenon DEF QueueInTime
    <2>9. EventsTypeOK'
      BY <1>1, <2>3, <2>5, <2>6 DEF EventsInv, EventsTypeOK, Untouched
    <2> QED
      BY <2>3, <2>8, <2>9 DEF EventsInv
  <1> QED
    BY <1>3, <1>4 DEF PendingStep, PassOver, AfterErasing

(* The instances and the definitions that the loops of a tick visit. *)
LEMMA LoopsInRange ==
  ASSUME EventsInv
  PROVE  /\ cursor[1] \in Nat \ {0} /\ cursor[2] \in Nat
         /\ cursor[1] <= Len(EventOrder) => EventOrder[cursor[1]] \in Events
         /\ cursor[2] \in 1 .. Len(Visited) => Visited[cursor[2]] \in Targets
         /\ cursor[2] < Len(CountryOrder) => CountryOrder[cursor[2] + 1] \in Targets
         /\ phase = "pulse" /\ cursor[1] <= Len(TablesOn[event_day]) =>
              TablesOn[event_day][cursor[1]] \subseteq Events
  <1>1. cursor[1] \in Nat \ {0} /\ cursor[2] \in Nat
    BY DEF EventsInv, EventsTypeOK
  <1>2. Visited \in Seq(Targets) /\ EventOrder \in Seq(Events) /\ CountryOrder \in Seq(Targets)
    BY EventsAssumption DEF Visited
  <1>3. /\ Len(EventOrder) \in Nat /\ Len(CountryOrder) \in Nat
    BY <1>2, LenProperties
  <1>4. cursor[1] <= Len(EventOrder) => EventOrder[cursor[1]] \in Events
    <2>1. cursor[1] <= Len(EventOrder) => cursor[1] \in 1 .. Len(EventOrder)
      BY <1>1, <1>3
    <2> QED
      BY <1>2, <2>1, ElementOfSeq
  <1>5. cursor[2] \in 1 .. Len(Visited) => Visited[cursor[2]] \in Targets
    BY <1>2, ElementOfSeq
  <1>6. cursor[2] < Len(CountryOrder) => CountryOrder[cursor[2] + 1] \in Targets
    <2>1. cursor[2] < Len(CountryOrder) => cursor[2] + 1 \in 1 .. Len(CountryOrder)
      BY <1>1, <1>3
    <2> QED
      BY <1>2, <2>1, ElementOfSeq
  <1>7. ASSUME phase = "pulse", cursor[1] <= Len(TablesOn[event_day])
        PROVE  TablesOn[event_day][cursor[1]] \subseteq Events
    <2>1. event_day \in 1 .. MaxDay
      BY <1>7, EventsAssumption DEF EventsInv, EventsTypeOK
    <2>2. TablesOn[event_day] \in Seq(SUBSET Events)
      BY <2>1, EventsAssumption
    <2>3. cursor[1] \in 1 .. Len(TablesOn[event_day])
      BY <1>1, <1>7, <2>2, LenProperties
    <2> QED
      BY <2>2, <2>3, ElementOfSeq
  <1> QED
    BY <1>1, <1>4, <1>5, <1>6, <1>7

LEMMA EventsStep == EventsInv /\ [NextEvents]_eventVars => EventsInv'
  <1> SUFFICES ASSUME EventsInv, [NextEvents]_eventVars PROVE EventsInv'
    OBVIOUS
  <1>0. /\ cursor[1] \in Nat \ {0} /\ cursor[2] \in Nat
        /\ phase # "idle" => event_day # 0
        /\ event_day \in 0 .. MaxDay /\ event_day \in Nat
    BY LoopsInRange, EventsAssumption DEF EventsInv, EventsTypeOK
  <1>a. phase # "pending" \/ cursor[1] > Len(pending_events) =>
          \A i \in 1 .. Len(pending_events) : phase # "idle" => pending_events[i].date > event_day
    <2>1. pending_events \in Seq(QueuedEvents)
      BY DEF EventsInv, EventsTypeOK
    <2>2. \A i \in 1 .. Len(pending_events) : cursor[1] > Len(pending_events) => i < cursor[1]
      BY <1>0, <2>1, LenProperties
    <2> QED
      BY <2>2, Zenon DEF EventsInv, QueueInTime
  <1>1. CASE RunEffect
    BY <1>1, RunEffectStep
  <1>2. CASE BeginOption
    BY <1>2, BeginOptionStep
  <1>3. CASE AwaitPlayer
    BY <1>3, AwaitPlayerStep
  <1>4. CASE EndOption
    BY <1>4, EndOptionStep
  <1>5. CASE PendingStep
    BY <1>5, PendingStepStep
  <1>6. CASE EndPending
    BY <1>0, <1>6, <1>a, EnterStep DEF EndPending
  <1>7. CASE BeginEvent
    <2>1. \E b \in BOOLEAN : cursor' = IF b THEN <<cursor[1], 1>> ELSE <<cursor[1] + 1, 0>>
      BY <1>7 DEF BeginEvent, Move
    <2>2. cursor' \in (Nat \ {0}) \X Nat
      BY <1>0, <2>1
    <2> QED
      BY <1>7, <2>2, LoopStep DEF BeginEvent, Spontaneous, Move
  <1>8. CASE VisitTarget
    <2>1. cursor' \in (Nat \ {0}) \X Nat
      BY <1>0, <1>8 DEF VisitTarget, Move
    <2>2. NothingFires \/ \E e \in Events, t \in Targets : Fire(e, t, <<>>)
      BY <1>8, LoopsInRange DEF VisitTarget
    <2> QED
      BY <1>8, <2>1, <2>2, LoopStep DEF VisitTarget, Spontaneous, Move
  <1>9. CASE EndEvent
    <2>1. cursor' \in (Nat \ {0}) \X Nat
      BY <1>0, <1>9 DEF EndEvent, Move
    <2> QED
      BY <1>9, <2>1, LoopStep DEF EndEvent, Spontaneous, Move
  <1>10. CASE EndEvents
    <2>1. PICK p \in {"province", "pulse"} : Enter(p)
      BY <1>10 DEF EndEvents
    <2> QED
      BY <1>0, <1>10, <1>a, <2>1, EnterStep DEF EndEvents, Spontaneous
  <1>11. CASE PulseCountry
    <2>1. cursor' \in (Nat \ {0}) \X Nat
      BY <1>0, <1>11 DEF PulseCountry, Move
    <2>2. NothingFires \/ \E e \in Events, t \in Targets : Fire(e, t, <<>>)
      BY <1>11, LoopsInRange DEF PulseCountry
    <2> QED
      BY <1>11, <2>1, <2>2, LoopStep DEF PulseCountry, Move
  <1>12. CASE EndPulse
    <2>1. cursor' \in (Nat \ {0}) \X Nat
      BY <1>0, <1>12 DEF EndPulse, Move
    <2> QED
      BY <1>12, <2>1, LoopStep DEF EndPulse, Move
  <1>13. CASE EndTick
    BY <1>0, <1>13, <1>a, EnterStep DEF EndTick
  <1>14. CASE BeginTick
    <2>1. EventsTypeOK'
      <3>1. event_day' \in 0 .. MaxDay /\ event_day' # 0
        BY <1>0, <1>14, EventsAssumption DEF BeginTick
      <3> QED
        BY <1>14, <3>1 DEF BeginTick, Quiet, Enter, EventsInv, EventsTypeOK
    <2>2. History'
      BY <1>14, HistorySame DEF BeginTick, Enter, EventsInv
    <2>3. ASSUME NEW i \in 1 .. Len(pending_events) PROVE pending_events[i].date >= event_day + 1
      <3>1. pending_events[i] \in QueuedEvents
        BY ElementOfSeq DEF EventsInv, EventsTypeOK
      <3>2. pending_events[i].date > event_day
        BY <1>14 DEF BeginTick, Quiet, EventsInv, QueueInTime
      <3> QED
        BY <1>0, <3>1, <3>2 DEF QueuedEvents
    <2>4. QueueInTime'
      BY <1>14, <2>3 DEF BeginTick, Enter, QueueInTime
    <2> QED
      BY <2>1, <2>2, <2>4 DEF EventsInv
  <1>15. CASE DrainLog
    <2>1. EventsTypeOK' /\ QueueInTime'
      BY <1>15 DEF DrainLog, EventsInv, EventsTypeOK, QueueInTime
    <2>2. LogSound(stack, firings, <<>>)
      <3>1. 1 .. Len(<<>>) = {} /\ [i \in {} |-> i] \in [{} -> 1 .. Len(firings)]
        OBVIOUS
      <3> QED
        BY <3>1, Zenon DEF LogSound
    <2>3. History'
      BY <1>15, <2>2 DEF DrainLog, EventsInv, History
    <2> QED
      BY <2>1, <2>3 DEF EventsInv
  <1>16. CASE \E i \in DOMAIN pending_player_events : \E o \in Answers : Respond(i, o)
    BY <1>16, RespondStep
  <1>17. CASE \E c \in Seats : SetAi(c)
    <2>1. EventsTypeOK' /\ QueueInTime'
      BY <1>17 DEF SetAi, EventsInv, EventsTypeOK, QueueInTime
    <2>2. History'
      BY <1>17, HistorySame DEF SetAi, EventsInv
    <2> QED
      BY <2>1, <2>2 DEF EventsInv
  <1>18. CASE UNCHANGED eventVars
    <2>1. EventsTypeOK' /\ QueueInTime'
      BY <1>18 DEF eventVars, EventsInv, EventsTypeOK, QueueInTime
    <2>2. History'
      BY <1>18, HistorySame DEF eventVars, EventsInv
    <2> QED
      BY <2>1, <2>2 DEF EventsInv
  <1> QED
    BY <1>1, <1>2, <1>3, <1>4, <1>5, <1>6, <1>7, <1>8, <1>9, <1>10, <1>11, <1>12, <1>13, <1>14,
       <1>15, <1>16, <1>17, <1>18
    DEF NextEvents, Tick

(* However deeply events fire further events, the queue, the stack of the   *)
(* firings in progress, the events that await a player and the log tell one *)
(* story (EventInstanceManager).                                            *)
THEOREM EventsInductive == EventsSpec => []EventsInv
  BY EventsInit, EventsStep, PTL DEF EventsSpec

(* No queued event is ever overdue, and none that is due is left in the     *)
(* queue by the loop that erases and appends as it goes                     *)
(* (pending_events_tick).                                                   *)
THEOREM QueueNeverOverdue == EventsSpec => []NeverOverdue
  <1>1. EventsInv => NeverOverdue
    <2> SUFFICES ASSUME EventsInv PROVE NeverOverdue
      OBVIOUS
    <2>1. DOMAIN pending_events = 1 .. Len(pending_events)
      BY LenProperties DEF EventsInv, EventsTypeOK
    <2> QED
      BY <2>1, Zenon DEF EventsInv, QueueInTime, NeverOverdue
  <1> QED
    BY <1>1, EventsInductive, PTL

(* Every option was answered exactly once, or is offered to exactly one     *)
(* player, and as many firings ran an option as the log says: an injection  *)
(* leads from the records to the firings (fire_country_event,               *)
(* resolve_player_event, record_fired_event).                               *)
THEOREM OptionsAnsweredOnce == EventsSpec => []FiringsComplete
  <1>1. EventsInv => FiringsComplete
    <2> SUFFICES ASSUME EventsInv PROVE FiringsComplete
      OBVIOUS
    <2> DEFINE ps == pending_player_events
               log == fired_event_log
               n == Len(firings)
    <2>0. /\ DOMAIN ps = 1 .. Len(ps) /\ DOMAIN log = 1 .. Len(log)
          /\ DOMAIN firings = 1 .. n /\ n \in Nat
      BY LenProperties DEF EventsInv, EventsTypeOK
    <2>1. /\ WaitingOnce(stack, firings, ps) /\ LogSound(stack, firings, log)
          /\ PlayersSound(firings, ps, next_player_event_instance_id)
      BY DEF EventsInv, History
    <2>a. /\ ps = pending_player_events /\ log = fired_event_log /\ n = Len(firings)
      OBVIOUS
    <2> HIDE DEF ps, log, n
    <2>2. ASSUME NEW i \in 1 .. Len(ps), NEW j \in 1 .. Len(ps), ps[i].firing = ps[j].firing
          PROVE  i = j
      <3>1. ps[i].firing \in 1 .. Len(firings)
        BY <2>1, Zenon DEF PlayersSound
      <3>2. Awaits(ps, i, ps[i].firing) /\ Awaits(ps, j, ps[i].firing)
        BY <2>2, Zenon DEF Awaits
      <3> QED
        BY <2>1, <3>1, <3>2, Zenon DEF WaitingOnce
    <2>3. IsInjective([i \in DOMAIN ps |-> ps[i].firing])
      BY <2>0, <2>2, Zenon DEF IsInjective
    <2>4. IsInjective([i \in DOMAIN ps |-> ps[i].instance_id])
      BY <2>0, <2>1, Zenon DEF IsInjective, PlayersSound
    <2>5. ASSUME stack = <<>>
          PROVE  /\ \A k, f : ~Opens(stack, k, f)
                 /\ \A r, f : Explains(stack, firings, r, f) =>
                      /\ firings[f].event = r.event /\ firings[f].target = r.target
                      /\ Len(firings[f].ran) = 2 /\ firings[f].ran[2] = r.option
      <3>1. \A k, f : ~Opens(stack, k, f)
        BY <2>5, EmptyFacts
      <3> QED
        BY <3>1, Zenon DEF Explains
    <2>6. ASSUME stack = <<>>, NEW f \in 1 .. n
          PROVE  Len(firings[f].ran) = IF f \in Awaiting THEN 1 ELSE 2
      <3>1. Waits(stack, ps, f) <=> f \in Awaiting
        BY <2>0, <2>5, <2>6, <2>a, Zenon DEF Waits, Awaits, Awaiting
      <3> QED
        BY <2>1, <2>a, <3>1, Zenon DEF WaitingOnce
    <2>7. ASSUME stack = <<>>, NEW r \in Range(log)
          PROVE  /\ r.option \in AnswersOf(r.event) \/ OptionsOf[r.event] = <<>>
                 /\ Cardinality({i \in DOMAIN log : log[i] = r})
                      <= Cardinality({f \in DOMAIN firings :
                           firings[f].event = r.event /\ firings[f].target = r.target
                           /\ Len(firings[f].ran) = 2 /\ firings[f].ran[2] = r.option})
      <3> DEFINE S == {i \in DOMAIN log : log[i] = r}
                 T == {f \in DOMAIN firings :
                         firings[f].event = r.event /\ firings[f].target = r.target
                         /\ Len(firings[f].ran) = 2 /\ firings[f].ran[2] = r.option}
      <3>1. PICK i \in 1 .. Len(log) : r = log[i]
        BY <2>0, Zenon DEF Range
      <3>2. PICK m \in [1 .. Len(log) -> 1 .. Len(firings)] :
              /\ \A k, l \in 1 .. Len(log) : m[k] = m[l] => k = l
              /\ \A k \in 1 .. Len(log) : Explains(stack, firings, log[k], m[k])
        BY <2>1, Zenon DEF LogSound
      <3> DEFINE h == [k \in S |-> m[k]]
      <3>3. \A k \in S : m[k] \in T
        <4> SUFFICES ASSUME NEW k \in S PROVE m[k] \in T
          OBVIOUS
        <4>1. k \in 1 .. Len(log) /\ log[k] = r
          BY <2>0
        <4>2. m[k] \in DOMAIN firings /\ Explains(stack, firings, r, m[k])
          BY <2>0, <2>a, <3>2, <4>1, Zenon
        <4> QED
          BY <2>5, <2>7, <4>2, Zenon
      <3>4. h \in Injection(S, T)
        <4>1. h \in [S -> T]
          BY <3>3, Zenon
        <4>2. IsInjective(h)
          BY <2>0, <3>2, Zenon DEF IsInjective
        <4> HIDE DEF h, S, T
        <4> QED
          BY <4>1, <4>2, Zenon DEF Injection
      <3>5. IsFiniteSet(T)
        <4>1. IsFiniteSet(1 .. n)
          BY <2>0, FS_Interval
        <4>2. T \in SUBSET (1 .. n)
          BY <2>0
        <4> HIDE DEF T
        <4> QED
          BY <4>1, <4>2, FS_Subset
      <3> HIDE DEF h
      <3>6. Cardinality(S) <= Cardinality(T)
        <4> HIDE DEF S, T
        <4> QED
          BY <3>4, <3>5, FS_Injection
      <3>7. r.option \in AnswersOf(r.event) \/ OptionsOf[r.event] = <<>>
        BY <2>1, <3>1, Zenon DEF LogSound
      <3> QED
        BY <3>6, <3>7
    <2>8. stack = <<>> => LogExplained
      BY <2>7, Zenon DEF LogExplained, log
    <2>9. stack = <<>> => \A f \in DOMAIN firings : Len(firings[f].ran) = IF f \in Awaiting THEN 1 ELSE 2
      BY <2>0, <2>6, Zenon
    <2> QED
      BY <2>3, <2>4, <2>8, <2>9, Zenon DEF FiringsComplete, ps
  <1> QED
    BY <1>1, EventsInductive, PTL

-----------------------------------------------------------------------------
(* Provinces and countries.                                                *)


(* The shapes of the variables. *)
OwnershipTypeOK ==
  /\ rule \in Rules
  /\ owner \in [Province -> Owners]
  /\ controller \in [Province -> Owners]
  /\ cores \in [Province -> SUBSET Country]
  /\ report \in [Province -> Owners]
  /\ owned \in [Country -> SUBSET Province]
  /\ controlled \in [Country -> SUBSET Province]
  /\ core_provinces \in [Country -> SUBSET Province]
  /\ capitals \in SUBSET Province
  /\ previous \in [Province -> Owners]
  /\ states \in [Country -> SUBSET Province]
  /\ refused \in BOOLEAN

(* MapBooksAgree is inductive together with the types; its parts by name. *)
Owning == \A p \in Province, c \in Country : p \in owned[c] <=> owner[p] = c
Controlling == \A p \in Province, c \in Country : p \in controlled[c] <=> controller[p] = c
Cores == \A p \in Province, c \in Country : p \in core_provinces[c] <=> c \in cores[p]
Reporting == \A p \in Province : report[p] = Reported(owner[p], controller[p])
StatesKept ==
  \A s \in Province, c \in Country : s \in states[c] <=> s \in capitals /\ previous[s] = c

OwnershipInv ==
  OwnershipTypeOK /\ Owning /\ Controlling /\ Cores /\ Reporting /\ StatesKept /\ ~refused

(* A book stays in step with its facts when an item moves in both. *)
LEMMA MovedAgrees ==
  ASSUME NEW fact \in [Province -> Owners], NEW book \in [Country -> SUBSET Province],
         NEW item \in Province, NEW to \in Owners, fact[item] # to,
         \A p \in Province, c \in Country : p \in book[c] <=> fact[p] = c
  PROVE  /\ Moved(book, fact[item], to, item) \in [Country -> SUBSET Province]
         /\ \A p \in Province, c \in Country :
              p \in Moved(book, fact[item], to, item)[c] <=> [fact EXCEPT ![item] = to][p] = c
         /\ ~MoveRefused(book, fact[item], to, item)
<1>1. Moved(book, fact[item], to, item) \in [Country -> SUBSET Province]
  BY DEF Moved
<1>2. ASSUME NEW p \in Province, NEW c \in Country
      PROVE  p \in Moved(book, fact[item], to, item)[c] <=> [fact EXCEPT ![item] = to][p] = c
  <2>1. CASE p = item
    BY <2>1 DEF Moved
  <2>2. CASE p # item
    BY <2>2 DEF Moved
  <2> QED BY <2>1, <2>2
<1>3. ~MoveRefused(book, fact[item], to, item)
  BY DEF MoveRefused
<1> QED BY <1>1, <1>2, <1>3

LEMMA ReportFollowsOwner ==
  ASSUME OwnershipInv, NEW p \in Province, NEW o \in Owners
  PROVE  /\ ReportOfOwner(p, o) = Reported(o, controller[p])
         /\ ReportOfOwner(p, o) \in Owners
BY OwnershipAssumption
   DEF OwnershipInv, OwnershipTypeOK, Reporting, Reported, ReportOfOwner, Owners

LEMMA ReportFollowsController ==
  ASSUME OwnershipInv, NEW p \in Province, NEW k \in Owners
  PROVE  /\ ReportOfController(p, k) = Reported(owner[p], k)
         /\ ReportOfController(p, k) \in Owners
BY OwnershipAssumption
   DEF OwnershipInv, OwnershipTypeOK, Reporting, Reported, ReportOfController, Owners

LEMMA SetOwnerKeeps ==
  ASSUME OwnershipInv, NEW p \in Province, NEW o \in Owners, set_owner(p, o)
  PROVE  OwnershipInv'
<1> USE DEF OwnershipInv
<1>1. /\ owned' \in [Country -> SUBSET Province] /\ Owning'
      /\ ~MoveRefused(owned, owner[p], o, p)
  <2>1. /\ owner \in [Province -> Owners] /\ owned \in [Country -> SUBSET Province]
        /\ owner[p] # o /\ owned' = Moved(owned, owner[p], o, p)
        /\ owner' = [owner EXCEPT ![p] = o]
        /\ \A q \in Province, c \in Country : q \in owned[c] <=> owner[q] = c
    BY DEF set_owner, Owning, OwnershipTypeOK
  <2>2. /\ Moved(owned, owner[p], o, p) \in [Country -> SUBSET Province]
        /\ \A q \in Province, c \in Country :
             q \in Moved(owned, owner[p], o, p)[c] <=> [owner EXCEPT ![p] = o][q] = c
        /\ ~MoveRefused(owned, owner[p], o, p)
    <3> HIDE DEF OwnershipInv
    <3> QED BY ONLY <2>1, MovedAgrees, p \in Province, o \in Owners
  <2> QED BY ONLY <2>1, <2>2 DEF Owning
<1>2. Reporting' /\ report' \in [Province -> Owners]
  <2>1. /\ ReportOfOwner(p, o) = Reported(o, controller[p]) /\ ReportOfOwner(p, o) \in Owners
    BY ReportFollowsOwner
  <2>2. ASSUME NEW q \in Province PROVE report'[q] = Reported(owner[q], controller[q])'
    BY <2>1 DEF set_owner, Reporting, Reported, OwnershipTypeOK, provinceBooks
  <2> QED BY <2>1, <2>2 DEF set_owner, Reporting, OwnershipTypeOK
<1>3. OwnershipTypeOK' /\ ~refused'
  BY <1>1, <1>2 DEF set_owner, OwnershipTypeOK, stateBooks
<1>4. Controlling' /\ Cores' /\ StatesKept'
  BY DEF set_owner, Controlling, Cores, StatesKept, stateBooks
<1> QED BY <1>1, <1>2, <1>3, <1>4

LEMMA SetControllerKeeps ==
  ASSUME OwnershipInv, NEW p \in Province, NEW o \in Owners, set_controller(p, o)
  PROVE  OwnershipInv'
<1> USE DEF OwnershipInv
<1> DEFINE k == IF o = Nobody THEN owner[p] ELSE o
<1>0. /\ k \in Owners /\ controller[p] # k
      /\ controlled' = Moved(controlled, controller[p], k, p)
      /\ refused' = (refused \/ MoveRefused(controlled, controller[p], k, p))
      /\ controller' = [controller EXCEPT ![p] = k]
      /\ report' = [report EXCEPT ![p] = ReportOfController(p, k)]
      /\ UNCHANGED <<rule, owner, cores, owned, core_provinces, stateBooks>>
  BY DEF set_controller, OwnershipTypeOK
<1> HIDE DEF k
<1>1. /\ controlled' \in [Country -> SUBSET Province] /\ Controlling'
      /\ ~MoveRefused(controlled, controller[p], k, p)
  <2>1. /\ controller \in [Province -> Owners] /\ controlled \in [Country -> SUBSET Province]
        /\ \A q \in Province, c \in Country : q \in controlled[c] <=> controller[q] = c
    BY DEF Controlling, OwnershipTypeOK
  <2>2. /\ Moved(controlled, controller[p], k, p) \in [Country -> SUBSET Province]
        /\ \A q \in Province, c \in Country :
             q \in Moved(controlled, controller[p], k, p)[c] <=> [controller EXCEPT ![p] = k][q] = c
        /\ ~MoveRefused(controlled, controller[p], k, p)
    BY ONLY <1>0, <2>1, MovedAgrees, p \in Province
  <2> QED BY ONLY <1>0, <2>2 DEF Controlling
<1>2. Reporting' /\ report' \in [Province -> Owners]
  <2>1. /\ ReportOfController(p, k) = Reported(owner[p], k) /\ ReportOfController(p, k) \in Owners
    BY <1>0, ReportFollowsController
  <2>2. ASSUME NEW q \in Province PROVE report'[q] = Reported(owner[q], controller[q])'
    BY <1>0, <2>1 DEF Reporting, Reported, OwnershipTypeOK
  <2> QED BY <1>0, <2>1, <2>2 DEF Reporting, OwnershipTypeOK
<1>3. OwnershipTypeOK' /\ ~refused'
  BY <1>0, <1>1, <1>2 DEF OwnershipTypeOK, stateBooks
<1>4. Owning' /\ Cores' /\ StatesKept'
  BY <1>0 DEF Owning, Cores, StatesKept, stateBooks
<1> QED BY <1>1, <1>2, <1>3, <1>4

LEMMA CoresKeep ==
  ASSUME OwnershipInv, NEW p \in Province, NEW c \in Country,
         add_core(p, c) \/ remove_core(p, c)
  PROVE  OwnershipInv'
<1> USE DEF OwnershipInv, stateBooks
<1>1. Cores' /\ ~refused' /\ OwnershipTypeOK'
  <2>1. CASE add_core(p, c)
    BY <2>1 DEF add_core, Cores, OwnershipTypeOK
  <2>2. CASE remove_core(p, c)
    BY <2>2 DEF remove_core, Cores, OwnershipTypeOK
  <2> QED BY <2>1, <2>2
<1>2. Owning' /\ Controlling' /\ StatesKept'
  BY DEF add_core, remove_core, Owning, Controlling, StatesKept
<1>3. Reporting'
  BY DEF add_core, remove_core, Reporting, Reported
<1> QED BY <1>1, <1>2, <1>3

LEMMA GenerateKeeps ==
  ASSUME OwnershipInv, generate_states
  PROVE  OwnershipInv'
<1> USE DEF OwnershipInv, provinceBooks
<1>1. capitals' \in SUBSET Province
  BY DEF generate_states
<1>2. previous' \in [Province -> Owners]
  BY DEF generate_states, OwnershipTypeOK, Owners
<1>3. \A c \in Country : states[c] = {}
  BY DEF generate_states, StatesKept, OwnershipTypeOK
<1>4. states' \in [Country -> SUBSET Province]
  BY <1>1 DEF generate_states, OwnershipTypeOK
<1>5. StatesKept'
  <2>1. ASSUME NEW s \in Province, NEW c \in Country
        PROVE  s \in states'[c] <=> s \in capitals' /\ previous'[s] = c
    BY <1>1, <1>3 DEF generate_states
  <2> QED BY <2>1 DEF StatesKept
<1>6. ~refused'
  BY <1>3 DEF generate_states
<1>7. OwnershipTypeOK'
  BY <1>1, <1>2, <1>4, <1>6 DEF generate_states, OwnershipTypeOK
<1>8. Owning' /\ Controlling' /\ Cores' /\ Reporting'
  BY DEF generate_states, Owning, Controlling, Cores, Reporting, Reported
<1> QED BY <1>5, <1>6, <1>7, <1>8

LEMMA UpdateKeeps ==
  ASSUME OwnershipInv, UpdateStates
  PROVE  OwnershipInv'
<1> USE DEF OwnershipInv, provinceBooks
<1>1. previous' \in [Province -> Owners] /\ states' \in [Country -> SUBSET Province]
  BY DEF UpdateStates, OwnershipTypeOK, Left
<1>2. StatesKept'
  <2>1. ASSUME NEW s \in Province, NEW c \in Country
        PROVE  s \in states'[c] <=> s \in capitals' /\ previous'[s] = c
    BY DEF UpdateStates, StatesKept, Left, OwnershipTypeOK
  <2> QED BY <2>1 DEF StatesKept
<1>3. ~refused'
  <2>1. ASSUME NEW c \in Country PROVE Left(c) \subseteq states[c]
    BY DEF Left, StatesKept, OwnershipTypeOK
  <2>2. ASSUME NEW c \in Country, NEW s \in capitals, previous[s] # c PROVE s \notin states[c]
    BY <2>2 DEF StatesKept, OwnershipTypeOK
  <2> QED BY <2>1, <2>2 DEF UpdateStates
<1>4. OwnershipTypeOK'
  BY <1>1, <1>3 DEF UpdateStates, OwnershipTypeOK
<1>5. Owning' /\ Controlling' /\ Cores' /\ Reporting'
  BY DEF UpdateStates, Owning, Controlling, Cores, Reporting, Reported
<1> QED BY <1>2, <1>3, <1>4, <1>5

LEMMA InitialBooks == OwnershipInit => OwnershipInv
<1> SUFFICES ASSUME OwnershipInit PROVE OwnershipInv
  OBVIOUS
<1>1. OwnershipTypeOK
  BY DEF OwnershipInit, OwnershipTypeOK, Owners
<1>2. Owning /\ Controlling /\ Cores /\ StatesKept /\ ~refused
  BY OwnershipAssumption DEF OwnershipInit, Owning, Controlling, Cores, StatesKept
<1>3. Reporting
  BY OwnershipAssumption DEF OwnershipInit, Reporting, Reported
<1> QED BY <1>1, <1>2, <1>3 DEF OwnershipInv

LEMMA OwnershipStep == OwnershipInv /\ [OwnershipNext]_ownershipVars => OwnershipInv'
<1> SUFFICES ASSUME OwnershipInv, [OwnershipNext]_ownershipVars PROVE OwnershipInv'
  OBVIOUS
<1>1. CASE \E p \in Province, o \in Owners : set_owner(p, o) \/ set_controller(p, o)
  BY <1>1, SetOwnerKeeps, SetControllerKeeps
<1>2. CASE \E p \in Province, c \in Country : add_core(p, c) \/ remove_core(p, c)
  BY <1>2, CoresKeep
<1>3. CASE generate_states
  BY <1>3, GenerateKeeps
<1>4. CASE UpdateStates
  BY <1>4, UpdateKeeps
<1>5. CASE UNCHANGED ownershipVars
  <2> USE <1>5 DEF ownershipVars, provinceBooks, stateBooks
  <2>1. OwnershipTypeOK' /\ ~refused'
    BY DEF OwnershipInv, OwnershipTypeOK
  <2>2. Owning' /\ Controlling' /\ Cores' /\ StatesKept'
    BY DEF OwnershipInv, Owning, Controlling, Cores, StatesKept
  <2>3. Reporting'
    BY DEF OwnershipInv, Reporting, Reported
  <2> QED BY <2>1, <2>2, <2>3 DEF OwnershipInv
<1> QED BY <1>1, <1>2, <1>3, <1>4, <1>5 DEF OwnershipNext

(* The books of provinces, countries and states agree in every reachable   *)
(* state, whatever transfers, occupations, cores and updates came before.  *)
THEOREM BooksAgree == OwnershipSpec => []MapBooksAgree
<1>1. OwnershipInv => MapBooksAgree
  BY DEF OwnershipInv, MapBooksAgree, Owning, Controlling, Cores, Reporting, StatesKept
<1> QED
  BY <1>1, InitialBooks, OwnershipStep, PTL DEF OwnershipSpec

-----------------------------------------------------------------------------
(* Armies and their leaders.                                               *)


(* The inductive invariant: a group that is not there yet must have        *)
(* nothing, or making it would give it a second leader or entry.           *)
UnitInv == UnitsTypeOK /\ Unmade /\ UnitBooksAgree

(* set_leader, the group it takes the leader from included, keeps leaders  *)
(* and groups in agreement (UnitInstanceGroup::set_leader).                *)
LEMMA LedAgree ==
  ASSUME NEW g \in Group, NEW l \in Leader \cup {NoOne},
         UnitsTypeOK, LeadersAgree,
         leader' = Led(g, l), leads' = Leads(g, l)
  PROVE  /\ leader' \in [Group -> Leader \cup {NoOne}]
         /\ leads' \in [Leader -> Group \cup {NoOne}]
         /\ LeadersAgree'
<1>1. /\ leader \in [Group -> Leader \cup {NoOne}]
      /\ leads \in [Leader -> Group \cup {NoOne}]
      /\ NoOne \notin Group /\ NoOne \notin Leader
  BY UnitAssumption DEF UnitsTypeOK
<1>2. leader' \in [Group -> Leader \cup {NoOne}]
  BY <1>1 DEF Led
<1>3. leads' \in [Leader -> Group \cup {NoOne}]
  BY <1>1 DEF Leads
<1>4. ASSUME NEW h \in Group, NEW m \in Leader
      PROVE  leader'[h] = m <=> leads'[m] = h
  <2>1. leader[h] = m <=> leads[m] = h
    BY DEF LeadersAgree
  <2>2. leader[g] = m <=> leads[m] = g
    BY DEF LeadersAgree
  <2>3. CASE l = NoOne
    BY <1>1, <2>1, <2>2, <2>3 DEF Led, Leads
  <2>4. CASE l \in Leader
    <3>1. leader[h] = l <=> leads[l] = h
      BY <2>4 DEF LeadersAgree
    <3> QED
      BY <1>1, <2>1, <2>2, <2>4, <3>1 DEF Led, Leads
  <2> QED
    BY <2>3, <2>4
<1> QED
  BY <1>2, <1>3, <1>4 DEF LeadersAgree

(* What a group that is not made yet has stays nothing, whichever leader   *)
(* another group takes.                                                    *)
LEMMA LedUnmade ==
  ASSUME NEW g \in Group, NEW l \in Leader \cup {NoOne}, NEW h \in Group,
         leader[h] = NoOne, h # g, leader' = Led(g, l)
  PROVE  leader'[h] = NoOne
BY DEF Led

(* Lists stay lists (add_unit_instance_group, remove_unit_instance_group). *)
LEMMA ListedType ==
  ASSUME NEW S, NEW list \in [S -> [Group -> Nat]], NEW at \in S, NEW g \in Group
  PROVE  Listed(list, at, g) \in [S -> [Group -> Nat]]
BY DEF Listed

LEMMA UnlistedType ==
  ASSUME NEW S, NEW list \in [S -> [Group -> Nat]], NEW at \in S, NEW g \in Group
  PROVE  Unlisted(list, at, g) \in [S -> [Group -> Nat]]
<1>1. list[at][g] # 0 => list[at][g] - 1 \in Nat
  OBVIOUS
<1> QED
  BY <1>1 DEF Unlisted

-----------------------------------------------------------------------------
(* The program starts without groups and leaders. *)
LEMMA UnitsInitInv == UnitsInit => UnitInv
BY UnitAssumption DEF UnitsInit, UnitInv, UnitsTypeOK, Unmade, UnitBooksAgree,
   LeadersAgree, CountriesAgree, PlacesAgree

(* The five operations, one by one (UnitInstanceGroup.cpp). *)
LEMMA UnitsStepInv == UnitInv /\ [UnitsNext]_unitVars => UnitInv'
<1> SUFFICES ASSUME UnitInv, [UnitsNext]_unitVars PROVE UnitInv'
  OBVIOUS
<1> USE UnitAssumption
<1>0. UnitsTypeOK /\ Unmade /\ LeadersAgree /\ CountriesAgree /\ PlacesAgree
  BY DEF UnitInv, UnitBooksAgree
<1>1. ASSUME NEW l \in Leader, NEW c \in Power, generate_leader(l, c)
      PROVE  UnitInv'
  <2>1. UnitsTypeOK'
    BY <1>0, <1>1 DEF generate_leader, UnitsTypeOK
  <2>2. \A g \in Group : country'[g] = country[g]
    BY <1>0, <1>1 DEF generate_leader, UnitsTypeOK
  <2> QED
    BY <1>0, <1>1, <2>1, <2>2
    DEF generate_leader, UnitInv, UnitBooksAgree, Unmade, LeadersAgree, CountriesAgree, PlacesAgree
<1>2. ASSUME NEW g \in Group, NEW l \in Leader \cup {NoOne}, set_leader(g, l)
      PROVE  UnitInv'
  <2> DEFINE new == IF l # NoOne /\ MayLead(g, l) THEN l ELSE NoOne
  <2>1. new \in Leader \cup {NoOne} /\ leader' = Led(g, new) /\ leads' = Leads(g, new)
    BY <1>2 DEF set_leader
  <2>2. /\ leader' \in [Group -> Leader \cup {NoOne}]
        /\ leads' \in [Leader -> Group \cup {NoOne}]
        /\ LeadersAgree'
    <3> HIDE DEF new
    <3> QED BY <1>0, <2>1, LedAgree
  <2>3. Unmade'
    <3>1. \A h \in Group : leader[h] = NoOne /\ h # g => leader'[h] = NoOne
      <4> HIDE DEF new
      <4> QED BY <2>1, LedUnmade
    <3> QED
      BY <1>0, <1>2, <3>1 DEF set_leader, Unmade
  <2>4. UnitsTypeOK' /\ CountriesAgree' /\ PlacesAgree'
    BY <1>0, <1>2, <2>2 DEF set_leader, UnitsTypeOK, CountriesAgree, PlacesAgree
  <2> QED
    BY <2>2, <2>3, <2>4 DEF UnitInv, UnitBooksAgree
<1>3. ASSUME NEW g \in Group, NEW c \in Power, NEW p \in Place, NEW l \in Leader \cup {NoOne},
             generate_unit_instance_group(g, c, p, l)
      PROVE  UnitInv'
  <2>1. leader' = Led(g, l) /\ leads' = Leads(g, l)
    BY <1>3 DEF generate_unit_instance_group
  <2>2. /\ leader' \in [Group -> Leader \cup {NoOne}]
        /\ leads' \in [Leader -> Group \cup {NoOne}]
        /\ LeadersAgree'
    BY <1>0, <2>1, LedAgree
  <2>3. country[g] = NoOne /\ g \notin moved
    BY <1>0, <1>3 DEF generate_unit_instance_group, Unmade
  <2>4. UnitsTypeOK'
    <3>1. country' \in [Group \cup Leader -> Power \cup {NoOne}] /\ location' \in [Group -> Place \cup {NoOne}]
      BY <1>0, <1>3 DEF generate_unit_instance_group, UnitsTypeOK
    <3>2. groups_of' \in [Power -> [Group -> Nat]]
      BY <1>0, <1>3 DEF generate_unit_instance_group, UnitsTypeOK, Listed
    <3> QED
      BY <1>0, <1>3, <2>2, <3>1, <3>2 DEF generate_unit_instance_group, UnitsTypeOK
  <2>5. Unmade'
    <3>1. \A h \in Group : leader[h] = NoOne /\ h # g => leader'[h] = NoOne
      BY <2>1, LedUnmade
    <3> QED
      BY <1>0, <1>3, <3>1 DEF generate_unit_instance_group, Unmade, UnitsTypeOK
  <2>6. CountriesAgree'
    BY <1>0, <1>3, <2>3 DEF generate_unit_instance_group, UnitsTypeOK, CountriesAgree, Listed
  <2>7. PlacesAgree'
    BY <1>0, <1>3, <2>3 DEF generate_unit_instance_group, UnitsTypeOK, PlacesAgree
  <2> QED
    BY <2>2, <2>4, <2>5, <2>6, <2>7 DEF UnitInv, UnitBooksAgree
<1>4. ASSUME NEW g \in Group, NEW p \in Place, set_location(g, p)
      PROVE  UnitInv'
  <2>1. location[g] \in Place /\ location[g] # p
    BY <1>0, <1>4 DEF set_location, Unmade, UnitsTypeOK
  <2>2. stationed' \in [Place -> [Group -> Nat]]
    <3>1. Unlisted(stationed, location[g], g) \in [Place -> [Group -> Nat]]
      BY <1>0, <2>1, UnlistedType DEF UnitsTypeOK
    <3> QED
      BY <1>4, <3>1, ListedType DEF set_location
  <2>3. UnitsTypeOK'
    BY <1>0, <1>4, <2>2 DEF set_location, UnitsTypeOK
  <2>4. PlacesAgree'
    <3>1. \A h \in Group, q \in Place :
            stationed'[q][h] = IF h # g THEN stationed[q][h]
                               ELSE IF q = p THEN stationed[q][h] + 1
                               ELSE IF q = location[g] /\ stationed[q][h] # 0 THEN stationed[q][h] - 1
                               ELSE stationed[q][h]
      BY <1>0, <1>4, <2>1 DEF set_location, UnitsTypeOK, Listed, Unlisted
    <3> QED
      BY <1>0, <1>4, <2>1, <3>1 DEF set_location, UnitsTypeOK, PlacesAgree
  <2> QED
    BY <1>0, <1>4, <2>3, <2>4
    DEF set_location, UnitInv, UnitBooksAgree, Unmade, UnitsTypeOK, LeadersAgree, CountriesAgree
<1>5. ASSUME NEW g \in Group, NEW c \in Power, set_country(g, c)
      PROVE  UnitInv'
  <2>1. country[g] \in Power /\ country[g] # c
    BY <1>0, <1>5 DEF set_country, UnitsTypeOK
  <2>2. groups_of' \in [Power -> [Group -> Nat]]
    <3>1. Unlisted(groups_of, country[g], g) \in [Power -> [Group -> Nat]]
      BY <1>0, <2>1, UnlistedType DEF UnitsTypeOK
    <3> QED
      BY <1>5, <3>1, ListedType DEF set_country
  <2>3. UnitsTypeOK'
    BY <1>0, <1>5, <2>2 DEF set_country, UnitsTypeOK
  <2>4. CountriesAgree'
    <3>1. \A h \in Group, d \in Power :
            groups_of'[d][h] = IF h # g THEN groups_of[d][h]
                               ELSE IF d = c THEN groups_of[d][h] + 1
                               ELSE IF d = country[g] /\ groups_of[d][h] # 0 THEN groups_of[d][h] - 1
                               ELSE groups_of[d][h]
      BY <1>0, <1>5, <2>1 DEF set_country, UnitsTypeOK, Listed, Unlisted
    <3> QED
      BY <1>0, <1>5, <2>1, <3>1 DEF set_country, UnitsTypeOK, CountriesAgree
  <2> QED
    BY <1>0, <1>5, <2>3, <2>4
    DEF set_country, UnitInv, UnitBooksAgree, Unmade, UnitsTypeOK, LeadersAgree, PlacesAgree
<1>6. CASE UNCHANGED unitVars
  BY <1>0, <1>6
  DEF unitVars, UnitInv, UnitBooksAgree, UnitsTypeOK, Unmade, LeadersAgree, CountriesAgree, PlacesAgree
<1> QED
  BY <1>1, <1>2, <1>3, <1>4, <1>5, <1>6 DEF UnitsNext

(* In every behaviour the books of groups, leaders, countries and          *)
(* provinces agree (UnitInstanceGroup.cpp).                                *)
THEOREM UnitBooks == UnitsSpec => []UnitBooksAgree
<1>1. UnitInv => UnitBooksAgree
  BY DEF UnitInv
<1> QED
  BY <1>1, UnitsInitInv, UnitsStepInv, PTL DEF UnitsSpec

-----------------------------------------------------------------------------
(* Diplomacy.  A table is looked up and written through the key of an entry, *)
(* which for three tables does not know the order of its countries.         *)

Tables == Unordered \cup Flags \cup Numbers \cup Dates

(* The entry e is the one of table t for c and r. *)
Keyed(t, e, c, r) ==
  IF t \in Unordered THEN <<e.first, e.second>> \in {<<c, r>>, <<r, c>>} ELSE e.first = c /\ e.second = r

Found(t, entries, c, r) == {e \in entries : Keyed(t, e, c, r)}

Reading(t, entries, c, r) ==
  IF Found(t, entries, c, r) = {} THEN Default(t)
  ELSE (CHOOSE e \in Found(t, entries, c, r) : TRUE).value

Writing(t, entries, c, r, v) ==
  IF Found(t, entries, c, r) = {} THEN entries \cup {[first |-> c, second |-> r, value |-> v]}
  ELSE LET e == CHOOSE e \in Found(t, entries, c, r) : TRUE
       IN  (entries \ {e}) \cup {[e EXCEPT !.value = v]}

IsEntry(e) ==
  /\ e = [first |-> e.first, second |-> e.second, value |-> e.value]
  /\ e.first \in Nation /\ e.second \in Nation

(* A key has one entry. *)
TableSound(t, entries) ==
  /\ \A e \in entries : IsEntry(e)
  /\ \A e, f \in entries : Keyed(t, e, f.first, f.second) => e = f

(* A war that both know is in the table, and until an action writes there   *)
(* the table holds no other.                                                *)
WarsAgree(wars, enemies, acted) ==
  /\ \A e \in wars : e.value \in BOOLEAN
  /\ \A c, r \in Nation : r \in enemies[c] =>
       c # r /\ c \in enemies[r] /\ Reading("at_war", wars, c, r) = TRUE
  /\ ~acted => \A c, r \in Nation : Reading("at_war", wars, c, r) = TRUE => r \in enemies[c]

SpheresAgree(opinions, owners, acted) ==
  ~acted => \A c \in Nation : owners[c] # 0 => Reading("opinions", opinions, owners[c], c) = Sphere

DiplomacyInv ==
  /\ DOMAIN tables = Tables /\ \A t \in Tables : TableSound(t, tables[t])
  /\ war_enemies \in [Nation -> SUBSET Nation]
  /\ sphere_owner \in [Nation -> Nation \cup {0}]
  /\ committed \in BOOLEAN
  /\ WarsAgree(tables["at_war"], war_enemies, committed)
  /\ SpheresAgree(tables["opinions"], sphere_owner, committed)

LEMMA HashForgetsOrder ==
  ASSUME NEW e, NEW c, NEW r
  PROVE  SameUnordered(e, c, r) <=> <<e.first, e.second>> \in {<<c, r>>, <<r, c>>}
<1>1. {Seed(c, r), Seed(r, c)} = {Seed(r, c), Seed(c, r)}
  OBVIOUS
<1>2. UnorderedHash(c, r) = UnorderedHash(r, c)
  BY <1>1 DEF UnorderedHash
<1>3. ASSUME <<e.first, e.second>> \in {<<c, r>>, <<r, c>>}
      PROVE  UnorderedHash(e.first, e.second) = UnorderedHash(c, r)
  <2>1. CASE e.first = c /\ e.second = r
    BY <2>1
  <2>2. CASE e.first = r /\ e.second = c
    BY <1>2, <2>2
  <2> QED
    BY <1>3, <2>1, <2>2
<1> QED
  BY <1>3 DEF SameUnordered

LEMMA FindIsFound ==
  ASSUME NEW t, NEW c, NEW r
  PROVE  Find(t, c, r) = Found(t, tables[t], c, r)
BY HashForgetsOrder DEF Find, Found, Keyed

LEMMA GetIsReading ==
  ASSUME NEW t, NEW c, NEW r
  PROVE  Get(t, c, r) = Reading(t, tables[t], c, r)
<1>1. Find(t, c, r) = Found(t, tables[t], c, r)
  BY FindIsFound
<1> QED
  BY <1>1 DEF Get, Reading

LEMMA PutIsWriting ==
  ASSUME NEW t, NEW c, NEW r, NEW v
  PROVE  Put(t, c, r, v) = Writing(t, tables[t], c, r, v)
<1>1. Find(t, c, r) = Found(t, tables[t], c, r)
  BY FindIsFound
<1> QED
  BY <1>1 DEF Put, Writing

LEMMA GetIsReadingNext ==
  ASSUME NEW t, NEW c, NEW r
  PROVE  Get(t, c, r)' = Reading(t, tables'[t], c, r)
<1>1. Find(t, c, r)' = Found(t, tables'[t], c, r)
  BY HashForgetsOrder DEF Find, Found, Keyed
<1> QED
  BY <1>1 DEF Get, Reading

LEMMA ReadingIgnoresOrder ==
  ASSUME NEW t \in Unordered, NEW entries, NEW c, NEW r
  PROVE  Reading(t, entries, c, r) = Reading(t, entries, r, c)
<1>1. Found(t, entries, c, r) = Found(t, entries, r, c)
  BY DEF Found, Keyed
<1> QED
  BY <1>1 DEF Reading

(* The one entry that is found is the one that is read. *)
LEMMA ReadingOf ==
  ASSUME NEW t, NEW entries, TableSound(t, entries), NEW c, NEW r,
         NEW e \in entries, Keyed(t, e, c, r)
  PROVE  Reading(t, entries, c, r) = e.value /\ Found(t, entries, c, r) = {e}
<1>1. ASSUME NEW f \in Found(t, entries, c, r) PROVE f = e
  <2>1. f \in entries /\ Keyed(t, f, c, r)
    BY DEF Found
  <2>2. Keyed(t, f, e.first, e.second)
    BY <2>1 DEF Keyed
  <2> QED
    BY <2>1, <2>2 DEF TableSound
<1>2. Found(t, entries, c, r) = {e}
  BY <1>1 DEF Found
<1> QED
  BY <1>2 DEF Reading

SamePair(t, a, b, c, r) ==
  IF t \in Unordered THEN <<a, b>> \in {<<c, r>>, <<r, c>>} ELSE a = c /\ b = r

(* A write replaces what is found under its key by one entry. *)
LEMMA WritingReplaces ==
  ASSUME NEW t, NEW entries, TableSound(t, entries), NEW c \in Nation, NEW r \in Nation, NEW v
  PROVE  \E n : /\ IsEntry(n) /\ n.value = v /\ Keyed(t, n, c, r)
                /\ Writing(t, entries, c, r, v) = (entries \ Found(t, entries, c, r)) \cup {n}
<1>1. CASE Found(t, entries, c, r) = {}
  <2> DEFINE n == [first |-> c, second |-> r, value |-> v]
  <2>1. IsEntry(n) /\ n.value = v
    BY DEF IsEntry
  <2>2. Keyed(t, n, c, r)
    BY DEF Keyed
  <2>3. Writing(t, entries, c, r, v) = (entries \ Found(t, entries, c, r)) \cup {n}
    BY <1>1 DEF Writing
  <2> QED
    BY <2>1, <2>2, <2>3
<1>2. CASE Found(t, entries, c, r) # {}
  <2> DEFINE e == CHOOSE e \in Found(t, entries, c, r) : TRUE
             n == [e EXCEPT !.value = v]
  <2>1. e \in Found(t, entries, c, r)
    BY <1>2
  <2>2. Writing(t, entries, c, r, v) = (entries \ {e}) \cup {n}
    BY <1>2 DEF Writing
  <2> HIDE DEF e
  <2>3. e \in entries /\ Keyed(t, e, c, r) /\ IsEntry(e)
    BY <2>1 DEF Found, TableSound
  <2>4. Found(t, entries, c, r) = {e}
    BY <2>3, ReadingOf
  <2>5. n = [first |-> e.first, second |-> e.second, value |-> v]
    BY <2>3 DEF IsEntry
  <2> HIDE DEF n
  <2>6. n.first = e.first /\ n.second = e.second /\ n.value = v
    BY <2>5
  <2>7. IsEntry(n) /\ Keyed(t, n, c, r)
    BY <2>3, <2>5, <2>6 DEF IsEntry, Keyed
  <2> QED
    BY <2>2, <2>4, <2>6, <2>7
<1> QED
  BY <1>1, <1>2

(* What a write leaves: one entry a key, the value it wrote under its key,   *)
(* and every other value as it was.                                         *)
LEMMA WritingKeeps ==
  ASSUME NEW t, NEW entries, TableSound(t, entries), NEW c \in Nation, NEW r \in Nation, NEW v
  PROVE  /\ TableSound(t, Writing(t, entries, c, r, v))
         /\ \A a, b : Reading(t, Writing(t, entries, c, r, v), a, b)
                        = IF SamePair(t, a, b, c, r) THEN v ELSE Reading(t, entries, a, b)
         /\ \A e \in Writing(t, entries, c, r, v) : e \in entries \/ e.value = v
<1> DEFINE w == Writing(t, entries, c, r, v)
<1>1. PICK n : /\ IsEntry(n) /\ n.value = v /\ Keyed(t, n, c, r)
               /\ w = (entries \ Found(t, entries, c, r)) \cup {n}
  BY WritingReplaces
<1>2. \A f \in entries : f \in w <=> ~Keyed(t, f, c, r) \/ f = n
  BY <1>1 DEF Found
<1>3. \A f \in w : f = n \/ (f \in entries /\ ~Keyed(t, f, c, r))
  BY <1>1 DEF Found
<1>4. n \in w
  BY <1>1
<1> HIDE DEF w
<1>5. TableSound(t, w)
  <2>1. ASSUME NEW e \in w PROVE IsEntry(e)
    BY <1>1, <1>3 DEF TableSound
  <2>2. ASSUME NEW e \in w, NEW f \in w, Keyed(t, e, f.first, f.second) PROVE e = f
    <3>1. CASE e = n
      <4>1. Keyed(t, f, c, r)
        BY <1>1, <2>2, <3>1 DEF Keyed
      <4> QED
        BY <1>3, <3>1, <4>1
    <3>2. CASE f = n
      <4>1. Keyed(t, e, c, r)
        BY <1>1, <2>2, <3>2 DEF Keyed
      <4> QED
        BY <1>3, <3>2, <4>1
    <3>3. CASE e # n /\ f # n
      BY <1>3, <2>2, <3>3 DEF TableSound
    <3> QED
      BY <3>1, <3>2, <3>3
  <2> QED
    BY <2>1, <2>2 DEF TableSound
<1>6. ASSUME NEW a, NEW b
      PROVE  Reading(t, w, a, b) = IF SamePair(t, a, b, c, r) THEN v ELSE Reading(t, entries, a, b)
  <2>1. CASE SamePair(t, a, b, c, r)
    <3>1. Keyed(t, n, a, b)
      BY <1>1, <2>1 DEF Keyed, SamePair
    <3> QED
      BY <1>1, <1>4, <1>5, <2>1, <3>1, ReadingOf
  <2>2. CASE ~SamePair(t, a, b, c, r)
    <3>1. ~Keyed(t, n, a, b)
      BY <1>1, <2>2 DEF Keyed, SamePair
    <3>2. \A f : Keyed(t, f, c, r) => ~Keyed(t, f, a, b)
      BY <2>2 DEF Keyed, SamePair
    <3>3. Found(t, w, a, b) = Found(t, entries, a, b)
      BY <1>2, <1>3, <3>1, <3>2 DEF Found
    <3> QED
      BY <2>2, <3>3 DEF Reading
  <2> QED
    BY <2>1, <2>2
<1>7. \A e \in w : e \in entries \/ e.value = v
  BY <1>1, <1>3
<1> QED
  BY <1>5, <1>6, <1>7 DEF w

LEMMA DiplomacyInitInv == DiplomacyInit => DiplomacyInv
<1> SUFFICES ASSUME DiplomacyInit PROVE DiplomacyInv
  OBVIOUS
<1>1. /\ tables = [t \in Tables |-> {}] /\ war_enemies = [c \in Nation |-> {}]
      /\ sphere_owner = [c \in Nation |-> 0] /\ committed = FALSE
  BY DEF DiplomacyInit, Tables
<1>2. "at_war" \in Tables /\ "opinions" \in Tables
  BY DEF Tables, Unordered, Numbers
<1>3. \A c, r \in Nation : Reading("at_war", {}, c, r) = FALSE
  BY DEF Reading, Found, Default
<1> QED
  BY <1>1, <1>2, <1>3 DEF DiplomacyInv, TableSound, WarsAgree, SpheresAgree

(* A setter writes one table and leaves the others. *)
LEMMA SetWrites ==
  ASSUME DiplomacyInv, NEW t \in Tables, NEW c \in Nation, NEW r \in Nation, NEW v, tables' = Set(t, c, r, v)
  PROVE  /\ DOMAIN tables' = Tables /\ \A u \in Tables : TableSound(u, tables'[u])
         /\ tables'[t] = Writing(t, tables[t], c, r, v)
         /\ \A u \in Tables : u # t => tables'[u] = tables[u]
<1>1. DOMAIN tables = Tables /\ \A u \in Tables : TableSound(u, tables[u])
  BY DEF DiplomacyInv
<1>2. tables' = [tables EXCEPT ![t] = Writing(t, tables[t], c, r, v)]
  BY PutIsWriting DEF Set
<1>3. TableSound(t, Writing(t, tables[t], c, r, v))
  BY <1>1, WritingKeeps
<1> QED
  BY <1>1, <1>2, <1>3

LEMMA NamedTables == "at_war" \in Tables /\ "opinions" \in Tables /\ "relations" \in Tables
BY DEF Tables, Unordered, Numbers

(* Tables beside which nothing is kept. *)
LEMMA OtherTableKeeps ==
  ASSUME DiplomacyInv, NEW t \in Tables \ {"at_war", "opinions"}, NEW c \in Nation, NEW r \in Nation, NEW v,
         tables' = Set(t, c, r, v), UNCHANGED <<war_enemies, sphere_owner>>,
         committed' \in BOOLEAN, committed => committed'
  PROVE  DiplomacyInv'
<1>1. /\ DOMAIN tables' = Tables /\ \A u \in Tables : TableSound(u, tables'[u])
      /\ tables'["at_war"] = tables["at_war"] /\ tables'["opinions"] = tables["opinions"]
  BY SetWrites, NamedTables
<1> QED
  BY <1>1 DEF DiplomacyInv, WarsAgree, SpheresAgree

LEMMA SetWithKeeps ==
  ASSUME DiplomacyInv, NEW t, NEW c \in Nation, NEW r \in Nation, set_with(t, c, r)
  PROVE  DiplomacyInv'
<1>1. PICK v \in ValuesOf(t) : tables' = Set(t, c, r, v)
  BY DEF set_with
<1>2. t \in Tables \ {"at_war", "opinions"}
  <2>1. t \in Flags \cup {"alliances", "relations", "influence", "influence_priority"} \cup Dates
    BY DEF ValuesOf
  <2> QED
    BY <2>1 DEF Tables, Flags, Dates, Unordered, Numbers
<1>3. UNCHANGED <<war_enemies, sphere_owner, committed>> /\ committed \in BOOLEAN
  BY DEF set_with, DiplomacyInv
<1> QED
  BY <1>1, <1>2, <1>3, OtherTableKeeps

LEMMA SetAtWarKeeps ==
  ASSUME DiplomacyInv, NEW c \in Nation, NEW r \in Nation \ {c}, NEW at_war \in BOOLEAN,
         set_at_war_with(c, r, at_war)
  PROVE  DiplomacyInv'
<1> DEFINE wars == tables["at_war"]
           now == Writing("at_war", wars, c, r, at_war)
<1>0. /\ tables' = Set("at_war", c, r, at_war) /\ war_enemies' = Enemies(c, r, at_war)
      /\ UNCHANGED <<sphere_owner, committed>>
      /\ war_enemies \in [Nation -> SUBSET Nation] /\ sphere_owner \in [Nation -> Nation \cup {0}]
      /\ committed \in BOOLEAN
      /\ WarsAgree(wars, war_enemies, committed)
      /\ SpheresAgree(tables["opinions"], sphere_owner, committed)
      /\ TableSound("at_war", wars)
  BY NamedTables DEF set_at_war_with, DiplomacyInv
<1>1. /\ DOMAIN tables' = Tables /\ \A u \in Tables : TableSound(u, tables'[u])
      /\ tables'["at_war"] = now /\ tables'["opinions"] = tables["opinions"]
  BY <1>0, SetWrites, NamedTables
<1>2. \A a, b : Reading("at_war", now, a, b)
                  = IF <<a, b>> \in {<<c, r>>, <<r, c>>} THEN at_war ELSE Reading("at_war", wars, a, b)
  <2>1. \A a, b : SamePair("at_war", a, b, c, r) <=> <<a, b>> \in {<<c, r>>, <<r, c>>}
    BY DEF SamePair, Unordered
  <2> QED
    BY <1>0, <2>1, WritingKeeps
<1>3. \A e \in now : e.value \in BOOLEAN
  BY <1>0, WritingKeeps DEF WarsAgree
<1> HIDE DEF now
<1>4. /\ war_enemies' \in [Nation -> SUBSET Nation]
      /\ \A a, b \in Nation : b \in war_enemies'[a] <=>
           IF <<a, b>> \in {<<c, r>>, <<r, c>>} THEN at_war = TRUE ELSE b \in war_enemies[a]
  <2>1. \A a \in Nation : war_enemies'[a] =
          IF a \notin {c, r} THEN war_enemies[a]
          ELSE IF at_war THEN war_enemies[a] \cup ({c, r} \ {a}) ELSE war_enemies[a] \ {c, r}
    BY <1>0 DEF Enemies
  <2>2. \A a \in Nation : a \notin war_enemies[a]
    BY <1>0 DEF WarsAgree
  <2> QED
    BY <1>0, <2>1, <2>2 DEF Enemies
<1>5. WarsAgree(now, war_enemies', committed)
  BY <1>0, <1>2, <1>3, <1>4 DEF WarsAgree
<1> QED
  BY <1>0, <1>1, <1>4, <1>5 DEF DiplomacyInv

LEMMA SetOpinionKeeps ==
  ASSUME DiplomacyInv, NEW c \in Nation, NEW r \in Nation \ {c}, NEW opinion,
         set_opinion_of(c, r, opinion)
  PROVE  DiplomacyInv'
<1> DEFINE opinions == tables["opinions"]
           now == Writing("opinions", opinions, c, r, opinion)
<1>0. /\ tables' = Set("opinions", c, r, opinion)
      /\ sphere_owner' = [sphere_owner EXCEPT ![r] = OwnerAfter(c, r, opinion)]
      /\ UNCHANGED <<war_enemies, committed>>
      /\ war_enemies \in [Nation -> SUBSET Nation] /\ sphere_owner \in [Nation -> Nation \cup {0}]
      /\ committed \in BOOLEAN
      /\ WarsAgree(tables["at_war"], war_enemies, committed)
      /\ SpheresAgree(opinions, sphere_owner, committed)
      /\ TableSound("opinions", opinions)
  BY NamedTables DEF set_opinion_of, DiplomacyInv
<1>1. /\ DOMAIN tables' = Tables /\ \A u \in Tables : TableSound(u, tables'[u])
      /\ tables'["opinions"] = now /\ tables'["at_war"] = tables["at_war"]
  BY <1>0, SetWrites, NamedTables
<1>2. \A a, b : Reading("opinions", now, a, b)
                  = IF a = c /\ b = r THEN opinion ELSE Reading("opinions", opinions, a, b)
  <2>1. \A a, b : SamePair("opinions", a, b, c, r) <=> a = c /\ b = r
    BY DEF SamePair, Unordered
  <2> QED
    BY <1>0, <2>1, WritingKeeps
<1> HIDE DEF now
<1>3. sphere_owner' \in [Nation -> Nation \cup {0}]
  <2>1. OwnerAfter(c, r, opinion) \in Nation \cup {0}
    BY <1>0 DEF OwnerAfter
  <2> QED
    BY <1>0, <2>1
<1>4. SpheresAgree(now, sphere_owner', committed)
  <2>1. SUFFICES ASSUME ~committed, NEW a \in Nation, sphere_owner'[a] # 0
                 PROVE  Reading("opinions", now, sphere_owner'[a], a) = Sphere
    BY DEF SpheresAgree
  <2>2. CASE a # r
    <3>1. sphere_owner'[a] = sphere_owner[a]
      BY <1>0, <2>2
    <3> QED
      BY <1>0, <1>2, <2>1, <2>2, <3>1 DEF SpheresAgree
  <2>3. CASE a = r /\ opinion = Sphere
    <3>1. sphere_owner'[a] = c
      BY <1>0, <2>3 DEF OwnerAfter
    <3> QED
      BY <1>2, <2>3, <3>1
  <2>4. CASE a = r /\ opinion # Sphere
    <3>1. sphere_owner'[a] = sphere_owner[a] /\ sphere_owner[a] # c
      BY <1>0, <2>1, <2>4 DEF OwnerAfter
    <3> QED
      BY <1>0, <1>2, <2>1, <3>1 DEF SpheresAgree
  <2> QED
    BY <2>2, <2>3, <2>4
<1> QED
  BY <1>0, <1>1, <1>3, <1>4 DEF DiplomacyInv

LEMMA DeclaringWar ==
  /\ Setting["declare_war"][2] = TRUE
  /\ \A type \in DOMAIN Setting : type # "declare_war" => Setting[type][1] # "at_war"
<1>1. Setting["declare_war"] = <<"at_war", TRUE>>
  BY DEF Setting
<1>2. ASSUME NEW type \in DOMAIN Setting, type # "declare_war"
      PROVE  Setting[type][1] # "at_war"
  BY <1>2 DEF Setting
<1> QED
  BY <1>1, <1>2

(* An action writes a table and nothing beside it; what it declares is war.  *)
LEMMA CommitSettingKeeps ==
  ASSUME DiplomacyInv, NEW type \in DOMAIN Setting, NEW c \in Nation, NEW r \in Nation \ {c},
         CommitSetting(type, c, r)
  PROVE  DiplomacyInv'
<1> DEFINE t == Setting[type][1]
           v == Setting[type][2]
<1>0. /\ tables' = Set(t, c, r, v) /\ committed' = TRUE /\ UNCHANGED <<war_enemies, sphere_owner>>
  BY DEF CommitSetting
<1>1. t \in Tables /\ (t = "at_war" => v = TRUE)
  <2>1. t \in {"alliances", "military_access", "war_subsidies", "at_war", "command_units", "discredits",
               "embassy_bans", "opinions", "vision"}
    BY DEF Setting
  <2>2. t = "at_war" => v = TRUE
    <3>1. CASE type = "declare_war"
      BY <3>1, DeclaringWar
    <3>2. CASE type # "declare_war"
      BY <3>2, DeclaringWar
    <3> QED
      BY <3>1, <3>2
  <2> QED
    BY <2>1, <2>2 DEF Tables, Unordered, Flags, Numbers, Dates
<1> HIDE DEF t, v
<1>2. /\ DOMAIN tables' = Tables /\ \A u \in Tables : TableSound(u, tables'[u])
      /\ tables'[t] = Writing(t, tables[t], c, r, v)
      /\ \A u \in Tables : u # t => tables'[u] = tables[u]
  BY <1>0, <1>1, SetWrites
<1>3. WarsAgree(tables'["at_war"], war_enemies, TRUE)
  <2>1. WarsAgree(tables["at_war"], war_enemies, committed) /\ TableSound("at_war", tables["at_war"])
    BY NamedTables DEF DiplomacyInv
  <2>2. CASE t = "at_war"
    <3> DEFINE wars == tables["at_war"]
               now == Writing("at_war", wars, c, r, v)
    <3>1. tables'["at_war"] = now
      BY <1>1, <1>2, <2>2
    <3>2. TableSound("at_war", wars) /\ WarsAgree(wars, war_enemies, committed)
      BY <2>1
    <3> HIDE DEF wars
    <3>3. /\ \A e \in now : e \in wars \/ e.value = v
          /\ \A a, b : Reading("at_war", now, a, b) =
               IF SamePair("at_war", a, b, c, r) THEN v ELSE Reading("at_war", wars, a, b)
      BY <3>2, WritingKeeps
    <3> HIDE DEF now
    <3>4. \A e \in now : e.value \in BOOLEAN
      BY <1>1, <2>2, <3>2, <3>3 DEF WarsAgree
    <3>5. \A a, b : Reading("at_war", now, a, b) \in {TRUE, Reading("at_war", wars, a, b)}
      BY <1>1, <2>2, <3>3
    <3>6. WarsAgree(now, war_enemies, TRUE)
      BY <3>2, <3>4, <3>5 DEF WarsAgree
    <3> QED
      BY <3>1, <3>6
  <2>3. CASE t # "at_war"
    BY <1>2, <2>1, <2>3, NamedTables DEF WarsAgree
  <2> QED
    BY <2>2, <2>3
<1> QED
  BY <1>0, <1>2, <1>3 DEF DiplomacyInv, SpheresAgree

LEMMA CommitMovingKeeps ==
  ASSUME DiplomacyInv, NEW type \in Moving, NEW c \in Nation, NEW r \in Nation \ {c}, NEW other \in Nation \ {r},
         CommitMoving(type, c, r, other)
  PROVE  DiplomacyInv'
<1> DEFINE whose == IF type \in {"decrease_opinion", "remove_from_foreign_sphere"} THEN other ELSE c
           opinion == Get("opinions", whose, r)
           shifted == IF type = "increase_opinion" THEN Warmer(opinion) ELSE Cooler(opinion)
           opinions == Writing("opinions", tables["opinions"], whose, r, shifted)
           relations == Writing("relations", tables["relations"], c, r, Get("relations", c, r) - 10)
<1>0. /\ tables' = [tables EXCEPT
           !["opinions"] = Put("opinions", whose, r, shifted),
           !["relations"] = IF type \in {"remove_from_foreign_sphere", "remove_from_own_sphere"}
                            THEN Put("relations", c, r, Get("relations", c, r) - 10) ELSE @]
      /\ committed' = TRUE /\ UNCHANGED <<war_enemies, sphere_owner>>
  BY DEF CommitMoving
<1>1. /\ Put("opinions", whose, r, shifted) = opinions
      /\ Put("relations", c, r, Get("relations", c, r) - 10) = relations
  BY PutIsWriting
<1>2. /\ DOMAIN tables = Tables /\ \A u \in Tables : TableSound(u, tables[u])
      /\ WarsAgree(tables["at_war"], war_enemies, committed)
  BY DEF DiplomacyInv
<1>3. whose \in Nation
  OBVIOUS
<1> HIDE DEF whose, shifted
<1>4. TableSound("opinions", opinions) /\ TableSound("relations", relations)
  BY <1>2, <1>3, NamedTables, WritingKeeps
<1> HIDE DEF opinions, relations
<1>5. /\ DOMAIN tables' = Tables /\ tables'["opinions"] = opinions
      /\ tables'["relations"] \in {tables["relations"], relations}
      /\ \A u \in Tables \ {"opinions", "relations"} : tables'[u] = tables[u]
  BY <1>0, <1>1, <1>2, NamedTables
<1>6. \A u \in Tables : TableSound(u, tables'[u])
  BY <1>2, <1>4, <1>5
<1>7. WarsAgree(tables'["at_war"], war_enemies, TRUE)
  BY <1>2, <1>5, NamedTables DEF WarsAgree
<1> QED
  BY <1>0, <1>5, <1>6, <1>7 DEF DiplomacyInv, SpheresAgree

(* What DiplomacyAgrees says of the tables follows. *)
LEMMA OnePerPair ==
  ASSUME NEW t \in Unordered, NEW entries, TableSound(t, entries), NEW c \in Nation, NEW r \in Nation
  PROVE  Cardinality({e \in entries : {e.first, e.second} = {c, r}}) <= 1
<1> DEFINE S == {e \in entries : {e.first, e.second} = {c, r}}
<1>1. ASSUME NEW e \in S, NEW f \in S PROVE e = f
  <2>1. Keyed(t, e, f.first, f.second)
    BY DEF Keyed
  <2> QED
    BY <2>1 DEF TableSound
<1>2. S = {} \/ \E e : S = {e}
  BY <1>1, SMTT(40)
<1> HIDE DEF S
<1>3. Cardinality(S) = 0 \/ Cardinality(S) = 1
  BY <1>2, FS_EmptySet, FS_Singleton
<1> QED
  BY <1>3 DEF S

LEMMA InvAgrees == DiplomacyInv => DiplomacyAgrees
<1> SUFFICES ASSUME DiplomacyInv PROVE DiplomacyAgrees
  OBVIOUS
<1>1. \A t \in Unordered : t \in Tables
  BY DEF Tables
<1>2. ASSUME NEW t \in Unordered, NEW c \in Nation, NEW r \in Nation
      PROVE  /\ Cardinality({e \in tables[t] : {e.first, e.second} = {c, r}}) <= 1
             /\ Get(t, c, r) = Get(t, r, c)
  <2>1. TableSound(t, tables[t])
    BY <1>1 DEF DiplomacyInv
  <2>2. Cardinality({e \in tables[t] : {e.first, e.second} = {c, r}}) <= 1
    BY <2>1, OnePerPair
  <2>3. Get(t, c, r) = Reading(t, tables[t], c, r) /\ Get(t, r, c) = Reading(t, tables[t], r, c)
    BY GetIsReading
  <2>4. Reading(t, tables[t], c, r) = Reading(t, tables[t], r, c)
    BY ReadingIgnoresOrder
  <2> QED
    BY <2>2, <2>3, <2>4
<1>3. ASSUME NEW c \in Nation, NEW r \in Nation
      PROVE  /\ is_at_war_with(c, r) => is_at_war_with(r, c) /\ Get("at_war", c, r) = TRUE
             /\ ~committed /\ Get("at_war", c, r) = TRUE => is_at_war_with(c, r)
             /\ Get("at_war", c, r) \in BOOLEAN
  <2>1. WarsAgree(tables["at_war"], war_enemies, committed)
    BY DEF DiplomacyInv
  <2>2. Get("at_war", c, r) = Reading("at_war", tables["at_war"], c, r)
    BY GetIsReading
  <2>3. Reading("at_war", tables["at_war"], c, r) \in BOOLEAN
    <3>1. ASSUME NEW e \in Found("at_war", tables["at_war"], c, r) PROVE e.value \in BOOLEAN
      BY <2>1 DEF WarsAgree, Found
    <3> QED
      BY <3>1 DEF Reading, Default
  <2> QED
    BY <2>1, <2>2, <2>3 DEF WarsAgree, is_at_war_with
<1>4. ASSUME NEW c \in Nation, NEW r \in Nation
      PROVE  /\ is_at_war_with(c, r) => is_at_war_with(r, c) /\ Get("at_war", c, r)
             /\ ~committed /\ Get("at_war", c, r) => is_at_war_with(c, r)
  BY <1>3
<1>5. ASSUME NEW c \in Nation, NEW r \in Nation, can_army_units_enter(c, r)
      PROVE  can_navy_units_enter(c, r) \/ (Get("at_war", r, c) /\ can_army_units_enter(r, c))
  BY <1>4, <1>5 DEF can_army_units_enter, can_navy_units_enter
<1>6. ASSUME ~committed, NEW c \in Nation, sphere_owner[c] # 0
      PROVE  Get("opinions", sphere_owner[c], c) = Sphere
  BY <1>6, GetIsReading DEF DiplomacyInv, SpheresAgree
<1> QED
  BY <1>2, <1>4, <1>5, <1>6 DEF DiplomacyAgrees

(* The tables of the CountryRelationManager and what CountryInstance keeps   *)
(* beside them agree, for any countries and however the setters and the      *)
(* actions follow each other.                                               *)
THEOREM DiplomacyBooks == DiplomacySpec => []DiplomacyAgrees
<1>1. DiplomacyInv /\ [DiplomacyNext]_diplomacyVars => DiplomacyInv'
  <2>1. SUFFICES ASSUME DiplomacyInv, [DiplomacyNext]_diplomacyVars PROVE DiplomacyInv'
    OBVIOUS
  <2>2. ASSUME NEW c \in Nation, NEW r \in Nation \ {c},
               \/ \E t \in topic : set_with(t, c, r)
               \/ "at_war" \in topic /\ \E at_war \in BOOLEAN : set_at_war_with(c, r, at_war)
               \/ "opinions" \in topic /\ \E opinion \in Hostile .. Sphere : set_opinion_of(c, r, opinion)
               \/ "opinions" \in topic /\ (increase_opinion_of(c, r) \/ decrease_opinion_of(c, r))
               \/ \E type \in DOMAIN Setting : CommitSetting(type, c, r)
               \/ \E type \in Moving, other \in Nation \ {r} : CommitMoving(type, c, r, other)
        PROVE  DiplomacyInv'
    BY <2>1, <2>2, SetWithKeeps, SetAtWarKeeps, SetOpinionKeeps, CommitSettingKeeps, CommitMovingKeeps
       DEF increase_opinion_of, decrease_opinion_of
  <2>3. CASE UNCHANGED diplomacyVars
    BY <2>1, <2>3 DEF diplomacyVars, DiplomacyInv, WarsAgree, SpheresAgree
  <2> QED
    BY <2>1, <2>2, <2>3 DEF DiplomacyNext
<1> QED
  BY <1>1, DiplomacyInitInv, InvAgrees, PTL DEF DiplomacySpec

-----------------------------------------------------------------------------
(* Unlocks.                                                                *)

(* Sums, as the community modules fold them. *)
AnyOf(T) == CHOOSE x \in T : TRUE
AddTerm(p, s, n) == p[s] + n
IsTotal(p, T, n) ==
  /\ n \in Int
  /\ (\A s \in T : p[s] >= 0) => n >= 0
  /\ (\A s \in T : p[s] = 0) => n = 0
Sums == INSTANCE Folding WITH Step <- AddTerm, Pick <- AnyOf, Holds <- IsTotal

(* The sum of p[1], every term of which is the sum of those of p[2] and p[3]. *)
AddSum(p, s, n) == p[1][s] + n
SumsAdd(p, T, n) == n = Sums!Folded(p[2], 0, T) + Sums!Folded(p[3], 0, T)
AddedSums == INSTANCE Folding WITH Step <- AddSum, Pick <- AnyOf, Holds <- SumsAdd

SumOf(l, S) == MapThenSumSet(LAMBDA s : l[s], S)

(* A fold over a finite set comes to an end. *)
LEMMA FinitePicks ==
  ASSUME NEW S, IsFiniteSet(S)
  PROVE  Sums!Picks(S) /\ AddedSums!Picks(S)
<1> DEFINE size == [T \in SUBSET S |-> Cardinality(T)]
<1>1. \A T \in SUBSET S : IsFiniteSet(T) /\ Cardinality(T) \in Nat
  BY FS_Subset, FS_CardinalityType
<1>2. size \in [SUBSET S -> Nat] /\ \A T \in SUBSET S : size[T] = Cardinality(T)
  BY <1>1
<1> HIDE DEF size
<1>3. ASSUME NEW T \in SUBSET S, NEW U \in SUBSET T PROVE size[U] <= size[T]
  <2>1. U \in SUBSET S /\ IsFiniteSet(T)
    BY <1>1
  <2>2. Cardinality(U) <= Cardinality(T)
    BY <2>1, FS_Subset
  <2> QED
    BY <1>2, <2>1, <2>2
<1>4. ASSUME NEW T \in SUBSET S, T # {} PROVE AnyOf(T) \in T /\ size[T \ {AnyOf(T)}] < size[T]
  <2>1. AnyOf(T) \in T
    BY <1>4 DEF AnyOf
  <2>2. T \ {AnyOf(T)} \in SUBSET S /\ IsFiniteSet(T) /\ Cardinality(T) \in Nat
    BY <1>1
  <2>3. Cardinality(T \ {AnyOf(T)}) = Cardinality(T) - 1
    BY <2>1, <2>2, FS_RemoveElement
  <2> QED
    BY <1>2, <2>1, <2>2, <2>3
<1>5. Sums!Measures(size, S)
  BY <1>2, <1>3, <1>4 DEF Sums!Measures
<1>6. AddedSums!Measures(size, S)
  BY <1>2, <1>3, <1>4 DEF AddedSums!Measures
<1> QED
  BY <1>5, <1>6 DEF Sums!Picks, AddedSums!Picks

LEMMA SumOfFold ==
  ASSUME NEW h, NEW f, NEW g, NEW S
  PROVE  SumOf(h, S) = Sums!Folded(h, 0, S) /\ SumOf(h, S) = AddedSums!Folded(<<h, f, g>>, 0, S)
<1>1. SumOf(h, S) = Sums!Folded(h, 0, S)
  BY DEF SumOf, MapThenSumSet, MapThenFoldSet, Sums!Folded, Sums!Iterated, Sums!FoldRule, AddTerm, AnyOf
<1>2. \A y, n : AddSum(<<h, f, g>>, y, n) = h[y] + n
  BY DEF AddSum
<1>3. SumOf(h, S) = AddedSums!Folded(<<h, f, g>>, 0, S)
  BY <1>2 DEF SumOf, MapThenSumSet, MapThenFoldSet, AddedSums!Folded, AddedSums!Iterated,
              AddedSums!FoldRule, AddSum, AnyOf
<1> QED
  BY <1>1, <1>3

LEMMA SumRule ==
  ASSUME NEW l, NEW S, IsFiniteSet(S)
  PROVE  SumOf(l, S) = IF S = {} THEN 0 ELSE l[AnyOf(S)] + SumOf(l, S \ {AnyOf(S)})
<1>1. Sums!Folded(l, 0, S) = IF S = {} THEN 0 ELSE AddTerm(l, AnyOf(S), Sums!Folded(l, 0, S \ {AnyOf(S)}))
  BY FinitePicks, Sums!FoldRecursion
<1> QED
  BY <1>1, SumOfFold DEF AddTerm

LEMMA SumFacts ==
  ASSUME NEW D, NEW l \in [D -> Int], NEW S \in SUBSET D, IsFiniteSet(S)
  PROVE  /\ SumOf(l, S) \in Int
         /\ (\A s \in S : l[s] >= 0) => SumOf(l, S) >= 0
         /\ (\A s \in S : l[s] = 0) => SumOf(l, S) = 0
<1>1. Sums!Picks(S)
  BY FinitePicks
<1>2. IsTotal(l, {}, 0)
  BY DEF IsTotal
<1>3. ASSUME NEW T \in SUBSET S, NEW v, T # {}, IsTotal(l, T \ {AnyOf(T)}, v)
      PROVE  IsTotal(l, T, AddTerm(l, AnyOf(T), v))
  <2>1. AnyOf(T) \in T /\ AnyOf(T) \in D
    BY <1>3 DEF AnyOf
  <2>2. l[AnyOf(T)] \in Int /\ v \in Int
    BY <1>3, <2>1 DEF IsTotal
  <2>3. ASSUME \A s \in T : l[s] = 0 PROVE l[AnyOf(T)] = 0 /\ v = 0
    BY <1>3, <2>1, <2>3 DEF IsTotal
  <2>4. ASSUME \A s \in T : l[s] >= 0 PROVE l[AnyOf(T)] >= 0 /\ v >= 0
    BY <1>3, <2>1, <2>4 DEF IsTotal
  <2> QED
    BY <2>2, <2>3, <2>4 DEF IsTotal, AddTerm
<1>4. IsTotal(l, S, Sums!Folded(l, 0, S))
  BY <1>1, <1>2, <1>3, Sums!FoldInvariant
<1> QED
  BY <1>4, SumOfFold DEF IsTotal

(* Sums are added term by term. *)
LEMMA SumAdds ==
  ASSUME NEW D, NEW f \in [D -> Int], NEW g \in [D -> Int], NEW h,
         NEW S \in SUBSET D, IsFiniteSet(S), \A s \in S : h[s] = f[s] + g[s]
  PROVE  SumOf(h, S) = SumOf(f, S) + SumOf(g, S)
<1> DEFINE p == <<h, f, g>>
<1>1. p[1] = h /\ p[2] = f /\ p[3] = g
  OBVIOUS
<1> HIDE DEF p
<1>2. AddedSums!Picks(S)
  BY FinitePicks
<1>3. SumOf(f, {}) = 0 /\ SumOf(g, {}) = 0
  BY FS_EmptySet, SumRule
<1>4. SumsAdd(p, {}, 0)
  <2>1. Sums!Folded(p[2], 0, {}) = 0 /\ Sums!Folded(p[3], 0, {}) = 0
    BY <1>1, <1>3, SumOfFold
  <2> QED
    BY <2>1 DEF SumsAdd
<1>5. ASSUME NEW T \in SUBSET S, NEW v, T # {}, SumsAdd(p, T \ {AnyOf(T)}, v)
      PROVE  SumsAdd(p, T, AddSum(p, AnyOf(T), v))
  <2> DEFINE t == AnyOf(T)
             U == T \ {t}
             a == SumOf(f, U)
             b == SumOf(g, U)
  <2>1. t \in T /\ t \in D /\ U \in SUBSET D /\ t \in S
    BY <1>5 DEF AnyOf
  <2>2. IsFiniteSet(T) /\ IsFiniteSet(U)
    BY FS_Subset
  <2>3. SumOf(f, T) = f[t] + a /\ SumOf(g, T) = g[t] + b
    BY <1>5, <2>2, SumRule
  <2>4. a \in Int /\ b \in Int /\ f[t] \in Int /\ g[t] \in Int
    BY <2>1, <2>2, SumFacts
  <2>5. v = a + b
    BY <1>1, <1>5, SumOfFold DEF SumsAdd
  <2>6. h[t] = f[t] + g[t]
    BY <2>1
  <2> HIDE DEF a, b, t
  <2>7. h[t] + v = (f[t] + a) + (g[t] + b)
    BY <2>4, <2>5, <2>6
  <2>8. AddSum(p, t, v) = SumOf(f, T) + SumOf(g, T)
    BY <1>1, <2>3, <2>7 DEF AddSum
  <2> QED
    BY <1>1, <2>8, SumOfFold DEF SumsAdd, t
<1>6. SumsAdd(p, S, AddedSums!Folded(p, 0, S))
  BY <1>2, <1>4, <1>5, AddedSums!FoldInvariant
<1>7. SumOf(h, S) = AddedSums!Folded(p, 0, S)
  BY SumOfFold DEF p
<1> QED
  BY <1>1, <1>6, <1>7, SumOfFold DEF SumsAdd

(* Functions that are the same on a set have the same sum. *)
LEMMA SameSum ==
  ASSUME NEW D, NEW f \in [D -> Int], NEW h, NEW S \in SUBSET D, IsFiniteSet(S), \A s \in S : h[s] = f[s]
  PROVE  SumOf(h, S) = SumOf(f, S)
<1> DEFINE z == [x \in D |-> 0]
<1>1. z \in [D -> Int] /\ \A s \in S : z[s] = 0 /\ h[s] = f[s] + z[s]
  OBVIOUS
<1> HIDE DEF z
<1>2. SumOf(z, S) = 0 /\ SumOf(f, S) \in Int
  BY <1>1, SumFacts
<1>3. SumOf(h, S) = SumOf(f, S) + SumOf(z, S)
  BY <1>1, SumAdds
<1> QED
  BY <1>2, <1>3

(* It does not matter which term is added last. *)
LastTerm(l, T) == \A x \in T : SumOf(l, T) = l[x] + SumOf(l, T \ {x})

LEMMA SumParts ==
  ASSUME NEW D, NEW l \in [D -> Int], NEW S \in SUBSET D, IsFiniteSet(S)
  PROVE  LastTerm(l, S)
<1> DEFINE Good == {n \in Nat : \A T \in SUBSET S : Cardinality(T) <= n => LastTerm(l, T)}
<1>1. ASSUME NEW T \in SUBSET S PROVE IsFiniteSet(T) /\ Cardinality(T) \in Nat
  BY FS_Subset, FS_CardinalityType
<1>2. 0 \in Good
  <2>1. ASSUME NEW T \in SUBSET S, Cardinality(T) <= 0 PROVE T = {}
    BY <1>1, <2>1, FS_EmptySet
  <2> QED
    BY <2>1 DEF LastTerm
<1>3. ASSUME NEW n \in Nat, n \in Good PROVE n + 1 \in Good
  <2> SUFFICES ASSUME NEW T \in SUBSET S, Cardinality(T) <= n + 1, NEW x \in T
               PROVE  SumOf(l, T) = l[x] + SumOf(l, T \ {x})
    BY DEF LastTerm
  <2> DEFINE t == AnyOf(T)
             U == T \ {t}
             V == T \ {x}
             W == (T \ {t}) \ {x}
  <2>1. t \in T /\ IsFiniteSet(T) /\ T # {}
    BY <1>1 DEF AnyOf
  <2>2. SumOf(l, T) = l[t] + SumOf(l, U)
    BY <2>1, SumRule
  <2>3. CASE t = x
    BY <2>2, <2>3
  <2>4. CASE t # x
    <3>1. Cardinality(U) <= n /\ Cardinality(V) <= n
      <4>1. Cardinality(U) = Cardinality(T) - 1 /\ Cardinality(V) = Cardinality(T) - 1
        BY <2>1, FS_RemoveElement
      <4> QED
        BY <1>1, <4>1
    <3>2. LastTerm(l, U) /\ LastTerm(l, V)
      BY <1>3, <3>1
    <3>3. SumOf(l, U) = l[x] + SumOf(l, W)
      BY <2>4, <3>2 DEF LastTerm
    <3>4. SumOf(l, V) = l[t] + SumOf(l, W)
      <4>1. t \in V /\ V \ {t} = W
        BY <2>1, <2>4
      <4> QED
        BY <3>2, <4>1 DEF LastTerm
    <3>5. SumOf(l, W) \in Int /\ l[t] \in Int /\ l[x] \in Int
      <4>1. W \in SUBSET D /\ IsFiniteSet(W) /\ t \in D /\ x \in D
        BY <1>1, <2>1
      <4> HIDE DEF W, t
      <4> QED
        BY <4>1, SumFacts
    <3> HIDE DEF U, V, W, t
    <3> QED
      BY <2>2, <3>3, <3>4, <3>5 DEF V
  <2> QED
    BY <2>3, <2>4
<1> HIDE DEF Good
<1>4. Nat \subseteq Good
  BY <1>2, <1>3, Sums!EveryNumber
<1>5. Cardinality(S) \in Good /\ Cardinality(S) <= Cardinality(S)
  BY <1>1, <1>4
<1> QED
  BY <1>5 DEF Good

DiffersAt(D, l, m, x) == m \in [D -> Int] /\ \A y \in D : y # x => m[y] = l[y]

(* One term changes a sum by as much as it changes. *)
LEMMA SumChanges ==
  ASSUME NEW D, NEW l \in [D -> Int], NEW x \in D, NEW m, DiffersAt(D, l, m, x),
         NEW S \in SUBSET D, IsFiniteSet(S)
  PROVE  SumOf(m, S) = SumOf(l, S) + (IF x \in S THEN m[x] - l[x] ELSE 0)
<1> DEFINE U == S \ {x}
<1>1. m \in [D -> Int] /\ \A y \in D : y # x => m[y] = l[y]
  BY DEF DiffersAt
<1>2. U \in SUBSET D /\ IsFiniteSet(U) /\ x \notin U
  BY FS_Subset
<1>3. SumOf(m, U) = SumOf(l, U) /\ SumOf(l, U) \in Int
  <2>1. \A y \in U : m[y] = l[y]
    BY <1>1
  <2> HIDE DEF U
  <2> QED
    BY <1>2, <2>1, SameSum, SumFacts
<1>4. LastTerm(m, S) /\ LastTerm(l, S)
  BY <1>1, SumParts
<1>5. CASE x \in S
  <2>1. SumOf(m, S) = m[x] + SumOf(m, U) /\ SumOf(l, S) = l[x] + SumOf(l, U)
    BY <1>4, <1>5 DEF LastTerm
  <2>2. m[x] \in Int /\ l[x] \in Int
    BY <1>1
  <2> HIDE DEF U
  <2> QED
    BY <1>3, <1>5, <2>1, <2>2
<1>6. CASE x \notin S
  <2>1. U = S
    BY <1>6
  <2> HIDE DEF U
  <2> QED
    BY <1>3, <1>6, <2>1
<1> QED
  BY <1>5, <1>6

(* What the sums of levels need. *)
LEMMA SumsAreCounts ==
  ASSUME NEW D, NEW l \in [D -> Nat], NEW S \in SUBSET D, IsFiniteSet(S)
  PROVE  SumOf(l, S) \in Nat /\ ((\A s \in S : l[s] = 0) => SumOf(l, S) = 0)
<1>1. l \in [D -> Int] /\ \A s \in S : l[s] >= 0
  OBVIOUS
<1> QED
  BY <1>1, SumFacts

(* No level is more than a sum it is part of. *)
LEMMA SumBounds ==
  ASSUME NEW D, NEW l \in [D -> Nat], NEW S \in SUBSET D, IsFiniteSet(S), NEW x \in S
  PROVE  l[x] <= SumOf(l, S)
<1> DEFINE U == S \ {x}
<1>1. l \in [D -> Int] /\ U \in SUBSET D /\ IsFiniteSet(U) /\ l[x] \in Nat
  BY FS_Subset
<1>2. SumOf(l, S) = l[x] + SumOf(l, U)
  BY <1>1, SumParts DEF LastTerm
<1> HIDE DEF U
<1>3. SumOf(l, U) \in Nat
  BY <1>1, SumsAreCounts
<1> QED
  BY <1>1, <1>2, <1>3

-----------------------------------------------------------------------------
(* Greatest and least numbers. *)

LEMMA GreatestOf ==
  ASSUME NEW n \in Nat, NEW T \in SUBSET (0 .. n), T # {}
  PROVE  Max(T) \in T /\ \A x \in T : Max(T) >= x
<1> DEFINE S == {m \in Nat : n - m \in T}
<1>1. PICK x \in T : TRUE
  OBVIOUS
<1>2. n - x \in Nat /\ n - (n - x) = x
  OBVIOUS
<1>3. S \in SUBSET Nat /\ S # {}
  BY <1>1, <1>2
<1>4. PICK least \in S : \A m \in S : least <= m
  <2> HIDE DEF S
  <2> QED
    BY <1>3, Sums!LeastOf
<1>5. n - least \in T /\ least \in Nat
  BY <1>4
<1>6. \A y \in T : n - least >= y
  <2> TAKE y \in T
  <2>1. n - y \in Nat /\ n - (n - y) = y
    OBVIOUS
  <2>2. n - y \in S
    BY <2>1
  <2>3. least <= n - y
    BY <1>4, <2>2
  <2> QED
    BY <1>5, <2>1, <2>3
<1> HIDE DEF S
<1> QED
  BY <1>5, <1>6 DEF Max

LEMMA LeastNumber ==
  ASSUME NEW S \in SUBSET Nat, S # {}
  PROVE  Min(S) \in S /\ \A x \in S : Min(S) <= x
<1>1. \E x \in S : \A y \in S : x <= y
  BY Sums!LeastOf
<1> QED
  BY <1>1 DEF Min

(* The most permissive of two sets of regiment types is that of both. *)
LEMMA MostPermissiveOfBoth ==
  ASSUME NEW R \in SUBSET Regiment, NEW T \in SUBSET Regiment
  PROVE  /\ MostPermissive(R) \in Nat
         /\ Min({MostPermissive(R), MostPermissive(T)}) = MostPermissive(R \cup T)
<1> DEFINE of(Q) == {NO_CULTURES} \cup {AllowedCultures[r] : r \in Q}
<1>1. ASSUME NEW Q \in SUBSET Regiment
      PROVE  /\ MostPermissive(Q) \in Nat /\ MostPermissive(Q) \in of(Q)
             /\ \A x \in of(Q) : x \in Nat /\ MostPermissive(Q) <= x
  <2>1. of(Q) \in SUBSET Nat /\ of(Q) # {}
    BY UnlocksAssumption DEF NO_CULTURES
  <2>2. MostPermissive(Q) = Min(of(Q))
    BY DEF MostPermissive
  <2> HIDE DEF of
  <2> QED
    BY <2>1, <2>2, LeastNumber
<1> DEFINE a == MostPermissive(R)
           b == MostPermissive(T)
           c == MostPermissive(R \cup T)
<1>2. of(R \cup T) = of(R) \cup of(T)
  OBVIOUS
<1> HIDE DEF of
<1>3. a \in Nat /\ b \in Nat /\ c \in Nat
  BY <1>1
<1>4. c <= a /\ c <= b
  BY <1>1, <1>2
<1>5. a <= c \/ b <= c
  BY <1>1, <1>2
<1>6. Min({a, b}) \in {a, b} /\ Min({a, b}) <= a /\ Min({a, b}) <= b
  <2>1. {a, b} \in SUBSET Nat /\ {a, b} # {}
    BY <1>3
  <2> HIDE DEF a, b
  <2> QED
    BY <2>1, LeastNumber
<1> HIDE DEF a, b, c
<1>7. Min({a, b}) = c
  BY <1>3, <1>4, <1>5, <1>6
<1> QED
  BY <1>3, <1>7 DEF a, b, c

(* A vector without its tail of zeros reads as the vector. *)
ReadAt(seq, k) == IF k <= Len(seq) THEN seq[k] ELSE 0

LEMMA TrimmedReads ==
  ASSUME NEW seq \in Seq(Nat)
  PROVE  /\ Trimmed(seq) \in Seq(Nat)
         /\ Trimmed(seq) # <<>> => Last(Trimmed(seq)) > 0
         /\ \A k \in Nat \ {0} : ReadAt(Trimmed(seq), k) = ReadAt(seq, k)
<1> DEFINE S == {0} \cup {k \in DOMAIN seq : seq[k] > 0}
           m == Max(S)
           t == Trimmed(seq)
<1>1. Len(seq) \in Nat /\ DOMAIN seq = 1 .. Len(seq) /\ \A k \in 1 .. Len(seq) : seq[k] \in Nat
  OBVIOUS
<1>2. m \in S /\ \A x \in S : m >= x
  <2>1. S \in SUBSET (0 .. Len(seq)) /\ S # {}
    BY <1>1
  <2> HIDE DEF S
  <2> QED
    BY <1>1, <2>1, GreatestOf
<1>3. m \in 0 .. Len(seq) /\ (m # 0 => seq[m] > 0) /\ \A k \in 1 .. Len(seq) : seq[k] > 0 => k <= m
  BY <1>1, <1>2
<1>4. t = SubSeq(seq, 1, m)
  BY DEF Trimmed
<1> HIDE DEF m, S, t
<1>5. t \in Seq(Nat) /\ Len(t) = m /\ \A k \in 1 .. m : t[k] = seq[k]
  <2>1. \A k \in 1 .. m : seq[k] \in Nat
    BY <1>1, <1>3
  <2> QED
    BY <1>1, <1>3, <1>4, <2>1, SubSeqProperties
<1>6. t # <<>> => Last(t) > 0
  <2> HAVE t # <<>>
  <2>1. m # 0 /\ m \in 1 .. m
    BY <1>3, <1>5
  <2> QED
    BY <1>3, <1>5, <2>1 DEF Last
<1>7. \A k \in Nat \ {0} : ReadAt(t, k) = ReadAt(seq, k)
  BY <1>1, <1>3, <1>5 DEF ReadAt
<1> QED
  BY <1>5, <1>6, <1>7 DEF t
-----------------------------------------------------------------------------
(* The levels of a country.                                                *)

Source == Technology \cup Invention
Activating(f) == {s \in DOMAIN Activates : f \in Activates[s]}
OfVariant(v) == {t \in Technology : UnitVariant[t] = v}

(* Reasons and VariantReasons, of any levels. *)
ReasonsIn(l, f) == SumOf(l, Activating(f)) + (IF f \in StartsUnlocked THEN 1 ELSE 0)

LevelsAgree(l, lev) == lev \in [Feature -> Nat] /\ \A f \in Feature : lev[f] = ReasonsIn(l, f)
VariantsAgree(l, vs) ==
  /\ vs \in Seq(Nat) /\ (vs # <<>> => Last(vs) > 0)
  /\ \A v \in Nat \ {0} : ReadAt(vs, v) = SumOf(l, OfVariant(v))
Invented(l) == {i \in Invention : l[i] > 0}

UnlocksInv ==
  /\ source_level \in [Source -> Nat]
  /\ current_research \in Technology \cup {NoTechnology}
  /\ LevelsAgree(source_level, level)
  /\ VariantsAgree(source_level, variants)
  /\ inventions_count = Cardinality(Invented(source_level))
  /\ allowed = MostPermissive(Unlocked(level) \cap Regiment)
  /\ {OutputGood[b] : b \in Unlocked(level) \cap Building} \subseteq enabled
  /\ rejected = FALSE

LEMMA SourceFacts ==
  /\ DOMAIN Activates = Source /\ IsFiniteSet(Source)
  /\ \A f : Activating(f) \in SUBSET Source /\ IsFiniteSet(Activating(f))
  /\ \A v : OfVariant(v) \in SUBSET Source /\ IsFiniteSet(OfVariant(v))
  /\ \A s \in Source : Activates[s] \in SUBSET Feature
  /\ \A l : Invented(l) \in SUBSET Source /\ IsFiniteSet(Invented(l))
<1>1. /\ DOMAIN Activates = Source /\ IsFiniteSet(Source)
      /\ \A s \in Source : Activates[s] \in SUBSET Feature
  BY UnlocksAssumption, FS_Union DEF Source
<1>2. /\ \A f : Activating(f) \in SUBSET Source
      /\ \A v : OfVariant(v) \in SUBSET Source
      /\ \A l : Invented(l) \in SUBSET Source
  BY <1>1 DEF Activating, OfVariant, Invented, Source
<1> QED
  BY <1>1, <1>2, FS_Subset

(* modify_*_unlock: nothing is refused, and every level is still the sum. *)
LEMMA LevelsFollow ==
  ASSUME NEW l \in [Source -> Nat], LevelsAgree(l, level), NEW source \in Source, NEW change \in Int,
         l[source] + change \in Nat
  PROVE  /\ RefusedFeatures(source, change) = {}
         /\ LevelsAgree([l EXCEPT ![source] = @ + change], LevelsAfter(source, change))
<1> DEFINE m == [l EXCEPT ![source] = @ + change]
           n == l[source] + change
<1>1. ASSUME NEW f \in Feature
      PROVE  /\ level[f] \in Nat /\ level[f] = ReasonsIn(l, f)
             /\ ReasonsIn(m, f) = ReasonsIn(l, f) + (IF f \in Activates[source] THEN change ELSE 0)
             /\ f \in Activates[source] => l[source] <= level[f]
  <2> DEFINE S == Activating(f)
             one == IF f \in StartsUnlocked THEN 1 ELSE 0
  <2>1. S \in SUBSET Source /\ IsFiniteSet(S)
    BY SourceFacts
  <2>2. source \in S <=> f \in Activates[source]
    BY SourceFacts DEF Activating
  <2>3. SumOf(m, S) = SumOf(l, S) + (IF source \in S THEN n - l[source] ELSE 0)
    <3>1. DiffersAt(Source, l, m, source) /\ m[source] = n /\ l \in [Source -> Int]
      BY DEF DiffersAt
    <3> HIDE DEF m, S, n
    <3>2. SumOf(m, S) = SumOf(l, S) + (IF source \in S THEN m[source] - l[source] ELSE 0)
      BY <2>1, <3>1, SumChanges
    <3> QED
      BY <3>1, <3>2
  <2>4. SumOf(l, S) \in Nat /\ (source \in S => l[source] <= SumOf(l, S))
    <3> HIDE DEF S
    <3> QED
      BY <2>1, SumsAreCounts, SumBounds
  <2>5. level[f] \in Nat /\ level[f] = ReasonsIn(l, f)
    BY DEF LevelsAgree
  <2>6. ReasonsIn(l, f) = SumOf(l, S) + one /\ ReasonsIn(m, f) = SumOf(m, S) + one
    BY DEF ReasonsIn
  <2>7. one \in Nat /\ l[source] \in Nat /\ n - l[source] = change
    OBVIOUS
  <2> HIDE DEF S, m, n, one
  <2> QED
    BY <2>2, <2>3, <2>4, <2>5, <2>6, <2>7
<1> HIDE DEF m
<1>2. \A f \in Activates[source] : f \in Feature /\ level[f] + change \in Nat
  <2> TAKE f \in Activates[source]
  <2>1. f \in Feature
    BY SourceFacts
  <2>2. l[source] \in Nat /\ level[f] \in Nat /\ l[source] <= level[f]
    BY <1>1, <2>1
  <2> QED
    BY <2>1, <2>2
<1>3. RefusedFeatures(source, change) = {}
  BY <1>2 DEF RefusedFeatures
<1>4. LevelsAfter(source, change) =
        [f \in Feature |-> IF f \in Activates[source] THEN level[f] + change ELSE level[f]]
  BY <1>3 DEF LevelsAfter
<1>5. LevelsAgree(m, LevelsAfter(source, change))
  <2>1. \A f \in Feature : /\ LevelsAfter(source, change)[f] \in Nat
                           /\ LevelsAfter(source, change)[f] = ReasonsIn(m, f)
    BY <1>1, <1>2, <1>4
  <2> QED
    BY <1>4, <2>1 DEF LevelsAgree
<1> QED
  BY <1>3, <1>5 DEF m

(* modify_unit_variant_unlock *)
LEMMA VariantsFollow ==
  ASSUME NEW l \in [Source -> Nat], VariantsAgree(l, variants), NEW source \in Source, NEW change \in Int,
         l[source] + change \in Nat
  PROVE  LET variant == IF source \in Technology THEN UnitVariant[source] ELSE 0
         IN  /\ ~VariantRefused(variant, change)
             /\ VariantsAgree([l EXCEPT ![source] = @ + change], VariantsAfter(variant, change))
<1> DEFINE m == [l EXCEPT ![source] = @ + change]
           n == l[source] + change
           variant == IF source \in Technology THEN UnitVariant[source] ELSE 0
           size == Max({variant, Len(variants)})
           raw == [k \in 1 .. size |->
                     IF k = variant /\ VariantLevel(k) + change >= 0 THEN VariantLevel(k) + change
                     ELSE VariantLevel(k)]
<1>1. variant \in Nat /\ variants \in Seq(Nat) /\ Len(variants) \in Nat
  BY UnlocksAssumption DEF VariantsAgree
<1>2. ASSUME NEW v \in Nat \ {0}
      PROVE  /\ VariantLevel(v) \in Nat /\ VariantLevel(v) = SumOf(l, OfVariant(v))
             /\ SumOf(m, OfVariant(v)) = VariantLevel(v) + (IF v = variant THEN change ELSE 0)
             /\ v = variant => l[source] <= VariantLevel(v)
  <2> DEFINE S == OfVariant(v)
  <2>1. S \in SUBSET Source /\ IsFiniteSet(S)
    BY SourceFacts
  <2>2. source \in S <=> v = variant
    BY UnlocksAssumption DEF OfVariant
  <2>3. SumOf(m, S) = SumOf(l, S) + (IF source \in S THEN n - l[source] ELSE 0)
    <3>1. DiffersAt(Source, l, m, source) /\ m[source] = n /\ l \in [Source -> Int]
      BY DEF DiffersAt
    <3> HIDE DEF m, S, n
    <3>2. SumOf(m, S) = SumOf(l, S) + (IF source \in S THEN m[source] - l[source] ELSE 0)
      BY <2>1, <3>1, SumChanges
    <3> QED
      BY <3>1, <3>2
  <2>4. SumOf(l, S) \in Nat /\ (source \in S => l[source] <= SumOf(l, S))
    <3> HIDE DEF S
    <3> QED
      BY <2>1, SumsAreCounts, SumBounds
  <2>5. VariantLevel(v) = SumOf(l, S)
    BY DEF VariantsAgree, VariantLevel, ReadAt
  <2>6. l[source] \in Nat /\ n - l[source] = change
    OBVIOUS
  <2> HIDE DEF S, m, n, variant
  <2> QED
    BY <2>2, <2>3, <2>4, <2>5, <2>6 DEF S
<1> HIDE DEF m
<1>3. variant # 0 => VariantLevel(variant) + change \in Nat
  <2> HAVE variant # 0
  <2>1. l[source] \in Nat /\ VariantLevel(variant) \in Nat /\ l[source] <= VariantLevel(variant)
    BY <1>1, <1>2
  <2> HIDE DEF variant
  <2> QED
    BY <2>1
<1>4. ~VariantRefused(variant, change)
  <2> HIDE DEF variant
  <2> QED
    BY <1>1, <1>3 DEF VariantRefused
<1> HIDE DEF variant
<1>5. size \in Nat /\ size >= variant /\ size >= Len(variants)
  <2> DEFINE top == IF variant >= Len(variants) THEN variant ELSE Len(variants)
  <2>1. top \in Nat /\ {variant, Len(variants)} \in SUBSET (0 .. top)
    BY <1>1
  <2> HIDE DEF top
  <2>2. /\ Max({variant, Len(variants)}) \in {variant, Len(variants)}
        /\ \A x \in {variant, Len(variants)} : Max({variant, Len(variants)}) >= x
    BY <2>1, GreatestOf
  <2> QED
    BY <1>1, <2>2
<1> HIDE DEF size
<1>6. ASSUME NEW k \in Nat \ {0}, k <= size
      PROVE  k \in 1 .. size /\ raw[k] \in Nat /\ raw[k] = SumOf(m, OfVariant(k))
  <2>1. k \in 1 .. size
    BY <1>5, <1>6
  <2>2. raw[k] = VariantLevel(k) + (IF k = variant THEN change ELSE 0)
    <3>1. CASE k = variant
      <4>1. VariantLevel(k) + change \in Nat
        BY <1>3, <3>1
      <4> QED
        BY <2>1, <3>1, <4>1
    <3>2. CASE k # variant
      <4>1. raw[k] = VariantLevel(k) /\ VariantLevel(k) \in Nat
        BY <1>2, <2>1, <3>2
      <4> QED
        BY <3>2, <4>1
    <3> QED
      BY <3>1, <3>2
  <2>3. SumOf(m, OfVariant(k)) \in Nat
    <3>1. m \in [Source -> Nat]
      BY DEF m
    <3> QED
      BY <3>1, SourceFacts, SumsAreCounts
  <2> QED
    BY <1>2, <2>1, <2>2, <2>3
<1>7. raw \in Seq(Nat) /\ Len(raw) = size
  <2>1. \A k \in 1 .. size : raw[k] \in Nat
    <3>1. \A k \in 1 .. size : k \in Nat \ {0} /\ k <= size
      BY <1>5
    <3> HIDE DEF raw
    <3> QED
      BY <1>6, <3>1
  <2> QED
    BY <1>5, <2>1
<1>8. VariantsAfter(variant, change) = Trimmed(raw)
  BY DEF VariantsAfter, size
<1> HIDE DEF raw
<1>9. ASSUME NEW v \in Nat \ {0} PROVE ReadAt(raw, v) = SumOf(m, OfVariant(v))
  <2>1. CASE v <= size
    BY <1>6, <1>7, <2>1 DEF ReadAt
  <2>2. CASE ~(v <= size)
    <3>1. v # variant /\ VariantLevel(v) = 0
      BY <1>1, <1>5, <2>2 DEF VariantLevel
    <3>2. ReadAt(raw, v) = 0
      BY <1>7, <2>2 DEF ReadAt
    <3>3. SumOf(m, OfVariant(v)) = VariantLevel(v) + 0
      BY <1>2, <3>1
    <3> QED
      BY <3>1, <3>2, <3>3
  <2> QED
    BY <2>1, <2>2
<1>10. VariantsAgree(m, VariantsAfter(variant, change))
  BY <1>7, <1>8, <1>9, TrimmedReads DEF VariantsAgree
<1> QED
  BY <1>4, <1>10 DEF m, variant

(* allowed_regiment_cultures *)
LEMMA AllowedFollows ==
  ASSUME NEW now, allowed = MostPermissive(Unlocked(level) \cap Regiment)
  PROVE  AllowedAfter(now) = MostPermissive(Unlocked(now) \cap Regiment)
<1> DEFINE was == Unlocked(level) \cap Regiment
           is == Unlocked(now) \cap Regiment
<1>1. CASE was \ is # {}
  BY <1>1 DEF AllowedAfter
<1>2. CASE was \ is = {}
  <2>1. AllowedAfter(now) = Min({MostPermissive(was), MostPermissive(is \ was)})
    BY <1>2 DEF AllowedAfter
  <2>2. was \in SUBSET Regiment /\ is \ was \in SUBSET Regiment /\ was \cup (is \ was) = is
    BY <1>2
  <2> HIDE DEF was, is
  <2>3. Min({MostPermissive(was), MostPermissive(is \ was)}) = MostPermissive(is)
    BY <2>2, MostPermissiveOfBoth
  <2> QED
    BY <2>1, <2>3 DEF is
<1> QED
  BY <1>1, <1>2

(* inventions_count *)
LEMMA InventionsFollow ==
  ASSUME NEW l \in [Source -> Nat], NEW source \in Source, NEW n \in Nat
  PROVE  LET was == Cardinality(Invented(l))
             is == Cardinality(Invented([l EXCEPT ![source] = n]))
         IN  is = IF source \notin Invention THEN was
                  ELSE IF l[source] > 0 THEN (IF n > 0 THEN was ELSE was - 1)
                  ELSE (IF n > 0 THEN was + 1 ELSE was)
<1> DEFINE W == Invented(l)
           I == Invented([l EXCEPT ![source] = n])
<1>1. \A i \in Invention : i \in Source
  BY DEF Source
<1>2. \A i \in Invention : i # source => (i \in I <=> i \in W)
  BY <1>1 DEF Invented
<1>3. /\ source \in I <=> source \in Invention /\ n > 0
      /\ source \in W <=> source \in Invention /\ l[source] > 0
  BY DEF Invented
<1>4. I \subseteq Invention /\ W \subseteq Invention
  BY DEF Invented
<1>5. IsFiniteSet(W)
  BY SourceFacts
<1> HIDE DEF I, W
<1>6. CASE source \notin Invention \/ (l[source] > 0 <=> n > 0)
  <2>1. I = W
    BY <1>2, <1>3, <1>4, <1>6
  <2> QED
    BY <1>6, <2>1 DEF I, W
<1>7. CASE source \in Invention /\ l[source] > 0 /\ ~(n > 0)
  <2>1. I = W \ {source} /\ source \in W
    BY <1>2, <1>3, <1>4, <1>7
  <2>2. Cardinality(I) = Cardinality(W) - 1
    BY <1>5, <2>1, FS_RemoveElement
  <2> QED
    BY <1>7, <2>2 DEF I, W
<1>8. CASE source \in Invention /\ ~(l[source] > 0) /\ n > 0
  <2>1. I = W \cup {source} /\ source \notin W
    BY <1>2, <1>3, <1>4, <1>8
  <2>2. Cardinality(I) = Cardinality(W) + 1
    BY <1>5, <2>1, FS_AddElement
  <2> QED
    BY <1>8, <2>2 DEF I, W
<1> QED
  BY <1>6, <1>7, <1>8

LEMMA SumsOfReasons ==
  /\ \A f : Reasons(f) = ReasonsIn(source_level, f)
  /\ \A v : VariantReasons(v) = SumOf(source_level, OfVariant(v))
BY DEF Reasons, VariantReasons, ReasonsIn, SumOf, Activating, OfVariant

LEMMA UnlocksTold == UnlocksInv => UnlocksAgree
<1> SUFFICES ASSUME UnlocksInv PROVE UnlocksAgree
  OBVIOUS
<1>1. /\ source_level \in [Source -> Nat] /\ VariantsAgree(source_level, variants)
      /\ LevelsAgree(source_level, level)
  BY DEF UnlocksInv
<1>2. /\ variants \in Seq(Nat) /\ (variants # <<>> => Last(variants) > 0)
      /\ \A v \in Nat \ {0} : ReadAt(variants, v) = SumOf(source_level, OfVariant(v))
  BY <1>1 DEF VariantsAgree
<1>3. \A f \in Feature : level[f] = Reasons(f)
  BY <1>1, SumsOfReasons DEF LevelsAgree
<1>4. ASSUME NEW v \in DOMAIN variants PROVE variants[v] = VariantReasons(v)
  <2>1. v \in Nat \ {0} /\ v <= Len(variants)
    BY <1>2
  <2> QED
    BY <1>2, <2>1, SumsOfReasons DEF ReadAt
<1>5. ASSUME NEW t \in Technology, source_level[t] > 0 PROVE UnitVariant[t] <= Len(variants)
  <2> DEFINE v == UnitVariant[t]
             S == OfVariant(v)
  <2>1. v \in Nat /\ t \in S /\ Len(variants) \in Nat
    BY <1>2, UnlocksAssumption DEF OfVariant
  <2>2. source_level[t] <= SumOf(source_level, S) /\ SumOf(source_level, S) \in Nat /\ source_level[t] \in Nat
    <3>1. S \in SUBSET Source /\ IsFiniteSet(S) /\ t \in Source
      BY SourceFacts DEF Source
    <3> HIDE DEF S
    <3> QED
      BY <1>1, <2>1, <3>1, SumBounds, SumsAreCounts
  <2>3. CASE v = 0
    BY <2>1, <2>3
  <2>4. CASE v # 0
    <3>1. v \in Nat \ {0}
      BY <2>1, <2>4
    <3>2. ReadAt(variants, v) > 0
      <4>1. ReadAt(variants, v) = SumOf(source_level, S)
        BY <1>2, <3>1
      <4> HIDE DEF S, v
      <4> QED
        BY <1>5, <2>2, <4>1
    <3> HIDE DEF v
    <3> QED
      BY <2>1, <3>2 DEF ReadAt, v
  <2> QED
    BY <2>3, <2>4
<1> QED
  BY <1>2, <1>3, <1>4, <1>5 DEF UnlocksInv, UnlocksAgree, Invented

(* What a change of a level leaves behind. *)
LEMMA ModifyKeeps ==
  ASSUME UnlocksInv, NEW source \in Source, NEW change \in Int, source_level[source] + change \in Nat,
         Modify(source, change), current_research' \in Technology \cup {NoTechnology}
  PROVE  UnlocksInv'
<1> DEFINE m == [source_level EXCEPT ![source] = @ + change]
           n == source_level[source] + change
           now == LevelsAfter(source, change)
           variant == IF source \in Technology THEN UnitVariant[source] ELSE 0
<1>1. /\ source_level \in [Source -> Nat] /\ LevelsAgree(source_level, level)
      /\ VariantsAgree(source_level, variants)
      /\ inventions_count = Cardinality(Invented(source_level))
      /\ allowed = MostPermissive(Unlocked(level) \cap Regiment)
      /\ {OutputGood[b] : b \in Unlocked(level) \cap Building} \subseteq enabled
      /\ rejected = FALSE
  BY DEF UnlocksInv
<1>2. /\ RefusedFeatures(source, change) = {} /\ LevelsAgree(m, now)
  BY <1>1, LevelsFollow
<1>3. ~VariantRefused(variant, change) /\ VariantsAgree(m, VariantsAfter(variant, change))
  BY <1>1, VariantsFollow
<1>4. m \in [Source -> Nat]
  BY <1>1
<1>5. ~(source_level[source] + change < 0) /\ n \in Nat /\ m = [source_level EXCEPT ![source] = n]
  OBVIOUS
<1>6. /\ source_level' = m /\ level' = now /\ variants' = VariantsAfter(variant, change)
      /\ inventions_count' =
           IF source \notin Invention THEN inventions_count
           ELSE IF source_level[source] > 0 THEN (IF n > 0 THEN inventions_count ELSE inventions_count - 1)
           ELSE (IF n > 0 THEN inventions_count + 1 ELSE inventions_count)
      /\ allowed' = AllowedAfter(now)
      /\ enabled' = enabled \cup {OutputGood[b] : b \in (Activates[source] \ RefusedFeatures(source, change)) \cap Building}
      /\ rejected' = (rejected \/ RefusedFeatures(source, change) # {} \/ VariantRefused(variant, change))
  BY <1>5 DEF Modify
<1>7. inventions_count' = Cardinality(Invented(m))
  <2>1. Cardinality(Invented([source_level EXCEPT ![source] = n])) =
           IF source \notin Invention THEN Cardinality(Invented(source_level))
           ELSE IF source_level[source] > 0
           THEN (IF n > 0 THEN Cardinality(Invented(source_level)) ELSE Cardinality(Invented(source_level)) - 1)
           ELSE (IF n > 0 THEN Cardinality(Invented(source_level)) + 1 ELSE Cardinality(Invented(source_level)))
    BY <1>1, <1>5, InventionsFollow
  <2> HIDE DEF n
  <2> QED
    BY <1>1, <1>5, <1>6, <2>1
<1>8. allowed' = MostPermissive(Unlocked(now) \cap Regiment)
  BY <1>1, <1>6, AllowedFollows
<1>9. {OutputGood[b] : b \in Unlocked(now) \cap Building} \subseteq enabled'
  <2> SUFFICES ASSUME NEW b \in Unlocked(now) \cap Building PROVE OutputGood[b] \in enabled'
    OBVIOUS
  <2>1. CASE b \in Activates[source]
    BY <1>2, <1>6, <2>1
  <2>2. CASE b \notin Activates[source]
    <3>1. now[b] = level[b] /\ b \in Feature
      BY <2>2 DEF LevelsAfter, Unlocked
    <3>2. b \in Unlocked(level)
      BY <3>1 DEF Unlocked
    <3> QED
      BY <1>1, <1>6, <3>2
  <2> QED
    BY <2>1, <2>2
<1> HIDE DEF m, now, variant, n
<1>10. rejected' = FALSE
  BY <1>1, <1>2, <1>3, <1>6
<1> QED
  BY <1>2, <1>3, <1>4, <1>6, <1>7, <1>8, <1>9, <1>10 DEF UnlocksInv

LEMMA UnlocksInitInv == UnlocksInit => UnlocksInv
<1> SUFFICES ASSUME UnlocksInit PROVE UnlocksInv
  OBVIOUS
<1>1. source_level = [s \in Source |-> 0] /\ source_level \in [Source -> Nat]
  BY DEF UnlocksInit, Source
<1> DEFINE first == [f \in Feature |-> IF f \in StartsUnlocked THEN 1 ELSE 0]
<1>2. level = first /\ level \in [Feature -> Nat]
  BY DEF UnlocksInit
<1>3. \A S : S \in SUBSET Source /\ IsFiniteSet(S) => SumOf(source_level, S) = 0
  <2> TAKE S
  <2> HAVE S \in SUBSET Source /\ IsFiniteSet(S)
  <2>1. \A s \in S : source_level[s] = 0
    BY <1>1
  <2> QED
    BY <1>1, <2>1, SumsAreCounts
<1>4. LevelsAgree(source_level, level)
  <2>1. ASSUME NEW f \in Feature PROVE level[f] = ReasonsIn(source_level, f)
    <3>1. SumOf(source_level, Activating(f)) = 0
      BY <1>3, SourceFacts
    <3> QED
      BY <1>2, <3>1 DEF ReasonsIn
  <2> QED
    BY <1>2, <2>1 DEF LevelsAgree
<1>5. VariantsAgree(source_level, variants)
  <2>1. variants = <<>>
    BY DEF UnlocksInit
  <2>2. ASSUME NEW v \in Nat \ {0} PROVE ReadAt(variants, v) = SumOf(source_level, OfVariant(v))
    <3>1. SumOf(source_level, OfVariant(v)) = 0
      BY <1>3, SourceFacts
    <3> QED
      BY <2>1, <3>1 DEF ReadAt
  <2> QED
    BY <2>1, <2>2 DEF VariantsAgree
<1>6. Unlocked(level) = StartsUnlocked
  BY <1>2, UnlocksAssumption DEF Unlocked
<1>7. Invented(source_level) = {} /\ inventions_count = 0
  BY <1>1 DEF Invented, Source, UnlocksInit
<1>8. inventions_count = Cardinality(Invented(source_level))
  BY <1>7, FS_EmptySet
<1> QED
  BY <1>1, <1>4, <1>5, <1>6, <1>8 DEF UnlocksInv, UnlocksInit

LEMMA UnlocksStepInv == UnlocksInv /\ [UnlocksNext]_unlocksVars => UnlocksInv'
<1> SUFFICES ASSUME UnlocksInv, [UnlocksNext]_unlocksVars PROVE UnlocksInv'
  OBVIOUS
<1>1. ASSUME NEW source \in Source, NEW l \in Nat, SetLevel(source, l) PROVE UnlocksInv'
  <2>1. source_level[source] \in Nat
    BY DEF UnlocksInv
  <2> DEFINE change == l - source_level[source]
  <2>2. change \in Int /\ source_level[source] + change \in Nat
    BY <2>1
  <2>3. Modify(source, change) /\ current_research' \in Technology \cup {NoTechnology}
    BY <1>1 DEF SetLevel, UnlocksInv
  <2> HIDE DEF change
  <2> QED
    BY <2>2, <2>3, ModifyKeeps
<1>2. ASSUME NEW t \in Technology, start_research(t) PROVE UnlocksInv'
  BY <1>2 DEF start_research, UnlocksInv
<1>3. CASE CompleteResearch
  <2>1. current_research \in Source /\ source_level[current_research] \in Nat
    BY <1>3 DEF CompleteResearch, UnlocksInv, Source
  <2>2. /\ 1 \in Int /\ source_level[current_research] + 1 \in Nat
        /\ Modify(current_research, 1) /\ current_research' \in Technology \cup {NoTechnology}
    BY <1>3, <2>1 DEF CompleteResearch
  <2> QED
    BY <2>1, <2>2, ModifyKeeps
<1>4. CASE UNCHANGED unlocksVars
  BY <1>4 DEF unlocksVars, UnlocksInv, VariantsAgree
<1>5. ASSUME NEW t \in Technology, NEW l \in Levels, SetLevel(t, l) PROVE UnlocksInv'
  BY <1>1, <1>5, UnlocksAssumption DEF Source
<1>6. ASSUME NEW i \in Invention, NEW l \in 0 .. 1, SetLevel(i, l) PROVE UnlocksInv'
  <2>1. i \in Source /\ l \in Nat
    BY DEF Source
  <2> QED
    BY <1>1, <1>6, <2>1
<1> QED
  BY <1>2, <1>3, <1>4, <1>5, <1>6 DEF UnlocksNext

(* What a country has unlocked is what a count of its technologies and inventions
   gives, however levels went up and down and whatever activates what; no change is
   refused (CountryInstance.cpp). *)
THEOREM UnlocksCounted == UnlocksSpec => []UnlocksAgree
<1>1. UnlocksSpec => []UnlocksInv
  BY UnlocksInitInv, UnlocksStepInv, PTL DEF UnlocksSpec
<1> QED
  BY <1>1, UnlocksTold, PTL

=============================================================================
