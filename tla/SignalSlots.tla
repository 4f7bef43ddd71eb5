---------------------------- MODULE SignalSlots ----------------------------
(***************************************************************************)
(* The list of slots of a signal and the emissions that read it            *)
(* (types/Signal.hpp over core/stl/containers/CowVector.hpp).              *)
(*                                                                         *)
(* The list is a counted payload.  An emission copies the handle under the *)
(* mutex and walks the payload after it let the mutex go; whoever connects *)
(* or disconnects meanwhile holds the mutex and writes, on a payload of    *)
(* its own when the count says that the present one is shared.  The count  *)
(* is read and changed by atomic accesses, one step each.  All slots are   *)
(* in one group, as wherever the signals are used; a callback that changes *)
(* the list it is called from does what another thread does here.          *)
(***************************************************************************)
EXTENDS Integers, FiniteSets, SequencesExt

CONSTANTS
  Emitter,        \* the threads that use the signal
  Slot,
  Payload,        \* addresses of payloads
  NoPayload,      \* the null pointer
  Free          \* stands for the holder of a free mutex

ASSUME SignalAssumption ==
  NoPayload \notin Payload /\ Free \notin Emitter /\ IsFiniteSet(Emitter)

VARIABLES
  signal,   \* [list, mutex, crashed]: the handle of the list, who holds the mutex, whether the program crashed
  heap,     \* the payloads that are allocated: address -> [count, grouped, items]
  state,    \* every slot: "unused", "pending", "connected", "disconnected"
  call      \* what every thread is doing

signalVars == <<signal, heap, state, call>>

Idle == [op |-> "idle"]
Emitting(ref, next, took) == [op |-> "emit", ref |-> ref, next |-> next, took |-> took]
Writing(step, edit) == [op |-> step, edit |-> edit]

Fresh(items) == [count |-> 1, grouped |-> items # <<>>, items |-> items]
Allocated(p, payload) == [q \in DOMAIN heap \cup {p} |-> IF q = p THEN payload ELSE heap[q]]
Without(p) == [q \in DOMAIN heap \ {p} |-> heap[q]]
Lists(p) == IF p = NoPayload THEN <<>> ELSE heap[p].items

Does(t, op) == ~signal.crashed /\ call[t].op = op
Then(t, next) == call' = [call EXCEPT ![t] = next]

-----------------------------------------------------------------------------
(* operator(): the handle is copied under the mutex, its count goes up. *)
BeginEmission(t) ==
  /\ Does(t, "idle") /\ signal.mutex = Free
  /\ LET p == signal.list
     IN  /\ heap' = IF p = NoPayload THEN heap ELSE [heap EXCEPT ![p].count = @ + 1]
         /\ Then(t, Emitting(p, 1, Lists(p)))
  /\ UNCHANGED <<signal, state>>

(* The slots are called outside the mutex, one after the other. *)
CallSlot(t) ==
  /\ Does(t, "emit")
  /\ call[t].next <= Len(Lists(call[t].ref))
  /\ call' = [call EXCEPT ![t].next = @ + 1]
  /\ UNCHANGED <<signal, heap, state>>

(* ~cow_vector of the copy: whoever counts down to zero frees the payload. *)
Dropped(p) == IF heap[p].count = 1 THEN Without(p) ELSE [heap EXCEPT ![p].count = @ - 1]

EndEmission(t) ==
  /\ Does(t, "emit")
  /\ call[t].next > Len(Lists(call[t].ref))
  /\ heap' = IF call[t].ref = NoPayload THEN heap ELSE Dropped(call[t].ref)
  /\ Then(t, Idle)
  /\ UNCHANGED <<signal, state>>

-----------------------------------------------------------------------------
(* connect makes the slot before it locks; a connection that is cut marks  *)
(* its slot before clean locks; disconnect_all only locks.                 *)
BeginWrite(t, edit) ==
  /\ Does(t, "idle") /\ signal.mutex = Free
  /\ state' = CASE edit.kind = "connect" -> [state EXCEPT ![edit.slot] = "pending"]
                [] edit.kind = "disconnect" -> [state EXCEPT ![edit.slot] = "disconnected"]
                [] OTHER -> state
  /\ signal' = [signal EXCEPT !.mutex = t]
  /\ Then(t, Writing("write", edit))
  /\ UNCHANGED heap

connect(t, s) == state[s] = "unused" /\ BeginWrite(t, [kind |-> "connect", slot |-> s])
disconnect(t, s) == state[s] = "connected" /\ BeginWrite(t, [kind |-> "disconnect", slot |-> s])
disconnect_all(t) == BeginWrite(t, [kind |-> "clear"])

(* Mutant of IsShared: a payload that one emission reads counts as the writer's own. *)
SharedByMore(p) == p # NoPayload /\ heap[p].count > 2

(* The test of write and of write_for_overwrite. *)
IsShared(p) == p # NoPayload /\ heap[p].count > 1

(* write *)
Write(t) ==
  /\ Does(t, "write")
  /\ Then(t, Writing(IF IsShared(signal.list) THEN "overwrite" ELSE "edit", call[t].edit))
  /\ UNCHANGED <<signal, heap, state>>

(* write_for_overwrite asks again.  When the last emission has ended in    *)
(* between, write copies the elements onto themselves: they survive or,    *)
(* copied from a vector that is being constructed, they are gone.          *)
WriteForOverwrite(t) ==
  /\ Does(t, "overwrite")
  /\ LET p == signal.list
     IN  IF IsShared(p)
         THEN /\ Then(t, Writing("leave", call[t].edit))
              /\ UNCHANGED heap
         ELSE /\ \E items \in {heap[p].items, <<>>} : heap' = [heap EXCEPT ![p].items = items]
              /\ Then(t, Writing("edit", call[t].edit))
  /\ UNCHANGED <<signal, state>>

(* The shared payload is left: nobody frees it when the emissions ended    *)
(* since the count was read.                                               *)
Leave(t) ==
  /\ Does(t, "leave")
  /\ heap' = [heap EXCEPT ![signal.list].count = @ - 1]
  /\ Then(t, Writing("allocate", call[t].edit))
  /\ UNCHANGED <<signal, state>>

(* The size of the payload that was left, which its last emission may have *)
(* freed since; a payload for no element is the null pointer, which write  *)
(* goes through.  write_for_overwrite has replaced the handle, and write   *)
(* copies from the handle: the new list is empty.                          *)
Sizes(p) == IF p \in DOMAIN heap THEN {heap[p].grouped} ELSE BOOLEAN

Allocate(t) ==
  /\ Does(t, "allocate")
  /\ \E grouped \in Sizes(signal.list) :
       IF grouped
       THEN \E p \in Payload \ DOMAIN heap :
              /\ heap' = Allocated(p, Fresh(<<>>))
              /\ signal' = [signal EXCEPT !.list = p]
       ELSE signal' = [signal EXCEPT !.list = NoPayload, !.crashed = TRUE] /\ UNCHANGED heap
  /\ Then(t, Writing("edit", call[t].edit))
  /\ UNCHANGED state

(* clean: the last slot is swapped into the place of the one that goes. *)
SwappedOut(items, s) ==
  LET i == SelectInSeq(items, LAMBDA x : x = s)
  IN  IF i = 0 THEN items
      ELSE [k \in 1 .. Len(items) - 1 |-> IF k = i THEN Last(items) ELSE items[k]]

Edited(payload, edit) ==
  CASE edit.kind = "connect" -> [payload EXCEPT !.items = Append(@, edit.slot), !.grouped = TRUE]
    [] edit.kind = "disconnect" -> [payload EXCEPT !.items = SwappedOut(@, edit.slot)]
    [] OTHER -> [payload EXCEPT !.items = <<>>, !.grouped = FALSE]

(* add_slot, clean, clear; then the mutex. *)
Edit(t) ==
  /\ Does(t, "edit")
  /\ LET edit == call[t].edit
         p == signal.list
     IN  /\ \E q \in IF p = NoPayload /\ edit.kind = "connect" THEN Payload \ DOMAIN heap ELSE {p} :
              /\ heap' = IF q = NoPayload THEN heap
                         ELSE IF q = p THEN [heap EXCEPT ![p] = Edited(@, edit)]
                         ELSE Allocated(q, Fresh(<<edit.slot>>))
              /\ signal' = [signal EXCEPT !.list = q, !.mutex = Free]
         /\ state' = CASE edit.kind = "connect" -> [state EXCEPT ![edit.slot] = "connected"]
                       [] edit.kind = "clear" -> [s \in Slot |-> IF state[s] = "connected" THEN "disconnected" ELSE state[s]]
                       [] OTHER -> state
  /\ Then(t, Idle)

-----------------------------------------------------------------------------
SignalInit ==
  /\ signal = [list |-> NoPayload, mutex |-> Free, crashed |-> FALSE]
  /\ heap = [p \in {} |-> Fresh(<<>>)]
  /\ state = [s \in Slot |-> "unused"]
  /\ call = [t \in Emitter |-> Idle]

SignalNext ==
  \E t \in Emitter :
    \/ BeginEmission(t) \/ CallSlot(t) \/ EndEmission(t)
    \/ \E s \in Slot : connect(t, s)
    \/ \E s \in Slot : disconnect(t, s)
    \/ disconnect_all(t)
    \/ Write(t) \/ WriteForOverwrite(t) \/ Leave(t) \/ Allocate(t) \/ Edit(t)

SignalSpec == SignalInit /\ [][SignalNext]_signalVars

-----------------------------------------------------------------------------
(* What an emission reads outside the mutex stays what it was when the     *)
(* emission began, and is not freed under it, whatever the other threads   *)
(* connect and disconnect meanwhile and however their tests of the count   *)
(* interleave with the end of other emissions.                             *)
EmissionsKeepTheirList ==
  \A t \in Emitter :
    call[t].op = "emit" /\ call[t].ref # NoPayload =>
      call[t].ref \in DOMAIN heap /\ heap[call[t].ref].items = call[t].took

(* "Creates and stores a new slot responsible for executing the supplied   *)
(* callable for every subsequent signal emission" (types/Signal.hpp:886):  *)
(* a slot that is connected is in the list the next emission copies.       *)
ConnectionsLast ==
  signal.mutex = Free /\ ~signal.crashed =>
    \A s \in Slot : state[s] = "connected" => s \in Range(Lists(signal.list))
=============================================================================
