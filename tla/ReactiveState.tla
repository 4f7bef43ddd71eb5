--------------------------- MODULE ReactiveState ---------------------------
(***************************************************************************)
(* Reactive values (utility/reactive, over types/Signal.hpp): mutable      *)
(* states, derived states that calculate lazily and track what they read,  *)
(* and observers of their signals.                                         *)
(*                                                                         *)
(* Every thread has a stack of frames, the calls it is in.  Threads get    *)
(* values concurrently; a set runs alone, as in the simulation, where a    *)
(* country's states are set by the one thread that ticks it.  is_dirty is  *)
(* a plain bool read outside its lock: the model takes the stores of       *)
(* recalculate_if_dirty in program order, as a total-store-order build     *)
(* keeps them.                                                             *)
(***************************************************************************)
EXTENDS Integers, FiniteSets, SequencesExt

CONSTANTS
  Thread,
  Mutable,          \* the MutableStates
  Derived,          \* the DerivedStates
  Observer,         \* callbacks that read the value of the state they are connected to
  On,               \* the derived state each observer is connected to
  Values,           \* what each mutable state may be set to
  Initial,          \* and what it starts with
  NextRead(_, _),   \* the state a calculation reads after the values read so far, or Done
  Result(_, _),     \* what it returns
  Done,
  MaxReads,         \* bound on the reads of one calculation
  NoThread,
  Unread            \* stands for a value nobody has calculated

State == Mutable \cup Derived

ASSUME ReactiveAssumption ==
  /\ Mutable \cap Derived = {} /\ Done \notin State
  /\ On \in [Observer -> Derived]
  /\ \A m \in Mutable : Initial[m] \in Values[m]
  /\ MaxReads \in Nat
  /\ NoThread \notin Thread

VARIABLES
  value,      \* value of every MutableState
  cached,     \* cached_value; meaningless while dirty
  dirty,      \* is_dirty
  holder,     \* the thread that holds is_dirty_lock, or NoThread
  slots,      \* the slots of every changed signal, in emission order
  stack,      \* the calls every thread is in, innermost first
  subscribed  \* the observers that have connected

vars == <<value, cached, dirty, holder, slots, stack, subscribed>>

Changed(s) == [op |-> "changed", of |-> s]
Emission(s, rest, shares) == [op |-> "emit", of |-> s, rest |-> rest, shares |-> shares]
Mark(d) == [op |-> "mark", of |-> d]
MarkLock(d) == [op |-> "mark_lock", of |-> d]
Recalculate(d) == [op |-> "recalculate", of |-> d]
RecalculateLock(d) == [op |-> "recalculate_lock", of |-> d]
Calculation(d, read) == [op |-> "calculate", of |-> d, read |-> read]
Tracking(d, read) == [op |-> "track", of |-> d, read |-> read]
Subscription(o) == [op |-> "subscribe", by |-> o]

At(t, op) == stack[t] # <<>> /\ Head(stack[t]).op = op
Replaced(t, frames) == [stack EXCEPT ![t] = frames \o Tail(@)]

(* A set and everything it calls are under an emission. *)
InSet(t) == stack[t] # <<>> /\ Last(stack[t]).op \in {"changed", "emit"}

-----------------------------------------------------------------------------
(* Some emission still holds the list of s it copied (SignalSlots: one     *)
(* payload, counted twice).                                                *)
Emissions(s) ==
  {f \in UNION {Range(stack[t]) : t \in Thread} : f.op = "emit" /\ f.of = s}
Shared(s) == \E f \in Emissions(s) : f.shares

(* cow_vector::write: a list that is shared is left behind, and the new    *)
(* one starts empty, as SignalSlots shows.                                 *)
Written(s) == IF Shared(s) THEN <<>> ELSE slots[s]
Unsharing(frames, written) ==
  [k \in DOMAIN frames |->
     IF frames[k].op = "emit" /\ frames[k].of \in written THEN [frames[k] EXCEPT !.shares = FALSE]
     ELSE frames[k]]

(* A new slot at the end of the list of s, and the frames after it. *)
Connected(s, x) == [slots EXCEPT ![s] = Append(Written(s), x)]
After(t, frames, written) == [u \in Thread |-> Unsharing(Replaced(t, frames)[u], written)]

(* Signal: disconnecting swaps the last slot into the place of the one     *)
(* that goes.                                                              *)
Cleaned(sl, d) ==
  LET i == SelectInSeq(sl, LAMBDA x : x = d)
  IN  IF i = 0 THEN sl ELSE [k \in 1 .. Len(sl) - 1 |-> IF k = i THEN Last(sl) ELSE sl[k]]

(* A slot that was disconnected is skipped by the emissions that still hold it. *)
Skipping(frames, d) ==
  [k \in DOMAIN frames |->
     IF frames[k].op = "emit"
     THEN [frames[k] EXCEPT !.rest = SelectSeq(@, LAMBDA x : x # d)] ELSE frames[k]]

(* The signals d still has a connection to: its slot is in their list or   *)
(* in one an emission copied.                                              *)
Sources(d) ==
  {s \in State : d \in Range(slots[s]) \/ \E f \in Emissions(s) : d \in Range(f.rest)}

(* Mutant of Disconnected: the connections of a dirty state stay. *)
StillConnected(d) == slots

(* disconnect_all *)
Disconnected(d) == [s \in State |-> IF s \in Sources(d) THEN Cleaned(Written(s), d) ELSE slots[s]]

(* MutableState::set: the value, then its signal. *)
Set(t, m, v) ==
  /\ \A u \in Thread : stack[u] = <<>>
  /\ value' = [value EXCEPT ![m] = v]
  /\ stack' = [stack EXCEPT ![t] = <<Changed(m)>>]
  /\ UNCHANGED <<cached, dirty, holder, slots, subscribed>>

(* The slots of an emission are those connected when it begins. *)
EmissionBegins(t) ==
  /\ At(t, "changed")
  /\ LET s == Head(stack[t]).of IN stack' = Replaced(t, <<Emission(s, slots[s], TRUE)>>)
  /\ UNCHANGED <<value, cached, dirty, holder, slots, subscribed>>

(* Mutant of Uncalled: the emission walks the slots connected now. *)
LiveSlots(f) == slots[f.of]

(* What is left of the copy of the slots an emission took. *)
Uncalled(f) == f.rest

(* One slot is called: mark_dirty of a derived state, or an observer,      *)
(* which calls get_untracked.                                              *)
Emit(t) ==
  /\ At(t, "emit")
  /\ LET f == Head(stack[t])
         rest == Uncalled(f)
     IN  stack' = Replaced(t,
           IF rest = <<>> THEN <<>>
           ELSE (IF Head(rest) \in Derived THEN <<Mark(Head(rest))>>
                 ELSE <<Recalculate(On[Head(rest)])>>)
                \o <<[f EXCEPT !.rest = Tail(rest)]>>)
  /\ UNCHANGED <<value, cached, dirty, holder, slots, subscribed>>

(* mark_dirty, before its lock. *)
MarkDirty(t) ==
  /\ At(t, "mark")
  /\ LET d == Head(stack[t]).of
     IN  stack' = Replaced(t, IF dirty[d] THEN <<>> ELSE <<MarkLock(d)>>)
  /\ UNCHANGED <<value, cached, dirty, holder, slots, subscribed>>

(* Mutant of Announced: a dirty state tells nobody. *)
Unannounced(d) == <<>>

(* What mark_dirty does after its lock. *)
Announced(d) == <<Changed(d)>>

(* The locked part of mark_dirty. *)
MarkDirtyLocked(t) ==
  /\ At(t, "mark_lock")
  /\ LET d == Head(stack[t]).of
     IN  /\ holder[d] = NoThread
         /\ IF dirty[d] THEN stack' = Replaced(t, <<>>) /\ UNCHANGED <<dirty, slots>>
            ELSE /\ slots' = Disconnected(d)
                 /\ dirty' = [dirty EXCEPT ![d] = TRUE]
                 /\ stack' = [u \in Thread |-> Skipping(After(t, Announced(d), Sources(d))[u], d)]
  /\ UNCHANGED <<value, cached, holder, subscribed>>

-----------------------------------------------------------------------------
Get(t, d) ==
  /\ stack[t] = <<>>
  /\ \A u \in Thread : ~InSet(u)
  /\ stack' = [stack EXCEPT ![t] = <<Recalculate(d)>>]
  /\ UNCHANGED <<value, cached, dirty, holder, slots, subscribed>>

(* get(connect): the observer reads the value and connects, once. *)
Subscribe(t, o) ==
  /\ stack[t] = <<>>
  /\ \A u \in Thread : ~InSet(u)
  /\ o \notin subscribed
  /\ \A u \in Thread : \A k \in DOMAIN stack[u] : stack[u][k] # Subscription(o)
  /\ stack' = [stack EXCEPT ![t] = <<Recalculate(On[o]), Subscription(o)>>]
  /\ UNCHANGED <<value, cached, dirty, holder, slots, subscribed>>

(* recalculate_if_dirty, before its lock. *)
RecalculateIfDirty(t) ==
  /\ At(t, "recalculate")
  /\ LET d == Head(stack[t]).of
     IN  stack' = Replaced(t, IF dirty[d] THEN <<RecalculateLock(d)>> ELSE <<>>)
  /\ UNCHANGED <<value, cached, dirty, holder, slots, subscribed>>

RecalculateLocked(t) ==
  /\ At(t, "recalculate_lock")
  /\ LET d == Head(stack[t]).of
     IN  /\ holder[d] = NoThread
         /\ holder' = [holder EXCEPT ![d] = IF dirty[d] THEN t ELSE NoThread]
         /\ stack' = Replaced(t, IF dirty[d] THEN <<Calculation(d, <<>>)>> ELSE <<>>)
  /\ UNCHANGED <<value, cached, dirty, slots, subscribed>>

(* One read of calculate from a mutable state: it is tracked and read. *)
ReadMutable(t) ==
  /\ At(t, "calculate")
  /\ LET f == Head(stack[t])
         m == NextRead(f.of, f.read)
     IN  /\ m \in Mutable
         /\ slots' = Connected(m, f.of)
         /\ stack' = After(t, <<Calculation(f.of, Append(f.read, value[m]))>>, {m})
  /\ UNCHANGED <<value, cached, dirty, holder, subscribed>>

(* From a derived state: it is brought up to date first, then tracked. *)
ReadDerived(t) ==
  /\ At(t, "calculate")
  /\ LET f == Head(stack[t])
         d == NextRead(f.of, f.read)
     IN  /\ d \in Derived
         /\ stack' = Replaced(t, <<Recalculate(d), Tracking(f.of, f.read)>>)
  /\ UNCHANGED <<value, cached, dirty, holder, slots, subscribed>>

Track(t) ==
  /\ At(t, "track")
  /\ LET f == Head(stack[t])
         d == NextRead(f.of, f.read)
     IN  /\ slots' = Connected(d, f.of)
         /\ stack' = After(t, <<Calculation(f.of, Append(f.read, cached[d]))>>, {d})
  /\ UNCHANGED <<value, cached, dirty, holder, subscribed>>

(* The calculation returns: the value, the flag, the lock. *)
Calculated(t) ==
  /\ At(t, "calculate")
  /\ LET f == Head(stack[t])
     IN  /\ NextRead(f.of, f.read) = Done
         /\ cached' = [cached EXCEPT ![f.of] = Result(f.of, f.read)]
         /\ dirty' = [dirty EXCEPT ![f.of] = FALSE]
         /\ holder' = [holder EXCEPT ![f.of] = NoThread]
  /\ stack' = Replaced(t, <<>>)
  /\ UNCHANGED <<value, slots, subscribed>>

Connect(t) ==
  /\ At(t, "subscribe")
  /\ LET o == Head(stack[t]).by
     IN  /\ slots' = Connected(On[o], o)
         /\ stack' = After(t, <<>>, {On[o]})
         /\ subscribed' = subscribed \cup {o}
  /\ UNCHANGED <<value, cached, dirty, holder>>

-----------------------------------------------------------------------------
Init ==
  /\ value = Initial
  /\ cached = [d \in Derived |-> Unread]
  /\ dirty = [d \in Derived |-> TRUE]
  /\ holder = [d \in Derived |-> NoThread]
  /\ slots = [s \in State |-> <<>>]
  /\ stack = [t \in Thread |-> <<>>]
  /\ subscribed = {}

Step(t) ==
  \/ EmissionBegins(t) \/ Emit(t)
  \/ MarkDirty(t) \/ MarkDirtyLocked(t)
  \/ RecalculateIfDirty(t) \/ RecalculateLocked(t)
  \/ ReadMutable(t) \/ ReadDerived(t) \/ Track(t) \/ Calculated(t)
  \/ Connect(t)

Next ==
  \/ \E t \in Thread, m \in Mutable : \E v \in Values[m] : Set(t, m, v)
  \/ \E t \in Thread, d \in Derived : Get(t, d)
  \/ \E t \in Thread, o \in Observer : Subscribe(t, o)
  \/ \E t \in Thread : Step(t)

(* A thread inside a call goes on, unless it waits for a lock that is held. *)
Spec == Init /\ [][Next]_vars /\ \A t \in Thread : WF_vars(Step(t))

-----------------------------------------------------------------------------
Quiet == \A t \in Thread : ~InSet(t)

(* The values a calculation of d would read now, and what every state is   *)
(* by definition.                                                          *)
Reads(d, now) ==
  FoldLeft(LAMBDA read, k : IF NextRead(d, read) = Done THEN read
                            ELSE Append(read, now[NextRead(d, read)]),
           <<>>, [k \in 1 .. MaxReads |-> k])

Current ==
  LET now[s \in State] == IF s \in Mutable THEN value[s] ELSE Result(s, Reads(s, now))
  IN  now

(* Lazy values are never stale: whenever no set is under way, a derived    *)
(* state that is not dirty holds what its definition gives for the present *)
(* values, although states share what they read (diamonds), read           *)
(* conditionally, and are read by callbacks in the middle of an emission,  *)
(* when some of what they read is not marked dirty yet.                    *)
CleanIsCurrent ==
  Quiet => \A d \in Derived : ~dirty[d] => cached[d] = Current[d]

(* A clean state is connected exactly once to every state its value came   *)
(* from and to no other; a dirty one is connected to nothing unless a      *)
(* thread is calculating it.  Lost connections lose updates, and doubled   *)
(* ones accumulate with every recalculation.                               *)
TrackedOnce ==
  \A d \in Derived : holder[d] = NoThread =>
    LET times(s) == Cardinality({k \in DOMAIN slots[s] : slots[s][k] = d})
        read == Reads(d, Current)
        sources == {NextRead(d, SubSeq(read, 1, k)) : k \in 0 .. Len(read) - 1}
    IN  IF dirty[d] THEN \A s \in State : times(s) = 0
        ELSE Quiet => \A s \in State : times(s) = IF s \in sources THEN 1 ELSE 0

(* No call waits for ever: locks are taken against the direction of the    *)
(* graph by calculations and one at a time by mark_dirty, and callbacks    *)
(* run outside them.                                                       *)
CallsReturn == \A t \in Thread : stack[t] # <<>> ~> stack[t] = <<>>
=============================================================================
