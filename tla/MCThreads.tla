------------------------------ MODULE MCThreads ------------------------------
(* What several threads enter at once: the pool that does the work of a    *)
(* day, the reactive states of a country and the slots of a signal, each   *)
(* in an instance of its own: part says which of them this behaviour is    *)
(* about, and the others keep still.                                       *)
EXTENDS WorkPool, ReactiveState, SignalSlots

VARIABLE part

CONSTANTS t1, t2, panel, chart, p1, p2, p3

(* Work: the phases of two kinds of item. *)
MCPhases == <<"country", "province", "country">>

(* Reactive: the tariff part of the derived states a CountryInstance        *)
(* declares (country/CountryInstance.cpp), with shared and conditional     *)
(* reads, for one country, two threads and two observers.                  *)

(* effective_tariff_rate, has_import_subsidies and                         *)
(* projected_import_subsidies, which reads the rate and the imports only   *)
(* if there are subsidies.                                                 *)
tariff_read(d, read) ==
  LET k == Len(read) + 1
      order == CASE d = "effective_tariff_rate" -> <<"administrative_efficiency", "tariff_rate_slider">>
                 [] d = "has_import_subsidies" -> <<"effective_tariff_rate">>
                 [] d = "projected_import_subsidies" ->
                      IF read # <<>> /\ ~read[1] THEN <<"has_import_subsidies">>
                      ELSE <<"has_import_subsidies", "effective_tariff_rate", "yesterdays_import_value">>
  IN  IF k <= Len(order) THEN order[k] ELSE "done"

tariff_result(d, read) ==
  CASE d = "effective_tariff_rate" -> read[1] * read[2]
    [] d = "has_import_subsidies" -> read[1] < 0
    [] d = "projected_import_subsidies" -> IF read[1] THEN -read[2] * read[3] ELSE 0

TwoThreads == {t1, t2}
MutableStates == {"administrative_efficiency", "tariff_rate_slider", "yesterdays_import_value"}
DerivedStates == {"effective_tariff_rate", "has_import_subsidies", "projected_import_subsidies"}
Panels == {panel, chart}
Shown == [o \in Panels |-> IF o = panel THEN "projected_import_subsidies" ELSE "effective_tariff_rate"]
SomeValues == [m \in MutableStates |->
  CASE m = "administrative_efficiency" -> {1}
    [] m = "tariff_rate_slider" -> {-1, 1}
    [] m = "yesterdays_import_value" -> {1, 2}]
AtStart == [m \in MutableStates |-> 1]

(* Signals: two slots, and a payload more than the list and two emissions  *)
(* of older ones hold.                                                     *)
TwoSlots == {"menu", "map"}
ThreePayloads == {p1, p2, p3}

-----------------------------------------------------------------------------
threadVars == <<part, workVars, vars, signalVars>>

ThreadsInit ==
  /\ part \in {"work", "reactive", "signal"}
  /\ part = "work" \/ items = [k \in ItemKinds |-> 0]
  /\ InitWork /\ Init /\ SignalInit

ThreadsNext ==
  /\ UNCHANGED part
  /\ \/ part = "work" /\ NextWork /\ UNCHANGED <<vars, signalVars>>
     \/ part = "reactive" /\ Next /\ UNCHANGED <<workVars, signalVars>>
     \/ part = "signal" /\ SignalNext /\ UNCHANGED <<workVars, vars>>

(* Each keeps the fairness of its own module: a thread inside a call goes on. *)
ThreadsFairness ==
  /\ WF_workVars(part = "work" /\ OwnerStep)
  /\ \A w \in 1 .. WORK_BUNDLE_COUNT : WF_workVars(part = "work" /\ w \in Workers /\ WorkerStep(w))
  /\ \A t \in Thread : WF_vars(part = "reactive" /\ Step(t))

ThreadsSpec == ThreadsInit /\ [][ThreadsNext]_threadVars /\ ThreadsFairness

-----------------------------------------------------------------------------
(* Nobody waits for ever: every phase of the work pool returns and its     *)
(* threads can always be joined, and every read, write and connection of a *)
(* reactive state returns, whatever the others do.                         *)
NobodyWaitsForEver == PoolProgress /\ CallsReturn
=============================================================================
