------------------------------ MODULE Folding ------------------------------
(***************************************************************************)
(* What a fold computes.  The folds of the community modules are recursive *)
(* functions on the subsets of a finite set; here their step is a          *)
(* parameter, so that a module that proves something about a fold takes an *)
(* instance of this one with the operator it folds, and an invariant of    *)
(* the fold as the induction hypothesis.                                   *)
(*                                                                         *)
(* Step takes what else the operator depends on, the element and the value *)
(* so far; Pick says which element of a set comes last.                    *)
(***************************************************************************)
EXTENDS Integers, WellFoundedInduction, TLAPS

CONSTANTS
  Step(_, _, _),
  Pick(_),
  Holds(_, _, _)     \* of the parameter, the elements so far and the value

FoldRule(p, base, g, T) == IF T = {} THEN base ELSE Step(p, Pick(T), g[T \ {Pick(T)}])

Iterated(p, base, S) ==
  CHOOSE g : g = [T \in SUBSET S |-> FoldRule(p, base, g, T)]

Folded(p, base, S) == Iterated(p, base, S)[S]

(* Taking the last element of every subset away comes to an end. *)
Measures(size, S) ==
  /\ size \in [SUBSET S -> Nat]
  /\ \A T \in SUBSET S : \A U \in SUBSET T : size[U] <= size[T]
  /\ \A T \in SUBSET S : T # {} => Pick(T) \in T /\ size[T \ {Pick(T)}] < size[T]

Picks(S) == \E size : Measures(size, S)

-----------------------------------------------------------------------------
(* Sets of numbers have a least member. *)
LEMMA LeastOf ==
  ASSUME NEW S \in SUBSET Nat, S # {}
  PROVE  \E n \in S : \A m \in S : n <= m
<1> DEFINE R == OpToRel(<, Nat)
<1>1. \A m, n \in Nat : m < n => <<m, n>> \in R
  BY DEF OpToRel
<1>2. IsWellFoundedOn(R, Nat)
  BY NatLessThanWellFounded
<1> HIDE DEF R
<1>3. PICK n \in S : \A m \in S : <<m, n>> \notin R
  BY <1>2, WFMin
<1>4. \A m \in S : ~(m < n)
  BY <1>1, <1>3
<1> QED
  BY <1>4

(* Induction over a set of numbers. *)
LEMMA EveryNumber ==
  ASSUME NEW S, 0 \in S, \A n \in Nat : n \in S => n + 1 \in S
  PROVE  Nat \subseteq S
<1> DEFINE B == Nat \ S
<1> SUFFICES ASSUME B # {} PROVE FALSE
  OBVIOUS
<1>1. PICK n \in B : \A m \in B : n <= m
  <2>1. B \in SUBSET Nat
    OBVIOUS
  <2> HIDE DEF B
  <2> QED
    BY <2>1, LeastOf
<1>2. n # 0
  BY <1>1
<1>3. n - 1 \in Nat /\ n - 1 \notin B /\ (n - 1) + 1 = n
  BY <1>1, <1>2
<1> QED
  BY <1>1, <1>3

(* There is a function on the subsets that the rule describes. *)
LEMMA FoldValues ==
  ASSUME NEW p, NEW base, NEW S, Picks(S)
  PROVE  \A T \in SUBSET S : Iterated(p, base, S)[T] = FoldRule(p, base, Iterated(p, base, S), T)
<1>1. PICK size : Measures(size, S)
  BY DEF Picks
<1>2. \A T \in SUBSET S : size[T] \in Nat
  BY <1>1 DEF Measures
<1>3. ASSUME NEW T \in SUBSET S, T # {}
      PROVE  /\ Pick(T) \in T /\ T \ {Pick(T)} \in SUBSET S
             /\ size[T \ {Pick(T)}] < size[T]
  BY <1>1, <1>3 DEF Measures
<1> DEFINE D(n) == {T \in SUBSET S : size[T] <= n}
           Good == {n \in Nat : \E g : \A T \in D(n) : g[T] = FoldRule(p, base, g, T)}
<1>4. 0 \in Good
  <2> DEFINE g == [T \in {{}} |-> base]
  <2>1. ASSUME NEW T \in D(0) PROVE g[T] = FoldRule(p, base, g, T)
    <3>1. T = {}
      <4> SUFFICES ASSUME T # {} PROVE FALSE
        OBVIOUS
      <4>1. size[T \ {Pick(T)}] < size[T] /\ size[T] <= 0
        BY <1>3
      <4>2. size[T \ {Pick(T)}] \in Nat /\ size[T] \in Nat
        BY <1>2
      <4> QED
        BY <4>1, <4>2
    <3> QED
      BY <3>1 DEF FoldRule
  <2> QED
    BY <2>1
<1>5. ASSUME NEW n \in Nat, n \in Good PROVE n + 1 \in Good
  <2>1. PICK g : \A T \in D(n) : g[T] = FoldRule(p, base, g, T)
    BY <1>5
  <2> DEFINE next(T) == Step(p, Pick(T), g[T \ {Pick(T)}])
             h == [T \in D(n + 1) |-> IF T = {} THEN base ELSE IF T \in D(n) THEN g[T] ELSE next(T)]
  <2>2. ASSUME NEW T \in D(n + 1) PROVE h[T] = FoldRule(p, base, h, T)
    <3>1. CASE T = {}
      BY <3>1 DEF FoldRule
    <3>2. CASE T # {}
      <4>1. T \in SUBSET S /\ size[T] \in Nat /\ size[T] <= n + 1
        BY <1>2
      <4> DEFINE U == T \ {Pick(T)}
      <4>2. U \in SUBSET S /\ size[U] < size[T] /\ size[U] \in Nat
        BY <1>2, <1>3, <3>2, <4>1
      <4>3. U \in D(n) /\ U \in D(n + 1)
        BY <4>1, <4>2
      <4>4. h[U] = g[U]
        BY <2>1, <4>3 DEF FoldRule
      <4>5. h[T] = Step(p, Pick(T), g[U])
        BY <2>1, <3>2 DEF FoldRule
      <4> QED
        BY <3>2, <4>4, <4>5 DEF FoldRule
    <3> QED
      BY <3>1, <3>2
  <2> HIDE DEF h
  <2> QED
    BY <2>2
<1>6. size[S] \in Nat /\ size[S] \in Good
  <2>1. size[S] \in Nat
    BY <1>2
  <2> HIDE DEF Good
  <2>2. Nat \subseteq Good
    BY <1>4, <1>5, EveryNumber
  <2> QED
    BY <2>1, <2>2
<1>7. PICK g : \A T \in D(size[S]) : g[T] = FoldRule(p, base, g, T)
  BY <1>6
<1> DEFINE f == [T \in SUBSET S |-> g[T]]
<1>8. ASSUME NEW T \in SUBSET S PROVE f[T] = FoldRule(p, base, f, T)
  <2>1. T \in D(size[S])
    BY <1>1 DEF Measures
  <2>2. g[T] = FoldRule(p, base, g, T)
    BY <1>7, <2>1
  <2>3. T # {} => f[T \ {Pick(T)}] = g[T \ {Pick(T)}]
    OBVIOUS
  <2> QED
    BY <2>2, <2>3 DEF FoldRule
<1>9. f = [T \in SUBSET S |-> FoldRule(p, base, f, T)]
  BY <1>8
<1> HIDE DEF f
<1> DEFINE rule(a) == [T \in SUBSET S |-> FoldRule(p, base, a, T)]
<1>10. f = rule(f)
  BY <1>9
<1>11. Iterated(p, base, S) = CHOOSE a : a = rule(a)
  BY DEF Iterated
<1> HIDE DEF rule
<1>12. Iterated(p, base, S) = rule(Iterated(p, base, S))
  BY <1>10, <1>11
<1>13. \A a : \A T \in SUBSET S : rule(a)[T] = FoldRule(p, base, a, T)
  BY DEF rule
<1> QED
  BY <1>12, <1>13

(* Who can pick from a set can pick from its subsets. *)
LEMMA SubsetPicks ==
  ASSUME NEW S, Picks(S), NEW T \in SUBSET S
  PROVE  Picks(T)
<1>1. PICK size : Measures(size, S)
  BY DEF Picks
<1> DEFINE smaller == [U \in SUBSET T |-> size[U]]
<1>2. \A U \in SUBSET T : U \in SUBSET S /\ smaller[U] = size[U] /\ U \ {Pick(U)} \in SUBSET T
  OBVIOUS
<1>3. smaller \in [SUBSET T -> Nat]
  BY <1>1 DEF Measures
<1> HIDE DEF smaller
<1>4. \A U \in SUBSET T : \A V \in SUBSET U : V \in SUBSET T /\ size[V] <= size[U]
  BY <1>1, <1>2 DEF Measures
<1>5. \A U \in SUBSET T : U # {} => Pick(U) \in U /\ size[U \ {Pick(U)}] < size[U]
  BY <1>1, <1>2 DEF Measures
<1>6. Measures(smaller, T)
  BY <1>2, <1>3, <1>4, <1>5 DEF Measures
<1> QED
  BY <1>6 DEF Picks

(* A fold over fewer elements is part of the same recursion. *)
LEMMA FoldAgrees ==
  ASSUME NEW p, NEW base, NEW S, Picks(S), NEW T \in SUBSET S
  PROVE  Iterated(p, base, S)[T] = Folded(p, base, T)
<1> DEFINE f == Iterated(p, base, S)
           g == Iterated(p, base, T)
<1>1. Picks(T)
  BY SubsetPicks
<1>2. \A U \in SUBSET S : f[U] = FoldRule(p, base, f, U)
  BY FoldValues
<1>3. \A U \in SUBSET T : g[U] = FoldRule(p, base, g, U)
  BY <1>1, FoldValues
<1> HIDE DEF f, g
<1>4. \A U \in SUBSET T : U \in SUBSET S /\ f[U] = FoldRule(p, base, f, U) /\ g[U] = FoldRule(p, base, g, U)
  BY <1>2, <1>3
<1>5. PICK size : Measures(size, T)
  BY <1>1 DEF Picks
<1>6. ASSUME NEW U \in SUBSET T, U # {}
      PROVE  /\ U \ {Pick(U)} \in SUBSET T /\ size[U] \in Nat
             /\ size[U \ {Pick(U)}] < size[U] /\ size[U \ {Pick(U)}] \in Nat
  BY <1>5, <1>6 DEF Measures
<1> DEFINE Good == {n \in Nat : \A U \in SUBSET T : size[U] <= n => f[U] = g[U]}
<1>7. 0 \in Good
  <2>1. ASSUME NEW U \in SUBSET T, size[U] <= 0, U # {} PROVE FALSE
    <3>1. size[U \ {Pick(U)}] < size[U] /\ size[U \ {Pick(U)}] \in Nat /\ size[U] \in Nat
      BY <1>6, <2>1
    <3> QED
      BY <2>1, <3>1
  <2> QED
    BY <1>4, <2>1 DEF FoldRule
<1>8. ASSUME NEW n \in Nat, n \in Good PROVE n + 1 \in Good
  <2> SUFFICES ASSUME NEW U \in SUBSET T, size[U] <= n + 1 PROVE f[U] = g[U]
    OBVIOUS
  <2>1. CASE U = {}
    BY <1>4, <2>1 DEF FoldRule
  <2>2. CASE U # {}
    <3>1. U \ {Pick(U)} \in SUBSET T /\ size[U \ {Pick(U)}] <= n
      <4>1. /\ U \ {Pick(U)} \in SUBSET T /\ size[U] \in Nat
            /\ size[U \ {Pick(U)}] < size[U] /\ size[U \ {Pick(U)}] \in Nat
        BY <1>6, <2>2
      <4> QED
        BY <4>1
    <3>2. f[U \ {Pick(U)}] = g[U \ {Pick(U)}]
      BY <1>8, <3>1
    <3> QED
      BY <1>4, <2>2, <3>2 DEF FoldRule
  <2> QED
    BY <2>1, <2>2
<1> HIDE DEF Good
<1>9. Nat \subseteq Good
  BY <1>7, <1>8, EveryNumber
<1>10. size[T] \in Good /\ size[T] <= size[T]
  BY <1>5, <1>9 DEF Measures
<1>11. f[T] = g[T]
  BY <1>10 DEF Good
<1> QED
  BY <1>11 DEF Folded, f, g

(* The recursion a fold is defined by. *)
THEOREM FoldRecursion ==
  ASSUME NEW p, NEW base, NEW S, Picks(S)
  PROVE  Folded(p, base, S) =
           IF S = {} THEN base ELSE Step(p, Pick(S), Folded(p, base, S \ {Pick(S)}))
<1>1. Iterated(p, base, S)[S] = FoldRule(p, base, Iterated(p, base, S), S)
  BY FoldValues
<1>2. Iterated(p, base, S)[S \ {Pick(S)}] = Folded(p, base, S \ {Pick(S)})
  BY FoldAgrees
<1> QED
  BY <1>1, <1>2 DEF Folded, FoldRule

(* An invariant of a fold: it holds of the start, and a step keeps it. *)
THEOREM FoldInvariant ==
  ASSUME NEW p, NEW base, NEW S, Picks(S),
         Holds(p, {}, base),
         \A T \in SUBSET S : \A v : T # {} /\ Holds(p, T \ {Pick(T)}, v) => Holds(p, T, Step(p, Pick(T), v))
  PROVE  Holds(p, S, Folded(p, base, S))
<1>1. \A T \in SUBSET S : Picks(T)
  BY SubsetPicks
<1>2. \A T \in SUBSET S : Folded(p, base, T) =
        IF T = {} THEN base ELSE Step(p, Pick(T), Folded(p, base, T \ {Pick(T)}))
  BY <1>1, FoldRecursion
<1>3. PICK size : Measures(size, S)
  BY DEF Picks
<1>4. ASSUME NEW T \in SUBSET S, T # {}
      PROVE  /\ T \ {Pick(T)} \in SUBSET S /\ size[T] \in Nat
             /\ size[T \ {Pick(T)}] < size[T] /\ size[T \ {Pick(T)}] \in Nat
  BY <1>3, <1>4 DEF Measures
<1> DEFINE Good == {n \in Nat : \A T \in SUBSET S : size[T] <= n => Holds(p, T, Folded(p, base, T))}
<1>5. 0 \in Good
  <2>1. ASSUME NEW T \in SUBSET S, size[T] <= 0, T # {} PROVE FALSE
    <3>1. size[T \ {Pick(T)}] < size[T] /\ size[T \ {Pick(T)}] \in Nat /\ size[T] \in Nat
      BY <1>4, <2>1
    <3> QED
      BY <2>1, <3>1
  <2> QED
    BY <1>2, <2>1
<1>6. ASSUME NEW n \in Nat, n \in Good PROVE n + 1 \in Good
  <2> SUFFICES ASSUME NEW T \in SUBSET S, size[T] <= n + 1
               PROVE  Holds(p, T, Folded(p, base, T))
    OBVIOUS
  <2>1. CASE T = {}
    BY <1>2, <2>1
  <2>2. CASE T # {}
    <3>1. T \ {Pick(T)} \in SUBSET S /\ size[T \ {Pick(T)}] <= n
      <4>1. /\ T \ {Pick(T)} \in SUBSET S /\ size[T] \in Nat
            /\ size[T \ {Pick(T)}] < size[T] /\ size[T \ {Pick(T)}] \in Nat
        BY <1>4, <2>2
      <4> QED
        BY <4>1
    <3>2. Holds(p, T \ {Pick(T)}, Folded(p, base, T \ {Pick(T)}))
      BY <1>6, <3>1
    <3> QED
      BY <1>2, <2>2, <3>2
  <2> QED
    BY <2>1, <2>2
<1> HIDE DEF Good
<1>7. Nat \subseteq Good
  BY <1>5, <1>6, EveryNumber
<1>8. size[S] \in Good /\ size[S] <= size[S]
  BY <1>3, <1>7 DEF Measures
<1> QED
  BY <1>8 DEF Good
=============================================================================
