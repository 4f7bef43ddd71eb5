---------------------------- MODULE ThreadProofs ----------------------------
(***************************************************************************)
(* Proofs about what several threads of the game enter at once.            *)
(*                                                                         *)
(* The worker pool of the game instance (WorkPool): for any number of      *)
(* threads, bundles and items, the items that draw from the generator of a *)
(* bundle, and their order, are those of the fixed division, and a phase   *)
(* is a fork and join.  Both rest on one idea: a thread works through      *)
(* consecutive items, so that how far it has come says what every one of   *)
(* its bundles has drawn.                                                  *)
(*                                                                         *)
(* The list of slots of a signal (SignalSlots): for any number of threads, *)
(* slots and payloads, an emission walks the list it copied.  What carries *)
(* the proof is that the count of a payload is exact at every step, also   *)
(* between the steps of write and write_for_overwrite.                     *)
(***************************************************************************)
EXTENDS WorkPool, SignalSlots, SequenceTheorems, WellFoundedInduction, FiniteSetTheorems, TLAPS


(* Sets of numbers have a least member. *)
LEMMA LeastNumber ==
  ASSUME NEW S \in SUBSET Nat, S # {}
  PROVE  \E n \in S : \A m \in S : n <= m
<1> DEFINE R == OpToRel(<, Nat)
<1>1. \A m, n \in Nat : m < n => <<m, n>> \in R
  BY DEF OpToRel
<1>2. IsWellFoundedOn(R, Nat)
  BY NatLessThanWellFounded
<1> HIDE DEF R
<1>3. PICK n \in S : \A m \in S : <<m, n>> \notin R
  BY <1>2, WFMin
<1>4. \A m \in S : ~(m < n)
  BY <1>1, <1>3
<1> QED
  BY <1>4

-----------------------------------------------------------------------------
(* Dealing out: where the chunks of a division begin.                      *)

Begin(n, parts, i) ==
  (i - 1) * (n \div parts) + (IF i - 1 <= n % parts THEN i - 1 ELSE n % parts)

LEMMA Division ==
  ASSUME NEW n \in Nat, NEW p \in Nat \ {0}
  PROVE  /\ n \div p \in Nat /\ n % p \in Nat /\ n % p < p
         /\ n = p * (n \div p) + (n % p)
<1>1. n \div p \in Nat
  OBVIOUS
<1>2. n % p \in Nat /\ n % p < p
  OBVIOUS
<1>3. n = p * (n \div p) + (n % p)
  OBVIOUS
<1> QED
  BY <1>1, <1>2, <1>3

LEMMA ChunkSizes ==
  ASSUME NEW n \in Nat, NEW parts \in Nat \ {0}, NEW i \in 1 .. parts
  PROVE  /\ ChunkSize(n, parts, i) \in Nat
         /\ Begin(n, parts, i + 1) = Begin(n, parts, i) + ChunkSize(n, parts, i)
         /\ Begin(n, parts, i) \in Nat
<1> DEFINE q == n \div parts
           r == n % parts
<1>1. q \in Nat /\ r \in Nat
  BY Division
<1>2. ChunkSize(n, parts, i) = q + (IF i <= r THEN 1 ELSE 0)
  BY DEF ChunkSize
<1>3. Begin(n, parts, i) = (i - 1) * q + (IF i - 1 <= r THEN i - 1 ELSE r)
  BY DEF Begin
<1>4. Begin(n, parts, i + 1) = i * q + (IF i <= r THEN i ELSE r)
  BY DEF Begin
<1> HIDE DEF q, r
<1>5. (i - 1) * q \in Nat /\ i * q = (i - 1) * q + q
  BY <1>1
<1> QED
  BY <1>1, <1>2, <1>3, <1>4, <1>5

LEMMA Ends ==
  ASSUME NEW n \in Nat, NEW parts \in Nat \ {0}
  PROVE  Begin(n, parts, 1) = 0 /\ Begin(n, parts, parts + 1) = n
<1> DEFINE q == n \div parts
           r == n % parts
<1>1. q \in Nat /\ r \in Nat /\ r < parts /\ n = parts * q + r
  BY Division
<1>2. /\ Begin(n, parts, 1) = 0 * q + (IF 0 <= r THEN 0 ELSE r)
      /\ Begin(n, parts, parts + 1) = parts * q + (IF parts <= r THEN parts ELSE r)
  BY DEF Begin
<1> HIDE DEF q, r
<1> QED
  BY <1>1, <1>2

LEMMA BeginGrows ==
  ASSUME NEW n \in Nat, NEW parts \in Nat \ {0},
         NEW i \in 1 .. parts + 1, NEW j \in 1 .. parts + 1, i <= j
  PROVE  /\ Begin(n, parts, i) \in Nat /\ Begin(n, parts, j) \in Nat
         /\ Begin(n, parts, i) <= Begin(n, parts, j) /\ Begin(n, parts, j) <= n
<1> DEFINE q == n \div parts
           r == n % parts
           low(k) == IF k - 1 <= r THEN k - 1 ELSE r
<1>1. q \in Nat /\ r \in Nat /\ r < parts /\ n = parts * q + r
  BY Division
<1>2. \A k : Begin(n, parts, k) = (k - 1) * q + low(k)
  BY DEF Begin
<1> HIDE DEF q, r
<1>3. /\ low(i) \in Nat /\ low(j) \in Nat /\ low(i) <= low(j) /\ low(j) <= r
  BY <1>1
<1> HIDE DEF low
<1>4. /\ (j - 1) * q = (i - 1) * q + (j - i) * q /\ parts * q = (j - 1) * q + (parts + 1 - j) * q
      /\ (i - 1) * q \in Nat /\ (j - i) * q \in Nat /\ (parts + 1 - j) * q \in Nat
  BY <1>1
<1> QED
  BY <1>1, <1>2, <1>3, <1>4

LEMMA ChunkBegins ==
  ASSUME NEW n \in Nat, NEW parts \in Nat \ {0}
  PROVE  ChunkBegin(n, parts) = [i \in 1 .. parts |-> Begin(n, parts, i)]
<1> DEFINE rule(f) == [i \in 1 .. parts |->
                        IF i = 1 THEN 0 ELSE f[i - 1] + ChunkSize(n, parts, i - 1)]
           g == [i \in 1 .. parts |-> Begin(n, parts, i)]
<1>1. g = rule(g)
  <2>1. ASSUME NEW i \in 1 .. parts
        PROVE  g[i] = IF i = 1 THEN 0 ELSE g[i - 1] + ChunkSize(n, parts, i - 1)
    <3>1. CASE i = 1
      BY <3>1, Ends
    <3>2. CASE i # 1
      <4>1. i - 1 \in 1 .. parts /\ (i - 1) + 1 = i
        BY <3>2
      <4> HIDE DEF g
      <4>2. Begin(n, parts, i) = Begin(n, parts, i - 1) + ChunkSize(n, parts, i - 1)
        BY <4>1, ChunkSizes
      <4>3. g[i] = Begin(n, parts, i) /\ g[i - 1] = Begin(n, parts, i - 1)
        BY <4>1 DEF g
      <4> QED
        BY <3>2, <4>2, <4>3
    <3> QED
      BY <3>1, <3>2
  <2> QED
    BY <2>1
<1>2. ASSUME NEW f, f = rule(f) PROVE f = g
  <2> DEFINE S == {i \in 1 .. parts : f[i] # g[i]}
  <2>1. S = {}
    <3> SUFFICES ASSUME S # {} PROVE FALSE
      OBVIOUS
    <3>0. S \in SUBSET Nat
      OBVIOUS
    <3> HIDE DEF S
    <3>1. PICK i \in S : \A j \in S : i <= j
      BY <3>0, LeastNumber
    <3> USE DEF S
    <3>2. i \in 1 .. parts /\ f[i] # g[i]
      BY <3>1
    <3>3. f[i] = (IF i = 1 THEN 0 ELSE f[i - 1] + ChunkSize(n, parts, i - 1))
      BY <1>2, <3>2
    <3>4. g[i] = (IF i = 1 THEN 0 ELSE g[i - 1] + ChunkSize(n, parts, i - 1))
      BY <1>1, <3>2
    <3>5. i # 1 => f[i - 1] = g[i - 1]
      BY <3>1, <3>2
    <3> QED
      BY <3>2, <3>3, <3>4, <3>5
  <2>2. DOMAIN f = 1 .. parts /\ f = [i \in 1 .. parts |-> f[i]]
    BY <1>2
  <2>3. \A i \in 1 .. parts : f[i] = g[i]
    BY <2>1
  <2> QED
    BY <2>2, <2>3
<1>3. ChunkBegin(n, parts) = CHOOSE f : f = rule(f)
  BY DEF ChunkBegin
<1> HIDE DEF rule, g
<1>4. ChunkBegin(n, parts) = g
  BY <1>1, <1>2, <1>3
<1> QED
  BY <1>4 DEF g

-----------------------------------------------------------------------------
(* Pieces of one sequence, put together again.                             *)

Piece(f, a, b) == [k \in 1 .. b - a |-> f[a + k]]

LEMMA PieceIsSeq ==
  ASSUME NEW f, NEW a \in Nat, NEW b \in Nat, a <= b
  PROVE  /\ Piece(f, a, b) \in Seq({f[i] : i \in Nat}) /\ Len(Piece(f, a, b)) = b - a
         /\ \A k \in 1 .. b - a : Piece(f, a, b)[k] = f[a + k]
<1>1. b - a \in Nat
  OBVIOUS
<1>2. \A k \in 1 .. b - a : a + k \in Nat
  OBVIOUS
<1> QED
  BY <1>1, <1>2 DEF Piece

LEMMA PiecesJoin ==
  ASSUME NEW f, NEW a \in Nat, NEW b \in Nat, NEW c \in Nat, a <= b, b <= c
  PROVE  Piece(f, a, b) \o Piece(f, b, c) = Piece(f, a, c)
<1> DEFINE S == {f[i] : i \in Nat}
           left == Piece(f, a, b)
           right == Piece(f, b, c)
           both == Piece(f, a, c)
<1>0. left \in Seq(S) /\ Len(left) = b - a /\ \A k \in 1 .. b - a : left[k] = f[a + k]
  BY PieceIsSeq
<1>1. right \in Seq(S) /\ Len(right) = c - b /\ \A k \in 1 .. c - b : right[k] = f[b + k]
  BY PieceIsSeq
<1>2. both \in Seq(S) /\ Len(both) = c - a /\ \A k \in 1 .. c - a : both[k] = f[a + k]
  <2>1. a <= c
    OBVIOUS
  <2> QED
    BY <2>1, PieceIsSeq
<1> HIDE DEF left, right, both, S
<1>3. /\ left \o right \in Seq(S) /\ Len(left \o right) = c - a
      /\ \A k \in 1 .. c - a : (left \o right)[k] = IF k <= b - a THEN left[k] ELSE right[k - (b - a)]
  <2>1. /\ left \o right \in Seq(S) /\ Len(left \o right) = Len(left) + Len(right)
        /\ \A k \in 1 .. Len(left) + Len(right) :
             (left \o right)[k] = IF k <= Len(left) THEN left[k] ELSE right[k - Len(left)]
    BY <1>0, <1>1, ConcatProperties
  <2>2. Len(left) = b - a /\ Len(left) + Len(right) = c - a
    BY <1>0, <1>1
  <2> QED
    BY <2>1, <2>2
<1>4. ASSUME NEW k \in 1 .. c - a PROVE (left \o right)[k] = both[k]
  <2>1. CASE k <= b - a
    <3>1. k \in 1 .. b - a
      BY <2>1
    <3>2. (left \o right)[k] = left[k]
      BY <1>3, <2>1
    <3> QED
      BY <1>0, <1>2, <3>1, <3>2
  <2>2. CASE ~(k <= b - a)
    <3>1. k - (b - a) \in 1 .. c - b /\ b + (k - (b - a)) = a + k
      BY <2>2
    <3> QED
      BY <1>1, <1>2, <1>3, <2>2, <3>1
  <2> QED
    BY <2>1, <2>2
<1>5. left \o right = both
  BY <1>2, <1>3, <1>4, SeqEqual
<1> QED
  BY <1>5 DEF left, right, both

LEMMA Flattened ==
  ASSUME NEW m \in Nat, NEW C \in [1 .. m + 1 -> Nat],
         \A i, j \in 1 .. m + 1 : i <= j => C[i] <= C[j],
         NEW f, NEW seqs, seqs = [j \in 1 .. m |-> Piece(f, C[j], C[j + 1])]
  PROVE  FlattenSeq(seqs) = Piece(f, C[1], C[m + 1])
<1>1. Len(seqs) = m
  OBVIOUS
<1>2. CASE m = 0
  <2>1. FlattenSeq(seqs) = seqs
    BY <1>1, <1>2 DEF FlattenSeq
  <2>2. Piece(f, C[1], C[m + 1]) = [k \in {} |-> f[C[1] + k]] /\ seqs = [k \in {} |-> f[C[1] + k]]
    <3>1. 1 .. C[m + 1] - C[1] = {} /\ 1 .. m = {}
      BY <1>2
    <3> QED
      BY <3>1 DEF Piece
  <2> QED
    BY <2>1, <2>2
<1>3. CASE m # 0
  <2> DEFINE rule(g) == [i \in 1 .. m |-> IF i = 1 THEN seqs[i] ELSE g[i - 1] \o seqs[i]]
             h == [i \in 1 .. m |-> Piece(f, C[1], C[i + 1])]
  <2>1. ASSUME NEW i \in 1 .. m
        PROVE  h[i] = IF i = 1 THEN seqs[i] ELSE h[i - 1] \o seqs[i]
    <3>1. seqs[i] = Piece(f, C[i], C[i + 1])
      OBVIOUS
    <3>2. CASE i = 1
      BY <3>1, <3>2
    <3>3. CASE i # 1
      <4>1. i - 1 \in 1 .. m /\ (i - 1) + 1 = i
        BY <3>3
      <4>2. h[i - 1] = Piece(f, C[1], C[i]) /\ h[i] = Piece(f, C[1], C[i + 1])
        BY <4>1
      <4>3. C[1] \in Nat /\ C[i] \in Nat /\ C[i + 1] \in Nat /\ C[1] <= C[i] /\ C[i] <= C[i + 1]
        <5>1. 1 \in 1 .. m + 1 /\ i \in 1 .. m + 1 /\ i + 1 \in 1 .. m + 1 /\ 1 <= i /\ i <= i + 1
          OBVIOUS
        <5> QED
          BY <5>1
      <4>4. Piece(f, C[1], C[i]) \o Piece(f, C[i], C[i + 1]) = Piece(f, C[1], C[i + 1])
        BY <4>3, PiecesJoin
      <4> QED
        BY <3>1, <3>3, <4>2, <4>4
    <3> QED
      BY <3>2, <3>3
  <2>2. h = rule(h)
    BY <2>1
  <2>3. ASSUME NEW g, g = rule(g) PROVE g = h
    <3> DEFINE S == {i \in 1 .. m : g[i] # h[i]}
    <3>1. S = {}
      <4> SUFFICES ASSUME S # {} PROVE FALSE
        OBVIOUS
      <4>1. S \in SUBSET Nat
        OBVIOUS
      <4> HIDE DEF S
      <4>2. PICK i \in S : \A j \in S : i <= j
        BY <4>1, LeastNumber
      <4>3. i \in 1 .. m /\ g[i] # h[i]
        BY <4>2 DEF S
      <4> HIDE DEF h
      <4>4. g[i] = IF i = 1 THEN seqs[i] ELSE g[i - 1] \o seqs[i]
        BY <2>3, <4>3
      <4>5. h[i] = IF i = 1 THEN seqs[i] ELSE h[i - 1] \o seqs[i]
        BY <2>1, <4>3
      <4>6. i # 1 => g[i - 1] = h[i - 1]
        <5> SUFFICES ASSUME i # 1 PROVE g[i - 1] = h[i - 1]
          OBVIOUS
        <5>1. i - 1 \in 1 .. m /\ ~(i <= i - 1)
          BY <4>3
        <5>2. i - 1 \notin S
          BY <4>2, <5>1
        <5> QED
          BY <5>1, <5>2 DEF S
      <4> QED
        BY <4>3, <4>4, <4>5, <4>6
    <3>2. g = [i \in 1 .. m |-> g[i]]
      BY <2>3
    <3>3. \A i \in 1 .. m : g[i] = h[i]
      BY <3>1
    <3> QED
      BY <3>2, <3>3
  <2>4. FlattenSeq(seqs) = (CHOOSE g : g = rule(g))[m]
    BY <1>1, <1>3 DEF FlattenSeq
  <2> HIDE DEF rule
  <2>5. h[m] = Piece(f, C[1], C[m + 1])
    BY <1>3
  <2> HIDE DEF h
  <2>6. (CHOOSE g : g = rule(g)) = h
    BY <2>2, <2>3
  <2> QED
    BY <2>4, <2>5, <2>6
<1> QED
  BY <1>2, <1>3

-----------------------------------------------------------------------------
(* Every number dealt out is in one part, and the parts are consecutive.   *)

LEMMA InSomePart ==
  ASSUME NEW n \in Nat, NEW parts \in Nat \ {0}, NEW c \in 1 .. n
  PROVE  \E i \in 1 .. parts : Begin(n, parts, i) < c /\ c <= Begin(n, parts, i + 1)
<1> DEFINE S == {i \in 1 .. parts + 1 : c <= Begin(n, parts, i)}
<1>1. S \in SUBSET Nat /\ parts + 1 \in S
  BY Ends
<1> HIDE DEF S
<1>2. PICK k \in S : \A j \in S : k <= j
  BY <1>1, LeastNumber
<1>3. k \in 1 .. parts + 1 /\ c <= Begin(n, parts, k)
  BY <1>2 DEF S
<1>4. k # 1
  BY <1>3, Ends
<1>5. k - 1 \in 1 .. parts /\ (k - 1) + 1 = k /\ k - 1 \in 1 .. parts + 1
  BY <1>3, <1>4
<1>6. k - 1 \notin S
  BY <1>2, <1>3
<1>7. ~(c <= Begin(n, parts, k - 1)) /\ Begin(n, parts, k - 1) \in Nat
  BY <1>5, <1>6, ChunkSizes DEF S
<1> QED
  BY <1>3, <1>5, <1>7

LEMMA InOnePart ==
  ASSUME NEW n \in Nat, NEW parts \in Nat \ {0}, NEW c \in Nat,
         NEW i \in 1 .. parts, Begin(n, parts, i) < c, c <= Begin(n, parts, i + 1),
         NEW j \in 1 .. parts, Begin(n, parts, j) < c, c <= Begin(n, parts, j + 1)
  PROVE  i = j
<1>1. CASE i < j
  <2>1. /\ i + 1 \in 1 .. parts + 1 /\ j \in 1 .. parts + 1 /\ i + 1 <= j
    BY <1>1
  <2>2. /\ Begin(n, parts, i + 1) <= Begin(n, parts, j)
        /\ Begin(n, parts, i + 1) \in Nat /\ Begin(n, parts, j) \in Nat
    BY <2>1, BeginGrows
  <2> QED
    BY <2>2
<1>2. CASE j < i
  <2>1. /\ j + 1 \in 1 .. parts + 1 /\ i \in 1 .. parts + 1 /\ j + 1 <= i
    BY <1>2
  <2>2. /\ Begin(n, parts, j + 1) <= Begin(n, parts, i)
        /\ Begin(n, parts, j + 1) \in Nat /\ Begin(n, parts, i) \in Nat
    BY <2>1, BeginGrows
  <2> QED
    BY <2>2
<1> QED
  BY <1>1, <1>2

Count == [k \in Nat |-> k]

LEMMA ChunkIsPiece ==
  ASSUME NEW n \in Nat, NEW parts \in Nat \ {0}, NEW i \in 1 .. parts
  PROVE  /\ Chunk(n, parts, i) = Piece(Count, Begin(n, parts, i), Begin(n, parts, i + 1))
         /\ Begin(n, parts, i) \in Nat /\ Begin(n, parts, i + 1) \in Nat
         /\ Begin(n, parts, i) <= Begin(n, parts, i + 1)
<1> DEFINE a == Begin(n, parts, i)
           b == Begin(n, parts, i + 1)
<1>1. /\ ChunkSize(n, parts, i) \in Nat /\ b = a + ChunkSize(n, parts, i) /\ a \in Nat
  BY ChunkSizes
<1>2. ChunkBegin(n, parts)[i] = a
  BY ChunkBegins
<1> HIDE DEF a, b
<1>3. Chunk(n, parts, i) = [k \in 1 .. b - a |-> a + k]
  <2>1. ChunkSize(n, parts, i) = b - a
    BY <1>1
  <2> QED
    BY <1>2, <2>1 DEF Chunk
<1>4. Piece(Count, a, b) = [k \in 1 .. b - a |-> a + k]
  <2>1. \A k \in 1 .. b - a : Count[a + k] = a + k
    BY <1>1 DEF Count
  <2> QED
    BY <2>1 DEF Piece
<1>5. a \in Nat /\ b \in Nat /\ a <= b
  BY <1>1
<1> QED
  BY <1>3, <1>4, <1>5 DEF a, b

-----------------------------------------------------------------------------
(* The items of a bundle, the bundles of a thread, and so its items.       *)

ItemsBegin(n, b) == Begin(n, WORK_BUNDLE_COUNT, b)
BundlesBegin(T, w) == Begin(WORK_BUNDLE_COUNT, T, w)
BundlesOf(T, w) == BundlesBegin(T, w) + 1 .. BundlesBegin(T, w + 1)
From(n, T, w) == ItemsBegin(n, BundlesBegin(T, w) + 1)
To(n, T, w) == ItemsBegin(n, BundlesBegin(T, w + 1) + 1)

(* An item with the bundle it belongs to. *)
Drawer(n) ==
  [c \in Nat |-> <<CHOOSE b \in Bundles : ItemsBegin(n, b) < c /\ c <= ItemsBegin(n, b + 1), c>>]

LEMMA DrawerIs ==
  ASSUME NEW n \in Nat, NEW b \in Bundles, NEW c \in Nat, ItemsBegin(n, b) < c, c <= ItemsBegin(n, b + 1)
  PROVE  Drawer(n)[c] = <<b, c>>
<1>1. \A a \in Bundles : ItemsBegin(n, a) < c /\ c <= ItemsBegin(n, a + 1) => a = b
  BY InOnePart, WorkAssumption DEF ItemsBegin, Bundles
<1>2. (CHOOSE a \in Bundles : ItemsBegin(n, a) < c /\ c <= ItemsBegin(n, a + 1)) = b
  BY <1>1
<1> QED
  BY <1>2 DEF Drawer

LEMMA BundlesAre ==
  ASSUME NEW T \in 1 .. WORK_BUNDLE_COUNT, NEW w \in 1 .. T
  PROVE  /\ BundlesBegin(T, w) \in Nat /\ BundlesBegin(T, w + 1) \in Nat
         /\ BundlesBegin(T, w) <= BundlesBegin(T, w + 1) /\ BundlesBegin(T, w + 1) <= WORK_BUNDLE_COUNT
         /\ BundlesOf(T, w) \subseteq Bundles
<1>1. /\ WORK_BUNDLE_COUNT \in Nat /\ T \in Nat \ {0} /\ w \in 1 .. T + 1 /\ w + 1 \in 1 .. T + 1 /\ w <= w + 1
  BY WorkAssumption
<1>2. /\ BundlesBegin(T, w) \in Nat /\ BundlesBegin(T, w + 1) \in Nat
      /\ BundlesBegin(T, w) <= BundlesBegin(T, w + 1) /\ BundlesBegin(T, w + 1) <= WORK_BUNDLE_COUNT
  BY <1>1, BeginGrows DEF BundlesBegin
<1> QED
  BY <1>1, <1>2 DEF BundlesOf, Bundles

LEMMA ItemsAre ==
  ASSUME NEW n \in Nat, NEW b \in Bundles
  PROVE  /\ ItemsBegin(n, b) \in Nat /\ ItemsBegin(n, b + 1) \in Nat
         /\ ItemsBegin(n, b) <= ItemsBegin(n, b + 1) /\ ItemsBegin(n, b + 1) <= n
<1>1. /\ WORK_BUNDLE_COUNT \in Nat \ {0} /\ b \in 1 .. WORK_BUNDLE_COUNT + 1
      /\ b + 1 \in 1 .. WORK_BUNDLE_COUNT + 1 /\ b <= b + 1
  BY WorkAssumption DEF Bundles
<1> QED
  BY <1>1, BeginGrows DEF ItemsBegin

LEMMA ItemsGrow ==
  ASSUME NEW n \in Nat, NEW a \in 1 .. WORK_BUNDLE_COUNT + 1, NEW b \in 1 .. WORK_BUNDLE_COUNT + 1, a <= b
  PROVE  /\ ItemsBegin(n, a) \in Nat /\ ItemsBegin(n, b) \in Nat
         /\ ItemsBegin(n, a) <= ItemsBegin(n, b) /\ ItemsBegin(n, b) <= n
BY WorkAssumption, BeginGrows DEF ItemsBegin

LEMMA SpanOf ==
  ASSUME NEW n \in Nat, NEW T \in 1 .. WORK_BUNDLE_COUNT, NEW w \in 1 .. T
  PROVE  From(n, T, w) \in Nat /\ To(n, T, w) \in Nat /\ From(n, T, w) <= To(n, T, w) /\ To(n, T, w) <= n
<1>1. /\ BundlesBegin(T, w) + 1 \in 1 .. WORK_BUNDLE_COUNT + 1
      /\ BundlesBegin(T, w + 1) + 1 \in 1 .. WORK_BUNDLE_COUNT + 1
      /\ BundlesBegin(T, w) + 1 <= BundlesBegin(T, w + 1) + 1
  <2>1. /\ BundlesBegin(T, w) \in Nat /\ BundlesBegin(T, w + 1) \in Nat /\ WORK_BUNDLE_COUNT \in Nat
        /\ BundlesBegin(T, w) <= BundlesBegin(T, w + 1) /\ BundlesBegin(T, w + 1) <= WORK_BUNDLE_COUNT
    BY BundlesAre, WorkAssumption
  <2> QED
    BY <2>1
<1> QED
  BY <1>1, ItemsGrow DEF From, To

LEMMA WorkIsPiece ==
  ASSUME NEW kind \in ItemKinds, items[kind] \in Nat, threads \in 1 .. WORK_BUNDLE_COUNT, NEW w \in Workers
  PROVE  WorkOf(w, kind) = Piece(Drawer(items[kind]), From(items[kind], threads, w), To(items[kind], threads, w))
<1> DEFINE n == items[kind]
           g == BundlesBegin(threads, w)
           e == BundlesBegin(threads, w + 1)
           m == e - g
           bundles == Chunk(WORK_BUNDLE_COUNT, threads, w)
           Of(b) == [k \in DOMAIN ItemsOf(kind, b) |-> <<b, ItemsOf(kind, b)[k]>>]
           seqs == [j \in DOMAIN bundles |-> Of(bundles[j])]
           C == [j \in 1 .. m + 1 |-> ItemsBegin(n, g + j)]
<1>0. threads \in Nat \ {0} /\ w \in 1 .. threads /\ WORK_BUNDLE_COUNT \in Nat
  BY WorkAssumption DEF Workers
<1>1. g \in Nat /\ e \in Nat /\ g <= e /\ e <= WORK_BUNDLE_COUNT /\ n \in Nat
  BY BundlesAre DEF Workers
<1>2. ASSUME NEW b \in Bundles PROVE Of(b) = Piece(Drawer(n), ItemsBegin(n, b), ItemsBegin(n, b + 1))
  <2> DEFINE x == ItemsBegin(n, b)
             y == ItemsBegin(n, b + 1)
  <2>1. ItemsOf(kind, b) = Piece(Count, x, y) /\ x \in Nat /\ y \in Nat /\ x <= y
    BY <1>1, ChunkIsPiece, WorkAssumption DEF ItemsOf, ItemsBegin, Bundles
  <2>2. \A c \in Nat : x < c /\ c <= y => Drawer(n)[c] = <<b, c>>
    BY <1>1, DrawerIs
  <2> HIDE DEF x, y, n
  <2>3. \A k \in 1 .. y - x : Piece(Count, x, y)[k] = x + k
    BY <2>1 DEF Piece, Count
  <2>4. \A k \in 1 .. y - x : Drawer(n)[x + k] = <<b, x + k>>
    BY <2>1, <2>2
  <2>5. DOMAIN Piece(Count, x, y) = 1 .. y - x
    BY DEF Piece
  <2>6. Of(b) = [k \in 1 .. y - x |-> <<b, x + k>>]
    BY <2>1, <2>3, <2>5
  <2>7. Piece(Drawer(n), x, y) = [k \in 1 .. y - x |-> <<b, x + k>>]
    BY <2>4 DEF Piece
  <2> QED
    BY <2>6, <2>7 DEF x, y
<1>3. DOMAIN bundles = 1 .. m /\ \A j \in 1 .. m : bundles[j] = g + j
  <2>1. bundles = Piece(Count, g, e)
    BY <1>0, ChunkIsPiece DEF BundlesBegin
  <2> QED
    BY <1>1, <2>1 DEF Piece, Count
<1> HIDE DEF Of, bundles
<1> HIDE DEF g, e
<1>4. m \in Nat /\ \A j \in 1 .. m : g + j \in Bundles
  BY <1>0, <1>1 DEF Bundles
<1>5. C \in [1 .. m + 1 -> Nat] /\ \A i, j \in 1 .. m + 1 : i <= j => C[i] <= C[j]
  <2>1. \A j \in 1 .. m + 1 : g + j \in 1 .. WORK_BUNDLE_COUNT + 1
    BY <1>1, WorkAssumption
  <2>2. ASSUME NEW i \in 1 .. m + 1, NEW j \in 1 .. m + 1, i <= j
        PROVE  ItemsBegin(n, g + i) \in Nat /\ ItemsBegin(n, g + i) <= ItemsBegin(n, g + j)
    <3>1. g + i \in 1 .. WORK_BUNDLE_COUNT + 1 /\ g + j \in 1 .. WORK_BUNDLE_COUNT + 1 /\ g + i <= g + j
      BY <1>1, <2>1, <2>2
    <3> QED
      BY <1>1, <3>1, ItemsGrow
  <2> HIDE DEF n, m
  <2> QED
    BY <1>4, <2>2
<1>6. seqs = [j \in 1 .. m |-> Piece(Drawer(n), C[j], C[j + 1])]
  <2>1. ASSUME NEW j \in 1 .. m
        PROVE  Of(bundles[j]) = Piece(Drawer(n), C[j], C[j + 1])
    <3>1. /\ C[j] = ItemsBegin(n, g + j) /\ C[j + 1] = ItemsBegin(n, (g + j) + 1)
          /\ bundles[j] = g + j
      <4>1. j \in 1 .. m + 1 /\ j + 1 \in 1 .. m + 1 /\ g + (j + 1) = (g + j) + 1
        BY <1>1, <1>4
      <4> HIDE DEF n, m
      <4> QED
        BY <1>3, <4>1
    <3> QED
      BY <1>2, <1>4, <3>1
  <2> QED
    BY <1>3, <2>1
<1>7. C[1] = From(n, threads, w) /\ C[m + 1] = To(n, threads, w)
  <2>1. 1 \in 1 .. m + 1 /\ m + 1 \in 1 .. m + 1 /\ g + (m + 1) = e + 1
    BY <1>1, <1>4
  <2> QED
    BY <2>1 DEF From, To, g, e
<1>8. WorkOf(w, kind) = FlattenSeq(seqs)
  BY DEF WorkOf, Of, bundles
<1> HIDE DEF C, seqs, m, n
<1>9. FlattenSeq(seqs) = Piece(Drawer(n), C[1], C[m + 1])
  BY <1>4, <1>5, <1>6, Flattened
<1> QED
  BY <1>7, <1>8, <1>9 DEF n

-----------------------------------------------------------------------------
(* How far a thread has come says what its bundles have drawn.             *)

Clip(n, b, p) == IF p <= ItemsBegin(n, b) THEN ItemsBegin(n, b)
                 ELSE IF p <= ItemsBegin(n, b + 1) THEN p ELSE ItemsBegin(n, b + 1)

DrawnTo(n, T, dr, w, p) ==
  \A b \in BundlesOf(T, w) : dr[b] = Piece(Count, ItemsBegin(n, b), Clip(n, b, p))

Progress(n, T, wpt, wk, td, dr) ==
  \A w \in 1 .. T : \E p \in From(n, T, w) .. To(n, T, w) :
    /\ wpt[w] # NONE => p = From(n, T, w)
    /\ wk[w] = "running" => td[w] = Piece(Drawer(n), p, To(n, T, w))
    /\ wpt[w] = NONE /\ wk[w] # "running" => p = To(n, T, w)
    /\ DrawnTo(n, T, dr, w, p)

LEMMA EmptyPiece ==
  ASSUME NEW f, NEW g, NEW a \in Nat
  PROVE  Piece(f, a, a) = <<>>
<1>1. 1 .. a - a = {}
  OBVIOUS
<1>2. Piece(f, a, a) = [k \in {} |-> f[a + k]]
  BY <1>1 DEF Piece
<1> QED
  BY <1>2

LEMMA LongerPiece ==
  ASSUME NEW f, NEW a \in Nat, NEW b \in Nat, a < b
  PROVE  /\ Piece(f, a, b) # <<>> /\ Head(Piece(f, a, b)) = f[a + 1]
         /\ Tail(Piece(f, a, b)) = Piece(f, a + 1, b)
<1> DEFINE s == Piece(f, a, b)
           S == {f[i] : i \in Nat}
<1>0. a <= b
  OBVIOUS
<1>1. s \in Seq(S) /\ Len(s) = b - a /\ \A k \in 1 .. b - a : s[k] = f[a + k]
  BY <1>0, PieceIsSeq
<1>2. /\ Piece(f, a + 1, b) \in Seq(S) /\ Len(Piece(f, a + 1, b)) = b - (a + 1)
      /\ \A k \in 1 .. b - (a + 1) : Piece(f, a + 1, b)[k] = f[(a + 1) + k]
  <2>1. a + 1 \in Nat /\ a + 1 <= b
    OBVIOUS
  <2> QED
    BY <2>1, PieceIsSeq
<1> HIDE DEF s, S
<1>3. s # <<>> /\ Head(s) = s[1]
  BY <1>1
<1>4. /\ Tail(s) \in Seq(S) /\ Len(Tail(s)) = Len(s) - 1
      /\ \A k \in 1 .. Len(s) - 1 : Tail(s)[k] = s[k + 1]
  BY <1>1, <1>3, HeadTailProperties
<1>5. Tail(s) = Piece(f, a + 1, b)
  <2>1. Len(Tail(s)) = Len(Piece(f, a + 1, b))
    BY <1>1, <1>2, <1>4
  <2>2. ASSUME NEW k \in 1 .. Len(Tail(s)) PROVE Tail(s)[k] = Piece(f, a + 1, b)[k]
    <3>1. /\ k \in 1 .. Len(s) - 1 /\ k + 1 \in 1 .. b - a /\ k \in 1 .. b - (a + 1)
          /\ a + (k + 1) = (a + 1) + k
      BY <1>1, <1>4
    <3> QED
      BY <1>1, <1>2, <1>4, <3>1
  <2> QED
    BY <1>2, <1>4, <2>1, <2>2, SeqEqual
<1> QED
  BY <1>1, <1>3, <1>5 DEF s

LEMMA CountedOn ==
  ASSUME NEW a \in Nat, NEW c \in Nat, a < c
  PROVE  Append(Piece(Count, a, c - 1), c) = Piece(Count, a, c)
<1>1. /\ Piece(Count, a, c - 1) \in Seq(Nat) /\ Len(Piece(Count, a, c - 1)) = (c - 1) - a
      /\ \A k \in 1 .. (c - 1) - a : Piece(Count, a, c - 1)[k] = a + k
  BY DEF Piece, Count
<1>2. /\ Piece(Count, a, c) \in Seq(Nat) /\ Len(Piece(Count, a, c)) = c - a
      /\ \A k \in 1 .. c - a : Piece(Count, a, c)[k] = a + k
  BY DEF Piece, Count
<1> DEFINE s == Piece(Count, a, c - 1)
           t == Piece(Count, a, c)
<1> HIDE DEF s, t
<1>3. s \in Seq(Nat) /\ Len(s) = (c - 1) - a /\ \A k \in 1 .. (c - 1) - a : s[k] = a + k
  BY <1>1 DEF s
<1>4. t \in Seq(Nat) /\ Len(t) = c - a /\ \A k \in 1 .. c - a : t[k] = a + k
  BY <1>2 DEF t
<1>5. /\ Append(s, c) \in Seq(Nat) /\ Len(Append(s, c)) = c - a
      /\ \A k \in 1 .. c - a : Append(s, c)[k] = a + k
  BY <1>3
<1>6. Append(s, c) = t
  BY <1>4, <1>5, SeqEqual
<1> QED
  BY <1>6 DEF s, t

(* A bundle is the work of exactly one thread. *)
LEMMA OneThread ==
  ASSUME NEW T \in 1 .. WORK_BUNDLE_COUNT, NEW b \in Bundles
  PROVE  /\ \E w \in 1 .. T : b \in BundlesOf(T, w)
         /\ \A v, w \in 1 .. T : b \in BundlesOf(T, v) /\ b \in BundlesOf(T, w) => v = w
<1>1. /\ T \in Nat \ {0} /\ WORK_BUNDLE_COUNT \in Nat /\ b \in 1 .. WORK_BUNDLE_COUNT /\ b \in Nat
  BY WorkAssumption DEF Bundles
<1>2. ASSUME NEW w \in 1 .. T
      PROVE  b \in BundlesOf(T, w) <=> /\ Begin(WORK_BUNDLE_COUNT, T, w) < b
                                       /\ b <= Begin(WORK_BUNDLE_COUNT, T, w + 1)
  <2>1. BundlesBegin(T, w) \in Nat /\ BundlesBegin(T, w + 1) \in Nat
    BY BundlesAre
  <2>2. b \in BundlesOf(T, w) <=> BundlesBegin(T, w) < b /\ b <= BundlesBegin(T, w + 1)
    BY <1>1, <2>1 DEF BundlesOf
  <2> QED
    BY <2>2 DEF BundlesBegin
<1>3. \E w \in 1 .. T : Begin(WORK_BUNDLE_COUNT, T, w) < b /\ b <= Begin(WORK_BUNDLE_COUNT, T, w + 1)
  BY <1>1, InSomePart
<1>4. ASSUME NEW v \in 1 .. T, NEW w \in 1 .. T, b \in BundlesOf(T, v), b \in BundlesOf(T, w)
      PROVE  v = w
  BY <1>1, <1>2, <1>4, InOnePart
<1> QED
  BY <1>2, <1>3, <1>4

(* A phase begins with nothing drawn. *)
LEMMA ProgressBegins ==
  ASSUME NEW n \in Nat, NEW T \in 1 .. WORK_BUNDLE_COUNT, NEW wpt, NEW wk, NEW td, NEW dr,
         \A w \in 1 .. T : wpt[w] # NONE /\ wk[w] # "running",
         \A b \in Bundles : dr[b] = <<>>
  PROVE  Progress(n, T, wpt, wk, td, dr)
<1> SUFFICES ASSUME NEW w \in 1 .. T
             PROVE  From(n, T, w) \in From(n, T, w) .. To(n, T, w) /\ DrawnTo(n, T, dr, w, From(n, T, w))
  BY DEF Progress
<1>1. From(n, T, w) \in From(n, T, w) .. To(n, T, w)
  <2>1. From(n, T, w) \in Nat /\ To(n, T, w) \in Nat /\ From(n, T, w) <= To(n, T, w)
    BY SpanOf
  <2> QED
    BY <2>1
<1>2. ASSUME NEW b \in BundlesOf(T, w)
      PROVE  dr[b] = Piece(Count, ItemsBegin(n, b), Clip(n, b, From(n, T, w)))
  <2>1. /\ b \in Bundles /\ BundlesBegin(T, w) + 1 \in 1 .. WORK_BUNDLE_COUNT + 1
        /\ b \in 1 .. WORK_BUNDLE_COUNT + 1 /\ BundlesBegin(T, w) + 1 <= b
    <3>1. /\ b \in Bundles /\ BundlesBegin(T, w) \in Nat /\ BundlesBegin(T, w) <= WORK_BUNDLE_COUNT
          /\ WORK_BUNDLE_COUNT \in Nat
      BY BundlesAre, WorkAssumption
    <3> QED
      BY <3>1 DEF BundlesOf, Bundles
  <2>2. From(n, T, w) <= ItemsBegin(n, b) /\ ItemsBegin(n, b) \in Nat
    BY <2>1, ItemsGrow DEF From
  <2>3. Clip(n, b, From(n, T, w)) = ItemsBegin(n, b)
    BY <2>2 DEF Clip
  <2> QED
    BY <2>1, <2>2, <2>3, EmptyPiece
<1> QED
  BY <1>1, <1>2 DEF DrawnTo

LEMMA TakingKeeps ==
  ASSUME NEW n \in Nat, NEW T \in 1 .. WORK_BUNDLE_COUNT, NEW wpt, NEW wk, NEW td, NEW dr,
         DOMAIN wpt = 1 .. T, DOMAIN wk = 1 .. T, DOMAIN td = 1 .. T,
         Progress(n, T, wpt, wk, td, dr), NEW w \in 1 .. T, wpt[w] # NONE
  PROVE  Progress(n, T, [wpt EXCEPT ![w] = NONE], [wk EXCEPT ![w] = "running"],
                  [td EXCEPT ![w] = Piece(Drawer(n), From(n, T, w), To(n, T, w))], dr)
<1> DEFINE wpt2 == [wpt EXCEPT ![w] = NONE]
           wk2 == [wk EXCEPT ![w] = "running"]
           td2 == [td EXCEPT ![w] = Piece(Drawer(n), From(n, T, w), To(n, T, w))]
<1>1. /\ wpt2[w] = NONE /\ wk2[w] = "running" /\ td2[w] = Piece(Drawer(n), From(n, T, w), To(n, T, w))
      /\ \A v \in 1 .. T : v # w => wpt2[v] = wpt[v] /\ wk2[v] = wk[v] /\ td2[v] = td[v]
  OBVIOUS
<1> HIDE DEF wpt2, wk2, td2
<1>2. Progress(n, T, wpt2, wk2, td2, dr)
  <2> SUFFICES ASSUME NEW v \in 1 .. T
               PROVE  \E p \in From(n, T, v) .. To(n, T, v) :
                        /\ wpt2[v] # NONE => p = From(n, T, v)
                        /\ wk2[v] = "running" => td2[v] = Piece(Drawer(n), p, To(n, T, v))
                        /\ wpt2[v] = NONE /\ wk2[v] # "running" => p = To(n, T, v)
                        /\ DrawnTo(n, T, dr, v, p)
    BY DEF Progress
  <2>1. PICK p \in From(n, T, v) .. To(n, T, v) :
          /\ wpt[v] # NONE => p = From(n, T, v)
          /\ wk[v] = "running" => td[v] = Piece(Drawer(n), p, To(n, T, v))
          /\ wpt[v] = NONE /\ wk[v] # "running" => p = To(n, T, v)
          /\ DrawnTo(n, T, dr, v, p)
    BY DEF Progress
  <2>2. CASE v = w
    BY <1>1, <2>1, <2>2
  <2>3. CASE v # w
    BY <1>1, <2>1, <2>3
  <2> QED
    BY <2>2, <2>3
<1> QED
  BY <1>2 DEF wpt2, wk2, td2

LEMMA FinishingKeeps ==
  ASSUME NEW n \in Nat, NEW T \in 1 .. WORK_BUNDLE_COUNT, NEW wpt, NEW wk, NEW td, NEW dr,
         DOMAIN wk = 1 .. T, Progress(n, T, wpt, wk, td, dr),
         NEW w \in 1 .. T, wk[w] = "running", td[w] = <<>>, wpt[w] = NONE
  PROVE  Progress(n, T, wpt, [wk EXCEPT ![w] = "test"], td, dr)
<1> DEFINE wk2 == [wk EXCEPT ![w] = "test"]
<1>1. wk2[w] = "test" /\ \A v \in 1 .. T : v # w => wk2[v] = wk[v]
  OBVIOUS
<1> HIDE DEF wk2
<1>2. Progress(n, T, wpt, wk2, td, dr)
  <2> SUFFICES ASSUME NEW v \in 1 .. T
               PROVE  \E p \in From(n, T, v) .. To(n, T, v) :
                        /\ wpt[v] # NONE => p = From(n, T, v)
                        /\ wk2[v] = "running" => td[v] = Piece(Drawer(n), p, To(n, T, v))
                        /\ wpt[v] = NONE /\ wk2[v] # "running" => p = To(n, T, v)
                        /\ DrawnTo(n, T, dr, v, p)
    BY DEF Progress
  <2>1. PICK p \in From(n, T, v) .. To(n, T, v) :
          /\ wpt[v] # NONE => p = From(n, T, v)
          /\ wk[v] = "running" => td[v] = Piece(Drawer(n), p, To(n, T, v))
          /\ wpt[v] = NONE /\ wk[v] # "running" => p = To(n, T, v)
          /\ DrawnTo(n, T, dr, v, p)
    BY DEF Progress
  <2>2. CASE v = w
    <3>1. From(n, T, v) \in Nat /\ To(n, T, v) \in Nat /\ p \in Nat /\ p <= To(n, T, v)
      <4>1. From(n, T, v) \in Nat /\ To(n, T, v) \in Nat
        BY SpanOf
      <4> QED
        BY <2>1, <4>1
    <3>2. ~(p < To(n, T, v))
      <4>1. Piece(Drawer(n), p, To(n, T, v)) = <<>>
        BY <2>1, <2>2
      <4> QED
        BY <3>1, <4>1, LongerPiece
    <3>3. p = To(n, T, v)
      BY <3>1, <3>2
    <3> QED
      BY <1>1, <2>1, <2>2, <3>3
  <2>3. CASE v # w
    BY <1>1, <2>1, <2>3
  <2> QED
    BY <2>2, <2>3
<1> QED
  BY <1>2 DEF wk2

(* The next item of a thread: the one after those it has worked through,    *)
(* with the bundle it belongs to, which has drawn all its items before it.  *)
NextIs(n, T, td, dr, w, b, c) ==
  /\ b \in BundlesOf(T, w) /\ c \in 1 .. n
  /\ ItemsBegin(n, b) < c /\ c <= ItemsBegin(n, b + 1)
  /\ From(n, T, w) < c /\ c <= To(n, T, w)
  /\ Head(td[w]) = <<b, c>> /\ Tail(td[w]) = Piece(Drawer(n), c, To(n, T, w))
  /\ DrawnTo(n, T, dr, w, c - 1)
  /\ dr[b] = Piece(Count, ItemsBegin(n, b), c - 1)

LEMMA NextItem ==
  ASSUME NEW n \in Nat, NEW T \in 1 .. WORK_BUNDLE_COUNT, NEW wpt, NEW wk, NEW td, NEW dr,
         Progress(n, T, wpt, wk, td, dr),
         NEW w \in 1 .. T, wk[w] = "running", td[w] # <<>>
  PROVE  \E b, c : NextIs(n, T, td, dr, w, b, c)
<1>1. PICK p \in From(n, T, w) .. To(n, T, w) :
        td[w] = Piece(Drawer(n), p, To(n, T, w)) /\ DrawnTo(n, T, dr, w, p)
  BY DEF Progress
<1>2. /\ From(n, T, w) \in Nat /\ To(n, T, w) \in Nat /\ To(n, T, w) <= n
      /\ p \in Nat /\ From(n, T, w) <= p /\ p <= To(n, T, w)
  <2>1. From(n, T, w) \in Nat /\ To(n, T, w) \in Nat /\ To(n, T, w) <= n
    BY SpanOf
  <2>2. p \in From(n, T, w) .. To(n, T, w)
    OBVIOUS
  <2> QED
    BY <2>1, <2>2
<1>3. p < To(n, T, w)
  <2>1. p # To(n, T, w)
    BY <1>1, <1>2, EmptyPiece
  <2> QED
    BY <1>2, <2>1
<1> DEFINE c == p + 1
<1>4. /\ c \in 1 .. n /\ c \in Nat /\ From(n, T, w) < c /\ c <= To(n, T, w) /\ c - 1 = p
  BY <1>2, <1>3
<1>5. Head(td[w]) = Drawer(n)[c] /\ Tail(td[w]) = Piece(Drawer(n), c, To(n, T, w))
  <2>1. /\ Head(Piece(Drawer(n), p, To(n, T, w))) = Drawer(n)[p + 1]
        /\ Tail(Piece(Drawer(n), p, To(n, T, w))) = Piece(Drawer(n), p + 1, To(n, T, w))
    BY <1>2, <1>3, LongerPiece
  <2> QED
    BY <1>1, <2>1
<1> HIDE DEF c
<1>6. PICK b \in Bundles : ItemsBegin(n, b) < c /\ c <= ItemsBegin(n, b + 1)
  BY <1>4, InSomePart, WorkAssumption DEF ItemsBegin, Bundles
<1>7. Drawer(n)[c] = <<b, c>>
  BY <1>4, <1>6, DrawerIs
<1>8. b \in BundlesOf(T, w)
  <2> DEFINE g == BundlesBegin(T, w)
             e == BundlesBegin(T, w + 1)
  <2>1. /\ g \in Nat /\ e \in Nat /\ g <= e /\ e <= WORK_BUNDLE_COUNT /\ WORK_BUNDLE_COUNT \in Nat
    BY BundlesAre, WorkAssumption
  <2>2. From(n, T, w) = ItemsBegin(n, g + 1) /\ To(n, T, w) = ItemsBegin(n, e + 1)
    BY DEF From, To
  <2> HIDE DEF g, e
  <2>3. b \in Nat /\ 1 <= b /\ b <= WORK_BUNDLE_COUNT /\ ItemsBegin(n, b) \in Nat /\ ItemsBegin(n, b + 1) \in Nat
    <3>1. ItemsBegin(n, b) \in Nat /\ ItemsBegin(n, b + 1) \in Nat
      BY ItemsAre
    <3>2. b \in Nat /\ 1 <= b /\ b <= WORK_BUNDLE_COUNT
      BY <2>1 DEF Bundles
    <3> QED
      BY <3>1, <3>2
  <2>4. ASSUME ~(g + 1 <= b) PROVE FALSE
    <3>1. b + 1 \in 1 .. WORK_BUNDLE_COUNT + 1 /\ g + 1 \in 1 .. WORK_BUNDLE_COUNT + 1 /\ b + 1 <= g + 1
      BY <2>1, <2>3, <2>4
    <3>2. ItemsBegin(n, b + 1) <= ItemsBegin(n, g + 1)
      BY <3>1, ItemsGrow
    <3> QED
      BY <1>2, <1>4, <1>6, <2>2, <2>3, <3>2
  <2>5. ASSUME ~(b <= e) PROVE FALSE
    <3>1. e + 1 \in 1 .. WORK_BUNDLE_COUNT + 1 /\ b \in 1 .. WORK_BUNDLE_COUNT + 1 /\ e + 1 <= b
      BY <2>1, <2>3, <2>5
    <3>2. ItemsBegin(n, e + 1) <= ItemsBegin(n, b)
      BY <3>1, ItemsGrow
    <3> QED
      BY <1>2, <1>4, <1>6, <2>2, <2>3, <3>2
  <2> QED
    BY <2>1, <2>3, <2>4, <2>5 DEF BundlesOf, g, e
<1>9. dr[b] = Piece(Count, ItemsBegin(n, b), c - 1)
  <2>1. ItemsBegin(n, b) \in Nat /\ ItemsBegin(n, b + 1) \in Nat
    BY ItemsAre
  <2>2. Clip(n, b, p) = p
    BY <1>2, <1>4, <1>6, <2>1 DEF Clip
  <2> QED
    BY <1>1, <1>4, <1>8, <2>2 DEF DrawnTo
<1>10. NextIs(n, T, td, dr, w, b, c)
  BY <1>1, <1>4, <1>5, <1>6, <1>7, <1>8, <1>9 DEF NextIs
<1> QED
  BY <1>10

LEMMA RunningKeeps ==
  ASSUME NEW n \in Nat, NEW T \in 1 .. WORK_BUNDLE_COUNT, NEW wpt, NEW wk, NEW td, NEW dr,
         DOMAIN td = 1 .. T, DOMAIN dr = Bundles, Progress(n, T, wpt, wk, td, dr),
         NEW w \in 1 .. T, wk[w] = "running", wpt[w] = NONE, NEW b, NEW c, NextIs(n, T, td, dr, w, b, c)
  PROVE  Progress(n, T, wpt, wk, [td EXCEPT ![w] = Tail(@)], [dr EXCEPT ![b] = Append(@, c)])
<1> DEFINE td2 == [td EXCEPT ![w] = Tail(@)]
           dr2 == [dr EXCEPT ![b] = Append(@, c)]
<1>1. /\ b \in BundlesOf(T, w) /\ b \in Bundles /\ c \in Nat /\ c - 1 \in Nat
      /\ ItemsBegin(n, b) < c /\ c <= ItemsBegin(n, b + 1)
      /\ ItemsBegin(n, b) \in Nat /\ ItemsBegin(n, b + 1) \in Nat
      /\ c \in From(n, T, w) .. To(n, T, w)
      /\ Tail(td[w]) = Piece(Drawer(n), c, To(n, T, w))
      /\ DrawnTo(n, T, dr, w, c - 1)
  <2>1. b \in Bundles
    BY BundlesAre DEF NextIs
  <2>2. From(n, T, w) \in Nat /\ To(n, T, w) \in Nat /\ c \in 1 .. n /\ From(n, T, w) < c /\ c <= To(n, T, w)
    BY SpanOf DEF NextIs
  <2>3. c \in Nat /\ c - 1 \in Nat /\ c \in From(n, T, w) .. To(n, T, w)
    BY <2>2
  <2> QED
    BY <2>1, <2>3, ItemsAre DEF NextIs
<1>2. dr2[b] = Piece(Count, ItemsBegin(n, b), c)
  BY <1>1, CountedOn DEF NextIs
<1>3. /\ td2[w] = Piece(Drawer(n), c, To(n, T, w)) /\ \A v \in 1 .. T : v # w => td2[v] = td[v]
      /\ \A a \in Bundles : a # b => dr2[a] = dr[a]
  BY <1>1
<1> HIDE DEF td2, dr2
<1>4. DrawnTo(n, T, dr2, w, c)
  <2> SUFFICES ASSUME NEW a \in BundlesOf(T, w) PROVE dr2[a] = Piece(Count, ItemsBegin(n, a), Clip(n, a, c))
    BY DEF DrawnTo
  <2>1. a \in Bundles /\ ItemsBegin(n, a) \in Nat /\ ItemsBegin(n, a + 1) \in Nat /\ ItemsBegin(n, a) <= ItemsBegin(n, a + 1)
    BY BundlesAre, ItemsAre
  <2>2. CASE a = b
    <3>1. Clip(n, b, c) = c
      BY <1>1 DEF Clip
    <3> QED
      BY <1>2, <2>2, <3>1
  <2>3. CASE a # b
    <3>1. ~(ItemsBegin(n, a) < c /\ c <= ItemsBegin(n, a + 1))
      BY <1>1, <2>1, <2>3, InOnePart, WorkAssumption DEF ItemsBegin, Bundles
    <3>2. Clip(n, a, c) = Clip(n, a, c - 1)
      BY <1>1, <2>1, <3>1 DEF Clip
    <3> QED
      BY <1>1, <1>3, <2>1, <2>3, <3>2 DEF DrawnTo
  <2> QED
    BY <2>2, <2>3
<1>5. Progress(n, T, wpt, wk, td2, dr2)
  <2> SUFFICES ASSUME NEW v \in 1 .. T
               PROVE  \E p \in From(n, T, v) .. To(n, T, v) :
                        /\ wpt[v] # NONE => p = From(n, T, v)
                        /\ wk[v] = "running" => td2[v] = Piece(Drawer(n), p, To(n, T, v))
                        /\ wpt[v] = NONE /\ wk[v] # "running" => p = To(n, T, v)
                        /\ DrawnTo(n, T, dr2, v, p)
    BY DEF Progress
  <2>1. CASE v = w
    BY <1>1, <1>3, <1>4, <2>1
  <2>2. CASE v # w
    <3>1. PICK p \in From(n, T, v) .. To(n, T, v) :
            /\ wpt[v] # NONE => p = From(n, T, v)
            /\ wk[v] = "running" => td[v] = Piece(Drawer(n), p, To(n, T, v))
            /\ wpt[v] = NONE /\ wk[v] # "running" => p = To(n, T, v)
            /\ DrawnTo(n, T, dr, v, p)
      BY DEF Progress
    <3>2. b \notin BundlesOf(T, v)
      BY <1>1, <2>2, OneThread
    <3>3. DrawnTo(n, T, dr2, v, p)
      BY <1>3, <3>1, <3>2, BundlesAre DEF DrawnTo
    <3> QED
      BY <1>3, <2>2, <3>1, <3>3
  <2> QED
    BY <2>1, <2>2
<1> QED
  BY <1>5 DEF td2, dr2

-----------------------------------------------------------------------------
(* The inductive invariant.                                                *)

WorkerPcs == {"test", "ready", "asleep", "running", "exited"}
Items == items[Phases[work_phase]]
Busy(T, wpt, wk) == {w \in 1 .. T : wpt[w] # NONE \/ wk[w] = "running"}

WorkTypeOK ==
  /\ items \in [ItemKinds -> 0 .. MaxItems] /\ threads \in 0 .. WORK_BUNDLE_COUNT
  /\ work_per_thread \in [Workers -> ItemKinds \cup {NONE}]
  /\ worker \in [Workers -> WorkerPcs] /\ DOMAIN todo = Workers
  /\ active_work_count \in Nat /\ is_cancellation_requested \in BOOLEAN
  /\ caller \in {"idle", "check", "asleep", "joining", "destroyed"}
  /\ work_phase \in 0 .. Len(Phases)
  /\ drawn = [b \in Bundles |-> drawn[b]]

(* Between phases nobody has work, in a phase work is for this phase, and  *)
(* nobody leaves before the destructor.                                    *)
WorkFlow ==
  /\ active_work_count = Cardinality(Busy(threads, work_per_thread, worker))
  /\ ~InPhase => active_work_count = 0
  /\ InPhase => work_phase > 0
  /\ work_phase > 0 => threads > 0
  /\ is_cancellation_requested => caller \in {"joining", "destroyed"}
  /\ \A w \in Workers : worker[w] = "exited" => is_cancellation_requested
  /\ \A w \in Workers : work_per_thread[w] # NONE =>
       /\ worker[w] \in {"test", "ready"}
       /\ work_phase > 0 /\ work_per_thread[w] = Phases[work_phase]

WorkInv ==
  /\ WorkTypeOK /\ WorkFlow
  /\ work_phase > 0 => Progress(Items, threads, work_per_thread, worker, todo, drawn)

LEMMA BusyCounted ==
  ASSUME NEW T \in Nat, NEW wpt, NEW wk
  PROVE  /\ IsFiniteSet(Busy(T, wpt, wk)) /\ Cardinality(Busy(T, wpt, wk)) \in Nat
         /\ Cardinality(Busy(T, wpt, wk)) = 0 <=> Busy(T, wpt, wk) = {}
<1>1. IsFiniteSet(1 .. T)
  BY FS_Interval
<1>2. Busy(T, wpt, wk) \subseteq 1 .. T
  BY DEF Busy
<1>3. IsFiniteSet(Busy(T, wpt, wk))
  BY <1>1, <1>2, FS_Subset
<1> QED
  BY <1>3, FS_CardinalityType, FS_EmptySet

LEMMA PhaseKinds ==
  ASSUME WorkTypeOK, work_phase > 0
  PROVE  /\ Phases[work_phase] \in ItemKinds /\ Phases[work_phase] # NONE
         /\ Items \in Nat /\ Items \in 0 .. MaxItems
<1>1. Phases \in Seq(ItemKinds) /\ NONE \notin ItemKinds /\ MaxItems \in Nat
  BY WorkAssumption
<1>2. work_phase \in 1 .. Len(Phases)
  BY <1>1 DEF WorkTypeOK
<1>3. Phases[work_phase] \in ItemKinds
  BY <1>1, <1>2
<1> QED
  BY <1>1, <1>3 DEF WorkTypeOK, Items

LEMMA Threads ==
  ASSUME WorkTypeOK, threads > 0
  PROVE  threads \in 1 .. WORK_BUNDLE_COUNT /\ threads \in Nat
BY WorkAssumption DEF WorkTypeOK

LEMMA InitInv == InitWork => WorkInv
<1> SUFFICES ASSUME InitWork PROVE WorkInv
  OBVIOUS
<1>1. Workers = {} /\ threads = 0 /\ work_phase = 0 /\ caller = "idle"
  BY DEF InitWork, Workers
<1>2. WorkTypeOK
  <2>1. /\ work_per_thread = <<>> /\ worker = <<>> /\ todo = <<>>
        /\ items \in [ItemKinds -> 0 .. MaxItems] /\ active_work_count = 0
        /\ is_cancellation_requested = FALSE /\ drawn = [b \in Bundles |-> drawn[b]]
    BY DEF InitWork
  <2>2. \A S : <<>> \in [{} -> S]
    OBVIOUS
  <2>3. DOMAIN <<>> = {}
    OBVIOUS
  <2>4. Len(Phases) \in Nat /\ WORK_BUNDLE_COUNT \in Nat
    BY WorkAssumption
  <2>5. threads \in 0 .. WORK_BUNDLE_COUNT /\ work_phase \in 0 .. Len(Phases)
    BY <1>1, <2>4
  <2> QED
    BY <1>1, <2>1, <2>2, <2>3, <2>5 DEF WorkTypeOK
<1>3. Busy(threads, work_per_thread, worker) = {}
  BY <1>1 DEF Busy
<1>4. WorkFlow
  BY <1>1, <1>3, FS_EmptySet DEF InitWork, WorkFlow, InPhase
<1> QED
  BY <1>1, <1>2, <1>4 DEF WorkInv

LEMMA InitialiseKeeps ==
  ASSUME WorkInv, NEW hardware \in 0 .. MaxHardware, Initialise(hardware)
  PROVE  WorkInv'
<1>1. /\ threads = 0 /\ work_phase = 0 /\ caller = "idle" /\ active_work_count = 0
      /\ is_cancellation_requested = FALSE
      /\ UNCHANGED <<items, active_work_count, is_cancellation_requested, caller, work_phase, drawn>>
  BY DEF Initialise, WorkInv, WorkTypeOK, WorkFlow, InPhase
<1>2. PICK n \in 1 .. WORK_BUNDLE_COUNT :
        /\ threads' = n /\ work_per_thread' = [w \in 1 .. n |-> NONE]
        /\ worker' = [w \in 1 .. n |-> "test"] /\ todo' = [w \in 1 .. n |-> <<>>]
  BY WorkAssumption DEF Initialise
<1>3. Workers' = 1 .. n
  BY <1>2 DEF Workers
<1>4. WorkTypeOK'
  BY <1>1, <1>2, <1>3, WorkAssumption DEF WorkInv, WorkTypeOK, WorkerPcs
<1>5. Busy(threads', work_per_thread', worker') = {}
  BY <1>2 DEF Busy
<1>6. WorkFlow'
  <2>1. active_work_count' = Cardinality(Busy(threads', work_per_thread', worker'))
    BY <1>1, <1>5, FS_EmptySet
  <2>2. \A w \in Workers' : worker'[w] = "test" /\ work_per_thread'[w] = NONE
    BY <1>2, <1>3
  <2>3. work_phase' = 0 /\ caller' = "idle" /\ active_work_count' = 0 /\ is_cancellation_requested' = FALSE
    BY <1>1
  <2> QED
    BY <2>1, <2>2, <2>3 DEF WorkFlow, InPhase
<1> QED
  BY <1>1, <1>4, <1>6 DEF WorkInv

LEMMA ProcessWorkKeeps ==
  ASSUME WorkInv, ProcessWork
  PROVE  /\ WorkInv' /\ drawn' = [b \in Bundles |-> <<>>] /\ InPhase' /\ ~InPhase
         /\ UNCHANGED items /\ work_phase' > 0
<1>1. /\ caller = "idle" /\ threads > 0 /\ active_work_count = 0 /\ is_cancellation_requested = FALSE
      /\ active_work_count' = threads /\ work_per_thread' = [w \in Workers |-> Phases[work_phase']]
      /\ worker' = Wake /\ caller' = "check" /\ drawn' = [b \in Bundles |-> <<>>]
      /\ UNCHANGED <<items, threads, todo, is_cancellation_requested>>
  BY DEF ProcessWork, WorkInv, WorkTypeOK, WorkFlow, InPhase
<1>2. work_phase' \in 1 .. Len(Phases)
  <2> DEFINE L == Len(Phases)
  <2>1. L \in Nat /\ L # 0 /\ work_phase \in Nat
    BY WorkAssumption DEF WorkInv, WorkTypeOK
  <2>2. work_phase' = (work_phase % L) + 1
    BY DEF ProcessWork
  <2> HIDE DEF L
  <2>3. work_phase % L \in 0 .. L - 1
    BY <2>1
  <2>4. work_phase' \in 1 .. L
    BY <2>1, <2>2, <2>3
  <2> QED
    BY <2>4 DEF L
<1>3. Phases[work_phase'] \in ItemKinds /\ Phases[work_phase'] # NONE
  BY <1>2, WorkAssumption
<1>4. Busy(threads, work_per_thread, worker) = {}
  <2>1. threads \in Nat /\ Cardinality(Busy(threads, work_per_thread, worker)) = 0
    BY <1>1, Threads DEF WorkInv, WorkFlow
  <2> QED
    BY <2>1, BusyCounted
<1>5. ASSUME NEW w \in Workers PROVE worker'[w] \in {"test", "ready"}
  <2>1. worker[w] # "running" /\ worker[w] # "exited" /\ worker[w] \in WorkerPcs
    BY <1>1, <1>4 DEF Busy, Workers, WorkInv, WorkFlow, WorkTypeOK
  <2>2. worker'[w] = IF worker[w] = "asleep" THEN "ready" ELSE worker[w]
    BY <1>1 DEF Wake
  <2> QED
    BY <2>1, <2>2 DEF WorkerPcs
<1>6. worker' \in [Workers -> WorkerPcs]
  <2>1. worker' = [w \in Workers |-> worker'[w]]
    BY <1>1 DEF Wake
  <2> QED
    BY <1>5, <2>1 DEF WorkerPcs
<1>7. Workers' = Workers /\ threads \in 1 .. WORK_BUNDLE_COUNT /\ threads \in Nat
  BY <1>1, Threads DEF Workers, WorkInv
<1>8. WorkTypeOK'
  BY <1>1, <1>2, <1>3, <1>6, <1>7 DEF WorkInv, WorkTypeOK
<1>9. Busy(threads', work_per_thread', worker') = 1 .. threads
  BY <1>1, <1>3, <1>7 DEF Busy, Workers
<1>10. Cardinality(1 .. threads) = threads
  BY <1>7, FS_Interval
<1>11. work_phase' > 0
  BY <1>2
<1>12. WorkFlow'
  BY <1>1, <1>5, <1>7, <1>9, <1>10, <1>11 DEF WorkFlow, InPhase
<1>13. Progress(Items', threads', work_per_thread', worker', todo', drawn')
  <2>1. Items' \in Nat
    BY <1>1, <1>3, WorkAssumption DEF Items, WorkInv, WorkTypeOK
  <2>2. \A w \in 1 .. threads' : work_per_thread'[w] # NONE /\ worker'[w] # "running"
    BY <1>1, <1>3, <1>5 DEF Workers
  <2>3. \A b \in Bundles : drawn'[b] = <<>>
    BY <1>1
  <2> QED
    BY <1>1, <1>7, <2>1, <2>2, <2>3, ProgressBegins
<1> QED
  BY <1>1, <1>8, <1>11, <1>12, <1>13 DEF WorkInv, InPhase

(* Steps that neither take, run nor finish work. *)
LEMMA QuietKeeps ==
  ASSUME WorkInv,
         UNCHANGED <<items, threads, work_per_thread, todo, active_work_count, work_phase, drawn>>,
         worker' \in [Workers -> WorkerPcs],
         \A w \in Workers : worker'[w] = "running" <=> worker[w] = "running",
         \A w \in Workers : work_per_thread[w] # NONE => worker'[w] \in {"test", "ready"},
         \A w \in Workers : worker'[w] = "exited" => is_cancellation_requested',
         is_cancellation_requested' \in BOOLEAN,
         caller' \in {"idle", "check", "asleep", "joining", "destroyed"},
         InPhase' => InPhase, ~InPhase' => active_work_count = 0,
         is_cancellation_requested' => caller' \in {"joining", "destroyed"}
  PROVE  WorkInv'
<1>1. WorkTypeOK /\ WorkFlow
  BY DEF WorkInv
<1>2. Workers' = Workers /\ Items' = Items
  BY DEF Workers, Items
<1>3. WorkTypeOK'
  BY <1>1, <1>2 DEF WorkTypeOK
<1>4. Busy(threads', work_per_thread', worker') = Busy(threads, work_per_thread, worker)
  BY DEF Busy, Workers
<1>5. WorkFlow'
  <2>1. active_work_count' = Cardinality(Busy(threads', work_per_thread', worker'))
    BY <1>1, <1>4 DEF WorkFlow
  <2>2. InPhase' => work_phase' > 0
    BY <1>1 DEF WorkFlow
  <2>3. work_phase' > 0 => threads' > 0
    BY <1>1 DEF WorkFlow
  <2>4. \A w \in Workers' : work_per_thread'[w] # NONE =>
          /\ worker'[w] \in {"test", "ready"}
          /\ work_phase' > 0 /\ work_per_thread'[w] = Phases[work_phase']
    BY <1>1, <1>2 DEF WorkFlow
  <2> QED
    BY <1>2, <2>1, <2>2, <2>3, <2>4 DEF WorkFlow
<1>6. work_phase' > 0 => Progress(Items', threads', work_per_thread', worker', todo', drawn')
  <2> SUFFICES ASSUME work_phase > 0
               PROVE  Progress(Items, threads, work_per_thread, worker', todo, drawn)
    BY <1>2
  <2>1. Progress(Items, threads, work_per_thread, worker, todo, drawn)
    BY DEF WorkInv
  <2> QED
    BY <2>1 DEF Progress, Workers
<1> QED
  BY <1>3, <1>5, <1>6 DEF WorkInv

(* One of the busy fewer. *)
LEMMA OneDone ==
  ASSUME NEW T \in Nat, NEW wpt, NEW wk, NEW wpt2, NEW wk2, NEW w \in Busy(T, wpt, wk),
         Busy(T, wpt2, wk2) = Busy(T, wpt, wk) \ {w}
  PROVE  Cardinality(Busy(T, wpt2, wk2)) = Cardinality(Busy(T, wpt, wk)) - 1
<1>1. IsFiniteSet(Busy(T, wpt, wk))
  BY BusyCounted
<1> QED
  BY <1>1, FS_RemoveElement

LEMMA TakeWorkKeeps ==
  ASSUME WorkInv, NEW w \in Workers, TakeWork(w)
  PROVE  WorkInv'
<1>1. WorkTypeOK /\ WorkFlow
  BY DEF WorkInv
<1>2. /\ worker[w] = "ready" /\ work_per_thread[w] # NONE
      /\ worker' = [worker EXCEPT ![w] = "running"]
      /\ todo' = [todo EXCEPT ![w] = WorkOf(w, work_per_thread[w])]
      /\ work_per_thread' = [work_per_thread EXCEPT ![w] = NONE]
      /\ UNCHANGED <<items, threads, active_work_count, is_cancellation_requested, caller, work_phase, drawn>>
  BY DEF TakeWork
<1>3. work_phase > 0 /\ work_per_thread[w] = Phases[work_phase]
  BY <1>1, <1>2 DEF WorkFlow
<1>4. /\ Phases[work_phase] \in ItemKinds /\ Items \in Nat /\ threads > 0
      /\ threads \in 1 .. WORK_BUNDLE_COUNT /\ threads \in Nat /\ w \in 1 .. threads
  BY <1>1, <1>3, PhaseKinds, Threads DEF WorkFlow, Workers
<1>5. WorkOf(w, work_per_thread[w]) = Piece(Drawer(Items), From(Items, threads, w), To(Items, threads, w))
  BY <1>3, <1>4, WorkIsPiece DEF Items
<1>6. Workers' = Workers /\ Items' = Items
  BY <1>2 DEF Workers, Items
<1>7. /\ worker' \in [Workers -> WorkerPcs] /\ work_per_thread' \in [Workers -> ItemKinds \cup {NONE}]
      /\ DOMAIN todo' = Workers
  BY <1>1, <1>2 DEF WorkTypeOK, WorkerPcs
<1>8. WorkTypeOK'
  BY <1>1, <1>2, <1>6, <1>7 DEF WorkTypeOK
<1>9. /\ worker'[w] = "running" /\ work_per_thread'[w] = NONE
      /\ \A v \in Workers : v # w => worker'[v] = worker[v] /\ work_per_thread'[v] = work_per_thread[v]
  BY <1>1, <1>2 DEF WorkTypeOK
<1>10. Busy(threads', work_per_thread', worker') = Busy(threads, work_per_thread, worker)
  BY <1>2, <1>9 DEF Busy, Workers
<1>11. WorkFlow'
  <2>1. /\ active_work_count' = Cardinality(Busy(threads', work_per_thread', worker'))
        /\ ~InPhase' => active_work_count' = 0
        /\ InPhase' => work_phase' > 0
        /\ is_cancellation_requested' => caller' \in {"joining", "destroyed"}
    BY <1>1, <1>2, <1>3, <1>4, <1>10 DEF WorkFlow, InPhase
  <2>2. \A v \in Workers' : worker'[v] = "exited" => is_cancellation_requested'
    BY <1>1, <1>2, <1>6, <1>9 DEF WorkFlow
  <2>3. \A v \in Workers' : work_per_thread'[v] # NONE =>
          /\ worker'[v] \in {"test", "ready"}
          /\ work_phase' > 0 /\ work_per_thread'[v] = Phases[work_phase']
    BY <1>1, <1>2, <1>6, <1>9 DEF WorkFlow
  <2> QED
    BY <1>2, <1>3, <1>4, <2>1, <2>2, <2>3 DEF WorkFlow
<1>12. Progress(Items', threads', work_per_thread', worker', todo', drawn')
  <2>1. Progress(Items, threads, work_per_thread, worker, todo, drawn)
    BY <1>3 DEF WorkInv
  <2>2. DOMAIN work_per_thread = 1 .. threads /\ DOMAIN worker = 1 .. threads /\ DOMAIN todo = 1 .. threads
    BY <1>1 DEF WorkTypeOK, Workers
  <2> QED
    BY <1>2, <1>4, <1>5, <1>6, <2>1, <2>2, TakingKeeps
<1> QED
  BY <1>8, <1>11, <1>12 DEF WorkInv

(* A thread with work of this phase, and its next item. *)
LEMMA RunItemFacts ==
  ASSUME WorkInv, NEW w \in Workers, worker[w] = "running"
  PROVE  /\ work_per_thread[w] = NONE /\ w \in Busy(threads, work_per_thread, worker)
         /\ active_work_count > 0 /\ InPhase /\ work_phase > 0
         /\ Items \in Nat /\ Items \in 0 .. MaxItems
         /\ threads \in 1 .. WORK_BUNDLE_COUNT /\ threads \in Nat /\ w \in 1 .. threads
         /\ Progress(Items, threads, work_per_thread, worker, todo, drawn)
<1>1. WorkTypeOK /\ WorkFlow
  BY DEF WorkInv
<1>2. work_per_thread[w] = NONE /\ w \in Busy(threads, work_per_thread, worker)
  BY <1>1 DEF WorkFlow, Busy, Workers
<1>3. active_work_count # 0 /\ active_work_count \in Nat
  <2>1. threads \in Nat
    BY <1>1, WorkAssumption DEF WorkTypeOK
  <2> QED
    BY <1>1, <1>2, <2>1, BusyCounted DEF WorkFlow, WorkTypeOK
<1>4. InPhase /\ work_phase > 0 /\ threads > 0
  BY <1>1, <1>3 DEF WorkFlow
<1> QED
  BY <1>1, <1>2, <1>3, <1>4, PhaseKinds, Threads DEF WorkInv, Workers

LEMMA RunItemKeeps ==
  ASSUME WorkInv, NEW w \in Workers, RunItem(w)
  PROVE  /\ WorkInv' /\ InPhase /\ work_phase > 0
         /\ \E b, c : /\ NextIs(Items, threads, todo, drawn, w, b, c)
                      /\ drawn' = [drawn EXCEPT ![b] = Append(@, c)]
<1>1. WorkTypeOK /\ WorkFlow
  BY DEF WorkInv
<1>2. /\ worker[w] = "running" /\ todo[w] # <<>>
      /\ drawn' = [drawn EXCEPT ![Head(todo[w])[1]] = Append(@, Head(todo[w])[2])]
      /\ todo' = [todo EXCEPT ![w] = Tail(@)]
      /\ UNCHANGED <<items, threads, work_per_thread, worker, active_work_count,
                     is_cancellation_requested, caller, work_phase>>
  BY DEF RunItem
<1>3. /\ work_per_thread[w] = NONE /\ InPhase /\ work_phase > 0 /\ Items \in Nat
      /\ threads \in 1 .. WORK_BUNDLE_COUNT /\ w \in 1 .. threads
      /\ Progress(Items, threads, work_per_thread, worker, todo, drawn)
  BY <1>2, RunItemFacts
<1>4. \E b, c : NextIs(Items, threads, todo, drawn, w, b, c)
  BY <1>2, <1>3, NextItem
<1>5. PICK b : \E c : NextIs(Items, threads, todo, drawn, w, b, c)
  BY <1>4
<1>6. PICK c : NextIs(Items, threads, todo, drawn, w, b, c)
  BY <1>5
<1>7. drawn' = [drawn EXCEPT ![b] = Append(@, c)]
  <2>1. Head(todo[w]) = <<b, c>>
    BY <1>6 DEF NextIs
  <2>2. Head(todo[w])[1] = b /\ Head(todo[w])[2] = c
    BY <2>1
  <2> QED
    BY <1>2, <2>2
<1>8. Workers' = Workers /\ Items' = Items /\ (InPhase' <=> InPhase)
  BY <1>2 DEF Workers, Items, InPhase
<1>9. WorkTypeOK'
  BY <1>1, <1>2, <1>7, <1>8 DEF WorkTypeOK
<1>10. WorkFlow'
  BY <1>1, <1>2, <1>8 DEF WorkFlow
<1>11. Progress(Items', threads', work_per_thread', worker', todo', drawn')
  <2>1. DOMAIN todo = 1 .. threads /\ DOMAIN drawn = Bundles
    BY <1>1 DEF WorkTypeOK, Workers
  <2> QED
    <3>1. Progress(Items, threads, work_per_thread, worker,
                   [todo EXCEPT ![w] = Tail(@)], [drawn EXCEPT ![b] = Append(@, c)])
      BY <1>2, <1>3, <1>6, <2>1, RunningKeeps
    <3> QED
      BY <1>2, <1>7, <1>8, <3>1
<1> QED
  BY <1>3, <1>6, <1>7, <1>9, <1>10, <1>11 DEF WorkInv

LEMMA FinishWorkKeeps ==
  ASSUME WorkInv, NEW w \in Workers, FinishWork(w)
  PROVE  WorkInv' /\ InPhase /\ InPhase'
<1>1. WorkTypeOK /\ WorkFlow
  BY DEF WorkInv
<1>2. /\ worker[w] = "running" /\ todo[w] = <<>>
      /\ active_work_count' = active_work_count - 1
      /\ caller' = (IF active_work_count = 1 /\ caller = "asleep" THEN "check" ELSE caller)
      /\ worker' = [worker EXCEPT ![w] = "test"]
      /\ UNCHANGED <<items, threads, work_per_thread, todo, is_cancellation_requested, work_phase, drawn>>
  BY DEF FinishWork
<1>3. /\ work_per_thread[w] = NONE /\ InPhase /\ work_phase > 0 /\ Items \in Nat
      /\ w \in Busy(threads, work_per_thread, worker) /\ active_work_count > 0
      /\ threads \in 1 .. WORK_BUNDLE_COUNT /\ threads \in Nat /\ w \in 1 .. threads
      /\ Progress(Items, threads, work_per_thread, worker, todo, drawn)
  BY <1>2, RunItemFacts
<1>4. Workers' = Workers /\ Items' = Items /\ InPhase'
  BY <1>2, <1>3 DEF Workers, Items, InPhase
<1>5. active_work_count' \in Nat
  BY <1>1, <1>2, <1>3 DEF WorkTypeOK
<1>6. worker' \in [Workers -> WorkerPcs] /\ worker'[w] = "test" /\ \A v \in Workers : v # w => worker'[v] = worker[v]
  BY <1>1, <1>2 DEF WorkTypeOK, WorkerPcs
<1>7. caller' \in {"idle", "check", "asleep", "joining", "destroyed"}
  BY <1>1, <1>2 DEF WorkTypeOK
<1>8. WorkTypeOK'
  BY <1>1, <1>2, <1>4, <1>5, <1>6, <1>7 DEF WorkTypeOK
<1>9. Busy(threads', work_per_thread', worker') = Busy(threads, work_per_thread, worker) \ {w}
  BY <1>2, <1>3, <1>6 DEF Busy, Workers
<1>10. active_work_count' = Cardinality(Busy(threads', work_per_thread', worker'))
  <2>1. threads' = threads
    BY <1>2
  <2> QED
    <3>1. Busy(threads, work_per_thread', worker') = Busy(threads, work_per_thread, worker) \ {w}
      BY <1>9, <2>1
    <3>2. Cardinality(Busy(threads, work_per_thread', worker'))
            = Cardinality(Busy(threads, work_per_thread, worker)) - 1
      BY <1>3, <3>1, OneDone
    <3> QED
      BY <1>1, <1>2, <2>1, <3>2 DEF WorkFlow
<1>11. WorkFlow'
  <2>1. \A v \in Workers' : worker'[v] = "exited" => is_cancellation_requested'
    BY <1>1, <1>2, <1>4, <1>6 DEF WorkFlow
  <2>2. \A v \in Workers' : work_per_thread'[v] # NONE =>
          /\ worker'[v] \in {"test", "ready"}
          /\ work_phase' > 0 /\ work_per_thread'[v] = Phases[work_phase']
    BY <1>1, <1>2, <1>3, <1>4, <1>6 DEF WorkFlow
  <2>3. is_cancellation_requested' = FALSE
    <3>1. caller \notin {"joining", "destroyed"}
      BY <1>3 DEF InPhase
    <3> QED
      BY <1>1, <1>2, <3>1 DEF WorkFlow, WorkTypeOK
  <2>4. work_phase' > 0 /\ threads' > 0
    BY <1>2, <1>3
  <2> QED
    BY <1>4, <1>10, <2>1, <2>2, <2>3, <2>4 DEF WorkFlow
<1>12. Progress(Items', threads', work_per_thread', worker', todo', drawn')
  <2>1. DOMAIN worker = 1 .. threads
    BY <1>1 DEF WorkTypeOK, Workers
  <2> QED
    BY <1>2, <1>3, <1>4, <2>1, FinishingKeeps
<1> QED
  BY <1>3, <1>4, <1>8, <1>11, <1>12 DEF WorkInv

(* The steps of the loop and of the owner that leave the work alone. *)
LEMMA OthersKeep ==
  ASSUME WorkInv,
         \/ AwaitCompletion \/ JoinThreads \/ SpuriousWake \/ RequestCancellation
         \/ \E w \in Workers : TestCancellation(w) \/ Sleep(w) \/ Cancel(w)
  PROVE  WorkInv' /\ (InPhase' => InPhase)
         /\ UNCHANGED <<items, threads, work_per_thread, todo, active_work_count, work_phase, drawn>>
<1>1. WorkTypeOK /\ WorkFlow
  BY DEF WorkInv
<1>2. CASE AwaitCompletion
  <2>1. WorkInv'
    BY <1>1, <1>2, QuietKeeps DEF AwaitCompletion, WorkTypeOK, WorkFlow, InPhase
  <2> QED
    BY <1>2, <2>1 DEF AwaitCompletion, InPhase
<1>3. CASE JoinThreads
  <2>1. WorkInv'
    BY <1>1, <1>3, QuietKeeps DEF JoinThreads, WorkTypeOK, WorkFlow, InPhase
  <2> QED
    BY <1>3, <2>1 DEF JoinThreads, InPhase
<1>4. CASE SpuriousWake
  <2>1. CASE \E w \in Workers : /\ worker[w] = "asleep" /\ worker' = [worker EXCEPT ![w] = "ready"]
                                /\ UNCHANGED caller
    <3>1. PICK w \in Workers : worker[w] = "asleep" /\ worker' = [worker EXCEPT ![w] = "ready"] /\ UNCHANGED caller
      BY <2>1
    <3>2. worker' \in [Workers -> WorkerPcs] /\ worker'[w] = "ready" /\ \A v \in Workers : v # w => worker'[v] = worker[v]
      BY <1>1, <3>1 DEF WorkTypeOK, WorkerPcs
    <3>3. WorkInv'
      BY <1>1, <1>4, <3>1, <3>2, QuietKeeps DEF SpuriousWake, WorkTypeOK, WorkFlow, InPhase
    <3> QED
      BY <1>4, <3>1, <3>3 DEF SpuriousWake, InPhase
  <2>2. CASE caller = "asleep" /\ caller' = "check" /\ UNCHANGED worker
    <3>1. WorkInv'
      BY <1>1, <1>4, <2>2, QuietKeeps DEF SpuriousWake, WorkTypeOK, WorkFlow, InPhase
    <3> QED
      BY <1>4, <2>2, <3>1 DEF SpuriousWake, InPhase
  <2> QED
    BY <1>4, <2>1, <2>2 DEF SpuriousWake
<1>5. CASE RequestCancellation
  <2>1. worker' \in [Workers -> WorkerPcs] /\ \A w \in Workers : worker'[w] = IF worker[w] = "asleep" THEN "ready" ELSE worker[w]
    BY <1>1, <1>5 DEF RequestCancellation, Wake, WorkTypeOK, WorkerPcs
  <2>2. WorkInv'
    BY <1>1, <1>5, <2>1, QuietKeeps DEF RequestCancellation, WorkTypeOK, WorkFlow, InPhase
  <2> QED
    BY <1>5, <2>2 DEF RequestCancellation, InPhase
<1>6. ASSUME NEW w \in Workers, TestCancellation(w) \/ Sleep(w) \/ Cancel(w)
      PROVE  WorkInv' /\ UNCHANGED <<items, threads, work_per_thread, todo, active_work_count, work_phase, drawn, caller>>
  <2>1. /\ UNCHANGED <<items, threads, work_per_thread, todo, active_work_count,
                       is_cancellation_requested, caller, work_phase, drawn>>
        /\ \E pc \in {"ready", "asleep", "exited"} :
             /\ worker' = [worker EXCEPT ![w] = pc]
             /\ pc = "exited" => is_cancellation_requested
             /\ pc # "ready" => work_per_thread[w] = NONE \/ is_cancellation_requested
        /\ worker[w] # "running"
    <3>1. CASE TestCancellation(w)
      <4>1. PICK read \in {FALSE, is_cancellation_requested} :
              worker' = [worker EXCEPT ![w] = IF read THEN "exited" ELSE "ready"]
        BY <3>1 DEF TestCancellation
      <4>2. is_cancellation_requested \in BOOLEAN
        BY <1>1 DEF WorkTypeOK
      <4>3. CASE read = TRUE
        <5>1. is_cancellation_requested /\ worker' = [worker EXCEPT ![w] = "exited"]
          BY <4>1, <4>2, <4>3
        <5> QED
          BY <3>1, <5>1 DEF TestCancellation
      <4>4. CASE read = FALSE
        <5>1. worker' = [worker EXCEPT ![w] = "ready"]
          BY <4>1, <4>4
        <5> QED
          BY <3>1, <5>1 DEF TestCancellation
      <4> QED
        BY <4>1, <4>2, <4>3, <4>4
    <3>2. CASE Sleep(w)
      BY <3>2 DEF Sleep
    <3>3. CASE Cancel(w)
      BY <3>3 DEF Cancel
    <3> QED
      BY <1>6, <3>1, <3>2, <3>3
  <2>2. PICK pc \in {"ready", "asleep", "exited"} :
             /\ worker' = [worker EXCEPT ![w] = pc]
             /\ pc = "exited" => is_cancellation_requested
             /\ pc # "ready" => work_per_thread[w] = NONE \/ is_cancellation_requested
    BY <2>1
  <2>3. /\ worker' \in [Workers -> WorkerPcs] /\ worker'[w] = pc
        /\ \A v \in Workers : v # w => worker'[v] = worker[v]
    BY <1>1, <2>2 DEF WorkTypeOK, WorkerPcs
  <2>4. is_cancellation_requested => work_per_thread[w] = NONE
    <3>1. is_cancellation_requested => ~InPhase
      BY <1>1 DEF WorkFlow, InPhase
    <3>2. ~InPhase => Busy(threads, work_per_thread, worker) = {}
      <4>1. threads \in Nat
        BY <1>1, WorkAssumption DEF WorkTypeOK
      <4> QED
        BY <1>1, <4>1, BusyCounted DEF WorkFlow
    <3> QED
      BY <3>1, <3>2 DEF Busy, Workers
  <2>5. \A v \in Workers : work_per_thread[v] # NONE => worker'[v] \in {"test", "ready"}
    BY <1>1, <2>2, <2>3, <2>4 DEF WorkFlow
  <2>6. \A v \in Workers : worker'[v] = "exited" => is_cancellation_requested'
    BY <1>1, <2>1, <2>2, <2>3 DEF WorkFlow
  <2>7. \A v \in Workers : worker'[v] = "running" <=> worker[v] = "running"
    BY <2>1, <2>2, <2>3
  <2>8. WorkInv'
    BY <1>1, <2>1, <2>3, <2>5, <2>6, <2>7, QuietKeeps DEF WorkTypeOK, WorkFlow, InPhase
  <2> QED
    BY <2>1, <2>8
<1> QED
  BY <1>2, <1>3, <1>4, <1>5, <1>6 DEF InPhase

(* Kept by every step of the game's pool: what a thread has still to do is  *)
(* the rest of its part of the phase, what its bundles have drawn is what   *)
(* comes before, and the counter is the number of threads with work.        *)
THEOREM WorkInductive == WorkSpec => []WorkInv
<1>1. WorkInv /\ [NextWork]_workVars => WorkInv'
  <2> SUFFICES ASSUME WorkInv, [NextWork]_workVars PROVE WorkInv'
    OBVIOUS
  <2>1. CASE \E hardware \in 0 .. MaxHardware : Initialise(hardware)
    BY <2>1, InitialiseKeeps
  <2>2. CASE ProcessWork
    BY <2>2, ProcessWorkKeeps
  <2>3. CASE OwnerStep \/ SpuriousWake \/ RequestCancellation
    BY <2>3, OthersKeep DEF OwnerStep
  <2>4. ASSUME NEW w \in Workers, WorkerStep(w) PROVE WorkInv'
    <3>1. CASE TestCancellation(w) \/ Sleep(w) \/ Cancel(w)
      BY <3>1, OthersKeep
    <3>2. CASE TakeWork(w)
      BY <3>2, TakeWorkKeeps
    <3>3. CASE RunItem(w)
      BY <3>3, RunItemKeeps
    <3>4. CASE FinishWork(w)
      BY <3>4, FinishWorkKeeps
    <3> QED
      BY <2>4, <3>1, <3>2, <3>3, <3>4 DEF WorkerStep
  <2>5. CASE UNCHANGED workVars
    <3>1. /\ UNCHANGED <<items, threads, work_per_thread, todo, active_work_count, work_phase, drawn>>
          /\ UNCHANGED <<worker, is_cancellation_requested, caller>>
      BY <2>5 DEF workVars
    <3> QED
      BY <3>1, QuietKeeps DEF WorkInv, WorkTypeOK, WorkFlow, InPhase
  <2> QED
    BY <2>1, <2>2, <2>3, <2>4, <2>5 DEF NextWork
<1> QED
  BY <1>1, InitInv, PTL DEF WorkSpec

-----------------------------------------------------------------------------
(* What was drawn when a phase is over.                                    *)

LEMMA AllDrawn ==
  ASSUME WorkInv, active_work_count = 0, work_phase > 0, NEW b \in Bundles
  PROVE  drawn[b] = Piece(Count, ItemsBegin(Items, b), ItemsBegin(Items, b + 1))
<1>1. /\ threads \in 1 .. WORK_BUNDLE_COUNT /\ threads \in Nat /\ Items \in Nat
      /\ Busy(threads, work_per_thread, worker) = {}
  BY PhaseKinds, Threads, BusyCounted DEF WorkInv, WorkFlow
<1>2. PICK w \in 1 .. threads : b \in BundlesOf(threads, w)
  BY <1>1, OneThread
<1>3. DrawnTo(Items, threads, drawn, w, To(Items, threads, w))
  BY <1>1 DEF WorkInv, Progress, Busy
<1>4. /\ BundlesBegin(threads, w + 1) \in Nat /\ BundlesBegin(threads, w + 1) <= WORK_BUNDLE_COUNT
      /\ WORK_BUNDLE_COUNT \in Nat /\ b \in Nat /\ b <= BundlesBegin(threads, w + 1) /\ 1 <= b
  BY <1>1, <1>2, BundlesAre, WorkAssumption DEF BundlesOf, Bundles
<1>5. /\ b + 1 \in 1 .. WORK_BUNDLE_COUNT + 1 /\ b + 1 <= BundlesBegin(threads, w + 1) + 1
      /\ BundlesBegin(threads, w + 1) + 1 \in 1 .. WORK_BUNDLE_COUNT + 1
  BY <1>4
<1>6. ItemsBegin(Items, b + 1) <= To(Items, threads, w)
  BY <1>1, <1>5, ItemsGrow DEF To
<1>7. /\ To(Items, threads, w) \in Nat /\ ItemsBegin(Items, b) \in Nat /\ ItemsBegin(Items, b + 1) \in Nat
      /\ ItemsBegin(Items, b) <= ItemsBegin(Items, b + 1)
  BY <1>1, SpanOf, ItemsAre
<1>8. Clip(Items, b, To(Items, threads, w)) = ItemsBegin(Items, b + 1)
  BY <1>6, <1>7 DEF Clip
<1> QED
  BY <1>2, <1>3, <1>8 DEF DrawnTo

LEMMA EvenChunks ==
  ASSUME NEW n \in Nat, NEW parts \in Nat \ {0}, NEW b \in 1 .. parts
  PROVE  (n + parts - b) \div parts = Begin(n, parts, b + 1) - Begin(n, parts, b)
<1> DEFINE q == n \div parts
           r == n % parts
<1>1. q \in Nat /\ r \in Nat /\ r < parts /\ n = parts * q + r
  BY Division
<1>2. ChunkSize(n, parts, b) = q + (IF b <= r THEN 1 ELSE 0)
  BY DEF ChunkSize
<1> HIDE DEF q, r
<1>3. \A m, k, s \in Nat : s < parts /\ m = parts * k + s => m \div parts = k
  <2> SUFFICES ASSUME NEW m \in Nat, NEW k \in Nat, NEW s \in Nat, s < parts, m = parts * k + s
               PROVE  m \div parts = k
    OBVIOUS
  <2> DEFINE d == m \div parts
             e == m % parts
  <2>1. d \in Nat /\ e \in Nat /\ e < parts /\ m = parts * d + e
    BY Division
  <2> HIDE DEF d, e
  <2>2. ASSUME d < k PROVE FALSE
    <3>1. k - d - 1 \in Nat /\ parts * (k - d - 1) \in Nat
      BY <2>1, <2>2
    <3>2. parts * k = parts * d + parts + parts * (k - d - 1)
      BY <2>1
    <3>3. parts * d \in Nat /\ parts * k \in Nat
      BY <2>1
    <3> QED
      BY <2>1, <3>1, <3>2, <3>3
  <2>3. ASSUME k < d PROVE FALSE
    <3>1. d - k - 1 \in Nat /\ parts * (d - k - 1) \in Nat
      BY <2>1, <2>3
    <3>2. parts * d = parts * k + parts + parts * (d - k - 1)
      BY <2>1
    <3>3. parts * d \in Nat /\ parts * k \in Nat
      BY <2>1
    <3> QED
      BY <2>1, <3>1, <3>2, <3>3
  <2>4. d = k
    BY <2>1, <2>2, <2>3
  <2> QED
    BY <2>4 DEF d
<1>4. (n + parts - b) \div parts = ChunkSize(n, parts, b)
  <2>1. CASE b <= r
    <3>1. n + parts - b \in Nat /\ q + 1 \in Nat /\ r - b \in Nat /\ r - b < parts
      BY <1>1, <2>1
    <3>2. parts * (q + 1) = parts * q + parts /\ parts * q \in Nat
      BY <1>1
    <3>3. n + parts - b = parts * (q + 1) + (r - b)
      BY <1>1, <3>2
    <3> QED
      BY <1>2, <1>3, <2>1, <3>1, <3>3
  <2>2. CASE ~(b <= r)
    <3>1. n + parts - b \in Nat /\ r + parts - b \in Nat /\ r + parts - b < parts
      BY <1>1, <2>2
    <3>2. n + parts - b = parts * q + (r + parts - b)
      <4>1. parts * q \in Nat
        BY <1>1
      <4> QED
        BY <1>1, <4>1
    <3>3. ChunkSize(n, parts, b) = q
      BY <1>1, <1>2, <2>2
    <3> QED
      BY <1>1, <1>3, <3>1, <3>2, <3>3
  <2> QED
    BY <2>1, <2>2
<1> QED
  BY <1>4, ChunkSizes

(* For any number of threads, bundles and items: when a phase is over, the  *)
(* items that drew from the generator of a bundle are those of the fixed    *)
(* division, in its order, whatever threads ran them and when               *)
(* (initialise_threadpool, loop_until_cancelled).                           *)
THEOREM DrawsAreFixed == WorkSpec => []DrawsIndependentOfThreads
<1>1. WorkInv => DrawsIndependentOfThreads
  <2> SUFFICES ASSUME WorkInv, caller = "idle", work_phase > 0
               PROVE  /\ FlattenSeq(drawn) = [k \in 1 .. Items |-> k]
                      /\ \A b \in Bundles :
                           Len(drawn[b]) = (Items + WORK_BUNDLE_COUNT - b) \div WORK_BUNDLE_COUNT
    BY DEF DrawsIndependentOfThreads, Items
  <2> DEFINE W == WORK_BUNDLE_COUNT
             n == Items
             C == [j \in 1 .. W + 1 |-> ItemsBegin(n, j)]
  <2>1. W \in Nat \ {0} /\ n \in Nat /\ active_work_count = 0 /\ DOMAIN drawn = 1 .. W
    BY WorkAssumption, PhaseKinds DEF WorkInv, WorkFlow, WorkTypeOK, InPhase, Bundles
  <2>2. \A b \in 1 .. W : drawn[b] = Piece(Count, ItemsBegin(n, b), ItemsBegin(n, b + 1))
    BY <2>1, AllDrawn DEF Bundles
  <2> HIDE DEF n, W
  <2>3. C \in [1 .. W + 1 -> Nat] /\ \A i, j \in 1 .. W + 1 : i <= j => C[i] <= C[j]
    <3>1. ASSUME NEW i \in 1 .. W + 1, NEW j \in 1 .. W + 1, i <= j
          PROVE  ItemsBegin(n, i) \in Nat /\ ItemsBegin(n, i) <= ItemsBegin(n, j)
      BY <2>1, <3>1, ItemsGrow DEF W
    <3>2. \A i \in 1 .. W + 1 : i <= i
      BY <2>1
    <3> QED
      BY <3>1, <3>2
  <2>4. drawn = [b \in 1 .. W |-> Piece(Count, C[b], C[b + 1])]
    <3>1. drawn = [b \in 1 .. W |-> drawn[b]]
      BY DEF WorkInv, WorkTypeOK, Bundles, W
    <3>2. \A b \in 1 .. W : b \in 1 .. W + 1 /\ b + 1 \in 1 .. W + 1
      BY <2>1
    <3> QED
      BY <2>2, <3>1, <3>2
  <2>5. C[1] = 0 /\ C[W + 1] = n
    <3>1. 1 \in 1 .. W + 1 /\ W + 1 \in 1 .. W + 1
      BY <2>1
    <3>2. Begin(n, W, 1) = 0 /\ Begin(n, W, W + 1) = n
      BY <2>1, Ends
    <3> QED
      BY <3>1, <3>2 DEF ItemsBegin, W
  <2> HIDE DEF C
  <2>6. FlattenSeq(drawn) = Piece(Count, 0, n)
    BY <2>1, <2>3, <2>4, <2>5, Flattened
  <2>7. Piece(Count, 0, n) = [k \in 1 .. n |-> k]
    BY <2>1 DEF Piece, Count
  <2>8. ASSUME NEW b \in Bundles
        PROVE  Len(drawn[b]) = (n + W - b) \div W
    <3>1. b \in 1 .. W
      BY DEF Bundles, W
    <3>2. drawn[b] = Piece(Count, Begin(n, W, b), Begin(n, W, b + 1))
      BY <2>2, <3>1 DEF ItemsBegin, W
    <3>3. Begin(n, W, b) \in Nat /\ Begin(n, W, b + 1) \in Nat /\ Begin(n, W, b) <= Begin(n, W, b + 1)
      BY <2>1, <3>1, ChunkIsPiece
    <3>4. Len(drawn[b]) = Begin(n, W, b + 1) - Begin(n, W, b)
      <4>1. Len(Piece(Count, Begin(n, W, b), Begin(n, W, b + 1))) = Begin(n, W, b + 1) - Begin(n, W, b)
        BY <3>3, PieceIsSeq
      <4> QED
        BY <3>2, <4>1
    <3> QED
      BY <2>1, <3>1, <3>4, EvenChunks
  <2> QED
    BY <2>6, <2>7, <2>8 DEF n, W
<1> QED
  BY <1>1, WorkInductive, PTL

-----------------------------------------------------------------------------
(* A phase is a fork and join: what has been drawn so far, item by item.    *)

DrawsOf(dr, c) == {d \in Bundles \X (1 .. MaxItems) : d[2] \in DOMAIN dr[d[1]] /\ dr[d[1]][d[2]] = c}

LEMMA DrawnWithin ==
  ASSUME NEW n \in Nat, NEW T \in 1 .. WORK_BUNDLE_COUNT, NEW wpt, NEW wk, NEW td, NEW dr,
         Progress(n, T, wpt, wk, td, dr), NEW a \in Bundles, NEW k \in DOMAIN dr[a]
  PROVE  /\ dr[a][k] \in Nat /\ dr[a][k] = ItemsBegin(n, a) + k
         /\ ItemsBegin(n, a) < dr[a][k] /\ dr[a][k] <= ItemsBegin(n, a + 1)
<1>1. PICK w \in 1 .. T : a \in BundlesOf(T, w)
  BY OneThread
<1>2. PICK p \in From(n, T, w) .. To(n, T, w) : DrawnTo(n, T, dr, w, p)
  BY DEF Progress
<1>3. p \in Nat
  <2>1. From(n, T, w) \in Nat /\ To(n, T, w) \in Nat
    BY SpanOf
  <2> QED
    BY <1>2, <2>1
<1> DEFINE x == ItemsBegin(n, a)
           y == ItemsBegin(n, a + 1)
           e == Clip(n, a, p)
<1>4. x \in Nat /\ y \in Nat /\ x <= y /\ dr[a] = Piece(Count, x, e)
  BY <1>1, <1>2, ItemsAre DEF DrawnTo
<1>5. e \in Nat /\ e <= y
  BY <1>3, <1>4 DEF Clip
<1> HIDE DEF x, y, e
<1>6. k \in 1 .. e - x /\ dr[a][k] = Count[x + k]
  BY <1>4 DEF Piece
<1>7. x + k \in Nat /\ x < x + k /\ x + k <= y
  BY <1>4, <1>5, <1>6
<1>8. dr[a][k] = x + k
  BY <1>6, <1>7 DEF Count
<1> QED
  BY <1>7, <1>8 DEF x, y

LEMMA NothingDrawn ==
  ASSUME NEW dr, \A b \in Bundles : dr[b] = <<>>, NEW c
  PROVE  DrawsOf(dr, c) = {}
<1>1. \A b \in Bundles : DOMAIN dr[b] = {}
  OBVIOUS
<1>2. ASSUME NEW d \in DrawsOf(dr, c) PROVE FALSE
  <2>1. d[1] \in Bundles /\ d[2] \in DOMAIN dr[d[1]]
    BY DEF DrawsOf
  <2> QED
    BY <1>1, <2>1
<1> QED
  BY <1>2

LEMMA OneDraw ==
  ASSUME NEW b \in Bundles, NEW k \in 1 .. MaxItems, NEW dr, NEW c,
         k \in DOMAIN dr[b], dr[b][k] = c,
         \A a \in Bundles : \A j \in DOMAIN dr[a] : dr[a][j] = c => a = b /\ j = k
  PROVE  Cardinality(DrawsOf(dr, c)) = 1
<1>1. <<b, k>> \in DrawsOf(dr, c)
  BY DEF DrawsOf
<1>2. ASSUME NEW d \in DrawsOf(dr, c) PROVE d = <<b, k>>
  <2>1. d \in Bundles \X (1 .. MaxItems) /\ d[2] \in DOMAIN dr[d[1]] /\ dr[d[1]][d[2]] = c
    BY DEF DrawsOf
  <2>2. d[1] = b /\ d[2] = k
    BY <2>1
  <2> QED
    BY <2>1, <2>2
<1>3. DrawsOf(dr, c) = {<<b, k>>}
  BY <1>1, <1>2
<1> QED
  BY <1>3, FS_Singleton

(* The table of the draws, and the table after the bundle b has drawn the   *)
(* item c.                                                                  *)
IsTable(dr) == dr = [a \in Bundles |-> dr[a]]
WithDraw(dr, b, c) == [dr EXCEPT ![b] = Append(@, c)]

LEMMA DrawingOne ==
  ASSUME NEW n \in Nat, n <= MaxItems, NEW T \in 1 .. WORK_BUNDLE_COUNT, NEW wpt, NEW wk, NEW td, NEW dr,
         Progress(n, T, wpt, wk, td, dr), IsTable(dr),
         NEW w \in 1 .. T, NEW b, NEW c, NextIs(n, T, td, dr, w, b, c)
  PROVE  /\ DrawsOf(dr, c) = {}
         /\ Cardinality(DrawsOf(WithDraw(dr, b, c), c)) = 1
         /\ \A x : x # c => DrawsOf(WithDraw(dr, b, c), x) = DrawsOf(dr, x)
<1> DEFINE dr2 == WithDraw(dr, b, c)
           s == ItemsBegin(n, b)
<1>1. /\ b \in Bundles /\ c \in 1 .. n /\ c \in Nat /\ s \in Nat /\ s < c
      /\ c <= ItemsBegin(n, b + 1) /\ dr[b] = Piece(Count, s, c - 1) /\ MaxItems \in Nat
  BY BundlesAre, ItemsAre, WorkAssumption DEF NextIs
<1>2. dr2[b] = Piece(Count, s, c) /\ \A a \in Bundles : a # b => dr2[a] = dr[a]
  BY <1>1, CountedOn DEF IsTable, WithDraw
<1> HIDE DEF dr2, s
<1>3. /\ DOMAIN dr[b] = 1 .. (c - 1) - s /\ \A k \in 1 .. (c - 1) - s : dr[b][k] = s + k
      /\ DOMAIN dr2[b] = 1 .. c - s /\ \A k \in 1 .. c - s : dr2[b][k] = s + k
  <2>1. ASSUME NEW e \in Nat
        PROVE  DOMAIN Piece(Count, s, e) = 1 .. e - s /\ \A k \in 1 .. e - s : Piece(Count, s, e)[k] = s + k
    BY <1>1 DEF Piece, Count
  <2>2. c - 1 \in Nat
    BY <1>1
  <2> QED
    BY <1>1, <1>2, <2>1, <2>2
<1>4. ASSUME NEW a \in Bundles, NEW k \in DOMAIN dr[a], dr[a][k] = c PROVE FALSE
  <2>1. ItemsBegin(n, a) < c /\ c <= ItemsBegin(n, a + 1)
    BY <1>4, DrawnWithin
  <2>2. a = b
    <3>1. /\ WORK_BUNDLE_COUNT \in Nat \ {0} /\ a \in 1 .. WORK_BUNDLE_COUNT /\ b \in 1 .. WORK_BUNDLE_COUNT
          /\ Begin(n, WORK_BUNDLE_COUNT, a) < c /\ c <= Begin(n, WORK_BUNDLE_COUNT, a + 1)
          /\ Begin(n, WORK_BUNDLE_COUNT, b) < c /\ c <= Begin(n, WORK_BUNDLE_COUNT, b + 1)
      BY <1>1, <2>1, WorkAssumption DEF ItemsBegin, Bundles, s
    <3> QED
      BY <1>1, <3>1, InOnePart
  <2>3. k \in 1 .. (c - 1) - s /\ s + k = c
    BY <1>3, <1>4, <2>2
  <2> QED
    BY <1>1, <2>3
<1>5. DrawsOf(dr, c) = {}
  <2>1. ASSUME NEW d \in DrawsOf(dr, c) PROVE FALSE
    <3>1. d[1] \in Bundles /\ d[2] \in DOMAIN dr[d[1]] /\ dr[d[1]][d[2]] = c
      BY DEF DrawsOf
    <3> QED
      BY <1>4, <3>1
  <2> QED
    BY <2>1
<1>6. Cardinality(DrawsOf(dr2, c)) = 1
  <2> DEFINE k == c - s
  <2>1. k \in 1 .. MaxItems /\ k \in 1 .. c - s /\ s + k = c
    BY <1>1
  <2>2. k \in DOMAIN dr2[b] /\ dr2[b][k] = c
    BY <1>3, <2>1
  <2> HIDE DEF k
  <2>3. ASSUME NEW a \in Bundles, NEW j \in DOMAIN dr2[a], dr2[a][j] = c
        PROVE  a = b /\ j = k
    <3>1. a = b
      BY <1>2, <1>4, <2>3
    <3>2. j \in 1 .. c - s /\ s + j = c
      BY <1>3, <2>3, <3>1
    <3> QED
      BY <1>1, <2>1, <3>1, <3>2
  <2> QED
    BY <1>1, <2>1, <2>2, <2>3, OneDraw
<1>7. ASSUME NEW x, x # c PROVE DrawsOf(dr2, x) = DrawsOf(dr, x)
  <2>1. ASSUME NEW d \in Bundles \X (1 .. MaxItems)
        PROVE  (d[2] \in DOMAIN dr2[d[1]] /\ dr2[d[1]][d[2]] = x) <=> (d[2] \in DOMAIN dr[d[1]] /\ dr[d[1]][d[2]] = x)
    <3> DEFINE a == d[1]
               k == d[2]
    <3>1. a \in Bundles /\ k \in 1 .. MaxItems
      OBVIOUS
    <3> HIDE DEF a, k
    <3>2. CASE a # b
      BY <1>2, <3>1, <3>2 DEF a, k
    <3>3. CASE a = b
      <4>1. k \in 1 .. c - s <=> k \in 1 .. (c - 1) - s \/ k = c - s
        BY <1>1, <3>1
      <4>2. (k \in DOMAIN dr2[b] /\ dr2[b][k] = x) <=> (k \in DOMAIN dr[b] /\ dr[b][k] = x)
        <5>1. CASE k = c - s
          <6>1. k \in 1 .. c - s /\ k \notin 1 .. (c - 1) - s /\ s + k = c
            BY <1>1, <5>1
          <6> QED
            BY <1>3, <1>7, <6>1
        <5>2. CASE k # c - s
          BY <1>3, <4>1, <5>2
        <5> QED
          BY <5>1, <5>2
      <4> QED
        BY <3>3, <4>2 DEF a, k
    <3> QED
      BY <3>2, <3>3
  <2> QED
    BY <2>1 DEF DrawsOf
<1> QED
  BY <1>5, <1>6, <1>7 DEF dr2

LEMMA EachDrawn ==
  ASSUME WorkInv, active_work_count = 0, work_phase > 0, NEW c \in 1 .. Items
  PROVE  Cardinality(DrawsOf(drawn, c)) = 1
<1>1. Items \in Nat /\ Items \in 0 .. MaxItems /\ MaxItems \in Nat /\ WORK_BUNDLE_COUNT \in Nat \ {0} /\ c \in Nat
  BY PhaseKinds, WorkAssumption DEF WorkInv
<1>2. PICK b \in Bundles : ItemsBegin(Items, b) < c /\ c <= ItemsBegin(Items, b + 1)
  BY <1>1, InSomePart DEF ItemsBegin, Bundles
<1>3. /\ threads \in 1 .. WORK_BUNDLE_COUNT
      /\ Progress(Items, threads, work_per_thread, worker, todo, drawn)
  BY Threads DEF WorkInv, WorkFlow
<1>4. drawn[b] = Piece(Count, ItemsBegin(Items, b), ItemsBegin(Items, b + 1))
  BY AllDrawn
<1> DEFINE s == ItemsBegin(Items, b)
           k == c - s
<1>5. s \in Nat /\ ItemsBegin(Items, b + 1) \in Nat
  BY <1>1, ItemsAre
<1>6. k \in 1 .. MaxItems /\ k \in 1 .. ItemsBegin(Items, b + 1) - s /\ s + k = c
  BY <1>1, <1>2, <1>5
<1>7. k \in DOMAIN drawn[b] /\ drawn[b][k] = c
  BY <1>1, <1>4, <1>6 DEF Piece, Count
<1>8. ASSUME NEW a \in Bundles, NEW j \in DOMAIN drawn[a], drawn[a][j] = c
      PROVE  a = b /\ j = k
  <2>1. ItemsBegin(Items, a) < c /\ c <= ItemsBegin(Items, a + 1) /\ c = ItemsBegin(Items, a) + j
    BY <1>1, <1>3, <1>8, DrawnWithin
  <2>2. a = b
    BY <1>1, <1>2, <2>1, InOnePart DEF ItemsBegin, Bundles
  <2>3. j \in DOMAIN Piece(Count, s, ItemsBegin(Items, b + 1))
    BY <1>4, <1>8, <2>2
  <2>4. j \in Int
    BY <1>5, <2>3 DEF Piece
  <2> QED
    BY <1>5, <1>6, <2>1, <2>2, <2>4
<1> HIDE DEF k
<1> QED
  BY <1>6, <1>7, <1>8, OneDraw

PhaseActive == IF InPhase THEN {Owner} ELSE {}
PhaseRuns == [t \in {Owner} |-> [c \in IF InPhase THEN 1 .. items[Phases[work_phase]] ELSE {} |-> Times(c)]]

LEMMA TimesCount ==
  \A c : Times(c) = Cardinality(DrawsOf(drawn, c)) /\ Times(c)' = Cardinality(DrawsOf(drawn', c))
BY DEF Times, Draws, DrawsOf

(* A step of fork and join, or one that changes nothing of it. *)
PhaseStep == FJ!FJNext \/ (PhaseActive' = PhaseActive /\ PhaseRuns' = PhaseRuns)

LEMMA ProcessWorkForks ==
  ASSUME WorkInv, ProcessWork
  PROVE  PhaseStep
<1>1. /\ WorkInv' /\ drawn' = [b \in Bundles |-> <<>>] /\ InPhase' /\ ~InPhase
      /\ UNCHANGED items /\ work_phase' > 0
  BY ProcessWorkKeeps
<1>2. Items' \in 0 .. MaxItems
  <2>1. WorkTypeOK'
    BY <1>1 DEF WorkInv
  <2>2. Phases \in Seq(ItemKinds)
    BY WorkAssumption
  <2>3. work_phase' \in 1 .. Len(Phases)
    BY <1>1, <2>1, <2>2 DEF WorkTypeOK
  <2>4. Phases[work_phase'] \in ItemKinds
    BY <2>2, <2>3
  <2> QED
    BY <2>1, <2>4 DEF WorkTypeOK, Items
<1>3. \A c : Times(c)' = 0
  BY <1>1, NothingDrawn, TimesCount, FS_EmptySet
<1>4. PhaseRuns' = [t \in {Owner} |-> [c \in 1 .. Items' |-> 0]]
  BY <1>1, <1>3 DEF PhaseRuns, Items
<1>5. PhaseRuns = [t \in {Owner} |-> [c \in {} |-> Times(c)]]
  BY <1>1 DEF PhaseRuns
<1>6. PhaseRuns' = [PhaseRuns EXCEPT ![Owner] = [c \in 1 .. Items' |-> 0]]
  BY <1>4, <1>5
<1>7. PhaseActive = {} /\ PhaseActive' = {Owner}
  BY <1>1 DEF PhaseActive
<1>8. FJ!Fork(Owner, Items')
  BY <1>6, <1>7 DEF FJ!Fork, PhaseActive, PhaseRuns
<1> QED
  BY <1>2, <1>8 DEF PhaseStep, FJ!FJNext

LEMMA RunItemRuns ==
  ASSUME WorkInv, NEW w \in Workers, RunItem(w)
  PROVE  PhaseStep
<1>1. /\ work_phase > 0 /\ InPhase
      /\ \E b, c : /\ NextIs(Items, threads, todo, drawn, w, b, c)
                   /\ drawn' = [drawn EXCEPT ![b] = Append(@, c)]
  BY RunItemKeeps
<1>2. PICK b : \E c : /\ NextIs(Items, threads, todo, drawn, w, b, c)
                       /\ drawn' = [drawn EXCEPT ![b] = Append(@, c)]
  BY <1>1
<1>3. PICK c : /\ NextIs(Items, threads, todo, drawn, w, b, c)
               /\ drawn' = [drawn EXCEPT ![b] = Append(@, c)]
  BY <1>2
<1>4. /\ Items \in Nat /\ Items <= MaxItems /\ MaxItems \in Nat /\ threads \in 1 .. WORK_BUNDLE_COUNT /\ w \in 1 .. threads
      /\ Progress(Items, threads, work_per_thread, worker, todo, drawn)
      /\ drawn = [a \in Bundles |-> drawn[a]]
  BY RunItemFacts, WorkAssumption DEF RunItem, WorkInv, WorkTypeOK
<1>5. Times(c) = 0 /\ Times(c)' = 1 /\ \A x : x # c => Times(x)' = Times(x)
  <2> DEFINE dr2 == WithDraw(drawn, b, c)
  <2>1. /\ DrawsOf(drawn, c) = {}
        /\ Cardinality(DrawsOf(dr2, c)) = 1
        /\ \A x : x # c => DrawsOf(dr2, x) = DrawsOf(drawn, x)
    <3>1. Items \in Nat
      BY <1>4
    <3>2. Items <= MaxItems
      BY <1>4
    <3>3. threads \in 1 .. WORK_BUNDLE_COUNT
      BY <1>4
    <3>4. w \in 1 .. threads
      BY <1>4
    <3>5. Progress(Items, threads, work_per_thread, worker, todo, drawn)
      BY <1>4
    <3>6. IsTable(drawn)
      BY <1>4 DEF IsTable
    <3>7. NextIs(Items, threads, todo, drawn, w, b, c)
      BY <1>3
    <3> QED
      BY <3>1, <3>2, <3>3, <3>4, <3>5, <3>6, <3>7, DrawingOne
  <2>2. drawn' = dr2
    BY <1>3 DEF WithDraw
  <2> HIDE DEF dr2
  <2>3. /\ DrawsOf(drawn, c) = {} /\ Cardinality(DrawsOf(drawn', c)) = 1
        /\ \A x : x # c => DrawsOf(drawn', x) = DrawsOf(drawn, x)
    BY <2>1, <2>2
  <2> QED
    BY <2>3, TimesCount, FS_EmptySet
<1>6. UNCHANGED <<items, work_phase, caller>>
  BY DEF RunItem
<1>7. InPhase' /\ Items' = Items /\ c \in 1 .. Items
  BY <1>1, <1>3, <1>6 DEF InPhase, Items, NextIs
<1>8. /\ PhaseRuns = [t \in {Owner} |-> [x \in 1 .. Items |-> Times(x)]]
      /\ PhaseRuns' = [t \in {Owner} |-> [x \in 1 .. Items |-> Times(x)']]
  BY <1>1, <1>7 DEF PhaseRuns, Items
<1>9. PhaseRuns' = [PhaseRuns EXCEPT ![Owner][c] = 1]
  BY <1>5, <1>7, <1>8
<1>10. c \in DOMAIN PhaseRuns[Owner] /\ PhaseRuns[Owner][c] = 0
  BY <1>5, <1>7, <1>8
<1>11. PhaseActive' = PhaseActive
  BY <1>1, <1>7 DEF PhaseActive
<1>12. FJ!RunChunk(Owner, c)
  BY <1>9, <1>10, <1>11 DEF FJ!RunChunk, PhaseActive, PhaseRuns
<1>13. c \in 1 .. MaxItems
  BY <1>4, <1>7
<1> QED
  BY <1>12, <1>13 DEF PhaseStep, FJ!FJNext

(* While the owner stays in the phase, or out of it, nothing is seen; it    *)
(* leaves the phase only when every item has been processed.                *)
LEMMA OthersWaitOrJoin ==
  ASSUME WorkInv, WorkInv', InPhase' => InPhase,
         UNCHANGED <<items, active_work_count, work_phase, drawn>>
  PROVE  PhaseStep
<1>1. \A c : Times(c)' = Times(c)
  BY TimesCount
<1>2. CASE InPhase' <=> InPhase
  BY <1>1, <1>2 DEF PhaseStep, PhaseActive, PhaseRuns
<1>3. CASE InPhase /\ ~InPhase'
  <2>1. active_work_count = 0 /\ work_phase > 0
    BY <1>3 DEF WorkInv, WorkFlow
  <2>2. \A c \in 1 .. Items : Times(c) = 1
    BY <2>1, EachDrawn, TimesCount
  <2>3. PhaseRuns = [t \in {Owner} |-> [c \in 1 .. Items |-> Times(c)]] /\ PhaseActive = {Owner} /\ PhaseActive' = {}
    BY <1>3 DEF PhaseRuns, PhaseActive, Items
  <2>4. PhaseRuns' = [t \in {Owner} |-> [c \in {} |-> 0]]
    BY <1>3 DEF PhaseRuns
  <2>5. PhaseRuns' = [PhaseRuns EXCEPT ![Owner] = [c \in {} |-> 0]]
    BY <2>3, <2>4
  <2>6. Owner \in PhaseActive /\ PhaseActive' = PhaseActive \ {Owner}
    BY <2>3
  <2>7. \A c \in DOMAIN PhaseRuns[Owner] : PhaseRuns[Owner][c] = 1
    BY <2>2, <2>3
  <2>8. FJ!Join(Owner)
    BY <2>5, <2>6, <2>7 DEF FJ!Join, FJ!AllRan, FJ!NoChunks, PhaseActive, PhaseRuns
  <2> QED
    BY <2>8 DEF PhaseStep, FJ!FJNext
<1> QED
  BY <1>2, <1>3

LEMMA WorkStepRefines ==
  ASSUME WorkInv, WorkInv', [NextWork]_workVars
  PROVE  PhaseStep
<1>1. CASE \E hardware \in 0 .. MaxHardware : Initialise(hardware)
  BY <1>1, OthersWaitOrJoin DEF Initialise, InPhase
<1>2. CASE ProcessWork
  BY <1>2, ProcessWorkForks
<1>3. CASE OwnerStep \/ SpuriousWake \/ RequestCancellation
  <2>1. (InPhase' => InPhase) /\ UNCHANGED <<items, active_work_count, work_phase, drawn>>
    BY <1>3, OthersKeep DEF OwnerStep
  <2> QED
    BY <2>1, OthersWaitOrJoin
<1>4. ASSUME NEW w \in Workers, WorkerStep(w) PROVE PhaseStep
  <2>1. CASE TestCancellation(w) \/ Sleep(w) \/ Cancel(w)
    <3>1. (InPhase' => InPhase) /\ UNCHANGED <<items, active_work_count, work_phase, drawn>>
      BY <2>1, OthersKeep
    <3> QED
      BY <3>1, OthersWaitOrJoin
  <2>2. CASE TakeWork(w)
    BY <2>2, OthersWaitOrJoin DEF TakeWork, InPhase
  <2>3. CASE RunItem(w)
    BY <2>3, RunItemRuns
  <2>4. CASE FinishWork(w)
    <3>1. InPhase /\ InPhase' /\ UNCHANGED <<items, work_phase, drawn>>
      BY <2>4, FinishWorkKeeps DEF FinishWork
    <3>2. \A c : Times(c)' = Times(c)
      BY <3>1, TimesCount
    <3> QED
      BY <3>1, <3>2 DEF PhaseStep, PhaseActive, PhaseRuns
  <2> QED
    BY <1>4, <2>1, <2>2, <2>3, <2>4 DEF WorkerStep
<1>5. CASE UNCHANGED workVars
  BY <1>5, OthersWaitOrJoin DEF workVars, InPhase
<1> QED
  BY <1>1, <1>2, <1>3, <1>4, <1>5 DEF NextWork

(* For any number of threads, bundles and items: process_work runs each     *)
(* item of its kind exactly once and returns when all have been run, so     *)
(* phases never overlap (process_work, await_completion).                   *)
THEOREM PhasesForkAndJoin == WorkSpec => PhaseIsForkJoin
<1>1. InitWork => FJ!FJInit
  <2> SUFFICES ASSUME InitWork PROVE FJ!FJInit
    OBVIOUS
  <2>1. ~InPhase
    BY DEF InitWork, InPhase
  <2> QED
    BY <2>1 DEF FJ!FJInit, FJ!NoChunks
<1>2. WorkInv /\ WorkInv' /\ [NextWork]_workVars => [FJ!FJNext]_(FJ!fjVars)
  <2> SUFFICES ASSUME WorkInv, WorkInv', [NextWork]_workVars PROVE [FJ!FJNext]_(FJ!fjVars)
    OBVIOUS
  <2>1. PhaseStep
    BY WorkStepRefines
  <2> QED
    BY <2>1 DEF PhaseStep, FJ!fjVars, PhaseActive, PhaseRuns
<1> QED
  BY <1>1, <1>2, WorkInductive, PTL DEF WorkSpec, PhaseIsForkJoin, FJ!FJSpec

-----------------------------------------------------------------------------
(* The slots of a signal. *)

WriteSteps == {"write", "overwrite", "leave", "allocate", "edit"}
Edits == [kind : {"connect", "disconnect"}, slot : Slot] \cup [kind : {"clear"}]
Payloads == [count : Int, grouped : BOOLEAN, items : Seq(Slot)]
Calls == {Idle} \cup [op : {"emit"}, ref : Payload \cup {NoPayload}, next : Nat, took : Seq(Slot)]
                \cup [op : WriteSteps, edit : Edits]

(* The shapes of the variables. *)
SignalTypeOK ==
  /\ signal \in [list : Payload \cup {NoPayload}, mutex : Emitter \cup {Free}, crashed : BOOLEAN]
  /\ DOMAIN heap \subseteq Payload /\ heap \in [DOMAIN heap -> Payloads]
  /\ state \in [Slot -> {"unused", "pending", "connected", "disconnected"}]
  /\ call \in [Emitter -> Calls]

Readers(cl, p) == {t \in Emitter : cl[t].op = "emit" /\ cl[t].ref = p}

(* The handle counts as a reference until its writer has left it. *)
Listed(sg, cl, p) == sg.list = p /\ \A t \in Emitter : cl[t].op # "allocate"

(* The count of a payload says how many handles refer to it. *)
CountsExact(sg, hp, cl) ==
  \A p \in DOMAIN hp : hp[p].count = Cardinality(Readers(cl, p)) + (IF Listed(sg, cl, p) THEN 1 ELSE 0)

ListAllocated(sg, hp, cl) == Listed(sg, cl, sg.list) => sg.list = NoPayload \/ sg.list \in DOMAIN hp

ReadersSound(hp, cl) ==
  \A t \in Emitter : cl[t].op = "emit" /\ cl[t].ref # NoPayload =>
    cl[t].ref \in DOMAIN hp /\ hp[cl[t].ref].items = cl[t].took

(* Whoever writes holds the mutex, and edits a list that nobody reads. *)
WritersSound(sg, cl) ==
  /\ \A t \in Emitter : cl[t].op \in WriteSteps <=> sg.mutex = t
  /\ \A t \in Emitter : cl[t].op \in {"overwrite", "leave", "allocate"} => sg.list # NoPayload
  /\ \A t \in Emitter : cl[t].op = "edit" /\ sg.list # NoPayload => Readers(cl, sg.list) = {}

SignalInv ==
  /\ SignalTypeOK
  /\ CountsExact(signal, heap, call)
  /\ ListAllocated(signal, heap, call)
  /\ ReadersSound(heap, call)
  /\ WritersSound(signal, call)

-----------------------------------------------------------------------------
(* What the operators of the model return. *)

LEMMA SwappedOutIsSeq ==
  ASSUME NEW sl \in Seq(Slot), NEW s
  PROVE  SwappedOut(sl, s) \in Seq(Slot)
  <1> DEFINE i == SelectInSeq(sl, LAMBDA x : x = s)
  <1>1. CASE i = 0
    BY <1>1 DEF SwappedOut
  <1>2. CASE i # 0
    <2>1. {k \in 1 .. Len(sl) : sl[k] = s} # {}
      BY <1>2 DEF SelectInSeq
    <2>2. Len(sl) \in Nat /\ Len(sl) # 0
      BY <2>1, LenProperties
    <2> DEFINE f == [k \in 1 .. Len(sl) - 1 |-> IF k = i THEN Last(sl) ELSE sl[k]]
    <2>3. Last(sl) \in Slot
      BY <2>2, ElementOfSeq DEF Last
    <2>4. \A k \in 1 .. Len(sl) - 1 : sl[k] \in Slot
      BY <2>2, ElementOfSeq
    <2>5. SwappedOut(sl, s) = f
      BY <1>2 DEF SwappedOut
    <2> HIDE DEF i
    <2>6. f \in [1 .. Len(sl) - 1 -> Slot] /\ Len(sl) - 1 \in Nat
      BY <2>2, <2>3, <2>4
    <2> QED
      BY <2>5, <2>6
  <1> QED
    BY <1>1, <1>2

LEMMA EditedIsPayload ==
  ASSUME NEW payload \in Payloads, NEW edit \in Edits
  PROVE  Edited(payload, edit) \in Payloads /\ Edited(payload, edit).count = payload.count
  <1>1. CASE edit.kind = "connect"
    <2>1. edit.slot \in Slot
      BY <1>1 DEF Edits
    <2>2. Append(payload.items, edit.slot) \in Seq(Slot)
      BY <2>1, AppendProperties DEF Payloads
    <2>3. Edited(payload, edit) = [payload EXCEPT !.items = Append(payload.items, edit.slot), !.grouped = TRUE]
      BY <1>1 DEF Edited
    <2> QED
      BY <2>2, <2>3 DEF Payloads
  <1>2. CASE edit.kind = "disconnect"
    <2>1. SwappedOut(payload.items, edit.slot) \in Seq(Slot)
      BY SwappedOutIsSeq DEF Payloads
    <2>2. Edited(payload, edit) = [payload EXCEPT !.items = SwappedOut(payload.items, edit.slot)]
      BY <1>2 DEF Edited
    <2> QED
      BY <2>1, <2>2 DEF Payloads
  <1>3. CASE edit.kind = "clear"
    <2>1. Edited(payload, edit) = [payload EXCEPT !.items = <<>>, !.grouped = FALSE]
      BY <1>3 DEF Edited
    <2> QED
      BY <2>1, EmptySeq DEF Payloads
  <1> QED
    BY <1>1, <1>2, <1>3 DEF Edits

LEMMA FreshIsPayload ==
  ASSUME NEW sl \in Seq(Slot)
  PROVE  Fresh(sl) \in Payloads /\ Fresh(sl).count = 1 /\ Fresh(sl).items = sl
  BY DEF Fresh, Payloads

LEMMA CountSet ==
  ASSUME NEW D, NEW h \in [D -> Payloads], NEW p \in D, NEW n \in Int
  PROVE  /\ [h EXCEPT ![p].count = n] \in [D -> Payloads]
         /\ \A q \in D : [h EXCEPT ![p].count = n][q].items = h[q].items
         /\ \A q \in D : [h EXCEPT ![p].count = n][q].count = IF q = p THEN n ELSE h[q].count
  <1> DEFINE f == [h EXCEPT ![p].count = n]
  <1>1. \A q \in D : f[q] = IF q = p THEN [h[p] EXCEPT !.count = n] ELSE h[q]
    OBVIOUS
  <1>2. h[p] \in Payloads /\ \A q \in D : h[q] \in Payloads
    OBVIOUS
  <1>3. /\ [h[p] EXCEPT !.count = n] \in Payloads
        /\ [h[p] EXCEPT !.count = n].items = h[p].items
        /\ [h[p] EXCEPT !.count = n].count = n
    BY <1>2 DEF Payloads
  <1>4. f = [q \in D |-> f[q]]
    OBVIOUS
  <1> HIDE DEF f
  <1>5. \A q \in D : f[q] \in Payloads
    BY <1>1, <1>2, <1>3, Zenon
  <1>6. f \in [D -> Payloads]
    BY <1>4, <1>5
  <1>7. \A q \in D : f[q].items = h[q].items /\ f[q].count = IF q = p THEN n ELSE h[q].count
    BY <1>1, <1>3, Zenon
  <1> QED
    BY <1>6, <1>7 DEF f

LEMMA PayloadSet ==
  ASSUME NEW D, NEW h \in [D -> Payloads], NEW p \in D, NEW new \in Payloads, new.count = h[p].count
  PROVE  /\ [h EXCEPT ![p] = new] \in [D -> Payloads]
         /\ \A q \in D : [h EXCEPT ![p] = new][q].count = h[q].count
         /\ \A q \in D : q # p => [h EXCEPT ![p] = new][q].items = h[q].items
  <1> DEFINE f == [h EXCEPT ![p] = new]
  <1>1. f \in [D -> Payloads] /\ \A q \in D : f[q] = IF q = p THEN new ELSE h[q]
    OBVIOUS
  <1> HIDE DEF f
  <1>2. \A q \in D : f[q].count = h[q].count /\ (q # p => f[q].items = h[q].items)
    BY <1>1, Zenon
  <1> QED
    BY <1>1, <1>2 DEF f

LEMMA PayloadAdded ==
  ASSUME NEW D, NEW h \in [D -> Payloads], NEW p, p \notin D, NEW new \in Payloads, new.count = 1
  PROVE  /\ [q \in D \cup {p} |-> IF q = p THEN new ELSE h[q]] \in [D \cup {p} -> Payloads]
         /\ \A q \in D : [r \in D \cup {p} |-> IF r = p THEN new ELSE h[r]][q] = h[q]
         /\ [q \in D \cup {p} |-> IF q = p THEN new ELSE h[q]][p].count = 1
  OBVIOUS

(* A thread in a call is in a record of the shape of its call. *)
LEMMA CallShapes ==
  ASSUME NEW c \in Calls
  PROVE  /\ c.op = "emit" => c \in [op : {"emit"}, ref : Payload \cup {NoPayload}, next : Nat, took : Seq(Slot)]
         /\ c.op \in WriteSteps => c \in [op : WriteSteps, edit : Edits]
         /\ c.op = "idle" => c = Idle
  BY DEF Calls, Idle, WriteSteps

-----------------------------------------------------------------------------
(* One thread moves. *)
OneMoves(cl, cl2, t) == t \in Emitter /\ \A u \in Emitter : u # t => cl2[u] = cl[u]

LEMMA ReadersFinite ==
  ASSUME NEW cl, NEW p
  PROVE  IsFiniteSet(Readers(cl, p)) /\ Cardinality(Readers(cl, p)) \in Nat
  <1>1. Readers(cl, p) \subseteq Emitter
    BY DEF Readers
  <1> QED
    BY <1>1, SignalAssumption, FS_Subset, FS_CardinalityType

LEMMA ReadersSame ==
  ASSUME NEW cl, NEW cl2, NEW t, OneMoves(cl, cl2, t),
         cl2[t].op = "emit" <=> cl[t].op = "emit",
         cl[t].op = "emit" => cl2[t].ref = cl[t].ref
  PROVE  \A p : Readers(cl2, p) = Readers(cl, p)
  BY Zenon DEF Readers, OneMoves

LEMMA ReadersJoined ==
  ASSUME NEW cl, NEW cl2, NEW t, NEW p, OneMoves(cl, cl2, t),
         cl[t].op # "emit", cl2[t].op = "emit", cl2[t].ref = p
  PROVE  /\ Cardinality(Readers(cl2, p)) = Cardinality(Readers(cl, p)) + 1
         /\ \A q : q # p => Readers(cl2, q) = Readers(cl, q)
  <1>1. \A q : q # p => Readers(cl2, q) = Readers(cl, q)
    BY Zenon DEF Readers, OneMoves
  <1>2. Readers(cl2, p) = Readers(cl, p) \cup {t} /\ t \notin Readers(cl, p)
    BY DEF Readers, OneMoves
  <1> DEFINE S == Readers(cl, p)
  <1>3. IsFiniteSet(S) /\ t \notin S /\ Readers(cl2, p) = S \cup {t}
    BY <1>2, ReadersFinite
  <1> HIDE DEF S
  <1>4. Cardinality(S \cup {t}) = Cardinality(S) + 1
    BY <1>3, FS_AddElement
  <1> QED
    BY <1>1, <1>3, <1>4 DEF S

LEMMA ReadersLeft ==
  ASSUME NEW cl, NEW cl2, NEW t, NEW p, OneMoves(cl, cl2, t),
         cl2[t].op # "emit", cl[t].op = "emit", cl[t].ref = p
  PROVE  /\ Cardinality(Readers(cl2, p)) = Cardinality(Readers(cl, p)) - 1
         /\ \A q : q # p => Readers(cl2, q) = Readers(cl, q)
  <1>1. OneMoves(cl2, cl, t)
    BY Zenon DEF OneMoves
  <1>2. /\ Cardinality(Readers(cl, p)) = Cardinality(Readers(cl2, p)) + 1
        /\ \A q : q # p => Readers(cl, q) = Readers(cl2, q)
    BY <1>1, ReadersJoined
  <1>3. Cardinality(Readers(cl2, p)) \in Nat
    BY ReadersFinite
  <1> QED
    BY <1>2, <1>3

-----------------------------------------------------------------------------
(* The three ways in which a thread changes what the list is about. *)

ListsSound(sg, hp, cl) ==
  /\ CountsExact(sg, hp, cl) /\ ListAllocated(sg, hp, cl)
  /\ ReadersSound(hp, cl) /\ WritersSound(sg, cl)

LEMMA StepNames ==
  /\ "emit" \notin WriteSteps /\ "idle" \notin WriteSteps
  /\ \A op \in {"overwrite", "leave", "allocate", "edit", "write"} : op \in WriteSteps
  /\ "emit" # "allocate" /\ "idle" # "allocate" /\ "idle" # "emit"
  BY DEF WriteSteps

(* An emission takes a handle of the list. *)
Begun(sg, hp, hp2, cl, cl2, t, p) ==
  /\ OneMoves(cl, cl2, t) /\ cl[t].op = "idle" /\ sg.mutex = Free /\ sg.list = p
  /\ cl2[t].op = "emit" /\ cl2[t].ref = p
  /\ p # NoPayload /\ p \in DOMAIN hp => cl2[t].took = hp[p].items
  /\ DOMAIN hp2 = DOMAIN hp
  /\ \A q \in DOMAIN hp : hp[q].count \in Int /\ hp2[q].items = hp[q].items
  /\ \A q \in DOMAIN hp : hp2[q].count = IF q = p THEN hp[q].count + 1 ELSE hp[q].count

LEMMA BeginKeeps ==
  ASSUME NEW sg, NEW hp, NEW hp2, NEW cl, NEW cl2, NEW t, NEW p,
         Begun(sg, hp, hp2, cl, cl2, t, p), ListsSound(sg, hp, cl)
  PROVE  ListsSound(sg, hp2, cl2)
  <1>1. /\ OneMoves(cl, cl2, t) /\ t \in Emitter /\ \A u \in Emitter : u # t => cl2[u] = cl[u]
        /\ cl[t].op = "idle" /\ sg.mutex = Free /\ sg.list = p
        /\ cl2[t].op = "emit" /\ cl2[t].ref = p /\ DOMAIN hp2 = DOMAIN hp
    BY Zenon DEF Begun, OneMoves
  <1>2. \A u \in Emitter : cl[u].op \notin WriteSteps /\ cl2[u].op \notin WriteSteps
    <2>1. \A u \in Emitter : sg.mutex # u
      BY <1>1, SignalAssumption, Zenon
    <2>2. \A u \in Emitter : cl[u].op \notin WriteSteps
      BY <2>1, Zenon DEF ListsSound, WritersSound
    <2> QED
      BY <1>1, <2>2, StepNames, Zenon
  <1>3. \A q : (Listed(sg, cl, q) <=> sg.list = q) /\ (Listed(sg, cl2, q) <=> sg.list = q)
    BY <1>2, StepNames, Zenon DEF Listed
  <1>4. p = NoPayload \/ p \in DOMAIN hp
    BY <1>1, <1>3, Zenon DEF ListsSound, ListAllocated
  <1>5. /\ Cardinality(Readers(cl2, p)) = Cardinality(Readers(cl, p)) + 1
        /\ \A q : q # p => Readers(cl2, q) = Readers(cl, q)
    <2>1. cl[t].op # "emit"
      BY <1>1
    <2> QED
      BY <1>1, <2>1, ReadersJoined
  <1>6. CountsExact(sg, hp2, cl2)
    <2> SUFFICES ASSUME NEW q \in DOMAIN hp2
                 PROVE  hp2[q].count = Cardinality(Readers(cl2, q)) + (IF Listed(sg, cl2, q) THEN 1 ELSE 0)
      BY Zenon DEF CountsExact
    <2>1. hp[q].count = Cardinality(Readers(cl, q)) + (IF Listed(sg, cl, q) THEN 1 ELSE 0)
      BY <1>1, Zenon DEF ListsSound, CountsExact
    <2>2. hp2[q].count = IF q = p THEN hp[q].count + 1 ELSE hp[q].count
      BY <1>1, Zenon DEF Begun
    <2>3. Cardinality(Readers(cl, q)) \in Nat
      BY ReadersFinite
    <2>4. CASE q = p
      <3>1. hp[p].count = Cardinality(Readers(cl, p)) + 1 /\ Listed(sg, cl2, p)
        BY <1>1, <1>3, <2>1, <2>4
      <3>2. hp2[p].count = hp[p].count + 1
        BY <2>2, <2>4
      <3> QED
        BY <1>5, <2>3, <2>4, <3>1, <3>2
    <2>5. CASE q # p
      BY <1>1, <1>3, <1>5, <2>1, <2>2, <2>5, Zenon
    <2> QED
      BY <2>4, <2>5
  <1>7. ListAllocated(sg, hp2, cl2)
    BY <1>1, <1>4, Zenon DEF ListAllocated
  <1>8. ReadersSound(hp2, cl2)
    <2> SUFFICES ASSUME NEW u \in Emitter, cl2[u].op = "emit", cl2[u].ref # NoPayload
                 PROVE  cl2[u].ref \in DOMAIN hp2 /\ hp2[cl2[u].ref].items = cl2[u].took
      BY Zenon DEF ReadersSound
    <2>1. CASE u = t
      BY <1>1, <1>4, <2>1, Zenon DEF Begun
    <2>2. CASE u # t
      <3>1. cl[u].ref \in DOMAIN hp /\ hp[cl[u].ref].items = cl[u].took /\ cl2[u] = cl[u]
        BY <1>1, <2>2, Zenon DEF ListsSound, ReadersSound
      <3> QED
        BY <1>1, <3>1, Zenon DEF Begun
    <2> QED
      BY <2>1, <2>2
  <1>9. WritersSound(sg, cl2)
    <2>1. \A u \in Emitter : sg.mutex # u
      BY <1>1, SignalAssumption, Zenon
    <2>2. \A u \in Emitter : cl2[u].op \notin {"overwrite", "leave", "allocate"} /\ cl2[u].op # "edit"
      BY <1>2 DEF WriteSteps
    <2> QED
      BY <1>2, <2>1, <2>2, Zenon DEF WritersSound
  <1> QED
    BY <1>6, <1>7, <1>8, <1>9 DEF ListsSound

(* An emission gives its handle back, and frees what nobody refers to. *)
Ended(hp, hp2, cl, cl2, t, p) ==
  /\ OneMoves(cl, cl2, t) /\ cl[t].op = "emit" /\ cl[t].ref = p /\ cl2[t].op = "idle"
  /\ DOMAIN hp2 = IF p \in DOMAIN hp /\ hp[p].count = 1 THEN DOMAIN hp \ {p} ELSE DOMAIN hp
  /\ \A q \in DOMAIN hp2 : hp2[q].items = hp[q].items
  /\ \A q \in DOMAIN hp2 : hp2[q].count = IF q = p THEN hp[q].count - 1 ELSE hp[q].count

LEMMA EndKeeps ==
  ASSUME NEW sg, NEW hp, NEW hp2, NEW cl, NEW cl2, NEW t, NEW p, p \notin DOMAIN hp => p = NoPayload,
         Ended(hp, hp2, cl, cl2, t, p), ListsSound(sg, hp, cl)
  PROVE  ListsSound(sg, hp2, cl2)
  <1>1. /\ OneMoves(cl, cl2, t) /\ t \in Emitter /\ \A u \in Emitter : u # t => cl2[u] = cl[u]
        /\ cl[t].op = "emit" /\ cl[t].ref = p /\ cl2[t].op = "idle"
        /\ \A q \in DOMAIN hp2 : q \in DOMAIN hp
        /\ \A q \in DOMAIN hp : q \notin DOMAIN hp2 => q = p /\ hp[q].count = 1
        /\ hp[p].count = 1 => p \notin DOMAIN hp2
    BY DEF Ended, OneMoves
  <1>2. \A u \in Emitter : cl2[u].op \in WriteSteps <=> cl[u].op \in WriteSteps
    BY <1>1, StepNames, Zenon
  <1>3. \A q : Listed(sg, cl2, q) <=> Listed(sg, cl, q)
    BY <1>1, StepNames, Zenon DEF Listed
  <1>4. /\ Cardinality(Readers(cl2, p)) = Cardinality(Readers(cl, p)) - 1
        /\ \A q : q # p => Readers(cl2, q) = Readers(cl, q)
    <2>1. cl2[t].op # "emit"
      BY <1>1
    <2> QED
      BY <1>1, <2>1, ReadersLeft
  <1>5. /\ Cardinality(Readers(cl, p)) \in Nat /\ Cardinality(Readers(cl2, p)) \in Nat
    BY ReadersFinite
  <1>6. ASSUME p \in DOMAIN hp, hp[p].count = 1 PROVE ~Listed(sg, cl, p) /\ Readers(cl2, p) = {}
    <2>1. hp[p].count = Cardinality(Readers(cl, p)) + (IF Listed(sg, cl, p) THEN 1 ELSE 0)
      BY <1>6, Zenon DEF ListsSound, CountsExact
    <2>2. ~Listed(sg, cl, p) /\ Cardinality(Readers(cl2, p)) = 0
      BY <1>4, <1>5, <1>6, <2>1
    <2> QED
      BY <2>2, ReadersFinite, FS_EmptySet
  <1>7. CountsExact(sg, hp2, cl2)
    <2> SUFFICES ASSUME NEW q \in DOMAIN hp2
                 PROVE  hp2[q].count = Cardinality(Readers(cl2, q)) + (IF Listed(sg, cl2, q) THEN 1 ELSE 0)
      BY Zenon DEF CountsExact
    <2>1. hp[q].count = Cardinality(Readers(cl, q)) + (IF Listed(sg, cl, q) THEN 1 ELSE 0)
      BY <1>1, Zenon DEF ListsSound, CountsExact
    <2>2. hp2[q].count = IF q = p THEN hp[q].count - 1 ELSE hp[q].count
      BY <1>1, Zenon DEF Ended
    <2>3. Listed(sg, cl2, q) <=> Listed(sg, cl, q)
      BY <1>3
    <2>4. CASE q = p
      <3>1. hp[p].count = Cardinality(Readers(cl, p)) + (IF Listed(sg, cl2, p) THEN 1 ELSE 0)
        BY <2>1, <2>3, <2>4
      <3>2. hp2[p].count = hp[p].count - 1
        BY <2>2, <2>4
      <3> QED
        BY <1>4, <1>5, <2>4, <3>1, <3>2
    <2>5. CASE q # p
      BY <1>4, <2>1, <2>2, <2>3, <2>5, Zenon
    <2> QED
      BY <2>4, <2>5
  <1>8. ListAllocated(sg, hp2, cl2)
    <2> SUFFICES ASSUME Listed(sg, cl, sg.list), sg.list # NoPayload PROVE sg.list \in DOMAIN hp2
      BY <1>3, Zenon DEF ListAllocated
    <2>1. sg.list \in DOMAIN hp
      BY Zenon DEF ListsSound, ListAllocated
    <2> QED
      BY <1>1, <1>6, <2>1, Zenon
  <1>9. ReadersSound(hp2, cl2)
    <2> SUFFICES ASSUME NEW u \in Emitter, cl2[u].op = "emit", cl2[u].ref # NoPayload
                 PROVE  cl2[u].ref \in DOMAIN hp2 /\ hp2[cl2[u].ref].items = cl2[u].took
      BY Zenon DEF ReadersSound
    <2>1. u # t
      BY <1>1, StepNames, Zenon
    <2>2. cl[u].ref \in DOMAIN hp /\ hp[cl[u].ref].items = cl[u].took /\ cl2[u] = cl[u]
      BY <1>1, <2>1, Zenon DEF ListsSound, ReadersSound
    <2>3. u \in Readers(cl2, cl2[u].ref)
      BY Zenon DEF Readers
    <2>4. cl[u].ref \in DOMAIN hp2
      BY <1>1, <1>6, <2>2, <2>3, Zenon
    <2> QED
      BY <2>2, <2>4, Zenon DEF Ended
  <1>10. WritersSound(sg, cl2)
    <2>1. \A u \in Emitter : cl2[u].op \in WriteSteps => cl2[u] = cl[u]
      BY <1>1, StepNames, Zenon
    <2>2. \A u \in Emitter : cl2[u].op \in {"overwrite", "leave", "allocate"} \/ cl2[u].op = "edit" => cl2[u] = cl[u]
      BY <2>1 DEF WriteSteps
    <2>3. \A q : Readers(cl, q) = {} => Readers(cl2, q) = {}
      BY <1>1, StepNames, Zenon DEF Readers
    <2>4. WritersSound(sg, cl)
      BY DEF ListsSound
    <2>5. \A u \in Emitter : cl2[u].op \in WriteSteps <=> sg.mutex = u
      BY <1>2, <2>4, Zenon DEF WritersSound
    <2>6. \A u \in Emitter : cl2[u].op \in {"overwrite", "leave", "allocate"} => sg.list # NoPayload
      BY <2>2, <2>4, Zenon DEF WritersSound
    <2>7. \A u \in Emitter : cl2[u].op = "edit" /\ sg.list # NoPayload => Readers(cl2, sg.list) = {}
      BY <2>2, <2>3, <2>4, Zenon DEF WritersSound
    <2> QED
      BY <2>5, <2>6, <2>7, Zenon DEF WritersSound
  <1> QED
    BY <1>7, <1>8, <1>9, <1>10 DEF ListsSound

(* An emission calls a slot. *)
LEMMA WalkKeeps ==
  ASSUME NEW sg, NEW hp, NEW cl, NEW cl2, NEW t, OneMoves(cl, cl2, t),
         cl[t].op = "emit", cl2[t].op = "emit", cl2[t].ref = cl[t].ref, cl2[t].took = cl[t].took,
         ListsSound(sg, hp, cl)
  PROVE  ListsSound(sg, hp, cl2)
  <1>1. \A u \in Emitter : cl2[u].op = cl[u].op /\ (cl[u].op = "emit" => cl2[u].ref = cl[u].ref /\ cl2[u].took = cl[u].took)
    BY Zenon DEF OneMoves
  <1>2. \A q : Readers(cl2, q) = Readers(cl, q)
    BY <1>1, Zenon DEF Readers
  <1>3. \A q : Listed(sg, cl2, q) <=> Listed(sg, cl, q)
    BY <1>1, Zenon DEF Listed
  <1>4. CountsExact(sg, hp, cl2)
    BY <1>2, <1>3 DEF CountsExact, ListsSound
  <1>5. ListAllocated(sg, hp, cl2)
    BY <1>3, Zenon DEF ListAllocated, ListsSound
  <1>6. ReadersSound(hp, cl2)
    BY <1>1, Zenon DEF ReadersSound, ListsSound
  <1>7. WritersSound(sg, cl2)
    BY <1>1, <1>2 DEF WritersSound, ListsSound
  <1> QED
    BY <1>4, <1>5, <1>6, <1>7 DEF ListsSound

(* A thread that holds the mutex, or just takes it, goes on with a write:  *)
(* the counts stay exact, and what is read keeps its items.                *)
Written(sg, sg2, hp, hp2, cl, cl2, t) ==
  /\ OneMoves(cl, cl2, t) /\ cl[t].op # "emit" /\ cl2[t].op # "emit"
  /\ sg.mutex \in {t, Free}
  /\ sg2.mutex = IF cl2[t].op \in WriteSteps THEN t ELSE Free
  /\ \A q \in DOMAIN hp : q \in DOMAIN hp2 /\ (Readers(cl, q) # {} => hp2[q].items = hp[q].items)
  /\ \A q \in DOMAIN hp2 : hp2[q].count =
       Cardinality(Readers(cl, q)) + (IF sg2.list = q /\ cl2[t].op # "allocate" THEN 1 ELSE 0)
  /\ cl2[t].op # "allocate" => sg2.list = NoPayload \/ sg2.list \in DOMAIN hp2
  /\ cl2[t].op \in {"overwrite", "leave", "allocate"} => sg2.list # NoPayload
  /\ cl2[t].op = "edit" /\ sg2.list # NoPayload => Readers(cl, sg2.list) = {}

LEMMA WriteKeeps ==
  ASSUME NEW sg, NEW sg2, NEW hp, NEW hp2, NEW cl, NEW cl2, NEW t,
         Written(sg, sg2, hp, hp2, cl, cl2, t), ListsSound(sg, hp, cl)
  PROVE  ListsSound(sg2, hp2, cl2)
  <1>1. /\ OneMoves(cl, cl2, t) /\ t \in Emitter /\ \A u \in Emitter : u # t => cl2[u] = cl[u]
        /\ cl[t].op # "emit" /\ cl2[t].op # "emit" /\ sg.mutex \in {t, Free}
    BY Zenon DEF Written, OneMoves
  <1>2. \A u \in Emitter : u # t => cl2[u].op \notin WriteSteps
    <2>1. \A u \in Emitter : u # t => sg.mutex # u
      BY <1>1, SignalAssumption
    <2> QED
      BY <1>1, <2>1, Zenon DEF ListsSound, WritersSound
  <1>3. \A q : Readers(cl2, q) = Readers(cl, q)
    BY <1>1, Zenon DEF Readers
  <1>4. \A q : Listed(sg2, cl2, q) <=> sg2.list = q /\ cl2[t].op # "allocate"
    BY <1>1, <1>2, StepNames, Zenon DEF Listed
  <1>5. CountsExact(sg2, hp2, cl2)
    <2> SUFFICES ASSUME NEW q \in DOMAIN hp2
                 PROVE  hp2[q].count = Cardinality(Readers(cl2, q)) + (IF Listed(sg2, cl2, q) THEN 1 ELSE 0)
      BY Zenon DEF CountsExact
    <2>1. hp2[q].count = Cardinality(Readers(cl, q)) + (IF sg2.list = q /\ cl2[t].op # "allocate" THEN 1 ELSE 0)
      BY Zenon DEF Written
    <2> QED
      BY <1>3, <1>4, <2>1
  <1>6. ListAllocated(sg2, hp2, cl2)
    BY <1>4, Zenon DEF ListAllocated, Written
  <1>7. ReadersSound(hp2, cl2)
    <2> SUFFICES ASSUME NEW u \in Emitter, cl2[u].op = "emit", cl2[u].ref # NoPayload
                 PROVE  cl2[u].ref \in DOMAIN hp2 /\ hp2[cl2[u].ref].items = cl2[u].took
      BY Zenon DEF ReadersSound
    <2>1. cl2[u] = cl[u] /\ cl[u].ref \in DOMAIN hp /\ hp[cl[u].ref].items = cl[u].took
      BY <1>1, Zenon DEF ListsSound, ReadersSound
    <2>2. Readers(cl, cl[u].ref) # {}
      BY <2>1, Zenon DEF Readers
    <2> QED
      BY <2>1, <2>2, Zenon DEF Written
  <1>8. WritersSound(sg2, cl2)
    <2>1. \A u \in Emitter : u # t => cl2[u].op \notin {"overwrite", "leave", "allocate"} /\ cl2[u].op # "edit"
      BY <1>2 DEF WriteSteps
    <2>2. \A u \in Emitter : cl2[u].op \in WriteSteps <=> sg2.mutex = u
      BY <1>1, <1>2, SignalAssumption DEF Written
    <2>3. \A u \in Emitter : cl2[u].op \in {"overwrite", "leave", "allocate"} => sg2.list # NoPayload
      BY <2>1, Zenon DEF Written
    <2>4. \A u \in Emitter : cl2[u].op = "edit" /\ sg2.list # NoPayload => Readers(cl2, sg2.list) = {}
      BY <1>3, <2>1, Zenon DEF Written
    <2> QED
      BY <2>2, <2>3, <2>4, Zenon DEF WritersSound
  <1> QED
    BY <1>5, <1>6, <1>7, <1>8 DEF ListsSound

-----------------------------------------------------------------------------
(* Every action keeps the invariant. *)

LEMMA BeginEmissionKeeps ==
  ASSUME SignalInv, NEW t \in Emitter, BeginEmission(t)
  PROVE  SignalInv'
  <1> DEFINE p == signal.list
  <1> USE DEF SignalInv
  <1>1. /\ call[t].op = "idle" /\ signal.mutex = Free
        /\ heap' = IF p = NoPayload THEN heap ELSE [heap EXCEPT ![p].count = @ + 1]
        /\ call' = [call EXCEPT ![t] = Emitting(p, 1, Lists(p))]
        /\ signal' = signal /\ state' = state
    BY DEF BeginEmission, Does, Then
  <1>2. p \in Payload \cup {NoPayload}
    BY DEF SignalTypeOK
  <1>3. p = NoPayload \/ p \in DOMAIN heap
    <2>1. \A u \in Emitter : call[u].op \notin WriteSteps
      BY <1>1, SignalAssumption, Zenon DEF WritersSound
    <2>2. \A u \in Emitter : call[u].op # "allocate"
      BY <2>1 DEF WriteSteps
    <2> QED
      BY <2>2, Zenon DEF ListAllocated, Listed
  <1>4. Lists(p) \in Seq(Slot) /\ (p # NoPayload => Lists(p) = heap[p].items)
    BY <1>3, EmptySeq DEF Lists, SignalTypeOK, Payloads
  <1>5. /\ call' \in [Emitter -> Calls]
        /\ call'[t] = Emitting(p, 1, Lists(p))
        /\ \A u \in Emitter : u # t => call'[u] = call[u]
    <2>1. Emitting(p, 1, Lists(p)) \in Calls
      BY <1>2, <1>4 DEF Calls, Emitting
    <2> HIDE DEF p
    <2> QED
      BY <1>1, <2>1 DEF SignalTypeOK
  <1>6. /\ DOMAIN heap' = DOMAIN heap /\ heap' \in [DOMAIN heap' -> Payloads]
        /\ \A q \in DOMAIN heap : heap[q].count \in Int /\ heap'[q].items = heap[q].items
        /\ \A q \in DOMAIN heap : heap'[q].count = IF q = p THEN heap[q].count + 1 ELSE heap[q].count
    <2>1. NoPayload \notin DOMAIN heap
      BY SignalAssumption DEF SignalTypeOK
    <2>2. heap \in [DOMAIN heap -> Payloads] /\ \A q \in DOMAIN heap : heap[q].count \in Int
      BY DEF SignalTypeOK, Payloads
    <2> HIDE DEF p
    <2>3. CASE p = NoPayload
      BY <1>1, <2>1, <2>2, <2>3
    <2>4. CASE p \in DOMAIN heap /\ p # NoPayload
      <3>1. heap' = [heap EXCEPT ![p].count = heap[p].count + 1] /\ heap[p].count + 1 \in Int
        BY <1>1, <2>2, <2>4
      <3>2. DOMAIN heap' = DOMAIN heap
        BY <3>1
      <3> QED
        BY <2>2, <2>4, <3>1, <3>2, CountSet
    <2> QED
      BY <1>3, <2>3, <2>4
  <1>7. SignalTypeOK'
    BY <1>1, <1>5, <1>6 DEF SignalTypeOK
  <1>8. Begun(signal, heap, heap', call, call', t, p)
    BY <1>1, <1>4, <1>5, <1>6 DEF Begun, OneMoves, Emitting
  <1>9. ListsSound(signal, heap', call')
    BY <1>8, BeginKeeps DEF ListsSound
  <1> QED
    BY <1>1, <1>7, <1>9 DEF ListsSound

LEMMA CallSlotKeeps ==
  ASSUME SignalInv, NEW t \in Emitter, CallSlot(t)
  PROVE  SignalInv'
  <1> USE DEF SignalInv
  <1>1. /\ call[t].op = "emit" /\ call' = [call EXCEPT ![t].next = @ + 1]
        /\ signal' = signal /\ heap' = heap /\ state' = state
    BY DEF CallSlot, Does
  <1>2. call[t] \in [op : {"emit"}, ref : Payload \cup {NoPayload}, next : Nat, took : Seq(Slot)]
    <2>1. call[t] \in Calls
      BY DEF SignalTypeOK
    <2> QED
      BY <1>1, <2>1, CallShapes
  <1>3. /\ call'[t] \in Calls /\ \A u \in Emitter : u # t => call'[u] = call[u]
        /\ call'[t].op = "emit" /\ call'[t].ref = call[t].ref /\ call'[t].took = call[t].took
        /\ call' \in [Emitter -> Calls]
    <2>1. call'[t] = [call[t] EXCEPT !.next = @ + 1] /\ \A u \in Emitter : u # t => call'[u] = call[u]
      BY <1>1 DEF SignalTypeOK
    <2>2. call'[t] \in [op : {"emit"}, ref : Payload \cup {NoPayload}, next : Nat, took : Seq(Slot)]
      BY <1>2, <2>1
    <2>3. call'[t] \in Calls
      BY <2>2 DEF Calls
    <2>4. call'[t].op = "emit" /\ call'[t].ref = call[t].ref /\ call'[t].took = call[t].took
      BY <1>2, <2>1
    <2>5. call' \in [Emitter -> Calls]
      <3>1. call' = [u \in Emitter |-> call'[u]]
        BY <1>1 DEF SignalTypeOK
      <3>2. \A u \in Emitter : call'[u] \in Calls
        BY <2>1, <2>3 DEF SignalTypeOK
      <3> QED
        BY <3>1, <3>2
    <2> QED
      BY <2>1, <2>3, <2>4, <2>5
  <1>4. SignalTypeOK'
    BY <1>1, <1>3 DEF SignalTypeOK
  <1>5. ListsSound(signal, heap, call')
    <2>1. OneMoves(call, call', t)
      BY <1>3 DEF OneMoves
    <2> QED
      <3>1. ListsSound(signal, heap, call) /\ call[t].op = "emit"
        BY <1>1 DEF ListsSound
      <3> QED
        BY <1>3, <2>1, <3>1, WalkKeeps
  <1> QED
    BY <1>1, <1>4, <1>5 DEF ListsSound

LEMMA EndEmissionKeeps ==
  ASSUME SignalInv, NEW t \in Emitter, EndEmission(t)
  PROVE  SignalInv'
  <1> DEFINE p == call[t].ref
  <1> USE DEF SignalInv
  <1>1. /\ call[t].op = "emit"
        /\ heap' = IF p = NoPayload THEN heap ELSE Dropped(p)
        /\ call' = [call EXCEPT ![t] = Idle]
        /\ signal' = signal /\ state' = state
    BY DEF EndEmission, Does, Then
  <1>2. p # NoPayload => p \in DOMAIN heap
    BY <1>1, Zenon DEF ReadersSound
  <1>3. NoPayload \notin DOMAIN heap
    BY SignalAssumption DEF SignalTypeOK
  <1>4. /\ call' \in [Emitter -> Calls] /\ call'[t] = Idle
        /\ \A u \in Emitter : u # t => call'[u] = call[u]
    BY <1>1 DEF SignalTypeOK, Calls
  <1>5. /\ DOMAIN heap' = IF p \in DOMAIN heap /\ heap[p].count = 1 THEN DOMAIN heap \ {p} ELSE DOMAIN heap
        /\ heap' \in [DOMAIN heap' -> Payloads]
        /\ \A q \in DOMAIN heap' : heap'[q].items = heap[q].items
        /\ \A q \in DOMAIN heap' : heap'[q].count = IF q = p THEN heap[q].count - 1 ELSE heap[q].count
    <2> HIDE DEF p
    <2>1. CASE p = NoPayload
      BY <1>1, <1>3, <2>1 DEF SignalTypeOK
    <2>2. CASE p # NoPayload /\ heap[p].count = 1
      BY <1>1, <1>2, <2>2 DEF SignalTypeOK, Dropped, Without
    <2>3. CASE p # NoPayload /\ heap[p].count # 1
      <3>1. heap \in [DOMAIN heap -> Payloads] /\ p \in DOMAIN heap /\ heap[p].count \in Int
        BY <1>2, <2>3 DEF SignalTypeOK, Payloads
      <3>2. heap' = [heap EXCEPT ![p].count = heap[p].count - 1] /\ heap[p].count - 1 \in Int
        BY <1>1, <2>3, <3>1 DEF Dropped
      <3>3. DOMAIN heap' = DOMAIN heap
        BY <3>2
      <3> QED
        BY <2>3, <3>1, <3>2, <3>3, CountSet
    <2> QED
      BY <2>1, <2>2, <2>3
  <1>6. SignalTypeOK'
    BY <1>1, <1>4, <1>5 DEF SignalTypeOK
  <1>7. Ended(heap, heap', call, call', t, p)
    BY <1>1, <1>4, <1>5 DEF Ended, OneMoves, Idle
  <1>8. ListsSound(signal, heap', call')
    BY <1>2, <1>7, EndKeeps DEF ListsSound
  <1> QED
    BY <1>1, <1>6, <1>8 DEF ListsSound

(* The steps of a writer t: what it knows of the list. *)
LEMMA WriterKnows ==
  ASSUME SignalInv, NEW t \in Emitter, call[t].op \in WriteSteps
  PROVE  /\ signal.mutex = t /\ call[t] \in [op : WriteSteps, edit : Edits]
         /\ \A q : Listed(signal, call, q) <=> signal.list = q /\ call[t].op # "allocate"
         /\ \A q \in DOMAIN heap : heap[q].count =
              Cardinality(Readers(call, q)) + (IF signal.list = q /\ call[t].op # "allocate" THEN 1 ELSE 0)
         /\ \A q : Cardinality(Readers(call, q)) \in Nat
         /\ call[t].op # "allocate" => signal.list = NoPayload \/ signal.list \in DOMAIN heap
         /\ NoPayload \notin DOMAIN heap
  <1> USE DEF SignalInv
  <1>1. signal.mutex = t
    BY Zenon DEF WritersSound
  <1>2. \A u \in Emitter : u # t => call[u].op \notin WriteSteps
    BY <1>1, Zenon DEF WritersSound
  <1>3. \A q : Listed(signal, call, q) <=> signal.list = q /\ call[t].op # "allocate"
    BY <1>2, StepNames, Zenon DEF Listed
  <1>4. call[t] \in [op : WriteSteps, edit : Edits]
    BY CallShapes DEF SignalTypeOK
  <1>5. \A q \in DOMAIN heap : heap[q].count =
          Cardinality(Readers(call, q)) + (IF signal.list = q /\ call[t].op # "allocate" THEN 1 ELSE 0)
    BY <1>3 DEF CountsExact
  <1>6. call[t].op # "allocate" => signal.list = NoPayload \/ signal.list \in DOMAIN heap
    BY <1>3, Zenon DEF ListAllocated
  <1>7. NoPayload \notin DOMAIN heap
    BY SignalAssumption DEF SignalTypeOK
  <1> QED
    BY <1>1, <1>3, <1>4, <1>5, <1>6, <1>7, ReadersFinite

(* The program counter of one thread. *)
LEMMA ThenMoves ==
  ASSUME SignalTypeOK, NEW t \in Emitter, NEW c \in Calls, call' = [call EXCEPT ![t] = c]
  PROVE  call' \in [Emitter -> Calls] /\ call'[t] = c /\ OneMoves(call, call', t)
  BY DEF SignalTypeOK, OneMoves

LEMMA WritingIsCall ==
  ASSUME NEW step \in WriteSteps, NEW edit \in Edits
  PROVE  /\ Writing(step, edit) \in Calls /\ Writing(step, edit).op = step
         /\ Writing(step, edit).op # "emit"
  BY DEF Writing, Calls, WriteSteps

LEMMA BeginWriteKeeps ==
  ASSUME SignalInv, NEW t \in Emitter, NEW edit \in Edits, BeginWrite(t, edit)
  PROVE  SignalInv'
  <1> USE DEF SignalInv
  <1>1. /\ call[t].op = "idle" /\ signal.mutex = Free
        /\ signal' = [signal EXCEPT !.mutex = t]
        /\ call' = [call EXCEPT ![t] = Writing("write", edit)]
        /\ heap' = heap
    BY DEF BeginWrite, Does, Then
  <1>2. state' \in [Slot -> {"unused", "pending", "connected", "disconnected"}]
    <2>1. edit.kind = "connect" => state' = [state EXCEPT ![edit.slot] = "pending"]
      BY DEF BeginWrite
    <2>2. edit.kind = "disconnect" => state' = [state EXCEPT ![edit.slot] = "disconnected"]
      BY DEF BeginWrite
    <2>3. edit.kind = "clear" => state' = state
      BY DEF BeginWrite
    <2> QED
      BY <2>1, <2>2, <2>3 DEF SignalTypeOK, Edits
  <1>3. /\ Writing("write", edit) \in Calls /\ Writing("write", edit).op = "write" /\ "write" \in WriteSteps
    <2>1. "write" \in WriteSteps
      BY DEF WriteSteps
    <2> QED
      BY <2>1, WritingIsCall
  <1>4. call' \in [Emitter -> Calls] /\ call'[t].op = "write" /\ OneMoves(call, call', t)
    BY <1>1, <1>3, ThenMoves
  <1>5. /\ signal' \in [list : Payload \cup {NoPayload}, mutex : Emitter \cup {Free}, crashed : BOOLEAN]
        /\ signal'.list = signal.list /\ signal'.mutex = t
    BY <1>1 DEF SignalTypeOK
  <1>6. SignalTypeOK'
    BY <1>1, <1>2, <1>4, <1>5 DEF SignalTypeOK
  <1>7. \A u \in Emitter : call[u].op \notin WriteSteps
    BY <1>1, SignalAssumption, Zenon DEF WritersSound
  <1>8. \A q : Listed(signal, call, q) <=> signal.list = q
    BY <1>7, StepNames, Zenon DEF Listed
  <1>9. Written(signal, signal', heap, heap, call, call', t)
    <2>1. /\ call[t].op # "emit" /\ call'[t].op # "emit" /\ call'[t].op # "allocate" /\ call'[t].op # "edit"
          /\ call'[t].op \notin {"overwrite", "leave", "allocate"}
      BY <1>1, <1>4
    <2>2. \A q \in DOMAIN heap : heap[q].count =
            Cardinality(Readers(call, q)) + (IF signal'.list = q /\ call'[t].op # "allocate" THEN 1 ELSE 0)
      BY <1>5, <1>8, <2>1 DEF CountsExact
    <2>3. signal'.list = NoPayload \/ signal'.list \in DOMAIN heap
      BY <1>5, <1>8, Zenon DEF ListAllocated
    <2>4. signal'.mutex = (IF call'[t].op \in WriteSteps THEN t ELSE Free) /\ signal.mutex \in {t, Free}
      BY <1>1, <1>3, <1>4, <1>5
    <2> QED
      BY <1>4, <2>1, <2>2, <2>3, <2>4, Zenon DEF Written
  <1>10. ListsSound(signal', heap, call')
    BY <1>9, WriteKeeps DEF ListsSound
  <1> QED
    BY <1>1, <1>6, <1>10 DEF ListsSound

LEMMA WriteKeepsInv ==
  ASSUME SignalInv, NEW t \in Emitter, Write(t)
  PROVE  SignalInv'
  <1> USE DEF SignalInv
  <1> DEFINE p == signal.list
             step == IF IsShared(p) THEN "overwrite" ELSE "edit"
  <1>1. /\ call[t].op = "write" /\ call[t].op \in WriteSteps
        /\ call' = [call EXCEPT ![t] = Writing(step, call[t].edit)]
        /\ signal' = signal /\ heap' = heap /\ state' = state
    BY DEF Write, Does, Then, WriteSteps
  <1>2. step \in WriteSteps /\ call[t].edit \in Edits
    BY <1>1, WriterKnows DEF WriteSteps
  <1>3. call' \in [Emitter -> Calls] /\ call'[t].op = step /\ OneMoves(call, call', t)
    <2> HIDE DEF step
    <2> QED
      BY <1>1, <1>2, WritingIsCall, ThenMoves
  <1>4. SignalTypeOK'
    BY <1>1, <1>3 DEF SignalTypeOK
  <1>5. Written(signal, signal, heap, heap, call, call', t)
    <2>1. /\ call[t].op # "emit" /\ call'[t].op # "emit" /\ call'[t].op # "allocate"
          /\ call[t].op # "allocate"
      BY <1>1, <1>3
    <2>2. /\ \A q \in DOMAIN heap : heap[q].count =
               Cardinality(Readers(call, q)) + (IF signal.list = q /\ call'[t].op # "allocate" THEN 1 ELSE 0)
          /\ signal.list = NoPayload \/ signal.list \in DOMAIN heap
          /\ signal.mutex = t
      BY <1>1, <2>1, WriterKnows
    <2>3. call'[t].op \in WriteSteps
      BY <1>2, <1>3
    <2>4. call'[t].op \in {"overwrite", "leave", "allocate"} => signal.list # NoPayload
      BY <1>3 DEF IsShared
    <2>5. ASSUME call'[t].op = "edit", signal.list # NoPayload PROVE Readers(call, signal.list) = {}
      <3>1. signal.list \in DOMAIN heap /\ ~(heap[signal.list].count > 1)
        BY <1>3, <2>2, <2>5 DEF IsShared
      <3>2. /\ heap[signal.list].count = Cardinality(Readers(call, signal.list)) + 1
            /\ Cardinality(Readers(call, signal.list)) \in Nat
        BY <2>1, <2>2, <3>1, ReadersFinite
      <3>3. Cardinality(Readers(call, signal.list)) = 0
        BY <3>1, <3>2
      <3> QED
        BY <3>3, ReadersFinite, FS_EmptySet
    <2>6. signal.mutex = (IF call'[t].op \in WriteSteps THEN t ELSE Free) /\ signal.mutex \in {t, Free}
      BY <2>2, <2>3
    <2> QED
      BY <1>3, <2>1, <2>2, <2>4, <2>5, <2>6, Zenon DEF Written
  <1>6. ListsSound(signal, heap, call')
    BY <1>5, WriteKeeps DEF ListsSound
  <1> QED
    BY <1>1, <1>4, <1>6 DEF ListsSound

LEMMA WriteForOverwriteKeeps ==
  ASSUME SignalInv, NEW t \in Emitter, WriteForOverwrite(t)
  PROVE  SignalInv'
  <1> USE DEF SignalInv
  <1> DEFINE p == signal.list
             step == IF IsShared(p) THEN "leave" ELSE "edit"
  <1>1. /\ call[t].op = "overwrite" /\ call[t].op \in WriteSteps
        /\ call' = [call EXCEPT ![t] = Writing(step, call[t].edit)]
        /\ IsShared(p) => heap' = heap
        /\ ~IsShared(p) => \E kept \in {heap[p].items, <<>>} : heap' = [heap EXCEPT ![p].items = kept]
        /\ signal' = signal /\ state' = state
    BY DEF WriteForOverwrite, Does, Then, WriteSteps
  <1>2. step \in WriteSteps /\ call[t].edit \in Edits
    BY <1>1, WriterKnows DEF WriteSteps
  <1>3. call' \in [Emitter -> Calls] /\ call'[t].op = step /\ OneMoves(call, call', t)
    <2> HIDE DEF step
    <2> QED
      BY <1>1, <1>2, WritingIsCall, ThenMoves
  <1>4. /\ p # NoPayload /\ p \in DOMAIN heap /\ signal.mutex = t
        /\ \A q \in DOMAIN heap : heap[q].count = Cardinality(Readers(call, q)) + (IF signal.list = q THEN 1 ELSE 0)
    <2>1. call[t].op # "allocate" /\ call[t].op \in {"overwrite", "leave", "allocate"}
      BY <1>1
    <2>2. p # NoPayload
      BY <2>1, Zenon DEF WritersSound
    <2> QED
      BY <1>1, <2>1, <2>2, WriterKnows
  <1>5. ~IsShared(p) => Readers(call, p) = {}
    <2>1. ~IsShared(p) => Cardinality(Readers(call, p)) = 0
      <3>1. Cardinality(Readers(call, p)) \in Nat /\ heap[p].count = Cardinality(Readers(call, p)) + 1
        BY <1>4, ReadersFinite
      <3> QED
        BY <1>4, <3>1 DEF IsShared
    <2> QED
      BY <2>1, ReadersFinite, FS_EmptySet
  <1>6. /\ DOMAIN heap' = DOMAIN heap /\ heap' \in [DOMAIN heap -> Payloads]
        /\ \A q \in DOMAIN heap : heap'[q].count = heap[q].count
        /\ \A q \in DOMAIN heap : Readers(call, q) # {} => heap'[q].items = heap[q].items
    <2> HIDE DEF p
    <2>1. CASE IsShared(p)
      BY <1>1, <2>1 DEF SignalTypeOK
    <2>2. CASE ~IsShared(p)
      <3>1. PICK kept \in {heap[p].items, <<>>} : heap' = [heap EXCEPT ![p].items = kept]
        BY <1>1, <2>2
      <3>2. heap \in [DOMAIN heap -> Payloads] /\ heap[p] \in Payloads
        BY <1>4 DEF SignalTypeOK
      <3> DEFINE new == [heap[p] EXCEPT !.items = kept]
      <3>3. new \in Payloads /\ new.count = heap[p].count
        BY <3>2, EmptySeq DEF Payloads
      <3>4. heap' = [heap EXCEPT ![p] = new]
        BY <3>1
      <3>5. DOMAIN heap' = DOMAIN heap
        BY <3>4
      <3> HIDE DEF new
      <3>6. /\ heap' \in [DOMAIN heap -> Payloads]
            /\ \A q \in DOMAIN heap : heap'[q].count = heap[q].count
            /\ \A q \in DOMAIN heap : q # p => heap'[q].items = heap[q].items
        BY <1>4, <3>2, <3>3, <3>4, PayloadSet
      <3> QED
        BY <1>5, <2>2, <3>5, <3>6, Zenon
    <2> QED
      BY <2>1, <2>2
  <1>7. SignalTypeOK'
    BY <1>1, <1>3, <1>6 DEF SignalTypeOK
  <1>8. Written(signal, signal, heap, heap', call, call', t)
    <2>1. /\ call[t].op # "emit" /\ call'[t].op # "emit" /\ call'[t].op # "allocate"
          /\ call'[t].op \in WriteSteps
      BY <1>1, <1>2, <1>3
    <2>2. \A q \in DOMAIN heap' : heap'[q].count =
            Cardinality(Readers(call, q)) + (IF signal.list = q /\ call'[t].op # "allocate" THEN 1 ELSE 0)
      BY <1>4, <1>6, <2>1
    <2>3. call'[t].op = "edit" => Readers(call, signal.list) = {}
      BY <1>3, <1>5
    <2>4. signal.mutex = (IF call'[t].op \in WriteSteps THEN t ELSE Free) /\ signal.mutex \in {t, Free}
      BY <1>4, <2>1
    <2> QED
      BY <1>3, <1>4, <1>6, <2>1, <2>2, <2>3, <2>4, Zenon DEF Written
  <1>9. ListsSound(signal, heap', call')
    BY <1>8, WriteKeeps DEF ListsSound
  <1> QED
    BY <1>1, <1>7, <1>9 DEF ListsSound

LEMMA LeaveKeeps ==
  ASSUME SignalInv, NEW t \in Emitter, Leave(t)
  PROVE  SignalInv'
  <1> USE DEF SignalInv
  <1> DEFINE p == signal.list
  <1>1. /\ call[t].op = "leave" /\ call[t].op \in WriteSteps
        /\ call' = [call EXCEPT ![t] = Writing("allocate", call[t].edit)]
        /\ heap' = [heap EXCEPT ![p].count = @ - 1]
        /\ signal' = signal /\ state' = state
    BY DEF Leave, Does, Then, WriteSteps
  <1>2. "allocate" \in WriteSteps /\ call[t].edit \in Edits
    BY <1>1, WriterKnows DEF WriteSteps
  <1>3. call' \in [Emitter -> Calls] /\ call'[t].op = "allocate" /\ OneMoves(call, call', t)
    BY <1>1, <1>2, WritingIsCall, ThenMoves
  <1>4. /\ p # NoPayload /\ p \in DOMAIN heap /\ signal.mutex = t
        /\ \A q \in DOMAIN heap : heap[q].count = Cardinality(Readers(call, q)) + (IF p = q THEN 1 ELSE 0)
        /\ \A q : Cardinality(Readers(call, q)) \in Nat
    <2>1. call[t].op # "allocate" /\ call[t].op \in {"overwrite", "leave", "allocate"}
      BY <1>1
    <2>2. p # NoPayload
      BY <2>1, Zenon DEF WritersSound
    <2> QED
      BY <1>1, <2>1, <2>2, WriterKnows
  <1>5. /\ DOMAIN heap' = DOMAIN heap /\ heap' \in [DOMAIN heap -> Payloads]
        /\ \A q \in DOMAIN heap : heap'[q].count = IF q = p THEN heap[p].count - 1 ELSE heap[q].count
        /\ \A q \in DOMAIN heap : heap'[q].items = heap[q].items
    <2> HIDE DEF p
    <2>1. heap \in [DOMAIN heap -> Payloads] /\ heap[p].count \in Int
      BY <1>4 DEF SignalTypeOK, Payloads
    <2>2. heap' = [heap EXCEPT ![p].count = heap[p].count - 1] /\ heap[p].count - 1 \in Int
      BY <1>1, <2>1
    <2>3. DOMAIN heap' = DOMAIN heap
      BY <2>2
    <2> QED
      BY <1>4, <2>1, <2>2, <2>3, CountSet
  <1>6. SignalTypeOK'
    BY <1>1, <1>3, <1>5 DEF SignalTypeOK
  <1>7. Written(signal, signal, heap, heap', call, call', t)
    <2>1. /\ call[t].op # "emit" /\ call'[t].op # "emit" /\ call'[t].op # "edit"
          /\ call'[t].op \in WriteSteps
      BY <1>1, <1>2, <1>3
    <2>2. \A q \in DOMAIN heap' : heap'[q].count =
            Cardinality(Readers(call, q)) + (IF signal.list = q /\ call'[t].op # "allocate" THEN 1 ELSE 0)
      BY <1>3, <1>4, <1>5
    <2>4. signal.mutex = (IF call'[t].op \in WriteSteps THEN t ELSE Free) /\ signal.mutex \in {t, Free}
      BY <1>4, <2>1
    <2> QED
      BY <1>3, <1>4, <1>5, <2>1, <2>2, <2>4, Zenon DEF Written
  <1>8. ListsSound(signal, heap', call')
    BY <1>7, WriteKeeps DEF ListsSound
  <1> QED
    BY <1>1, <1>6, <1>8 DEF ListsSound

LEMMA AllocateKeeps ==
  ASSUME SignalInv, NEW t \in Emitter, Allocate(t)
  PROVE  SignalInv'
  <1> USE DEF SignalInv
  <1>1. /\ call[t].op = "allocate" /\ call[t].op \in WriteSteps
        /\ call' = [call EXCEPT ![t] = Writing("edit", call[t].edit)] /\ state' = state
        /\ \/ \E p \in Payload \ DOMAIN heap :
                 heap' = Allocated(p, Fresh(<<>>)) /\ signal' = [signal EXCEPT !.list = p]
           \/ signal' = [signal EXCEPT !.list = NoPayload, !.crashed = TRUE] /\ heap' = heap
    BY DEF Allocate, Does, Then, WriteSteps
  <1>2. "edit" \in WriteSteps /\ call[t].edit \in Edits
    BY <1>1, WriterKnows DEF WriteSteps
  <1>3. call' \in [Emitter -> Calls] /\ call'[t].op = "edit" /\ OneMoves(call, call', t)
    BY <1>1, <1>2, WritingIsCall, ThenMoves
  <1>4. /\ signal.mutex = t /\ NoPayload \notin DOMAIN heap
        /\ \A q \in DOMAIN heap : heap[q].count = Cardinality(Readers(call, q))
        /\ \A q : Cardinality(Readers(call, q)) \in Nat
    BY <1>1, WriterKnows
  <1>5. /\ call[t].op # "emit" /\ call'[t].op # "emit" /\ call'[t].op # "allocate"
        /\ call'[t].op \notin {"overwrite", "leave", "allocate"} /\ call'[t].op \in WriteSteps
    BY <1>1, <1>2, <1>3
  <1>6. ASSUME NEW p \in Payload \ DOMAIN heap,
               heap' = Allocated(p, Fresh(<<>>)), signal' = [signal EXCEPT !.list = p]
        PROVE  SignalInv'
    <2>1. p \in Payload /\ p \notin DOMAIN heap /\ p # NoPayload /\ Readers(call, p) = {}
      <3>1. p # NoPayload
        BY SignalAssumption
      <3>2. Readers(call, p) = {}
        BY <3>1, Zenon DEF Readers, ReadersSound
      <3> QED
        BY <3>1, <3>2
    <2>2. Cardinality(Readers(call, p)) = 0
      BY <2>1, FS_EmptySet
    <2>3. Fresh(<<>>) \in Payloads /\ Fresh(<<>>).count = 1
      BY EmptySeq, FreshIsPayload
    <2>4. /\ DOMAIN heap' = DOMAIN heap \cup {p} /\ heap' \in [DOMAIN heap \cup {p} -> Payloads]
          /\ \A q \in DOMAIN heap : heap'[q] = heap[q]
          /\ heap'[p].count = 1
      <3>1. heap \in [DOMAIN heap -> Payloads]
        BY DEF SignalTypeOK
      <3>2. DOMAIN heap' = DOMAIN heap \cup {p}
        BY <1>6 DEF Allocated
      <3> QED
        BY <1>6, <2>1, <2>3, <3>1, <3>2, PayloadAdded DEF Allocated
    <2>5. /\ signal' \in [list : Payload \cup {NoPayload}, mutex : Emitter \cup {Free}, crashed : BOOLEAN]
          /\ signal'.list = p /\ signal'.mutex = t
      BY <1>4, <1>6 DEF SignalTypeOK
    <2>6. SignalTypeOK'
      BY <1>1, <1>3, <2>1, <2>4, <2>5 DEF SignalTypeOK
    <2>7. Written(signal, signal', heap, heap', call, call', t)
      <3>1. \A q \in DOMAIN heap' : heap'[q].count =
              Cardinality(Readers(call, q)) + (IF signal'.list = q /\ call'[t].op # "allocate" THEN 1 ELSE 0)
        <4> SUFFICES ASSUME NEW q \in DOMAIN heap'
                     PROVE  heap'[q].count = Cardinality(Readers(call, q)) + (IF p = q THEN 1 ELSE 0)
          BY <1>5, <2>5
        <4>1. CASE q = p
          BY <2>2, <2>4, <4>1
        <4>2. CASE q # p
          BY <1>4, <2>4, <4>2
        <4> QED
          BY <4>1, <4>2
      <3>2. signal'.mutex = (IF call'[t].op \in WriteSteps THEN t ELSE Free) /\ signal.mutex \in {t, Free}
        BY <1>4, <1>5, <2>5
      <3>3. p \in DOMAIN heap' /\ \A q \in DOMAIN heap : q \in DOMAIN heap'
        BY <2>4
      <3> QED
        BY <1>3, <1>5, <2>1, <2>4, <2>5, <3>1, <3>2, <3>3, Zenon DEF Written
    <2>8. ListsSound(signal', heap', call')
      BY <2>7, WriteKeeps DEF ListsSound
    <2> QED
      BY <2>6, <2>8 DEF ListsSound
  <1>7. ASSUME signal' = [signal EXCEPT !.list = NoPayload, !.crashed = TRUE], heap' = heap
        PROVE  SignalInv'
    <2>1. /\ signal' \in [list : Payload \cup {NoPayload}, mutex : Emitter \cup {Free}, crashed : BOOLEAN]
          /\ signal'.list = NoPayload /\ signal'.mutex = t
      BY <1>4, <1>7 DEF SignalTypeOK
    <2>2. SignalTypeOK'
      BY <1>1, <1>3, <1>7, <2>1 DEF SignalTypeOK
    <2>3. Written(signal, signal', heap, heap, call, call', t)
      <3>1. \A q \in DOMAIN heap : heap[q].count =
              Cardinality(Readers(call, q)) + (IF signal'.list = q /\ call'[t].op # "allocate" THEN 1 ELSE 0)
        BY <1>4, <2>1
      <3>2. signal'.mutex = (IF call'[t].op \in WriteSteps THEN t ELSE Free) /\ signal.mutex \in {t, Free}
        BY <1>4, <1>5, <2>1
      <3> QED
        BY <1>3, <1>5, <2>1, <3>1, <3>2, Zenon DEF Written
    <2>4. ListsSound(signal', heap, call')
      BY <2>3, WriteKeeps DEF ListsSound
    <2> QED
      BY <1>7, <2>2, <2>4 DEF ListsSound
  <1> QED
    BY <1>1, <1>6, <1>7

LEMMA EditKeeps ==
  ASSUME SignalInv, NEW t \in Emitter, Edit(t)
  PROVE  SignalInv'
  <1> USE DEF SignalInv
  <1> DEFINE edit == call[t].edit
             p == signal.list
  <1>1. /\ call[t].op = "edit" /\ call[t].op \in WriteSteps
        /\ call' = [call EXCEPT ![t] = Idle]
    BY DEF Edit, Does, Then, WriteSteps
  <1>2. PICK q \in IF p = NoPayload /\ edit.kind = "connect" THEN Payload \ DOMAIN heap ELSE {p} :
          /\ heap' = IF q = NoPayload THEN heap
                     ELSE IF q = p THEN [heap EXCEPT ![p] = Edited(@, edit)]
                     ELSE Allocated(q, Fresh(<<edit.slot>>))
          /\ signal' = [signal EXCEPT !.list = q, !.mutex = Free]
    BY DEF Edit
  <1>3. /\ call' \in [Emitter -> Calls] /\ call'[t].op = "idle" /\ OneMoves(call, call', t)
    <2>1. Idle \in Calls /\ Idle.op = "idle"
      BY DEF Calls, Idle
    <2> QED
      BY <1>1, <2>1, ThenMoves
  <1>4. /\ signal.mutex = t /\ edit \in Edits /\ NoPayload \notin DOMAIN heap
        /\ p = NoPayload \/ p \in DOMAIN heap
        /\ \A r \in DOMAIN heap : heap[r].count = Cardinality(Readers(call, r)) + (IF p = r THEN 1 ELSE 0)
        /\ \A r : Cardinality(Readers(call, r)) \in Nat
    <2>1. call[t].op # "allocate"
      BY <1>1
    <2> QED
      BY <1>1, <2>1, WriterKnows
  <1>5. state' \in [Slot -> {"unused", "pending", "connected", "disconnected"}]
    <2>1. edit.kind = "connect" => state' = [state EXCEPT ![edit.slot] = "connected"]
      BY DEF Edit
    <2>2. edit.kind = "clear" =>
            state' = [s \in Slot |-> IF state[s] = "connected" THEN "disconnected" ELSE state[s]]
      BY DEF Edit
    <2>3. edit.kind = "disconnect" => state' = state
      BY DEF Edit
    <2>4. edit.kind \in {"connect", "disconnect", "clear"}
      BY <1>4 DEF Edits
    <2> HIDE DEF edit
    <2> QED
      BY <2>1, <2>2, <2>3, <2>4 DEF SignalTypeOK
  <1>6. q \in Payload \cup {NoPayload}
    BY <1>2 DEF SignalTypeOK
  <1>7. /\ signal' \in [list : Payload \cup {NoPayload}, mutex : Emitter \cup {Free}, crashed : BOOLEAN]
        /\ signal'.list = q /\ signal'.mutex = Free
    BY <1>2, <1>6 DEF SignalTypeOK
  <1>8. p # NoPayload => Readers(call, p) = {}
    BY <1>1, Zenon DEF WritersSound
  <1>9. /\ DOMAIN heap' \subseteq Payload /\ heap' \in [DOMAIN heap' -> Payloads]
        /\ \A r \in DOMAIN heap : r \in DOMAIN heap' /\ (Readers(call, r) # {} => heap'[r].items = heap[r].items)
        /\ \A r \in DOMAIN heap' : heap'[r].count = Cardinality(Readers(call, r)) + (IF q = r THEN 1 ELSE 0)
        /\ q = NoPayload \/ q \in DOMAIN heap'
    <2>0. DOMAIN heap \subseteq Payload /\ heap \in [DOMAIN heap -> Payloads]
      BY DEF SignalTypeOK
    <2>1. CASE q = NoPayload
      <3>1. heap' = heap /\ p = NoPayload
        BY <1>2, <2>1, SignalAssumption
      <3> QED
        BY <1>4, <2>0, <2>1, <3>1
    <2>2. CASE q # NoPayload /\ q = p
      <3>1. /\ p \in DOMAIN heap /\ heap[p] \in Payloads
            /\ heap' = [heap EXCEPT ![p] = Edited(heap[p], edit)]
        BY <1>2, <1>4, <2>0, <2>2
      <3>2. Edited(heap[p], edit) \in Payloads /\ Edited(heap[p], edit).count = heap[p].count
        BY <1>4, <3>1, EditedIsPayload
      <3> DEFINE new == Edited(heap[p], edit)
      <3>3. DOMAIN heap' = DOMAIN heap
        BY <3>1
      <3> HIDE DEF new, p
      <3>4. /\ heap' \in [DOMAIN heap -> Payloads]
            /\ \A r \in DOMAIN heap : heap'[r].count = heap[r].count
            /\ \A r \in DOMAIN heap : r # p => heap'[r].items = heap[r].items
        <4>1. new \in Payloads /\ new.count = heap[p].count /\ heap' = [heap EXCEPT ![p] = new]
          BY <3>1, <3>2 DEF new
        <4> QED
          BY <2>0, <3>1, <4>1, PayloadSet
      <3>5. \A r \in DOMAIN heap : Readers(call, r) # {} => heap'[r].items = heap[r].items
        BY <1>8, <2>2, <3>4, Zenon
      <3> QED
        BY <1>4, <2>0, <2>2, <3>1, <3>3, <3>4, <3>5
    <2>3. CASE q # NoPayload /\ q # p
      <3>1. /\ p = NoPayload /\ edit.kind = "connect" /\ q \in Payload /\ q \notin DOMAIN heap
            /\ heap' = Allocated(q, Fresh(<<edit.slot>>))
        BY <1>2, <2>3
      <3>2. edit.slot \in Slot
        BY <1>4, <3>1 DEF Edits
      <3>3. Fresh(<<edit.slot>>) \in Payloads /\ Fresh(<<edit.slot>>).count = 1
        <4>1. <<edit.slot>> \in Seq(Slot)
          BY <3>2
        <4> QED
          BY <4>1, FreshIsPayload
      <3>4. /\ DOMAIN heap' = DOMAIN heap \cup {q} /\ heap' \in [DOMAIN heap \cup {q} -> Payloads]
            /\ \A r \in DOMAIN heap : heap'[r] = heap[r]
            /\ heap'[q].count = 1
        <4>1. DOMAIN heap' = DOMAIN heap \cup {q}
          BY <3>1 DEF Allocated
        <4> QED
          BY <2>0, <3>1, <3>3, <4>1, PayloadAdded DEF Allocated
      <3>5. Cardinality(Readers(call, q)) = 0
        <4>1. Readers(call, q) = {}
          BY <2>3, <3>1, Zenon DEF Readers, ReadersSound
        <4> QED
          BY <4>1, FS_EmptySet
      <3>6. ASSUME NEW r \in DOMAIN heap'
            PROVE  heap'[r].count = Cardinality(Readers(call, r)) + (IF q = r THEN 1 ELSE 0)
        <4>1. CASE r = q
          BY <3>4, <3>5, <4>1
        <4>2. CASE r # q
          <5>1. r \in DOMAIN heap /\ r # p
            BY <1>4, <3>1, <3>4, <4>2
          <5> QED
            BY <1>4, <3>4, <4>2, <5>1
        <4> QED
          BY <4>1, <4>2
      <3>7. \A r \in DOMAIN heap : r \in DOMAIN heap' /\ heap'[r].items = heap[r].items
        BY <3>4
      <3>8. DOMAIN heap' \subseteq Payload /\ heap' \in [DOMAIN heap' -> Payloads] /\ q \in DOMAIN heap'
        BY <2>0, <3>1, <3>4
      <3> QED
        BY <3>6, <3>7, <3>8
    <2> QED
      BY <2>1, <2>2, <2>3
  <1>10. SignalTypeOK'
    BY <1>3, <1>5, <1>7, <1>9 DEF SignalTypeOK
  <1>11. Written(signal, signal', heap, heap', call, call', t)
    <2>1. /\ call[t].op # "emit" /\ call'[t].op # "emit" /\ call'[t].op # "allocate" /\ call'[t].op # "edit"
          /\ call'[t].op \notin {"overwrite", "leave", "allocate"} /\ call'[t].op \notin WriteSteps
      BY <1>1, <1>3, StepNames
    <2>2. \A r \in DOMAIN heap' : heap'[r].count =
            Cardinality(Readers(call, r)) + (IF signal'.list = r /\ call'[t].op # "allocate" THEN 1 ELSE 0)
      BY <1>7, <1>9, <2>1
    <2>3. signal'.mutex = (IF call'[t].op \in WriteSteps THEN t ELSE Free) /\ signal.mutex \in {t, Free}
      BY <1>4, <1>7, <2>1
    <2> QED
      BY <1>3, <1>7, <1>9, <2>1, <2>2, <2>3, Zenon DEF Written
  <1>12. ListsSound(signal', heap', call')
    BY <1>11, WriteKeeps DEF ListsSound
  <1> QED
    BY <1>10, <1>12 DEF ListsSound

LEMMA SignalInitSound == SignalInit => SignalInv
  <1> SUFFICES ASSUME SignalInit PROVE SignalInv
    OBVIOUS
  <1>1. /\ \A t \in Emitter : call[t].op = "idle" /\ call[t].op \notin WriteSteps /\ call[t].op # "emit"
        /\ \A t \in Emitter : call[t].op \notin {"overwrite", "leave", "allocate"} /\ call[t].op # "edit"
        /\ signal.list = NoPayload /\ signal.mutex = Free /\ DOMAIN heap = {}
    BY DEF SignalInit, Idle, WriteSteps
  <1>2. SignalTypeOK
    BY DEF SignalInit, SignalTypeOK, Calls
  <1>3. CountsExact(signal, heap, call) /\ ListAllocated(signal, heap, call)
    BY <1>1 DEF CountsExact, ListAllocated
  <1>4. ReadersSound(heap, call)
    BY <1>1, Zenon DEF ReadersSound
  <1>5. WritersSound(signal, call)
    BY <1>1, SignalAssumption, Zenon DEF WritersSound
  <1> QED
    BY <1>2, <1>3, <1>4, <1>5 DEF SignalInv

LEMMA SignalStepKeeps == SignalInv /\ [SignalNext]_signalVars => SignalInv'
  <1> SUFFICES ASSUME SignalInv, [SignalNext]_signalVars PROVE SignalInv'
    OBVIOUS
  <1>1. CASE UNCHANGED signalVars
    <2>1. signal' = signal /\ heap' = heap /\ state' = state /\ call' = call
      BY <1>1 DEF signalVars
    <2> QED
      BY <2>1 DEF SignalInv, SignalTypeOK
  <1>2. ASSUME NEW t \in Emitter, NEW s \in Slot, connect(t, s) \/ disconnect(t, s) PROVE SignalInv'
    <2>1. PICK edit \in Edits : BeginWrite(t, edit)
      BY <1>2 DEF connect, disconnect, Edits
    <2> QED
      BY <2>1, BeginWriteKeeps
  <1>3. ASSUME NEW t \in Emitter, disconnect_all(t) PROVE SignalInv'
    <2>1. [kind |-> "clear"] \in Edits
      BY DEF Edits
    <2> QED
      BY <1>3, <2>1, BeginWriteKeeps DEF disconnect_all
  <1> QED
    BY <1>1, <1>2, <1>3, BeginEmissionKeeps, CallSlotKeeps, EndEmissionKeeps, WriteKeepsInv,
       WriteForOverwriteKeeps, LeaveKeeps, AllocateKeeps, EditKeeps DEF SignalNext

(* cow_vector's count is exact at every step of write, write_for_overwrite  *)
(* and ~cow_vector, the steps between an unlocked emission's end and a      *)
(* writer's two tests of the count included, and a writer edits in place    *)
(* only what nobody walks.                                                  *)
THEOREM SignalInductive == SignalSpec => []SignalInv
  <1>1. SignalInit => SignalInv
    BY SignalInitSound
  <1>2. SignalInv /\ [SignalNext]_signalVars => SignalInv'
    BY SignalStepKeeps
  <1> QED
    BY <1>1, <1>2, PTL DEF SignalSpec

(* operator() walks, outside the mutex, the list it copied under it:       *)
(* nobody edits or frees it meanwhile (types/Signal.hpp over               *)
(* core/stl/containers/CowVector.hpp).                                     *)
THEOREM EmissionsSafe == SignalSpec => []EmissionsKeepTheirList
  <1>1. SignalInv => EmissionsKeepTheirList
    BY Zenon DEF SignalInv, ReadersSound, EmissionsKeepTheirList
  <1> QED
    BY <1>1, SignalInductive, PTL
=============================================================================
