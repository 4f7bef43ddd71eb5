--------------------------- MODULE ArchetypeProofs ---------------------------
(***************************************************************************)
(* The storage of a World below its entities, for every set of components, *)
(* blocks and values: lists of rows and chunks, the pool of blocks, one    *)
(* archetype, and a store in which every entity alive has its row but for  *)
(* the holes that a move has opened. Batches and sweeps are folds, so that *)
(* what holds of them comes from Folding.                                  *)
(***************************************************************************)
EXTENDS WorldStorage, SlotTableProofs, SequenceTheorems, FunctionTheorems,
        FiniteSetTheorems, TLAPS

----------------------------------------------------------------------------
(* The folds of the storage. *)

(* The folds of the model, and what holds of them at every turn. *)
Latest(T) == Max(T)
AnyOf(T) == CHOOSE x \in T : TRUE

IsSum(p, T, n) == n \in Nat
AddSize(p, c, n) == SizeOf[c] + n
Sizes == INSTANCE Folding WITH Step <- AddSize, Pick <- AnyOf, Holds <- IsSum
AddPadding(p, c, n) == AlignOf[c] - 1 + n
Paddings == INSTANCE Folding WITH Step <- AddPadding, Pick <- AnyOf, Holds <- IsSum

(* Greatest and least members, as the community modules choose them. *)
LEMMA LatestFacts ==
  ASSUME NEW n \in Nat, NEW T \in SUBSET (0 .. n), T # {}
  PROVE  /\ Latest(T) \in T /\ \A x \in T : Latest(T) >= x
         /\ Max(T) \in T /\ \A x \in T : Max(T) >= x
<1> DEFINE S == {m \in Nat : n - m \in T}
<1>1. PICK x \in T : TRUE
  OBVIOUS
<1>2. n - x \in Nat /\ n - (n - x) = x
  OBVIOUS
<1>3. S \in SUBSET Nat /\ S # {}
  BY <1>1, <1>2
<1>4. PICK least \in S : \A m \in S : least <= m
  <2> HIDE DEF S
  <2> QED
    BY <1>3, Sizes!LeastOf
<1>5. n - least \in T /\ least \in Nat
  BY <1>4
<1>6. \A y \in T : n - least >= y
  <2> TAKE y \in T
  <2>1. n - y \in Nat /\ n - (n - y) = y
    OBVIOUS
  <2>2. n - y \in S
    BY <2>1
  <2>3. least <= n - y
    BY <1>4, <2>2
  <2> QED
    BY <1>5, <2>1, <2>3
<1> HIDE DEF S
<1>7. Max(T) \in T /\ \A y \in T : Max(T) >= y
  BY <1>5, <1>6 DEF Max
<1> QED
  BY <1>7 DEF Latest

(* A set of numbers that has a member has a least one. *)
LEMMA MinFacts ==
  ASSUME NEW S \in SUBSET Nat, S # {}
  PROVE  Min(S) \in S /\ \A x \in S : Min(S) <= x
<1>1. \E x \in S : \A y \in S : x <= y
  BY Sizes!LeastOf
<1> QED
  BY <1>1 DEF Min

(* The sizes of subsets, which a fold runs down. *)
LEMMA Sized ==
  ASSUME NEW S, IsFiniteSet(S)
  PROVE  \E size \in [SUBSET S -> Nat] :
           /\ \A T \in SUBSET S : \A U \in SUBSET T : size[U] <= size[T]
           /\ \A T \in SUBSET S : \A x \in T : size[T \ {x}] < size[T]
           /\ \A T \in SUBSET S : size[T] = Cardinality(T)
<1> DEFINE size == [T \in SUBSET S |-> Cardinality(T)]
<1>1. \A T \in SUBSET S : IsFiniteSet(T) /\ Cardinality(T) \in Nat
  BY FS_Subset, FS_CardinalityType
<1>2. size \in [SUBSET S -> Nat] /\ \A T \in SUBSET S : size[T] = Cardinality(T)
  BY <1>1
<1> HIDE DEF size
<1>3. ASSUME NEW T \in SUBSET S, NEW U \in SUBSET T PROVE size[U] <= size[T]
  <2>1. U \in SUBSET S /\ IsFiniteSet(T)
    BY <1>1
  <2>2. Cardinality(U) <= Cardinality(T)
    BY <2>1, FS_Subset
  <2> QED
    BY <1>2, <2>1, <2>2
<1>4. ASSUME NEW T \in SUBSET S, NEW x \in T PROVE size[T \ {x}] < size[T]
  <2>1. T \ {x} \in SUBSET S /\ IsFiniteSet(T)
    BY <1>1
  <2>2. Cardinality(T \ {x}) = Cardinality(T) - 1
    BY <2>1, FS_RemoveElement
  <2> QED
    BY <1>1, <1>2, <2>1, <2>2
<1> QED
  BY <1>2, <1>3, <1>4

(* The numbers up to n are n, none beyond n. *)
LEMMA CountTo ==
  ASSUME NEW n \in Nat
  PROVE  IsFiniteSet(1 .. n) /\ Cardinality(1 .. n) = n /\ 1 .. n \in SUBSET (0 .. n)
<1>1. 1 \in Int /\ n \in Int
  OBVIOUS
<1>2. IsFiniteSet(1 .. n) /\ Cardinality(1 .. n) = IF 1 > n THEN 0 ELSE n - 1 + 1
  BY <1>1, FS_Interval
<1> QED
  BY <1>2

(* A fold over a sequence takes its elements one after the other. *)
LEMMA InOrder ==
  ASSUME NEW n \in Nat
  PROVE  \E size \in [SUBSET (1 .. n) -> Nat] :
           /\ \A T \in SUBSET (1 .. n) : \A U \in SUBSET T : size[U] <= size[T]
           /\ \A T \in SUBSET (1 .. n) : T # {} => /\ Latest(T) \in T
                                                   /\ size[T \ {Latest(T)}] < size[T]
<1>1. PICK size \in [SUBSET (1 .. n) -> Nat] :
        /\ \A T \in SUBSET (1 .. n) : \A U \in SUBSET T : size[U] <= size[T]
        /\ \A T \in SUBSET (1 .. n) : \A x \in T : size[T \ {x}] < size[T]
  BY CountTo, Sized
<1>2. ASSUME NEW T \in SUBSET (1 .. n), T # {} PROVE Latest(T) \in T
  <2>1. T \in SUBSET (0 .. n)
    OBVIOUS
  <2> QED
    BY <1>2, <2>1, LatestFacts
<1> QED
  BY <1>1, <1>2

(* How many elements there are before the last one. *)
LEMMA Earlier ==
  ASSUME NEW n \in Nat, NEW T \in SUBSET (1 .. n), T # {}
  PROVE  /\ Latest(T) \in T /\ Latest(T) \in 1 .. n
         /\ \A x \in T : Latest(T) >= x
         /\ IsFiniteSet(T) /\ Cardinality(T) \in Nat \ {0} /\ Cardinality(T) <= n
         /\ Cardinality(T \ {Latest(T)}) = Cardinality(T) - 1
         /\ Cardinality(T \ {Latest(T)}) \in Nat
<1>1. IsFiniteSet(1 .. n) /\ Cardinality(1 .. n) = n
  BY CountTo
<1>2. IsFiniteSet(T) /\ Cardinality(T) \in Nat /\ Cardinality(T) <= n
  BY <1>1, FS_Subset, FS_CardinalityType
<1>3. T \in SUBSET (0 .. n)
  OBVIOUS
<1>4. Latest(T) \in T /\ \A x \in T : Latest(T) >= x
  BY <1>3, LatestFacts
<1>5. IsFiniteSet(T \ {Latest(T)}) /\ Cardinality(T \ {Latest(T)}) = Cardinality(T) - 1
  BY <1>2, <1>4, FS_RemoveElement
<1>6. Cardinality(T \ {Latest(T)}) \in Nat
  BY <1>5, FS_CardinalityType
<1>7. Cardinality(T) # 0
  BY <1>2, <1>5, <1>6
<1> QED
  BY <1>2, <1>4, <1>5, <1>6, <1>7

(* compute_chunk_layout: a chunk has room for at least one row. *)
LEMMA SizesAdd ==
  ASSUME NEW S \in SUBSET Component
  PROVE  MapThenSumSet(LAMBDA c : SizeOf[c], S) \in Nat
<1>1. Sizes!Picks(S)
  <2>1. PICK size \in [SUBSET S -> Nat] :
           /\ \A T \in SUBSET S : \A U \in SUBSET T : size[U] <= size[T]
           /\ \A T \in SUBSET S : \A x \in T : size[T \ {x}] < size[T]
    BY FS_Subset, Sized, StorageAssumption
  <2>2. \A T \in SUBSET S : T # {} => AnyOf(T) \in T
    BY DEF AnyOf
  <2>3. Sizes!Measures(size, S)
    BY <2>1, <2>2 DEF Sizes!Measures
  <2> QED
    BY <2>3 DEF Sizes!Picks
<1>2. IsSum(0, {}, 0)
  BY DEF IsSum
<1>3. ASSUME NEW T \in SUBSET S, NEW v, T # {}, IsSum(0, T \ {AnyOf(T)}, v)
      PROVE  IsSum(0, T, AddSize(0, AnyOf(T), v))
  <2>1. AnyOf(T) \in Component
    BY <1>3 DEF AnyOf
  <2>2. SizeOf[AnyOf(T)] \in Nat
    BY <2>1, StorageAssumption
  <2> QED
    BY <1>3, <2>2 DEF IsSum, AddSize
<1>4. IsSum(0, S, Sizes!Folded(0, 0, S))
  BY <1>1, <1>2, <1>3, Sizes!FoldInvariant
<1>5. MapThenSumSet(LAMBDA c : SizeOf[c], S) = Sizes!Folded(0, 0, S)
  BY DEF MapThenSumSet, MapThenFoldSet, Sizes!Folded, Sizes!Iterated, Sizes!FoldRule, AddSize, AnyOf
<1> QED
  BY <1>4, <1>5 DEF IsSum

(* The padding a signature may need is a number of bytes. *)
LEMMA PaddingsAdd ==
  ASSUME NEW S \in SUBSET Component
  PROVE  MapThenSumSet(LAMBDA c : AlignOf[c] - 1, S) \in Nat
<1>1. Paddings!Picks(S)
  <2>1. PICK size \in [SUBSET S -> Nat] :
           /\ \A T \in SUBSET S : \A U \in SUBSET T : size[U] <= size[T]
           /\ \A T \in SUBSET S : \A x \in T : size[T \ {x}] < size[T]
    BY FS_Subset, Sized, StorageAssumption
  <2>2. \A T \in SUBSET S : T # {} => AnyOf(T) \in T
    BY DEF AnyOf
  <2>3. Paddings!Measures(size, S)
    BY <2>1, <2>2 DEF Paddings!Measures
  <2> QED
    BY <2>3 DEF Paddings!Picks
<1>2. IsSum(0, {}, 0)
  BY DEF IsSum
<1>3. ASSUME NEW T \in SUBSET S, NEW v, T # {}, IsSum(0, T \ {AnyOf(T)}, v)
      PROVE  IsSum(0, T, AddPadding(0, AnyOf(T), v))
  <2>1. AnyOf(T) \in Component
    BY <1>3 DEF AnyOf
  <2>2. AlignOf[AnyOf(T)] - 1 \in Nat
    <3>1. AlignOf[AnyOf(T)] \in Nat \ {0}
      BY <2>1, StorageAssumption
    <3> QED
      BY <3>1
  <2> QED
    BY <1>3, <2>2 DEF IsSum, AddPadding
<1>4. IsSum(0, S, Paddings!Folded(0, 0, S))
  BY <1>1, <1>2, <1>3, Paddings!FoldInvariant
<1>5. MapThenSumSet(LAMBDA c : AlignOf[c] - 1, S) = Paddings!Folded(0, 0, S)
  BY DEF MapThenSumSet, MapThenFoldSet, Paddings!Folded, Paddings!Iterated, Paddings!FoldRule, AddPadding, AnyOf
<1> QED
  BY <1>4, <1>5 DEF IsSum

(* Every signature fits at least once into a chunk (the floor of Archetype.cpp). *)
LEMMA CapacityFacts ==
  ASSUME NEW sig \in (SUBSET Component) \ {{}}
  PROVE  Layout[sig].capacity \in Nat \ {0}
<1> DEFINE sizes == MapThenSumSet(LAMBDA c : SizeOf[c], Columns(sig))
           perRow == IdBytes + sizes
           padding == MapThenSumSet(LAMBDA c : AlignOf[c] - 1, Columns(sig))
           usable == IF BlockBytes > padding THEN BlockBytes - padding ELSE BlockBytes
           guess == Max({1, usable \div perRow})
           fits == {n \in 1 .. guess : n = 1 \/ LayoutAt(sig, n).end <= BlockBytes}
<1>1. Columns(sig) \in SUBSET Component
  BY DEF Columns
<1>2. perRow \in Nat \ {0} /\ padding \in Nat
  <2>1. sizes \in Nat
    BY <1>1, SizesAdd
  <2>2. padding \in Nat
    BY <1>1, PaddingsAdd
  <2>3. IdBytes \in Nat \ {0}
    BY StorageAssumption
  <2> HIDE DEF sizes, padding
  <2> QED
    BY <2>1, <2>2, <2>3
<1>3. usable \in Nat
  <2>1. BlockBytes \in Nat
    BY StorageAssumption
  <2> HIDE DEF padding
  <2> QED
    BY <1>2, <2>1
<1> HIDE DEF perRow, padding, usable
<1>4. usable \div perRow \in Nat
  BY <1>2, <1>3
<1> DEFINE q == usable \div perRow
<1> HIDE DEF q
<1>5. Max({1, q}) \in {1, q} /\ Max({1, q}) >= 1
  <2>1. q \in Nat
    BY <1>4 DEF q
  <2> DEFINE n == IF q > 1 THEN q ELSE 1
  <2>2. n \in Nat /\ {1, q} \in SUBSET (0 .. n) /\ {1, q} # {}
    BY <2>1
  <2> HIDE DEF n
  <2> QED
    BY <2>2, LatestFacts
<1>6. guess \in Nat /\ guess >= 1
  BY <1>4, <1>5 DEF q
<1> HIDE DEF guess
<1>7. fits \in SUBSET (0 .. guess) /\ fits # {} /\ 1 \in fits
  BY <1>6
<1>8. ChunkCapacity(sig) = Max(fits)
  BY DEF ChunkCapacity, fits, guess, usable, perRow, sizes, padding
<1> HIDE DEF fits
<1>9. Max(fits) \in fits /\ Max(fits) >= 1
  BY <1>6, <1>7, LatestFacts
<1>10. Max(fits) \in Nat \ {0}
  <2>1. Max(fits) \in 0 .. guess
    BY <1>7, <1>9
  <2> QED
    BY <1>6, <1>9, <2>1
<1> QED
  BY <1>8, <1>10 DEF Layout

(* Rows, chunks and lists of chunks. *)
RowSet == [id : EntityID, values : UNION {[C -> Marks] : C \in SUBSET Component}]
Chunk == [block : Block, rows : Seq(RowSet)]

Has(C, k, r) == k \in DOMAIN C /\ r \in DOMAIN C[k].rows

(* Every chunk but the trailing one is full, and none is empty. *)
Packed(C, cap) ==
  /\ C \in Seq(Chunk)
  /\ \A k \in DOMAIN C : Len(C[k].rows) \in 1 .. cap
  /\ \A k \in DOMAIN C : k < Len(C) => Len(C[k].rows) = cap

SameBlocks(C, D) == \A k \in DOMAIN C \cap DOMAIN D : D[k].block = C[k].block
LastRow(C) == Len(C[Len(C)].rows)

(* What appending a row, dropping the trailing one and overwriting one do. *)
Grown(C, D, row, cap) ==
  /\ Packed(D, cap) /\ SameBlocks(C, D)
  /\ Len(C) <= Len(D) /\ Len(D) # 0
  /\ \A k, r : Has(D, k, r) <=> Has(C, k, r) \/ (k = Len(D) /\ r = LastRow(D))
  /\ ~Has(C, Len(D), LastRow(D))
  /\ \A k, r : Has(C, k, r) => D[k].rows[r] = C[k].rows[r]
  /\ D[Len(D)].rows[LastRow(D)] = row

Shrunk(C, D, cap) ==
  /\ Packed(D, cap) /\ SameBlocks(C, D)
  /\ Len(D) <= Len(C)
  /\ \A k, r : Has(D, k, r) <=> Has(C, k, r) /\ ~(k = Len(C) /\ r = LastRow(C))
  /\ \A k, r : Has(D, k, r) => D[k].rows[r] = C[k].rows[r]

Rewritten(C, D, k, r, row, cap) ==
  /\ Packed(D, cap) /\ SameBlocks(C, D)
  /\ Len(D) = Len(C) /\ LastRow(D) = LastRow(C)
  /\ \A j, q : Has(D, j, q) <=> Has(C, j, q)
  /\ \A j, q : Has(C, j, q) => D[j].rows[q] = IF j = k /\ q = r THEN row ELSE C[j].rows[q]

(* What is used of a list throughout. *)
LEMMA SeqFacts ==
  ASSUME NEW S, NEW s \in Seq(S)
  PROVE  /\ Len(s) \in Nat /\ DOMAIN s = 1 .. Len(s) /\ \A k \in DOMAIN s : s[k] \in S
         /\ s # <<>> => Len(s) \in DOMAIN s /\ Len(s) # 0 /\ Last(s) = s[Len(s)]
         /\ s = <<>> => Len(s) = 0
<1>1. s # <<>> => Len(s) # 0
  BY EmptySeq
<1> QED
  BY <1>1 DEF Last

(* A packed list of chunks: full but for the last, none empty. *)
LEMMA ChunkFacts ==
  ASSUME NEW cap \in Nat \ {0}, NEW C, Packed(C, cap)
  PROVE  /\ C \in Seq(Chunk) /\ Len(C) \in Nat /\ DOMAIN C = 1 .. Len(C)
         /\ \A k \in DOMAIN C : /\ C[k] \in Chunk /\ C[k].block \in Block /\ C[k].rows \in Seq(RowSet)
                                /\ Len(C[k].rows) \in 1 .. cap
                                /\ DOMAIN C[k].rows = 1 .. Len(C[k].rows)
                                /\ k < Len(C) => Len(C[k].rows) = cap
         /\ \A k, r : Has(C, k, r) => C[k].rows[r] \in RowSet
         /\ C # <<>> => Len(C) \in DOMAIN C /\ Has(C, Len(C), LastRow(C)) /\ Last(C) = C[Len(C)]
<1>1. C \in Seq(Chunk) /\ Len(C) \in Nat /\ DOMAIN C = 1 .. Len(C)
  BY DEF Packed
<1>2. \A k \in DOMAIN C : /\ C[k] \in Chunk /\ C[k].block \in Block /\ C[k].rows \in Seq(RowSet)
                          /\ Len(C[k].rows) \in 1 .. cap
                          /\ k < Len(C) => Len(C[k].rows) = cap
  <2>1. \A k \in DOMAIN C : C[k] \in Chunk
    BY <1>1
  <2>2. \A k \in DOMAIN C : C[k].block \in Block /\ C[k].rows \in Seq(RowSet)
    BY <2>1 DEF Chunk
  <2> QED
    BY <2>1, <2>2 DEF Packed
<1>3. \A k \in DOMAIN C : DOMAIN C[k].rows = 1 .. Len(C[k].rows) /\ \A r \in DOMAIN C[k].rows : C[k].rows[r] \in RowSet
  BY <1>2
<1>4. C # <<>> => Len(C) \in DOMAIN C /\ Has(C, Len(C), LastRow(C)) /\ Last(C) = C[Len(C)]
  <2> HAVE C # <<>>
  <2>1. Len(C) \in DOMAIN C /\ Last(C) = C[Len(C)]
    BY <1>1, SeqFacts
  <2>2. LastRow(C) \in DOMAIN C[Len(C)].rows
    BY <1>2, <1>3, <2>1 DEF LastRow
  <2> QED
    BY <2>1, <2>2 DEF Has
<1> QED
  BY <1>1, <1>2, <1>3, <1>4 DEF Has

(* A row is put after the last row of the last chunk when there is room. *)
LEMMA GrownInPlace ==
  ASSUME NEW cap \in Nat \ {0}, NEW C, Packed(C, cap), NEW row \in RowSet,
         C # <<>>, Len(Last(C).rows) < cap
  PROVE  LET D == [C EXCEPT ![Len(C)].rows = Append(@, row)]
         IN  Grown(C, D, row, cap) /\ Len(D) = Len(C) /\ LastRow(D) = Len(C[Len(C)].rows) + 1
<1> DEFINE n == Len(C)
           rows == Append(C[n].rows, row)
           c == [C[n] EXCEPT !.rows = rows]
           D == [C EXCEPT ![n] = c]
<1>1. /\ C \in Seq(Chunk) /\ n \in Nat /\ DOMAIN C = 1 .. n /\ n \in DOMAIN C
      /\ C[n] \in Chunk /\ C[n].rows \in Seq(RowSet) /\ Len(C[n].rows) < cap /\ Len(C[n].rows) \in 1 .. cap
  BY ChunkFacts
<1>2. /\ rows \in Seq(RowSet) /\ Len(rows) = Len(C[n].rows) + 1 /\ rows[Len(rows)] = row
      /\ DOMAIN rows = 1 .. Len(rows) /\ DOMAIN C[n].rows = 1 .. Len(C[n].rows)
      /\ \A r \in 1 .. Len(C[n].rows) : rows[r] = C[n].rows[r]
  BY <1>1
<1> HIDE DEF rows
<1>3. c \in Chunk /\ c.rows = rows /\ c.block = C[n].block
  BY <1>1, <1>2 DEF Chunk
<1> HIDE DEF c
<1>4. /\ D \in Seq(Chunk) /\ Len(D) = n /\ DOMAIN D = DOMAIN C /\ D[n] = c
      /\ \A k \in DOMAIN C : k # n => D[k] = C[k]
  BY <1>1, <1>3
<1> HIDE DEF D
<1>5. Packed(D, cap)
  <2>1. \A k \in DOMAIN D : Len(D[k].rows) \in 1 .. cap
    BY <1>1, <1>2, <1>3, <1>4 DEF Packed
  <2>2. \A k \in DOMAIN D : k < Len(D) => Len(D[k].rows) = cap
    BY <1>1, <1>2, <1>3, <1>4 DEF Packed
  <2> QED
    BY <1>4, <2>1, <2>2 DEF Packed
<1>6. LastRow(D) = Len(C[n].rows) + 1
  BY <1>2, <1>3, <1>4 DEF LastRow
<1>7. SameBlocks(C, D)
  BY <1>3, <1>4 DEF SameBlocks
<1>8. \A k, r : Has(D, k, r) <=> Has(C, k, r) \/ (k = n /\ r = Len(C[n].rows) + 1)
  <2> TAKE k, r
  <2>1. CASE k = n
    <3>1. Has(D, k, r) <=> r \in 1 .. Len(C[n].rows) + 1
      BY <1>1, <1>2, <1>3, <1>4, <2>1 DEF Has
    <3>2. Has(C, k, r) <=> r \in 1 .. Len(C[n].rows)
      BY <1>1, <1>2, <2>1 DEF Has
    <3> QED
      BY <1>1, <2>1, <3>1, <3>2
  <2>2. CASE k # n
    BY <1>4, <2>2 DEF Has
  <2> QED
    BY <2>1, <2>2
<1>9. ~Has(C, n, Len(C[n].rows) + 1)
  BY <1>1, <1>2 DEF Has
<1>10. \A k, r : Has(C, k, r) => D[k].rows[r] = C[k].rows[r]
  BY <1>1, <1>2, <1>3, <1>4 DEF Has
<1>11. D[n].rows[Len(C[n].rows) + 1] = row
  BY <1>2, <1>3, <1>4
<1>12. Grown(C, D, row, cap)
  BY <1>1, <1>4, <1>5, <1>6, <1>7, <1>8, <1>9, <1>10, <1>11 DEF Grown
<1> QED
  BY <1>4, <1>6, <1>12 DEF D, c, rows

(* A row opens a chunk of its own when there is no room. *)
LEMMA GrownByChunk ==
  ASSUME NEW cap \in Nat \ {0}, NEW C, Packed(C, cap), NEW row \in RowSet, NEW b \in Block,
         C # <<>> => ~(Len(Last(C).rows) < cap)
  PROVE  LET D == Append(C, [block |-> b, rows |-> <<row>>])
         IN  Grown(C, D, row, cap) /\ Len(D) = Len(C) + 1 /\ LastRow(D) = 1 /\ D[Len(D)].block = b
<1> DEFINE n == Len(C)
           rows == <<row>>
           c == [block |-> b, rows |-> rows]
           D == Append(C, c)
<1>1. C \in Seq(Chunk) /\ n \in Nat /\ DOMAIN C = 1 .. n
  BY ChunkFacts
<1>2. \A k \in 1 .. n : Len(C[k].rows) = cap
  <2> TAKE k \in 1 .. n
  <2>1. CASE k < n
    BY <1>1, <2>1 DEF Packed
  <2>2. CASE k = n
    <3>1. C # <<>>
      BY <1>1, <2>2, SeqFacts
    <3>2. Last(C) = C[n] /\ Len(C[n].rows) \in 1 .. cap
      BY <1>1, <3>1, ChunkFacts
    <3> QED
      BY <2>2, <3>1, <3>2
  <2>3. k < n \/ k = n
    <3>1. n \in Nat
      BY <1>1
    <3> QED
      BY <3>1
  <2> QED
    BY <2>1, <2>2, <2>3
<1>3. rows \in Seq(RowSet) /\ Len(rows) = 1 /\ DOMAIN rows = 1 .. 1 /\ rows[1] = row
  OBVIOUS
<1> HIDE DEF rows
<1>4. c \in Chunk /\ c.rows = rows /\ c.block = b
  BY <1>3 DEF Chunk
<1> HIDE DEF c
<1>5. /\ D \in Seq(Chunk) /\ Len(D) = n + 1 /\ DOMAIN D = 1 .. n + 1 /\ D[n + 1] = c
      /\ \A k \in 1 .. n : D[k] = C[k]
  BY <1>1, <1>4
<1> HIDE DEF D
<1>6. ASSUME NEW k \in 1 .. n + 1
      PROVE  Len(D[k].rows) \in 1 .. cap /\ (k < n + 1 => Len(D[k].rows) = cap)
  <2>1. CASE k = n + 1
    <3>1. D[k].rows = rows /\ 1 \in 1 .. cap /\ ~(n + 1 < n + 1)
      BY <1>1, <1>4, <1>5, <2>1
    <3> QED
      BY <1>3, <2>1, <3>1
  <2>2. CASE k # n + 1
    <3>1. k \in 1 .. n
      BY <1>1, <2>2
    <3> QED
      BY <1>2, <1>5, <3>1
  <2> QED
    BY <2>1, <2>2
<1>7. Packed(D, cap)
  BY <1>5, <1>6 DEF Packed
<1>8. LastRow(D) = 1
  BY <1>3, <1>4, <1>5 DEF LastRow
<1>9. SameBlocks(C, D)
  BY <1>1, <1>5 DEF SameBlocks
<1>10. \A k, r : Has(D, k, r) <=> Has(C, k, r) \/ (k = n + 1 /\ r = 1)
  BY <1>1, <1>3, <1>4, <1>5 DEF Has
<1>11. ~Has(C, n + 1, 1)
  BY <1>1 DEF Has
<1>12. \A k, r : Has(C, k, r) => D[k].rows[r] = C[k].rows[r]
  BY <1>1, <1>5 DEF Has
<1>13. D[n + 1].rows[1] = row
  BY <1>3, <1>4, <1>5
<1>14. Grown(C, D, row, cap)
  BY <1>1, <1>5, <1>7, <1>8, <1>9, <1>10, <1>11, <1>12, <1>13 DEF Grown
<1> QED
  BY <1>4, <1>5, <1>8, <1>14 DEF D, c, rows

----------------------------------------------------------------------------
(* Lists of rows and chunks. *)

LEMMA FrontFacts ==
  ASSUME NEW S, NEW s \in Seq(S), s # <<>>
  PROVE  /\ Front(s) \in Seq(S) /\ Len(Front(s)) = Len(s) - 1 /\ Len(s) \in Nat \ {0}
         /\ \A k \in 1 .. Len(s) - 1 : Front(s)[k] = s[k]
         /\ (Front(s) = <<>>) <=> (Len(s) = 1)
<1>1. Len(s) \in Nat /\ Len(s) # 0 /\ DOMAIN s = 1 .. Len(s)
  BY SeqFacts
<1> DEFINE f == [k \in 1 .. Len(s) - 1 |-> s[k]]
<1>2. Front(s) = f
  BY <1>1 DEF Front
<1>3. Len(s) - 1 \in Nat /\ \A k \in 1 .. Len(s) - 1 : s[k] \in S
  BY <1>1
<1>4. f \in Seq(S) /\ Len(f) = Len(s) - 1 /\ \A k \in 1 .. Len(s) - 1 : f[k] = s[k]
  BY <1>3
<1> HIDE DEF f
<1>5. (f = <<>>) <=> (Len(f) = 0)
  BY <1>4, EmptySeq
<1> QED
  BY <1>1, <1>2, <1>4, <1>5

(* The last row goes and leaves a chunk that has others. *)
LEMMA ShrunkInPlace ==
  ASSUME NEW cap \in Nat \ {0}, NEW C, Packed(C, cap), C # <<>>, LastRow(C) # 1
  PROVE  LET D == [C EXCEPT ![Len(C)].rows = Front(@)]
         IN  Shrunk(C, D, cap) /\ Len(D) = Len(C) /\ D[Len(C)].rows # <<>>
<1> DEFINE n == Len(C)
           rows == Front(C[n].rows)
           c == [C[n] EXCEPT !.rows = rows]
           D == [C EXCEPT ![n] = c]
<1>1. /\ C \in Seq(Chunk) /\ n \in Nat /\ DOMAIN C = 1 .. n /\ n \in DOMAIN C
      /\ C[n] \in Chunk /\ C[n].rows \in Seq(RowSet) /\ Len(C[n].rows) \in 1 .. cap
      /\ DOMAIN C[n].rows = 1 .. Len(C[n].rows)
  BY ChunkFacts
<1> DEFINE m == Len(C[n].rows)
<1>2. m \in Nat /\ m > 1 /\ m <= cap /\ LastRow(C) = m
  <2>1. LastRow(C) = m /\ m \in 1 .. cap
    BY <1>1 DEF LastRow
  <2> HIDE DEF m
  <2> QED
    BY <2>1
<1>3. C[n].rows # <<>>
  BY <1>1, <1>2, SeqFacts
<1>4. /\ rows \in Seq(RowSet) /\ Len(rows) = m - 1
      /\ \A r \in 1 .. m - 1 : rows[r] = C[n].rows[r]
      /\ (rows = <<>>) <=> (m = 1)
  BY <1>1, <1>3, FrontFacts
<1>5. DOMAIN rows = 1 .. m - 1 /\ rows # <<>>
  BY <1>2, <1>4
<1> HIDE DEF rows
<1>6. c \in Chunk /\ c.rows = rows /\ c.block = C[n].block
  BY <1>1, <1>4 DEF Chunk
<1> HIDE DEF c
<1>7. /\ D \in Seq(Chunk) /\ Len(D) = n /\ DOMAIN D = DOMAIN C /\ D[n] = c
      /\ \A k \in DOMAIN C : k # n => D[k] = C[k]
  BY <1>1, <1>6
<1> HIDE DEF D
<1>8. ASSUME NEW k \in DOMAIN D PROVE Len(D[k].rows) \in 1 .. cap /\ (k < Len(D) => Len(D[k].rows) = cap)
  <2>1. CASE k = n
    <3>1. Len(D[k].rows) = m - 1 /\ ~(k < Len(D))
      BY <1>1, <1>4, <1>6, <1>7, <2>1
    <3>2. m - 1 \in 1 .. cap
      BY <1>2
    <3> QED
      BY <3>1, <3>2
  <2>2. CASE k # n
    BY <1>7, <2>2 DEF Packed
  <2> QED
    BY <2>1, <2>2
<1>9. Packed(D, cap)
  BY <1>7, <1>8 DEF Packed
<1>10. SameBlocks(C, D)
  BY <1>6, <1>7 DEF SameBlocks
<1>11. \A k, r : Has(D, k, r) <=> Has(C, k, r) /\ ~(k = n /\ r = m)
  <2> TAKE k, r
  <2>1. CASE k = n
    <3>1. Has(D, k, r) <=> r \in 1 .. m - 1
      BY <1>1, <1>5, <1>6, <1>7, <2>1 DEF Has
    <3>2. Has(C, k, r) <=> r \in 1 .. m
      BY <1>1, <2>1 DEF Has
    <3>3. r \in 1 .. m - 1 <=> r \in 1 .. m /\ r # m
      BY <1>2
    <3> QED
      BY <2>1, <3>1, <3>2, <3>3
  <2>2. CASE k # n
    BY <1>7, <2>2 DEF Has
  <2> QED
    BY <2>1, <2>2
<1>12. \A k, r : Has(D, k, r) => D[k].rows[r] = C[k].rows[r]
  <2> TAKE k, r
  <2> HAVE Has(D, k, r)
  <2>1. CASE k = n
    <3>1. r \in 1 .. m - 1
      BY <1>5, <1>6, <1>7, <2>1 DEF Has
    <3> QED
      BY <1>4, <1>6, <1>7, <2>1, <3>1
  <2>2. CASE k # n
    BY <1>7, <2>2 DEF Has
  <2> QED
    BY <2>1, <2>2
<1>13. Shrunk(C, D, cap)
  BY <1>1, <1>2, <1>7, <1>9, <1>10, <1>11, <1>12 DEF Shrunk
<1> QED
  BY <1>5, <1>6, <1>7, <1>13 DEF D, c, rows

(* The last row goes and its chunk, empty, goes with it. *)
LEMMA ShrunkByChunk ==
  ASSUME NEW cap \in Nat \ {0}, NEW C, Packed(C, cap), C # <<>>, LastRow(C) = 1
  PROVE  LET E == [C EXCEPT ![Len(C)].rows = Front(@)]
             D == Front(E)
         IN  /\ Shrunk(C, D, cap) /\ Len(D) = Len(C) - 1 /\ E[Len(C)].rows = <<>>
             /\ Len(E) = Len(C)
<1> DEFINE n == Len(C)
           rows == Front(C[n].rows)
           c == [C[n] EXCEPT !.rows = rows]
           E == [C EXCEPT ![n] = c]
           D == Front(E)
<1>1. /\ C \in Seq(Chunk) /\ n \in Nat /\ DOMAIN C = 1 .. n /\ n \in DOMAIN C
      /\ C[n] \in Chunk /\ C[n].rows \in Seq(RowSet) /\ DOMAIN C[n].rows = 1 .. Len(C[n].rows)
  BY ChunkFacts
<1>2. Len(C[n].rows) = 1
  BY DEF LastRow
<1>3. C[n].rows # <<>>
  BY <1>1, <1>2, SeqFacts
<1>4. rows \in Seq(RowSet) /\ rows = <<>>
  BY <1>1, <1>2, <1>3, FrontFacts
<1> HIDE DEF rows
<1>5. c \in Chunk /\ c.rows = rows
  BY <1>1, <1>4 DEF Chunk
<1> HIDE DEF c
<1>6. /\ E \in Seq(Chunk) /\ Len(E) = n /\ E[n] = c
      /\ \A k \in DOMAIN C : k # n => E[k] = C[k]
  BY <1>1, <1>5
<1> HIDE DEF E
<1>7. n # 0 /\ E # <<>>
  BY <1>1, <1>6, SeqFacts
<1>8. D \in Seq(Chunk) /\ Len(D) = n - 1 /\ \A k \in 1 .. n - 1 : D[k] = E[k]
  BY <1>6, <1>7, FrontFacts
<1> HIDE DEF D
<1>9. DOMAIN D = 1 .. n - 1 /\ \A k \in 1 .. n - 1 : k \in DOMAIN C /\ D[k] = C[k] /\ k < n
  BY <1>1, <1>6, <1>8, SMTT(40)
<1>10. ASSUME NEW k \in DOMAIN D PROVE Len(D[k].rows) \in 1 .. cap /\ (k < Len(D) => Len(D[k].rows) = cap)
  BY <1>9 DEF Packed
<1>11. Packed(D, cap)
  BY <1>8, <1>10 DEF Packed
<1>12. SameBlocks(C, D)
  BY <1>9 DEF SameBlocks
<1>13. \A k, r : Has(D, k, r) <=> Has(C, k, r) /\ ~(k = n /\ r = 1)
  <2> TAKE k, r
  <2>1. CASE k = n
    BY <1>1, <1>2, <1>9, <2>1 DEF Has
  <2>2. CASE k # n
    <3>1. k \in DOMAIN D <=> k \in DOMAIN C
      BY <1>1, <1>9, <2>2
    <3> QED
      BY <1>9, <2>2, <3>1 DEF Has
  <2> QED
    BY <2>1, <2>2
<1>14. \A k, r : Has(D, k, r) => D[k].rows[r] = C[k].rows[r]
  BY <1>9 DEF Has
<1>15. Shrunk(C, D, cap)
  BY <1>1, <1>8, <1>11, <1>12, <1>13, <1>14 DEF Shrunk
<1> QED
  BY <1>4, <1>5, <1>6, <1>8, <1>15 DEF D, E, c, rows

(* A row is overwritten where it stands. *)
LEMMA RewrittenFacts ==
  ASSUME NEW cap \in Nat \ {0}, NEW C, Packed(C, cap), NEW row \in RowSet, NEW k, NEW r, Has(C, k, r)
  PROVE  Rewritten(C, [C EXCEPT ![k].rows[r] = row], k, r, row, cap)
<1> DEFINE rows == [C[k].rows EXCEPT ![r] = row]
           c == [C[k] EXCEPT !.rows = rows]
           D == [C EXCEPT ![k] = c]
<1>1. /\ C \in Seq(Chunk) /\ Len(C) \in Nat /\ DOMAIN C = 1 .. Len(C) /\ k \in DOMAIN C
      /\ C[k] \in Chunk /\ C[k].rows \in Seq(RowSet)
      /\ r \in DOMAIN C[k].rows
  BY ChunkFacts DEF Has
<1>2. /\ rows \in Seq(RowSet) /\ Len(rows) = Len(C[k].rows) /\ DOMAIN rows = DOMAIN C[k].rows
      /\ rows[r] = row /\ \A q \in DOMAIN rows : q # r => rows[q] = C[k].rows[q]
  BY <1>1
<1> HIDE DEF rows
<1>3. c \in Chunk /\ c.rows = rows /\ c.block = C[k].block
  BY <1>1, <1>2 DEF Chunk
<1> HIDE DEF c
<1>4. /\ D \in Seq(Chunk) /\ Len(D) = Len(C) /\ DOMAIN D = DOMAIN C /\ D[k] = c
      /\ \A j \in DOMAIN C : j # k => D[j] = C[j]
  BY <1>1, <1>3
<1> HIDE DEF D
<1>5. \A j \in DOMAIN D : Len(D[j].rows) = Len(C[j].rows) /\ DOMAIN D[j].rows = DOMAIN C[j].rows
  BY <1>2, <1>3, <1>4
<1>6. Packed(D, cap)
  BY <1>4, <1>5 DEF Packed
<1>7. SameBlocks(C, D)
  BY <1>3, <1>4 DEF SameBlocks
<1>8. LastRow(D) = LastRow(C)
  <2>1. Len(C) \in DOMAIN D
    BY <1>1, <1>4
  <2> QED
    BY <1>4, <1>5, <2>1 DEF LastRow
<1>9. \A j, q : Has(D, j, q) <=> Has(C, j, q)
  BY <1>4, <1>5 DEF Has
<1>10. \A j, q : Has(C, j, q) => D[j].rows[q] = IF j = k /\ q = r THEN row ELSE C[j].rows[q]
  BY <1>2, <1>3, <1>4 DEF Has
<1>11. Rewritten(C, D, k, r, row, cap)
  BY <1>4, <1>6, <1>7, <1>8, <1>9, <1>10 DEF Rewritten
<1> QED
  BY <1>11 DEF D, c, rows

----------------------------------------------------------------------------
(* The pool of chunk blocks. *)

Cached == [block : Block, age : Nat]

(* A pool of its type, and the blocks B that are in use elsewhere: every   *)
(* block alive is cached once or in use, never both.                       *)
PoolOK(p) ==
  /\ p = Pool(p.free, p.live)
  /\ p.free \in Seq(Cached)
  /\ p.live \in SUBSET Block

IsCached(p, b) == \E i \in DOMAIN p.free : p.free[i].block = b

PoolSound(p, B) ==
  /\ PoolOK(p)
  /\ \A i, j \in DOMAIN p.free : p.free[i].block = p.free[j].block => i = j
  /\ \A b \in B : ~IsCached(p, b)
  /\ \A b : b \in p.live <=> b \in B \/ IsCached(p, b)

(* The two parts of a pool. *)
LEMMA PoolFacts ==
  ASSUME NEW free, NEW live
  PROVE  Pool(free, live).free = free /\ Pool(free, live).live = live
BY DEF Pool

(* What is used of a pool throughout. *)
LEMMA PoolTypes ==
  ASSUME NEW p, PoolOK(p)
  PROVE  /\ p.free \in Seq(Cached) /\ Len(p.free) \in Nat /\ DOMAIN p.free = 1 .. Len(p.free)
         /\ \A i \in DOMAIN p.free : /\ p.free[i] \in Cached /\ p.free[i].block \in Block
                                     /\ p.free[i].age \in Nat
         /\ p.live \in SUBSET Block
         /\ IsFiniteSet(Block \ p.live) /\ Cardinality(Block \ p.live) \in Nat
<1>1. p.free \in Seq(Cached) /\ p.live \in SUBSET Block
  BY DEF PoolOK
<1>2. Len(p.free) \in Nat /\ DOMAIN p.free = 1 .. Len(p.free) /\ \A i \in DOMAIN p.free : p.free[i] \in Cached
  BY <1>1
<1>3. \A i \in DOMAIN p.free : p.free[i].block \in Block /\ p.free[i].age \in Nat
  BY <1>2 DEF Cached
<1>4. IsFiniteSet(Block \ p.live)
  <2>1. Block \ p.live \in SUBSET Block
    OBVIOUS
  <2> QED
    BY <2>1, FS_Subset, PoolAssumption
<1>5. Cardinality(Block \ p.live) \in Nat
  BY <1>4, FS_CardinalityType
<1> QED
  BY <1>1, <1>2, <1>3, <1>4, <1>5

(* acquire: the block handed out was in use nowhere. *)
LEMMA AcquireFacts ==
  ASSUME NEW p, NEW B, PoolSound(p, B), NEW n \in Nat, CanAcquire(p, n + 1)
  PROVE  /\ NextBlock(p) \in Block /\ NextBlock(p) \notin B
         /\ PoolSound(Acquire(p), B \cup {NextBlock(p)})
         /\ CanAcquire(Acquire(p), n)
<1> DEFINE b == NextBlock(p)
<1>0. /\ PoolOK(p) /\ p.free \in Seq(Cached) /\ Len(p.free) \in Nat /\ DOMAIN p.free = 1 .. Len(p.free)
      /\ \A i \in DOMAIN p.free : p.free[i] \in Cached /\ p.free[i].block \in Block
      /\ p.live \in SUBSET Block
      /\ IsFiniteSet(Block \ p.live) /\ Cardinality(Block \ p.live) \in Nat
  BY PoolTypes DEF PoolSound
<1>1. Len(p.free) + Cardinality(Block \ p.live) >= n + 1
  BY DEF CanAcquire
<1>2. CASE p.free = <<>>
  <2>1. Len(p.free) = 0 /\ DOMAIN p.free = {}
    BY <1>2
  <2>2. Block \ p.live # {}
    <3>1. Cardinality(Block \ p.live) >= n + 1
      BY <1>0, <1>1, <2>1
    <3>2. Cardinality(Block \ p.live) # 0
      BY <1>0, <3>1
    <3> QED
      BY <3>2, FS_EmptySet
  <2>3. b = Min(Block \ p.live)
    BY <1>2 DEF NextBlock
  <2>4. Block \ p.live \in SUBSET Nat
    BY PoolAssumption
  <2>5. b \in Block \ p.live
    BY <2>2, <2>3, <2>4, MinFacts
  <2>6. ~IsCached(p, b) /\ b \notin B
    BY <2>5 DEF PoolSound
  <2> DEFINE live == p.live \cup {b}
             free == <<>>
  <2>7. Acquire(p) = Pool(free, live)
    BY <1>2 DEF Acquire
  <2>8. free \in Seq(Cached) /\ DOMAIN free = {} /\ live \in SUBSET Block /\ Len(free) = 0
    BY <1>0, <2>5
  <2>9. \A c : c \in live <=> c \in p.live \/ c = b
    OBVIOUS
  <2>10. \A c : c \in p.live <=> c \in B
    BY <2>1 DEF PoolSound, IsCached
  <2>11. Block \ live = (Block \ p.live) \ {b}
    OBVIOUS
  <2> HIDE DEF live, free, b
  <2>12. Acquire(p).free = free /\ Acquire(p).live = live
    BY <2>7, PoolFacts
  <2>13. PoolSound(Acquire(p), B \cup {b})
    <3>1. PoolOK(Acquire(p))
      BY <2>7, <2>8, <2>12 DEF PoolOK
    <3>2. \A c : ~IsCached(Acquire(p), c)
      BY <2>8, <2>12 DEF IsCached
    <3>3. \A c : c \in live <=> c \in B \cup {b} \/ IsCached(Acquire(p), c)
      BY <2>9, <2>10, <3>2
    <3> QED
      BY <2>8, <2>12, <3>1, <3>2, <3>3 DEF PoolSound
  <2>14. Cardinality(Block \ live) = Cardinality(Block \ p.live) - 1
    <3>1. IsFiniteSet(Block \ p.live)
      BY <1>0
    <3>2. Cardinality((Block \ p.live) \ {b}) = Cardinality(Block \ p.live) - 1
      BY <2>5, <3>1, FS_RemoveElement
    <3> QED
      BY <2>11, <3>2
  <2>15. CanAcquire(Acquire(p), n)
    BY <1>0, <1>1, <2>1, <2>8, <2>12, <2>14 DEF CanAcquire
  <2> QED
    BY <2>5, <2>6, <2>13, <2>15 DEF b
<1>3. CASE p.free # <<>>
  <2> DEFINE m == Len(p.free)
             free == Front(p.free)
             live == p.live
  <2>1. m \in DOMAIN p.free /\ Last(p.free) = p.free[m] /\ m # 0
    BY <1>0, <1>3, SeqFacts
  <2>2. b = p.free[m].block
    BY <1>3, <2>1 DEF NextBlock
  <2>3. /\ free \in Seq(Cached) /\ Len(free) = m - 1
        /\ \A k \in 1 .. m - 1 : free[k] = p.free[k]
    BY <1>0, <1>3, FrontFacts
  <2>4. DOMAIN free = 1 .. m - 1 /\ \A k \in 1 .. m - 1 : k \in DOMAIN p.free /\ k # m
    BY <1>0, <2>1, <2>3
  <2>5. \A k \in DOMAIN p.free : k # m => k \in DOMAIN free
    BY <1>0, <2>1, <2>4
  <2>6. Acquire(p) = Pool(free, live)
    BY <1>3 DEF Acquire
  <2> HIDE DEF live, free, b, m
  <2>7. Acquire(p).free = free /\ Acquire(p).live = live
    BY <2>6, PoolFacts
  <2>8. b \in Block /\ IsCached(p, b)
    BY <1>0, <2>1, <2>2 DEF IsCached
  <2>9. b \notin B
    BY <2>8 DEF PoolSound
  <2>10. \A c : IsCached(p, c) <=> IsCached(Acquire(p), c) \/ c = b
    BY <2>1, <2>2, <2>3, <2>4, <2>5, <2>7 DEF IsCached
  <2>11. ~IsCached(Acquire(p), b)
    <3> SUFFICES ASSUME NEW i \in DOMAIN free, free[i].block = b PROVE FALSE
      BY <2>7 DEF IsCached
    <3>1. i \in DOMAIN p.free /\ i # m /\ free[i] = p.free[i]
      BY <2>3, <2>4
    <3> QED
      BY <2>1, <2>2, <3>1 DEF PoolSound
  <2>12. \A i, j \in DOMAIN free : free[i].block = free[j].block => i = j
    BY <2>3, <2>4 DEF PoolSound
  <2>13. PoolSound(Acquire(p), B \cup {b})
    <3>1. PoolOK(Acquire(p))
      BY <1>0, <2>3, <2>6, <2>7 DEF PoolOK, live
    <3>2. \A c \in B \cup {b} : ~IsCached(Acquire(p), c)
      BY <2>9, <2>10, <2>11 DEF PoolSound
    <3>3. \A c : c \in p.live <=> c \in B \cup {b} \/ IsCached(Acquire(p), c)
      BY <2>8, <2>10 DEF PoolSound
    <3> QED
      BY <2>7, <2>12, <3>1, <3>2, <3>3 DEF PoolSound, live
  <2>14. CanAcquire(Acquire(p), n)
    BY <1>0, <1>1, <2>3, <2>7 DEF CanAcquire, m, live
  <2> QED
    BY <2>8, <2>9, <2>13, <2>14 DEF b
<1> QED
  BY <1>2, <1>3

(* release: the block is cached, or deleted when the pool is full. *)
LEMMA ReleaseFacts ==
  ASSUME NEW p, NEW B, PoolSound(p, B), NEW b \in B
  PROVE  PoolSound(Release(p, b), B \ {b})
<1>0. /\ PoolOK(p) /\ p.free \in Seq(Cached) /\ Len(p.free) \in Nat /\ DOMAIN p.free = 1 .. Len(p.free)
      /\ \A i \in DOMAIN p.free : p.free[i] \in Cached /\ p.free[i].block \in Block
      /\ p.live \in SUBSET Block
  BY PoolTypes DEF PoolSound
<1>1. b \in p.live /\ ~IsCached(p, b) /\ b \in Block
  BY <1>0 DEF PoolSound
<1>2. CASE Len(p.free) >= MaxPoolSize
  <2> DEFINE live == p.live \ {b}
             free == p.free
  <2>1. Release(p, b) = Pool(free, live)
    BY <1>2 DEF Release
  <2>2. live \in SUBSET Block /\ \A c : c \in live <=> c \in p.live /\ c # b
    BY <1>0
  <2> HIDE DEF live
  <2>3. Release(p, b).free = p.free /\ Release(p, b).live = live
    BY <2>1, PoolFacts
  <2>4. \A c : IsCached(Release(p, b), c) <=> IsCached(p, c)
    BY <2>3 DEF IsCached
  <2>5. PoolOK(Release(p, b))
    BY <1>0, <2>1, <2>2, <2>3 DEF PoolOK
  <2>6. \A c : c \in live <=> c \in B \ {b} \/ IsCached(p, c)
    BY <1>1, <2>2 DEF PoolSound
  <2> QED
    BY <2>3, <2>4, <2>5, <2>6 DEF PoolSound
<1>3. CASE ~(Len(p.free) >= MaxPoolSize)
  <2> DEFINE n == Len(p.free)
             new == [block |-> b, age |-> 0]
             free == Append(p.free, new)
             live == p.live
  <2>1. new \in Cached /\ new.block = b
    BY <1>1 DEF Cached
  <2>2. Release(p, b) = Pool(free, live)
    BY <1>3 DEF Release
  <2> HIDE DEF new
  <2>3. /\ free \in Seq(Cached) /\ DOMAIN free = 1 .. n + 1 /\ free[n + 1] = new
        /\ \A k \in 1 .. n : free[k] = p.free[k]
    BY <1>0, <2>1
  <2> HIDE DEF free, live
  <2>4. Release(p, b).free = free /\ Release(p, b).live = live
    BY <2>2, PoolFacts
  <2>5. \A k \in DOMAIN free : k = n + 1 \/ k \in DOMAIN p.free
    BY <1>0, <2>3
  <2>6. \A c : IsCached(Release(p, b), c) <=> IsCached(p, c) \/ c = b
    <3>1. \A c : IsCached(p, c) => IsCached(Release(p, b), c)
      BY <1>0, <2>3, <2>4 DEF IsCached
    <3>2. IsCached(Release(p, b), b)
      BY <1>0, <2>1, <2>3, <2>4 DEF IsCached
    <3>3. \A c : IsCached(Release(p, b), c) => IsCached(p, c) \/ c = b
      BY <1>0, <2>1, <2>3, <2>4, <2>5 DEF IsCached
    <3> QED
      BY <3>1, <3>2, <3>3
  <2>7. \A i, j \in DOMAIN free : free[i].block = free[j].block => i = j
    <3> TAKE i, j \in DOMAIN free
    <3> HAVE free[i].block = free[j].block
    <3>1. \A k \in DOMAIN p.free : free[k] = p.free[k] /\ p.free[k].block # b
      BY <1>0, <1>1, <2>3 DEF IsCached
    <3>2. \A k \in DOMAIN free : k = n + 1 => free[k].block = b
      BY <2>1, <2>3
    <3> QED
      BY <2>5, <3>1, <3>2 DEF PoolSound
  <2>8. PoolOK(Release(p, b))
    BY <1>0, <2>2, <2>3, <2>4 DEF PoolOK, live
  <2>9. \A c : c \in live <=> c \in B \ {b} \/ IsCached(Release(p, b), c)
    BY <2>6 DEF PoolSound, live
  <2>10. \A c \in B \ {b} : ~IsCached(Release(p, b), c)
    BY <2>6 DEF PoolSound
  <2> QED
    BY <2>4, <2>7, <2>8, <2>9, <2>10 DEF PoolSound
<1> QED
  BY <1>2, <1>3

----------------------------------------------------------------------------
(* Reclaiming and draining. *)

(* The blocks of the archetypes D of a list A, each in one chunk only. *)
Used(A, D) ==
  {b \in Block : \E a \in D : \E k \in DOMAIN A[a].chunks : A[a].chunks[k].block = b}

UsedOnce(A) ==
  \A a, b \in DOMAIN A : \A j \in DOMAIN A[a].chunks, k \in DOMAIN A[b].chunks :
    A[a].chunks[j].block = A[b].chunks[k].block => a = b /\ j = k

BlocksIn(chunks, T) == {b \in Block : \E k \in T : chunks[k].block = b}

Sweep(p, k, s) == SweepStep(s)
Swept(p, T, s) ==
  /\ PoolSound(s.pool, p[1])
  /\ s.at \in Nat \ {0} /\ Len(s.pool.free) <= p[2]
  /\ (s.at - 1) + (p[2] - Len(s.pool.free)) = Cardinality(T)
Sweeping == INSTANCE Folding WITH Step <- Sweep, Pick <- Latest, Holds <- Swept

ReleaseChunk(p, k, pool) == Release(pool, p[2][k].block)
ChunksReleased(p, T, pool) == PoolSound(pool, p[1] \ BlocksIn(p[2], T))
Releasing == INSTANCE Folding WITH Step <- ReleaseChunk, Pick <- Latest, Holds <- ChunksReleased

DrainArchetype(p, a, pool) == drain_to_pool(pool, p[a].chunks)
ArchetypesDrained(p, T, pool) == PoolSound(pool, Used(p, DOMAIN p \ T))
Draining == INSTANCE Folding WITH Step <- DrainArchetype, Pick <- Latest, Holds <- ArchetypesDrained

(* A reclaimed block leaves the cache by a swap with the last, and is dead. *)
LEMMA SwapPopFacts ==
  ASSUME NEW p, NEW B, PoolSound(p, B), NEW i \in DOMAIN p.free
  PROVE  LET q == Pool(SwapPop(p.free, i), p.live \ {p.free[i].block})
         IN  PoolSound(q, B) /\ Len(q.free) = Len(p.free) - 1
<1> DEFINE n == Len(p.free)
           free == SwapPop(p.free, i)
           b == p.free[i].block
           live == p.live \ {b}
           q == Pool(free, live)
<1>0. /\ PoolOK(p) /\ p.free \in Seq(Cached) /\ n \in Nat /\ DOMAIN p.free = 1 .. n
      /\ \A k \in DOMAIN p.free : p.free[k] \in Cached /\ p.free[k].block \in Block
      /\ p.live \in SUBSET Block
  BY PoolTypes DEF PoolSound
<1>1. n \in DOMAIN p.free /\ Last(p.free) = p.free[n] /\ n - 1 \in Nat
  <2>1. p.free # <<>>
    BY <1>0, SeqFacts
  <2> QED
    BY <1>0, <2>1, SeqFacts
<1>2. free = [k \in 1 .. n - 1 |-> IF k = i THEN p.free[n] ELSE p.free[k]]
  BY <1>1 DEF SwapPop
<1> DEFINE f == [k \in 1 .. n - 1 |-> IF k = i THEN p.free[n] ELSE p.free[k]]
<1>3. \A k \in 1 .. n - 1 : k \in DOMAIN p.free /\ k # n
  BY <1>0, <1>1
<1>4. f \in Seq(Cached) /\ Len(f) = n - 1 /\ DOMAIN f = 1 .. n - 1
  BY <1>0, <1>1, <1>3
<1>5. \A k \in 1 .. n - 1 : f[k] = IF k = i THEN p.free[n] ELSE p.free[k]
  OBVIOUS
<1> HIDE DEF f
<1>6. free \in Seq(Cached) /\ Len(free) = n - 1 /\ DOMAIN free = 1 .. n - 1
  BY <1>2, <1>4 DEF f
<1>7. \A k \in 1 .. n - 1 : free[k] = IF k = i THEN p.free[n] ELSE p.free[k]
  BY <1>2, <1>5 DEF f
<1> HIDE DEF free, n, b
<1>8. q = Pool(free, live) /\ q.free = free /\ q.live = live
  BY PoolFacts
<1>9. \A k, l \in DOMAIN p.free : p.free[k].block = p.free[l].block => k = l
  BY DEF PoolSound
<1>10. \A k, l \in 1 .. n - 1 : free[k].block = free[l].block => k = l
  <2> TAKE k, l \in 1 .. n - 1
  <2> HAVE free[k].block = free[l].block
  <2>1. k \in DOMAIN p.free /\ l \in DOMAIN p.free /\ k # n /\ l # n
    BY <1>3
  <2> QED
    BY <1>1, <1>7, <1>9, <2>1
<1>11. \A c : (\E k \in 1 .. n - 1 : free[k].block = c) <=> IsCached(p, c) /\ c # b
  <2> TAKE c
  <2>1. ASSUME NEW k \in 1 .. n - 1, free[k].block = c PROVE IsCached(p, c) /\ c # b
    <3>1. k \in DOMAIN p.free /\ k # n
      BY <1>3
    <3>2. CASE k = i
      BY <1>1, <1>7, <1>9, <2>1, <3>1, <3>2 DEF IsCached, b
    <3>3. CASE k # i
      BY <1>1, <1>7, <1>9, <2>1, <3>1, <3>3 DEF IsCached, b
    <3> QED
      BY <3>2, <3>3
  <2>2. ASSUME NEW k \in DOMAIN p.free, p.free[k].block = c, c # b
        PROVE  \E j \in 1 .. n - 1 : free[j].block = c
    <3>1. k # i
      BY <2>2 DEF b
    <3>2. CASE k = n
      <4>1. i \in 1 .. n - 1
        BY <1>0, <1>1, <3>1, <3>2
      <4> QED
        BY <1>7, <2>2, <3>2, <4>1
    <3>3. CASE k # n
      <4>1. k \in 1 .. n - 1
        BY <1>0, <1>1, <3>3
      <4> QED
        BY <1>7, <2>2, <3>1, <4>1
    <3> QED
      BY <3>2, <3>3
  <2> QED
    BY <2>1, <2>2 DEF IsCached
<1> HIDE DEF q
<1>12. \A c : IsCached(q, c) <=> IsCached(p, c) /\ c # b
  <2> TAKE c
  <2>1. IsCached(q, c) <=> \E k \in 1 .. n - 1 : free[k].block = c
    BY <1>6, <1>8 DEF IsCached
  <2> QED
    BY <1>11, <2>1
<1>13. b \notin B
  BY DEF PoolSound, IsCached, b
<1>14. PoolOK(q)
  BY <1>0, <1>6, <1>8 DEF PoolOK
<1>15. \A c : c \in live <=> c \in B \/ IsCached(q, c)
  BY <1>12, <1>13 DEF PoolSound
<1>16. \A c \in B : ~IsCached(q, c)
  BY <1>12 DEF PoolSound
<1>17. PoolSound(q, B)
  <2>1. \A k, l \in DOMAIN q.free : q.free[k].block = q.free[l].block => k = l
    BY <1>6, <1>8, <1>10
  <2>2. \A c : c \in q.live <=> c \in B \/ IsCached(q, c)
    BY <1>8, <1>15
  <2> HIDE DEF live
  <2> QED
    BY <1>14, <1>16, <2>1, <2>2 DEF PoolSound
<1> QED
  BY <1>6, <1>8, <1>17 DEF q, free, n, b

(* advance_tick deletes cached blocks only, and looks at every one. *)
LEMMA AdvanceFacts ==
  ASSUME NEW p, NEW B, PoolSound(p, B)
  PROVE  PoolSound(AdvanceTick(p), B)
<1> DEFINE n == Len(p.free)
           free == [k \in DOMAIN p.free |-> [p.free[k] EXCEPT !.age = @ + 1]]
           older == Pool(free, p.live)
           base == [at |-> 1, pool |-> older]
           q == <<B, n>>
<1>0. /\ PoolOK(p) /\ p.free \in Seq(Cached) /\ n \in Nat /\ DOMAIN p.free = 1 .. n
      /\ \A k \in DOMAIN p.free : p.free[k] \in Cached
      /\ p.live \in SUBSET Block
  BY PoolTypes DEF PoolSound
<1>1. \A k \in DOMAIN p.free : /\ [p.free[k] EXCEPT !.age = @ + 1] \in Cached
                               /\ [p.free[k] EXCEPT !.age = @ + 1].block = p.free[k].block
  <2>1. \A x \in Cached : [x EXCEPT !.age = @ + 1] \in Cached /\ [x EXCEPT !.age = @ + 1].block = x.block
    BY DEF Cached
  <2> QED
    BY <1>0, <2>1
<1>2. /\ free \in Seq(Cached) /\ Len(free) = n /\ DOMAIN free = DOMAIN p.free
      /\ \A k \in DOMAIN p.free : free[k].block = p.free[k].block
  BY <1>0, <1>1
<1> HIDE DEF free
<1>3. older = Pool(free, p.live) /\ older.free = free /\ older.live = p.live
  BY PoolFacts
<1> HIDE DEF older
<1>4. PoolSound(older, B)
  <2>1. PoolOK(older)
    BY <1>0, <1>2, <1>3 DEF PoolOK
  <2>2. \A c : IsCached(older, c) <=> IsCached(p, c)
    BY <1>2, <1>3 DEF IsCached
  <2> QED
    BY <1>2, <1>3, <2>1, <2>2 DEF PoolSound
<1>5. q[1] = B /\ q[2] = n /\ base.at = 1 /\ base.pool = older
  OBVIOUS
<1> HIDE DEF n, base, q
<1>6. Swept(q, {}, base)
  <2>1. Cardinality({}) = 0
    BY FS_EmptySet
  <2>2. Len(base.pool.free) = n
    BY <1>2, <1>3, <1>5
  <2>3. 1 \in Nat \ {0} /\ n <= n /\ (1 - 1) + (n - n) = 0
    BY <1>0
  <2> QED
    BY <1>4, <1>5, <2>1, <2>2, <2>3 DEF Swept
<1>7. ASSUME NEW T \in SUBSET (1 .. n), NEW s, T # {}, Swept(q, T \ {Latest(T)}, s)
      PROVE  Swept(q, T, Sweep(q, Latest(T), s))
  <2> DEFINE at == s.at
             m == Len(s.pool.free)
             c == Cardinality(T)
  <2>1. PoolSound(s.pool, B) /\ at \in Nat \ {0} /\ m <= n
    BY <1>5, <1>7 DEF Swept
  <2>2. m \in Nat /\ DOMAIN s.pool.free = 1 .. m
    <3>1. PoolOK(s.pool)
      BY <2>1 DEF PoolSound
    <3> QED
      BY <3>1, PoolTypes
  <2>3. c \in Nat \ {0} /\ c <= n /\ (at - 1) + (n - m) = c - 1
    <3>1. c \in Nat \ {0} /\ c <= n /\ Cardinality(T \ {Latest(T)}) = c - 1
      BY <1>0, <1>7, Earlier
    <3>2. (at - 1) + (n - m) = Cardinality(T \ {Latest(T)})
      BY <1>5, <1>7 DEF Swept
    <3> QED
      BY <3>1, <3>2
  <2> DEFINE swept == Pool(SwapPop(s.pool.free, at), s.pool.live \ {s.pool.free[at].block})
  <2>4. at \in DOMAIN s.pool.free
    <3> HIDE DEF at, m, c
    <3> QED
      BY <1>0, <2>1, <2>2, <2>3
  <2>5. PoolSound(swept, B) /\ Len(swept.free) = m - 1
    BY <2>1, <2>4, SwapPopFacts
  <2> HIDE DEF swept
  <2>6. CASE s.pool.free[at].age <= AgeThreshold
    <3> DEFINE r == [at |-> at + 1, pool |-> s.pool]
    <3>1. Sweep(q, Latest(T), s) = r
      BY <2>6 DEF Sweep, SweepStep
    <3>2. r.at = at + 1 /\ r.pool = s.pool
      OBVIOUS
    <3> HIDE DEF r
    <3>3. at + 1 \in Nat \ {0} /\ ((at + 1) - 1) + (n - m) = c
      <4> HIDE DEF at, m, c
      <4> QED
        BY <1>0, <2>1, <2>2, <2>3
    <3>4. PoolSound(r.pool, q[1]) /\ Len(r.pool.free) <= q[2]
      BY <1>5, <2>1, <3>2
    <3>5. r.at \in Nat \ {0} /\ (r.at - 1) + (q[2] - Len(r.pool.free)) = Cardinality(T)
      BY <1>5, <3>2, <3>3
    <3> QED
      BY <3>1, <3>4, <3>5 DEF Swept
  <2>7. CASE ~(s.pool.free[at].age <= AgeThreshold)
    <3> DEFINE r == [at |-> at, pool |-> swept]
    <3>1. Sweep(q, Latest(T), s) = r
      BY <2>7 DEF Sweep, SweepStep, swept
    <3>2. r.at = at /\ r.pool = swept
      OBVIOUS
    <3> HIDE DEF r
    <3>3. m - 1 <= n /\ (at - 1) + (n - (m - 1)) = c
      <4> HIDE DEF at, m, c
      <4> QED
        BY <1>0, <2>1, <2>2, <2>3
    <3>4. PoolSound(r.pool, q[1]) /\ Len(r.pool.free) <= q[2]
      BY <1>5, <2>5, <3>2, <3>3
    <3>5. r.at \in Nat \ {0} /\ (r.at - 1) + (q[2] - Len(r.pool.free)) = Cardinality(T)
      BY <1>5, <2>1, <2>5, <3>2, <3>3
    <3> QED
      BY <3>1, <3>4, <3>5 DEF Swept
  <2> QED
    BY <2>6, <2>7
<1>8. Sweeping!Picks(1 .. n)
  BY <1>0, InOrder DEF Sweeping!Picks, Sweeping!Measures
<1>9. Swept(q, 1 .. n, Sweeping!Folded(q, base, 1 .. n))
  BY <1>6, <1>7, <1>8, Sweeping!FoldInvariant
<1>10. AdvanceTick(p) = Sweeping!Folded(q, base, DOMAIN p.free).pool
  BY DEF AdvanceTick, FoldLeft, MapThenFoldSet, Sweeping!Folded, Sweeping!Iterated, Sweeping!FoldRule,
         Sweep, Latest, base, older, free
<1> QED
  BY <1>0, <1>5, <1>9, <1>10 DEF Swept

(* drain_to_pool releases every chunk of an archetype once. *)
LEMMA DrainFacts ==
  ASSUME NEW pool, NEW B, PoolSound(pool, B), NEW chunks \in Seq(Chunk),
         \A k \in DOMAIN chunks : chunks[k].block \in B,
         \A j, k \in DOMAIN chunks : chunks[j].block = chunks[k].block => j = k
  PROVE  PoolSound(drain_to_pool(pool, chunks), B \ BlocksIn(chunks, DOMAIN chunks))
<1> DEFINE q == <<B, chunks>>
<1>1. q[1] = B /\ q[2] = chunks
  OBVIOUS
<1> HIDE DEF q
<1>2. Len(chunks) \in Nat /\ DOMAIN chunks = 1 .. Len(chunks)
  OBVIOUS
<1> DEFINE n == Len(chunks)
<1>3. ChunksReleased(q, {}, pool)
  <2>1. B \ BlocksIn(chunks, {}) = B
    BY DEF BlocksIn
  <2> QED
    BY <1>1, <2>1 DEF ChunksReleased
<1>4. ASSUME NEW T \in SUBSET (1 .. n), NEW v, T # {}, ChunksReleased(q, T \ {Latest(T)}, v)
      PROVE  ChunksReleased(q, T, ReleaseChunk(q, Latest(T), v))
  <2> DEFINE l == Latest(T)
             b == chunks[l].block
             C == B \ BlocksIn(chunks, T \ {l})
  <2>1. l \in T /\ l \in DOMAIN chunks
    BY <1>2, <1>4, Earlier
  <2>2. PoolSound(v, C)
    BY <1>1, <1>4 DEF ChunksReleased
  <2>3. T \subseteq DOMAIN chunks
    BY <1>2
  <2> HIDE DEF l
  <2>4. b \in C
    BY <2>1, <2>3 DEF BlocksIn
  <2>5. C \ {b} = B \ BlocksIn(chunks, T)
    <3>1. b \in Block
      <4>1. chunks[l] \in Chunk
        BY <2>1
      <4> QED
        BY <4>1 DEF Chunk
    <3> QED
      BY <2>1, <2>3, <3>1 DEF BlocksIn
  <2> HIDE DEF C, b
  <2>6. PoolSound(Release(v, b), C \ {b})
    BY <2>2, <2>4, ReleaseFacts
  <2>7. ReleaseChunk(q, l, v) = Release(v, b)
    BY <1>1 DEF ReleaseChunk, b
  <2> QED
    BY <1>1, <2>5, <2>6, <2>7 DEF ChunksReleased, l
<1>5. Releasing!Picks(1 .. n)
  BY <1>2, InOrder DEF Releasing!Picks, Releasing!Measures
<1>6. ChunksReleased(q, 1 .. n, Releasing!Folded(q, pool, 1 .. n))
  BY <1>3, <1>4, <1>5, Releasing!FoldInvariant
<1>7. drain_to_pool(pool, chunks) = Releasing!Folded(q, pool, DOMAIN chunks)
  BY <1>1 DEF drain_to_pool, FoldLeft, MapThenFoldSet, Releasing!Folded, Releasing!Iterated, Releasing!FoldRule,
              ReleaseChunk, Latest
<1> QED
  BY <1>1, <1>2, <1>6, <1>7 DEF ChunksReleased

(* ~World gives every block of every archetype back, and then deletes all. *)
LEMMA DrainedFacts ==
  ASSUME NEW s, PoolSound(s.pool, Used(s.archs, DOMAIN s.archs)), UsedOnce(s.archs),
         Len(s.archs) \in Nat, DOMAIN s.archs = 1 .. Len(s.archs),
         \A a \in DOMAIN s.archs : s.archs[a].chunks \in Seq(Chunk)
  PROVE  Drained(s) = NewStore(EmptyPool)
<1> DEFINE A == s.archs
           n == Len(A)
           drained == FoldLeft(LAMBDA pool, a : drain_to_pool(pool, a.chunks), s.pool, A)
<1>0. n \in Nat /\ DOMAIN A = 1 .. n /\ UsedOnce(A) /\ PoolSound(s.pool, Used(A, DOMAIN A))
  OBVIOUS
<1>1. \A a \in DOMAIN A : /\ A[a].chunks \in Seq(Chunk)
                          /\ \A k \in DOMAIN A[a].chunks : A[a].chunks[k].block \in Block
  <2> TAKE a \in DOMAIN A
  <2>1. A[a].chunks \in Seq(Chunk)
    OBVIOUS
  <2>2. \A k \in DOMAIN A[a].chunks : A[a].chunks[k] \in Chunk
    BY <2>1
  <2> QED
    BY <2>1, <2>2 DEF Chunk
<1> HIDE DEF A
<1>2. ArchetypesDrained(A, {}, s.pool)
  BY <1>0 DEF ArchetypesDrained
<1>3. ASSUME NEW T \in SUBSET (1 .. n), NEW v, T # {}, ArchetypesDrained(A, T \ {Latest(T)}, v)
      PROVE  ArchetypesDrained(A, T, DrainArchetype(A, Latest(T), v))
  <2> DEFINE l == Latest(T)
             chunks == A[l].chunks
             B == Used(A, DOMAIN A \ (T \ {l}))
             C == BlocksIn(chunks, DOMAIN chunks)
  <2>1. l \in T /\ l \in DOMAIN A
    BY <1>0, <1>3, Earlier
  <2>2. PoolSound(v, B)
    BY <1>3 DEF ArchetypesDrained
  <2> HIDE DEF l
  <2>3. chunks \in Seq(Chunk)
    BY <1>1, <2>1
  <2>4. \A k \in DOMAIN chunks : chunks[k].block \in B
    BY <1>1, <2>1 DEF Used
  <2>5. \A j, k \in DOMAIN chunks : chunks[j].block = chunks[k].block => j = k
    BY <1>0, <2>1 DEF UsedOnce
  <2>6. PoolSound(drain_to_pool(v, chunks), B \ C)
    <3> HIDE DEF chunks, B
    <3> QED
      BY <2>2, <2>3, <2>4, <2>5, DrainFacts
  <2>7. B \ C = Used(A, DOMAIN A \ T)
    <3>1. ASSUME NEW b \in Block PROVE b \in B \ C <=> b \in Used(A, DOMAIN A \ T)
      <4>1. ASSUME b \in B, b \notin C PROVE b \in Used(A, DOMAIN A \ T)
        <5>1. PICK a \in DOMAIN A \ (T \ {l}) : \E k \in DOMAIN A[a].chunks : A[a].chunks[k].block = b
          BY <4>1 DEF Used
        <5>2. a # l
          BY <4>1, <5>1 DEF BlocksIn
        <5> QED
          BY <5>1, <5>2 DEF Used
      <4>2. ASSUME b \in Used(A, DOMAIN A \ T) PROVE b \in B /\ b \notin C
        <5>1. PICK a \in DOMAIN A \ T : \E k \in DOMAIN A[a].chunks : A[a].chunks[k].block = b
          BY <4>2 DEF Used
        <5>2. a # l
          BY <2>1
        <5>3. b \in B
          BY <5>1 DEF Used
        <5>4. \A j \in DOMAIN chunks : chunks[j].block # b
          BY <1>0, <2>1, <5>1, <5>2 DEF UsedOnce
        <5> QED
          BY <5>3, <5>4 DEF BlocksIn
      <4> QED
        BY <4>1, <4>2
    <3>2. B \subseteq Block /\ Used(A, DOMAIN A \ T) \subseteq Block
      BY DEF Used
    <3> HIDE DEF B, C
    <3> QED
      BY <3>1, <3>2
  <2> QED
    BY <2>6, <2>7 DEF ArchetypesDrained, DrainArchetype, l
<1>4. Draining!Picks(1 .. n)
  BY <1>0, InOrder DEF Draining!Picks, Draining!Measures
<1>5. ArchetypesDrained(A, 1 .. n, Draining!Folded(A, s.pool, 1 .. n))
  BY <1>2, <1>3, <1>4, Draining!FoldInvariant
<1>6. drained = Draining!Folded(A, s.pool, DOMAIN A)
  BY DEF FoldLeft, MapThenFoldSet, Draining!Folded, Draining!Iterated, Draining!FoldRule, DrainArchetype, Latest
<1>7. PoolSound(drained, {})
  <2>1. PoolSound(drained, Used(A, DOMAIN A \ (1 .. n)))
    BY <1>0, <1>5, <1>6 DEF ArchetypesDrained
  <2>2. DOMAIN A \ (1 .. n) = {}
    BY <1>0
  <2>3. Used(A, {}) = {}
    BY DEF Used
  <2> QED
    BY <2>1, <2>2, <2>3
<1>8. Drained(s) = NewStore(DestroyPool(drained))
  BY DEF Drained, A
<1> HIDE DEF drained
<1>9. drained.live \ {drained.free[k].block : k \in DOMAIN drained.free} = {}
  BY <1>7 DEF PoolSound, IsCached
<1> QED
  BY <1>8, <1>9 DEF DestroyPool, EmptyPool

----------------------------------------------------------------------------
(* A sound store. *)

Location == [arch : Nat, chunk : Nat, row : Nat]
Signature == (SUBSET Component) \ {{}}
Archetype == [sig : Signature, version : Nat, chunks : Seq(Chunk)]

Capacity(A, a) == Layout[A[a].sig].capacity

(* Rows of an archetype hold a value for each of its columns. *)
Fitting(C, sig) == \A k, r : Has(C, k, r) => C[k].rows[r].values \in [Columns(sig) -> Marks]

ArchetypesOK(A) ==
  /\ A \in Seq(Archetype)
  /\ \A a \in DOMAIN A : Packed(A[a].chunks, Capacity(A, a)) /\ Fitting(A[a].chunks, A[a].sig)
  /\ \A a, b \in DOMAIN A : A[a].sig = A[b].sig => a = b

RowIn(A, l) == l.arch \in DOMAIN A /\ Has(A[l.arch].chunks, l.chunk, l.row)
RowOf(A, l) == A[l.arch].chunks[l.chunk].rows[l.row]

(* The part of the store the rows, their archetypes and the pool make up. *)
StoreOK(s) ==
  /\ s = Store(s.archs, s.place, s.pool, s.epoch, s.cache)
  /\ ArchetypesOK(s.archs)
  /\ s.place \in [Index -> Location]
  /\ PoolSound(s.pool, Used(s.archs, DOMAIN s.archs))
  /\ UsedOnce(s.archs)

(* Archetype a, and it alone, has other chunks or another version. *)
OnlyIn(A, B, a, D, v) ==
  /\ Len(B) = Len(A) /\ DOMAIN B = DOMAIN A
  /\ \A b \in DOMAIN A : b # a => B[b] = A[b]
  /\ B[a].sig = A[a].sig /\ B[a].version = v /\ B[a].chunks = D

(* The parts of a store, and a store with one part replaced. *)
LEMMA StoreFacts ==
  ASSUME NEW A, NEW place, NEW pool, NEW epoch, NEW cache
  PROVE  LET s == Store(A, place, pool, epoch, cache)
         IN  /\ s.archs = A /\ s.place = place /\ s.pool = pool /\ s.epoch = epoch /\ s.cache = cache
             /\ s = Store(s.archs, s.place, s.pool, s.epoch, s.cache)
             /\ \A B : [s EXCEPT !.archs = B] = Store(B, place, pool, epoch, cache)
             /\ \A p : [s EXCEPT !.pool = p] = Store(A, place, p, epoch, cache)
             /\ \A p : [s EXCEPT !.place = p] = Store(A, p, pool, epoch, cache)
BY DEF Store

(* What is used of the list of archetypes throughout. *)
LEMMA ArchetypeFacts ==
  ASSUME NEW A, ArchetypesOK(A)
  PROVE  /\ A \in Seq(Archetype) /\ Len(A) \in Nat /\ DOMAIN A = 1 .. Len(A)
         /\ \A a \in DOMAIN A :
              /\ A[a] \in Archetype /\ A[a].sig \in Signature /\ A[a].version \in Nat
              /\ A[a].chunks \in Seq(Chunk)
              /\ A[a] = [sig |-> A[a].sig, version |-> A[a].version, chunks |-> A[a].chunks]
              /\ Capacity(A, a) \in Nat \ {0}
              /\ Packed(A[a].chunks, Capacity(A, a))
              /\ Fitting(A[a].chunks, A[a].sig)
              /\ \A k \in DOMAIN A[a].chunks : A[a].chunks[k].block \in Block
<1>1. A \in Seq(Archetype) /\ Len(A) \in Nat /\ DOMAIN A = 1 .. Len(A)
  BY DEF ArchetypesOK
<1>2. ASSUME NEW a \in DOMAIN A
      PROVE  /\ A[a] \in Archetype /\ A[a].sig \in Signature /\ A[a].version \in Nat
             /\ A[a].chunks \in Seq(Chunk)
             /\ A[a] = [sig |-> A[a].sig, version |-> A[a].version, chunks |-> A[a].chunks]
             /\ Capacity(A, a) \in Nat \ {0}
             /\ Packed(A[a].chunks, Capacity(A, a))
             /\ Fitting(A[a].chunks, A[a].sig)
             /\ \A k \in DOMAIN A[a].chunks : A[a].chunks[k].block \in Block
  <2>1. A[a] \in Archetype
    BY <1>1
  <2>2. /\ A[a].sig \in Signature /\ A[a].version \in Nat /\ A[a].chunks \in Seq(Chunk)
        /\ A[a] = [sig |-> A[a].sig, version |-> A[a].version, chunks |-> A[a].chunks]
    BY <2>1 DEF Archetype
  <2>3. Capacity(A, a) \in Nat \ {0}
    BY <2>2, CapacityFacts DEF Capacity, Signature
  <2>4. Packed(A[a].chunks, Capacity(A, a)) /\ Fitting(A[a].chunks, A[a].sig)
    BY DEF ArchetypesOK
  <2>5. \A k \in DOMAIN A[a].chunks : A[a].chunks[k].block \in Block
    BY <2>3, <2>4, ChunkFacts
  <2> QED
    BY <2>1, <2>2, <2>3, <2>4, <2>5
<1> QED
  BY <1>1, <1>2

(* One archetype changes: what the others are made of is not touched. *)
LEMMA ChangeOne ==
  ASSUME NEW A, ArchetypesOK(A), NEW a \in DOMAIN A, NEW D, NEW v \in Nat,
         Packed(D, Capacity(A, a)), Fitting(D, A[a].sig)
  PROVE  LET B == [A EXCEPT ![a] = [sig |-> A[a].sig, version |-> v, chunks |-> D]]
         IN  ArchetypesOK(B) /\ OnlyIn(A, B, a, D, v)
<1> DEFINE c == [sig |-> A[a].sig, version |-> v, chunks |-> D]
           B == [A EXCEPT ![a] = c]
<1>0. A \in Seq(Archetype) /\ Len(A) \in Nat /\ DOMAIN A = 1 .. Len(A) /\ A[a].sig \in Signature
  BY ArchetypeFacts
<1>1. D \in Seq(Chunk)
  BY DEF Packed
<1>2. c \in Archetype /\ c.sig = A[a].sig /\ c.version = v /\ c.chunks = D
  BY <1>0, <1>1 DEF Archetype
<1> HIDE DEF c
<1>3. /\ B \in Seq(Archetype) /\ Len(B) = Len(A) /\ DOMAIN B = DOMAIN A /\ B[a] = c
      /\ \A b \in DOMAIN A : b # a => B[b] = A[b]
  BY <1>0, <1>2
<1> HIDE DEF B
<1>4. OnlyIn(A, B, a, D, v)
  BY <1>2, <1>3 DEF OnlyIn
<1>5. \A b \in DOMAIN A : B[b].sig = A[b].sig
  BY <1>2, <1>3
<1>6. ASSUME NEW b \in DOMAIN B
      PROVE  Packed(B[b].chunks, Capacity(B, b)) /\ Fitting(B[b].chunks, B[b].sig)
  <2>1. Capacity(B, b) = Capacity(A, b)
    BY <1>3, <1>5 DEF Capacity
  <2>2. CASE b = a
    BY <1>2, <1>3, <2>1, <2>2
  <2>3. CASE b # a
    BY <1>3, <2>1, <2>3 DEF ArchetypesOK
  <2> QED
    BY <2>2, <2>3
<1>7. \A b, d \in DOMAIN B : B[b].sig = B[d].sig => b = d
  BY <1>3, <1>5 DEF ArchetypesOK
<1>8. ArchetypesOK(B)
  BY <1>3, <1>6, <1>7 DEF ArchetypesOK
<1> QED
  BY <1>4, <1>8 DEF B, c

(* The blocks in use after archetype a changed its chunks. *)
LEMMA UsedAfter ==
  ASSUME NEW A, ArchetypesOK(A), UsedOnce(A), NEW a \in DOMAIN A, NEW B, NEW D, NEW v,
         OnlyIn(A, B, a, D, v), NEW E \in SUBSET Block,
         \A k \in DOMAIN D : D[k].block \in E \/ (k \in DOMAIN A[a].chunks /\ D[k].block = A[a].chunks[k].block),
         \A j, k \in DOMAIN D : D[j].block = D[k].block => j = k,
         E \cap Used(A, DOMAIN A) = {}
  PROVE  UsedOnce(B)
<1>1. ASSUME NEW b \in DOMAIN B, NEW d \in DOMAIN B,
             NEW j \in DOMAIN B[b].chunks, NEW k \in DOMAIN B[d].chunks,
             B[b].chunks[j].block = B[d].chunks[k].block
      PROVE  b = d /\ j = k
  <2>1. DOMAIN B = DOMAIN A /\ B[a].chunks = D /\ \A x \in DOMAIN A : x # a => B[x] = A[x]
    BY DEF OnlyIn
  <2>2. \A x \in DOMAIN A : \A i \in DOMAIN A[x].chunks : A[x].chunks[i].block \in Used(A, DOMAIN A)
    BY ArchetypeFacts DEF Used
  <2>3. CASE b = a /\ d = a
    BY <1>1, <2>1, <2>3
  <2>4. CASE b = a /\ d # a
    <3>1. /\ j \in DOMAIN D /\ d \in DOMAIN A /\ k \in DOMAIN A[d].chunks
          /\ D[j].block = A[d].chunks[k].block
      BY <1>1, <2>1, <2>4
    <3>2. D[j].block \notin E
      BY <2>2, <3>1
    <3> QED
      BY <2>4, <3>1, <3>2 DEF UsedOnce
  <2>5. CASE b # a /\ d = a
    <3>1. /\ k \in DOMAIN D /\ b \in DOMAIN A /\ j \in DOMAIN A[b].chunks
          /\ D[k].block = A[b].chunks[j].block
      BY <1>1, <2>1, <2>5
    <3>2. D[k].block \notin E
      BY <2>2, <3>1
    <3> QED
      BY <2>5, <3>1, <3>2 DEF UsedOnce
  <2>6. CASE b # a /\ d # a
    BY <1>1, <2>1, <2>6 DEF UsedOnce
  <2> QED
    BY <2>3, <2>4, <2>5, <2>6
<1> QED
  BY <1>1 DEF UsedOnce

(* The same blocks, one more, or one fewer. *)
LEMMA BlocksAfter ==
  ASSUME NEW A, ArchetypesOK(A), UsedOnce(A), NEW a \in DOMAIN A, NEW B, NEW D \in Seq(Chunk), NEW v,
         OnlyIn(A, B, a, D, v), SameBlocks(A[a].chunks, D)
  PROVE  LET n == Len(A[a].chunks)
             all == Used(A, DOMAIN A)
             new == Used(B, DOMAIN B)
         IN  /\ Len(D) = n => UsedOnce(B) /\ new = all
             /\ Len(D) = n + 1 /\ D[n + 1].block \notin all => UsedOnce(B) /\ new = all \cup {D[n + 1].block}
             /\ n # 0 /\ Len(D) = n - 1 =>
                  UsedOnce(B) /\ new = all \ {A[a].chunks[n].block} /\ A[a].chunks[n].block \in all
<1> DEFINE C == A[a].chunks
           n == Len(C)
           all == Used(A, DOMAIN A)
           new == Used(B, DOMAIN B)
<1>0. /\ C \in Seq(Chunk) /\ n \in Nat /\ DOMAIN C = 1 .. n /\ DOMAIN D = 1 .. Len(D) /\ Len(D) \in Nat
  BY ArchetypeFacts
<1>1. DOMAIN B = DOMAIN A /\ B[a].chunks = D /\ \A x \in DOMAIN A : x # a => B[x] = A[x]
  BY DEF OnlyIn
<1>2. /\ \A k \in DOMAIN C : C[k].block \in Block
      /\ \A k \in DOMAIN D : D[k].block \in Block
  <2>1. \A k \in DOMAIN C : C[k] \in Chunk
    BY <1>0
  <2>2. \A k \in DOMAIN D : D[k] \in Chunk
    OBVIOUS
  <2> QED
    BY <2>1, <2>2 DEF Chunk
<1>3. \A j, k \in DOMAIN C : C[j].block = C[k].block => j = k
  BY DEF UsedOnce
<1>4. \A k \in DOMAIN C \cap DOMAIN D : D[k].block = C[k].block
  BY DEF SameBlocks
<1>5. \A b \in Block : b \in all <=> \E x \in DOMAIN A : \E k \in DOMAIN A[x].chunks : A[x].chunks[k].block = b
  BY DEF Used
<1>6. \A b \in Block : b \in new <=> \E x \in DOMAIN B : \E k \in DOMAIN B[x].chunks : B[x].chunks[k].block = b
  BY DEF Used
<1>7. \A k \in DOMAIN C : C[k].block \in all
  BY <1>2, <1>5
<1>8. all \subseteq Block /\ new \subseteq Block
  BY DEF Used
<1> HIDE DEF C, all, new
<1>9. ASSUME NEW b \in Block, \A k \in DOMAIN C : C[k].block # b, \A k \in DOMAIN D : D[k].block # b
      PROVE  b \in new <=> b \in all
  BY <1>1, <1>5, <1>6, <1>9 DEF C
<1>10. \A k \in DOMAIN D : D[k].block \in new
  BY <1>1, <1>2, <1>6
<1>11. ASSUME Len(D) = n PROVE UsedOnce(B) /\ new = all
  <2>1. DOMAIN D = DOMAIN C /\ \A k \in DOMAIN D : D[k].block = C[k].block
    BY <1>0, <1>4, <1>11
  <2>2. \A b \in Block : b \in new <=> b \in all
    BY <1>7, <1>9, <1>10, <2>1
  <2>3. \A j, k \in DOMAIN D : D[j].block = D[k].block => j = k
    BY <1>3, <2>1
  <2> DEFINE none == {}
  <2>4. none \in SUBSET Block /\ none \cap Used(A, DOMAIN A) = {}
    OBVIOUS
  <2>5. \A k \in DOMAIN D : D[k].block \in none \/ (k \in DOMAIN A[a].chunks /\ D[k].block = A[a].chunks[k].block)
    BY <2>1 DEF C
  <2> HIDE DEF none, n
  <2>6. UsedOnce(B)
    BY <2>3, <2>4, <2>5, UsedAfter
  <2> QED
    BY <1>8, <2>2, <2>6
<1>12. ASSUME Len(D) = n + 1, D[n + 1].block \notin all
       PROVE  UsedOnce(B) /\ new = all \cup {D[n + 1].block}
  <2> DEFINE b == D[n + 1].block
             m == n + 1
  <2>1. /\ m \in DOMAIN D /\ \A k \in DOMAIN D : k = m \/ (k \in DOMAIN C /\ D[k].block = C[k].block)
        /\ \A k \in DOMAIN C : k \in DOMAIN D /\ k # m /\ D[k].block = C[k].block
    <3>1. DOMAIN D = 1 .. m /\ DOMAIN C = 1 .. n /\ n \in Nat
      BY <1>0, <1>12
    <3>2. m \in DOMAIN D /\ \A k \in DOMAIN D : k = m \/ k \in DOMAIN C
      BY <3>1
    <3>3. \A k \in DOMAIN C : k \in DOMAIN D /\ k # m
      BY <3>1
    <3> QED
      BY <1>4, <3>2, <3>3
  <2>2. b \in Block /\ b \notin all /\ D[m].block = b
    BY <1>2, <1>12, <2>1
  <2> HIDE DEF b, m
  <2>3. \A c \in Block : c \in new <=> c \in all \/ c = b
    BY <1>7, <1>9, <1>10, <2>1, <2>2
  <2>4. \A j, k \in DOMAIN D : D[j].block = D[k].block => j = k
    BY <1>3, <1>7, <2>1, <2>2
  <2> DEFINE one == {b}
  <2>5. one \in SUBSET Block /\ one \cap Used(A, DOMAIN A) = {}
    BY <2>2 DEF all
  <2>6. \A k \in DOMAIN D : D[k].block \in one \/ (k \in DOMAIN A[a].chunks /\ D[k].block = A[a].chunks[k].block)
    BY <2>1, <2>2 DEF C
  <2> HIDE DEF one, n
  <2>7. UsedOnce(B)
    BY <2>4, <2>5, <2>6, UsedAfter
  <2>8. new = all \cup {b}
    BY <1>8, <2>2, <2>3
  <2> QED
    BY <2>7, <2>8 DEF b, m
<1>13. ASSUME n # 0, Len(D) = n - 1
       PROVE  UsedOnce(B) /\ new = all \ {C[n].block} /\ C[n].block \in all
  <2> DEFINE b == C[n].block
  <2>1. /\ n \in DOMAIN C /\ \A k \in DOMAIN D : k \in DOMAIN C /\ k # n /\ D[k].block = C[k].block
        /\ \A k \in DOMAIN C : k # n => k \in DOMAIN D /\ D[k].block = C[k].block
    <3>1. DOMAIN D = 1 .. n - 1 /\ DOMAIN C = 1 .. n /\ n \in Nat /\ n # 0
      BY <1>0, <1>13
    <3>2. n \in DOMAIN C /\ \A k \in DOMAIN D : k \in DOMAIN C /\ k # n
      BY <3>1
    <3>3. \A k \in DOMAIN C : k # n => k \in DOMAIN D
      BY <3>1
    <3> QED
      BY <1>4, <3>2, <3>3
  <2>2. b \in all /\ b \in Block /\ C[n].block = b
    BY <1>2, <1>7, <2>1
  <2>3. \A k \in DOMAIN D : D[k].block # b
    BY <1>3, <2>1
  <2> HIDE DEF b, n
  <2>4. b \notin new
    <3> SUFFICES ASSUME NEW x \in DOMAIN B, NEW k \in DOMAIN B[x].chunks, B[x].chunks[k].block = b
                 PROVE  FALSE
      BY <1>6, <2>2
    <3>1. x # a
      BY <1>1, <2>3
    <3>2. x \in DOMAIN A /\ k \in DOMAIN A[x].chunks /\ A[x].chunks[k].block = A[a].chunks[n].block /\ n \in DOMAIN A[a].chunks
      BY <1>1, <2>1, <2>2, <3>1 DEF C
    <3> QED
      BY <3>1, <3>2 DEF UsedOnce
  <2>5. \A c \in Block : c # b => (c \in new <=> c \in all)
    <3> TAKE c \in Block
    <3> HAVE c # b
    <3>1. CASE \E k \in DOMAIN C : C[k].block = c
      BY <1>7, <1>10, <2>1, <2>2, <3>1
    <3>2. CASE \A k \in DOMAIN C : C[k].block # c
      BY <1>9, <2>1, <3>2
    <3> QED
      BY <3>1, <3>2
  <2>6. \A j, k \in DOMAIN D : D[j].block = D[k].block => j = k
    BY <1>3, <2>1
  <2> DEFINE none == {}
  <2>7. none \in SUBSET Block /\ none \cap Used(A, DOMAIN A) = {}
    OBVIOUS
  <2>10. \A k \in DOMAIN D : D[k].block \in none \/ (k \in DOMAIN A[a].chunks /\ D[k].block = A[a].chunks[k].block)
    BY <2>1 DEF C
  <2> HIDE DEF none
  <2>8. UsedOnce(B)
    BY <2>6, <2>7, <2>10, UsedAfter
  <2>9. new = all \ {b}
    BY <1>8, <2>4, <2>5
  <2> QED
    BY <2>2, <2>8, <2>9 DEF b
<1> QED
  BY <1>11, <1>12, <1>13 DEF C, all, new

----------------------------------------------------------------------------
(* One archetype changes. *)

(* The store with the chunks and version of one archetype replaced. *)
With(A, a, D, v) == [A EXCEPT ![a] = [sig |-> A[a].sig, version |-> v, chunks |-> D]]

(* A store with one or two parts replaced. *)
LEMMA StoreUpdates ==
  ASSUME NEW s, s = Store(s.archs, s.place, s.pool, s.epoch, s.cache), NEW A, NEW P, NEW q
  PROVE  /\ [s EXCEPT !.archs = A] = Store(A, s.place, s.pool, s.epoch, s.cache)
         /\ [s EXCEPT !.place = P] = Store(s.archs, P, s.pool, s.epoch, s.cache)
         /\ [s EXCEPT !.pool = q] = Store(s.archs, s.place, q, s.epoch, s.cache)
         /\ [s EXCEPT !.archs = A, !.place = P] = Store(A, P, s.pool, s.epoch, s.cache)
         /\ [s EXCEPT !.archs = A, !.pool = q] = Store(A, s.place, q, s.epoch, s.cache)
<1> DEFINE x1 == s.archs
           x2 == s.place
           x3 == s.pool
           x4 == s.epoch
           x5 == s.cache
           t == Store(x1, x2, x3, x4, x5)
<1>1. s = t
  OBVIOUS
<1> HIDE DEF x1, x2, x3, x4, x5
<1>2. /\ [t EXCEPT !.archs = A] = Store(A, x2, x3, x4, x5)
      /\ [t EXCEPT !.place = P] = Store(x1, P, x3, x4, x5)
      /\ [t EXCEPT !.pool = q] = Store(x1, x2, q, x4, x5)
  BY DEF Store
<1> DEFINE u == Store(A, x2, x3, x4, x5)
<1>3. [t EXCEPT !.archs = A, !.place = P] = Store(A, P, x3, x4, x5)
  <2>1. [t EXCEPT !.archs = A, !.place = P] = [[t EXCEPT !.archs = A] EXCEPT !.place = P]
    OBVIOUS
  <2>2. [u EXCEPT !.place = P] = Store(A, P, x3, x4, x5)
    BY DEF Store
  <2> QED
    BY <1>2, <2>1, <2>2
<1>4. [t EXCEPT !.archs = A, !.pool = q] = Store(A, x2, q, x4, x5)
  <2>1. [t EXCEPT !.archs = A, !.pool = q] = [[t EXCEPT !.archs = A] EXCEPT !.pool = q]
    OBVIOUS
  <2>2. [u EXCEPT !.pool = q] = Store(A, x2, q, x4, x5)
    BY DEF Store
  <2> QED
    BY <1>2, <2>1, <2>2
<1> QED
  BY <1>1, <1>2, <1>3, <1>4 DEF x1, x2, x3, x4, x5

(* An archetype with its chunks or its version replaced. *)
LEMMA WithChunks ==
  ASSUME NEW A, ArchetypesOK(A), NEW a \in DOMAIN A
  PROVE  /\ \A D : [A EXCEPT ![a].chunks = D] = With(A, a, D, A[a].version)
         /\ \A v : [A EXCEPT ![a].version = v] = With(A, a, A[a].chunks, v)
<1>1. A[a] = [sig |-> A[a].sig, version |-> A[a].version, chunks |-> A[a].chunks]
  BY ArchetypeFacts
<1> DEFINE c == A[a]
<1>2. \A D : [c EXCEPT !.chunks = D] = [sig |-> c.sig, version |-> c.version, chunks |-> D]
  BY <1>1
<1>3. \A v : [c EXCEPT !.version = v] = [sig |-> c.sig, version |-> v, chunks |-> c.chunks]
  BY <1>1
<1> QED
  BY <1>2, <1>3 DEF With

(* To append and then assign the last is to append what was assigned. *)
LEMMA AppendThenSet ==
  ASSUME NEW S, NEW C \in Seq(S), NEW e, NEW f
  PROVE  [Append(C, e) EXCEPT ![Len(C) + 1] = f] = Append(C, f)
<1> DEFINE T == S \cup {e, f}
           n == Len(C)
           X == Append(C, e)
           Y == Append(C, f)
           Z == [X EXCEPT ![n + 1] = f]
<1>1. C \in Seq(T) /\ e \in T /\ f \in T /\ n \in Nat
  BY SeqMonotonic
<1> HIDE DEF T
<1>2. /\ X \in Seq(T) /\ Len(X) = n + 1 /\ \A i \in 1 .. n : X[i] = C[i]
      /\ Y \in Seq(T) /\ Len(Y) = n + 1 /\ Y[n + 1] = f /\ \A i \in 1 .. n : Y[i] = C[i]
  BY <1>1, AppendProperties
<1> HIDE DEF X, Y
<1>3. Z \in Seq(T) /\ Len(Z) = n + 1 /\ Z[n + 1] = f /\ \A i \in 1 .. n : Z[i] = C[i]
  <2>1. DOMAIN X = 1 .. n + 1 /\ n + 1 \in DOMAIN X
    BY <1>1, <1>2
  <2>2. Z \in Seq(T) /\ Len(Z) = n + 1
    BY <1>1, <1>2, <2>1, ExceptSeq
  <2>3. \A i \in 1 .. n : i \in DOMAIN X /\ i # n + 1
    BY <1>1, <2>1
  <2> QED
    BY <1>2, <2>1, <2>2, <2>3
<1>4. \A i \in 1 .. n + 1 : Z[i] = Y[i]
  <2>1. \A i \in 1 .. n + 1 : i = n + 1 \/ i \in 1 .. n
    BY <1>1
  <2> HIDE DEF Z, n
  <2> QED
    BY <1>2, <1>3, <2>1
<1> HIDE DEF Z
<1>5. Z = Y
  BY <1>2, <1>3, <1>4, SeqEqual
<1> QED
  BY <1>5 DEF X, Y, Z, n

(* PutRow when the last chunk has room. *)
LEMMA PutInPlace ==
  ASSUME NEW s, StoreOK(s), NEW a \in DOMAIN s.archs, NEW row, HasRoom(s, a)
  PROVE  LET C == s.archs[a].chunks
             D == [C EXCEPT ![Len(C)].rows = Append(@, row)]
         IN  PutRow(s, a, row) =
               Store(With(s.archs, a, D, s.archs[a].version),
                     [s.place EXCEPT ![row.id.index] = Loc(a, Len(C), Len(C[Len(C)].rows) + 1)],
                     s.pool, s.epoch, s.cache)
<1> DEFINE A == s.archs
           C == s.archs[a].chunks
           k == Len(C)
           D == [C EXCEPT ![k].rows = Append(@, row)]
           i == row.id.index
           l == Loc(a, k, Len(C[k].rows) + 1)
           P == [s.place EXCEPT ![i] = l]
           B == [A EXCEPT ![a].chunks = D]
<1>1. PutRow(s, a, row) = [s EXCEPT !.archs[a].chunks[k].rows = Append(@, row), !.place[i] = l]
  BY DEF PutRow
<1>2. @ = [s EXCEPT !.archs = B, !.place = P]
  OBVIOUS
<1>3. s = Store(A, s.place, s.pool, s.epoch, s.cache) /\ ArchetypesOK(A)
  BY DEF StoreOK
<1>4. B = With(A, a, D, A[a].version)
  BY <1>3, WithChunks
<1> HIDE DEF A, B, P
<1>5. [s EXCEPT !.archs = B, !.place = P] = Store(B, P, s.pool, s.epoch, s.cache)
  BY <1>3, StoreUpdates DEF A
<1> QED
  BY <1>1, <1>2, <1>4, <1>5 DEF A, P

(* PutRow when it takes a block. *)
LEMMA PutInNewChunk ==
  ASSUME NEW s, StoreOK(s), NEW a \in DOMAIN s.archs, NEW row, ~HasRoom(s, a)
  PROVE  LET C == s.archs[a].chunks
             D == Append(C, [block |-> NextBlock(s.pool), rows |-> <<row>>])
         IN  PutRow(s, a, row) =
               Store(With(s.archs, a, D, s.archs[a].version),
                     [s.place EXCEPT ![row.id.index] = Loc(a, Len(C) + 1, 1)],
                     Acquire(s.pool), s.epoch, s.cache)
<1> DEFINE A == s.archs
           C == s.archs[a].chunks
           n == Len(C)
           b == NextBlock(s.pool)
           C1 == Append(C, [block |-> b, rows |-> <<>>])
           D == Append(C, [block |-> b, rows |-> <<row>>])
           i == row.id.index
           t == allocate_chunk(s, a)
           B1 == With(A, a, C1, A[a].version)
           B == With(A, a, D, A[a].version)
<1>1. /\ s = Store(A, s.place, s.pool, s.epoch, s.cache) /\ ArchetypesOK(A)
      /\ C \in Seq(Chunk) /\ n \in Nat /\ a \in DOMAIN A
  BY ArchetypeFacts DEF StoreOK
<1>2. t = Store(B1, s.place, Acquire(s.pool), s.epoch, s.cache)
  <2> DEFINE E == [A EXCEPT ![a].chunks = C1]
             q == Acquire(s.pool)
  <2>1. t = [s EXCEPT !.archs = E, !.pool = q]
    BY DEF allocate_chunk
  <2>2. E = B1
    BY <1>1, WithChunks
  <2> HIDE DEF E, q
  <2>3. [s EXCEPT !.archs = E, !.pool = q] = Store(E, s.place, q, s.epoch, s.cache)
    BY <1>1, StoreUpdates
  <2> QED
    BY <2>1, <2>2, <2>3 DEF q
<1>3. /\ Len(C1) = n + 1 /\ C1[n + 1].rows = <<>> /\ C1[n + 1].block = b
      /\ [C1 EXCEPT ![n + 1].rows = <<row>>] = D
  <2> DEFINE e == [block |-> b, rows |-> <<>>]
             f == [block |-> b, rows |-> <<row>>]
  <2>2. [e EXCEPT !.rows = <<row>>] = f /\ e.rows = <<>> /\ e.block = b
    OBVIOUS
  <2> HIDE DEF e, f
  <2>3. Len(Append(C, e)) = n + 1 /\ Append(C, e)[n + 1] = e
    BY <1>1
  <2>4. [Append(C, e) EXCEPT ![n + 1] = f] = Append(C, f)
    BY <1>1, AppendThenSet
  <2> QED
    BY <2>2, <2>3, <2>4 DEF e, f
<1>4. B1[a].chunks = C1 /\ B1[a].version = A[a].version /\ DOMAIN B1 = DOMAIN A /\ B1[a].sig = A[a].sig
  BY <1>1 DEF With
<1> HIDE DEF t, B1, C1, D
<1>5. t.archs = B1 /\ t.place = s.place /\ t.pool = Acquire(s.pool) /\ t.epoch = s.epoch /\ t.cache = s.cache
      /\ t = Store(t.archs, t.place, t.pool, t.epoch, t.cache)
  <2> DEFINE q == Acquire(s.pool)
  <2>1. t = Store(B1, s.place, q, s.epoch, s.cache)
    BY <1>2
  <2> HIDE DEF q
  <2>2. t.archs = B1 /\ t.place = s.place /\ t.pool = q /\ t.epoch = s.epoch /\ t.cache = s.cache
    <3> DEFINE u == Store(B1, s.place, q, s.epoch, s.cache)
    <3>1. u.archs = B1 /\ u.place = s.place /\ u.pool = q /\ u.epoch = s.epoch /\ u.cache = s.cache
      BY DEF Store
    <3> HIDE DEF u
    <3>2. t = u
      BY <2>1 DEF u
    <3> QED
      BY <3>1, <3>2
  <2> QED
    BY <2>1, <2>2 DEF q
<1> DEFINE k == Len(t.archs[a].chunks)
           l == Loc(a, k, Len(t.archs[a].chunks[k].rows) + 1)
           P == [t.place EXCEPT ![i] = l]
           E == [B1 EXCEPT ![a].chunks = D]
<1>6. PutRow(s, a, row) = [t EXCEPT !.archs[a].chunks[k].rows = Append(@, row), !.place[i] = l]
  BY DEF PutRow, t
<1>7. k = n + 1 /\ t.archs[a].chunks[k].rows = <<>> /\ l = Loc(a, n + 1, 1)
  <2>1. Len(<<>>) + 1 = 1
    BY EmptySeq
  <2> QED
    BY <1>3, <1>4, <1>5, <2>1
<1>8. Append(<<>>, row) = <<row>>
  OBVIOUS
<1>9. [t.archs[a].chunks EXCEPT ![k].rows = Append(@, row)] = D
  BY <1>3, <1>4, <1>5, <1>7, <1>8
<1>10. [t EXCEPT !.archs[a].chunks[k].rows = Append(@, row), !.place[i] = l]
         = [t EXCEPT !.archs = [t.archs EXCEPT ![a].chunks = [t.archs[a].chunks EXCEPT ![k].rows = Append(@, row)]],
                     !.place = P]
  OBVIOUS
<1>11. [t.archs EXCEPT ![a].chunks = [t.archs[a].chunks EXCEPT ![k].rows = Append(@, row)]] = E
  BY <1>5, <1>9
<1>12. E = B
  <2>1. \A c : [[sig |-> A[a].sig, version |-> A[a].version, chunks |-> C1] EXCEPT !.chunks = c]
                 = [sig |-> A[a].sig, version |-> A[a].version, chunks |-> c]
    OBVIOUS
  <2> QED
    BY <1>1, <2>1 DEF B1, With
<1> HIDE DEF E, P, B, l, k
<1>13. [t EXCEPT !.archs = E, !.place = P] = Store(E, P, Acquire(s.pool), s.epoch, s.cache)
  <2>1. t = Store(t.archs, t.place, t.pool, t.epoch, t.cache)
    BY <1>5
  <2>2. [t EXCEPT !.archs = E, !.place = P] = Store(E, P, t.pool, t.epoch, t.cache)
    BY <2>1, StoreUpdates
  <2> QED
    BY <1>5, <2>2
<1>14. P = [s.place EXCEPT ![i] = Loc(a, n + 1, 1)]
  BY <1>5, <1>7 DEF P
<1> QED
  BY <1>6, <1>10, <1>11, <1>12, <1>13, <1>14 DEF B, D

----------------------------------------------------------------------------
(* Putting and taking a row. *)

(* What putting a row into archetype a does to the store. *)
RowPut(s, t, a, row) ==
  /\ StoreOK(t) /\ t.epoch = s.epoch /\ t.cache = s.cache
  /\ \E D : /\ OnlyIn(s.archs, t.archs, a, D, s.archs[a].version)
            /\ Grown(s.archs[a].chunks, D, row, Capacity(s.archs, a))
            /\ t.place = [s.place EXCEPT ![row.id.index] = Loc(a, Len(D), LastRow(D))]

IsRow(row, sig) == row \in RowSet /\ row.values \in [Columns(sig) -> Marks]

(* The parts of a location. *)
LEMMA LocFacts ==
  ASSUME NEW a, NEW c, NEW r
  PROVE  /\ Loc(a, c, r).arch = a /\ Loc(a, c, r).chunk = c /\ Loc(a, c, r).row = r
         /\ a \in Nat /\ c \in Nat /\ r \in Nat => Loc(a, c, r) \in Location
BY DEF Loc, Location

(* A row names an entity, which has a slot. *)
LEMMA RowFacts ==
  ASSUME NEW row \in RowSet
  PROVE  row.id \in EntityID /\ row.id.index \in Index
<1>1. row.id \in EntityID
  BY DEF RowSet
<1> QED
  BY <1>1 DEF EntityID

Made(s, a, D, v, P, pool) == Store(With(s.archs, a, D, v), P, pool, s.epoch, s.cache)

(* A store whose archetype a has other chunks is sound when the parts are. *)
LEMMA MakeStore ==
  ASSUME NEW s, StoreOK(s), NEW a \in DOMAIN s.archs, NEW D, NEW v \in Nat, NEW P, NEW pool,
         Packed(D, Capacity(s.archs, a)), Fitting(D, s.archs[a].sig), P \in [Index -> Location],
         UsedOnce(With(s.archs, a, D, v)),
         PoolSound(pool, Used(With(s.archs, a, D, v), DOMAIN With(s.archs, a, D, v)))
  PROVE  LET t == Made(s, a, D, v, P, pool)
         IN  /\ StoreOK(t) /\ OnlyIn(s.archs, t.archs, a, D, v)
             /\ t.place = P /\ t.pool = pool /\ t.epoch = s.epoch /\ t.cache = s.cache
<1> DEFINE B == With(s.archs, a, D, v)
           t == Store(B, P, pool, s.epoch, s.cache)
<1>1. ArchetypesOK(s.archs)
  BY DEF StoreOK
<1>2. ArchetypesOK(B) /\ OnlyIn(s.archs, B, a, D, v)
  BY <1>1, ChangeOne DEF With
<1> HIDE DEF B
<1>3. /\ t.archs = B /\ t.place = P /\ t.pool = pool /\ t.epoch = s.epoch /\ t.cache = s.cache
      /\ t = Store(t.archs, t.place, t.pool, t.epoch, t.cache)
  BY DEF Store
<1>4. UsedOnce(B) /\ PoolSound(pool, Used(B, DOMAIN B))
  BY DEF B
<1> HIDE DEF t
<1>5. StoreOK(t)
  BY <1>2, <1>3, <1>4 DEF StoreOK
<1> QED
  BY <1>2, <1>3, <1>5 DEF B, t, Made

(* Rows keep to the signature when one that does is added. *)
LEMMA GrownFits ==
  ASSUME NEW C, NEW D, NEW row, NEW cap, NEW sig, Grown(C, D, row, cap), Fitting(C, sig), IsRow(row, sig)
  PROVE  Fitting(D, sig)
<1> SUFFICES ASSUME NEW k, NEW r, Has(D, k, r)
             PROVE  D[k].rows[r].values \in [Columns(sig) -> Marks]
  BY DEF Fitting
<1>1. CASE Has(C, k, r)
  BY <1>1 DEF Grown, Fitting
<1>2. CASE ~Has(C, k, r)
  BY <1>2 DEF Grown, IsRow
<1> QED
  BY <1>1, <1>2

(* reserve_row and the write of what the row holds. *)
LEMMA PutFacts ==
  ASSUME NEW s, StoreOK(s), NEW a \in DOMAIN s.archs, NEW row, IsRow(row, s.archs[a].sig),
         NEW n \in Nat, CanAcquire(s.pool, n + 1)
  PROVE  RowPut(s, PutRow(s, a, row), a, row) /\ CanAcquire(PutRow(s, a, row).pool, n)
<1> DEFINE A == s.archs
           C == A[a].chunks
           cap == Capacity(A, a)
           v == A[a].version
           i == row.id.index
           all == Used(A, DOMAIN A)
<1>1. /\ ArchetypesOK(A) /\ UsedOnce(A) /\ PoolSound(s.pool, all) /\ s.place \in [Index -> Location]
  BY DEF StoreOK
<1>2. /\ C \in Seq(Chunk) /\ Len(C) \in Nat /\ DOMAIN C = 1 .. Len(C) /\ a \in Nat
      /\ cap \in Nat \ {0} /\ v \in Nat /\ Packed(C, cap) /\ Fitting(C, A[a].sig)
  BY <1>1, ArchetypeFacts
<1>3. row \in RowSet /\ i \in Index
  BY RowFacts DEF IsRow
<1>4. HasRoom(s, a) <=> C # <<>> /\ Len(Last(C).rows) < cap
  BY DEF HasRoom, Capacity
<1>5. ASSUME NEW D, Grown(C, D, row, cap), NEW pool, UsedOnce(With(A, a, D, v)),
             PoolSound(pool, Used(With(A, a, D, v), DOMAIN With(A, a, D, v)))
      PROVE  LET P == [s.place EXCEPT ![i] = Loc(a, Len(D), LastRow(D))]
                 t == Store(With(A, a, D, v), P, pool, s.epoch, s.cache)
             IN  RowPut(s, t, a, row) /\ t.pool = pool
  <2> DEFINE P == [s.place EXCEPT ![i] = Loc(a, Len(D), LastRow(D))]
             t == Store(With(A, a, D, v), P, pool, s.epoch, s.cache)
  <2>1. Packed(D, cap) /\ Len(D) # 0
    BY <1>5 DEF Grown
  <2>2. Len(D) \in Nat /\ LastRow(D) \in Nat
    <3>1. D \in Seq(Chunk) /\ D # <<>>
      BY <2>1, EmptySeq DEF Packed
    <3>2. Len(D) \in DOMAIN D /\ Has(D, Len(D), LastRow(D)) /\ Len(D) \in Nat
      BY <1>2, <2>1, <3>1, ChunkFacts
    <3>3. LastRow(D) \in DOMAIN D[Len(D)].rows /\ DOMAIN D[Len(D)].rows = 1 .. Len(D[Len(D)].rows)
      BY <1>2, <2>1, <3>2, ChunkFacts DEF Has
    <3> QED
      BY <3>2, <3>3
  <2>3. P \in [Index -> Location]
    BY <1>1, <1>2, <2>2, LocFacts
  <2>4. Fitting(D, A[a].sig)
    BY <1>2, <1>5, GrownFits
  <2> HIDE DEF P
  <2>5. StoreOK(t) /\ OnlyIn(A, t.archs, a, D, v) /\ t.place = P /\ t.pool = pool
        /\ t.epoch = s.epoch /\ t.cache = s.cache
    <3>1. /\ a \in DOMAIN A /\ v \in Nat /\ Packed(D, Capacity(A, a)) /\ Fitting(D, A[a].sig)
          /\ P \in [Index -> Location] /\ UsedOnce(With(A, a, D, v))
          /\ PoolSound(pool, Used(With(A, a, D, v), DOMAIN With(A, a, D, v)))
      BY <1>2, <1>5, <2>1, <2>3, <2>4
    <3> DEFINE u == Made(s, a, D, v, P, pool)
    <3> HIDE DEF v
    <3>2. StoreOK(u) /\ OnlyIn(A, u.archs, a, D, v) /\ u.place = P /\ u.pool = pool
          /\ u.epoch = s.epoch /\ u.cache = s.cache
      BY <3>1, MakeStore
    <3>3. u = t
      BY DEF Made
    <3> QED
      BY <3>2, <3>3
  <2> HIDE DEF t
  <2>6. RowPut(s, t, a, row)
    BY <1>5, <2>5 DEF RowPut, P
  <2> QED
    BY <2>5, <2>6 DEF P, t
<1>6. ASSUME NEW D, D \in Seq(Chunk), Packed(D, cap), Fitting(D, A[a].sig)
      PROVE  OnlyIn(A, With(A, a, D, v), a, D, v)
  BY <1>1, <1>2, <1>6, ChangeOne DEF With
<1>7. CASE HasRoom(s, a)
  <2> DEFINE D == [C EXCEPT ![Len(C)].rows = Append(@, row)]
  <2>1. Grown(C, D, row, cap) /\ Len(D) = Len(C) /\ LastRow(D) = Len(C[Len(C)].rows) + 1
    BY <1>2, <1>3, <1>4, <1>7, GrownInPlace
  <2>2. PutRow(s, a, row) = Store(With(A, a, D, v), [s.place EXCEPT ![i] = Loc(a, Len(C), Len(C[Len(C)].rows) + 1)],
                                  s.pool, s.epoch, s.cache)
    BY <1>7, PutInPlace
  <2> HIDE DEF D
  <2>3. D \in Seq(Chunk) /\ Packed(D, cap) /\ SameBlocks(C, D) /\ Fitting(D, A[a].sig)
    BY <1>2, <2>1, GrownFits DEF Grown, Packed
  <2> DEFINE B == With(A, a, D, v)
  <2>4. OnlyIn(A, B, a, D, v)
    BY <1>6, <2>3
  <2>5. UsedOnce(B) /\ Used(B, DOMAIN B) = all
    <3>1. ArchetypesOK(A) /\ UsedOnce(A) /\ a \in DOMAIN A /\ D \in Seq(Chunk) /\ SameBlocks(A[a].chunks, D)
      BY <1>1, <2>3
    <3>2. Len(D) = Len(A[a].chunks) /\ OnlyIn(A, B, a, D, v)
      BY <2>1, <2>4
    <3> HIDE DEF A, B, v
    <3> QED
      BY <3>1, <3>2, BlocksAfter
  <2>6. RowPut(s, PutRow(s, a, row), a, row) /\ PutRow(s, a, row).pool = s.pool
    BY <1>1, <1>5, <2>1, <2>2, <2>5
  <2>7. CanAcquire(s.pool, n)
    <3>1. Len(s.pool.free) \in Nat /\ Cardinality(Block \ s.pool.live) \in Nat
      BY <1>1, PoolTypes DEF PoolSound
    <3> QED
      BY <3>1 DEF CanAcquire
  <2> QED
    BY <2>6, <2>7
<1>8. CASE ~HasRoom(s, a)
  <2> DEFINE b == NextBlock(s.pool)
             pool == Acquire(s.pool)
             D == Append(C, [block |-> b, rows |-> <<row>>])
  <2>1. b \in Block /\ b \notin all /\ PoolSound(pool, all \cup {b}) /\ CanAcquire(pool, n)
    BY <1>1, AcquireFacts
  <2>2. Grown(C, D, row, cap) /\ Len(D) = Len(C) + 1 /\ LastRow(D) = 1 /\ D[Len(D)].block = b
    <3> HIDE DEF b
    <3>1. C # <<>> => ~(Len(Last(C).rows) < cap)
      BY <1>4, <1>8
    <3> QED
      BY <1>2, <1>3, <2>1, <3>1, GrownByChunk
  <2>3. PutRow(s, a, row) = Store(With(A, a, D, v), [s.place EXCEPT ![i] = Loc(a, Len(C) + 1, 1)],
                                  pool, s.epoch, s.cache)
    BY <1>8, PutInNewChunk
  <2> HIDE DEF D, pool, b
  <2>4. D \in Seq(Chunk) /\ Packed(D, cap) /\ SameBlocks(C, D) /\ Fitting(D, A[a].sig)
    BY <1>2, <2>2, GrownFits DEF Grown, Packed
  <2> DEFINE B == With(A, a, D, v)
  <2>5. OnlyIn(A, B, a, D, v)
    BY <1>6, <2>4
  <2>6. UsedOnce(B) /\ Used(B, DOMAIN B) = all \cup {b}
    <3>1. ArchetypesOK(A) /\ UsedOnce(A) /\ a \in DOMAIN A /\ D \in Seq(Chunk) /\ SameBlocks(A[a].chunks, D)
      BY <1>1, <2>4
    <3>2. /\ Len(D) = Len(A[a].chunks) + 1 /\ OnlyIn(A, B, a, D, v)
          /\ D[Len(A[a].chunks) + 1].block = b /\ b \notin Used(A, DOMAIN A)
      BY <2>1, <2>2, <2>5
    <3> HIDE DEF A, B, v
    <3> QED
      BY <3>1, <3>2, BlocksAfter
  <2>7. RowPut(s, PutRow(s, a, row), a, row) /\ PutRow(s, a, row).pool = pool
    <3>1. PoolSound(pool, Used(B, DOMAIN B)) /\ UsedOnce(B)
      BY <2>1, <2>6
    <3>2. PutRow(s, a, row) = Store(B, [s.place EXCEPT ![i] = Loc(a, Len(D), LastRow(D))],
                                    pool, s.epoch, s.cache)
      BY <2>2, <2>3
    <3> HIDE DEF A, C, cap, v, i
    <3> QED
      BY <1>5, <2>2, <3>1, <3>2
  <2> QED
    BY <2>1, <2>7
<1> QED
  BY <1>7, <1>8

----------------------------------------------------------------------------
(* Every entity has its row. *)

(* The entities L have a row each, and every row outside the holes H is    *)
(* that of one of them, which its slot points at.                          *)
Placed(s, L, H) ==
  /\ L \subseteq EntityID
  /\ \A id, jd \in L : id.index = jd.index => id = jd
  /\ \A id \in L : /\ RowIn(s.archs, s.place[id.index]) /\ s.place[id.index] \notin H
                   /\ RowOf(s.archs, s.place[id.index]).id = id
  /\ \A l \in Location : RowIn(s.archs, l) /\ l \notin H =>
       /\ RowOf(s.archs, l).id \in L
       /\ s.place[RowOf(s.archs, l).id.index] = l

Holes(s, H) == \A l \in H : RowIn(s.archs, l)

BlockOf(A, l) == A[l.arch].chunks[l.chunk].block

(* Rows are added only: those that are there stay where they are, with the *)
(* data they hold, and the entities L keep theirs.                         *)
Grows(s, t, L) ==
  /\ DOMAIN s.archs \subseteq DOMAIN t.archs
  /\ \A a \in DOMAIN s.archs : /\ t.archs[a].sig = s.archs[a].sig
                               /\ t.archs[a].version >= s.archs[a].version
                               /\ Len(t.archs[a].chunks) >= Len(s.archs[a].chunks)
  /\ \A l : RowIn(s.archs, l) => /\ RowIn(t.archs, l)
                                 /\ RowOf(t.archs, l) = RowOf(s.archs, l)
                                 /\ BlockOf(t.archs, l) = BlockOf(s.archs, l)
  /\ \A id \in L : t.place[id.index] = s.place[id.index]

(* The entity of a row has it in archetype a. *)
Stands(s, a, row) ==
  /\ s.place[row.id.index].arch = a
  /\ RowIn(s.archs, s.place[row.id.index])
  /\ RowOf(s.archs, s.place[row.id.index]) = row

(* The location of a row is determined by its parts. *)
LEMMA LocationFacts ==
  ASSUME NEW l \in Location
  PROVE  /\ l = Loc(l.arch, l.chunk, l.row) /\ l.arch \in Nat /\ l.chunk \in Nat /\ l.row \in Nat
         /\ \A m \in Location : l.arch = m.arch /\ l.chunk = m.chunk /\ l.row = m.row => l = m
BY DEF Location, Loc

(* What is used of the versions, the places and the rows of a store. *)
LEMMA GrowsTypes ==
  ASSUME NEW s, StoreOK(s)
  PROVE  /\ \A a \in DOMAIN s.archs : s.archs[a].version \in Nat /\ Len(s.archs[a].chunks) \in Nat
         /\ \A id \in EntityID : id.index \in Index /\ s.place[id.index] \in Location
         /\ \A l : RowIn(s.archs, l) => IsRow(RowOf(s.archs, l), s.archs[l.arch].sig)
<1>1. ArchetypesOK(s.archs) /\ s.place \in [Index -> Location]
  BY DEF StoreOK
<1>2. \A a \in DOMAIN s.archs : s.archs[a].version \in Nat /\ Len(s.archs[a].chunks) \in Nat
  BY <1>1, ArchetypeFacts
<1>3. \A id \in EntityID : id.index \in Index /\ s.place[id.index] \in Location
  BY <1>1 DEF EntityID
<1>4. ASSUME NEW l, RowIn(s.archs, l) PROVE IsRow(RowOf(s.archs, l), s.archs[l.arch].sig)
  <2> DEFINE C == s.archs[l.arch].chunks
             cap == Capacity(s.archs, l.arch)
  <2>1. l.arch \in DOMAIN s.archs /\ Has(C, l.chunk, l.row)
    BY <1>4 DEF RowIn
  <2>2. cap \in Nat \ {0} /\ Packed(C, cap) /\ Fitting(C, s.archs[l.arch].sig)
    BY <1>1, <2>1, ArchetypeFacts
  <2> HIDE DEF C, cap
  <2>3. C[l.chunk].rows[l.row] \in RowSet
    BY <2>1, <2>2, ChunkFacts
  <2>4. C[l.chunk].rows[l.row].values \in [Columns(s.archs[l.arch].sig) -> Marks]
    BY <2>1, <2>2 DEF Fitting
  <2> QED
    BY <2>3, <2>4 DEF IsRow, RowOf, C
<1> QED
  BY <1>2, <1>3, <1>4

(* Two growths make one. *)
LEMMA GrowsTwice ==
  ASSUME NEW s, NEW t, NEW u, StoreOK(s), StoreOK(t), StoreOK(u), NEW L, NEW M, L \subseteq M,
         Grows(s, t, L), Grows(t, u, M)
  PROVE  Grows(s, u, L)
<1>1. ASSUME NEW a \in DOMAIN s.archs
      PROVE  /\ u.archs[a].sig = s.archs[a].sig /\ u.archs[a].version >= s.archs[a].version
             /\ Len(u.archs[a].chunks) >= Len(s.archs[a].chunks)
  <2>1. a \in DOMAIN t.archs /\ a \in DOMAIN u.archs
    BY DEF Grows
  <2>2. /\ s.archs[a].version \in Nat /\ t.archs[a].version \in Nat /\ u.archs[a].version \in Nat
        /\ Len(s.archs[a].chunks) \in Nat /\ Len(t.archs[a].chunks) \in Nat /\ Len(u.archs[a].chunks) \in Nat
    BY <2>1, GrowsTypes
  <2>3. /\ t.archs[a].sig = s.archs[a].sig /\ u.archs[a].sig = t.archs[a].sig
        /\ t.archs[a].version >= s.archs[a].version /\ u.archs[a].version >= t.archs[a].version
        /\ Len(t.archs[a].chunks) >= Len(s.archs[a].chunks) /\ Len(u.archs[a].chunks) >= Len(t.archs[a].chunks)
    BY <2>1 DEF Grows
  <2>4. \A x, y, z \in Nat : y >= x /\ z >= y => z >= x
    OBVIOUS
  <2>5. u.archs[a].version >= s.archs[a].version
    BY <2>2, <2>3, <2>4
  <2>6. Len(u.archs[a].chunks) >= Len(s.archs[a].chunks)
    BY <2>2, <2>3, <2>4
  <2> QED
    BY <2>3, <2>5, <2>6
<1>2. DOMAIN s.archs \subseteq DOMAIN u.archs
  BY DEF Grows
<1>3. \A l : RowIn(s.archs, l) => /\ RowIn(u.archs, l)
                                 /\ RowOf(u.archs, l) = RowOf(s.archs, l)
                                 /\ BlockOf(u.archs, l) = BlockOf(s.archs, l)
  BY DEF Grows
<1>4. \A id \in L : u.place[id.index] = s.place[id.index]
  BY DEF Grows
<1> QED
  BY <1>1, <1>2, <1>3, <1>4 DEF Grows

(* A row that stands keeps standing while the store grows. *)
LEMMA StandsStill ==
  ASSUME NEW s, NEW t, NEW L, Grows(s, t, L), NEW a, NEW row, Stands(s, a, row), row.id \in L
  PROVE  Stands(t, a, row)
BY DEF Grows, Stands

(* A row of an entity that has none yet. *)
Puts(s, t, a, row, L, H) ==
  /\ StoreOK(s) /\ a \in DOMAIN s.archs /\ IsRow(row, s.archs[a].sig) /\ RowPut(s, t, a, row)
  /\ Placed(s, L, H) /\ Holes(s, H) /\ \A id \in L : id.index # row.id.index

(* A row that is put is placed, and nobody else moves. *)
LEMMA PutPlaces ==
  ASSUME NEW s, NEW t, NEW a, NEW row, NEW L, NEW H, Puts(s, t, a, row, L, H)
  PROVE  /\ Placed(t, L \cup {row.id}, H) /\ Holes(t, H)
         /\ Grows(s, t, L) /\ Stands(t, a, row)
         /\ t.archs[a].version = s.archs[a].version /\ DOMAIN t.archs = DOMAIN s.archs
<1>0. /\ StoreOK(s) /\ a \in DOMAIN s.archs /\ IsRow(row, s.archs[a].sig) /\ RowPut(s, t, a, row)
      /\ Placed(s, L, H) /\ Holes(s, H) /\ \A id \in L : id.index # row.id.index
  BY DEF Puts
<1> DEFINE A == s.archs
           B == t.archs
           C == A[a].chunks
           cap == Capacity(A, a)
           i == row.id.index
<1>1. PICK D : /\ OnlyIn(A, B, a, D, A[a].version)
               /\ Grown(C, D, row, cap)
               /\ t.place = [s.place EXCEPT ![i] = Loc(a, Len(D), LastRow(D))]
  BY <1>0 DEF RowPut
<1>2. row.id \in EntityID /\ i \in Index
  BY <1>0, RowFacts DEF IsRow
<1>3. StoreOK(t) /\ s.place \in [Index -> Location] /\ t.place \in [Index -> Location]
  BY <1>0 DEF RowPut, StoreOK
<1> DEFINE n == Len(D)
           r == LastRow(D)
           m == Loc(a, n, r)
<1>4. t.place[i] = m /\ m \in Location /\ \A j \in Index : j # i => t.place[j] = s.place[j]
  BY <1>1, <1>2, <1>3
<1>5. m.arch = a /\ m.chunk = n /\ m.row = r
  BY LocFacts
<1>6. a \in DOMAIN A /\ DOMAIN B = DOMAIN A /\ B[a].chunks = D /\ B[a].sig = A[a].sig /\ B[a].version = A[a].version
      /\ \A b \in DOMAIN A : b # a => B[b] = A[b]
  BY <1>0, <1>1 DEF OnlyIn
<1>7. /\ \A k, q : Has(D, k, q) <=> Has(C, k, q) \/ (k = n /\ q = r)
      /\ ~Has(C, n, r) /\ D[n].rows[r] = row /\ Len(C) <= Len(D)
      /\ \A k, q : Has(C, k, q) => D[k].rows[q] = C[k].rows[q]
      /\ \A k \in DOMAIN C \cap DOMAIN D : D[k].block = C[k].block
  BY <1>1 DEF Grown, SameBlocks
<1>8. \A l : RowIn(A, l) => RowIn(B, l) /\ RowOf(B, l) = RowOf(A, l) /\ BlockOf(B, l) = BlockOf(A, l)
  <2> SUFFICES ASSUME NEW l, RowIn(A, l)
               PROVE  RowIn(B, l) /\ RowOf(B, l) = RowOf(A, l) /\ BlockOf(B, l) = BlockOf(A, l)
    OBVIOUS
  <2>1. CASE l.arch = a
    <3>1. Has(C, l.chunk, l.row) /\ Has(D, l.chunk, l.row)
      BY <1>7, <2>1 DEF RowIn
    <3>2. l.chunk \in DOMAIN C \cap DOMAIN D
      BY <3>1 DEF Has
    <3> QED
      BY <1>6, <1>7, <2>1, <3>1, <3>2, SMTT(40) DEF RowIn, RowOf, BlockOf
  <2>2. CASE l.arch # a
    BY <1>6, <2>2 DEF RowIn, RowOf, BlockOf
  <2> QED
    BY <2>1, <2>2
<1>9. ASSUME NEW l \in Location, RowIn(B, l), l # m PROVE RowIn(A, l)
  <2>1. CASE l.arch = a
    <3>1. Has(D, l.chunk, l.row)
      BY <1>6, <1>9, <2>1 DEF RowIn
    <3>2. ~(l.chunk = n /\ l.row = r)
      BY <1>4, <1>5, <1>9, <2>1, LocationFacts
    <3>3. Has(C, l.chunk, l.row)
      BY <1>7, <3>1, <3>2
    <3> QED
      BY <1>6, <2>1, <3>3 DEF RowIn
  <2>2. CASE l.arch # a
    BY <1>6, <1>9, <2>2 DEF RowIn
  <2> QED
    BY <2>1, <2>2
<1>10. RowIn(B, m) /\ RowOf(B, m) = row /\ ~RowIn(A, m)
  BY <1>5, <1>6, <1>7 DEF RowIn, RowOf
<1> HIDE DEF A, B, C, cap, i, n, r, m
<1>11. m \notin H
  BY <1>0, <1>10 DEF Holes, A
<1>12. L \subseteq EntityID /\ \A id \in L : id.index \in Index /\ id.index # i
  <2>1. L \subseteq EntityID
    BY <1>0 DEF Placed
  <2> QED
    BY <1>0, <2>1 DEF EntityID, i
<1>13. \A id \in L : t.place[id.index] = s.place[id.index]
  BY <1>4, <1>12
<1>14. Grows(s, t, L)
  <2>1. A[a].version \in Nat /\ Len(C) \in Nat /\ \A b \in DOMAIN A : A[b].version \in Nat /\ Len(A[b].chunks) \in Nat
    BY <1>0, GrowsTypes DEF A, C
  <2>2. \A b \in DOMAIN A : /\ B[b].sig = A[b].sig /\ B[b].version >= A[b].version
                            /\ Len(B[b].chunks) >= Len(A[b].chunks)
    BY <1>6, <1>7, <2>1 DEF C
  <2> QED
    BY <1>6, <1>8, <1>13, <2>2 DEF Grows, A, B
<1>15. Stands(t, a, row)
  BY <1>4, <1>5, <1>10 DEF Stands, i, B
<1>16. Holes(t, H)
  BY <1>0, <1>8 DEF Holes, A, B
<1>17. Placed(t, L \cup {row.id}, H)
  <2> DEFINE M == L \cup {row.id}
  <2>1. M \subseteq EntityID /\ \A id, jd \in M : id.index = jd.index => id = jd
    BY <1>0, <1>2, <1>12 DEF Placed, i
  <2>2. ASSUME NEW id \in M
        PROVE  RowIn(B, t.place[id.index]) /\ t.place[id.index] \notin H /\ RowOf(B, t.place[id.index]).id = id
    <3>1. CASE id = row.id
      BY <1>4, <1>10, <1>11, <3>1 DEF i
    <3>2. CASE id \in L
      <4>1. RowIn(A, s.place[id.index]) /\ s.place[id.index] \notin H /\ RowOf(A, s.place[id.index]).id = id
        BY <1>0, <3>2 DEF Placed, A
      <4> QED
        BY <1>8, <1>13, <3>2, <4>1
    <3> QED
      BY <3>1, <3>2
  <2>3. ASSUME NEW l \in Location, RowIn(B, l), l \notin H
        PROVE  RowOf(B, l).id \in M /\ t.place[RowOf(B, l).id.index] = l
    <3>1. CASE l = m
      BY <1>4, <1>10, <3>1 DEF i
    <3>2. CASE l # m
      <4>1. RowIn(A, l) /\ RowOf(B, l) = RowOf(A, l)
        BY <1>8, <1>9, <2>3, <3>2
      <4>2. RowOf(A, l).id \in L /\ s.place[RowOf(A, l).id.index] = l
        BY <1>0, <2>3, <4>1 DEF Placed, A
      <4> QED
        BY <1>13, <4>1, <4>2
    <3> QED
      BY <3>1, <3>2
  <2> HIDE DEF M
  <2>4. Placed(t, M, H)
    BY <2>1, <2>2, <2>3 DEF Placed, B
  <2> QED
    BY <2>4 DEF M
<1> QED
  BY <1>6, <1>14, <1>15, <1>16, <1>17 DEF A, B

----------------------------------------------------------------------------
(* Many rows. *)

SameChunks(s, t) ==
  /\ t.place = s.place /\ t.pool = s.pool /\ t.epoch = s.epoch /\ t.cache = s.cache
  /\ DOMAIN t.archs = DOMAIN s.archs
  /\ \A a \in DOMAIN s.archs : t.archs[a].sig = s.archs[a].sig /\ t.archs[a].chunks = s.archs[a].chunks

RowIds(rows, T) == {id \in EntityID : \E k \in T : rows[k].id = id}

(* reserve_rows, a row at a time. *)
PutNext(p, k, t) == PutRow(t, p[2], p[3][k])
RowsPut(p, T, t) ==
  /\ StoreOK(t) /\ t.epoch = p[1].epoch /\ t.cache = p[1].cache
  /\ CanAcquire(t.pool, Len(p[3]) - Cardinality(T) + p[6])
  /\ Placed(t, p[4] \cup RowIds(p[3], T), p[5]) /\ Holes(t, p[5])
  /\ Grows(p[1], t, p[4]) /\ DOMAIN t.archs = DOMAIN p[1].archs
  /\ \A k \in T : Stands(t, p[2], p[3][k])
Putting == INSTANCE Folding WITH Step <- PutNext, Pick <- Latest, Holds <- RowsPut

(* To do nothing is to grow. *)
LEMMA GrowsNot ==
  ASSUME NEW s, StoreOK(s), NEW L
  PROVE  Grows(s, s, L)
<1>1. \A a \in DOMAIN s.archs : s.archs[a].version >= s.archs[a].version /\ Len(s.archs[a].chunks) >= Len(s.archs[a].chunks)
  <2>1. \A n \in Nat : n >= n
    OBVIOUS
  <2> QED
    BY <2>1, GrowsTypes
<1> QED
  BY <1>1 DEF Grows

(* Where no chunk changes, every row is where it was. *)
LEMMA SameRows ==
  ASSUME NEW s, NEW t, SameChunks(s, t), NEW L, NEW H, Placed(s, L, H), Holes(s, H)
  PROVE  /\ Placed(t, L, H) /\ Holes(t, H)
         /\ \A a, row : Stands(s, a, row) => Stands(t, a, row)
         /\ \A l : RowIn(s.archs, l) <=> RowIn(t.archs, l)
         /\ \A l : RowIn(s.archs, l) => /\ RowOf(t.archs, l) = RowOf(s.archs, l)
                                        /\ BlockOf(t.archs, l) = BlockOf(s.archs, l)
<1>1. \A l : RowIn(s.archs, l) <=> RowIn(t.archs, l)
  BY DEF SameChunks, RowIn
<1>2. \A l : RowIn(s.archs, l) => /\ RowOf(t.archs, l) = RowOf(s.archs, l)
                                 /\ BlockOf(t.archs, l) = BlockOf(s.archs, l)
  BY DEF SameChunks, RowIn, RowOf, BlockOf
<1>3. t.place = s.place
  BY DEF SameChunks
<1>4. Placed(t, L, H)
  BY <1>1, <1>2, <1>3 DEF Placed
<1>5. \A a, row : Stands(s, a, row) => Stands(t, a, row)
  BY <1>1, <1>2, <1>3 DEF Stands
<1> QED
  BY <1>1, <1>2, <1>4, <1>5 DEF Holes

(* The version of an archetype goes up. *)
LEMMA BumpFacts ==
  ASSUME NEW s, StoreOK(s), NEW a \in DOMAIN s.archs, NEW n \in Nat
  PROVE  LET t == [s EXCEPT !.archs[a].version = @ + n]
         IN  /\ StoreOK(t) /\ SameChunks(s, t)
             /\ t.archs[a].version = s.archs[a].version + n
             /\ \A b \in DOMAIN s.archs : b # a => t.archs[b] = s.archs[b]
<1> DEFINE A == s.archs
           C == A[a].chunks
           v == A[a].version + n
           B == With(A, a, C, v)
           t == [s EXCEPT !.archs[a].version = @ + n]
           u == Made(s, a, C, v, s.place, s.pool)
<1>1. /\ ArchetypesOK(A) /\ UsedOnce(A) /\ PoolSound(s.pool, Used(A, DOMAIN A)) /\ s.place \in [Index -> Location]
      /\ s = Store(s.archs, s.place, s.pool, s.epoch, s.cache)
  BY DEF StoreOK
<1>2. /\ C \in Seq(Chunk) /\ Packed(C, Capacity(A, a)) /\ Fitting(C, A[a].sig) /\ v \in Nat /\ a \in DOMAIN A
  <2>1. A[a].version \in Nat
    BY <1>1, ArchetypeFacts
  <2>2. v \in Nat
    BY <2>1
  <2> QED
    BY <1>1, <2>2, ArchetypeFacts
<1> HIDE DEF v
<1>3. t = u
  <2> DEFINE E == [A EXCEPT ![a].version = v]
  <2>1. t = [s EXCEPT !.archs = E]
    BY DEF v
  <2>2. E = B
    BY <1>1, WithChunks
  <2> HIDE DEF E
  <2>3. [s EXCEPT !.archs = E] = Store(E, s.place, s.pool, s.epoch, s.cache)
    BY <1>1, StoreUpdates
  <2> QED
    BY <2>1, <2>2, <2>3 DEF Made
<1>4. OnlyIn(A, B, a, C, v) /\ SameBlocks(C, C)
  BY <1>1, <1>2, ChangeOne DEF With, SameBlocks
<1>5. UsedOnce(B) /\ Used(B, DOMAIN B) = Used(A, DOMAIN A)
  <2>1. ArchetypesOK(A) /\ UsedOnce(A) /\ a \in DOMAIN A /\ C \in Seq(Chunk) /\ SameBlocks(A[a].chunks, C)
    BY <1>1, <1>2, <1>4
  <2>2. Len(C) = Len(A[a].chunks) /\ OnlyIn(A, B, a, C, v)
    BY <1>4
  <2> HIDE DEF A, B, C
  <2> QED
    BY <2>1, <2>2, BlocksAfter
<1>6. StoreOK(u) /\ OnlyIn(A, u.archs, a, C, v) /\ u.place = s.place /\ u.pool = s.pool
      /\ u.epoch = s.epoch /\ u.cache = s.cache
  <2>1. PoolSound(s.pool, Used(B, DOMAIN B)) /\ UsedOnce(B)
    BY <1>1, <1>5
  <2> QED
    BY <1>1, <1>2, <2>1, MakeStore
<1> HIDE DEF u, t
<1>7. SameChunks(s, u)
  BY <1>6 DEF OnlyIn, SameChunks
<1> QED
  BY <1>3, <1>6, <1>7 DEF OnlyIn, t, v

(* A pool that can give n + 1 blocks can give n. *)
LEMMA NoMoreThan ==
  ASSUME NEW p, PoolOK(p), NEW n \in Nat, CanAcquire(p, n + 1)
  PROVE  CanAcquire(p, n)
<1>1. Len(p.free) \in Nat /\ Cardinality(Block \ p.live) \in Nat
  BY PoolTypes
<1> QED
  BY <1>1 DEF CanAcquire

(* Rows that fit archetype a, of entities that have none yet. *)
Reservable(s, a, rows, L, H, m) ==
  /\ StoreOK(s) /\ a \in DOMAIN s.archs /\ DOMAIN rows = 1 .. Len(rows) /\ Len(rows) \in Nat
  /\ \A k \in DOMAIN rows : IsRow(rows[k], s.archs[a].sig)
  /\ \A j, k \in DOMAIN rows : rows[j].id.index = rows[k].id.index => j = k
  /\ Placed(s, L, H) /\ Holes(s, H) /\ m \in Nat /\ CanAcquire(s.pool, Len(rows) + m)
  /\ \A id \in L : \A k \in DOMAIN rows : id.index # rows[k].id.index

(* The rows of a batch all stand at the end of one archetype. *)
LEMMA ReserveFacts ==
  ASSUME NEW s, NEW a, NEW rows, NEW L, NEW H, NEW m, Reservable(s, a, rows, L, H, m)
  PROVE  LET u == ReserveRows(s, a, rows)
         IN  /\ StoreOK(u) /\ u.epoch = s.epoch /\ u.cache = s.cache
             /\ Placed(u, L \cup RowIds(rows, DOMAIN rows), H) /\ Holes(u, H)
             /\ Grows(s, u, L) /\ DOMAIN u.archs = DOMAIN s.archs
             /\ CanAcquire(u.pool, m)
             /\ \A k \in DOMAIN rows : Stands(u, a, rows[k])
<1> DEFINE n == Len(rows)
           p == <<s, a, rows, L, H, m>>
<1>0. /\ StoreOK(s) /\ a \in DOMAIN s.archs /\ DOMAIN rows = 1 .. Len(rows) /\ Len(rows) \in Nat
      /\ \A k \in DOMAIN rows : IsRow(rows[k], s.archs[a].sig)
      /\ \A j, k \in DOMAIN rows : rows[j].id.index = rows[k].id.index => j = k
      /\ Placed(s, L, H) /\ Holes(s, H) /\ m \in Nat /\ CanAcquire(s.pool, Len(rows) + m)
      /\ \A id \in L : \A k \in DOMAIN rows : id.index # rows[k].id.index
  BY DEF Reservable
<1> USE <1>0
<1>1. p[1] = s /\ p[2] = a /\ p[3] = rows /\ p[4] = L /\ p[5] = H /\ p[6] = m
  OBVIOUS
<1> HIDE DEF p
<1>2. RowsPut(p, {}, s)
  <2>1. Cardinality({}) = 0 /\ n - 0 = n
    BY FS_EmptySet
  <2>2. L \cup RowIds(rows, {}) = L
    BY DEF RowIds
  <2>3. Grows(s, s, L)
    BY GrowsNot
  <2> QED
    BY <1>1, <2>1, <2>2, <2>3 DEF RowsPut
<1>3. ASSUME NEW T \in SUBSET (1 .. n), NEW t, T # {}, RowsPut(p, T \ {Latest(T)}, t)
      PROVE  RowsPut(p, T, PutNext(p, Latest(T), t))
  <2> DEFINE k == Latest(T)
             U == T \ {k}
             M == L \cup RowIds(rows, U)
             u == PutRow(t, a, rows[k])
  <2>1. k \in T /\ k \in DOMAIN rows /\ Cardinality(T) \in Nat \ {0} /\ Cardinality(T) <= n
        /\ Cardinality(U) = Cardinality(T) - 1
    BY <1>3, Earlier
  <2>2. /\ StoreOK(t) /\ t.epoch = s.epoch /\ t.cache = s.cache
        /\ CanAcquire(t.pool, n - Cardinality(U) + m)
        /\ Placed(t, M, H) /\ Holes(t, H) /\ Grows(s, t, L) /\ DOMAIN t.archs = DOMAIN s.archs
        /\ \A j \in U : Stands(t, a, rows[j])
    BY <1>1, <1>3 DEF RowsPut
  <2> HIDE DEF k, U
  <2>3. n - Cardinality(T) + m \in Nat /\ n - Cardinality(U) + m = (n - Cardinality(T) + m) + 1
    <3> DEFINE c == Cardinality(T)
               d == Cardinality(U)
    <3>1. c \in Nat \ {0} /\ c <= n /\ d = c - 1 /\ n \in Nat
      BY <2>1
    <3> HIDE DEF c, d, n
    <3>2. n - c + m \in Nat /\ n - d + m = (n - c + m) + 1
      BY <3>1
    <3> QED
      BY <3>2 DEF c, d
  <2>4. IsRow(rows[k], t.archs[a].sig) /\ a \in DOMAIN t.archs
    BY <2>1, <2>2 DEF Grows
  <2>5. RowPut(t, u, a, rows[k]) /\ CanAcquire(u.pool, n - Cardinality(T) + m)
    BY <2>2, <2>3, <2>4, PutFacts
  <2>6. \A id \in M : id.index # rows[k].id.index
    <3>1. ASSUME NEW j \in U PROVE rows[j].id.index # rows[k].id.index
      <4>1. j \in DOMAIN rows /\ j # k
        BY <1>3, <2>1 DEF U
      <4> QED
        BY <2>1, <4>1
    <3> QED
      BY <2>1, <3>1 DEF RowIds
  <2> HIDE DEF u
  <2>7. /\ Placed(u, M \cup {rows[k].id}, H) /\ Holes(u, H) /\ Grows(t, u, M) /\ Stands(u, a, rows[k])
        /\ DOMAIN u.archs = DOMAIN t.archs
    <3> DEFINE row == rows[k]
    <3>1. /\ StoreOK(t) /\ a \in DOMAIN t.archs /\ IsRow(row, t.archs[a].sig) /\ RowPut(t, u, a, row)
          /\ Placed(t, M, H) /\ Holes(t, H) /\ \A id \in M : id.index # row.id.index
      BY <2>2, <2>4, <2>5, <2>6
    <3> HIDE DEF M, row
    <3>2. /\ Placed(u, M \cup {row.id}, H) /\ Holes(u, H) /\ Grows(t, u, M) /\ Stands(u, a, row)
          /\ DOMAIN u.archs = DOMAIN t.archs
      <4>1. Puts(t, u, a, row, M, H)
        BY <3>1 DEF Puts
      <4> QED
        BY <4>1, PutPlaces
    <3> QED
      BY <3>2 DEF row
  <2>8. M \cup {rows[k].id} = L \cup RowIds(rows, T)
    <3>1. rows[k].id \in EntityID
      BY <2>1, RowFacts DEF IsRow
    <3> QED
      BY <2>1, <3>1 DEF RowIds, U
  <2>9. StoreOK(u) /\ u.epoch = t.epoch /\ u.cache = t.cache
    BY <2>5 DEF RowPut
  <2>10. Grows(s, u, L)
    <3>1. L \subseteq M
      OBVIOUS
    <3> HIDE DEF M
    <3> QED
      BY <2>2, <2>7, <2>9, <3>1, GrowsTwice
  <2>11. \A j \in T : Stands(u, a, rows[j])
    <3> TAKE j \in T
    <3>1. CASE j = k
      BY <2>7, <3>1
    <3>2. CASE j # k
      <4>1. j \in U /\ j \in DOMAIN rows
        BY <1>3, <3>2 DEF U
      <4>2. rows[j].id \in M
        BY <4>1, RowFacts DEF RowIds, IsRow
      <4> HIDE DEF M
      <4> QED
        BY <2>2, <2>7, <4>1, <4>2, StandsStill
    <3> QED
      BY <3>1, <3>2
  <2>12. PutNext(p, k, t) = u
    BY <1>1 DEF PutNext, u
  <2> QED
    BY <1>1, <2>2, <2>5, <2>7, <2>8, <2>9, <2>10, <2>11, <2>12 DEF RowsPut, k
<1>4. Putting!Picks(1 .. n)
  BY InOrder DEF Putting!Picks, Putting!Measures
<1>5. RowsPut(p, 1 .. n, Putting!Folded(p, s, 1 .. n))
  BY <1>2, <1>3, <1>4, Putting!FoldInvariant
<1> DEFINE t == FoldLeft(LAMBDA u, row : PutRow(u, a, row), s, rows)
<1>6. t = Putting!Folded(p, s, DOMAIN rows)
  BY <1>1 DEF FoldLeft, MapThenFoldSet, Putting!Folded, Putting!Iterated, Putting!FoldRule, PutNext, Latest
<1> DEFINE touched == Len(t.archs[a].chunks) - Len(s.archs[a].chunks)
                        + (IF HasRoom(s, a) /\ rows # <<>> THEN 1 ELSE 0)
           u == [t EXCEPT !.archs[a].version = @ + touched]
<1>7. ReserveRows(s, a, rows) = u
  BY DEF ReserveRows
<1> HIDE DEF t
<1>8. /\ StoreOK(t) /\ t.epoch = s.epoch /\ t.cache = s.cache
      /\ Placed(t, L \cup RowIds(rows, DOMAIN rows), H) /\ Holes(t, H)
      /\ Grows(s, t, L) /\ DOMAIN t.archs = DOMAIN s.archs
      /\ \A k \in DOMAIN rows : Stands(t, a, rows[k])
      /\ CanAcquire(t.pool, m)
  <2> DEFINE S == 1 .. n
             c == Cardinality(S)
  <2>1. RowsPut(p, S, t) /\ S = DOMAIN rows
    BY <1>5, <1>6
  <2>2. n - c + m = m
    BY CountTo
  <2> HIDE DEF S, c
  <2>3. CanAcquire(t.pool, n - c + m)
    BY <1>1, <2>1 DEF RowsPut, c
  <2> QED
    BY <1>1, <2>1, <2>2, <2>3 DEF RowsPut
<1>9. touched \in Nat
  <2> DEFINE x == Len(t.archs[a].chunks)
             y == Len(s.archs[a].chunks)
  <2>1. x \in Nat /\ y \in Nat /\ x >= y
    BY <1>8, GrowsTypes DEF Grows
  <2> HIDE DEF x, y
  <2>2. touched = x - y + (IF HasRoom(s, a) /\ rows # <<>> THEN 1 ELSE 0)
    BY DEF x, y
  <2> HIDE DEF touched
  <2> QED
    BY <2>1, <2>2
<1> HIDE DEF touched
<1>10. /\ StoreOK(u) /\ SameChunks(t, u) /\ u.archs[a].version = t.archs[a].version + touched
       /\ \A b \in DOMAIN t.archs : b # a => u.archs[b] = t.archs[b]
  <2>1. a \in DOMAIN t.archs
    BY <1>8
  <2> QED
    BY <1>8, <1>9, <2>1, BumpFacts
<1> HIDE DEF u
<1>11. /\ Placed(u, L \cup RowIds(rows, DOMAIN rows), H) /\ Holes(u, H)
       /\ \A k \in DOMAIN rows : Stands(u, a, rows[k])
       /\ \A l : RowIn(t.archs, l) => /\ RowIn(u.archs, l) /\ RowOf(u.archs, l) = RowOf(t.archs, l)
                                      /\ BlockOf(u.archs, l) = BlockOf(t.archs, l)
  <2> DEFINE M == L \cup RowIds(rows, DOMAIN rows)
  <2>1. SameChunks(t, u) /\ Placed(t, M, H) /\ Holes(t, H)
    BY <1>8, <1>10
  <2> HIDE DEF M
  <2>2. /\ Placed(u, M, H) /\ Holes(u, H) /\ \A b, row : Stands(t, b, row) => Stands(u, b, row)
        /\ \A l : RowIn(t.archs, l) <=> RowIn(u.archs, l)
        /\ \A l : RowIn(t.archs, l) => /\ RowOf(u.archs, l) = RowOf(t.archs, l)
                                       /\ BlockOf(u.archs, l) = BlockOf(t.archs, l)
    BY <2>1, SameRows
  <2> QED
    BY <1>8, <2>2 DEF M
<1>12. Grows(t, u, L)
  <2>1. \A b \in DOMAIN t.archs : t.archs[b].version \in Nat /\ Len(t.archs[b].chunks) \in Nat
    BY <1>8, GrowsTypes
  <2>2. \A b \in DOMAIN t.archs : u.archs[b].version >= t.archs[b].version
    BY <1>9, <1>10, <2>1
  <2>3. \A b \in DOMAIN t.archs : u.archs[b].sig = t.archs[b].sig /\ Len(u.archs[b].chunks) >= Len(t.archs[b].chunks)
    BY <1>10, <2>1 DEF SameChunks
  <2> QED
    BY <1>10, <1>11, <2>2, <2>3 DEF Grows, SameChunks
<1>13. Grows(s, u, L)
  BY <1>8, <1>10, <1>12, GrowsTwice
<1> QED
  BY <1>7, <1>8, <1>10, <1>11, <1>13 DEF SameChunks

----------------------------------------------------------------------------
(* The caches of queries. *)

(* A query found the archetypes it matches, all of them, in order. *)
Complete(A, key, m) ==
  /\ \A a : a \in Range(m) <=> a \in DOMAIN A /\ key.require \subseteq A[a].sig /\ key.exclude \cap A[a].sig = {}
  /\ \A i, j \in DOMAIN m : i < j => m[i] < m[j]

(* No entry is newer than the archetypes, and the current ones are right. *)
CacheOK(s) ==
  /\ s.epoch \in 0 .. EpochMax
  /\ \A key \in DOMAIN s.cache :
       /\ s.cache[key].epoch \in 0 .. s.epoch
       /\ s.cache[key].epoch = s.epoch => Complete(s.archs, key, s.cache[key].matched)

SameSignatures(A, B) == DOMAIN B = DOMAIN A /\ \A a \in DOMAIN A : B[a].sig = A[a].sig

(* The hole l of archetype l.arch was filled with its last row. *)
Compacted(s, t, l, L) ==
  /\ StoreOK(t) /\ Placed(t, L, {}) /\ t.epoch = s.epoch /\ t.cache = s.cache
  /\ SameSignatures(s.archs, t.archs)
  /\ \A a \in DOMAIN s.archs : a # l.arch => t.archs[a] = s.archs[a]
  /\ t.archs[l.arch].version = s.archs[l.arch].version + 1
  /\ \A id \in L : /\ t.place[id.index].arch = s.place[id.index].arch
                   /\ RowOf(t.archs, t.place[id.index]) = RowOf(s.archs, s.place[id.index])
                   /\ s.place[id.index].arch # l.arch => t.place[id.index] = s.place[id.index]

(* Caches stay good while no archetype is created. *)
LEMMA CacheKept ==
  ASSUME NEW s, NEW t, CacheOK(s), t.epoch = s.epoch, t.cache = s.cache, SameSignatures(s.archs, t.archs)
  PROVE  CacheOK(t)
<1>1. \A key, m : Complete(s.archs, key, m) => Complete(t.archs, key, m)
  BY DEF Complete, SameSignatures
<1> QED
  BY <1>1 DEF CacheOK

(* ArchIndex finds the archetype of a signature, or there is none. *)
LEMMA IndexFacts ==
  ASSUME NEW s, NEW sig, DOMAIN s.archs = 1 .. Len(s.archs), Len(s.archs) \in Nat
  PROVE  /\ ArchIndex(s, sig) # 0 => /\ ArchIndex(s, sig) \in DOMAIN s.archs
                                     /\ s.archs[ArchIndex(s, sig)].sig = sig
         /\ ArchIndex(s, sig) = 0 => \A a \in DOMAIN s.archs : s.archs[a].sig # sig
<1> DEFINE I == {i \in 1 .. Len(s.archs) : s.archs[i].sig = sig}
<1>1. ArchIndex(s, sig) = IF I # {} THEN Min(I) ELSE 0
  BY DEF ArchIndex, SelectInSeq
<1>2. CASE I # {}
  <2>1. I \in SUBSET Nat
    OBVIOUS
  <2>2. Min(I) \in I
    <3> HIDE DEF I
    <3> QED
      BY <1>2, <2>1, MinFacts
  <2> QED
    BY <1>1, <1>2, <2>2
<1>3. CASE I = {}
  BY <1>1, <1>3
<1> QED
  BY <1>2, <1>3

(* find_or_create_archetype, whose epoch invalidates what is cached. *)
LEMMA FindFacts ==
  ASSUME NEW s, StoreOK(s), NEW sig \in Signature, NEW L, NEW H, Placed(s, L, H), Holes(s, H)
  PROVE  LET t == find_or_create_archetype(s, sig)
         IN  /\ StoreOK(t) /\ Placed(t, L, H) /\ Holes(t, H) /\ Grows(s, t, L) /\ t.pool = s.pool
             /\ CacheOK(s) => CacheOK(t)
             /\ ArchIndex(t, sig) \in DOMAIN t.archs /\ t.archs[ArchIndex(t, sig)].sig = sig
<1> DEFINE t == find_or_create_archetype(s, sig)
           A == s.archs
<1>1. /\ ArchetypesOK(A) /\ UsedOnce(A) /\ PoolSound(s.pool, Used(A, DOMAIN A)) /\ s.place \in [Index -> Location]
      /\ s = Store(s.archs, s.place, s.pool, s.epoch, s.cache)
  BY DEF StoreOK
<1>2. A \in Seq(Archetype) /\ Len(A) \in Nat /\ DOMAIN A = 1 .. Len(A)
  BY <1>1, ArchetypeFacts
<1>3. CASE ArchIndex(s, sig) # 0
  <2>1. t = s
    BY <1>3 DEF find_or_create_archetype
  <2> QED
    BY <1>2, <1>3, <2>1, IndexFacts, GrowsNot
<1>4. CASE ArchIndex(s, sig) = 0
  <2> DEFINE c == [sig |-> sig, version |-> 0, chunks |-> <<>>]
             B == Append(A, c)
             n == Len(A)
             r == [s EXCEPT !.archs = B]
             e == IF s.epoch < EpochMax THEN s.epoch + 1 ELSE 1
             q == IF s.epoch < EpochMax THEN s.cache ELSE <<>>
             u == Store(B, s.place, s.pool, e, q)
  <2>1. c \in Archetype /\ c.sig = sig /\ c.chunks = <<>> /\ c.version = 0
    BY DEF Archetype
  <2> HIDE DEF c
  <2>2. /\ B \in Seq(Archetype) /\ Len(B) = n + 1 /\ DOMAIN B = 1 .. n + 1 /\ B[n + 1] = c
        /\ \A a \in DOMAIN A : a \in DOMAIN B /\ B[a] = A[a] /\ a # n + 1
        /\ \A a \in DOMAIN B : a = n + 1 \/ a \in DOMAIN A
    BY <1>2, <2>1
  <2>3. t = u
    <3>1. t = NextEpoch(r)
      BY <1>4 DEF find_or_create_archetype, c
    <3>2. r = Store(B, s.place, s.pool, s.epoch, s.cache)
      BY <1>1, StoreUpdates
    <3> HIDE DEF r, B
    <3>3. r.epoch = s.epoch /\ r.cache = s.cache
      BY <3>2 DEF Store
    <3>4. CASE s.epoch < EpochMax
      <4>1. t = [r EXCEPT !.epoch = s.epoch + 1]
        BY <3>1, <3>3, <3>4 DEF NextEpoch
      <4>2. @ = Store(B, s.place, s.pool, s.epoch + 1, s.cache)
        BY <3>2 DEF Store
      <4> QED
        BY <3>4, <4>1, <4>2
    <3>5. CASE ~(s.epoch < EpochMax)
      <4>1. t = [r EXCEPT !.epoch = 1, !.cache = <<>>]
        BY <3>1, <3>3, <3>5 DEF NextEpoch
      <4>2. [r EXCEPT !.epoch = 1, !.cache = <<>>] = [[r EXCEPT !.epoch = 1] EXCEPT !.cache = <<>>]
        OBVIOUS
      <4>3. [r EXCEPT !.epoch = 1] = Store(B, s.place, s.pool, 1, s.cache)
        BY <3>2 DEF Store
      <4>4. [Store(B, s.place, s.pool, 1, s.cache) EXCEPT !.cache = <<>>] = Store(B, s.place, s.pool, 1, <<>>)
        BY DEF Store
      <4> QED
        BY <3>5, <4>1, <4>2, <4>3, <4>4
    <3> QED
      BY <3>4, <3>5
  <2> HIDE DEF B, e, q, n, t
  <2>4. /\ u.archs = B /\ u.place = s.place /\ u.pool = s.pool /\ u.epoch = e /\ u.cache = q
        /\ u = Store(u.archs, u.place, u.pool, u.epoch, u.cache)
    BY DEF Store
  <2> HIDE DEF u
  <2>5. B[n + 1].chunks = <<>> /\ B[n + 1].sig = sig /\ DOMAIN <<>> = {}
    BY <2>1, <2>2
  <2>6. ArchetypesOK(B)
    <3>1. \A cap, k, x : Packed(<<>>, cap) /\ ~Has(<<>>, k, x)
      BY EmptySeq DEF Packed, Has
    <3>2. \A a \in DOMAIN B : Packed(B[a].chunks, Capacity(B, a)) /\ Fitting(B[a].chunks, B[a].sig)
      <4> TAKE a \in DOMAIN B
      <4>1. CASE a = n + 1
        BY <2>5, <3>1, <4>1 DEF Fitting
      <4>2. CASE a \in DOMAIN A
        BY <1>1, <2>2, <4>2 DEF ArchetypesOK, Capacity
      <4> QED
        BY <2>2, <4>1, <4>2
    <3>3. \A a \in DOMAIN A : A[a].sig # sig
      BY <1>2, <1>4, IndexFacts
    <3>4. \A a, b \in DOMAIN B : B[a].sig = B[b].sig => a = b
      <4> TAKE a, b \in DOMAIN B
      <4> HAVE B[a].sig = B[b].sig
      <4>1. CASE a = n + 1 /\ b = n + 1
        BY <4>1
      <4>2. CASE a \in DOMAIN A /\ b \in DOMAIN A
        BY <1>1, <2>2, <4>2 DEF ArchetypesOK
      <4>3. CASE a = n + 1 /\ b \in DOMAIN A
        BY <2>2, <2>5, <3>3, <4>3
      <4>4. CASE a \in DOMAIN A /\ b = n + 1
        BY <2>2, <2>5, <3>3, <4>4
      <4> QED
        BY <2>2, <4>1, <4>2, <4>3, <4>4
    <3> QED
      BY <2>2, <3>2, <3>4 DEF ArchetypesOK
  <2>7. Used(B, DOMAIN B) = Used(A, DOMAIN A)
    BY <2>2, <2>5 DEF Used
  <2>8. UsedOnce(B)
    <3>1. \A a \in DOMAIN B : \A k \in DOMAIN B[a].chunks : a \in DOMAIN A /\ B[a] = A[a]
      BY <2>2, <2>5
    <3> QED
      BY <1>1, <3>1 DEF UsedOnce
  <2>9. StoreOK(u)
    BY <1>1, <2>4, <2>6, <2>7, <2>8 DEF StoreOK
  <2>10. /\ \A l : RowIn(A, l) <=> RowIn(B, l)
         /\ \A l : RowIn(A, l) => RowOf(B, l) = RowOf(A, l) /\ BlockOf(B, l) = BlockOf(A, l)
    <3>1. \A l : RowIn(B, l) => l.arch \in DOMAIN A
      BY <2>2, <2>5 DEF RowIn, Has
    <3>2. \A l : l.arch \in DOMAIN A => /\ RowIn(A, l) <=> RowIn(B, l)
                                       /\ RowOf(B, l) = RowOf(A, l) /\ BlockOf(B, l) = BlockOf(A, l)
      BY <2>2 DEF RowIn, RowOf, BlockOf
    <3> QED
      BY <3>1, <3>2 DEF RowIn
  <2>11. Placed(u, L, H) /\ Holes(u, H)
    BY <2>4, <2>10 DEF Placed, Holes
  <2>12. Grows(s, u, L)
    <3>1. \A a \in DOMAIN A : A[a].version >= A[a].version /\ Len(A[a].chunks) >= Len(A[a].chunks)
      <4>1. \A x \in Nat : x >= x
        OBVIOUS
      <4> QED
        BY <4>1, GrowsTypes
    <3> QED
      BY <2>2, <2>4, <2>10, <3>1 DEF Grows
  <2>13. ArchIndex(u, sig) \in DOMAIN u.archs /\ u.archs[ArchIndex(u, sig)].sig = sig
    <3>1. DOMAIN u.archs = 1 .. Len(u.archs) /\ Len(u.archs) \in Nat
      BY <2>4, <2>6, ArchetypeFacts
    <3>2. n + 1 \in DOMAIN u.archs /\ u.archs[n + 1].sig = sig
      BY <1>2, <2>2, <2>4, <2>5 DEF n
    <3> QED
      BY <3>1, <3>2, IndexFacts
  <2>14. ASSUME CacheOK(s) PROVE CacheOK(u)
    <3>1. EpochMax \in Nat \ {0}
      BY StorageAssumption
    <3>2. s.epoch \in 0 .. EpochMax
      BY <2>14 DEF CacheOK
    <3>3. CASE s.epoch < EpochMax
      <4>1. e = s.epoch + 1 /\ q = s.cache
        BY <3>3 DEF e, q
      <4>2. e \in 0 .. EpochMax /\ \A x \in 0 .. s.epoch : x \in 0 .. e /\ x # e
        BY <3>1, <3>2, <3>3, <4>1
      <4> QED
        BY <2>4, <2>14, <4>1, <4>2 DEF CacheOK
    <3>4. CASE ~(s.epoch < EpochMax)
      <4>1. e = 1 /\ DOMAIN q = {}
        BY <3>4 DEF e, q
      <4>2. 1 \in 0 .. EpochMax
        BY <3>1
      <4> QED
        BY <2>4, <4>1, <4>2 DEF CacheOK
    <3> QED
      BY <3>3, <3>4
  <2> QED
    BY <2>3, <2>4, <2>9, <2>11, <2>12, <2>13, <2>14 DEF t
<1> QED
  BY <1>3, <1>4

----------------------------------------------------------------------------
(* Rows move in. *)

(* Rows that AddRows can put into the archetype of a signature. *)
Addable(s, sig, rows, L, H, m) ==
  /\ StoreOK(s) /\ Placed(s, L, H) /\ Holes(s, H)
  /\ sig \in Signature /\ DOMAIN rows = 1 .. Len(rows) /\ Len(rows) \in Nat
  /\ \A k \in DOMAIN rows : IsRow(rows[k], sig)
  /\ \A j, k \in DOMAIN rows : rows[j].id.index = rows[k].id.index => j = k
  /\ \A id \in L : \A k \in DOMAIN rows : id.index # rows[k].id.index
  /\ m \in Nat /\ CanAcquire(s.pool, Len(rows) + m)

(* AddRows puts every row into the archetype of the signature, once. *)
LEMMA AddFacts ==
  ASSUME NEW s, NEW sig, NEW rows, NEW L, NEW H, NEW m, Addable(s, sig, rows, L, H, m)
  PROVE  LET u == AddRows(s, sig, rows)
         IN  /\ StoreOK(u)
             /\ CacheOK(s) => CacheOK(u)
             /\ Placed(u, L \cup RowIds(rows, DOMAIN rows), H) /\ Holes(u, H)
             /\ Grows(s, u, L) /\ CanAcquire(u.pool, m)
             /\ \E a \in DOMAIN u.archs : /\ u.archs[a].sig = sig
                                          /\ \A k \in DOMAIN rows : Stands(u, a, rows[k])
<1> DEFINE t == find_or_create_archetype(s, sig)
           a == ArchIndex(t, sig)
           u == ReserveRows(t, a, rows)
<1>1. /\ StoreOK(s) /\ Placed(s, L, H) /\ Holes(s, H) /\ sig \in Signature
      /\ DOMAIN rows = 1 .. Len(rows) /\ Len(rows) \in Nat
      /\ \A k \in DOMAIN rows : IsRow(rows[k], sig)
      /\ \A j, k \in DOMAIN rows : rows[j].id.index = rows[k].id.index => j = k
      /\ \A id \in L : \A k \in DOMAIN rows : id.index # rows[k].id.index
      /\ m \in Nat /\ CanAcquire(s.pool, Len(rows) + m)
  BY DEF Addable
<1>2. /\ StoreOK(t) /\ Placed(t, L, H) /\ Holes(t, H) /\ Grows(s, t, L) /\ t.pool = s.pool
      /\ CacheOK(s) => CacheOK(t)
      /\ a \in DOMAIN t.archs /\ t.archs[a].sig = sig
  BY <1>1, FindFacts
<1>3. AddRows(s, sig, rows) = u
  BY DEF AddRows
<1> HIDE DEF t, a
<1>4. /\ StoreOK(u) /\ u.epoch = t.epoch /\ u.cache = t.cache
      /\ Placed(u, L \cup RowIds(rows, DOMAIN rows), H) /\ Holes(u, H)
      /\ Grows(t, u, L) /\ DOMAIN u.archs = DOMAIN t.archs /\ CanAcquire(u.pool, m)
      /\ \A k \in DOMAIN rows : Stands(u, a, rows[k])
  <2>1. Reservable(t, a, rows, L, H, m)
    BY <1>1, <1>2 DEF Reservable
  <2> QED
    BY <2>1, ReserveFacts
<1> HIDE DEF u
<1>5. Grows(s, u, L)
  BY <1>1, <1>2, <1>4, GrowsTwice
<1>6. SameSignatures(t.archs, u.archs)
  BY <1>4 DEF SameSignatures, Grows
<1>7. CacheOK(s) => CacheOK(u)
  BY <1>2, <1>4, <1>6, CacheKept
<1>8. a \in DOMAIN u.archs /\ u.archs[a].sig = sig
  BY <1>2, <1>4, <1>6 DEF SameSignatures
<1> QED
  BY <1>3, <1>4, <1>5, <1>7, <1>8

Trailing(A, a) == Loc(a, Len(A[a].chunks), LastRow(A[a].chunks))

(* The last row of the last chunk of an archetype is a row. *)
LEMMA TrailingFacts ==
  ASSUME NEW s, StoreOK(s), NEW l \in Location, RowIn(s.archs, l)
  PROVE  LET C == s.archs[l.arch].chunks
             m == Trailing(s.archs, l.arch)
         IN  /\ l.arch \in DOMAIN s.archs /\ C # <<>> /\ C \in Seq(Chunk) /\ Len(C) \in Nat \ {0}
             /\ m \in Location /\ m.arch = l.arch /\ m.chunk = Len(C) /\ m.row = LastRow(C)
             /\ RowIn(s.archs, m)
             /\ Last(C[Len(C)].rows) = RowOf(s.archs, m)
             /\ LastRow(C) \in Nat \ {0}
<1> DEFINE A == s.archs
           a == l.arch
           C == A[a].chunks
           m == Trailing(A, a)
<1>1. ArchetypesOK(A)
  BY DEF StoreOK
<1>2. a \in DOMAIN A /\ Has(C, l.chunk, l.row)
  BY DEF RowIn
<1>3. Capacity(A, a) \in Nat \ {0} /\ Packed(C, Capacity(A, a)) /\ a \in Nat
  BY <1>1, <1>2, ArchetypeFacts
<1> DEFINE cap == Capacity(A, a)
<1> HIDE DEF cap, C
<1>4. C # <<>>
  BY <1>2 DEF Has
<1>5. C \in Seq(Chunk) /\ Len(C) \in Nat /\ Len(C) \in DOMAIN C /\ Has(C, Len(C), LastRow(C))
      /\ C[Len(C)].rows \in Seq(RowSet) /\ DOMAIN C = 1 .. Len(C)
  BY <1>3, <1>4, ChunkFacts DEF cap
<1>6. LastRow(C) \in Nat \ {0} /\ Len(C) \in Nat \ {0}
  <2>1. LastRow(C) \in DOMAIN C[Len(C)].rows /\ DOMAIN C[Len(C)].rows = 1 .. LastRow(C) /\ LastRow(C) \in Nat
    BY <1>5 DEF Has, LastRow
  <2> QED
    BY <1>5, <2>1
<1>7. m \in Location /\ m.arch = a /\ m.chunk = Len(C) /\ m.row = LastRow(C)
  <2>1. Len(C) \in Nat /\ LastRow(C) \in Nat
    BY <1>6
  <2> QED
    BY <1>3, <2>1, LocFacts DEF Trailing, C
<1>8. RowIn(A, m)
  BY <1>2, <1>5, <1>7 DEF RowIn, C
<1>9. Last(C[Len(C)].rows) = RowOf(A, m)
  BY <1>7 DEF Last, RowOf, LastRow, C
<1> QED
  BY <1>2, <1>4, <1>5, <1>6, <1>7, <1>8, <1>9 DEF C

(* The hole l was filled from the last row, unless it is the last row.     *)
Filled(s, t, l, L) ==
  LET m == Trailing(s.archs, l.arch)
  IN  /\ StoreOK(t) /\ Placed(t, L, {m}) /\ RowIn(t.archs, m) /\ Trailing(t.archs, l.arch) = m
      /\ t.epoch = s.epoch /\ t.cache = s.cache
      /\ SameSignatures(s.archs, t.archs)
      /\ \A a \in DOMAIN s.archs : a # l.arch => t.archs[a] = s.archs[a]
      /\ t.archs[l.arch].version = s.archs[l.arch].version
      /\ \A id \in L : /\ t.place[id.index].arch = s.place[id.index].arch
                       /\ RowOf(t.archs, t.place[id.index]) = RowOf(s.archs, s.place[id.index])
                       /\ s.place[id.index].arch # l.arch => t.place[id.index] = s.place[id.index]

(* A chunk list with one row replaced by one of the same columns still fits. *)
LEMMA RewrittenFits ==
  ASSUME NEW C, NEW D, NEW sig, NEW j, NEW q, NEW row, NEW cap, Fitting(C, sig),
         row.values \in [Columns(sig) -> Marks], Rewritten(C, D, j, q, row, cap)
  PROVE  Fitting(D, sig)
<1>1. ASSUME NEW k, NEW r, Has(D, k, r) PROVE D[k].rows[r].values \in [Columns(sig) -> Marks]
  <2>1. Has(C, k, r)
    BY <1>1 DEF Rewritten
  <2>2. D[k].rows[r] = IF k = j /\ r = q THEN row ELSE C[k].rows[r]
    BY <2>1 DEF Rewritten
  <2>3. C[k].rows[r].values \in [Columns(sig) -> Marks]
    BY <2>1 DEF Fitting
  <2> QED
    BY <2>2, <2>3
<1> QED
  BY <1>1 DEF Fitting

(* The last row of the archetype is copied over the hole l. *)
LEMMA FillFacts ==
  ASSUME NEW s, StoreOK(s), NEW l \in Location, RowIn(s.archs, l), NEW L, Placed(s, L, {l}),
         l # Trailing(s.archs, l.arch)
  PROVE  Filled(s, FillHole(s, l, RowOf(s.archs, Trailing(s.archs, l.arch))), l, L)
<1> DEFINE A == s.archs
           a == l.arch
           C == A[a].chunks
           m == Trailing(A, a)
           x == RowOf(A, m)
           i == x.id.index
           t == FillHole(s, l, x)
           v == A[a].version
           D == [C EXCEPT ![l.chunk].rows[l.row] = x]
           P == [s.place EXCEPT ![i] = l]
           u == Made(s, a, D, v, P, s.pool)
<1>1. /\ ArchetypesOK(A) /\ UsedOnce(A) /\ PoolSound(s.pool, Used(A, DOMAIN A)) /\ s.place \in [Index -> Location]
      /\ s = Store(s.archs, s.place, s.pool, s.epoch, s.cache)
  BY DEF StoreOK
<1>2. /\ a \in DOMAIN A /\ m \in Location /\ m.arch = a /\ m.chunk = Len(C) /\ m.row = LastRow(C)
      /\ RowIn(A, m) /\ Len(C) \in Nat
  BY TrailingFacts
<1>3. x \in RowSet /\ IsRow(x, A[a].sig)
  BY <1>2, GrowsTypes DEF IsRow
<1>4. x.id \in EntityID /\ i \in Index
  BY <1>3, RowFacts
<1>5. m # l /\ x.id \in L /\ s.place[i] = m
  BY <1>2 DEF Placed
<1> DEFINE cap == Capacity(A, a)
<1>6. /\ C \in Seq(Chunk) /\ cap \in Nat \ {0} /\ Packed(C, cap) /\ Fitting(C, A[a].sig) /\ v \in Nat
      /\ Has(C, l.chunk, l.row)
  BY <1>1, <1>2, ArchetypeFacts DEF RowIn
<1>7. Rewritten(C, D, l.chunk, l.row, x, cap)
  <2> HIDE DEF C, cap, x
  <2> QED
    BY <1>3, <1>6, RewrittenFacts
<1>8. t = u
  <2> DEFINE E == [A EXCEPT ![a].chunks = D]
  <2>1. t = [s EXCEPT !.archs = E, !.place = P]
    BY DEF FillHole
  <2>2. E = With(A, a, D, v)
    <3>1. ArchetypesOK(A) /\ a \in DOMAIN A
      BY <1>1, <1>2
    <3> HIDE DEF A, D, a
    <3> QED
      BY <3>1, WithChunks
  <2> HIDE DEF E, P, D, v
  <2>3. [s EXCEPT !.archs = E, !.place = P] = Store(E, P, s.pool, s.epoch, s.cache)
    BY <1>1, StoreUpdates
  <2> QED
    BY <2>1, <2>2, <2>3 DEF Made
<1> HIDE DEF D, t
<1>9. /\ Packed(D, cap) /\ SameBlocks(C, D) /\ Len(D) = Len(C) /\ LastRow(D) = LastRow(C)
      /\ \A j, q : Has(D, j, q) <=> Has(C, j, q)
      /\ \A j, q : Has(C, j, q) => D[j].rows[q] = IF j = l.chunk /\ q = l.row THEN x ELSE C[j].rows[q]
  BY <1>7 DEF Rewritten
<1>10. Fitting(D, A[a].sig) /\ D \in Seq(Chunk)
  <2>1. D \in Seq(Chunk)
    BY <1>9 DEF Packed
  <2>2. x.values \in [Columns(A[a].sig) -> Marks]
    BY <1>3 DEF IsRow
  <2>3. Fitting(C, A[a].sig)
    BY <1>6
  <2> HIDE DEF x, C, cap
  <2>4. Fitting(D, A[a].sig)
    BY <1>7, <2>2, <2>3, RewrittenFits
  <2> QED
    BY <2>1, <2>4
<1> DEFINE B == With(A, a, D, v)
<1>11. OnlyIn(A, B, a, D, v)
  BY <1>1, <1>2, <1>6, <1>9, <1>10, ChangeOne DEF With
<1>12. UsedOnce(B) /\ Used(B, DOMAIN B) = Used(A, DOMAIN A)
  <2>1. ArchetypesOK(A) /\ UsedOnce(A) /\ a \in DOMAIN A /\ D \in Seq(Chunk) /\ SameBlocks(A[a].chunks, D)
    BY <1>1, <1>2, <1>9, <1>10
  <2>2. Len(D) = Len(A[a].chunks) /\ OnlyIn(A, B, a, D, v)
    BY <1>9, <1>11
  <2> HIDE DEF A, B, v, a
  <2> QED
    BY <2>1, <2>2, BlocksAfter
<1>13. P \in [Index -> Location] /\ P[i] = l /\ \A j \in Index : j # i => P[j] = s.place[j]
  BY <1>1, <1>4
<1> HIDE DEF P
<1>14. StoreOK(u) /\ OnlyIn(A, u.archs, a, D, v) /\ u.place = P /\ u.pool = s.pool
       /\ u.epoch = s.epoch /\ u.cache = s.cache
  <2>1. PoolSound(s.pool, Used(B, DOMAIN B)) /\ UsedOnce(B)
    BY <1>1, <1>12
  <2>2. /\ a \in DOMAIN s.archs /\ v \in Nat /\ Packed(D, Capacity(s.archs, a)) /\ Fitting(D, s.archs[a].sig)
        /\ P \in [Index -> Location] /\ UsedOnce(With(s.archs, a, D, v))
        /\ PoolSound(s.pool, Used(With(s.archs, a, D, v), DOMAIN With(s.archs, a, D, v)))
    BY <1>2, <1>6, <1>9, <1>10, <1>13, <2>1
  <2> HIDE DEF v, a
  <2> QED
    BY <2>2, MakeStore
<1> HIDE DEF u
<1>15. /\ DOMAIN u.archs = DOMAIN A /\ u.archs[a].chunks = D /\ u.archs[a].sig = A[a].sig
       /\ u.archs[a].version = v
       /\ \A b \in DOMAIN A : b # a => u.archs[b] = A[b]
  BY <1>14 DEF OnlyIn
<1>16. /\ \A k : RowIn(u.archs, k) <=> RowIn(A, k)
       /\ \A k \in Location : RowIn(A, k) => RowOf(u.archs, k) = IF k = l THEN x ELSE RowOf(A, k)
  <2> DEFINE A2 == u.archs
  <2> HIDE DEF C, x, A2, A
  <2>1. \A k : RowIn(A2, k) <=> RowIn(A, k)
    <3> TAKE k
    <3>1. CASE k.arch = a
      BY <1>2, <1>9, <1>15, <3>1 DEF RowIn, A2, C
    <3>2. CASE k.arch # a
      BY <1>15, <3>2 DEF RowIn, A2
    <3> QED
      BY <3>1, <3>2
  <2>2. ASSUME NEW k \in Location, RowIn(A, k) PROVE RowOf(A2, k) = IF k = l THEN x ELSE RowOf(A, k)
    <3>1. CASE k.arch = a
      <4>1. Has(C, k.chunk, k.row)
        BY <2>2, <3>1 DEF RowIn, C
      <4>2. k = l <=> k.chunk = l.chunk /\ k.row = l.row
        BY <3>1, LocationFacts
      <4>3. D[k.chunk].rows[k.row] = IF k = l THEN x ELSE C[k.chunk].rows[k.row]
        BY <1>9, <4>1, <4>2
      <4> QED
        BY <1>15, <3>1, <4>3 DEF RowOf, A2, C
    <3>2. CASE k.arch # a
      <4>1. k # l /\ k.arch \in DOMAIN A
        BY <2>2, <3>2 DEF RowIn
      <4> QED
        BY <1>15, <3>2, <4>1 DEF RowOf, A2
    <3> QED
      BY <3>1, <3>2
  <2> QED
    BY <2>1, <2>2 DEF A2
<1>17. Trailing(u.archs, a) = m
  BY <1>9, <1>15 DEF Trailing
<1> HIDE DEF A, C, x, i, m, v
<1>18. /\ L \subseteq EntityID /\ \A id \in L : id.index \in Index /\ s.place[id.index] \in Location
       /\ \A id, jd \in L : id.index = jd.index => id = jd
       /\ \A id \in L : /\ RowIn(A, s.place[id.index]) /\ s.place[id.index] # l
                        /\ RowOf(A, s.place[id.index]).id = id
  <2>1. L \subseteq EntityID
    BY DEF Placed
  <2> QED
    BY <2>1, GrowsTypes DEF Placed, A
<1>19. ASSUME NEW id \in L
       PROVE  /\ u.place[id.index] = IF id = x.id THEN l ELSE s.place[id.index]
              /\ id # x.id => s.place[id.index] # m
  <2>1. id = x.id <=> id.index = i
    BY <1>5, <1>18 DEF i
  <2>2. id # x.id => s.place[id.index] # m
    BY <1>18 DEF x
  <2> QED
    BY <1>13, <1>14, <1>18, <2>1, <2>2
<1>20. \A id \in L : /\ u.place[id.index].arch = s.place[id.index].arch
                     /\ RowOf(u.archs, u.place[id.index]) = RowOf(A, s.place[id.index])
                     /\ s.place[id.index].arch # a => u.place[id.index] = s.place[id.index]
  <2> TAKE id \in L
  <2>1. CASE id = x.id
    <3>1. u.place[id.index] = l /\ s.place[id.index] = m
      BY <1>5, <1>19, <2>1 DEF i
    <3>2. RowIn(A, l) /\ RowOf(u.archs, l) = x
      BY <1>16 DEF A
    <3> QED
      BY <1>2, <3>1, <3>2 DEF x
  <2>2. CASE id # x.id
    BY <1>16, <1>18, <1>19, <2>2
  <2> QED
    BY <2>1, <2>2
<1>21. Placed(u, L, {m})
  <2>1. ASSUME NEW id \in L
        PROVE  /\ RowIn(u.archs, u.place[id.index]) /\ u.place[id.index] # m
               /\ RowOf(u.archs, u.place[id.index]).id = id
    <3>1. CASE id = x.id
      BY <1>5, <1>16, <1>18, <1>19, <1>20, <3>1 DEF A
    <3>2. CASE id # x.id
      BY <1>16, <1>18, <1>19, <1>20, <3>2
    <3> QED
      BY <3>1, <3>2
  <2>2. ASSUME NEW k \in Location, RowIn(u.archs, k), k # m
        PROVE  RowOf(u.archs, k).id \in L /\ u.place[RowOf(u.archs, k).id.index] = k
    <3>1. CASE k = l
      <4>1. RowOf(u.archs, k) = x
        BY <1>16, <2>2, <3>1
      <4> QED
        BY <1>5, <1>19, <3>1, <4>1
    <3>2. CASE k # l
      <4>1. RowIn(A, k) /\ RowOf(u.archs, k) = RowOf(A, k)
        BY <1>16, <2>2, <3>2
      <4>2. RowOf(A, k).id \in L /\ s.place[RowOf(A, k).id.index] = k
        BY <3>2, <4>1 DEF Placed, A
      <4>3. RowOf(A, k).id # x.id
        BY <1>5, <2>2, <4>2 DEF i
      <4> QED
        BY <1>19, <4>1, <4>2, <4>3
    <3> QED
      BY <3>1, <3>2
  <2> QED
    BY <1>18, <2>1, <2>2 DEF Placed
<1>22. SameSignatures(A, u.archs)
  BY <1>15 DEF SameSignatures
<1>23. Filled(s, u, l, L)
  BY <1>2, <1>14, <1>15, <1>16, <1>17, <1>20, <1>21, <1>22 DEF Filled, A, m, v
<1> QED
  BY <1>8, <1>23 DEF A, m, x, t

----------------------------------------------------------------------------
(* Rows move out, chunks go. *)

(* The trailing row of archetype a, the only hole, goes. *)
Drops(s, a, L, D, pool) ==
  /\ StoreOK(s) /\ a \in DOMAIN s.archs
  /\ Trailing(s.archs, a) \in Location
  /\ Placed(s, L, {Trailing(s.archs, a)})
  /\ Shrunk(s.archs[a].chunks, D, Capacity(s.archs, a))
  /\ UsedOnce(With(s.archs, a, D, s.archs[a].version))
  /\ PoolSound(pool, Used(With(s.archs, a, D, s.archs[a].version),
                          DOMAIN With(s.archs, a, D, s.archs[a].version)))

(* What is left when it is gone. *)
DroppedFrom(s, t, a, L) ==
  /\ StoreOK(t) /\ Placed(t, L, {}) /\ t.epoch = s.epoch /\ t.cache = s.cache /\ t.place = s.place
  /\ SameSignatures(s.archs, t.archs)
  /\ \A b \in DOMAIN s.archs : b # a => t.archs[b] = s.archs[b]
  /\ t.archs[a].version = s.archs[a].version
  /\ \A id \in L : RowOf(t.archs, t.place[id.index]) = RowOf(s.archs, s.place[id.index])

(* drop_row, written as a store with one archetype replaced. *)
LEMMA DropMade ==
  ASSUME NEW s, NEW a, NEW L, NEW D, NEW pool, Drops(s, a, L, D, pool)
  PROVE  DroppedFrom(s, Made(s, a, D, s.archs[a].version, s.place, pool), a, L)
<1> DEFINE A == s.archs
           C == A[a].chunks
           v == A[a].version
           m == Trailing(A, a)
           t == Made(s, a, D, v, s.place, pool)
<1>1. /\ StoreOK(s) /\ a \in DOMAIN A /\ m \in Location /\ Placed(s, L, {m})
      /\ Shrunk(C, D, Capacity(A, a)) /\ UsedOnce(With(A, a, D, v))
      /\ PoolSound(pool, Used(With(A, a, D, v), DOMAIN With(A, a, D, v)))
  BY DEF Drops
<1>2. ArchetypesOK(A) /\ s.place \in [Index -> Location]
  BY <1>1 DEF StoreOK
<1>3. v \in Nat /\ Fitting(C, A[a].sig)
  BY <1>1, <1>2, ArchetypeFacts
<1>4. /\ Packed(D, Capacity(A, a))
      /\ \A k, r : Has(D, k, r) <=> Has(C, k, r) /\ ~(k = Len(C) /\ r = LastRow(C))
      /\ \A k, r : Has(D, k, r) => D[k].rows[r] = C[k].rows[r]
  BY <1>1 DEF Shrunk
<1>5. Fitting(D, A[a].sig)
  <2> HIDE DEF C
  <2> QED
    BY <1>3, <1>4 DEF Fitting
<1>6. m.arch = a /\ m.chunk = Len(C) /\ m.row = LastRow(C)
  BY LocFacts DEF Trailing
<1>7. /\ StoreOK(t) /\ OnlyIn(A, t.archs, a, D, v) /\ t.place = s.place /\ t.pool = pool
      /\ t.epoch = s.epoch /\ t.cache = s.cache
  <2>1. /\ StoreOK(s) /\ a \in DOMAIN s.archs /\ v \in Nat /\ Packed(D, Capacity(s.archs, a))
        /\ Fitting(D, s.archs[a].sig) /\ s.place \in [Index -> Location]
        /\ UsedOnce(With(s.archs, a, D, v))
        /\ PoolSound(pool, Used(With(s.archs, a, D, v), DOMAIN With(s.archs, a, D, v)))
    BY <1>1, <1>2, <1>3, <1>4, <1>5
  <2> HIDE DEF v
  <2> QED
    BY <2>1, MakeStore
<1> HIDE DEF t
<1>8. /\ DOMAIN t.archs = DOMAIN A /\ t.archs[a].chunks = D /\ t.archs[a].sig = A[a].sig
      /\ t.archs[a].version = v
      /\ \A b \in DOMAIN A : b # a => t.archs[b] = A[b]
  BY <1>7 DEF OnlyIn
<1> DEFINE B == t.archs
<1> HIDE DEF A, C, v, B
<1>9. ASSUME NEW l \in Location
      PROVE  /\ RowIn(B, l) <=> RowIn(A, l) /\ l # m
             /\ RowIn(B, l) => RowOf(B, l) = RowOf(A, l)
  <2>1. CASE l.arch = a
    <3>1. l = m <=> l.chunk = Len(C) /\ l.row = LastRow(C)
      BY <1>1, <1>6, <2>1, LocationFacts
    <3>2. RowIn(B, l) <=> Has(D, l.chunk, l.row)
      BY <1>1, <1>8, <2>1 DEF RowIn, B
    <3>3. RowIn(A, l) <=> Has(C, l.chunk, l.row)
      BY <1>1, <2>1 DEF RowIn, C
    <3>4. RowOf(B, l) = D[l.chunk].rows[l.row] /\ RowOf(A, l) = C[l.chunk].rows[l.row]
      BY <1>8, <2>1 DEF RowOf, B, C
    <3> QED
      BY <1>4, <3>1, <3>2, <3>3, <3>4
  <2>2. CASE l.arch # a
    <3>1. l # m
      BY <1>6, <2>2
    <3> QED
      BY <1>8, <2>2, <3>1 DEF RowIn, RowOf, B
  <2> QED
    BY <2>1, <2>2
<1>10. /\ L \subseteq EntityID /\ \A id \in L : s.place[id.index] \in Location
       /\ \A id, jd \in L : id.index = jd.index => id = jd
       /\ \A id \in L : /\ RowIn(A, s.place[id.index]) /\ s.place[id.index] # m
                        /\ RowOf(A, s.place[id.index]).id = id
       /\ \A l \in Location : RowIn(A, l) /\ l # m =>
            RowOf(A, l).id \in L /\ s.place[RowOf(A, l).id.index] = l
  <2>1. L \subseteq EntityID
    BY <1>1 DEF Placed
  <2> QED
    BY <1>1, <2>1, GrowsTypes DEF Placed, A
<1>11. Placed(t, L, {})
  <2>1. \A id \in L : /\ RowIn(B, t.place[id.index])
                      /\ RowOf(B, t.place[id.index]).id = id
    BY <1>7, <1>9, <1>10
  <2>2. \A l \in Location : RowIn(B, l) => RowOf(B, l).id \in L /\ t.place[RowOf(B, l).id.index] = l
    BY <1>7, <1>9, <1>10
  <2> QED
    BY <1>10, <2>1, <2>2 DEF Placed, B
<1>12. \A id \in L : RowOf(B, t.place[id.index]) = RowOf(A, s.place[id.index])
  BY <1>7, <1>9, <1>10
<1>13. SameSignatures(A, B)
  BY <1>8 DEF SameSignatures, B
<1> QED
  BY <1>7, <1>8, <1>11, <1>12, <1>13 DEF DroppedFrom, A, B, t, v

(* drop_row closes the only hole, and gives an empty chunk back to the pool. *)
LEMMA DropFacts ==
  ASSUME NEW s, StoreOK(s), NEW a \in DOMAIN s.archs, s.archs[a].chunks # <<>>,
         Trailing(s.archs, a) \in Location, NEW L, Placed(s, L, {Trailing(s.archs, a)})
  PROVE  DroppedFrom(s, DropRow(s, a), a, L)
<1> DEFINE A == s.archs
           C == A[a].chunks
           n == Len(C)
           v == A[a].version
           cap == Capacity(A, a)
           E == [C EXCEPT ![n].rows = Front(@)]
           AE == [A EXCEPT ![a].chunks = E]
           t == [s EXCEPT !.archs[a].chunks[n].rows = Front(@)]
           all == Used(A, DOMAIN A)
<1>1. /\ ArchetypesOK(A) /\ UsedOnce(A) /\ PoolSound(s.pool, all) /\ s.place \in [Index -> Location]
      /\ s = Store(s.archs, s.place, s.pool, s.epoch, s.cache)
  BY DEF StoreOK
<1>2. /\ C \in Seq(Chunk) /\ n \in Nat /\ cap \in Nat \ {0} /\ v \in Nat /\ C # <<>>
      /\ Packed(C, cap) /\ Fitting(C, A[a].sig)
  BY <1>1, ArchetypeFacts
<1>3. n # 0
  BY <1>2, EmptySeq
<1>4. t = Store(AE, s.place, s.pool, s.epoch, s.cache) /\ t.archs = AE /\ AE[a].chunks = E
      /\ AE = With(A, a, E, v)
  <2>1. t = [s EXCEPT !.archs = AE]
    OBVIOUS
  <2>2. AE = With(A, a, E, v)
    <3> HIDE DEF A, E
    <3> QED
      BY <1>1, WithChunks DEF A
  <2>3. AE[a].chunks = E
    BY <2>2 DEF With
  <2> HIDE DEF AE, A, E, v, all
  <2>4. [s EXCEPT !.archs = AE] = Store(AE, s.place, s.pool, s.epoch, s.cache)
    BY <1>1, StoreUpdates
  <2>5. Store(AE, s.place, s.pool, s.epoch, s.cache).archs = AE
    BY StoreFacts
  <2> HIDE DEF t
  <2> QED
    BY <2>1, <2>2, <2>3, <2>4, <2>5
<1>5. DropRow(s, a) = IF t.archs[a].chunks[n].rows # <<>> THEN t
                      ELSE [t EXCEPT !.archs[a].chunks = Front(@), !.pool = Release(@, C[n].block)]
  BY DEF DropRow
<1> HIDE DEF t, AE
<1>6. ASSUME NEW D, Shrunk(C, D, cap), NEW pool, UsedOnce(With(A, a, D, v)),
             PoolSound(pool, Used(With(A, a, D, v), DOMAIN With(A, a, D, v)))
      PROVE  DroppedFrom(s, Made(s, a, D, v, s.place, pool), a, L)
  <2>1. Drops(s, a, L, D, pool)
    BY <1>6 DEF Drops
  <2> QED
    BY <2>1, DropMade
<1>7. ASSUME NEW D, Shrunk(C, D, cap)
      PROVE  /\ OnlyIn(A, With(A, a, D, v), a, D, v) /\ D \in Seq(Chunk) /\ SameBlocks(C, D)
  <2>1. Packed(D, cap) /\ SameBlocks(C, D)
    BY <1>7 DEF Shrunk
  <2>2. Fitting(D, A[a].sig)
    <3>1. /\ \A k, r : Has(D, k, r) => Has(C, k, r)
          /\ \A k, r : Has(D, k, r) => D[k].rows[r] = C[k].rows[r]
      BY <1>7 DEF Shrunk
    <3> HIDE DEF C
    <3> QED
      BY <1>2, <3>1 DEF Fitting
  <2>3. D \in Seq(Chunk)
    BY <2>1 DEF Packed
  <2>4. OnlyIn(A, With(A, a, D, v), a, D, v)
    <3> HIDE DEF A, v
    <3> QED
      BY <1>1, <1>2, <2>1, <2>2, ChangeOne DEF With, A, cap
  <2> QED
    BY <2>1, <2>3, <2>4
<1>8. CASE LastRow(C) # 1
  <2>1. Shrunk(C, E, cap) /\ Len(E) = n /\ E[n].rows # <<>>
    <3> HIDE DEF C, cap
    <3> QED
      BY <1>2, <1>8, ShrunkInPlace
  <2>2. DropRow(s, a) = Made(s, a, E, v, s.place, s.pool)
    BY <1>4, <1>5, <2>1 DEF Made
  <2> HIDE DEF E
  <2> DEFINE B == With(A, a, E, v)
  <2>3. OnlyIn(A, B, a, E, v) /\ E \in Seq(Chunk) /\ SameBlocks(C, E)
    BY <1>7, <2>1
  <2>4. UsedOnce(B) /\ Used(B, DOMAIN B) = all
    <3>1. Len(E) = Len(A[a].chunks) /\ SameBlocks(A[a].chunks, E)
      BY <2>1, <2>3
    <3>2. ArchetypesOK(A) /\ UsedOnce(A) /\ a \in DOMAIN A /\ OnlyIn(A, B, a, E, v) /\ E \in Seq(Chunk)
      BY <1>1, <2>3
    <3> HIDE DEF B, v, A, C
    <3>3. UsedOnce(B) /\ Used(B, DOMAIN B) = Used(A, DOMAIN A)
      BY <3>1, <3>2, BlocksAfter
    <3> QED
      BY <3>3
  <2> QED
    BY <1>1, <1>6, <2>1, <2>2, <2>4
<1>9. CASE LastRow(C) = 1
  <2> DEFINE D == Front(E)
             B == With(A, a, D, v)
             b == C[n].block
             q == Release(s.pool, b)
  <2>1. Shrunk(C, D, cap) /\ Len(D) = n - 1 /\ E[n].rows = <<>>
    <3> HIDE DEF C, cap
    <3> QED
      BY <1>2, <1>9, ShrunkByChunk
  <2>2. OnlyIn(A, B, a, D, v) /\ D \in Seq(Chunk) /\ SameBlocks(C, D)
    <3> HIDE DEF D
    <3> QED
      BY <1>7, <2>1
  <2>3. DropRow(s, a) = [t EXCEPT !.archs[a].chunks = Front(@), !.pool = Release(@, b)]
    BY <1>4, <1>5, <2>1
  <2>4. UsedOnce(B) /\ Used(B, DOMAIN B) = all \ {b} /\ b \in all
    <3>1. Len(D) = Len(A[a].chunks) - 1 /\ SameBlocks(A[a].chunks, D) /\ Len(A[a].chunks) # 0
      BY <1>3, <2>1, <2>2
    <3>2. ArchetypesOK(A) /\ UsedOnce(A) /\ a \in DOMAIN A /\ OnlyIn(A, B, a, D, v) /\ D \in Seq(Chunk)
      BY <1>1, <2>2
    <3> HIDE DEF B, v, D, A, C
    <3>3. /\ UsedOnce(B)
          /\ Used(B, DOMAIN B) = Used(A, DOMAIN A) \ {A[a].chunks[Len(A[a].chunks)].block}
          /\ A[a].chunks[Len(A[a].chunks)].block \in Used(A, DOMAIN A)
      BY <3>1, <3>2, BlocksAfter
    <3> QED
      BY <3>3 DEF C
  <2>5. PoolSound(q, Used(B, DOMAIN B))
    <3> HIDE DEF all, b
    <3> QED
      BY <1>1, <2>4, ReleaseFacts
  <2>6. DropRow(s, a) = Made(s, a, D, v, s.place, q)
    <3> DEFINE AD == [AE EXCEPT ![a].chunks = D]
               x1 == s.place
               x2 == s.pool
               x3 == s.epoch
               x4 == s.cache
    <3>1. t = Store(AE, x1, x2, x3, x4) /\ AE[a].chunks = E
      BY <1>4
    <3>2. AD = B
      <4>1. AE = [A EXCEPT ![a] = [sig |-> A[a].sig, version |-> v, chunks |-> E]]
        BY <1>4 DEF With
      <4> DEFINE c == [sig |-> A[a].sig, version |-> v, chunks |-> E]
      <4>2. [c EXCEPT !.chunks = D] = [sig |-> A[a].sig, version |-> v, chunks |-> D]
        <5> HIDE DEF D
        <5> QED
          OBVIOUS
      <4>3. AE[a] = c
        BY <4>1
      <4>4. AD = [AE EXCEPT ![a] = [AE[a] EXCEPT !.chunks = D]]
        OBVIOUS
      <4> HIDE DEF c, D
      <4> QED
        BY <4>1, <4>2, <4>3, <4>4 DEF With, c
    <3>3. [t EXCEPT !.archs[a].chunks = Front(@), !.pool = Release(@, b)]
          = [t EXCEPT !.archs = [t.archs EXCEPT ![a].chunks = Front(@)], !.pool = Release(t.pool, b)]
      OBVIOUS
    <3>4. t.archs = AE /\ t.pool = x2
      BY <3>1 DEF Store
    <3>5. [AE EXCEPT ![a].chunks = Front(@)] = AD
      BY <3>1
    <3> HIDE DEF x1, x2, x3, x4, AD, D, E, B, b
    <3>6. /\ t = Store(t.archs, t.place, t.pool, t.epoch, t.cache)
          /\ t.place = x1 /\ t.epoch = x3 /\ t.cache = x4
      BY <3>1 DEF Store
    <3> DEFINE r == Release(x2, b)
    <3> HIDE DEF r
    <3>7. [t EXCEPT !.archs = AD, !.pool = r] = Store(AD, x1, r, x3, x4)
      <4>1. [t EXCEPT !.archs = AD, !.pool = r] = Store(AD, t.place, r, t.epoch, t.cache)
        BY <3>6, StoreUpdates
      <4> QED
        BY <3>6, <4>1
    <3> QED
      BY <2>3, <3>2, <3>3, <3>4, <3>5, <3>7 DEF Made, B, x1, x2, x3, x4, r
  <2> HIDE DEF D, q
  <2> QED
    BY <1>6, <2>1, <2>4, <2>5, <2>6
<1> QED
  BY <1>8, <1>9

----------------------------------------------------------------------------
(* Compaction. *)

LEMMA CompactFacts ==
  ASSUME NEW s, StoreOK(s), NEW l \in Location, RowIn(s.archs, l), NEW L, Placed(s, L, {l})
  PROVE  Compacted(s, compact(s, l), l, L)
<1> DEFINE A == s.archs
           a == l.arch
           C == A[a].chunks
           n == Len(C)
           m == Trailing(A, a)
           x == Last(C[n].rows)
           hole == ~(l.chunk = n /\ l.row = Len(C[n].rows))
           t == IF hole THEN FillHole(s, l, x) ELSE s
           r == [t EXCEPT !.archs[a].version = @ + 1]
           u == DropRow(r, a)
<1>1. compact(s, l) = u
  BY DEF compact
<1>2. /\ a \in DOMAIN A /\ C # <<>> /\ m \in Location /\ m.arch = a /\ m.chunk = n /\ m.row = LastRow(C)
      /\ RowIn(A, m) /\ x = RowOf(A, m)
  BY TrailingFacts
<1>3. hole <=> l # m
  BY <1>2, LocationFacts DEF LastRow
<1>4. Filled(s, t, l, L)
  <2>1. CASE l # m
    <3>1. t = FillHole(s, l, RowOf(A, m)) /\ l # m
      BY <1>2, <1>3, <2>1
    <3> HIDE DEF t
    <3> QED
      BY <3>1, FillFacts
  <2>2. CASE l = m
    <3>1. t = s
      BY <1>3, <2>2
    <3>2. SameSignatures(A, A)
      BY DEF SameSignatures
    <3> HIDE DEF t
    <3> QED
      BY <1>2, <2>2, <3>1, <3>2 DEF Filled
  <2> QED
    BY <2>1, <2>2
<1> HIDE DEF t
<1>5. /\ StoreOK(t) /\ Placed(t, L, {m}) /\ RowIn(t.archs, m) /\ Trailing(t.archs, a) = m
      /\ t.epoch = s.epoch /\ t.cache = s.cache /\ SameSignatures(A, t.archs)
      /\ \A b \in DOMAIN A : b # a => t.archs[b] = A[b]
      /\ t.archs[a].version = A[a].version
      /\ \A id \in L : /\ t.place[id.index].arch = s.place[id.index].arch
                       /\ RowOf(t.archs, t.place[id.index]) = RowOf(A, s.place[id.index])
                       /\ s.place[id.index].arch # a => t.place[id.index] = s.place[id.index]
  BY <1>4 DEF Filled
<1>6. a \in DOMAIN t.archs
  BY <1>2, <1>5 DEF SameSignatures
<1>7. /\ StoreOK(r) /\ SameChunks(t, r) /\ r.archs[a].version = t.archs[a].version + 1
      /\ \A b \in DOMAIN t.archs : b # a => r.archs[b] = t.archs[b]
  <2>1. 1 \in Nat /\ StoreOK(t) /\ a \in DOMAIN t.archs
    BY <1>5, <1>6
  <2> HIDE DEF a
  <2> QED
    BY <2>1, BumpFacts
<1> HIDE DEF r, m
<1>8. /\ r.place = t.place /\ r.epoch = t.epoch /\ r.cache = t.cache
      /\ DOMAIN r.archs = DOMAIN t.archs
      /\ \A b \in DOMAIN t.archs : r.archs[b].sig = t.archs[b].sig /\ r.archs[b].chunks = t.archs[b].chunks
  BY <1>7 DEF SameChunks
<1>9. Placed(r, L, {m}) /\ \A k : RowIn(t.archs, k) => RowIn(r.archs, k) /\ RowOf(r.archs, k) = RowOf(t.archs, k)
  <2>1. Holes(t, {m})
    BY <1>5 DEF Holes
  <2> QED
    BY <1>5, <1>7, <2>1, SameRows
<1>10. Trailing(r.archs, a) = m /\ a \in DOMAIN r.archs /\ r.archs[a].chunks # <<>>
  <2>1. r.archs[a].chunks = t.archs[a].chunks
    BY <1>6, <1>8
  <2>2. t.archs[a].chunks # <<>>
    <3>1. m.chunk \in DOMAIN t.archs[a].chunks
      BY <1>2, <1>5 DEF RowIn, Has
    <3> QED
      BY <3>1
  <2> QED
    BY <1>5, <1>6, <1>8, <2>1, <2>2 DEF Trailing
<1>11. DroppedFrom(r, u, a, L)
  BY <1>2, <1>7, <1>9, <1>10, DropFacts
<1> HIDE DEF u
<1>12. /\ StoreOK(u) /\ Placed(u, L, {}) /\ u.epoch = r.epoch /\ u.cache = r.cache /\ u.place = r.place
       /\ SameSignatures(r.archs, u.archs)
       /\ \A b \in DOMAIN r.archs : b # a => u.archs[b] = r.archs[b]
       /\ u.archs[a].version = r.archs[a].version
       /\ \A id \in L : RowOf(u.archs, u.place[id.index]) = RowOf(r.archs, r.place[id.index])
  BY <1>11 DEF DroppedFrom
<1>13. SameSignatures(A, u.archs)
  BY <1>5, <1>8, <1>12 DEF SameSignatures
<1>14. \A b \in DOMAIN A : b # a => u.archs[b] = A[b]
  BY <1>5, <1>7, <1>8, <1>12 DEF SameSignatures
<1>15. ASSUME NEW id \in L
       PROVE  /\ u.place[id.index].arch = s.place[id.index].arch
              /\ RowOf(u.archs, u.place[id.index]) = RowOf(A, s.place[id.index])
              /\ s.place[id.index].arch # a => u.place[id.index] = s.place[id.index]
  <2>1. RowIn(t.archs, t.place[id.index])
    BY <1>5 DEF Placed
  <2> QED
    BY <1>5, <1>8, <1>9, <1>12, <2>1
<1>16. u.archs[a].version = A[a].version + 1
  BY <1>5, <1>7, <1>12
<1> QED
  BY <1>1, <1>5, <1>8, <1>12, <1>13, <1>14, <1>15, <1>16 DEF Compacted

============================================================================
