------------------------- MODULE WorldStorageProofs -------------------------
(***************************************************************************)
(* The storage of a World, from what one operation of the store does       *)
(* (ArchetypeProofs) to what each call does to the table and the store     *)
(* together. StorageInv is the inductive invariant; that blocks are owned  *)
(* once, caches complete, rows and slots a correspondence and addresses    *)
(* guarded by versions follow from it, and so does the refinement of       *)
(* EntityStore.                                                            *)
(***************************************************************************)
EXTENDS ArchetypeProofs

----------------------------------------------------------------------------
(* Versions. *)

(* No archetype goes, and no version goes back. *)
VersionsGrow(s, t) ==
  /\ DOMAIN s.archs \subseteq DOMAIN t.archs
  /\ \A a \in DOMAIN s.archs : t.archs[a].sig = s.archs[a].sig /\ t.archs[a].version >= s.archs[a].version

(* An entity keeps its row, and its address unless the version went up. *)
Keeps(s, t, id) ==
  LET l == s.place[id.index]
      m == t.place[id.index]
  IN  /\ m.arch = l.arch
      /\ RowOf(t.archs, m) = RowOf(s.archs, l)
      /\ t.archs[l.arch].version = s.archs[l.arch].version =>
           m = l /\ BlockOf(t.archs, m) = BlockOf(s.archs, l)

(* The storage is sound and holds the entities L. *)
Sound(s, L) == StoreOK(s) /\ Placed(s, L, {}) /\ CacheOK(s)

(* Whoever stays where he was keeps his row. *)
LEMMA GrowsKeeps ==
  ASSUME NEW s, NEW t, NEW L, NEW H, NEW M, Placed(s, M, H), L \subseteq M, Grows(s, t, L)
  PROVE  VersionsGrow(s, t) /\ \A id \in L : Keeps(s, t, id)
<1>1. VersionsGrow(s, t)
  BY DEF Grows, VersionsGrow
<1>2. ASSUME NEW id \in L PROVE Keeps(s, t, id)
  <2> DEFINE l == s.place[id.index]
  <2>1. RowIn(s.archs, l)
    BY DEF Placed
  <2>2. t.place[id.index] = l
    BY DEF Grows
  <2> HIDE DEF l
  <2>3. RowOf(t.archs, l) = RowOf(s.archs, l) /\ BlockOf(t.archs, l) = BlockOf(s.archs, l)
    BY <2>1 DEF Grows
  <2> QED
    BY <2>2, <2>3 DEF Keeps, l
<1> QED
  BY <1>1, <1>2

(* Every entity but the one compacted away keeps its row. *)
LEMMA CompactedKeeps ==
  ASSUME NEW s, StoreOK(s), NEW t, NEW l, RowIn(s.archs, l), NEW L, NEW H, Placed(s, L, H), Compacted(s, t, l, L)
  PROVE  VersionsGrow(s, t) /\ \A id \in L : Keeps(s, t, id)
<1> DEFINE a == l.arch
<1>1. /\ SameSignatures(s.archs, t.archs)
      /\ \A b \in DOMAIN s.archs : b # a => t.archs[b] = s.archs[b]
      /\ t.archs[a].version = s.archs[a].version + 1
      /\ \A id \in L : /\ t.place[id.index].arch = s.place[id.index].arch
                       /\ RowOf(t.archs, t.place[id.index]) = RowOf(s.archs, s.place[id.index])
                       /\ s.place[id.index].arch # a => t.place[id.index] = s.place[id.index]
  BY DEF Compacted
<1>2. a \in DOMAIN s.archs /\ \A b \in DOMAIN s.archs : s.archs[b].version \in Nat
  BY GrowsTypes DEF RowIn
<1> HIDE DEF a
<1>3. \A v \in Nat : v + 1 >= v /\ v + 1 # v /\ v >= v
  OBVIOUS
<1>4. VersionsGrow(s, t)
  BY <1>1, <1>2, <1>3 DEF VersionsGrow, SameSignatures
<1>5. ASSUME NEW id \in L PROVE Keeps(s, t, id)
  <2> DEFINE k == s.place[id.index]
  <2>1. k.arch \in DOMAIN s.archs
    BY DEF Placed, RowIn
  <2>2. CASE k.arch = a
    BY <1>1, <1>2, <1>3, <2>2 DEF Keeps
  <2>3. CASE k.arch # a
    BY <1>1, <2>1, <2>3 DEF Keeps, BlockOf
  <2> QED
    BY <2>2, <2>3
<1> QED
  BY <1>4, <1>5

(* What is kept twice is kept. *)
LEMMA KeepsTwice ==
  ASSUME NEW s, StoreOK(s), NEW t, StoreOK(t), NEW u, StoreOK(u), VersionsGrow(s, t), VersionsGrow(t, u)
  PROVE  /\ VersionsGrow(s, u)
         /\ \A id : s.place[id.index].arch \in DOMAIN s.archs /\ Keeps(s, t, id) /\ Keeps(t, u, id) =>
                      Keeps(s, u, id)
<1>1. ASSUME NEW a \in DOMAIN s.archs
      PROVE  /\ u.archs[a].sig = s.archs[a].sig
             /\ u.archs[a].version >= t.archs[a].version /\ t.archs[a].version >= s.archs[a].version
             /\ u.archs[a].version \in Nat /\ t.archs[a].version \in Nat /\ s.archs[a].version \in Nat
             /\ a \in DOMAIN t.archs /\ a \in DOMAIN u.archs
  <2>1. a \in DOMAIN t.archs /\ a \in DOMAIN u.archs
    BY DEF VersionsGrow
  <2>2. /\ t.archs[a].sig = s.archs[a].sig /\ u.archs[a].sig = t.archs[a].sig
        /\ u.archs[a].version >= t.archs[a].version /\ t.archs[a].version >= s.archs[a].version
    BY <2>1 DEF VersionsGrow
  <2>3. u.archs[a].version \in Nat /\ t.archs[a].version \in Nat /\ s.archs[a].version \in Nat
    BY <2>1, GrowsTypes
  <2> QED
    BY <2>1, <2>2, <2>3
<1>2. \A x, y, z \in Nat : z >= y /\ y >= x => z >= x /\ (z = x => y = x)
  OBVIOUS
<1>3. VersionsGrow(s, u)
  BY <1>1, <1>2 DEF VersionsGrow
<1>4. ASSUME NEW id, s.place[id.index].arch \in DOMAIN s.archs, Keeps(s, t, id), Keeps(t, u, id)
      PROVE  Keeps(s, u, id)
  <2> DEFINE l == s.place[id.index]
             m == t.place[id.index]
             k == u.place[id.index]
             a == l.arch
  <2>1. /\ m.arch = l.arch /\ RowOf(t.archs, m) = RowOf(s.archs, l)
        /\ t.archs[l.arch].version = s.archs[l.arch].version =>
             m = l /\ BlockOf(t.archs, m) = BlockOf(s.archs, l)
    BY <1>4 DEF Keeps
  <2>2. /\ k.arch = m.arch /\ RowOf(u.archs, k) = RowOf(t.archs, m)
        /\ u.archs[m.arch].version = t.archs[m.arch].version =>
             k = m /\ BlockOf(u.archs, k) = BlockOf(t.archs, m)
    BY <1>4 DEF Keeps
  <2>3. u.archs[a].version = s.archs[a].version =>
          u.archs[a].version = t.archs[a].version /\ t.archs[a].version = s.archs[a].version
    BY <1>1, <1>2, <1>4
  <2> HIDE DEF l, m, k
  <2>4. /\ k.arch = l.arch /\ RowOf(u.archs, k) = RowOf(s.archs, l)
        /\ u.archs[l.arch].version = s.archs[l.arch].version => k = l /\ BlockOf(u.archs, k) = BlockOf(s.archs, l)
    BY <2>1, <2>2, <2>3
  <2> QED
    BY <2>4 DEF Keeps, l, k
<1> QED
  BY <1>3, <1>4

(* The row of an entity that goes is a hole. *)
LEMMA TakeOut ==
  ASSUME NEW s, StoreOK(s), NEW L, Placed(s, L, {}), NEW id \in L
  PROVE  /\ s.place[id.index] \in Location /\ RowIn(s.archs, s.place[id.index])
         /\ Placed(s, L \ {id}, {s.place[id.index]})
<1> DEFINE l == s.place[id.index]
<1>1. /\ L \subseteq EntityID
      /\ \A jd, kd \in L : jd.index = kd.index => jd = kd
      /\ \A jd \in L : RowIn(s.archs, s.place[jd.index]) /\ RowOf(s.archs, s.place[jd.index]).id = jd
      /\ \A k \in Location : RowIn(s.archs, k) =>
           RowOf(s.archs, k).id \in L /\ s.place[RowOf(s.archs, k).id.index] = k
  BY DEF Placed
<1>2. l \in Location
  BY <1>1, GrowsTypes
<1>3. \A jd \in L \ {id} : s.place[jd.index] # l
  BY <1>1
<1>4. \A k \in Location : RowIn(s.archs, k) /\ k # l => RowOf(s.archs, k).id \in L \ {id}
  BY <1>1
<1> HIDE DEF l
<1>5. Placed(s, L \ {id}, {l})
  BY <1>1, <1>3, <1>4 DEF Placed
<1> QED
  BY <1>1, <1>2, <1>5 DEF l

(* A migration gives the entity the signature and values asked for, and no other entity notices. *)
LEMMA MigrateFacts ==
  ASSUME NEW s, NEW L, Sound(s, L), NEW id \in L, NEW sig \in Signature,
         NEW values \in [Columns(sig) -> Marks], CanAcquire(s.pool, 1)
  PROVE  LET t == Migrate(s, id, sig, values)
         IN  /\ Sound(t, L) /\ VersionsGrow(s, t)
             /\ \A jd \in L \ {id} : Keeps(s, t, jd)
             /\ t.archs[t.place[id.index].arch].sig = sig
             /\ RowOf(t.archs, t.place[id.index]) = Row(id, values)
<1> DEFINE from == s.place[id.index]
           row == Row(id, values)
           rows == <<row>>
           K == L \ {id}
           u == AddRows(s, sig, rows)
           t == compact(u, from)
<1>1. StoreOK(s) /\ Placed(s, L, {}) /\ CacheOK(s)
  BY DEF Sound
<1>2. from \in Location /\ RowIn(s.archs, from) /\ Placed(s, K, {from})
  BY <1>1, TakeOut
<1>3. L \subseteq EntityID /\ \A jd, kd \in L : jd.index = kd.index => jd = kd
  BY <1>1 DEF Placed
<1>4. row.id = id /\ row.values = values /\ IsRow(row, sig)
  <2>1. sig \subseteq Component
    BY DEF Signature
  <2>2. Columns(sig) \in SUBSET Component
    BY <2>1 DEF Columns
  <2>3. row \in RowSet
    BY <1>3, <2>2 DEF Row, RowSet
  <2> QED
    BY <2>3 DEF IsRow, Row
<1> HIDE DEF from, row
<1>5. Len(rows) = 1 /\ DOMAIN rows = 1 .. Len(rows) /\ \A k \in DOMAIN rows : k = 1 /\ rows[k] = row
  OBVIOUS
<1>6. Addable(s, sig, rows, K, {from}, 0)
  <2>1. Holes(s, {from})
    BY <1>2 DEF Holes
  <2>2. \A jd \in K : \A k \in DOMAIN rows : jd.index # rows[k].id.index
    BY <1>3, <1>4, <1>5
  <2>3. \A k \in DOMAIN rows : IsRow(rows[k], sig)
    BY <1>4, <1>5
  <2>4. Len(rows) \in Nat /\ CanAcquire(s.pool, Len(rows) + 0) /\ 0 \in Nat /\ DOMAIN rows = 1 .. Len(rows)
    BY <1>5
  <2>5. \A j, k \in DOMAIN rows : rows[j].id.index = rows[k].id.index => j = k
    BY <1>5
  <2> HIDE DEF rows, K
  <2> QED
    BY <1>1, <1>2, <2>1, <2>2, <2>3, <2>4, <2>5 DEF Addable
<1>7. K \cup RowIds(rows, DOMAIN rows) = L
  BY <1>3, <1>4, <1>5 DEF RowIds
<1> HIDE DEF rows, K
<1>8. /\ StoreOK(u) /\ CacheOK(u) /\ Placed(u, L, {from}) /\ Holes(u, {from}) /\ Grows(s, u, K)
      /\ \E a \in DOMAIN u.archs : u.archs[a].sig = sig /\ \A k \in DOMAIN rows : Stands(u, a, rows[k])
  <2> DEFINE H == {from}
             M == K \cup RowIds(rows, DOMAIN rows)
  <2>1. Addable(s, sig, rows, K, H, 0)
    BY <1>6
  <2> HIDE DEF H, u
  <2>2. /\ StoreOK(u) /\ (CacheOK(s) => CacheOK(u)) /\ Placed(u, M, H) /\ Holes(u, H) /\ Grows(s, u, K)
        /\ \E a \in DOMAIN u.archs : u.archs[a].sig = sig /\ \A k \in DOMAIN rows : Stands(u, a, rows[k])
    BY <2>1, AddFacts DEF u
  <2> QED
    BY <1>1, <1>7, <2>2 DEF H
<1> HIDE DEF u
<1>9. /\ u.archs[u.place[id.index].arch].sig = sig /\ RowOf(u.archs, u.place[id.index]) = row
      /\ u.place[id.index].arch \in DOMAIN u.archs
  <2>1. 1 \in DOMAIN rows /\ rows[1] = row
    BY <1>5
  <2> QED
    BY <1>4, <1>8, <2>1 DEF Stands
<1>10. RowIn(u.archs, from)
  BY <1>8 DEF Holes
<1>11. Compacted(u, t, from, L)
  BY <1>2, <1>8, <1>10, CompactFacts
<1> HIDE DEF t
<1>12. /\ StoreOK(t) /\ Placed(t, L, {}) /\ t.epoch = u.epoch /\ t.cache = u.cache
       /\ SameSignatures(u.archs, t.archs)
       /\ \A jd \in L : /\ t.place[jd.index].arch = u.place[jd.index].arch
                        /\ RowOf(t.archs, t.place[jd.index]) = RowOf(u.archs, u.place[jd.index])
  BY <1>11 DEF Compacted
<1>13. CacheOK(t)
  BY <1>8, <1>12, CacheKept
<1>14. VersionsGrow(s, u) /\ \A jd \in K : Keeps(s, u, jd)
  <2>1. K \subseteq K
    OBVIOUS
  <2> QED
    BY <1>2, <1>8, <2>1, GrowsKeeps
<1>15. VersionsGrow(u, t) /\ \A jd \in L : Keeps(u, t, jd)
  BY <1>8, <1>10, <1>11, CompactedKeeps
<1>16. VersionsGrow(s, t) /\ \A jd \in K : Keeps(s, t, jd)
  <2>1. \A jd \in K : s.place[jd.index].arch \in DOMAIN s.archs
    BY <1>2 DEF Placed, RowIn
  <2>2. K \subseteq L
    BY DEF K
  <2> QED
    BY <1>1, <1>8, <1>12, <1>14, <1>15, <2>1, <2>2, KeepsTwice
<1>17. /\ t.archs[t.place[id.index].arch].sig = sig /\ RowOf(t.archs, t.place[id.index]) = row
  BY <1>9, <1>12 DEF SameSignatures
<1> QED
  BY <1>12, <1>13, <1>16, <1>17 DEF Sound, Migrate, K, row, u, t, from, rows

----------------------------------------------------------------------------
(* Columns are overwritten. *)

Overwrite(s, l, row) == [s EXCEPT !.archs[l.arch].chunks[l.chunk].rows[l.row] = row]

(* The row of an entity is replaced by another of its own. *)
Overwritten(s, t, id, row) ==
  /\ t.epoch = s.epoch /\ t.cache = s.cache /\ t.place = s.place
  /\ SameSignatures(s.archs, t.archs)
  /\ \A b \in DOMAIN s.archs : t.archs[b].version = s.archs[b].version
  /\ RowOf(t.archs, t.place[id.index]) = row
  /\ \A l \in Location : RowIn(s.archs, l) => BlockOf(t.archs, l) = BlockOf(s.archs, l)

(* A row with one column assigned is a row. *)
LEMMA WithValue ==
  ASSUME NEW sig \in SUBSET Component, NEW x, IsRow(x, sig), NEW c \in Columns(sig), NEW mark \in Marks
  PROVE  LET y == [x EXCEPT !.values[c] = mark]
         IN  IsRow(y, sig) /\ y = Row(x.id, [x.values EXCEPT ![c] = mark])
<1> DEFINE i == x.id
           v == x.values
           w == [v EXCEPT ![c] = mark]
           y == [x EXCEPT !.values[c] = mark]
<1>1. x \in RowSet /\ v \in [Columns(sig) -> Marks]
  BY DEF IsRow
<1>2. x = [id |-> i, values |-> v] /\ i \in EntityID
  BY <1>1 DEF RowSet
<1>3. w \in [Columns(sig) -> Marks]
  BY <1>1
<1>4. y = [x EXCEPT !.values = w]
  OBVIOUS
<1> HIDE DEF w, i, v, y
<1>5. y = [id |-> i, values |-> w]
  BY <1>2, <1>4
<1>6. Columns(sig) \in SUBSET Component
  BY DEF Columns
<1>7. y \in RowSet
  BY <1>2, <1>3, <1>5, <1>6 DEF RowSet
<1> QED
  BY <1>3, <1>5, <1>7 DEF IsRow, Row, w, i, v, y

(* No other row is, and the store is still sound. *)
OverwritesOnly(s, t, L, id, row) ==
  /\ StoreOK(t) /\ Placed(t, L, {}) /\ Overwritten(s, t, id, row)
  /\ \A jd \in L \ {id} : RowOf(t.archs, s.place[jd.index]) = RowOf(s.archs, s.place[jd.index])

(* To overwrite the row of an entity changes no other row. *)
LEMMA OverwriteFacts ==
  ASSUME NEW s, NEW L, StoreOK(s), Placed(s, L, {}), NEW id \in L, NEW row,
         IsRow(row, s.archs[s.place[id.index].arch].sig), row.id = id
  PROVE  OverwritesOnly(s, Overwrite(s, s.place[id.index], row), L, id, row)
<1> DEFINE A == s.archs
           l == s.place[id.index]
           a == l.arch
           C == A[a].chunks
           cap == Capacity(A, a)
           v == A[a].version
           D == [C EXCEPT ![l.chunk].rows[l.row] = row]
           B == With(A, a, D, v)
           t == [s EXCEPT !.archs[l.arch].chunks[l.chunk].rows[l.row] = row]
           u == Made(s, a, D, v, s.place, s.pool)
<1>1. /\ ArchetypesOK(A) /\ UsedOnce(A) /\ PoolSound(s.pool, Used(A, DOMAIN A)) /\ s.place \in [Index -> Location]
      /\ s = Store(s.archs, s.place, s.pool, s.epoch, s.cache)
  BY DEF StoreOK
<1>2. l \in Location /\ RowIn(A, l) /\ a \in DOMAIN A /\ Has(C, l.chunk, l.row)
  BY TakeOut DEF RowIn
<1>3. /\ C \in Seq(Chunk) /\ cap \in Nat \ {0} /\ Packed(C, cap) /\ Fitting(C, A[a].sig) /\ v \in Nat
  BY <1>1, <1>2, ArchetypeFacts
<1>4. row \in RowSet /\ row.values \in [Columns(A[a].sig) -> Marks]
  BY DEF IsRow
<1>5. Rewritten(C, D, l.chunk, l.row, row, cap)
  <2> HIDE DEF C, cap, l
  <2> QED
    BY <1>2, <1>3, <1>4, RewrittenFacts
<1>6. t = u
  <2> DEFINE E == [A EXCEPT ![a].chunks = D]
  <2>1. t = [s EXCEPT !.archs = E]
    OBVIOUS
  <2>2. E = With(A, a, D, v)
    <3> HIDE DEF A, D, a
    <3> QED
      BY <1>1, <1>2, WithChunks
  <2> HIDE DEF E, D, v, t
  <2>3. [s EXCEPT !.archs = E] = Store(E, s.place, s.pool, s.epoch, s.cache)
    BY <1>1, StoreUpdates
  <2> QED
    BY <2>1, <2>2, <2>3 DEF Made
<1> HIDE DEF D, t
<1>7. /\ Packed(D, cap) /\ SameBlocks(C, D) /\ Len(D) = Len(C)
      /\ \A j, q : Has(D, j, q) <=> Has(C, j, q)
      /\ \A j, q : Has(C, j, q) => D[j].rows[q] = IF j = l.chunk /\ q = l.row THEN row ELSE C[j].rows[q]
  BY <1>5 DEF Rewritten
<1>8. Fitting(D, A[a].sig) /\ D \in Seq(Chunk)
  <2>1. D \in Seq(Chunk)
    BY <1>7 DEF Packed
  <2>2. Fitting(C, A[a].sig) /\ row.values \in [Columns(A[a].sig) -> Marks]
    BY <1>3, <1>4
  <2> HIDE DEF C, l, cap
  <2>3. Fitting(D, A[a].sig)
    BY <1>5, <2>2, RewrittenFits
  <2> QED
    BY <2>1, <2>3
<1>9. OnlyIn(A, B, a, D, v)
  <2> HIDE DEF A, v, a
  <2> QED
    BY <1>1, <1>2, <1>3, <1>7, <1>8, ChangeOne DEF With, cap
<1>10. UsedOnce(B) /\ Used(B, DOMAIN B) = Used(A, DOMAIN A)
  <2>1. ArchetypesOK(A) /\ UsedOnce(A) /\ a \in DOMAIN A /\ D \in Seq(Chunk) /\ SameBlocks(A[a].chunks, D)
    BY <1>1, <1>2, <1>7, <1>8
  <2>2. Len(D) = Len(A[a].chunks) /\ OnlyIn(A, B, a, D, v)
    BY <1>7, <1>9
  <2> HIDE DEF A, B, v, a
  <2> QED
    BY <2>1, <2>2, BlocksAfter
<1>11. /\ StoreOK(u) /\ OnlyIn(A, u.archs, a, D, v) /\ u.place = s.place /\ u.pool = s.pool
       /\ u.epoch = s.epoch /\ u.cache = s.cache
  <2>1. /\ a \in DOMAIN s.archs /\ v \in Nat /\ Packed(D, Capacity(s.archs, a)) /\ Fitting(D, s.archs[a].sig)
        /\ s.place \in [Index -> Location] /\ UsedOnce(With(s.archs, a, D, v))
        /\ PoolSound(s.pool, Used(With(s.archs, a, D, v), DOMAIN With(s.archs, a, D, v)))
    BY <1>1, <1>2, <1>3, <1>7, <1>8, <1>10
  <2> HIDE DEF v, a
  <2> QED
    BY <2>1, MakeStore
<1> HIDE DEF u
<1>12. /\ DOMAIN u.archs = DOMAIN A /\ u.archs[a].chunks = D /\ u.archs[a].sig = A[a].sig
       /\ u.archs[a].version = v
       /\ \A b \in DOMAIN A : b # a => u.archs[b] = A[b]
  BY <1>11 DEF OnlyIn
<1> DEFINE W == u.archs
<1> HIDE DEF A, C, v, W, l, a
<1>13. l.arch = a
  BY DEF a
<1>14. ASSUME NEW k \in Location
       PROVE  /\ RowIn(W, k) <=> RowIn(A, k)
              /\ RowIn(A, k) => /\ RowOf(W, k) = IF k = l THEN row ELSE RowOf(A, k)
                                /\ BlockOf(W, k) = BlockOf(A, k)
  <2>1. CASE k.arch = a
    <3>1. /\ RowIn(W, k) <=> Has(D, k.chunk, k.row)
          /\ RowOf(W, k) = D[k.chunk].rows[k.row] /\ BlockOf(W, k) = D[k.chunk].block
      BY <1>2, <1>12, <2>1 DEF RowIn, RowOf, BlockOf, W
    <3>2. /\ RowIn(A, k) <=> Has(C, k.chunk, k.row)
          /\ RowOf(A, k) = C[k.chunk].rows[k.row] /\ BlockOf(A, k) = C[k.chunk].block
      BY <1>2, <2>1 DEF RowIn, RowOf, BlockOf, C
    <3>3. k = l <=> k.chunk = l.chunk /\ k.row = l.row
      BY <1>2, <1>13, <2>1, LocationFacts
    <3>4. Has(C, k.chunk, k.row) => D[k.chunk].block = C[k.chunk].block
      BY <1>7 DEF SameBlocks, Has
    <3> QED
      BY <1>7, <3>1, <3>2, <3>3, <3>4
  <2>2. CASE k.arch # a
    BY <1>12, <1>13, <2>2 DEF RowIn, RowOf, BlockOf, W
  <2> QED
    BY <2>1, <2>2
<1>15. /\ L \subseteq EntityID /\ \A jd \in L : s.place[jd.index] \in Location
       /\ \A jd, kd \in L : jd.index = kd.index => jd = kd
       /\ \A jd \in L : /\ RowIn(A, s.place[jd.index]) /\ RowOf(A, s.place[jd.index]).id = jd
       /\ \A k \in Location : RowIn(A, k) => RowOf(A, k).id \in L /\ s.place[RowOf(A, k).id.index] = k
  <2>1. L \subseteq EntityID
    BY DEF Placed
  <2> QED
    BY <2>1, GrowsTypes DEF Placed, A
<1>16. \A k \in Location : RowIn(A, k) => RowOf(W, k).id = RowOf(A, k).id
  BY <1>14, <1>15 DEF l
<1>17. Placed(u, L, {})
  <2>1. \A jd \in L : RowIn(W, s.place[jd.index]) /\ RowOf(W, s.place[jd.index]).id = jd
    BY <1>14, <1>15, <1>16
  <2>2. \A k \in Location : RowIn(W, k) => RowOf(W, k).id \in L /\ s.place[RowOf(W, k).id.index] = k
    BY <1>14, <1>15, <1>16
  <2> QED
    BY <1>11, <1>15, <2>1, <2>2 DEF Placed, W
<1>18. Overwritten(s, u, id, row)
  <2>1. SameSignatures(A, W) /\ \A b \in DOMAIN A : W[b].version = A[b].version
    BY <1>2, <1>12 DEF SameSignatures, v, W
  <2>2. RowOf(W, u.place[id.index]) = row
    BY <1>2, <1>11, <1>14 DEF l
  <2>3. \A k \in Location : RowIn(A, k) => BlockOf(W, k) = BlockOf(A, k)
    BY <1>14
  <2> QED
    BY <1>11, <2>1, <2>2, <2>3 DEF Overwritten, A, W
<1>19. \A jd \in L \ {id} : RowOf(W, s.place[jd.index]) = RowOf(A, s.place[jd.index])
  <2>1. \A jd \in L \ {id} : s.place[jd.index] # l
    BY <1>15 DEF l
  <2> QED
    BY <1>14, <1>15, <2>1
<1>20. Overwrite(s, s.place[id.index], row) = u
  BY <1>6 DEF t, l, Overwrite
<1> QED
  BY <1>11, <1>17, <1>18, <1>19, <1>20 DEF A, W, OverwritesOnly

----------------------------------------------------------------------------
(* Rows are assigned. *)

SigAt(s, id) == s.archs[s.place[id.index].arch].sig
RowOfId(s, id) == RowOf(s.archs, s.place[id.index])
Stored(t, sig, rows) == \A k \in DOMAIN rows : SigAt(t, rows[k].id) = sig /\ RowOfId(t, rows[k].id) = rows[k]

(* The entities L keep what they have, the others of M have a row each. *)
LEMMA SoundRows ==
  ASSUME NEW s, NEW L, Sound(s, L), NEW id \in L
  PROVE  /\ id \in EntityID /\ s.place[id.index] \in Location /\ RowIn(s.archs, s.place[id.index])
         /\ s.place[id.index].arch \in DOMAIN s.archs
         /\ SigAt(s, id) \in Signature /\ IsRow(RowOfId(s, id), SigAt(s, id))
         /\ RowOfId(s, id).id = id
         /\ RowOfId(s, id) = Row(id, RowOfId(s, id).values)
         /\ RowOfId(s, id).values \in [Columns(SigAt(s, id)) -> Marks]
<1> DEFINE l == s.place[id.index]
<1>1. StoreOK(s) /\ Placed(s, L, {}) /\ ArchetypesOK(s.archs)
  BY DEF Sound, StoreOK
<1>2. /\ id \in EntityID /\ RowIn(s.archs, l) /\ RowOf(s.archs, l).id = id
  BY <1>1 DEF Placed
<1>3. l.arch \in DOMAIN s.archs
  BY <1>2 DEF RowIn
<1>4. IsRow(RowOf(s.archs, l), s.archs[l.arch].sig) /\ l \in Location
  BY <1>1, <1>2, GrowsTypes
<1>5. s.archs[l.arch].sig \in Signature
  BY <1>1, <1>3, ArchetypeFacts
<1>6. RowOf(s.archs, l) \in RowSet /\ RowOf(s.archs, l).values \in [Columns(s.archs[l.arch].sig) -> Marks]
  BY <1>4 DEF IsRow
<1>7. RowOf(s.archs, l) = [id |-> RowOf(s.archs, l).id, values |-> RowOf(s.archs, l).values]
  BY <1>6 DEF RowSet
<1> QED
  BY <1>2, <1>3, <1>4, <1>5, <1>6, <1>7 DEF SigAt, RowOfId, Row

(* add_component of a component the entity has. *)
Assign(s, id, c, mark) ==
  LET l == s.place[id.index]
  IN  [s EXCEPT !.archs[l.arch].chunks[l.chunk].rows[l.row].values[c] = mark]
Assigned(s, t, L, id, c, mark) ==
  /\ Sound(t, L) /\ VersionsGrow(s, t) /\ \A jd \in L \ {id} : Keeps(s, t, jd)
  /\ t.place = s.place
  /\ \A jd \in L : BlockOf(t.archs, t.place[jd.index]) = BlockOf(s.archs, s.place[jd.index])
  /\ SigAt(t, id) = SigAt(s, id)
  /\ RowOfId(t, id) = Row(id, [RowOfId(s, id).values EXCEPT ![c] = mark])

(* replace_component assigns one column of one entity. *)
LEMMA ReplaceFacts ==
  ASSUME NEW s, NEW L, Sound(s, L), NEW id \in L, NEW c \in Columns(SigAt(s, id)), NEW mark \in Marks
  PROVE  Assigned(s, Assign(s, id, c, mark), L, id, c, mark)
<1> DEFINE l == s.place[id.index]
           x == RowOf(s.archs, l)
           y == [x EXCEPT !.values[c] = mark]
           t == [s EXCEPT !.archs[l.arch].chunks[l.chunk].rows[l.row].values[c] = mark]
           u == Overwrite(s, l, y)
<1>1. t = u
  BY DEF RowOf, Overwrite
<1>2. StoreOK(s) /\ Placed(s, L, {}) /\ CacheOK(s)
  BY DEF Sound
<1>3. /\ SigAt(s, id) \in SUBSET Component /\ IsRow(x, SigAt(s, id)) /\ x.id = id
      /\ l.arch \in DOMAIN s.archs
  BY SoundRows DEF Signature, RowOfId
<1>4. IsRow(y, SigAt(s, id)) /\ y = Row(id, [x.values EXCEPT ![c] = mark]) /\ y.id = id
  <2> HIDE DEF x
  <2>1. IsRow(y, SigAt(s, id)) /\ y = Row(x.id, [x.values EXCEPT ![c] = mark])
    BY <1>3, WithValue
  <2> QED
    BY <1>3, <2>1 DEF Row
<1> HIDE DEF y
<1>5. /\ StoreOK(u) /\ Placed(u, L, {}) /\ Overwritten(s, u, id, y)
      /\ \A jd \in L \ {id} : RowOf(u.archs, s.place[jd.index]) = RowOf(s.archs, s.place[jd.index])
  <2>1. IsRow(y, s.archs[s.place[id.index].arch].sig) /\ y.id = id
    BY <1>4 DEF SigAt
  <2>2. StoreOK(s) /\ Placed(s, L, {})
    BY <1>2
  <2>3. OverwritesOnly(s, Overwrite(s, s.place[id.index], y), L, id, y)
    <3> HIDE DEF y
    <3> QED
      BY <2>1, <2>2, OverwriteFacts
  <2> QED
    BY <2>3 DEF OverwritesOnly
<1> HIDE DEF t, u, l
<1>6. /\ u.epoch = s.epoch /\ u.cache = s.cache /\ u.place = s.place
      /\ SameSignatures(s.archs, u.archs)
      /\ \A b \in DOMAIN s.archs : u.archs[b].version = s.archs[b].version
      /\ RowOf(u.archs, u.place[id.index]) = y
      /\ \A k \in Location : RowIn(s.archs, k) => BlockOf(u.archs, k) = BlockOf(s.archs, k)
  BY <1>5 DEF Overwritten
<1>7. CacheOK(u)
  BY <1>2, <1>6, CacheKept
<1>8. VersionsGrow(s, u)
  <2>1. \A b \in DOMAIN s.archs : u.archs[b].version >= s.archs[b].version
    <3>1. \A b \in DOMAIN s.archs : s.archs[b].version \in Nat
      BY <1>2, GrowsTypes
    <3> QED
      BY <1>6, <3>1
  <2> QED
    BY <1>6, <2>1 DEF VersionsGrow, SameSignatures
<1>9. \A jd \in L : s.place[jd.index] \in Location /\ RowIn(s.archs, s.place[jd.index])
  BY SoundRows
<1>10. \A jd \in L : BlockOf(u.archs, u.place[jd.index]) = BlockOf(s.archs, s.place[jd.index])
  BY <1>6, <1>9
<1>11. \A jd \in L \ {id} : Keeps(s, u, jd)
  BY <1>5, <1>6, <1>10 DEF Keeps
<1>12. SigAt(u, id) = SigAt(s, id)
  BY <1>3, <1>6 DEF SigAt, SameSignatures, l
<1>13. RowOfId(u, id) = Row(id, [RowOfId(s, id).values EXCEPT ![c] = mark])
  BY <1>4, <1>6 DEF RowOfId, l
<1> QED
  BY <1>1, <1>5, <1>6, <1>7, <1>8, <1>10, <1>11, <1>12, <1>13 DEF Sound, Assign, Assigned, t, l

(* destroy_entity of an entity that has a row. *)
LEMMA RemoveFacts ==
  ASSUME NEW s, NEW L, Sound(s, L), NEW id \in L
  PROVE  LET t == [compact(s, s.place[id.index]) EXCEPT !.place[id.index] = Nowhere]
         IN  /\ Sound(t, L \ {id}) /\ VersionsGrow(s, t)
             /\ \A jd \in L \ {id} : Keeps(s, t, jd)
<1> DEFINE l == s.place[id.index]
           K == L \ {id}
           u == compact(s, l)
           P == [u.place EXCEPT ![id.index] = Nowhere]
           t == [u EXCEPT !.place[id.index] = Nowhere]
<1>1. StoreOK(s) /\ Placed(s, L, {}) /\ CacheOK(s)
  BY DEF Sound
<1>2. l \in Location /\ RowIn(s.archs, l) /\ Placed(s, K, {l})
  BY <1>1, TakeOut
<1>3. Compacted(s, u, l, K)
  BY <1>1, <1>2, CompactFacts
<1>4. VersionsGrow(s, u) /\ \A jd \in K : Keeps(s, u, jd)
  <2> HIDE DEF u, l, K
  <2> QED
    BY <1>1, <1>2, <1>3, CompactedKeeps
<1> HIDE DEF u
<1>5. /\ StoreOK(u) /\ Placed(u, K, {}) /\ u.epoch = s.epoch /\ u.cache = s.cache
      /\ SameSignatures(s.archs, u.archs)
  BY <1>3 DEF Compacted
<1>6. /\ u = Store(u.archs, u.place, u.pool, u.epoch, u.cache) /\ u.place \in [Index -> Location]
      /\ ArchetypesOK(u.archs) /\ PoolSound(u.pool, Used(u.archs, DOMAIN u.archs)) /\ UsedOnce(u.archs)
  BY <1>5 DEF StoreOK
<1>7. P \in [Index -> Location]
  <2>1. Nowhere \in Location
    BY LocFacts DEF Nowhere
  <2> QED
    BY <1>6, <2>1
<1>8. t = Store(u.archs, P, u.pool, u.epoch, u.cache)
  <2>1. t = [u EXCEPT !.place = P]
    OBVIOUS
  <2> HIDE DEF P, t
  <2> QED
    BY <1>6, <2>1, StoreUpdates
<1>9. /\ t.archs = u.archs /\ t.place = P /\ t.pool = u.pool /\ t.epoch = u.epoch /\ t.cache = u.cache
      /\ t = Store(t.archs, t.place, t.pool, t.epoch, t.cache)
  <2> HIDE DEF P, t
  <2> QED
    BY <1>8 DEF Store
<1>10. \A jd \in K : jd.index # id.index /\ P[jd.index] = u.place[jd.index]
  <2>1. L \subseteq EntityID /\ \A jd, kd \in L : jd.index = kd.index => jd = kd
    BY <1>1 DEF Placed
  <2>2. \A jd \in K : jd.index \in Index /\ jd.index # id.index
    BY <2>1 DEF EntityID
  <2> QED
    BY <1>6, <2>2
<1> HIDE DEF t, P, K
<1>11. StoreOK(t)
  BY <1>6, <1>7, <1>9 DEF StoreOK
<1>12. Placed(t, K, {})
  <2>1. \A jd \in K : RowIn(u.archs, u.place[jd.index]) /\ RowOf(u.archs, u.place[jd.index]).id = jd
    BY <1>5 DEF Placed
  <2>2. \A k \in Location : RowIn(u.archs, k) => RowOf(u.archs, k).id \in K /\ u.place[RowOf(u.archs, k).id.index] = k
    BY <1>5 DEF Placed
  <2>3. K \subseteq EntityID /\ \A jd, kd \in K : jd.index = kd.index => jd = kd
    BY <1>5 DEF Placed
  <2> QED
    BY <1>9, <1>10, <2>1, <2>2, <2>3 DEF Placed
<1>13. CacheOK(t)
  <2>1. SameSignatures(s.archs, t.archs)
    BY <1>5, <1>9
  <2> QED
    BY <1>1, <1>5, <1>9, <2>1, CacheKept
<1>14. VersionsGrow(s, t)
  BY <1>4, <1>9 DEF VersionsGrow
<1>15. \A jd \in K : Keeps(s, t, jd)
  BY <1>4, <1>9, <1>10 DEF Keeps
<1> QED
  BY <1>11, <1>12, <1>13, <1>14, <1>15 DEF Sound, t, u, K

(* create_entities, and a batch of reserved ones. *)
LEMMA AddedFacts ==
  ASSUME NEW s, NEW L, NEW rows, NEW sig, NEW m, Sound(s, L), Addable(s, sig, rows, L, {}, m)
  PROVE  LET t == AddRows(s, sig, rows)
         IN  /\ Sound(t, L \cup RowIds(rows, DOMAIN rows)) /\ VersionsGrow(s, t)
             /\ CanAcquire(t.pool, m)
             /\ \A jd \in L : Keeps(s, t, jd)
             /\ Stored(t, sig, rows)
<1> DEFINE H == {}
           M == L \cup RowIds(rows, DOMAIN rows)
           t == AddRows(s, sig, rows)
<1>1. Addable(s, sig, rows, L, H, m) /\ StoreOK(s) /\ Placed(s, L, H) /\ CacheOK(s) /\ L \subseteq L
  BY DEF Sound
<1> HIDE DEF H, t
<1>2. /\ StoreOK(t) /\ (CacheOK(s) => CacheOK(t)) /\ Placed(t, M, H) /\ Grows(s, t, L) /\ CanAcquire(t.pool, m)
      /\ \E a \in DOMAIN t.archs : t.archs[a].sig = sig /\ \A k \in DOMAIN rows : Stands(t, a, rows[k])
  BY <1>1, AddFacts DEF t
<1>3. VersionsGrow(s, t) /\ \A jd \in L : Keeps(s, t, jd)
  BY <1>1, <1>2, GrowsKeeps
<1>4. Stored(t, sig, rows)
  BY <1>2 DEF Stored, Stands, SigAt, RowOfId
<1>5. Sound(t, M)
  BY <1>1, <1>2 DEF Sound, H
<1> QED
  BY <1>2, <1>3, <1>4, <1>5 DEF t

----------------------------------------------------------------------------
(* Resolving a query. *)

(* resolve_query_cache, an archetype at a time. *)
GatherNext(p, k, m) == IF Matches(p[1][p[3][k]].sig, p[2]) THEN Append(m, p[3][k]) ELSE m
Gathered(p, T, m) ==
  /\ m \in Seq(Nat)
  /\ \A a : (\E i \in DOMAIN m : m[i] = a) <=> a \in T /\ Matches(p[1][a].sig, p[2])
  /\ \A i, j \in DOMAIN m : i < j => m[i] < m[j]
Gathering == INSTANCE Folding WITH Step <- GatherNext, Pick <- Latest, Holds <- Gathered

(* The prefilter on hashed ids decides nothing the ids do not decide. *)
LEMMA MatchesExactly ==
  ASSUME NEW sig, NEW key
  PROVE  Matches(sig, key) <=> key.require \subseteq sig /\ key.exclude \cap sig = {}
<1>1. \A S, T : S \subseteq T => matcher_hash(S) \subseteq matcher_hash(T)
  BY DEF matcher_hash
<1>2. matcher_hash(key.exclude) \cap matcher_hash(sig) = {} => key.exclude \cap sig = {}
  <2> SUFFICES ASSUME NEW c \in key.exclude \cap sig
               PROVE  c % MatcherBits \in matcher_hash(key.exclude) \cap matcher_hash(sig)
    OBVIOUS
  <2> QED
    BY DEF matcher_hash
<1> QED
  BY <1>1, <1>2 DEF Matches

(* Matching collects the archetypes a query asks for, all of them and in order. *)
LEMMA MatchingFacts ==
  ASSUME NEW A, DOMAIN A = 1 .. Len(A), Len(A) \in Nat, NEW key
  PROVE  Complete(A, key, Matching(A, key))
<1> DEFINE n == Len(A)
           q == [a \in DOMAIN A |-> a]
           p == <<A, key, q>>
           none == <<>>
<1>1. p[1] = A /\ p[2] = key /\ p[3] = q
  OBVIOUS
<1>2. DOMAIN q = 1 .. n /\ (\A k \in 1 .. n : q[k] = k) /\ Len(q) = n
  OBVIOUS
<1> HIDE DEF p
<1>3. none \in Seq(Nat) /\ DOMAIN none = {} /\ Gathered(p, {}, none)
  <2>1. none \in Seq(Nat) /\ DOMAIN none = {}
    OBVIOUS
  <2> HIDE DEF none
  <2> QED
    BY <2>1 DEF Gathered
<1>4. ASSUME NEW T \in SUBSET (1 .. n), NEW m, T # {}, Gathered(p, T \ {Latest(T)}, m)
      PROVE  Gathered(p, T, GatherNext(p, Latest(T), m))
  <2> DEFINE k == Latest(T)
             U == T \ {k}
  <2>1. k \in T /\ k \in 1 .. n /\ (\A x \in T : k >= x) /\ q[k] = k
    BY <1>2, <1>4, Earlier
  <2>2. /\ m \in Seq(Nat)
        /\ \A a : (\E i \in DOMAIN m : m[i] = a) <=> a \in U /\ Matches(A[a].sig, key)
        /\ \A i, j \in DOMAIN m : i < j => m[i] < m[j]
    BY <1>1, <1>4 DEF Gathered
  <2>3. GatherNext(p, k, m) = IF Matches(A[k].sig, key) THEN Append(m, k) ELSE m
    BY <1>1, <2>1 DEF GatherNext
  <2> HIDE DEF k, U
  <2>4. CASE ~Matches(A[k].sig, key)
    <3>1. \A a : a \in T <=> a \in U \/ a = k
      BY <2>1 DEF U
    <3>2. \A a : (\E i \in DOMAIN m : m[i] = a) <=> a \in T /\ Matches(A[a].sig, key)
      BY <2>2, <2>4, <3>1
    <3>3. Gathered(p, T, m)
      BY <1>1, <2>2, <3>2 DEF Gathered
    <3> QED
      BY <2>3, <2>4, <3>3 DEF k
  <2>5. CASE Matches(A[k].sig, key)
    <3> DEFINE w == Append(m, k)
               c == Len(m)
    <3>1. /\ c \in Nat /\ DOMAIN m = 1 .. c /\ DOMAIN w = 1 .. c + 1 /\ w[c + 1] = k
          /\ (\A i \in 1 .. c : w[i] = m[i] /\ m[i] \in Nat) /\ w \in Seq(Nat)
      BY <2>1, <2>2
    <3> HIDE DEF w, c
    <3>2. \A i \in DOMAIN m : m[i] \in U /\ m[i] < k
      <4>1. \A i \in DOMAIN m : m[i] \in U
        BY <2>2
      <4>2. \A a \in U : a < k
        <5>1. \A a \in U : a \in 1 .. n /\ a # k /\ k >= a
          BY <2>1 DEF U
        <5>2. \A x, y \in Nat : x >= y /\ y # x => y < x
          OBVIOUS
        <5>3. k \in Nat /\ \A a \in U : a \in Nat
          BY <2>1, <5>1
        <5> QED
          BY <5>1, <5>2, <5>3
      <4> QED
        BY <4>1, <4>2
    <3>3. \A a : (\E i \in DOMAIN w : w[i] = a) <=> a \in T /\ Matches(A[a].sig, key)
      <4>1. \A a : a \in T <=> a \in U \/ a = k
        BY <2>1 DEF U
      <4>2. \A i : i \in DOMAIN w <=> i \in DOMAIN m \/ i = c + 1
        BY <3>1
      <4>3. \A a : (\E i \in DOMAIN w : w[i] = a) <=> (\E i \in DOMAIN m : m[i] = a) \/ a = k
        BY <3>1, <4>2
      <4> QED
        BY <2>2, <2>5, <4>1, <4>3
    <3>4. \A i, j \in DOMAIN w : i < j => w[i] < w[j]
      <4> TAKE i, j \in DOMAIN w
      <4> HAVE i < j
      <4>1. i \in DOMAIN m /\ w[i] = m[i] /\ (j = c + 1 \/ j \in DOMAIN m)
        BY <3>1
      <4>2. CASE j = c + 1
        BY <3>1, <3>2, <4>1, <4>2
      <4>3. CASE j \in DOMAIN m
        BY <2>2, <3>1, <4>1, <4>3
      <4> QED
        BY <4>1, <4>2, <4>3
    <3>5. Gathered(p, T, w)
      BY <1>1, <3>1, <3>3, <3>4 DEF Gathered
    <3> QED
      BY <2>3, <2>5, <3>5 DEF k, w
  <2> QED
    BY <2>4, <2>5
<1>5. Gathering!Picks(1 .. n)
  BY InOrder DEF Gathering!Picks, Gathering!Measures
<1>6. Gathered(p, 1 .. n, Gathering!Folded(p, none, 1 .. n))
  <2> HIDE DEF none
  <2> QED
    BY <1>3, <1>4, <1>5, Gathering!FoldInvariant
<1> DEFINE m == FoldLeft(LAMBDA m, a : IF Matches(A[a].sig, key) THEN Append(m, a) ELSE m, <<>>, q)
<1>7. m = Gathering!Folded(p, none, DOMAIN q)
  BY <1>1 DEF FoldLeft, MapThenFoldSet, Gathering!Folded, Gathering!Iterated, Gathering!FoldRule, GatherNext, Latest
<1>8. Matching(A, key) = m
  BY DEF Matching
<1> HIDE DEF m, q
<1>9. Gathered(p, 1 .. n, m)
  BY <1>2, <1>6, <1>7
<1>10. \A a : a \in Range(m) <=> \E i \in DOMAIN m : m[i] = a
  BY DEF Range
<1>11. \A a : a \in Range(m) <=> a \in DOMAIN A /\ key.require \subseteq A[a].sig /\ key.exclude \cap A[a].sig = {}
  BY <1>1, <1>9, <1>10, MatchesExactly DEF Gathered
<1>12. \A i, j \in DOMAIN m : i < j => m[i] < m[j]
  BY <1>9 DEF Gathered
<1> QED
  BY <1>8, <1>11, <1>12 DEF Complete

----------------------------------------------------------------------------
(* The pool alone, the cache alone. *)

(* Only the pool, or only the cache, is another. *)
SameStorage(s, t) == t.archs = s.archs /\ t.place = s.place

(* Whoever touches the pool or the caches only leaves every entity alone. *)
LEMMA SameStorageKeeps ==
  ASSUME NEW s, NEW t, SameStorage(s, t), NEW L, Sound(s, L), StoreOK(t), CacheOK(t)
  PROVE  /\ Sound(t, L) /\ VersionsGrow(s, t) /\ \A id \in L : Keeps(s, t, id)
<1>1. Placed(s, L, {}) /\ StoreOK(s)
  BY DEF Sound
<1>2. Placed(t, L, {})
  BY <1>1 DEF Placed, SameStorage
<1>3. \A a \in DOMAIN s.archs : s.archs[a].version >= s.archs[a].version
  <2>1. \A a \in DOMAIN s.archs : s.archs[a].version \in Nat
    BY <1>1, GrowsTypes
  <2> QED
    BY <2>1
<1> QED
  BY <1>2, <1>3 DEF Sound, VersionsGrow, Keeps, SameStorage

(* The tick of the pool leaves the storage alone. *)
LEMMA TickFacts ==
  ASSUME NEW s, NEW L, Sound(s, L)
  PROVE  LET t == [s EXCEPT !.pool = AdvanceTick(@)]
         IN  Sound(t, L) /\ SameStorage(s, t)
<1> DEFINE q == AdvanceTick(s.pool)
           all == Used(s.archs, DOMAIN s.archs)
           t == [s EXCEPT !.pool = q]
<1>1. StoreOK(s) /\ CacheOK(s)
  BY DEF Sound
<1>2. /\ s = Store(s.archs, s.place, s.pool, s.epoch, s.cache) /\ ArchetypesOK(s.archs)
      /\ s.place \in [Index -> Location] /\ PoolSound(s.pool, all) /\ UsedOnce(s.archs)
  BY <1>1 DEF StoreOK
<1>3. PoolSound(q, all)
  <2> HIDE DEF all
  <2> QED
    BY <1>2, AdvanceFacts
<1> HIDE DEF q
<1>4. t = Store(s.archs, s.place, q, s.epoch, s.cache)
  BY <1>2, StoreUpdates
<1> HIDE DEF t
<1>5. /\ t.archs = s.archs /\ t.place = s.place /\ t.pool = q /\ t.epoch = s.epoch /\ t.cache = s.cache
      /\ t = Store(t.archs, t.place, t.pool, t.epoch, t.cache)
  BY <1>4 DEF Store
<1>6. StoreOK(t)
  BY <1>2, <1>3, <1>5 DEF StoreOK
<1>7. CacheOK(t)
  BY <1>1, <1>5 DEF CacheOK
<1>8. SameStorage(s, t)
  BY <1>5 DEF SameStorage
<1> QED
  BY <1>6, <1>7, <1>8, SameStorageKeeps DEF t, q

(* A query leaves the storage alone, and its cache is complete. *)
LEMMA QueryFacts ==
  ASSUME NEW s, NEW L, Sound(s, L), NEW key
  PROVE  LET t == resolve_query_cache(s, key)
         IN  Sound(t, L) /\ SameStorage(s, t)
<1> DEFINE e == [epoch |-> s.epoch, matched |-> Matching(s.archs, key)]
           q == [k \in DOMAIN s.cache \cup {key} |-> IF k = key THEN e ELSE s.cache[k]]
           u == [s EXCEPT !.cache = q]
           t == resolve_query_cache(s, key)
<1>1. StoreOK(s) /\ CacheOK(s)
  BY DEF Sound
<1>2. CASE t = s
  BY <1>2 DEF SameStorage
<1>3. CASE t = u
  <2>1. /\ s = Store(s.archs, s.place, s.pool, s.epoch, s.cache) /\ ArchetypesOK(s.archs)
        /\ s.place \in [Index -> Location] /\ PoolSound(s.pool, Used(s.archs, DOMAIN s.archs))
        /\ UsedOnce(s.archs)
    BY <1>1 DEF StoreOK
  <2>2. DOMAIN s.archs = 1 .. Len(s.archs) /\ Len(s.archs) \in Nat
    BY <2>1, ArchetypeFacts
  <2>3. Complete(s.archs, key, Matching(s.archs, key))
    BY <2>2, MatchingFacts
  <2>4. e.epoch = s.epoch /\ Complete(s.archs, key, e.matched)
    BY <2>3
  <2> HIDE DEF e
  <2>5. DOMAIN q = DOMAIN s.cache \cup {key} /\ \A k \in DOMAIN q : q[k] = IF k = key THEN e ELSE s.cache[k]
    OBVIOUS
  <2> HIDE DEF q
  <2>6. u = Store(s.archs, s.place, s.pool, s.epoch, q)
    <3> DEFINE x1 == s.archs
               x2 == s.place
               x3 == s.pool
               x4 == s.epoch
               x5 == s.cache
    <3>1. s = Store(x1, x2, x3, x4, x5)
      BY <2>1
    <3> HIDE DEF x1, x2, x3, x4, x5
    <3>2. u = Store(x1, x2, x3, x4, q)
      BY <3>1 DEF Store
    <3> QED
      BY <3>2 DEF x1, x2, x3, x4
  <2> HIDE DEF u
  <2>7. /\ u.archs = s.archs /\ u.place = s.place /\ u.pool = s.pool /\ u.epoch = s.epoch /\ u.cache = q
        /\ u = Store(u.archs, u.place, u.pool, u.epoch, u.cache)
    BY <2>6 DEF Store
  <2>8. StoreOK(u)
    BY <2>1, <2>7 DEF StoreOK
  <2>9. CacheOK(u)
    <3>1. s.epoch \in 0 .. EpochMax
      BY <1>1 DEF CacheOK
    <3>2. s.epoch \in 0 .. s.epoch
      BY <3>1, StorageAssumption
    <3>3. ASSUME NEW k \in DOMAIN q
          PROVE  /\ q[k].epoch \in 0 .. s.epoch
                 /\ q[k].epoch = s.epoch => Complete(s.archs, k, q[k].matched)
      <4>1. CASE k = key
        BY <2>4, <2>5, <3>2, <4>1
      <4>2. CASE k # key
        BY <1>1, <2>5, <4>2 DEF CacheOK
      <4> QED
        BY <4>1, <4>2
    <3> QED
      BY <2>7, <3>1, <3>3 DEF CacheOK
  <2>10. SameStorage(s, u)
    BY <2>7 DEF SameStorage
  <2> QED
    BY <1>3, <2>8, <2>9, <2>10, SameStorageKeeps
<1>4. t = s \/ t = u
  BY DEF resolve_query_cache
<1> HIDE DEF t, u
<1> QED
  BY <1>2, <1>3, <1>4 DEF t

(* ~World. *)
LEMMA EndFacts ==
  ASSUME NEW s, NEW L, Sound(s, L)
  PROVE  Drained(s) = NewStore(EmptyPool)
<1>1. StoreOK(s)
  BY DEF Sound
<1>2. ArchetypesOK(s.archs) /\ PoolSound(s.pool, Used(s.archs, DOMAIN s.archs)) /\ UsedOnce(s.archs)
  BY <1>1 DEF StoreOK
<1>3. /\ Len(s.archs) \in Nat /\ DOMAIN s.archs = 1 .. Len(s.archs)
      /\ \A a \in DOMAIN s.archs : s.archs[a].chunks \in Seq(Chunk)
  BY <1>2, ArchetypeFacts
<1> QED
  BY <1>2, <1>3, DrainedFacts

(* The storage of a new World is sound. *)
LEMMA FreshFacts == Sound(NewStore(EmptyPool), {})
<1> DEFINE z == <<>>
           none == {}
           P == [i \in Index |-> Nowhere]
           q == Pool(z, none)
           s == Store(z, P, q, 0, z)
<1>1. NewStore(EmptyPool) = s
  BY DEF NewStore, EmptyPool
<1>2. z \in Seq(Archetype) /\ DOMAIN z = none /\ Len(z) = 0 /\ z \in Seq(Cached)
  OBVIOUS
<1>3. P \in [Index -> Location]
  <2>1. Nowhere \in Location
    BY LocFacts DEF Nowhere
  <2> QED
    BY <2>1
<1> HIDE DEF z, P
<1>4. ArchetypesOK(z) /\ UsedOnce(z)
  BY <1>2 DEF ArchetypesOK, UsedOnce
<1>5. Used(z, DOMAIN z) = none
  BY <1>2 DEF Used
<1>6. PoolSound(q, none)
  <2>1. q.free = z /\ q.live = none /\ none \in SUBSET Block /\ \A b : b \notin none
    BY PoolFacts
  <2> HIDE DEF q, none
  <2> QED
    BY <1>2, <2>1 DEF PoolSound, PoolOK, IsCached, q
<1> HIDE DEF q
<1>7. /\ s.archs = z /\ s.place = P /\ s.pool = q /\ s.epoch = 0 /\ s.cache = z
      /\ s = Store(s.archs, s.place, s.pool, s.epoch, s.cache)
  BY DEF Store
<1> HIDE DEF s
<1>8. StoreOK(s)
  BY <1>3, <1>4, <1>5, <1>6, <1>7 DEF StoreOK
<1>9. Placed(s, none, none)
  BY <1>2, <1>7 DEF Placed, RowIn
<1>10. CacheOK(s)
  BY <1>2, <1>7, StorageAssumption DEF CacheOK
<1> QED
  BY <1>1, <1>8, <1>9, <1>10 DEF Sound

----------------------------------------------------------------------------
(* Creating slots. *)

(* create_entities takes its slots one after the other. *)
CreateNext(p, k, t) == [table |-> Create(t.table, p[2]), ids |-> Append(t.ids, NextId(t.table))]
SlotsCreated(p, T, t) ==
  /\ t.ids \in Seq(EntityID) /\ Len(t.ids) = Cardinality(T)
  /\ TableSound(t.table)
  /\ Cardinality(FreeSet(t.table)) = Cardinality(FreeSet(p[1])) - Cardinality(T)
  /\ \A id : id \in Live(t.table) <=> id \in Live(p[1]) \/ \E k \in DOMAIN t.ids : t.ids[k] = id
  /\ \A j, k \in DOMAIN t.ids : t.ids[j].index = t.ids[k].index => j = k
  /\ \A k \in DOMAIN t.ids : \A id \in Live(p[1]) : id.index # t.ids[k].index
  /\ \A k \in DOMAIN t.ids : IsImmutable(t.table, t.ids[k]) <=> p[2]
  /\ \A id \in Live(p[1]) : IsImmutable(t.table, id) <=> IsImmutable(p[1], id)
Creating == INSTANCE Folding WITH Step <- CreateNext, Pick <- Latest, Holds <- SlotsCreated

(* The free slots are finitely many. *)
LEMMA FreeFinite ==
  ASSUME NEW w
  PROVE  IsFiniteSet(FreeSet(w)) /\ Cardinality(FreeSet(w)) \in Nat
<1>1. IsFiniteSet(Index)
  BY TableAssumption, FS_Interval DEF Index
<1>2. FreeSet(w) \in SUBSET Index
  BY DEF FreeSet
<1> QED
  BY <1>1, <1>2, FS_Subset, FS_CardinalityType

(* One more slot. *)
LEMMA CreateAnother ==
  ASSUME NEW n \in Nat, NEW w, n <= Cardinality(FreeSet(w)), NEW imm \in BOOLEAN,
         NEW p, p[1] = w, p[2] = imm,
         NEW T \in SUBSET (1 .. n), T # {}, NEW t, SlotsCreated(p, T \ {Latest(T)}, t)
  PROVE  SlotsCreated(p, T, CreateNext(p, Latest(T), t))
<1> DEFINE k == Latest(T)
           U == T \ {k}
           id == NextId(t.table)
           v == Create(t.table, imm)
           q == Append(t.ids, id)
           c == Len(t.ids)
<1>1. Cardinality(T) \in Nat \ {0} /\ Cardinality(T) <= n /\ Cardinality(U) = Cardinality(T) - 1
  BY Earlier
<1>2. /\ t.ids \in Seq(EntityID) /\ c = Cardinality(U)
      /\ TableSound(t.table)
      /\ Cardinality(FreeSet(t.table)) = Cardinality(FreeSet(w)) - Cardinality(U)
      /\ \A jd : jd \in Live(t.table) <=> jd \in Live(w) \/ \E i \in DOMAIN t.ids : t.ids[i] = jd
      /\ \A i, j \in DOMAIN t.ids : t.ids[i].index = t.ids[j].index => i = j
      /\ \A i \in DOMAIN t.ids : \A jd \in Live(w) : jd.index # t.ids[i].index
      /\ \A i \in DOMAIN t.ids : IsImmutable(t.table, t.ids[i]) <=> imm
      /\ \A jd \in Live(w) : IsImmutable(t.table, jd) <=> IsImmutable(w, jd)
  BY DEF SlotsCreated
<1>3. Cardinality(FreeSet(t.table)) \in Nat \ {0} /\ IsFiniteSet(FreeSet(t.table))
  <2> DEFINE x == Cardinality(FreeSet(w))
             y == Cardinality(T)
             z == Cardinality(FreeSet(t.table))
             d == Cardinality(U)
  <2>1. x \in Nat /\ z \in Nat /\ y \in Nat \ {0} /\ y <= n /\ n <= x /\ d = y - 1 /\ z = x - d
    BY <1>1, <1>2, FreeFinite
  <2> HIDE DEF x, y, z, d
  <2>2. z # 0
    BY <2>1
  <2> QED
    BY <2>1, <2>2, FreeFinite DEF z
<1>4. FreeSet(t.table) # {}
  BY <1>3, FS_EmptySet
<1>5. /\ Takes(t.table, v, id) /\ Live(v) = Live(t.table) \cup {id}
      /\ IsImmutable(v, id) <=> imm
      /\ \A jd \in Live(t.table) : jd # id /\ (IsImmutable(v, jd) <=> IsImmutable(t.table, jd))
  BY <1>2, <1>4, CreateOne
<1>6. CreateNext(p, k, t) = [table |-> v, ids |-> q]
  BY DEF CreateNext
<1> HIDE DEF v, id
<1>7. /\ TableSound(v) /\ id \in EntityID /\ id.index \in FreeSet(t.table)
      /\ FreeSet(v) = FreeSet(t.table) \ {id.index}
      /\ \A jd \in Live(t.table) : jd.index # id.index
  BY <1>5 DEF Takes
<1>8. /\ q \in Seq(EntityID) /\ c \in Nat /\ DOMAIN t.ids = 1 .. c /\ DOMAIN q = 1 .. c + 1 /\ Len(q) = c + 1
      /\ q[c + 1] = id /\ \A i \in 1 .. c : q[i] = t.ids[i]
  <2> DEFINE ids == t.ids
  <2>1. ids \in Seq(EntityID) /\ id \in EntityID
    BY <1>2, <1>7
  <2> HIDE DEF ids
  <2> DEFINE r == Append(ids, id)
             d == Len(ids)
  <2>2. /\ r \in Seq(EntityID) /\ d \in Nat /\ DOMAIN ids = 1 .. d /\ DOMAIN r = 1 .. d + 1 /\ Len(r) = d + 1
        /\ r[d + 1] = id /\ \A i \in 1 .. d : r[i] = ids[i]
    BY <2>1
  <2> QED
    BY <2>2 DEF ids
<1>9. Len(q) = Cardinality(T)
  BY <1>1, <1>2, <1>8
<1>10. Cardinality(FreeSet(v)) = Cardinality(FreeSet(w)) - Cardinality(T)
  <2>1. Cardinality(FreeSet(v)) = Cardinality(FreeSet(t.table)) - 1
    <3> DEFINE F == FreeSet(t.table)
               i == id.index
    <3>1. IsFiniteSet(F) /\ i \in F /\ FreeSet(v) = F \ {i}
      BY <1>3, <1>7
    <3> HIDE DEF F, i
    <3>2. Cardinality(F \ {i}) = Cardinality(F) - 1
      BY <3>1, FS_RemoveElement
    <3> QED
      BY <3>1, <3>2 DEF F
  <2> DEFINE x == Cardinality(FreeSet(w))
             y == Cardinality(T)
  <2>2. x \in Nat /\ y \in Nat
    BY <1>1, FreeFinite
  <2>3. Cardinality(FreeSet(t.table)) = x - (y - 1)
    BY <1>1, <1>2
  <2> HIDE DEF x, y
  <2>4. (x - (y - 1)) - 1 = x - y
    BY <2>2
  <2> QED
    BY <2>1, <2>3, <2>4 DEF x, y
<1> HIDE DEF q, c
<1>11. \A i : i \in DOMAIN q <=> i \in DOMAIN t.ids \/ i = c + 1
  BY <1>8
<1>12. \A i \in DOMAIN t.ids : q[i] = t.ids[i] /\ i # c + 1
  BY <1>8
<1>13. \A jd : jd \in Live(v) <=> jd \in Live(w) \/ \E i \in DOMAIN q : q[i] = jd
  <2>1. \A jd : (\E i \in DOMAIN q : q[i] = jd) <=> (\E i \in DOMAIN t.ids : t.ids[i] = jd) \/ jd = id
    BY <1>8, <1>11, <1>12
  <2> QED
    BY <1>2, <1>5, <2>1
<1>14. \A i \in DOMAIN t.ids : t.ids[i] \in Live(t.table)
  BY <1>2
<1>15. \A i, j \in DOMAIN q : q[i].index = q[j].index => i = j
  <2>1. \A i \in DOMAIN t.ids : q[i].index # q[c + 1].index
    BY <1>7, <1>8, <1>12, <1>14
  <2>2. \A i, j \in DOMAIN t.ids : q[i].index = q[j].index => i = j
    BY <1>2, <1>12
  <2> QED
    BY <1>11, <2>1, <2>2
<1>16. \A i \in DOMAIN q : \A jd \in Live(w) : jd.index # q[i].index
  <2>1. \A jd \in Live(w) : jd \in Live(t.table)
    BY <1>2
  <2>2. \A jd \in Live(w) : jd.index # q[c + 1].index
    BY <1>7, <1>8, <2>1
  <2>3. \A i \in DOMAIN t.ids : \A jd \in Live(w) : jd.index # q[i].index
    BY <1>2, <1>12
  <2> QED
    BY <1>11, <2>2, <2>3
<1>17. \A i \in DOMAIN q : IsImmutable(v, q[i]) <=> imm
  <2>1. IsImmutable(v, q[c + 1]) <=> imm
    BY <1>5, <1>8
  <2>2. ASSUME NEW i \in DOMAIN t.ids PROVE IsImmutable(v, q[i]) <=> imm
    <3>1. t.ids[i] \in Live(t.table) /\ q[i] = t.ids[i]
      BY <1>12, <1>14
    <3>2. IsImmutable(v, t.ids[i]) <=> IsImmutable(t.table, t.ids[i])
      BY <1>5, <3>1
    <3>3. IsImmutable(t.table, t.ids[i]) <=> imm
      BY <1>2
    <3> QED
      BY <3>1, <3>2, <3>3
  <2> QED
    BY <1>11, <2>1, <2>2
<1>18. \A jd \in Live(w) : IsImmutable(v, jd) <=> IsImmutable(w, jd)
  BY <1>2, <1>5
<1>19. SlotsCreated(p, T, [table |-> v, ids |-> q])
  <2> DEFINE u == [table |-> v, ids |-> q]
  <2>1. u.table = v /\ u.ids = q
    OBVIOUS
  <2> HIDE DEF u
  <2>2. SlotsCreated(p, T, u)
    <3>1. /\ u.ids \in Seq(EntityID) /\ Len(u.ids) = Cardinality(T)
          /\ TableSound(u.table)
          /\ Cardinality(FreeSet(u.table)) = Cardinality(FreeSet(p[1])) - Cardinality(T)
      BY <1>7, <1>8, <1>9, <1>10, <2>1
    <3>2. /\ \A jd : jd \in Live(u.table) <=> jd \in Live(p[1]) \/ \E i \in DOMAIN u.ids : u.ids[i] = jd
          /\ \A i, j \in DOMAIN u.ids : u.ids[i].index = u.ids[j].index => i = j
          /\ \A i \in DOMAIN u.ids : \A jd \in Live(p[1]) : jd.index # u.ids[i].index
      BY <1>13, <1>15, <1>16, <2>1
    <3>3. /\ \A i \in DOMAIN u.ids : IsImmutable(u.table, u.ids[i]) <=> p[2]
          /\ \A jd \in Live(p[1]) : IsImmutable(u.table, jd) <=> IsImmutable(p[1], jd)
      BY <1>17, <1>18, <2>1
    <3> QED
      BY <3>1, <3>2, <3>3 DEF SlotsCreated
  <2> QED
    BY <2>2 DEF u
<1> QED
  BY <1>6, <1>19

(* The slots of create_entities are new, distinct and as the caller asks. *)
LEMMA CreatedFacts ==
  ASSUME NEW n \in Nat, TableSound(table), Slots(n), NEW imm \in BOOLEAN
  PROVE  SlotsCreated(<<table, imm>>, 1 .. n, CreatedSlots(n, imm))
<1> DEFINE q == [k \in 1 .. n |-> k]
           p == <<table, imm>>
           z == <<>>
           base == [table |-> table, ids |-> z]
<1>1. p[1] = table /\ p[2] = imm
  OBVIOUS
<1>2. DOMAIN q = 1 .. n /\ (\A k \in 1 .. n : q[k] = k) /\ Len(q) = n
  OBVIOUS
<1> HIDE DEF p
<1>3. n <= Cardinality(FreeSet(table)) /\ Cardinality(FreeSet(table)) \in Nat
  BY FreeFinite DEF Slots, FreeSet
<1>4. SlotsCreated(p, {}, base)
  <2>1. base.table = table /\ base.ids = z
    OBVIOUS
  <2>2. z \in Seq(EntityID) /\ DOMAIN z = {} /\ Len(z) = 0
    OBVIOUS
  <2>3. Cardinality({}) = 0 /\ Cardinality(FreeSet(table)) - 0 = Cardinality(FreeSet(table))
    BY <1>3, FS_EmptySet
  <2> HIDE DEF base, z
  <2> QED
    BY <1>1, <2>1, <2>2, <2>3 DEF SlotsCreated
<1>5. \A T \in SUBSET (1 .. n) : \A t : T # {} /\ SlotsCreated(p, T \ {Latest(T)}, t) =>
                                          SlotsCreated(p, T, CreateNext(p, Latest(T), t))
  BY <1>1, <1>3, CreateAnother
<1>6. Creating!Picks(1 .. n)
  BY InOrder DEF Creating!Picks, Creating!Measures
<1>7. SlotsCreated(p, 1 .. n, Creating!Folded(p, base, 1 .. n))
  <2> HIDE DEF base
  <2> QED
    BY <1>4, <1>5, <1>6, Creating!FoldInvariant
<1> DEFINE m == FoldLeft(LAMBDA t, k : [table |-> Create(t.table, imm), ids |-> Append(t.ids, NextId(t.table))],
                         [table |-> table, ids |-> <<>>], q)
<1>8. m = Creating!Folded(p, base, DOMAIN q)
  BY <1>1 DEF FoldLeft, MapThenFoldSet, Creating!Folded, Creating!Iterated, Creating!FoldRule, CreateNext, Latest
<1>9. CreatedSlots(n, imm) = m
  BY DEF CreatedSlots
<1> HIDE DEF m, q
<1> QED
  BY <1>2, <1>7, <1>8, <1>9 DEF p

----------------------------------------------------------------------------
(* Finalising reservations. *)

(* finalize_reserved_entities_bulk finalises the slots in the order of the ids. *)
FinaliseNext(p, k, v) == Finalise(v, p[2][k])
SlotsFinalised(p, T, v) ==
  /\ TableSound(v)
  /\ \A jd \in EntityID : Holds(v, jd) <=> Holds(p[1], jd)
  /\ \A jd \in EntityID : IsAlive(v, jd) <=> IsAlive(p[1], jd) \/ ((\E k \in T : p[2][k] = jd) /\ IsReserved(p[1], jd))
  /\ \A jd \in EntityID : IsImmutable(v, jd) <=> IsImmutable(p[1], jd)
Finalising == INSTANCE Folding WITH Step <- FinaliseNext, Pick <- Latest, Holds <- SlotsFinalised

(* The reservations among ids that still stand. *)
Standing(w, ids, T) == {jd \in EntityID : IsReserved(w, jd) /\ \E k \in T : ids[k] = jd}

(* Finalising a list of ids makes those live that were reserved, and freezes nobody. *)
LEMMA FinalisedFacts ==
  ASSUME NEW w, TableSound(w), NEW ids \in Seq(EntityID)
  PROVE  LET v == FoldLeft(Finalise, w, ids)
         IN  /\ TableSound(v)
             /\ Live(v) = Live(w) \cup Standing(w, ids, DOMAIN ids)
             /\ \A jd \in EntityID : IsImmutable(v, jd) <=> IsImmutable(w, jd)
<1> DEFINE n == Len(ids)
           p == <<w, ids>>
           v == FoldLeft(Finalise, w, ids)
<1>1. p[1] = w /\ p[2] = ids
  OBVIOUS
<1>2. n \in Nat /\ DOMAIN ids = 1 .. n /\ \A k \in 1 .. n : ids[k] \in EntityID
  OBVIOUS
<1> HIDE DEF p, n
<1>3. SlotsFinalised(p, {}, w)
  BY <1>1 DEF SlotsFinalised
<1>4. ASSUME NEW T \in SUBSET (1 .. n), NEW t, T # {}, SlotsFinalised(p, T \ {Latest(T)}, t)
      PROVE  SlotsFinalised(p, T, FinaliseNext(p, Latest(T), t))
  <2> DEFINE k == Latest(T)
             U == T \ {k}
             u == Finalise(t, ids[k])
  <2>1. k \in T /\ k \in 1 .. n /\ ids[k] \in EntityID
    BY <1>2, <1>4, Earlier
  <2>2. /\ TableSound(t)
        /\ \A jd \in EntityID : Holds(t, jd) <=> Holds(w, jd)
        /\ \A jd \in EntityID : IsAlive(t, jd) <=> IsAlive(w, jd) \/ ((\E j \in U : ids[j] = jd) /\ IsReserved(w, jd))
        /\ \A jd \in EntityID : IsImmutable(t, jd) <=> IsImmutable(w, jd)
    BY <1>1, <1>4 DEF SlotsFinalised
  <2>3. /\ TableSound(u)
        /\ \A jd \in EntityID : Holds(u, jd) <=> Holds(t, jd)
        /\ \A jd \in EntityID : IsAlive(u, jd) <=> IsAlive(t, jd) \/ (jd = ids[k] /\ IsReserved(t, jd))
        /\ \A jd \in EntityID : IsImmutable(u, jd) <=> IsImmutable(t, jd)
    BY <2>1, <2>2, FinaliseOne
  <2>4. FinaliseNext(p, k, t) = u
    BY <1>1 DEF FinaliseNext
  <2> HIDE DEF u, k
  <2>5. \A jd \in EntityID : IsAlive(u, jd) <=> IsAlive(w, jd) \/ ((\E j \in T : ids[j] = jd) /\ IsReserved(w, jd))
    <3> TAKE jd \in EntityID
    <3>1. (\E j \in T : ids[j] = jd) <=> (\E j \in U : ids[j] = jd) \/ jd = ids[k]
      BY <2>1
    <3>2. IsReserved(t, jd) <=> Holds(t, jd) /\ ~IsAlive(t, jd)
      BY ReservedFacts
    <3>3. IsReserved(w, jd) <=> Holds(w, jd) /\ ~IsAlive(w, jd)
      BY ReservedFacts
    <3>4. Holds(t, jd) <=> Holds(w, jd)
      BY <2>2
    <3>5. IsAlive(t, jd) <=> IsAlive(w, jd) \/ ((\E j \in U : ids[j] = jd) /\ IsReserved(w, jd))
      BY <2>2
    <3>6. IsAlive(u, jd) <=> IsAlive(t, jd) \/ (jd = ids[k] /\ IsReserved(t, jd))
      BY <2>3
    <3> QED
      BY <3>1, <3>2, <3>3, <3>4, <3>5, <3>6
  <2>6. SlotsFinalised(p, T, u)
    BY <1>1, <2>2, <2>3, <2>5 DEF SlotsFinalised
  <2> QED
    BY <2>4, <2>6 DEF k
<1>5. Finalising!Picks(1 .. n)
  BY <1>2, InOrder DEF Finalising!Picks, Finalising!Measures
<1>6. SlotsFinalised(p, 1 .. n, Finalising!Folded(p, w, 1 .. n))
  BY <1>3, <1>4, <1>5, Finalising!FoldInvariant
<1>7. v = Finalising!Folded(p, w, DOMAIN ids)
  BY <1>1 DEF FoldLeft, MapThenFoldSet, Finalising!Folded, Finalising!Iterated, Finalising!FoldRule, FinaliseNext, Latest
<1> HIDE DEF v
<1>8. SlotsFinalised(p, DOMAIN ids, v)
  BY <1>2, <1>6, <1>7
<1>9. /\ TableSound(v)
      /\ \A jd \in EntityID : IsAlive(v, jd) <=> IsAlive(w, jd) \/ ((\E k \in DOMAIN ids : ids[k] = jd) /\ IsReserved(w, jd))
      /\ \A jd \in EntityID : IsImmutable(v, jd) <=> IsImmutable(w, jd)
  BY <1>1, <1>8 DEF SlotsFinalised
<1>10. Live(v) = Live(w) \cup Standing(w, ids, DOMAIN ids)
  BY <1>9 DEF Live, Standing
<1> QED
  BY <1>9, <1>10 DEF v

(* The row of a new entity fits its signature. *)
LEMMA NewRowFacts ==
  ASSUME NEW id \in EntityID, NEW sig \in Signature
  PROVE  IsRow(NewRow(id, sig), sig) /\ NewRow(id, sig).id = id
<1> DEFINE f == [c \in Columns(sig) |-> Mark(id)]
<1>1. Mark(id) \in Marks
  <2>1. id.index \in 0 .. MaxSlots - 1 /\ MaxSlots \in Nat
    BY TableAssumption DEF EntityID, Index
  <2>2. \A x, m \in Nat : x \in 0 .. m - 1 => x \in 0 .. 2 * m - 1
    OBVIOUS
  <2>3. id.index \in Nat
    BY <2>1
  <2> QED
    BY <2>1, <2>2, <2>3 DEF Mark, Marks
<1>2. f \in [Columns(sig) -> Marks]
  BY <1>1
<1> HIDE DEF f
<1>3. Columns(sig) \in SUBSET Component
  BY DEF Columns, Signature
<1>4. Row(id, f) \in RowSet /\ Row(id, f).values = f /\ Row(id, f).id = id
  BY <1>2, <1>3 DEF Row, RowSet
<1> QED
  BY <1>2, <1>4 DEF NewRow, IsRow, f

----------------------------------------------------------------------------
(* Entities appear. *)

(* The entities L keep what they have, and N appear with the signature sig. *)
Appeared(s, t, L, N, sig) ==
  /\ Sound(t, L \cup N) /\ VersionsGrow(s, t)
  /\ \A id \in L : Keeps(s, t, id)
  /\ \A id \in N : SigAt(t, id) = sig /\ RowOfId(t, id) = NewRow(id, sig)

(* finalize_reserved_entities_bulk when a reservation is gone: a row at a time. *)
AddNext(p, k, s) == IF IsReserved(p[1], p[3][k].id) THEN AddRows(s, p[2], <<p[3][k]>>) ELSE s
OneByOne(p, T, s) ==
  /\ Appeared(p[4], s, Live(p[1]), Standing(p[1], p[5], T), p[2])
  /\ CanAcquire(s.pool, Len(p[3]) - Cardinality(T))
Adding == INSTANCE Folding WITH Step <- AddNext, Pick <- Latest, Holds <- OneByOne

(* When nobody appears nothing happens. *)
LEMMA AppearedNone ==
  ASSUME NEW s, NEW L, Sound(s, L), NEW sig
  PROVE  Appeared(s, s, L, {}, sig)
<1>1. SameStorage(s, s) /\ StoreOK(s) /\ CacheOK(s) /\ L \cup {} = L
  BY DEF SameStorage, Sound
<1>2. VersionsGrow(s, s) /\ \A id \in L : Keeps(s, s, id)
  BY <1>1, SameStorageKeeps
<1> QED
  BY <1>1, <1>2 DEF Appeared

(* What appeared once stays when more appear. *)
LEMMA AppearedTwice ==
  ASSUME NEW s, NEW t, NEW u, NEW L, NEW M, NEW N, NEW sig, Sound(s, L),
         Appeared(s, t, L, M, sig), Appeared(t, u, L \cup M, N, sig)
  PROVE  Appeared(s, u, L, M \cup N, sig)
<1>1. /\ Sound(t, L \cup M) /\ VersionsGrow(s, t)
      /\ \A id \in L : Keeps(s, t, id)
      /\ \A id \in M : SigAt(t, id) = sig /\ RowOfId(t, id) = NewRow(id, sig)
  BY DEF Appeared
<1>2. /\ Sound(u, (L \cup M) \cup N) /\ VersionsGrow(t, u)
      /\ \A id \in L \cup M : Keeps(t, u, id)
      /\ \A id \in N : SigAt(u, id) = sig /\ RowOfId(u, id) = NewRow(id, sig)
  BY DEF Appeared
<1>3. StoreOK(s) /\ StoreOK(t) /\ StoreOK(u)
  BY <1>1, <1>2 DEF Sound
<1>4. VersionsGrow(s, u) /\ \A id \in L : Keeps(s, u, id)
  <2>1. \A id \in L : s.place[id.index].arch \in DOMAIN s.archs
    BY SoundRows
  <2> QED
    BY <1>1, <1>2, <1>3, <2>1, KeepsTwice
<1>5. ASSUME NEW id \in M PROVE SigAt(u, id) = sig /\ RowOfId(u, id) = NewRow(id, sig)
  <2>1. t.place[id.index].arch \in DOMAIN t.archs
    <3> DEFINE K == L \cup M
    <3>1. id \in K /\ Sound(t, K)
      BY <1>1
    <3> HIDE DEF K
    <3> QED
      BY <3>1, SoundRows
  <2>2. Keeps(t, u, id)
    BY <1>2
  <2>3. u.place[id.index].arch = t.place[id.index].arch /\ RowOfId(u, id) = RowOfId(t, id)
    BY <2>2 DEF Keeps, RowOfId
  <2>4. SigAt(u, id) = SigAt(t, id)
    BY <1>2, <2>1, <2>3 DEF VersionsGrow, SigAt
  <2> QED
    BY <1>1, <2>3, <2>4
<1>6. (L \cup M) \cup N = L \cup (M \cup N)
  OBVIOUS
<1>7. \A id \in M \cup N : SigAt(u, id) = sig /\ RowOfId(u, id) = NewRow(id, sig)
  BY <1>2, <1>5
<1> QED
  BY <1>2, <1>4, <1>6, <1>7 DEF Appeared

(* The ids of a batch, which are new, and their rows. *)
Newcomers(L, ids, n) ==
  /\ DOMAIN ids = 1 .. n /\ \A k \in 1 .. n : ids[k] \in EntityID
  /\ \A j, k \in 1 .. n : ids[j].index = ids[k].index => j = k
  /\ \A id \in L : \A k \in 1 .. n : id.index # ids[k].index
RowsFor(rows, ids, n, sig) ==
  DOMAIN rows = 1 .. n /\ Len(rows) = n /\ \A k \in 1 .. n : rows[k] = NewRow(ids[k], sig)
Names(ids, n, N) == \A id : id \in N <=> \E k \in 1 .. n : ids[k] = id

(* create_entities: a batch appears in one archetype. *)
LEMMA BatchAppears ==
  ASSUME NEW s, NEW L, Sound(s, L), NEW sig \in Signature, NEW m \in Nat, NEW n \in Nat, NEW ids,
         Newcomers(L, ids, n), CanAcquire(s.pool, n + m),
         NEW rows, RowsFor(rows, ids, n, sig), NEW N, Names(ids, n, N)
  PROVE  LET t == AddRows(s, sig, rows)
         IN  Appeared(s, t, L, N, sig) /\ CanAcquire(t.pool, m)
<1> DEFINE t == AddRows(s, sig, rows)
<1> USE DEF Newcomers, RowsFor, Names
<1>1. \A k \in 1 .. n : IsRow(rows[k], sig) /\ rows[k].id = ids[k]
  BY NewRowFacts
<1>2. Addable(s, sig, rows, L, {}, m)
  <2>1. StoreOK(s) /\ Placed(s, L, {}) /\ Holes(s, {})
    BY DEF Sound, Holes
  <2>2. /\ \A k \in DOMAIN rows : IsRow(rows[k], sig)
        /\ \A j, k \in DOMAIN rows : rows[j].id.index = rows[k].id.index => j = k
        /\ \A id \in L : \A k \in DOMAIN rows : id.index # rows[k].id.index
    BY <1>1
  <2>3. DOMAIN rows = 1 .. Len(rows) /\ Len(rows) \in Nat /\ CanAcquire(s.pool, Len(rows) + m)
    OBVIOUS
  <2> QED
    BY <2>1, <2>2, <2>3 DEF Addable
<1>3. /\ Sound(t, L \cup RowIds(rows, DOMAIN rows)) /\ VersionsGrow(s, t)
      /\ CanAcquire(t.pool, m)
      /\ \A jd \in L : Keeps(s, t, jd)
      /\ Stored(t, sig, rows)
  BY <1>2, AddedFacts
<1> HIDE DEF t
<1>4. RowIds(rows, DOMAIN rows) = N
  BY <1>1 DEF RowIds
<1>5. \A id \in N : SigAt(t, id) = sig /\ RowOfId(t, id) = NewRow(id, sig)
  BY <1>1, <1>3 DEF Stored
<1> QED
  BY <1>3, <1>4, <1>5 DEF Appeared, t

(* Two entities or reservations have two slots. *)
LEMMA Distinct ==
  ASSUME NEW w, TableSound(w)
  PROVE  /\ \A id, jd \in EntityID : Holds(w, id) /\ Holds(w, jd) /\ id.index = jd.index => id = jd
         /\ \A id \in Live(w) : id \in EntityID /\ Holds(w, id) /\ ~IsReserved(w, id)
         /\ \A id : IsReserved(w, id) => Holds(w, id)
<1>1. IsTable(w)
  BY DEF TableSound
<1>2. \A id \in Live(w) : IsAlive(w, id) /\ id \in EntityID
  BY DEF Live
<1> QED
  BY <1>1, <1>2, LiveApart, ReservedFacts

(* One id of finalize_reserved_entities_bulk. *)
LEMMA AddOne ==
  ASSUME NEW w, TableSound(w), NEW s, Sound(s, Live(w)), NEW sig \in Signature,
         NEW n \in Nat, NEW ids, DOMAIN ids = 1 .. n, \A k \in 1 .. n : ids[k] \in EntityID, IsInjective(ids),
         NEW rows, Len(rows) = n, \A k \in 1 .. n : rows[k] = NewRow(ids[k], sig),
         NEW p, p[1] = w, p[2] = sig, p[3] = rows, p[4] = s, p[5] = ids,
         NEW T \in SUBSET (1 .. n), T # {}, NEW t, OneByOne(p, T \ {Latest(T)}, t)
  PROVE  OneByOne(p, T, AddNext(p, Latest(T), t))
<1> DEFINE k == Latest(T)
           U == T \ {k}
           L == Live(w)
           M == Standing(w, ids, U)
           id == ids[k]
           N == {id}
           K == L \cup M
           m == n - Cardinality(T)
           one == <<rows[k]>>
           u == AddRows(t, sig, one)
<1>1. k \in T /\ k \in 1 .. n /\ Cardinality(T) \in Nat \ {0} /\ Cardinality(T) <= n
      /\ Cardinality(U) = Cardinality(T) - 1
  BY Earlier
<1>2. Appeared(s, t, L, M, sig) /\ CanAcquire(t.pool, n - Cardinality(U))
  BY DEF OneByOne
<1>3. id \in EntityID /\ rows[k] = NewRow(id, sig) /\ rows[k].id = id
  BY <1>1, NewRowFacts
<1> HIDE DEF k, U, L, M, id, u
<1>4. m \in Nat /\ n - Cardinality(U) = m + 1 /\ m + 1 = 1 + m
  <2> DEFINE c == Cardinality(T)
             d == Cardinality(U)
  <2>1. c \in Nat /\ c <= n /\ d = c - 1
    BY <1>1
  <2> HIDE DEF c, d
  <2>2. n - c \in Nat /\ n - d = (n - c) + 1 /\ (n - c) + 1 = 1 + (n - c)
    BY <2>1
  <2> QED
    BY <2>2 DEF c, d
<1> HIDE DEF m
<1>5. Sound(t, K) /\ CanAcquire(t.pool, 1 + m) /\ CanAcquire(t.pool, m + 1)
  BY <1>2, <1>4 DEF Appeared
<1>6. \A j \in U : ids[j] # id /\ j \in 1 .. n
  BY <1>1 DEF id, U, IsInjective
<1>7. AddNext(p, k, t) = IF IsReserved(w, id) THEN u ELSE t
  BY <1>3 DEF AddNext, u
<1>8. CASE ~IsReserved(w, id)
  <2>1. Standing(w, ids, T) = M
    <3>1. \A j : j \in T <=> j \in U \/ j = k
      BY <1>1 DEF U
    <3> QED
      BY <1>8, <3>1 DEF Standing, M, id
  <2>2. CanAcquire(t.pool, m)
    <3>1. PoolOK(t.pool)
      BY <1>5 DEF Sound, StoreOK, PoolSound
    <3> QED
      BY <1>4, <1>5, <3>1, NoMoreThan
  <2>3. OneByOne(p, T, t)
    BY <1>2, <2>1, <2>2 DEF OneByOne, L, m
  <2> QED
    BY <1>7, <1>8, <2>3 DEF k
<1>9. CASE IsReserved(w, id)
  <2>1. Standing(w, ids, T) = M \cup N
    <3>1. \A j : j \in T <=> j \in U \/ j = k
      BY <1>1 DEF U
    <3>2. \A jd : (\E j \in T : ids[j] = jd) <=> (\E j \in U : ids[j] = jd) \/ jd = id
      BY <3>1 DEF id
    <3> QED
      BY <1>3, <1>9, <3>2 DEF Standing, M
  <2>2. \A jd \in K : jd.index # id.index
    <3>1. \A jd \in K : jd \in EntityID /\ Holds(w, jd) /\ jd # id
      <4>1. \A jd \in L : jd \in EntityID /\ Holds(w, jd) /\ jd # id
        BY <1>9, Distinct DEF L
      <4>2. \A jd \in M : jd \in EntityID /\ Holds(w, jd) /\ jd # id
        BY <1>6, Distinct DEF M, Standing
      <4> QED
        BY <4>1, <4>2
    <3>2. Holds(w, id)
      BY <1>9, Distinct
    <3> QED
      BY <1>3, <3>1, <3>2, Distinct
  <2>3. Appeared(t, u, K, N, sig) /\ CanAcquire(u.pool, m)
    <3> DEFINE j == <<id>>
               e == 1
    <3>1. /\ DOMAIN j = 1 .. e /\ (\A i \in 1 .. e : j[i] \in EntityID)
          /\ \A h, i \in 1 .. e : j[h].index = j[i].index => h = i
      BY <1>3
    <3>2. \A jd \in K : \A i \in 1 .. e : jd.index # j[i].index
      BY <2>2
    <3>3. DOMAIN one = 1 .. e /\ Len(one) = e /\ \A i \in 1 .. e : one[i] = NewRow(j[i], sig)
      BY <1>3
    <3>4. \A jd : jd \in N <=> \E i \in 1 .. e : j[i] = jd
      OBVIOUS
    <3>5. CanAcquire(t.pool, e + m) /\ e \in Nat /\ Sound(t, K)
      BY <1>5
    <3> HIDE DEF j, e, one, N, K
    <3>6. Newcomers(K, j, e) /\ RowsFor(one, j, e, sig) /\ Names(j, e, N)
      BY <3>1, <3>2, <3>3, <3>4 DEF Newcomers, RowsFor, Names
    <3>7. Appeared(t, AddRows(t, sig, one), K, N, sig) /\ CanAcquire(AddRows(t, sig, one).pool, m)
      BY <1>4, <3>5, <3>6, BatchAppears
    <3> QED
      BY <3>7 DEF u
  <2>4. Appeared(s, u, L, M \cup N, sig)
    <3>1. Sound(s, L)
      BY DEF L
    <3> HIDE DEF N
    <3> QED
      BY <1>2, <2>3, <3>1, AppearedTwice
  <2>5. OneByOne(p, T, u)
    BY <2>1, <2>3, <2>4 DEF OneByOne, L, m
  <2> QED
    BY <1>7, <1>9, <2>5 DEF k
<1> QED
  BY <1>8, <1>9

----------------------------------------------------------------------------
(* Storage grows with the table. *)

(* The entities N appear in the table w and the storage s. *)
Grew(w, v, s, t, N, sig, imm) ==
  /\ TableSound(v) /\ N # {} /\ N \cap Live(w) = {} /\ Live(v) = Live(w) \cup N
  /\ sig \in Signature /\ Appeared(s, t, Live(w), N, sig)
  /\ Frozen(v) = IF imm THEN Frozen(w) \cup N ELSE Frozen(w)

(* finalize_reserved_entities_bulk: the reserved of the list appear, the rest of the list is skipped. *)
LEMMA EachAppears ==
  ASSUME TableSound(table), Sound(store, Live(table)), NEW sig \in Signature,
         NEW n \in Nat, NEW ids, DOMAIN ids = 1 .. n, \A k \in 1 .. n : ids[k] \in EntityID, IsInjective(ids),
         NEW rows, RowsFor(rows, ids, n, sig), CanAcquire(store.pool, n)
  PROVE  Appeared(store,
                  FoldLeft(LAMBDA s, r : IF IsReserved(table, r.id) THEN AddRows(s, sig, <<r>>) ELSE s, store, rows),
                  Live(table), Standing(table, ids, DOMAIN ids), sig)
<1> DEFINE p == <<table, sig, rows, store, ids>>
           m == FoldLeft(LAMBDA s, r : IF IsReserved(table, r.id) THEN AddRows(s, sig, <<r>>) ELSE s, store, rows)
<1>1. p[1] = table /\ p[2] = sig /\ p[3] = rows /\ p[4] = store /\ p[5] = ids
  OBVIOUS
<1> HIDE DEF p
<1>2. DOMAIN rows = 1 .. n /\ Len(rows) = n /\ \A k \in 1 .. n : rows[k] = NewRow(ids[k], sig)
  BY DEF RowsFor
<1>3. OneByOne(p, {}, store)
  <2>1. Standing(table, ids, {}) = {}
    BY DEF Standing
  <2>2. Cardinality({}) = 0 /\ n - 0 = n
    BY FS_EmptySet
  <2>3. Appeared(store, store, Live(table), {}, sig)
    BY AppearedNone
  <2> QED
    BY <1>1, <1>2, <2>1, <2>2, <2>3 DEF OneByOne
<1>4. ASSUME NEW T \in SUBSET (1 .. n), NEW t, T # {}, OneByOne(p, T \ {Latest(T)}, t)
      PROVE  OneByOne(p, T, AddNext(p, Latest(T), t))
  BY <1>1, <1>2, <1>4, AddOne
<1>5. Adding!Picks(1 .. n)
  BY InOrder DEF Adding!Picks, Adding!Measures
<1>6. OneByOne(p, 1 .. n, Adding!Folded(p, store, 1 .. n))
  BY <1>3, <1>4, <1>5, Adding!FoldInvariant
<1>7. m = Adding!Folded(p, store, DOMAIN rows)
  BY <1>1 DEF FoldLeft, MapThenFoldSet, Adding!Folded, Adding!Iterated, Adding!FoldRule, AddNext, Latest
<1> HIDE DEF m
<1>8. OneByOne(p, DOMAIN ids, m)
  BY <1>2, <1>6, <1>7
<1> QED
  BY <1>1, <1>8 DEF OneByOne, m

(* create_entities as a growth of the table and the storage together. *)
LEMMA CreateGrows ==
  ASSUME TableSound(table), Sound(store, Live(table)), NEW n \in 1 .. 2, NEW sig \in Signature, NEW imm \in BOOLEAN,
         CreateEntities(n, sig, imm)
  PROVE  \E N : Grew(table, table', store, store', N, sig, imm)
<1> DEFINE made == CreatedSlots(n, imm)
           L == Live(table)
           N == {id \in EntityID : \E k \in 1 .. n : made.ids[k] = id}
           rows == [k \in 1 .. n |-> NewRow(made.ids[k], sig)]
<1>1. /\ Slots(n) /\ CanAcquire(store.pool, n)
      /\ table' = made.table /\ store' = AddRows(store, sig, rows)
  BY DEF CreateEntities, Affordable
<1>2. SlotsCreated(<<table, imm>>, 1 .. n, made) /\ n \in Nat
  BY <1>1, CreatedFacts
<1>3. Cardinality(1 .. n) = n
  BY <1>2, CountTo
<1> HIDE DEF made
<1>4. /\ made.ids \in Seq(EntityID) /\ Len(made.ids) = n
      /\ TableSound(made.table)
      /\ \A id : id \in Live(made.table) <=> id \in L \/ \E k \in DOMAIN made.ids : made.ids[k] = id
      /\ \A j, k \in DOMAIN made.ids : made.ids[j].index = made.ids[k].index => j = k
      /\ \A k \in DOMAIN made.ids : \A id \in L : id.index # made.ids[k].index
      /\ \A k \in DOMAIN made.ids : IsImmutable(made.table, made.ids[k]) <=> imm
      /\ \A id \in L : IsImmutable(made.table, id) <=> IsImmutable(table, id)
  <2> DEFINE p == <<table, imm>>
  <2>1. p[1] = table /\ p[2] = imm
    OBVIOUS
  <2> HIDE DEF p
  <2>2. SlotsCreated(p, 1 .. n, made)
    BY <1>2 DEF p
  <2> QED
    BY <1>3, <2>1, <2>2 DEF SlotsCreated
<1> DEFINE ids == made.ids
<1>5. DOMAIN ids = 1 .. n /\ \A k \in 1 .. n : ids[k] \in EntityID
  BY <1>4
<1>6. Newcomers(L, ids, n) /\ Names(ids, n, N)
  BY <1>4, <1>5 DEF Newcomers, Names
<1>7. RowsFor(rows, ids, n, sig)
  <2>1. DOMAIN rows = 1 .. n /\ Len(rows) = n /\ \A k \in 1 .. n : rows[k] = NewRow(made.ids[k], sig)
    BY <1>2
  <2> HIDE DEF rows
  <2> QED
    BY <2>1 DEF RowsFor
<1> HIDE DEF rows, ids, L, N
<1>8. Appeared(store, AddRows(store, sig, rows), L, N, sig)
  <2>1. CanAcquire(store.pool, n + 0) /\ 0 \in Nat /\ Sound(store, L)
    BY <1>1, <1>2 DEF L
  <2> DEFINE z == 0
  <2>2. CanAcquire(store.pool, n + z) /\ z \in Nat
    BY <2>1
  <2> HIDE DEF z
  <2> QED
    BY <1>2, <1>6, <1>7, <2>1, <2>2, BatchAppears
<1>9. /\ N # {} /\ N \cap L = {} /\ Live(made.table) = L \cup N
      /\ \A id \in N : IsImmutable(made.table, id) <=> imm
  <2>1. ids[1] \in N /\ \A id \in N : \E k \in 1 .. n : ids[k] = id
    BY <1>5, <1>6 DEF Names
  <2>2. \A id \in N : id \notin L
    BY <1>4, <1>5, <2>1 DEF ids
  <2>3. Live(made.table) = L \cup N
    BY <1>4, <1>5, <1>6 DEF Names, ids
  <2> QED
    BY <1>4, <1>5, <2>1, <2>2, <2>3 DEF ids
<1>10. Frozen(made.table) = IF imm THEN Frozen(table) \cup N ELSE Frozen(table)
  BY <1>4, <1>9 DEF Frozen, L
<1>11. Grew(table, table', store, store', N, sig, imm)
  BY <1>1, <1>4, <1>8, <1>9, <1>10 DEF Grew, L
<1> QED
  BY <1>11

(* finalize_reserved_entities_bulk as a growth of the table and the storage together. *)
LEMMA FinaliseGrows ==
  ASSUME TableSound(table), Sound(store, Live(table)), NEW ids \in BoundedSeq(EntityID, 2), IsInjective(ids),
         NEW sig \in Signature, FinaliseReserved(ids, sig)
  PROVE  \E N : Grew(table, table', store, store', N, sig, FALSE)
<1> DEFINE n == Len(ids)
           L == Live(table)
           N == Standing(table, ids, DOMAIN ids)
           rows == [k \in DOMAIN ids |-> NewRow(ids[k], sig)]
           all == AddRows(store, sig, rows)
           each == FoldLeft(LAMBDA s, r : IF IsReserved(table, r.id) THEN AddRows(s, sig, <<r>>) ELSE s, store, rows)
<1>1. /\ CanAcquire(store.pool, n)
      /\ \E k \in DOMAIN ids : IsReserved(table, ids[k])
      /\ store' = IF \A k \in DOMAIN ids : IsReserved(table, ids[k]) THEN all ELSE each
      /\ table' = FoldLeft(Finalise, table, ids)
  BY DEF FinaliseReserved, Affordable
<1>2. ids \in Seq(EntityID)
  <2>1. \E m \in 0 .. 2 : ids \in [1 .. m -> EntityID]
    BY DEF BoundedSeq, SeqOf
  <2>2. PICK m \in 0 .. 2 : ids \in [1 .. m -> EntityID]
    BY <2>1
  <2>3. m \in Nat
    OBVIOUS
  <2> QED
    BY <2>2, <2>3
<1>3. n \in Nat /\ DOMAIN ids = 1 .. n /\ \A k \in 1 .. n : ids[k] \in EntityID
  BY <1>2
<1>4. /\ TableSound(table') /\ Live(table') = L \cup N
      /\ \A jd \in EntityID : IsImmutable(table', jd) <=> IsImmutable(table, jd)
  BY <1>1, <1>2, FinalisedFacts
<1>5. RowsFor(rows, ids, n, sig)
  <2>1. DOMAIN rows = 1 .. n /\ Len(rows) = n /\ \A k \in 1 .. n : rows[k] = NewRow(ids[k], sig)
    BY <1>3
  <2> HIDE DEF rows, n
  <2> QED
    BY <2>1 DEF RowsFor
<1>6. N # {} /\ N \cap L = {} /\ \A jd \in N : ~IsImmutable(table, jd) /\ jd \in EntityID
  <2>1. \A jd \in N : IsReserved(table, jd) /\ jd \in EntityID
    BY DEF Standing
  <2>2. \A jd : IsReserved(table, jd) => ~IsAlive(table, jd) /\ ~IsImmutable(table, jd)
    BY ReservedFacts
  <2>3. \A jd \in L : IsAlive(table, jd)
    BY DEF Live
  <2>4. \E k \in DOMAIN ids : ids[k] \in N
    BY <1>1, <1>3 DEF Standing
  <2> QED
    BY <2>1, <2>2, <2>3, <2>4
<1> HIDE DEF rows, n, all, each
<1>7. Appeared(store, store', L, N, sig)
  <2>1. CASE \A k \in DOMAIN ids : IsReserved(table, ids[k])
    <3>1. Newcomers(L, ids, n)
      <4>1. \A k \in 1 .. n : IsReserved(table, ids[k]) /\ Holds(table, ids[k])
        BY <1>3, <2>1, Distinct
      <4>2. \A j, k \in 1 .. n : ids[j].index = ids[k].index => j = k
        <5>1. \A j, k \in 1 .. n : ids[j].index = ids[k].index => ids[j] = ids[k]
          BY <1>3, <4>1, Distinct
        <5> QED
          BY <1>3, <5>1 DEF IsInjective
      <4>3. \A id \in L : \A k \in 1 .. n : id.index # ids[k].index
        BY <1>3, <4>1, Distinct
      <4> QED
        BY <1>3, <4>2, <4>3 DEF Newcomers
    <3>2. Names(ids, n, N)
      BY <1>3, <2>1 DEF Names, Standing
    <3>3. Sound(store, L)
      OBVIOUS
    <3> DEFINE z == 0
    <3>4. CanAcquire(store.pool, n + z) /\ z \in Nat
      BY <1>1, <1>3
    <3> HIDE DEF z, N, L
    <3>5. Appeared(store, AddRows(store, sig, rows), L, N, sig)
      BY <1>3, <1>5, <3>1, <3>2, <3>3, <3>4, BatchAppears
    <3> QED
      BY <1>1, <2>1, <3>5 DEF all
  <2>2. CASE ~ \A k \in DOMAIN ids : IsReserved(table, ids[k])
    <3>1. Appeared(store, each, L, N, sig)
      BY <1>1, <1>3, <1>5, EachAppears DEF each
    <3> QED
      BY <1>1, <2>2, <3>1
  <2> QED
    BY <2>1, <2>2
<1>8. Frozen(table') = Frozen(table)
  <2> HIDE DEF N
  <2>1. \A jd \in L : jd \in EntityID
    BY DEF Live
  <2> QED
    BY <1>4, <1>6, <2>1 DEF Frozen
<1>9. Grew(table, table', store, store', N, sig, FALSE)
  BY <1>4, <1>6, <1>7, <1>8 DEF Grew
<1> QED
  BY <1>9

----------------------------------------------------------------------------
(* What each call does. *)

(* What a call may do to the entities, the slots and the rows together. *)
Kept(w, v, s, t) ==
  /\ TableSound(v) /\ Live(v) = Live(w) /\ Frozen(v) = Frozen(w)
  /\ Sound(t, Live(v)) /\ VersionsGrow(s, t) /\ \A jd \in Live(w) : Keeps(s, t, jd)

Removed(w, v, s, t, id) ==
  /\ TableSound(v) /\ Live(v) = Live(w) \ {id} /\ Frozen(v) = Frozen(w) \ {id}
  /\ Sound(t, Live(v)) /\ VersionsGrow(s, t) /\ \A jd \in Live(v) : Keeps(s, t, jd)

Replaced(w, s, t, id, c) ==
  /\ id \in Live(w) /\ id \notin Frozen(w) /\ c \in Columns(SigAt(s, id))
  /\ Sound(t, Live(w)) /\ VersionsGrow(s, t) /\ \A jd \in Live(w) \ {id} : Keeps(s, t, jd)
  /\ t.place = s.place
  /\ \A jd \in Live(w) : BlockOf(t.archs, t.place[jd.index]) = BlockOf(s.archs, s.place[jd.index])
  /\ SigAt(t, id) = SigAt(s, id)
  /\ \E mark \in Marks : RowOfId(t, id) = Row(id, [RowOfId(s, id).values EXCEPT ![c] = mark])

OneComponent(old, new) ==
  \/ \E c \in Component : c \notin old /\ new = old \cup {c}
  \/ \E c \in old : old # {c} /\ new = old \ {c}

Migrated(w, s, t, id, sig) ==
  /\ id \in Live(w) /\ id \notin Frozen(w) /\ OneComponent(SigAt(s, id), sig)
  /\ Sound(t, Live(w)) /\ VersionsGrow(s, t) /\ \A jd \in Live(w) \ {id} : Keeps(s, t, jd)
  /\ SigAt(t, id) = sig
  /\ \A d \in Columns(sig) : d \in SigAt(s, id) => RowOfId(t, id).values[d] = RowOfId(s, id).values[d]

(* The slots are sound, and the storage is and holds the live entities. *)
StorageInv ==
  /\ TableSound(table) /\ Sound(store, Live(table))
  /\ ended \in BOOLEAN /\ (ended => table = EmptyTable /\ store = NewStore(EmptyPool))

(* What leaves rows and slots alone keeps everything. *)
LEMMA SameSlots ==
  ASSUME NEW w, TableSound(w), NEW s, NEW t, SameStorage(s, t), Sound(s, Live(w)), Sound(t, Live(w))
  PROVE  Kept(w, w, s, t)
<1>1. StoreOK(t) /\ CacheOK(t)
  BY DEF Sound
<1>2. VersionsGrow(s, t) /\ \A id \in Live(w) : Keeps(s, t, id)
  BY <1>1, SameStorageKeeps
<1> QED
  BY <1>2 DEF Kept

(* A reservation takes a slot and no row: nobody alive notices. *)
LEMMA ReserveKeeps ==
  ASSUME StorageInv, ReserveEntity
  PROVE  Kept(table, table', store, store')
<1>1. TableSound(table) /\ Sound(store, Live(table))
  BY DEF StorageInv
<1>2. Slots(1) /\ table' = Reserve(table) /\ store' = store
  BY DEF ReserveEntity
<1>3. FreeSet(table) # {}
  <2>1. Cardinality(FreeSet(table)) >= 1
    BY <1>2 DEF Slots, FreeSet
  <2> QED
    BY <2>1, FS_EmptySet
<1>4. /\ TableSound(table') /\ Live(table') = Live(table)
      /\ \A jd \in Live(table) : IsImmutable(table', jd) <=> IsImmutable(table, jd)
  BY <1>1, <1>2, <1>3, ReserveOne
<1>5. Frozen(table') = Frozen(table)
  BY <1>4 DEF Frozen
<1>6. Kept(table, table, store, store)
  BY <1>1, SameSlots DEF SameStorage
<1> QED
  BY <1>2, <1>4, <1>5, <1>6 DEF Kept

(* A query changes no entity. *)
LEMMA QueryKeeps ==
  ASSUME StorageInv, NEW key, Query(key)
  PROVE  Kept(table, table', store, store')
<1>1. TableSound(table) /\ Sound(store, Live(table))
  BY DEF StorageInv
<1>2. store' = resolve_query_cache(store, key) /\ table' = table
  BY DEF Query
<1>3. Sound(store', Live(table)) /\ SameStorage(store, store')
  BY <1>1, <1>2, QueryFacts
<1> QED
  BY <1>1, <1>2, <1>3, SameSlots

(* advance_tick changes no entity. *)
LEMMA TickKeeps ==
  ASSUME StorageInv, Tick
  PROVE  Kept(table, table', store, store')
<1>1. TableSound(table) /\ Sound(store, Live(table))
  BY DEF StorageInv
<1>2. store' = [store EXCEPT !.pool = AdvanceTick(@)] /\ table' = table
  BY DEF Tick
<1>3. Sound(store', Live(table)) /\ SameStorage(store, store')
  BY <1>1, <1>2, TickFacts
<1> QED
  BY <1>1, <1>2, <1>3, SameSlots

(* destroy_entity removes one entity, its row and its slot. *)
LEMMA DestroyRemoves ==
  ASSUME StorageInv, NEW id \in EntityID, DestroyEntity(id)
  PROVE  Removed(table, table', store, store', id)
<1> DEFINE w == table
           v == table'
           L == Live(w)
           t == [compact(store, store.place[id.index]) EXCEPT !.place[id.index] = Nowhere]
<1>1. TableSound(w) /\ Sound(store, L)
  BY DEF StorageInv
<1>2. /\ Holds(w, id) /\ v = Destroy(w, id)
      /\ store' = IF IsReserved(w, id) THEN store ELSE t
  BY DEF DestroyEntity
<1>3. /\ TableSound(v) /\ Live(v) = L \ {id}
      /\ \A jd \in Live(v) : IsImmutable(v, jd) <=> IsImmutable(w, jd)
  BY <1>1, <1>2, DestroyOne
<1>4. Frozen(v) = Frozen(w) \ {id}
  BY <1>3 DEF Frozen
<1>5. Sound(store', L \ {id}) /\ VersionsGrow(store, store') /\ \A jd \in L \ {id} : Keeps(store, store', jd)
  <2>1. CASE IsReserved(w, id)
    <3>1. id \notin L
      BY <1>1, <2>1, Distinct
    <3>2. store' = store /\ L \ {id} = L
      BY <1>2, <2>1, <3>1
    <3>3. Kept(w, w, store, store)
      BY <1>1, SameSlots DEF SameStorage
    <3> QED
      BY <1>1, <3>2, <3>3 DEF Kept
  <2>2. CASE ~IsReserved(w, id)
    <3>1. id \in L
      BY <1>2, <2>2, ReservedFacts DEF Live
    <3>2. Sound(t, L \ {id}) /\ VersionsGrow(store, t) /\ \A jd \in L \ {id} : Keeps(store, t, jd)
      <4> HIDE DEF L
      <4> QED
        BY <1>1, <3>1, RemoveFacts
    <3> HIDE DEF t
    <3> QED
      BY <1>2, <2>2, <3>2
  <2> QED
    BY <2>1, <2>2
<1> QED
  BY <1>3, <1>4, <1>5 DEF Removed

(* replace_component as a change of one value. *)
LEMMA ReplaceReplaces ==
  ASSUME StorageInv, NEW id \in EntityID, NEW c, ReplaceComponent(id, c)
  PROVE  Replaced(table, store, store', id, c)
<1> DEFINE l == store.place[id.index]
           L == Live(table)
           mark == Remark(id)
           t == [store EXCEPT !.archs[l.arch].chunks[l.chunk].rows[l.row].values[c] = mark]
<1>1. TableSound(table) /\ Sound(store, L)
  BY DEF StorageInv
<1>2. /\ IsAlive(table, id) /\ ~IsImmutable(table, id) /\ c \in Columns(SigOf(store, id))
      /\ store' = t
  BY DEF ReplaceComponent
<1>3. id \in L /\ id \notin Frozen(table)
  BY <1>2 DEF Live, Frozen
<1>4. mark \in Marks
  <2>1. id.index \in 0 .. MaxSlots - 1 /\ MaxSlots \in Nat
    BY TableAssumption DEF EntityID, Index
  <2>2. \A x, m \in Nat : x \in 0 .. m - 1 => m + x \in 0 .. 2 * m - 1
    OBVIOUS
  <2>3. id.index \in Nat
    BY <2>1
  <2> QED
    BY <2>1, <2>2, <2>3 DEF Remark, Marks
<1>5. c \in Columns(SigAt(store, id))
  BY <1>2 DEF SigOf, SigAt
<1> HIDE DEF L, mark
<1>6. Assigned(store, Assign(store, id, c, mark), L, id, c, mark)
  BY <1>1, <1>3, <1>4, <1>5, ReplaceFacts
<1>7. t = Assign(store, id, c, mark)
  BY DEF Assign
<1> HIDE DEF t
<1>8. Assigned(store, store', L, id, c, mark)
  BY <1>2, <1>6, <1>7
<1> QED
  BY <1>3, <1>4, <1>5, <1>8 DEF Replaced, Assigned, L

----------------------------------------------------------------------------
(* The inductive invariant. *)

LEMMA MigrateMigrates ==
  ASSUME StorageInv, NEW id \in EntityID, IsAlive(table, id), ~IsImmutable(table, id), CanAcquire(store.pool, 1),
         NEW sig \in Signature, OneComponent(SigAt(store, id), sig), NEW values \in [Columns(sig) -> Marks],
         \A d \in Columns(sig) : d \in SigAt(store, id) => values[d] = RowOfId(store, id).values[d]
  PROVE  Migrated(table, store, Migrate(store, id, sig, values), id, sig)
<1> DEFINE L == Live(table)
           t == Migrate(store, id, sig, values)
<1>1. TableSound(table) /\ Sound(store, L)
  BY DEF StorageInv
<1>2. id \in L /\ id \notin Frozen(table)
  BY DEF Live, Frozen
<1> HIDE DEF L
<1>3. /\ Sound(t, L) /\ VersionsGrow(store, t) /\ \A jd \in L \ {id} : Keeps(store, t, jd)
      /\ t.archs[t.place[id.index].arch].sig = sig
      /\ RowOf(t.archs, t.place[id.index]) = Row(id, values)
  BY <1>1, <1>2, MigrateFacts
<1> HIDE DEF t
<1>4. SigAt(t, id) = sig /\ RowOfId(t, id).values = values
  <2>1. SigAt(t, id) = sig /\ RowOfId(t, id) = Row(id, values)
    BY <1>3 DEF SigAt, RowOfId
  <2>2. Row(id, values).values = values
    BY DEF Row
  <2> QED
    BY <2>1, <2>2
<1> QED
  BY <1>2, <1>3, <1>4 DEF Migrated, L, t

(* The values an entity takes along. *)
LEMMA OldValues ==
  ASSUME StorageInv, NEW id \in EntityID, IsAlive(table, id)
  PROVE  /\ SigAt(store, id) \in Signature /\ SigAt(store, id) \subseteq Component
         /\ RowOfId(store, id).values \in [Columns(SigAt(store, id)) -> Marks]
         /\ SigAt(store, id) = SigOf(store, id)
         /\ RowOfId(store, id) = RowAt(store, store.place[id.index])
<1>1. Sound(store, Live(table)) /\ id \in Live(table)
  BY DEF StorageInv, Live
<1>2. SigAt(store, id) \in Signature /\ RowOfId(store, id).values \in [Columns(SigAt(store, id)) -> Marks]
  BY <1>1, SoundRows
<1> QED
  BY <1>2 DEF Signature, SigAt, SigOf, RowOfId, RowOf, RowAt

(* add_component as a migration to one component more. *)
LEMMA AddMigrates ==
  ASSUME StorageInv, NEW id \in EntityID, NEW c \in Component, add_component(id, c)
  PROVE  Migrated(table, store, store', id, SigAt(store, id) \cup {c})
<1> DEFINE old == SigAt(store, id)
           sig == old \cup {c}
           kept == RowOfId(store, id).values
           values == [d \in Columns(sig) |-> IF d = c THEN Mark(id) ELSE kept[d]]
<1>1. /\ CanAcquire(store.pool, 1) /\ IsAlive(table, id) /\ ~IsImmutable(table, id)
      /\ c \notin SigOf(store, id)
      /\ store' = Migrate(store, id, SigOf(store, id) \cup {c},
                    [d \in Columns(SigOf(store, id) \cup {c}) |->
                       IF d = c THEN Mark(id) ELSE RowAt(store, store.place[id.index]).values[d]])
  BY DEF add_component, Affordable
<1>2. /\ old \in Signature /\ old \subseteq Component /\ kept \in [Columns(old) -> Marks]
      /\ old = SigOf(store, id) /\ RowOfId(store, id) = RowAt(store, store.place[id.index])
  BY <1>1, OldValues
<1>3. store' = Migrate(store, id, sig, values)
  BY <1>1, <1>2
<1> HIDE DEF old, kept
<1>4. sig \in Signature /\ OneComponent(old, sig)
  BY <1>1, <1>2 DEF Signature, OneComponent
<1>5. \A d \in Columns(sig) : d = c \/ d \in Columns(old)
  BY DEF Columns
<1>6. Mark(id) \in Marks
  <2>1. id.index \in 0 .. MaxSlots - 1 /\ MaxSlots \in Nat
    BY TableAssumption DEF EntityID, Index
  <2>2. \A x, m \in Nat : x \in 0 .. m - 1 => x \in 0 .. 2 * m - 1
    OBVIOUS
  <2>3. id.index \in Nat
    BY <2>1
  <2> QED
    BY <2>1, <2>2, <2>3 DEF Mark, Marks
<1>7. values \in [Columns(sig) -> Marks]
  BY <1>2, <1>5, <1>6
<1>8. \A d \in Columns(sig) : d \in old => values[d] = kept[d]
  BY <1>1, <1>2
<1> HIDE DEF values, sig
<1>9. Migrated(table, store, Migrate(store, id, sig, values), id, sig)
  BY <1>1, <1>4, <1>7, <1>8, MigrateMigrates DEF old, kept
<1> QED
  BY <1>3, <1>9 DEF sig, old

(* remove_component as a migration to one component fewer. *)
LEMMA RemoveMigrates ==
  ASSUME StorageInv, NEW id \in EntityID, NEW c, remove_component(id, c)
  PROVE  Migrated(table, store, store', id, SigAt(store, id) \ {c})
<1> DEFINE old == SigAt(store, id)
           sig == old \ {c}
           kept == RowOfId(store, id).values
           values == [d \in Columns(sig) |-> kept[d]]
<1>1. /\ CanAcquire(store.pool, 1) /\ IsAlive(table, id) /\ ~IsImmutable(table, id)
      /\ c \in SigOf(store, id) /\ SigOf(store, id) # {c}
      /\ store' = Migrate(store, id, SigOf(store, id) \ {c},
                    [d \in Columns(SigOf(store, id) \ {c}) |-> RowAt(store, store.place[id.index]).values[d]])
  BY DEF remove_component, Affordable
<1>2. /\ old \in Signature /\ old \subseteq Component /\ kept \in [Columns(old) -> Marks]
      /\ old = SigOf(store, id) /\ RowOfId(store, id) = RowAt(store, store.place[id.index])
  BY <1>1, OldValues
<1>3. store' = Migrate(store, id, sig, values)
  BY <1>1, <1>2
<1> HIDE DEF old, kept
<1>4. sig \in Signature /\ OneComponent(old, sig)
  BY <1>1, <1>2 DEF Signature, OneComponent
<1>5. \A d \in Columns(sig) : d \in Columns(old)
  BY DEF Columns
<1>6. values \in [Columns(sig) -> Marks]
  BY <1>2, <1>5
<1>7. \A d \in Columns(sig) : d \in old => values[d] = kept[d]
  OBVIOUS
<1> HIDE DEF values, sig
<1>8. Migrated(table, store, Migrate(store, id, sig, values), id, sig)
  BY <1>1, <1>4, <1>6, <1>7, MigrateMigrates DEF old, kept
<1> QED
  BY <1>3, <1>8 DEF sig, old

(* A new table has nobody in it. *)
LEMMA EmptyLive == TableSound(EmptyTable) /\ Live(EmptyTable) = {} /\ Frozen(EmptyTable) = {}
<1>1. IsTable(EmptyTable) /\ (\E st \in Seq(Index) : ChainOf(EmptyTable, st)) /\ EmptyTable.count = 0
  BY EmptyChain DEF EmptyTable, Table
<1>2. 0 .. EmptyTable.count - 1 = {}
  BY <1>1
<1>3. TableSound(EmptyTable)
  BY <1>1, <1>2 DEF TableSound
<1>4. \A id \in Live(EmptyTable) : id \in EntityID /\ Holds(EmptyTable, id)
  BY <1>1, LiveApart DEF Live
<1>5. \A id \in EntityID : Holds(EmptyTable, id) => id.index \in 0 .. EmptyTable.count - 1
  BY <1>1, LiveApart
<1> QED
  BY <1>2, <1>3, <1>4, <1>5 DEF Frozen

(* The invariant holds of a new World. *)
LEMMA StorageInvInit ==
  ASSUME StorageInit
  PROVE  StorageInv
BY EmptyLive, FreshFacts DEF StorageInit, StorageInv

(* What every step is: one of the changes above, or the end. *)
LEMMA StepKinds ==
  ASSUME StorageInv, StorageNext
  PROVE  /\ ~ended
         /\ \/ /\ ended' = ended
               /\ \/ Kept(table, table', store, store')
                  \/ \E N, sig, imm : imm \in BOOLEAN /\ Grew(table, table', store, store', N, sig, imm)
                  \/ \E id \in EntityID : Removed(table, table', store, store', id)
                  \/ /\ table' = table
                     /\ \E id \in EntityID : \/ \E c : Replaced(table, store, store', id, c)
                                             \/ \E sig : Migrated(table, store, store', id, sig)
            \/ ended' /\ table' = EmptyTable /\ store' = NewStore(EmptyPool)
<1> USE DEF StorageNext
<1>0. TableSound(table) /\ Sound(store, Live(table)) /\ Creations \subseteq [sig : Signature, immutable : BOOLEAN]
      /\ Changeable \subseteq Component
  BY StorageAssumption DEF StorageInv, Signature
<1>1. CASE \E n \in 1 .. 2, c \in Creations : CreateEntities(n, c.sig, c.immutable)
  <2>1. PICK n \in 1 .. 2, c \in Creations : CreateEntities(n, c.sig, c.immutable)
    BY <1>1
  <2>2. c.sig \in Signature /\ c.immutable \in BOOLEAN
    BY <1>0
  <2>3. \E N : Grew(table, table', store, store', N, c.sig, c.immutable)
    BY <1>0, <2>1, <2>2, CreateGrows
  <2>4. ~ended /\ ended' = ended
    BY <2>1 DEF CreateEntities
  <2> QED
    BY <2>2, <2>3, <2>4
<1>2. CASE ReserveEntity
  BY <1>2, ReserveKeeps DEF ReserveEntity
<1>3. CASE \E ids \in BoundedSeq(EntityID, 2) \ {<<>>}, c \in Creations :
             IsInjective(ids) /\ ~c.immutable /\ FinaliseReserved(ids, c.sig)
  <2>1. PICK ids \in BoundedSeq(EntityID, 2), c \in Creations : IsInjective(ids) /\ FinaliseReserved(ids, c.sig)
    BY <1>3
  <2>2. c.sig \in Signature
    BY <1>0
  <2>3. \E N : Grew(table, table', store, store', N, c.sig, FALSE)
    BY <1>0, <2>1, <2>2, FinaliseGrows
  <2>4. ~ended /\ ended' = ended
    BY <2>1 DEF FinaliseReserved
  <2> QED
    BY <2>3, <2>4
<1>4. CASE \E id \in EntityID : DestroyEntity(id)
  <2>1. PICK id \in EntityID : DestroyEntity(id)
    BY <1>4
  <2>2. Removed(table, table', store, store', id)
    BY <2>1, DestroyRemoves
  <2>3. ~ended /\ ended' = ended
    BY <2>1 DEF DestroyEntity
  <2> QED
    BY <2>2, <2>3
<1>5. CASE \E id \in EntityID, c \in Changeable : ReplaceComponent(id, c)
  <2>1. PICK id \in EntityID, c \in Changeable : ReplaceComponent(id, c)
    BY <1>5
  <2>2. Replaced(table, store, store', id, c)
    BY <2>1, ReplaceReplaces
  <2>3. ~ended /\ ended' = ended /\ table' = table
    BY <2>1 DEF ReplaceComponent
  <2> QED
    BY <2>2, <2>3
<1>6. CASE \E id \in EntityID, c \in Changeable : add_component(id, c)
  <2>1. PICK id \in EntityID, c \in Changeable : add_component(id, c)
    BY <1>6
  <2>2. Migrated(table, store, store', id, SigAt(store, id) \cup {c})
    BY <1>0, <2>1, AddMigrates
  <2>3. ~ended /\ ended' = ended /\ table' = table
    BY <2>1 DEF add_component
  <2> QED
    BY <2>2, <2>3
<1>7. CASE \E id \in EntityID, c \in Changeable : remove_component(id, c)
  <2>1. PICK id \in EntityID, c \in Changeable : remove_component(id, c)
    BY <1>7
  <2>2. Migrated(table, store, store', id, SigAt(store, id) \ {c})
    BY <2>1, RemoveMigrates
  <2>3. ~ended /\ ended' = ended /\ table' = table
    BY <2>1 DEF remove_component
  <2> QED
    BY <2>2, <2>3
<1>8. CASE \E key \in Queries : Query(key)
  <2>1. PICK key \in Queries : Query(key)
    BY <1>8
  <2> QED
    BY <2>1, QueryKeeps DEF Query
<1>9. CASE Tick
  BY <1>9, TickKeeps DEF Tick
<1>10. CASE DestroyWorld
  <2>1. Drained(store) = NewStore(EmptyPool)
    BY <1>0, EndFacts
  <2> QED
    BY <1>10, <2>1 DEF DestroyWorld
<1> QED
  BY <1>1, <1>2, <1>3, <1>4, <1>5, <1>6, <1>7, <1>8, <1>9, <1>10

(* Every call on a World keeps the invariant. *)
LEMMA StorageInvNext ==
  ASSUME StorageInv, [StorageNext]_storageVars
  PROVE  StorageInv'
<1>1. CASE UNCHANGED storageVars
  <2>1. table' = table /\ store' = store /\ ended' = ended
    BY <1>1 DEF storageVars
  <2> QED
    BY <2>1 DEF StorageInv
<1>2. CASE StorageNext
  <2>1. ended \in BOOLEAN /\ ~ended /\ TableSound(table)
    BY <1>2, StepKinds DEF StorageInv
  <2>2. CASE ended' /\ table' = EmptyTable /\ store' = NewStore(EmptyPool)
    <3>1. TableSound(table') /\ Sound(store', Live(table'))
      BY <2>2, EmptyLive, FreshFacts
    <3> QED
      BY <2>1, <2>2, <3>1, StepKinds, <1>2 DEF StorageInv
  <2>3. CASE ended' = ended
    <3>1. TableSound(table') /\ Sound(store', Live(table'))
      <4>1. CASE Kept(table, table', store, store')
        BY <4>1 DEF Kept
      <4>2. CASE \E N, sig, imm : Grew(table, table', store, store', N, sig, imm)
        BY <4>2 DEF Grew, Appeared
      <4>3. CASE \E id \in EntityID : Removed(table, table', store, store', id)
        BY <4>3 DEF Removed
      <4>4. CASE table' = table /\ \E id \in EntityID : \E c : Replaced(table, store, store', id, c)
        BY <2>1, <4>4 DEF Replaced
      <4>5. CASE table' = table /\ \E id \in EntityID : \E sig : Migrated(table, store, store', id, sig)
        BY <2>1, <4>5 DEF Migrated
      <4> QED
        BY <1>2, <2>1, <2>3, <4>1, <4>2, <4>3, <4>4, <4>5, StepKinds
    <3> QED
      BY <2>1, <2>3, <3>1 DEF StorageInv
  <2> QED
    BY <1>2, <2>2, <2>3, StepKinds
<1> QED
  BY <1>1, <1>2

(* The table and the storage are sound in every reachable state. *)
THEOREM StorageIsSound == StorageSpec => []StorageInv
<1>1. StorageInit => StorageInv
  BY StorageInvInit
<1>2. StorageInv /\ [StorageNext]_storageVars => StorageInv'
  BY StorageInvNext
<1> QED
  BY <1>1, <1>2, PTL DEF StorageSpec

----------------------------------------------------------------------------
(* Blocks and caches. *)

LEMMA OneToOne ==
  ASSUME NEW S, NEW T, NEW f, DOMAIN f = S, f = [x \in S |-> f[x]], \A x, y \in S : f[x] = f[y] => x = y,
         \A b : b \in T <=> \E x \in S : f[x] = b
  PROVE  /\ IsFiniteSet(S) => Cardinality(T) = Cardinality(S)
         /\ IsFiniteSet(T) => Cardinality(T) = Cardinality(S)
<1>1. f \in [S -> T]
  OBVIOUS
<1>2. f \in Injection(S, T)
  BY <1>1 DEF Injection, IsInjective
<1>3. f \in Surjection(S, T)
  BY <1>1 DEF Surjection
<1>4. ExistsBijection(S, T)
  BY <1>2, <1>3 DEF ExistsBijection, Bijection
<1>5. IsFiniteSet(T) => IsFiniteSet(S)
  BY <1>2, FS_Injection
<1> QED
  BY <1>4, <1>5, FS_Bijection

(* Every block of every chunk, as BlocksOwnedOnce counts them. *)
LEMMA BlocksCounted ==
  ASSUME NEW A, UsedOnce(A), \A a \in DOMAIN A : \A k \in DOMAIN A[a].chunks : A[a].chunks[k].block \in Block
  PROVE  LET inChunks == UNION {{<<a, k>> : k \in DOMAIN A[a].chunks} : a \in DOMAIN A}
             owned == {A[p[1]].chunks[p[2]].block : p \in inChunks}
         IN  Cardinality(owned) = Cardinality(inChunks) /\ owned = Used(A, DOMAIN A)
<1> DEFINE inChunks == UNION {{<<a, k>> : k \in DOMAIN A[a].chunks} : a \in DOMAIN A}
           owned == {A[p[1]].chunks[p[2]].block : p \in inChunks}
           f == [p \in inChunks |-> A[p[1]].chunks[p[2]].block]
<1>1. \A p \in inChunks : \E a \in DOMAIN A : \E k \in DOMAIN A[a].chunks : p = <<a, k>>
  OBVIOUS
<1>2. \A a \in DOMAIN A : \A k \in DOMAIN A[a].chunks : <<a, k>> \in inChunks
  OBVIOUS
<1>3. \A b : b \in owned <=> \E p \in inChunks : f[p] = b
  OBVIOUS
<1>4. DOMAIN f = inChunks /\ f = [p \in inChunks |-> f[p]]
  OBVIOUS
<1>5. \A a \in DOMAIN A : \A k \in DOMAIN A[a].chunks : f[<<a, k>>] = A[a].chunks[k].block
  BY <1>2
<1> HIDE DEF inChunks, f, owned
<1>6. \A p, q \in inChunks : f[p] = f[q] => p = q
  <2> TAKE p, q \in inChunks
  <2> HAVE f[p] = f[q]
  <2>1. PICK a \in DOMAIN A : \E k \in DOMAIN A[a].chunks : p = <<a, k>>
    BY <1>1
  <2>2. PICK k \in DOMAIN A[a].chunks : p = <<a, k>>
    BY <2>1
  <2>3. PICK b \in DOMAIN A : \E j \in DOMAIN A[b].chunks : q = <<b, j>>
    BY <1>1
  <2>4. PICK j \in DOMAIN A[b].chunks : q = <<b, j>>
    BY <2>3
  <2>5. f[p] = A[a].chunks[k].block /\ f[q] = A[b].chunks[j].block
    BY <1>5, <2>2, <2>4
  <2>6. A[a].chunks[k].block = A[b].chunks[j].block
    BY <2>5
  <2>7. a = b /\ j = k
    <3> QED
      BY <2>6 DEF UsedOnce
  <2> QED
    BY <2>2, <2>4, <2>7
<1>7. owned = Used(A, DOMAIN A)
  <2>1. \A b : b \in owned <=> \E a \in DOMAIN A : \E k \in DOMAIN A[a].chunks : A[a].chunks[k].block = b
    <3>1. ASSUME NEW b \in owned
          PROVE  \E a \in DOMAIN A : \E k \in DOMAIN A[a].chunks : A[a].chunks[k].block = b
      <4>1. PICK p \in inChunks : f[p] = b
        BY <1>3
      <4>2. PICK a \in DOMAIN A : \E k \in DOMAIN A[a].chunks : p = <<a, k>>
        BY <1>1
      <4>3. PICK k \in DOMAIN A[a].chunks : p = <<a, k>>
        BY <4>2
      <4>4. A[a].chunks[k].block = b
        BY <1>5, <4>1, <4>3
      <4> QED
        BY <4>4
    <3>2. \A a \in DOMAIN A : \A k \in DOMAIN A[a].chunks : A[a].chunks[k].block \in owned
      BY <1>2, <1>3, <1>5
    <3> QED
      BY <3>1, <3>2
  <2> QED
    BY <2>1 DEF Used
<1>8. IsFiniteSet(owned)
  <2>1. owned \in SUBSET Block
    BY <1>7 DEF Used
  <2> QED
    BY <2>1, PoolAssumption, FS_Subset
<1>9. Cardinality(owned) = Cardinality(inChunks)
  BY <1>3, <1>4, <1>6, <1>8, OneToOne
<1> QED
  BY <1>7, <1>9 DEF inChunks, owned

(* The cached blocks, counted. *)
LEMMA CachedCounted ==
  ASSUME NEW p, NEW B, PoolSound(p, B)
  PROVE  LET cached == {p.free[k].block : k \in DOMAIN p.free}
         IN  Cardinality(cached) = Len(p.free) /\ \A b : b \in cached <=> IsCached(p, b)
<1> DEFINE cached == {p.free[k].block : k \in DOMAIN p.free}
           n == Len(p.free)
           f == [k \in 1 .. n |-> p.free[k].block]
<1>1. n \in Nat /\ DOMAIN p.free = 1 .. n
  BY PoolTypes DEF PoolSound
<1>2. \A i, j \in 1 .. n : f[i] = f[j] => i = j
  BY <1>1 DEF PoolSound
<1>3. \A b : b \in cached <=> \E k \in 1 .. n : f[k] = b
  BY <1>1
<1>4. \A b : b \in cached <=> IsCached(p, b)
  BY DEF IsCached
<1>5. DOMAIN f = 1 .. n /\ f = [k \in 1 .. n |-> f[k]]
  OBVIOUS
<1>6. IsFiniteSet(1 .. n) /\ Cardinality(1 .. n) = n
  BY <1>1, CountTo
<1> HIDE DEF f, cached, n
<1>7. Cardinality(cached) = Cardinality(1 .. n)
  BY <1>2, <1>3, <1>5, <1>6, OneToOne
<1> QED
  BY <1>4, <1>6, <1>7 DEF cached, n

(* The invariant counts every block once. *)
LEMMA InvOwnsBlocks ==
  ASSUME StorageInv
  PROVE  BlocksOwnedOnce
<1> DEFINE A == store.archs
           inChunks == UNION {{<<a, k>> : k \in DOMAIN A[a].chunks} : a \in DOMAIN A}
           owned == {A[p[1]].chunks[p[2]].block : p \in inChunks}
           cached == {store.pool.free[k].block : k \in DOMAIN store.pool.free}
           B == Used(A, DOMAIN A)
<1>1. UsedOnce(A) /\ PoolSound(store.pool, B) /\ ArchetypesOK(A)
  BY DEF StorageInv, Sound, StoreOK
<1>2. \A a \in DOMAIN A : \A k \in DOMAIN A[a].chunks : A[a].chunks[k].block \in Block
  BY <1>1, ArchetypeFacts
<1>3. Cardinality(owned) = Cardinality(inChunks) /\ owned = B
  <2> HIDE DEF A, B
  <2> QED
    BY <1>1, <1>2, BlocksCounted DEF B
<1>4. Cardinality(cached) = Len(store.pool.free) /\ \A b : b \in cached <=> IsCached(store.pool, b)
  <2> HIDE DEF A, B
  <2> QED
    BY <1>1, CachedCounted
<1>5. ended => store.pool.live = {}
  BY PoolFacts DEF StorageInv, NewStore, Store, EmptyPool, Pool
<1> HIDE DEF owned, cached, B
<1>6. owned \cap cached = {}
  BY <1>1, <1>3, <1>4 DEF PoolSound
<1>7. owned \cup cached = store.pool.live
  BY <1>1, <1>3, <1>4 DEF PoolSound
<1> QED
  BY <1>3, <1>4, <1>5, <1>6, <1>7 DEF BlocksOwnedOnce, owned, cached

(* In every reachable state a block is in one chunk of one archetype or once in
   the cache of the pool, and every block the World allocated is in one of the two
   (ChunkPool.hpp, Archetype.hpp): nothing is written twice or leaked. *)
THEOREM BlocksAreOwnedOnce == StorageSpec => []BlocksOwnedOnce
<1>1. StorageInv => BlocksOwnedOnce
  BY InvOwnsBlocks
<1> QED
  BY <1>1, StorageIsSound, PTL

(* The invariant contains the promise of the caches. *)
LEMMA InvCompletesCache ==
  ASSUME StorageInv
  PROVE  CacheComplete
<1>1. CacheOK(store)
  BY DEF StorageInv, Sound
<1>2. ASSUME NEW key \in DOMAIN store.cache, store.cache[key].epoch = store.epoch
      PROVE  LET matched == store.cache[key].matched
             IN  /\ Range(matched) = {a \in DOMAIN store.archs :
                                        /\ \A c \in key.require : c \in store.archs[a].sig
                                        /\ \A c \in key.exclude : c \notin store.archs[a].sig}
                 /\ \A i, j \in DOMAIN matched : i < j => matched[i] < matched[j]
  <2>1. Complete(store.archs, key, store.cache[key].matched)
    BY <1>1, <1>2 DEF CacheOK
  <2> DEFINE m == store.cache[key].matched
             A == store.archs
             S == {a \in DOMAIN A : /\ \A c \in key.require : c \in A[a].sig
                                    /\ \A c \in key.exclude : c \notin A[a].sig}
  <2>2. /\ \A a : a \in Range(m) <=> a \in DOMAIN A /\ key.require \subseteq A[a].sig /\ key.exclude \cap A[a].sig = {}
        /\ \A i, j \in DOMAIN m : i < j => m[i] < m[j]
    BY <2>1 DEF Complete
  <2>3. \A a : a \in S <=> a \in DOMAIN A /\ key.require \subseteq A[a].sig /\ key.exclude \cap A[a].sig = {}
    OBVIOUS
  <2> HIDE DEF m, A, S
  <2>4. Range(m) = S
    BY <2>2, <2>3
  <2> QED
    BY <2>2, <2>4 DEF m, A, S
<1> QED
  BY <1>2 DEF CacheComplete

(* In every reachable state a query cache whose epoch is that of the World lists
   every archetype its query matches, in order (World::resolve_query_cache). *)
THEOREM CachesAreComplete == StorageSpec => []CacheComplete
<1>1. StorageInv => CacheComplete
  BY InvCompletesCache
<1> QED
  BY <1>1, StorageIsSound, PTL

----------------------------------------------------------------------------
(* Rows and slots. *)

(* The places that hold a row, as RowsMatchSlots collects them. *)
RowsOf(A) ==
  UNION {UNION {{Loc(a, k, r) : r \in DOMAIN A[a].chunks[k].rows} : k \in DOMAIN A[a].chunks} : a \in DOMAIN A}

(* RowsMatchSlots collects the locations that hold a row. *)
LEMMA RowsCollected ==
  ASSUME NEW A, ArchetypesOK(A)
  PROVE  \A l : l \in RowsOf(A) <=> l \in Location /\ RowIn(A, l)
<1>1. \A l : l \in RowsOf(A) <=> \E a \in DOMAIN A : \E k \in DOMAIN A[a].chunks : \E r \in DOMAIN A[a].chunks[k].rows :
                                   l = Loc(a, k, r)
  BY DEF RowsOf
<1>2. ASSUME NEW a \in DOMAIN A, NEW k \in DOMAIN A[a].chunks, NEW r \in DOMAIN A[a].chunks[k].rows
      PROVE  Loc(a, k, r) \in Location /\ RowIn(A, Loc(a, k, r))
  <2>1. a \in Nat
    BY ArchetypeFacts
  <2>2. A[a].chunks \in Seq(Chunk)
    BY ArchetypeFacts
  <2> DEFINE C == A[a].chunks
  <2>3. C \in Seq(Chunk) /\ k \in DOMAIN C
    BY <2>2
  <2> HIDE DEF C
  <2>4. k \in Nat /\ C[k].rows \in Seq(RowSet)
    <3>1. k \in Nat /\ C[k] \in Chunk
      BY <2>3
    <3> QED
      BY <3>1 DEF Chunk
  <2>5. r \in Nat
    <3> DEFINE R == C[k].rows
    <3>1. R \in Seq(RowSet) /\ r \in DOMAIN R
      BY <2>4 DEF C
    <3> HIDE DEF R
    <3> QED
      BY <3>1
  <2> QED
    BY <2>1, <2>4, <2>5, LocFacts DEF RowIn, Has
<1>3. ASSUME NEW l \in Location, RowIn(A, l) PROVE l \in RowsOf(A)
  <2>1. l = Loc(l.arch, l.chunk, l.row)
    BY LocationFacts
  <2> QED
    BY <1>1, <1>3, <2>1 DEF RowIn, Has
<1> QED
  BY <1>1, <1>2, <1>3

(* The invariant makes slots and rows a one-to-one correspondence. *)
LEMMA InvMatchesRows ==
  ASSUME StorageInv
  PROVE  RowsMatchSlots
<1> DEFINE A == store.archs
           L == Live(table)
           rows == RowsOf(A)
           f == [id \in L |-> store.place[id.index]]
<1>1. StoreOK(store) /\ Placed(store, L, {}) /\ ArchetypesOK(A) /\ TableSound(table)
  BY DEF StorageInv, Sound, StoreOK
<1>2. L = LiveIds
  BY EmptyLive DEF StorageInv, LiveIds, Live
<1>3. \A id \in L : id \in EntityID /\ store.place[id.index] \in Location /\ RowIn(A, store.place[id.index])
                    /\ RowOf(A, store.place[id.index]).id = id
  <2>1. Sound(store, L)
    BY DEF StorageInv
  <2>2. \A id \in L : id \in EntityID /\ store.place[id.index] \in Location /\ RowIn(A, store.place[id.index])
    <3> HIDE DEF L
    <3> QED
      BY <2>1, SoundRows
  <2> QED
    BY <1>1, <2>2 DEF Placed
<1>4. \A l : l \in rows <=> l \in Location /\ RowIn(A, l)
  BY <1>1, RowsCollected
<1>5. \A l \in Location : RowIn(A, l) => RowOf(A, l).id \in L /\ store.place[RowOf(A, l).id.index] = l
  BY <1>1 DEF Placed
<1>6. DOMAIN f = L /\ f = [id \in L |-> f[id]] /\ \A id \in L : f[id] = store.place[id.index]
  OBVIOUS
<1> HIDE DEF f, rows, L
<1>7. \A id, jd \in L : f[id] = f[jd] => id = jd
  BY <1>3, <1>6
<1>8. \A l : l \in rows <=> \E id \in L : f[id] = l
  BY <1>3, <1>4, <1>5, <1>6
<1>9. IsFiniteSet(L)
  <2> DEFINE g == [id \in L |-> id.index]
  <2>1. \A id, jd \in L : id.index = jd.index => id = jd
    BY <1>1 DEF Placed
  <2>2. \A id \in L : id.index \in Index
    BY <1>3, EntityIdFacts
  <2>3. g \in Injection(L, Index)
    BY <2>1, <2>2 DEF Injection, IsInjective
  <2>4. IsFiniteSet(Index)
    BY TableAssumption, FS_Interval DEF Index
  <2> QED
    BY <2>3, <2>4, FS_Injection
<1>10. Cardinality(rows) = Cardinality(L)
  BY <1>6, <1>7, <1>8, <1>9, OneToOne
<1>11. \A id \in LiveIds : /\ store.place[id.index] \in rows
                           /\ RowAt(store, store.place[id.index]).id = id
  BY <1>2, <1>3, <1>4 DEF RowAt, RowOf
<1>12. \A a \in DOMAIN A : \A k \in DOMAIN A[a].chunks :
           LET filled == Len(A[a].chunks[k].rows)
           IN  IF k < Len(A[a].chunks) THEN filled = Layout[A[a].sig].capacity
               ELSE filled \in 1 .. Layout[A[a].sig].capacity
  <2> TAKE a \in DOMAIN A
  <2> TAKE k \in DOMAIN A[a].chunks
  <2>1. Packed(A[a].chunks, Layout[A[a].sig].capacity)
    BY <1>1 DEF ArchetypesOK, Capacity
  <2> QED
    BY <2>1 DEF Packed
<1>13. Cardinality(rows) = Cardinality(LiveIds)
  BY <1>2, <1>10
<1> QED
  BY <1>11, <1>12, <1>13 DEF RowsMatchSlots, rows, RowsOf

(* In every reachable state the slot of an entity names its row, the row names the
   entity, and there are as many rows as entities alive: no row is orphaned or
   shared by the swaps of World::compact and the moves of a migration. *)
THEOREM RowsMatchTheSlots == StorageSpec => []RowsMatchSlots
<1>1. StorageInv => RowsMatchSlots
  BY InvMatchesRows
<1> QED
  BY <1>1, StorageIsSound, PTL

----------------------------------------------------------------------------
(* Versions guard addresses. *)

(* The entity stays in its row, and the row in its block. *)
StaysPut(s, t, id) ==
  /\ s.place[id.index].arch \in DOMAIN s.archs
  /\ t.place[id.index] = s.place[id.index]
  /\ BlockOf(t.archs, t.place[id.index]) = BlockOf(s.archs, s.place[id.index])

(* An entity that stays put has its components at the same address. *)
LEMMA SameAddress ==
  ASSUME NEW w, NEW v, NEW s, NEW t, NEW id, IsAlive(w, id), IsAlive(v, id), VersionsGrow(s, t), StaysPut(s, t, id)
  PROVE  \A c : get_component(v, t, id, c) = get_component(w, s, id, c)
<1> DEFINE l == s.place[id.index]
<1>1. SigOf(t, id) = SigOf(s, id)
  BY DEF SigOf, VersionsGrow, StaysPut
<1>2. t.place[id.index] = l /\ t.archs[l.arch].chunks[l.chunk].block = s.archs[l.arch].chunks[l.chunk].block
  BY DEF StaysPut, BlockOf
<1> QED
  BY <1>1, <1>2 DEF get_component

(* Whoever keeps his row in an archetype whose version stays has not moved. *)
LEMMA KeptStaysPut ==
  ASSUME NEW s, NEW t, NEW id, s.place[id.index].arch \in DOMAIN s.archs, Keeps(s, t, id),
         t.archs[s.place[id.index].arch].version = s.archs[s.place[id.index].arch].version
  PROVE  StaysPut(s, t, id)
BY DEF Keeps, StaysPut

(* One step, seen by an entity that lives through it. *)
LEMMA StepGuardsAddresses ==
  ASSUME StorageInv, StorageNext, ~ended'
  PROVE  /\ VersionsGrow(store, store')
         /\ \A id \in Live(table) :
              LET a == store.place[id.index].arch
              IN  /\ store'.archs[a].version = store.archs[a].version
                  /\ id \in Live(table')
                  /\ store'.place[id.index].arch = a
                  => StaysPut(store, store', id)
<1> DEFINE w == table
           v == table'
           s == store
           t == store'
           L == Live(w)
           Goal == /\ VersionsGrow(s, t)
                   /\ \A id \in L : /\ t.archs[s.place[id.index].arch].version = s.archs[s.place[id.index].arch].version
                                    /\ id \in Live(v)
                                    /\ t.place[id.index].arch = s.place[id.index].arch
                                    => StaysPut(s, t, id)
<1>1. Sound(s, L)
  BY DEF StorageInv
<1>2. \A id \in L : s.place[id.index].arch \in DOMAIN s.archs
  <2> HIDE DEF L
  <2> QED
    BY <1>1, SoundRows
<1>3. CASE Kept(w, v, s, t)
  BY <1>2, <1>3, KeptStaysPut DEF Kept
<1>4. CASE \E N, sig, imm : imm \in BOOLEAN /\ Grew(w, v, s, t, N, sig, imm)
  BY <1>2, <1>4, KeptStaysPut DEF Grew, Appeared
<1>5. CASE \E id \in EntityID : Removed(w, v, s, t, id)
  <2>1. PICK id \in EntityID : Removed(w, v, s, t, id)
    BY <1>5
  <2> QED
    BY <1>2, <2>1, KeptStaysPut DEF Removed
<1>6. CASE \E id \in EntityID : \E c : Replaced(w, s, t, id, c)
  <2>1. PICK id \in EntityID : \E c : Replaced(w, s, t, id, c)
    BY <1>6
  <2>2. VersionsGrow(s, t) /\ \A jd \in L : t.place[jd.index] = s.place[jd.index]
        /\ BlockOf(t.archs, t.place[jd.index]) = BlockOf(s.archs, s.place[jd.index])
    BY <2>1 DEF Replaced
  <2> QED
    BY <1>2, <2>2 DEF StaysPut
<1>7. CASE \E id \in EntityID : \E sig : Migrated(w, s, t, id, sig)
  <2>1. PICK id \in EntityID : \E sig : Migrated(w, s, t, id, sig)
    BY <1>7
  <2>2. PICK sig : Migrated(w, s, t, id, sig)
    BY <2>1
  <2>3. /\ VersionsGrow(s, t) /\ \A jd \in L \ {id} : Keeps(s, t, jd)
        /\ id \in L /\ SigAt(t, id) = sig /\ OneComponent(SigAt(s, id), sig)
    BY <2>2 DEF Migrated
  <2>4. SigAt(t, id) # SigAt(s, id)
    BY <2>3 DEF OneComponent
  <2>5. t.place[id.index].arch # s.place[id.index].arch
    BY <1>2, <2>3, <2>4 DEF VersionsGrow, SigAt
  <2>6. ASSUME NEW jd \in L, t.archs[s.place[jd.index].arch].version = s.archs[s.place[jd.index].arch].version,
               t.place[jd.index].arch = s.place[jd.index].arch
        PROVE  StaysPut(s, t, jd)
    <3>1. jd \in L \ {id}
      BY <2>5, <2>6
    <3> QED
      BY <1>2, <2>3, <2>6, <3>1, KeptStaysPut
  <2> QED
    BY <2>3, <2>6
<1>8. Goal
  BY <1>3, <1>4, <1>5, <1>6, <1>7, StepKinds
<1> QED
  BY <1>8

(* While the version of its archetype is unchanged an entity that is still in it has
   not moved, so that a CachedRef that compares versions reads the component of its
   own entity (CachedRef.hpp). *)
THEOREM VersionsGuardAddresses == StorageSpec => VersionGuardsAddresses
<1> DEFINE Guard ==
             ~ended' /\ store' # store =>
               /\ \A a \in DOMAIN store.archs : store'.archs[a].version >= store.archs[a].version
               /\ \A id \in LiveIds :
                    LET a == store.place[id.index].arch
                    IN  /\ store'.archs[a].version = store.archs[a].version
                        /\ IsAlive(table', id)
                        /\ store'.place[id.index].arch = a
                        => \A c \in SigOf(store, id) :
                             get_component(table', store', id, c) = get_component(table, store, id, c)
<1>1. ASSUME StorageInv, [StorageNext]_storageVars
      PROVE  [Guard]_storageVars
  <2> SUFFICES ASSUME StorageNext, ~ended' PROVE Guard
    BY <1>1
  <2>1. /\ VersionsGrow(store, store')
        /\ \A id \in Live(table) :
              LET a == store.place[id.index].arch
              IN  /\ store'.archs[a].version = store.archs[a].version
                  /\ id \in Live(table')
                  /\ store'.place[id.index].arch = a
                  => StaysPut(store, store', id)
    BY <1>1, StepGuardsAddresses
  <2>2. \A a \in DOMAIN store.archs : store'.archs[a].version >= store.archs[a].version
    BY <2>1 DEF VersionsGrow
  <2>3. ASSUME NEW id \in LiveIds, store'.archs[store.place[id.index].arch].version =
                                     store.archs[store.place[id.index].arch].version,
               IsAlive(table', id), store'.place[id.index].arch = store.place[id.index].arch
        PROVE  \A c \in SigOf(store, id) :
                 get_component(table', store', id, c) = get_component(table, store, id, c)
    <3>1. id \in EntityID /\ IsAlive(table, id)
      BY DEF LiveIds
    <3>2. id \in Live(table) /\ id \in Live(table')
      BY <2>3, <3>1 DEF Live
    <3>3. StaysPut(store, store', id)
      BY <2>1, <2>3, <3>2
    <3>4. IsAlive(table, id) /\ IsAlive(table', id) /\ VersionsGrow(store, store')
      BY <2>1, <2>3, <3>1
    <3>5. \A c : get_component(table', store', id, c) = get_component(table, store, id, c)
      BY <3>3, <3>4, SameAddress
    <3> QED
      BY <3>5
  <2> QED
    BY <2>2, <2>3
<1>2. StorageSpec => [][Guard]_storageVars
  BY <1>1, StorageIsSound, PTL DEF StorageSpec
<1> QED
  BY <1>2 DEF VersionGuardsAddresses

----------------------------------------------------------------------------
(* The promise of the store. *)

LEMMA EntitiesFacts ==
  ASSUME NEW w, NEW s
  PROVE  /\ Entities(w, s) = [id \in Live(w) |-> Seen(s, id)]
         /\ DOMAIN Entities(w, s) = Live(w) /\ \A id \in Live(w) : Entities(w, s)[id] = Seen(s, id)
         /\ Fixed(w) = Frozen(w) /\ Frozen(w) \subseteq Live(w)
<1>1. Entities(w, s) = [id \in Live(w) |-> Seen(s, id)]
  BY DEF Entities, Live
<1>2. \A id \in EntityID : IsImmutable(w, id) => id \in Live(w)
  BY ReservedFacts DEF Live
<1>3. Fixed(w) = Frozen(w)
  BY <1>2 DEF Fixed, Frozen, Live
<1> QED
  BY <1>1, <1>3 DEF Frozen

(* What a reader sees of an entity: its components, and the values of those that have a column. *)
LEMMA SeenFacts ==
  ASSUME NEW s, NEW id
  PROVE  /\ Seen(s, id) = [c \in SigAt(s, id) |-> IF c \in Columns(SigAt(s, id)) THEN RowOfId(s, id).values[c] ELSE Present]
         /\ DOMAIN Seen(s, id) = SigAt(s, id)
         /\ \A c \in SigAt(s, id) : Seen(s, id)[c] = IF c \in Columns(SigAt(s, id)) THEN RowOfId(s, id).values[c] ELSE Present
BY DEF Seen, SigAt, SigOf, RowOfId, RowOf, RowAt

(* What a reader sees is what EntityStore takes for an entity. *)
LEMMA SeenTypes ==
  ASSUME NEW s, NEW L, Sound(s, L), NEW id \in L
  PROVE  Seen(s, id) \in Promise!Components /\ \A c \in SigAt(s, id) : Seen(s, id)[c] \in Marks \cup {Present}
<1>1. SigAt(s, id) \in Signature /\ RowOfId(s, id).values \in [Columns(SigAt(s, id)) -> Marks]
  BY SoundRows
<1>2. \A c \in SigAt(s, id) : Seen(s, id)[c] \in Marks \cup {Present}
  BY <1>1, SeenFacts
<1>3. Seen(s, id) \in [SigAt(s, id) -> Marks \cup {Present}]
  BY <1>2, SeenFacts
<1> QED
  BY <1>1, <1>2, <1>3 DEF Promise!Components, Signature

(* Who keeps its row is seen the same. *)
LEMMA SeenSame ==
  ASSUME NEW s, NEW t, NEW L, Sound(s, L), VersionsGrow(s, t), NEW id \in L, Keeps(s, t, id)
  PROVE  Seen(t, id) = Seen(s, id)
<1>1. s.place[id.index].arch \in DOMAIN s.archs
  BY SoundRows
<1>2. SigAt(t, id) = SigAt(s, id)
  BY <1>1 DEF SigAt, Keeps, VersionsGrow
<1>3. RowOfId(t, id) = RowOfId(s, id)
  BY DEF RowOfId, Keeps
<1> QED
  BY <1>2, <1>3, SeenFacts

(* What keeps every entity is a stutter of EntityStore. *)
LEMMA KeptMaps ==
  ASSUME NEW w, NEW v, NEW s, NEW t, Sound(s, Live(w)), Kept(w, v, s, t)
  PROVE  Entities(v, t) = Entities(w, s) /\ Fixed(v) = Fixed(w)
<1>1. Live(v) = Live(w) /\ Frozen(v) = Frozen(w) /\ VersionsGrow(s, t) /\ \A jd \in Live(w) : Keeps(s, t, jd)
  BY DEF Kept
<1>2. \A id \in Live(w) : Seen(t, id) = Seen(s, id)
  <2> DEFINE L == Live(w)
  <2>1. Sound(s, L) /\ \A jd \in L : Keeps(s, t, jd)
    BY <1>1
  <2> HIDE DEF L
  <2>2. \A id \in L : Seen(t, id) = Seen(s, id)
    BY <1>1, <2>1, SeenSame
  <2> QED
    BY <2>2 DEF L
<1>3. [id \in Live(w) |-> Seen(t, id)] = [id \in Live(w) |-> Seen(s, id)]
  BY <1>2
<1> QED
  BY <1>1, <1>3, EntitiesFacts

(* A growth is an Appear of EntityStore. *)
LEMMA GrewMaps ==
  ASSUME Sound(store, Live(table)), NEW N, NEW sig, NEW imm \in BOOLEAN, Grew(table, table', store, store', N, sig, imm)
  PROVE  Promise!Appear(Entities(table, store), Entities(table', store'))
<1> DEFINE w == table
           v == table'
           s == store
           t == store'
           L == Live(w)
           e == Entities(w, s)
           f == Entities(v, t)
<1>1. /\ N # {} /\ N \cap L = {} /\ Live(v) = L \cup N /\ sig \in Signature
      /\ Sound(t, L \cup N) /\ VersionsGrow(s, t)
      /\ \A id \in L : Keeps(s, t, id)
      /\ \A id \in N : SigAt(t, id) = sig
      /\ Frozen(v) = IF imm THEN Frozen(w) \cup N ELSE Frozen(w)
  BY DEF Grew, Appeared
<1>2. /\ DOMAIN e = L /\ (\A id \in L : e[id] = Seen(s, id))
      /\ DOMAIN f = L \cup N /\ (\A id \in L \cup N : f[id] = Seen(t, id))
      /\ Fixed(v) = Frozen(v) /\ Fixed(w) = Frozen(w)
  BY <1>1, EntitiesFacts
<1>3. Sound(s, L)
  OBVIOUS
<1> HIDE DEF e, f, L
<1>4. \A id \in L : f[id] = e[id]
  <2>1. \A id \in L : Seen(t, id) = Seen(s, id)
    BY <1>1, <1>3, SeenSame
  <2> QED
    BY <1>2, <2>1
<1>5. \A id \in N : f[id] \in Promise!Components
  <2> DEFINE M == L \cup N
  <2>1. Sound(t, M)
    BY <1>1
  <2> HIDE DEF M
  <2>2. \A id \in M : Seen(t, id) \in Promise!Components
    BY <2>1, SeenTypes
  <2> QED
    BY <1>2, <2>2 DEF M
<1>6. \A id, jd \in N : DOMAIN f[id] = DOMAIN f[jd]
  BY <1>1, <1>2, SeenFacts
<1>7. DOMAIN f \ DOMAIN e = N
  BY <1>1, <1>2
<1>8. Fixed(v) \in {Fixed(w), Fixed(w) \cup N}
  BY <1>1, <1>2
<1> QED
  BY <1>1, <1>2, <1>4, <1>5, <1>6, <1>7, <1>8 DEF Promise!Appear, e, f

(* A removal is a Disappear of EntityStore. *)
LEMMA RemovedMaps ==
  ASSUME Sound(store, Live(table)), NEW id \in EntityID, Removed(table, table', store, store', id), id \in Live(table)
  PROVE  Promise!Disappear(Entities(table, store), Entities(table', store'))
<1> DEFINE w == table
           v == table'
           s == store
           t == store'
           L == Live(w)
           e == Entities(w, s)
           f == Entities(v, t)
<1>1. /\ Live(v) = L \ {id} /\ Frozen(v) = Frozen(w) \ {id} /\ VersionsGrow(s, t)
      /\ \A jd \in L \ {id} : Keeps(s, t, jd)
  BY DEF Removed
<1>2. /\ DOMAIN e = L /\ (\A jd \in L : e[jd] = Seen(s, jd))
      /\ f = [jd \in L \ {id} |-> Seen(t, jd)]
      /\ Fixed(v) = Frozen(v) /\ Fixed(w) = Frozen(w)
  BY <1>1, EntitiesFacts
<1>3. Sound(s, L) /\ id \in L
  OBVIOUS
<1> HIDE DEF e, f, L
<1>4. f = [jd \in DOMAIN e \ {id} |-> e[jd]]
  <2>1. \A jd \in L \ {id} : Seen(t, jd) = Seen(s, jd)
    BY <1>1, <1>3, SeenSame
  <2> QED
    BY <1>2, <2>1
<1>5. Fixed(v) = Fixed(w) \ {id}
  BY <1>1, <1>2
<1> QED
  BY <1>2, <1>3, <1>4, <1>5 DEF Promise!Disappear, e, f

----------------------------------------------------------------------------
(* Every step keeps the promise. *)

(* Only one entity is seen another. *)
LEMMA OneChanges ==
  ASSUME NEW w, NEW s, NEW t, Sound(s, Live(w)), VersionsGrow(s, t), NEW id \in Live(w),
         \A jd \in Live(w) \ {id} : Keeps(s, t, jd)
  PROVE  Entities(w, t) = [Entities(w, s) EXCEPT ![id] = Seen(t, id)]
<1> DEFINE L == Live(w)
           e == Entities(w, s)
           f == Entities(w, t)
<1>1. e = [jd \in L |-> Seen(s, jd)] /\ f = [jd \in L |-> Seen(t, jd)]
  BY EntitiesFacts
<1>2. Sound(s, L) /\ id \in L /\ \A jd \in L \ {id} : Keeps(s, t, jd)
  OBVIOUS
<1> HIDE DEF L, e, f
<1>3. \A jd \in L \ {id} : Seen(t, jd) = Seen(s, jd)
  BY <1>2, SeenSame
<1>4. f = [e EXCEPT ![id] = Seen(t, id)]
  BY <1>1, <1>2, <1>3
<1> QED
  BY <1>4 DEF e, f

(* An assignment is a SetComponent of EntityStore. *)
LEMMA ReplacedMaps ==
  ASSUME Sound(store, Live(table)), NEW id, NEW c, Replaced(table, store, store', id, c), table' = table
  PROVE  Promise!SetComponent(Entities(table, store), Entities(table', store'))
<1> DEFINE w == table
           s == store
           t == store'
           L == Live(w)
           e == Entities(w, s)
           f == Entities(w, t)
           a == Seen(s, id)
           b == Seen(t, id)
           old == RowOfId(s, id).values
           sig == SigAt(s, id)
<1>1. /\ id \in L /\ id \notin Frozen(w) /\ c \in Columns(sig)
      /\ Sound(t, L) /\ VersionsGrow(s, t) /\ \A jd \in L \ {id} : Keeps(s, t, jd)
      /\ SigAt(t, id) = sig
  BY DEF Replaced
<1>2. PICK mark \in Marks : RowOfId(t, id) = Row(id, [old EXCEPT ![c] = mark])
  BY DEF Replaced
<1>3. f = [e EXCEPT ![id] = b]
  BY <1>1, OneChanges
<1>4. /\ DOMAIN e = L /\ DOMAIN f = L /\ e[id] = a /\ f[id] = b
      /\ Fixed(table') = Fixed(table) /\ Fixed(w) = Frozen(w) /\ Entities(table', t) = f
  BY <1>1, EntitiesFacts
<1>5. /\ DOMAIN a = sig /\ DOMAIN b = sig
      /\ a = [d \in sig |-> IF d \in Columns(sig) THEN old[d] ELSE Present]
      /\ b = [d \in sig |-> IF d \in Columns(sig) THEN RowOfId(t, id).values[d] ELSE Present]
  BY <1>1, SeenFacts
<1>6. old \in [Columns(sig) -> Marks] /\ sig \in Signature
  <2>1. Sound(s, L)
    OBVIOUS
  <2> HIDE DEF L, s
  <2> QED
    BY <1>1, <2>1, SoundRows
<1>7. c \in sig /\ c \in Component
  BY <1>1, <1>6 DEF Columns, Signature
<1>8. b[c] \in Marks \cup {Present}
  <2> HIDE DEF L
  <2> QED
    BY <1>1, <1>7, SeenTypes
<1>9. RowOfId(t, id).values = [old EXCEPT ![c] = mark]
  BY <1>2 DEF Row
<1> HIDE DEF a, b, e, f, L, old, sig
<1>10. b = [d \in DOMAIN a \cup {c} |-> IF d = c THEN b[c] ELSE a[d]]
  <2>1. DOMAIN a \cup {c} = sig
    BY <1>5, <1>7
  <2>2. \A d \in sig : d # c => b[d] = a[d]
    BY <1>5, <1>6, <1>9
  <2>3. b = [d \in sig |-> b[d]]
    BY <1>5
  <2>4. b = [d \in sig |-> IF d = c THEN b[c] ELSE a[d]]
    BY <2>2, <2>3
  <2> QED
    BY <2>1, <2>4
<1>11. f = [e EXCEPT ![id] = [d \in DOMAIN e[id] \cup {c} |-> IF d = c THEN f[id][c] ELSE e[id][d]]]
  BY <1>3, <1>4, <1>10
<1>12. c \in DOMAIN f[id] /\ f[id][c] \in Marks \cup {Present} /\ id \notin Fixed(table)
  BY <1>1, <1>4, <1>5, <1>7, <1>8
<1>13. Promise!SetComponent(e, f)
  BY <1>1, <1>4, <1>7, <1>11, <1>12 DEF Promise!SetComponent
<1> QED
  BY <1>4, <1>13 DEF e, f

(* A migration is a SetComponent or a DropComponent of EntityStore. *)
LEMMA MigratedMaps ==
  ASSUME Sound(store, Live(table)), NEW id, NEW sig, Migrated(table, store, store', id, sig), table' = table
  PROVE  \/ Promise!SetComponent(Entities(table, store), Entities(table', store'))
         \/ Promise!DropComponent(Entities(table, store), Entities(table', store'))
<1> DEFINE w == table
           s == store
           t == store'
           L == Live(w)
           e == Entities(w, s)
           f == Entities(w, t)
           a == Seen(s, id)
           b == Seen(t, id)
           x == RowOfId(s, id).values
           y == RowOfId(t, id).values
           old == SigAt(s, id)
<1>1. /\ id \in L /\ id \notin Frozen(w) /\ OneComponent(old, sig)
      /\ Sound(t, L) /\ VersionsGrow(s, t) /\ \A jd \in L \ {id} : Keeps(s, t, jd)
      /\ SigAt(t, id) = sig
      /\ \A d \in Columns(sig) : d \in old => y[d] = x[d]
  BY DEF Migrated
<1>2. f = [e EXCEPT ![id] = b]
  BY <1>1, OneChanges
<1>3. /\ DOMAIN e = L /\ DOMAIN f = L /\ e[id] = a /\ f[id] = b
      /\ Fixed(table') = Fixed(table) /\ Fixed(w) = Frozen(w) /\ Entities(table', t) = f
  BY <1>1, EntitiesFacts
<1>4. /\ DOMAIN a = old /\ DOMAIN b = sig
      /\ a = [d \in old |-> IF d \in Columns(old) THEN x[d] ELSE Present]
      /\ b = [d \in sig |-> IF d \in Columns(sig) THEN y[d] ELSE Present]
  BY <1>1, SeenFacts
<1>5. \A d \in sig : b[d] \in Marks \cup {Present}
  <2> HIDE DEF L
  <2> QED
    BY <1>1, SeenTypes
<1>6. \A d \in sig : d \in old => b[d] = a[d]
  <2> HIDE DEF x, y, a, b, old
  <2>1. \A d : d \in old /\ d \in sig => (d \in Columns(sig) <=> d \in Columns(old))
    BY DEF Columns
  <2> QED
    BY <1>1, <1>4, <2>1
<1>7. b = [d \in sig |-> b[d]]
  BY <1>4
<1> HIDE DEF a, b, e, f, L, old, x, y
<1>8. CASE \E c \in Component : c \notin old /\ sig = old \cup {c}
  <2>1. PICK c \in Component : c \notin old /\ sig = old \cup {c}
    BY <1>8
  <2>2. b = [d \in DOMAIN a \cup {c} |-> IF d = c THEN b[c] ELSE a[d]]
    <3>1. \A d \in sig : b[d] = IF d = c THEN b[c] ELSE a[d]
      BY <1>6, <2>1
    <3>2. [d \in sig |-> b[d]] = [d \in sig |-> IF d = c THEN b[c] ELSE a[d]]
      BY <3>1
    <3>3. DOMAIN a \cup {c} = sig
      BY <1>4, <2>1
    <3> QED
      BY <1>7, <3>2, <3>3
  <2>3. f = [e EXCEPT ![id] = [d \in DOMAIN e[id] \cup {c} |-> IF d = c THEN f[id][c] ELSE e[id][d]]]
    BY <1>2, <1>3, <2>2
  <2>4. c \in DOMAIN f[id] /\ f[id][c] \in Marks \cup {Present} /\ id \notin Fixed(table)
    BY <1>1, <1>3, <1>4, <1>5, <2>1
  <2>5. Promise!SetComponent(e, f)
    BY <1>1, <1>3, <2>1, <2>3, <2>4 DEF Promise!SetComponent
  <2> QED
    BY <1>3, <2>5 DEF e, f
<1>9. CASE \E c \in old : old # {c} /\ sig = old \ {c}
  <2>1. PICK c \in old : old # {c} /\ sig = old \ {c}
    BY <1>9
  <2>2. b = [d \in DOMAIN a \ {c} |-> a[d]]
    <3>1. \A d \in sig : b[d] = a[d]
      BY <1>6, <2>1
    <3>2. [d \in sig |-> b[d]] = [d \in sig |-> a[d]]
      BY <3>1
    <3> QED
      BY <1>4, <1>7, <2>1, <3>2
  <2>3. f = [e EXCEPT ![id] = [d \in DOMAIN e[id] \ {c} |-> e[id][d]]]
    BY <1>2, <1>3, <2>2
  <2>4. id \in DOMAIN e \ Fixed(table) /\ c \in DOMAIN e[id] /\ DOMAIN e[id] # {c}
    BY <1>1, <1>3, <1>4, <2>1
  <2>5. Promise!DropComponent(e, f)
    BY <1>3, <2>3, <2>4 DEF Promise!DropComponent
  <2> QED
    BY <1>3, <2>5 DEF e, f
<1> QED
  BY <1>1, <1>8, <1>9 DEF OneComponent

(* Every call on a World is a step of EntityStore or a stutter. *)
LEMMA StepMaps ==
  ASSUME StorageInv, StorageNext
  PROVE  Promise!Next
<1> DEFINE e == Entities(table, store)
           f == Entities(table', store')
<1>1. Sound(store, Live(table))
  BY DEF StorageInv
<1>2. CASE Kept(table, table', store, store')
  <2>1. f = e /\ Fixed(table') = Fixed(table)
    BY <1>1, <1>2, KeptMaps
  <2> QED
    BY <2>1 DEF Promise!Next, Promise!Step
<1>3. CASE \E N, sig, imm : imm \in BOOLEAN /\ Grew(table, table', store, store', N, sig, imm)
  <2>1. PICK N, sig, imm : imm \in BOOLEAN /\ Grew(table, table', store, store', N, sig, imm)
    BY <1>3
  <2>2. Promise!Appear(e, f)
    BY <1>1, <2>1, GrewMaps
  <2> QED
    BY <2>2 DEF Promise!Next, Promise!Step
<1>4. CASE \E id \in EntityID : Removed(table, table', store, store', id)
  <2>1. PICK id \in EntityID : Removed(table, table', store, store', id)
    BY <1>4
  <2>2. CASE id \in Live(table)
    <3>1. Promise!Disappear(e, f)
      BY <1>1, <2>1, <2>2, RemovedMaps
    <3> QED
      BY <3>1 DEF Promise!Next, Promise!Step
  <2>3. CASE id \notin Live(table)
    <3>1. Live(table) \ {id} = Live(table) /\ Frozen(table) \ {id} = Frozen(table)
      BY <2>3 DEF Frozen
    <3>2. Kept(table, table', store, store')
      BY <2>1, <3>1 DEF Removed, Kept
    <3>3. f = e /\ Fixed(table') = Fixed(table)
      BY <1>1, <3>2, KeptMaps
    <3> QED
      BY <3>3 DEF Promise!Next, Promise!Step
  <2> QED
    BY <2>2, <2>3
<1>5. CASE table' = table /\ \E id \in EntityID : \E c : Replaced(table, store, store', id, c)
  <2>1. PICK id \in EntityID : \E c : Replaced(table, store, store', id, c)
    BY <1>5
  <2>2. PICK c : Replaced(table, store, store', id, c)
    BY <2>1
  <2>3. Promise!SetComponent(e, f)
    BY <1>1, <1>5, <2>2, ReplacedMaps
  <2> QED
    BY <2>3 DEF Promise!Next, Promise!Step
<1>6. CASE table' = table /\ \E id \in EntityID : \E sig : Migrated(table, store, store', id, sig)
  <2>1. PICK id \in EntityID : \E sig : Migrated(table, store, store', id, sig)
    BY <1>6
  <2>2. PICK sig : Migrated(table, store, store', id, sig)
    BY <2>1
  <2>3. Promise!SetComponent(e, f) \/ Promise!DropComponent(e, f)
    BY <1>1, <1>6, <2>2, MigratedMaps
  <2> QED
    BY <2>3 DEF Promise!Next, Promise!Step
<1>7. CASE table' = EmptyTable /\ store' = NewStore(EmptyPool)
  <2>1. DOMAIN f = {} /\ Fixed(table') = {}
    BY <1>7, EmptyLive, EntitiesFacts
  <2> QED
    BY <2>1 DEF Promise!Next, Promise!Step, Promise!Teardown
<1> QED
  BY <1>2, <1>3, <1>4, <1>5, <1>6, <1>7, StepKinds

(* Archetypes, chunks, slots and pool implement EntityStore: every call on a World
   makes entities appear, makes one disappear, sets or drops one component of one,
   ends the World, or changes nothing a reader of components could see. *)
THEOREM StorageImplementsStore == StorageSpec => StorageRefinesStore
<1>1. StorageInit => Promise!Init
  <2> SUFFICES ASSUME StorageInit PROVE Promise!Init
    OBVIOUS
  <2>1. table = EmptyTable
    BY DEF StorageInit
  <2>2. Entities(table, store) = [id \in {} |-> Seen(store, id)] /\ Fixed(table) = {}
    BY <2>1, EmptyLive, EntitiesFacts
  <2> QED
    BY <2>2 DEF Promise!Init
<1>2. ASSUME StorageInv, [StorageNext]_storageVars
      PROVE  [Promise!Next]_(Promise!vars)
  <2>1. CASE StorageNext
    BY <1>1, <1>2, <2>1, StepMaps
  <2>2. CASE UNCHANGED storageVars
    <3>1. table' = table /\ store' = store
      BY <2>2 DEF storageVars
    <3> QED
      BY <3>1 DEF Promise!vars
  <2> QED
    BY <1>2, <2>1, <2>2
<1> QED
  BY <1>1, <1>2, StorageIsSound, PTL DEF StorageSpec, StorageRefinesStore, Promise!Spec

============================================================================
