-------------------------- MODULE SlotTableProofs --------------------------
(***************************************************************************)
(* What the operations of the slot table do to a table, for every number   *)
(* of slots and generations: the types they keep, the one slot each of     *)
(* them changes, and what becomes of the chain of free slots.  The proofs  *)
(* about the identity of entities and those about archetype storage both   *)
(* rest on these lemmas.                                                   *)
(***************************************************************************)
EXTENDS SlotTable, SequenceTheorems, TLAPS

-----------------------------------------------------------------------------
(* Popping and pushing the chain. *)
LEMMA TailFacts ==
  ASSUME NEW S, NEW s \in Seq(S), s # <<>>
  PROVE  /\ Tail(s) \in Seq(S)
         /\ Len(s) \in Nat \ {0}
         /\ Len(Tail(s)) = Len(s) - 1
         /\ \A j \in 1 .. Len(s) - 1 : Tail(s)[j] = s[j + 1]
         /\ s[1] \in S
OBVIOUS

LEMMA PushFacts ==
  ASSUME NEW S, NEW s \in Seq(S), NEW x \in S
  PROVE  /\ <<x>> \o s \in Seq(S)
         /\ Len(s) \in Nat
         /\ Len(<<x>> \o s) = Len(s) + 1
         /\ (<<x>> \o s)[1] = x
         /\ \A j \in 1 .. Len(s) : (<<x>> \o s)[j + 1] = s[j]
         /\ <<x>> \o s # <<>>
OBVIOUS

(* The fields of a table, and the types they need. *)
LEMMA TableFacts ==
  ASSUME NEW n, NEW ss, NEW has, NEW first
  PROVE  /\ Table(n, ss, has, first).count = n
         /\ Table(n, ss, has, first).slots = ss
         /\ Table(n, ss, has, first).has_free = has
         /\ Table(n, ss, has, first).first_free = first
         /\ IsTable(Table(n, ss, has, first)) <=>
              /\ n \in 0 .. MaxSlots
              /\ ss \in [0 .. n - 1 -> EntitySlot]
              /\ has \in BOOLEAN
              /\ first \in Index
BY DEF Table, IsTable

(* A table in which one slot is replaced. *)
LEMMA WithSlotFacts ==
  ASSUME NEW w, IsTable(w), NEW i \in 0 .. w.count - 1, NEW s \in EntitySlot
  PROVE  /\ IsTable(WithSlot(w, i, s))
         /\ WithSlot(w, i, s).count = w.count
         /\ WithSlot(w, i, s).has_free = w.has_free
         /\ WithSlot(w, i, s).first_free = w.first_free
         /\ WithSlot(w, i, s).slots = [w.slots EXCEPT ![i] = s]
<1>1. [w.slots EXCEPT ![i] = s] \in [0 .. w.count - 1 -> EntitySlot]
  BY DEF IsTable
<1>2. w.count \in 0 .. MaxSlots /\ w.has_free \in BOOLEAN /\ w.first_free \in Index
  BY DEF IsTable
<1>3. QED
  BY <1>1, <1>2, TableFacts DEF WithSlot

(* What an allocation does to the table, whoever finishes the new slot. *)
AllocStep(w, v) ==
  /\ IsTable(v)
  /\ NextIndex(w) \in 0 .. v.count - 1
  /\ v.count = IF w.has_free THEN w.count ELSE w.count + 1
  /\ \A k \in 0 .. w.count - 1 : k # NextIndex(w) => v.slots[k] = w.slots[k]
  /\ v.slots[NextIndex(w)].alive
  /\ v.slots[NextIndex(w)].generation =
       IF w.has_free THEN NextGeneration(w.slots[NextIndex(w)].generation) ELSE 1
  /\ w.has_free => /\ v.first_free = w.slots[w.first_free].next_free
                   /\ v.has_free = (v.first_free # w.first_free)
  /\ ~w.has_free => ~v.has_free /\ v.first_free = w.first_free

(* What finalising and stamping do: nothing the chain or the handles see. *)
StampStep(w, v) ==
  /\ IsTable(v)
  /\ v.count = w.count
  /\ v.has_free = w.has_free
  /\ v.first_free = w.first_free
  /\ \A k \in 0 .. w.count - 1 :
       /\ v.slots[k].alive = w.slots[k].alive
       /\ v.slots[k].generation = w.slots[k].generation
       /\ v.slots[k].next_free = w.slots[k].next_free

(* What a destruction does: slot i becomes the head of the chain. *)
FreeStep(w, i, v) ==
  /\ IsTable(v)
  /\ v.count = w.count
  /\ v.has_free
  /\ v.first_free = i
  /\ \A k \in 0 .. w.count - 1 : k # i => v.slots[k] = w.slots[k]
  /\ ~v.slots[i].alive
  /\ v.slots[i].generation = w.slots[i].generation
  /\ v.slots[i].next_free = IF w.has_free THEN w.first_free ELSE i

LEMMA SlotFacts ==
  ASSUME NEW s \in EntitySlot
  PROVE  /\ Reused(s) \in EntitySlot
         /\ Reused(s).alive
         /\ Reused(s).generation = NextGeneration(s.generation)
         /\ NextGeneration(s.generation) \in Generation
         /\ FreshSlot \in EntitySlot
         /\ FreshSlot.alive
         /\ FreshSlot.generation = 1
<1>1. GenMax \in Nat \ {0} /\ MaxSlots \in Nat \ {0}
  BY TableAssumption
<1>2. s.generation \in Generation
  BY DEF EntitySlot
<1>3. NextGeneration(s.generation) \in Generation
  BY <1>1, <1>2 DEF NextGeneration, Generation
<1>4. Reused(s) \in EntitySlot /\ Reused(s).alive
      /\ Reused(s).generation = NextGeneration(s.generation)
  BY <1>3 DEF Reused, EntitySlot
<1>5. 1 \in Generation /\ 0 \in Index
  BY <1>1 DEF Generation, Index
<1>6. FreshSlot \in EntitySlot /\ FreshSlot.alive /\ FreshSlot.generation = 1
  BY <1>5 DEF FreshSlot, EntitySlot
<1>7. QED
  BY <1>3, <1>4, <1>6

LEMMA ReuseFacts ==
  ASSUME NEW w, IsTable(w), w.has_free, w.first_free \in 0 .. w.count - 1
  PROVE  AllocStep(w, Reuse(w)) /\ NextIndex(w) = w.first_free
<1> DEFINE i == w.first_free
           ss == [w.slots EXCEPT ![i] = Reused(w.slots[i])]
           has == w.slots[i].next_free # i
<1>1. w.slots[i] \in EntitySlot /\ w.slots \in [0 .. w.count - 1 -> EntitySlot]
  BY DEF IsTable
<1>2. Reused(w.slots[i]) \in EntitySlot /\ Reused(w.slots[i]).alive
      /\ Reused(w.slots[i]).generation = NextGeneration(w.slots[i].generation)
  BY <1>1, SlotFacts
<1>3. ss \in [0 .. w.count - 1 -> EntitySlot] /\ ss[i] = Reused(w.slots[i])
      /\ \A k \in 0 .. w.count - 1 : k # i => ss[k] = w.slots[k]
  BY <1>1, <1>2
<1>4. w.slots[i].next_free \in Index /\ w.count \in 0 .. MaxSlots
  BY <1>1 DEF EntitySlot, IsTable
<1>5. Reuse(w) = Table(w.count, ss, has, w.slots[i].next_free)
  BY DEF Reuse
<1>6. NextIndex(w) = i
  BY DEF NextIndex
<1>7. has \in BOOLEAN
  OBVIOUS
<1> HIDE DEF ss, has
<1>8. /\ IsTable(Reuse(w))
      /\ Reuse(w).count = w.count
      /\ Reuse(w).slots = ss
      /\ Reuse(w).first_free = w.slots[i].next_free
      /\ Reuse(w).has_free = has
  BY <1>3, <1>4, <1>5, <1>7, TableFacts
<1>9. Reuse(w).has_free = (Reuse(w).first_free # w.first_free)
  BY <1>8 DEF has
<1>10. QED
  BY <1>2, <1>3, <1>6, <1>8, <1>9 DEF AllocStep

LEMMA PushBackFacts ==
  ASSUME NEW w, IsTable(w), ~w.has_free, w.count < MaxSlots
  PROVE  AllocStep(w, PushBack(w)) /\ NextIndex(w) = w.count
<1> DEFINE ss == [i \in 0 .. w.count |-> IF i = w.count THEN FreshSlot ELSE w.slots[i]]
<1>0. w.count \in 0 .. MaxSlots /\ w.first_free \in Index /\ w.has_free \in BOOLEAN
      /\ w.slots \in [0 .. w.count - 1 -> EntitySlot] /\ MaxSlots \in Nat \ {0}
  BY TableAssumption DEF IsTable
<1>1. FreshSlot \in EntitySlot /\ FreshSlot.alive /\ FreshSlot.generation = 1
  <2>1. FreshSlot \in EntitySlot
    BY TableAssumption DEF FreshSlot, EntitySlot, Generation, Index
  <2>2. QED
    BY <2>1, SlotFacts
<1>2. ss \in [0 .. w.count -> EntitySlot] /\ ss[w.count] = FreshSlot
      /\ \A k \in 0 .. w.count - 1 : ss[k] = w.slots[k]
  BY <1>0, <1>1
<1>3. PushBack(w) = Table(w.count + 1, ss, w.has_free, w.first_free)
  BY DEF PushBack
<1>4. NextIndex(w) = w.count
  BY DEF NextIndex
<1>5. w.count + 1 \in 0 .. MaxSlots /\ (w.count + 1) - 1 = w.count
  BY <1>0
<1> HIDE DEF ss
<1>6. /\ IsTable(PushBack(w))
      /\ PushBack(w).count = w.count + 1
      /\ PushBack(w).slots = ss
      /\ PushBack(w).first_free = w.first_free
      /\ PushBack(w).has_free = w.has_free
  BY <1>0, <1>2, <1>3, <1>5, TableFacts
<1>7. QED
  BY <1>0, <1>1, <1>2, <1>4, <1>6 DEF AllocStep

LEMMA AllocateFacts ==
  ASSUME NEW w, IsTable(w), w.has_free => w.first_free \in 0 .. w.count - 1,
         w.has_free \/ w.count < MaxSlots
  PROVE  AllocStep(w, Allocate(w))
BY ReuseFacts, PushBackFacts DEF Allocate

(* The immutable and finalised bits of the new slot do not matter. *)
LEMMA AllocThenSet ==
  ASSUME NEW w, NEW v, AllocStep(w, v), NEW s \in EntitySlot,
         s.alive = v.slots[NextIndex(w)].alive,
         s.generation = v.slots[NextIndex(w)].generation,
         IsTable(w)
  PROVE  AllocStep(w, WithSlot(v, NextIndex(w), s))
<1> DEFINE i == NextIndex(w)
           u == WithSlot(v, i, s)
<1>1. /\ IsTable(v) /\ i \in 0 .. v.count - 1
      /\ v.slots \in [0 .. v.count - 1 -> EntitySlot]
      /\ w.count \in Nat /\ v.count = IF w.has_free THEN w.count ELSE w.count + 1
  BY TableAssumption DEF AllocStep, IsTable
<1>2. /\ IsTable(u) /\ u.count = v.count /\ u.has_free = v.has_free
      /\ u.first_free = v.first_free /\ u.slots = [v.slots EXCEPT ![i] = s]
  BY <1>1, WithSlotFacts
<1>3. /\ u.slots[i] = s
      /\ \A k \in 0 .. w.count - 1 : k # i => u.slots[k] = v.slots[k]
  BY <1>1, <1>2
<1> HIDE DEF i, u
<1>4. QED
  BY <1>2, <1>3 DEF AllocStep, i, u

LEMMA CreateFacts ==
  ASSUME NEW w, IsTable(w), w.has_free => w.first_free \in 0 .. w.count - 1,
         w.has_free \/ w.count < MaxSlots
  PROVE  /\ \A imm \in BOOLEAN : AllocStep(w, Create(w, imm))
         /\ AllocStep(w, Reserve(w))
         /\ NextId(w) \in EntityID
<1> DEFINE i == NextIndex(w)
           s == Allocate(w).slots[i]
<1>1. AllocStep(w, Allocate(w))
  BY AllocateFacts
<1>2. s \in EntitySlot /\ i \in 0 .. Allocate(w).count - 1 /\ Allocate(w).count \in 0 .. MaxSlots
  BY <1>1 DEF AllocStep, IsTable
<1>3. ASSUME NEW imm \in BOOLEAN PROVE AllocStep(w, Create(w, imm))
  <2>1. /\ [s EXCEPT !.immutable = imm] \in EntitySlot
        /\ [s EXCEPT !.immutable = imm].alive = s.alive
        /\ [s EXCEPT !.immutable = imm].generation = s.generation
    BY <1>2 DEF EntitySlot
  <2>2. QED
    BY <1>1, <2>1, AllocThenSet DEF Create
<1>4. AllocStep(w, Reserve(w))
  <2>1. /\ [s EXCEPT !.finalised = FALSE] \in EntitySlot
        /\ [s EXCEPT !.finalised = FALSE].alive = s.alive
        /\ [s EXCEPT !.finalised = FALSE].generation = s.generation
    BY <1>2 DEF EntitySlot
  <2>2. QED
    BY <1>1, <2>1, AllocThenSet DEF Reserve
<1>5. NextId(w) \in EntityID
  <2>1. i \in Index
    BY <1>2, TableAssumption DEF Index
  <2>2. s.generation \in Generation
    BY <1>2 DEF EntitySlot
  <2>3. QED
    BY <2>1, <2>2 DEF NextId, EntityID
<1>6. QED
  BY <1>3, <1>4, <1>5

LEMMA StampFacts ==
  ASSUME NEW w, IsTable(w), NEW id \in EntityID, NEW imm \in BOOLEAN
  PROVE  StampStep(w, FinaliseAndStamp(w, id, imm))
<1>0. \A v : IsTable(v) => StampStep(v, v)
  BY DEF StampStep
<1>1. ASSUME NEW v, IsTable(v), NEW i \in 0 .. v.count - 1, NEW s \in EntitySlot,
             s.alive = v.slots[i].alive, s.generation = v.slots[i].generation,
             s.next_free = v.slots[i].next_free
      PROVE  StampStep(v, WithSlot(v, i, s))
  <2>1. v.slots \in [0 .. v.count - 1 -> EntitySlot]
    BY <1>1 DEF IsTable
  <2> DEFINE u == WithSlot(v, i, s)
  <2>2. /\ IsTable(u) /\ u.count = v.count /\ u.has_free = v.has_free
        /\ u.first_free = v.first_free /\ u.slots = [v.slots EXCEPT ![i] = s]
    BY <1>1, WithSlotFacts
  <2> HIDE DEF u
  <2>3. \A k \in 0 .. v.count - 1 : u.slots[k] = IF k = i THEN s ELSE v.slots[k]
    BY <1>1, <2>1, <2>2
  <2>4. StampStep(v, u)
    BY <1>1, <2>2, <2>3 DEF StampStep
  <2>5. QED
    BY <2>4 DEF u
<1>2. ASSUME NEW v, IsTable(v) PROVE StampStep(v, Finalise(v, id))
  <2>1. CASE IsReserved(v, id)
    <3> DEFINE s == [v.slots[id.index] EXCEPT !.finalised = TRUE]
    <3>1. id.index \in 0 .. v.count - 1
      BY <1>2, <2>1, TableAssumption DEF IsReserved, Holds, EntityID, Index, IsTable
    <3>2. v.slots[id.index] \in EntitySlot
      BY <1>2, <3>1 DEF IsTable
    <3>3. /\ s \in EntitySlot
          /\ s.alive = v.slots[id.index].alive
          /\ s.generation = v.slots[id.index].generation
          /\ s.next_free = v.slots[id.index].next_free
      BY <3>2 DEF EntitySlot
    <3> HIDE DEF s
    <3>4. QED
      BY <1>1, <1>2, <2>1, <3>1, <3>3 DEF Finalise, s
  <2>2. CASE ~IsReserved(v, id)
    BY <1>0, <1>2, <2>2 DEF Finalise
  <2>3. QED
    BY <2>1, <2>2
<1>3. ASSUME NEW v, IsTable(v) PROVE StampStep(v, Stamp(v, id))
  <2>1. CASE id.index < v.count
    <3> DEFINE s == [v.slots[id.index] EXCEPT !.immutable = TRUE]
    <3>1. id.index \in 0 .. v.count - 1
      BY <1>3, <2>1, TableAssumption DEF EntityID, Index, IsTable
    <3>2. v.slots[id.index] \in EntitySlot
      BY <1>3, <3>1 DEF IsTable
    <3>3. /\ s \in EntitySlot
          /\ s.alive = v.slots[id.index].alive
          /\ s.generation = v.slots[id.index].generation
          /\ s.next_free = v.slots[id.index].next_free
      BY <3>2 DEF EntitySlot
    <3> HIDE DEF s
    <3>4. QED
      BY <1>1, <1>3, <2>1, <3>1, <3>3 DEF Stamp, s
  <2>2. CASE ~(id.index < v.count)
    BY <1>0, <1>3, <2>2 DEF Stamp
  <2>3. QED
    BY <2>1, <2>2
<1>4. QED
  BY <1>2, <1>3 DEF FinaliseAndStamp, StampStep

LEMMA DestroyFacts ==
  ASSUME NEW w, IsTable(w), NEW id \in EntityID, Holds(w, id)
  PROVE  FreeStep(w, id.index, Destroy(w, id)) /\ id.index \in 0 .. w.count - 1
<1> DEFINE i == id.index
           s == Freed(w, i)
           ss == [w.slots EXCEPT ![i] = s]
<1>1. i \in 0 .. w.count - 1 /\ i \in Index
  BY TableAssumption DEF Holds, EntityID, Index, IsTable
<1>2. w.slots[i] \in EntitySlot /\ w.slots \in [0 .. w.count - 1 -> EntitySlot]
      /\ w.first_free \in Index /\ w.count \in 0 .. MaxSlots
  BY <1>1 DEF IsTable
<1>3. (IF w.has_free THEN w.first_free ELSE i) \in Index
  BY <1>1, <1>2
<1>4. /\ s \in EntitySlot /\ ~s.alive /\ s.generation = w.slots[i].generation
      /\ s.next_free = IF w.has_free THEN w.first_free ELSE i
  BY <1>2, <1>3 DEF Freed, EntitySlot
<1> HIDE DEF s
<1>5. ss \in [0 .. w.count - 1 -> EntitySlot] /\ ss[i] = s
      /\ \A k \in 0 .. w.count - 1 : k # i => ss[k] = w.slots[k]
  BY <1>1, <1>2, <1>4
<1> DEFINE has == TRUE
<1>6. Destroy(w, id) = Table(w.count, ss, has, i) /\ has \in BOOLEAN
  BY DEF Destroy, PushFree, s
<1> HIDE DEF ss, has
<1>7. /\ IsTable(Destroy(w, id)) /\ Destroy(w, id).count = w.count
      /\ Destroy(w, id).slots = ss /\ Destroy(w, id).has_free = has
      /\ Destroy(w, id).first_free = i
  BY <1>1, <1>2, <1>5, <1>6, TableFacts
<1>8. QED
  BY <1>1, <1>4, <1>5, <1>7 DEF FreeStep, has

-----------------------------------------------------------------------------
(* The chain of a table as FreeChain says it of the World, for any table.  *)
ChainOf(w, st) ==
  /\ w.has_free <=> st # <<>>
  /\ st # <<>> => w.first_free = st[1]
  /\ \A j \in 1 .. Len(st) :
       /\ st[j] < w.count
       /\ ~w.slots[st[j]].alive
       /\ w.slots[st[j]].next_free = IF j = Len(st) THEN st[j] ELSE st[j + 1]
  /\ \A j, k \in 1 .. Len(st) : st[j] = st[k] => j = k
  /\ \A i \in 0 .. w.count - 1 : ~w.slots[i].alive => \E j \in 1 .. Len(st) : st[j] = i

(* The three ways the chain of a table changes: its head is reused, nothing *)
(* happens to it, a slot is put in front.                                   *)
LEMMA ChainTaken ==
  ASSUME NEW w, IsTable(w), NEW st \in Seq(Index), ChainOf(w, st), NEW v, AllocStep(w, v)
  PROVE  ChainOf(v, IF w.has_free THEN Tail(st) ELSE st)
<1> DEFINE st2 == IF w.has_free THEN Tail(st) ELSE st
           n == Len(st)
<1>0. n \in Nat /\ w.count \in Nat
  BY TableAssumption DEF IsTable
<1> SUFFICES ChainOf(v, st2)
  OBVIOUS
<1>1. CASE w.has_free
  <2> DEFINE i == w.first_free
  <2>1. /\ st # <<>> /\ i = st[1] /\ i \in 0 .. w.count - 1
        /\ st2 = Tail(st) /\ NextIndex(w) = i
    <3>1. st # <<>> /\ w.first_free = st[1]
      BY <1>1 DEF ChainOf
    <3>2. 1 \in 1 .. Len(st) /\ st[1] \in Index
      BY <3>1, TailFacts
    <3>3. st[1] < w.count
      BY <3>2 DEF ChainOf
    <3> QED
      BY <1>0, <1>1, <3>1, <3>2, <3>3, TableAssumption DEF NextIndex, Index
  <2>2. /\ n \in Nat \ {0} /\ Len(st2) = n - 1
        /\ \A j \in 1 .. n - 1 : st2[j] = st[j + 1]
    BY <1>0, <2>1, TailFacts
  <2> HIDE DEF st2
  <2>3. /\ v.count = w.count
        /\ \A k \in 0 .. w.count - 1 : k # i => v.slots[k] = w.slots[k]
        /\ v.slots[i].alive
        /\ v.first_free = w.slots[i].next_free
        /\ v.has_free = (v.first_free # i)
    BY <1>1, <2>1 DEF AllocStep
  <2>4. w.slots[i].next_free = IF n = 1 THEN i ELSE st[2]
    <3>1. 1 \in 1 .. n /\ (1 = n <=> n = 1) /\ 1 + 1 = 2
      BY <2>2
    <3>2. w.slots[st[1]].next_free = IF 1 = n THEN st[1] ELSE st[1 + 1]
      BY <1>0, <3>1 DEF ChainOf
    <3>3. QED
      BY <2>1, <3>1, <3>2
  <2>5. \A j \in 2 .. n : st[j] # i /\ st[j] \in 0 .. w.count - 1
    <3>1. TAKE j \in 2 .. n
    <3>2. st[j] # i
      <4>1. 1 \in 1 .. n /\ j \in 1 .. n /\ j # 1
        BY <2>2
      <4>2. \A k, m \in 1 .. n : st[k] = st[m] => k = m
        BY <1>0 DEF ChainOf
      <4>3. QED
        BY <2>1, <4>1, <4>2
    <3>3. st[j] \in Index /\ st[j] < w.count
      BY <1>0, <2>2 DEF ChainOf
    <3>4. QED
      BY <1>0, <3>2, <3>3, TableAssumption DEF Index
  <2>6. \A j \in 1 .. n - 1 : st2[j] # i /\ st2[j] \in 0 .. w.count - 1
    BY <2>2, <2>5
  <2>7. (v.has_free <=> st2 # <<>>) /\ (st2 # <<>> => v.first_free = st2[1])
    <3>1. CASE n = 1
      <4>1. st2 = <<>> /\ i = st[1] /\ (st2 # <<>>) = FALSE
        <5>1. Len(Tail(st)) = 0 /\ Tail(st) \in Seq(Index)
          BY <1>0, <2>1, <3>1, TailFacts
        <5> QED
          BY <2>1, <5>1, EmptySeq
      <4>2. QED
        BY <2>3, <2>4, <3>1, <4>1
    <3>2. CASE n # 1
      <4>1. st2 # <<>> /\ st2[1] = st[2] /\ st[2] # i
        BY <2>2, <2>5, <3>2
      <4>2. QED
        BY <2>3, <2>4, <3>2, <4>1
    <3>3. QED
      BY <3>1, <3>2
  <2>8. \A j \in 1 .. n - 1 :
          /\ st2[j] < v.count
          /\ ~v.slots[st2[j]].alive
          /\ v.slots[st2[j]].next_free = IF j = n - 1 THEN st2[j] ELSE st2[j + 1]
    <3>1. TAKE j \in 1 .. n - 1
    <3>2. j + 1 \in 1 .. n /\ (j + 1 = n <=> j = n - 1) /\ st2[j] = st[j + 1]
      BY <2>2
    <3>3. v.slots[st2[j]] = w.slots[st[j + 1]]
      BY <2>3, <2>6, <3>2
    <3>4. /\ st[j + 1] < w.count /\ ~w.slots[st[j + 1]].alive
          /\ w.slots[st[j + 1]].next_free =
               IF j + 1 = n THEN st[j + 1] ELSE st[(j + 1) + 1]
      BY <1>0, <3>2 DEF ChainOf
    <3>5. j # n - 1 => st2[j + 1] = st[(j + 1) + 1]
      BY <2>2
    <3>6. QED
      BY <2>3, <3>2, <3>3, <3>4, <3>5
  <2>9. \A j, k \in 1 .. n - 1 : st2[j] = st2[k] => j = k
    <3>1. TAKE j, k \in 1 .. n - 1
    <3>2. j + 1 \in 1 .. n /\ k + 1 \in 1 .. n
      BY <2>2
    <3>3. \A a, b \in 1 .. n : st[a] = st[b] => a = b
      BY DEF ChainOf
    <3>4. HAVE st2[j] = st2[k]
    <3>5. st[j + 1] = st[k + 1]
      BY <2>2, <3>4
    <3>6. j + 1 = k + 1
      BY <3>2, <3>3, <3>5
    <3> QED
      BY <1>0, <3>6
  <2>10. \A k \in 0 .. v.count - 1 :
           ~v.slots[k].alive => \E j \in 1 .. n - 1 : st2[j] = k
    <3>1. SUFFICES ASSUME NEW k \in 0 .. w.count - 1, ~v.slots[k].alive
                   PROVE  \E j \in 1 .. n - 1 : st2[j] = k
      BY <2>3
    <3>2. k # i /\ ~w.slots[k].alive
      BY <2>3, <3>1
    <3>3. PICK j \in 1 .. n : st[j] = k
      BY <1>0, <3>2 DEF ChainOf
    <3>4. j # 1
      BY <2>1, <3>2, <3>3
    <3>5. j - 1 \in 1 .. n - 1 /\ st2[j - 1] = st[(j - 1) + 1] /\ (j - 1) + 1 = j
      BY <2>2, <3>4
    <3>6. QED
      BY <3>3, <3>5
  <2> HIDE DEF n
  <2>11. QED
    BY <2>2, <2>7, <2>8, <2>9, <2>10 DEF ChainOf
<1>2. CASE ~w.has_free
  <2>1. st = <<>> /\ st2 = <<>> /\ NextIndex(w) = w.count
    BY <1>0, <1>2 DEF ChainOf, NextIndex
  <2>2. /\ v.count = w.count + 1 /\ ~v.has_free
        /\ \A k \in 0 .. w.count - 1 : v.slots[k] = w.slots[k]
        /\ v.slots[w.count].alive
    BY <1>0, <1>2, <2>1 DEF AllocStep
  <2>3. \A k \in 0 .. w.count - 1 : w.slots[k].alive
    BY <1>0, <2>1 DEF ChainOf
  <2>4. \A k \in 0 .. v.count - 1 : v.slots[k].alive
    BY <1>0, <2>2, <2>3
  <2>5. QED
    BY <2>1, <2>2, <2>4 DEF ChainOf
<1>3. QED
  BY <1>1, <1>2

LEMMA ChainSame ==
  ASSUME NEW w, IsTable(w), NEW st \in Seq(Index), ChainOf(w, st), NEW v, StampStep(w, v)
  PROVE  ChainOf(v, st)
<1>0. /\ IsTable(w) /\ IsTable(v) /\ w.count \in Nat /\ v.count = w.count
      /\ \A k \in 0 .. w.count - 1 :
           /\ v.slots[k].alive = w.slots[k].alive
           /\ v.slots[k].generation = w.slots[k].generation
           /\ v.slots[k].next_free = w.slots[k].next_free
  BY TableAssumption DEF StampStep, IsTable
<1>1. \A j \in 1 .. Len(st) : st[j] \in 0 .. w.count - 1
  <2>1. TAKE j \in 1 .. Len(st)
  <2>2. st[j] \in Index /\ st[j] < w.count
    BY DEF ChainOf
  <2>3. QED
    BY <1>0, <2>2, TableAssumption DEF Index
<1>2. v.has_free = w.has_free /\ v.first_free = w.first_free
  BY DEF StampStep
<1>3. \A j \in 1 .. Len(st) :
        /\ st[j] < v.count
        /\ ~v.slots[st[j]].alive
        /\ v.slots[st[j]].next_free =
             IF j = Len(st) THEN st[j] ELSE st[j + 1]
  <2>1. TAKE j \in 1 .. Len(st)
  <2>2. /\ st[j] < w.count
        /\ ~w.slots[st[j]].alive
        /\ w.slots[st[j]].next_free =
             IF j = Len(st) THEN st[j] ELSE st[j + 1]
    BY DEF ChainOf
  <2>3. QED
    BY <1>0, <1>1, <2>2
<1>4. \A i \in 0 .. v.count - 1 :
        ~v.slots[i].alive => \E j \in 1 .. Len(st) : st[j] = i
  BY <1>0 DEF ChainOf
<1>5. \A j, k \in 1 .. Len(st) : st[j] = st[k] => j = k
  BY DEF ChainOf
<1>6. QED
  BY <1>2, <1>3, <1>4, <1>5 DEF ChainOf

LEMMA ChainGrown ==
  ASSUME NEW w, IsTable(w), NEW st \in Seq(Index), ChainOf(w, st),
         NEW i \in 0 .. w.count - 1, w.slots[i].alive, NEW v, FreeStep(w, i, v)
  PROVE  ChainOf(v, <<i>> \o st)
<1> DEFINE n == Len(st)
           st2 == <<i>> \o st
<1>0. /\ n \in Nat /\ w.count \in Nat /\ i \in Index
  BY TableAssumption DEF IsTable, Index
<1>1. /\ st2 \in Seq(Index) /\ Len(st2) = n + 1 /\ st2[1] = i
      /\ \A j \in 1 .. n : st2[j + 1] = st[j]
      /\ st2 # <<>>
  BY <1>0, PushFacts
<1> HIDE DEF st2
<1>3. /\ v.count = w.count /\ v.has_free /\ v.first_free = i
      /\ \A k \in 0 .. w.count - 1 : k # i => v.slots[k] = w.slots[k]
      /\ ~v.slots[i].alive
      /\ v.slots[i].next_free = IF w.has_free THEN w.first_free ELSE i
  BY DEF FreeStep
<1>4. w.slots[i].alive
  OBVIOUS
<1>5. \A j \in 1 .. n : st[j] \in 0 .. w.count - 1 /\ st[j] # i
  <2>1. TAKE j \in 1 .. n
  <2>2. st[j] \in Index /\ st[j] < w.count /\ ~w.slots[st[j]].alive
    BY <1>0 DEF ChainOf
  <2>3. QED
    BY <1>0, <1>4, <2>2, TableAssumption DEF Index
<1>6. ChainOf(v, st2)
  <2>1. \A j \in 1 .. n + 1 :
          /\ st2[j] < v.count
          /\ ~v.slots[st2[j]].alive
          /\ v.slots[st2[j]].next_free = IF j = n + 1 THEN st2[j] ELSE st2[j + 1]
    <3>1. TAKE j \in 1 .. n + 1
    <3>2. CASE j = 1
      <4>1. CASE n = 0
        <5>1. ~w.has_free
          BY <1>0, <4>1 DEF ChainOf
        <5>2. QED
          BY <1>0, <1>1, <1>3, <3>2, <4>1, <5>1
      <4>2. CASE n # 0
        <5>1. 1 \in 1 .. n /\ st2[1 + 1] = st[1] /\ st # <<>>
          BY <1>0, <1>1, <4>2
        <5>2. w.has_free /\ w.first_free = st[1]
          BY <1>0, <5>1 DEF ChainOf
        <5>3. QED
          BY <1>0, <1>1, <1>3, <3>2, <4>2, <5>1, <5>2
      <4>3. QED
        BY <4>1, <4>2
    <3>3. CASE j # 1
      <4>1. j - 1 \in 1 .. n /\ (j - 1) + 1 = j /\ (j - 1 = n <=> j = n + 1)
        BY <1>0, <3>3
      <4>2. st2[j] = st[j - 1]
        BY <1>1, <4>1
      <4>3. v.slots[st2[j]] = w.slots[st[j - 1]]
        BY <1>3, <1>5, <4>1, <4>2
      <4>4. /\ st[j - 1] < w.count /\ ~w.slots[st[j - 1]].alive
            /\ w.slots[st[j - 1]].next_free =
                 IF j - 1 = n THEN st[j - 1] ELSE st[j]
        BY <1>0, <4>1 DEF ChainOf
      <4>5. j # n + 1 => st2[j + 1] = st[j]
        BY <1>0, <1>1
      <4>6. QED
        BY <1>3, <4>1, <4>2, <4>3, <4>4, <4>5
    <3>4. QED
      BY <3>2, <3>3
  <2>2. \A j, k \in 1 .. n + 1 : st2[j] = st2[k] => j = k
    <3>1. \A j \in 1 .. n + 1 : j # 1 => j - 1 \in 1 .. n /\ st2[j] = st[j - 1]
      <4>1. TAKE j \in 1 .. n + 1
      <4>2. HAVE j # 1
      <4>3. j - 1 \in 1 .. n /\ (j - 1) + 1 = j
        BY <1>0, <4>2
      <4>4. QED
        BY <1>1, <4>3
    <3>2. \A j, k \in 1 .. n : st[j] = st[k] => j = k
      BY <1>0 DEF ChainOf
    <3>3. TAKE j, k \in 1 .. n + 1
    <3>4. HAVE st2[j] = st2[k]
    <3>5. CASE j = 1 /\ k # 1
      BY <1>1, <1>5, <3>1, <3>4, <3>5
    <3>6. CASE j # 1 /\ k = 1
      BY <1>1, <1>5, <3>1, <3>4, <3>6
    <3>7. CASE j # 1 /\ k # 1
      <4>1. j - 1 = k - 1
        BY <3>1, <3>2, <3>4, <3>7
      <4>2. QED
        BY <1>0, <4>1
    <3>8. QED
      BY <3>5, <3>6, <3>7
  <2>3. \A k \in 0 .. v.count - 1 :
          ~v.slots[k].alive => \E j \in 1 .. n + 1 : st2[j] = k
    <3>1. TAKE k \in 0 .. v.count - 1
    <3>2. HAVE ~v.slots[k].alive
    <3>3. CASE k = i
      BY <1>0, <1>1, <3>3
    <3>4. CASE k # i
      <4>1. PICK j \in 1 .. n : st[j] = k
        BY <1>0, <1>3, <3>2, <3>4 DEF ChainOf
      <4>2. j + 1 \in 1 .. n + 1 /\ st2[j + 1] = k
        BY <1>0, <1>1, <4>1
      <4>3. QED
        BY <4>2
    <3>5. QED
      BY <3>3, <3>4
  <2> HIDE DEF n
  <2>4. QED
    BY <1>1, <1>3, <2>1, <2>2, <2>3 DEF ChainOf
<1> QED
  BY <1>6 DEF st2
(* The empty World. *)
LEMMA EmptyChain == IsTable(EmptyTable) /\ ChainOf(EmptyTable, <<>>) /\ <<>> \in Seq(Index)
<1> DEFINE ss == [i \in 0 .. -1 |-> FALSE]
           has == FALSE
           z == 0
<1>1. ss \in [0 .. z - 1 -> EntitySlot] /\ has \in BOOLEAN
  OBVIOUS
<1>2. EmptyTable = Table(z, ss, has, z)
  BY DEF EmptyTable
<1>3. z \in Index /\ z \in 0 .. MaxSlots
  BY TableAssumption DEF Index
<1> HIDE DEF ss, has, z
<1>4. IsTable(EmptyTable) /\ EmptyTable.count = z /\ EmptyTable.has_free = has
  BY <1>1, <1>2, <1>3, TableFacts
<1>5. ChainOf(EmptyTable, <<>>)
  BY <1>4, EmptySeq DEF ChainOf, z, has
<1> QED
  BY <1>4, <1>5, EmptySeq

-----------------------------------------------------------------------------
(* A table whose free list is sound; a reserved slot is not yet immutable. *)
TableSound(w) ==
  /\ IsTable(w)
  /\ \E st \in Seq(Index) : ChainOf(w, st)
  /\ \A i \in 0 .. w.count - 1 : w.slots[i].alive /\ ~w.slots[i].finalised => ~w.slots[i].immutable

Live(w) == {id \in EntityID : IsAlive(w, id)}
Frozen(w) == {id \in Live(w) : IsImmutable(w, id)}
FreeSet(w) == {i \in Index : i >= w.count \/ ~w.slots[i].alive}

(* A slot of w is taken for a new entity. *)
Takes(w, v, id) ==
  /\ TableSound(v) /\ id \in EntityID /\ id.index \in FreeSet(w)
  /\ FreeSet(v) = FreeSet(w) \ {id.index}
  /\ \A jd \in Live(w) : jd.index # id.index

-----------------------------------------------------------------------------
LEMMA EntityIdFacts ==
  ASSUME NEW id \in EntityID
  PROVE  /\ id.index \in Index /\ id.generation \in Generation /\ id.index \in Nat
         /\ \A jd \in EntityID : id.index = jd.index /\ id.generation = jd.generation => id = jd
BY TableAssumption DEF EntityID, Index

LEMMA TableTypes ==
  ASSUME NEW w, IsTable(w)
  PROVE  /\ w.count \in 0 .. MaxSlots /\ w.slots \in [0 .. w.count - 1 -> EntitySlot] /\ w.count \in Nat
         /\ \A i \in 0 .. w.count - 1 : /\ i \in Index /\ w.slots[i] \in EntitySlot
                                        /\ w.slots[i].alive \in BOOLEAN /\ w.slots[i].finalised \in BOOLEAN
                                        /\ w.slots[i].immutable \in BOOLEAN
         /\ w.has_free \in BOOLEAN /\ w.first_free \in Index
<1>1. /\ w.count \in 0 .. MaxSlots /\ w.slots \in [0 .. w.count - 1 -> EntitySlot]
      /\ w.has_free \in BOOLEAN /\ w.first_free \in Index
  BY DEF IsTable
<1>2. w.count \in Nat /\ \A i \in 0 .. w.count - 1 : i \in Index
  BY <1>1, TableAssumption DEF Index
<1>3. \A i \in 0 .. w.count - 1 : w.slots[i] \in EntitySlot
  BY <1>1
<1>4. \A i \in 0 .. w.count - 1 : /\ w.slots[i].alive \in BOOLEAN /\ w.slots[i].finalised \in BOOLEAN
                                  /\ w.slots[i].immutable \in BOOLEAN
  BY <1>3 DEF EntitySlot
<1> QED
  BY <1>1, <1>2, <1>3, <1>4

(* Two live handles name two slots. *)
LEMMA LiveApart ==
  ASSUME NEW w, IsTable(w)
  PROVE  /\ \A id, jd \in EntityID : Holds(w, id) /\ Holds(w, jd) /\ id.index = jd.index => id = jd
         /\ \A id \in EntityID : Holds(w, id) => /\ id.index \in 0 .. w.count - 1 /\ id.index \notin FreeSet(w)
         /\ \A id \in Live(w) : Holds(w, id)
<1>1. \A id, jd \in EntityID : Holds(w, id) /\ Holds(w, jd) /\ id.index = jd.index => id = jd
  BY EntityIdFacts DEF Holds
<1>2. \A id \in EntityID : Holds(w, id) => id.index \in 0 .. w.count - 1 /\ id.index \notin FreeSet(w)
  <2> TAKE id \in EntityID
  <2> HAVE Holds(w, id)
  <2>1. id.index \in Nat /\ id.index < w.count /\ w.count \in Nat /\ w.slots[id.index].alive
    BY EntityIdFacts, TableTypes DEF Holds
  <2>2. ~(id.index >= w.count)
    BY <2>1
  <2> QED
    BY <2>1, <2>2 DEF FreeSet
<1> QED
  BY <1>1, <1>2 DEF Live, IsAlive

(* A table with a free slot, or room for another, can allocate. *)
LEMMA CanTake ==
  ASSUME NEW w, TableSound(w), FreeSet(w) # {}
  PROVE  /\ w.has_free => w.first_free \in 0 .. w.count - 1
         /\ w.has_free \/ w.count < MaxSlots
         /\ NextIndex(w) \in FreeSet(w)
<1>1. PICK st \in Seq(Index) : ChainOf(w, st)
  BY DEF TableSound
<1>2. IsTable(w) /\ w.count \in 0 .. MaxSlots /\ w.count \in Nat
  BY TableTypes DEF TableSound
<1>3. ASSUME w.has_free
      PROVE  w.first_free \in 0 .. w.count - 1 /\ w.first_free \in FreeSet(w)
  <2>1. st # <<>> /\ w.first_free = st[1]
    BY <1>1, <1>3 DEF ChainOf
  <2>2. 1 \in 1 .. Len(st) /\ st[1] \in Index
    BY <2>1, EmptySeq
  <2>3. st[1] < w.count /\ ~w.slots[st[1]].alive
    BY <1>1, <2>2 DEF ChainOf
  <2>4. st[1] \in 0 .. w.count - 1
    BY <1>2, <2>2, <2>3, TableAssumption DEF Index
  <2> QED
    BY <2>1, <2>2, <2>3, <2>4 DEF FreeSet
<1>4. ASSUME ~w.has_free
      PROVE  w.count < MaxSlots /\ w.count \in FreeSet(w)
  <2>1. st = <<>>
    BY <1>1, <1>4 DEF ChainOf
  <2>2. \A i \in 0 .. w.count - 1 : w.slots[i].alive
    BY <1>1, <2>1, EmptySeq DEF ChainOf
  <2>3. PICK i \in Index : i >= w.count \/ ~w.slots[i].alive
    BY DEF FreeSet
  <2>4. i \in Nat /\ i < MaxSlots /\ MaxSlots \in Nat
    BY TableAssumption DEF Index
  <2>5. i >= w.count
    <3> SUFFICES ASSUME ~(i >= w.count) PROVE FALSE
      OBVIOUS
    <3>1. i \in 0 .. w.count - 1
      BY <1>2, <2>4
    <3> QED
      BY <2>2, <2>3, <3>1
  <2>6. w.count < MaxSlots /\ w.count \in Index
    BY <1>2, <2>4, <2>5 DEF Index
  <2>7. w.count >= w.count
    BY <1>2
  <2> QED
    BY <2>6, <2>7 DEF FreeSet
<1> QED
  BY <1>3, <1>4 DEF NextIndex

(* What the bits of a freshly allocated slot are. *)
LEMMA FreshBits ==
  ASSUME NEW w, IsTable(w), w.has_free => w.first_free \in 0 .. w.count - 1,
         w.has_free \/ w.count < MaxSlots
  PROVE  LET i == NextIndex(w)
             a == Allocate(w)
         IN  /\ IsTable(a) /\ i \in 0 .. a.count - 1
             /\ a.slots[i] \in EntitySlot /\ a.slots[i].finalised /\ ~a.slots[i].immutable
             /\ AllocStep(w, a)
<1> DEFINE i == NextIndex(w)
           a == Allocate(w)
<1>1. AllocStep(w, a)
  BY AllocateFacts
<1>2. IsTable(a) /\ i \in 0 .. a.count - 1
  BY <1>1 DEF AllocStep
<1>3. a.slots[i] \in EntitySlot
  BY <1>2, TableTypes
<1>4. a.slots[i].finalised /\ ~a.slots[i].immutable
  <2>1. CASE w.has_free
    <3>1. i = w.first_free /\ i \in 0 .. w.count - 1 /\ w.slots \in [0 .. w.count - 1 -> EntitySlot]
      BY <2>1, TableTypes DEF NextIndex
    <3> DEFINE r == Reused(w.slots[i])
               ss == [w.slots EXCEPT ![i] = r]
    <3>2. a.slots = ss
      BY <2>1, <3>1, TableFacts DEF Allocate, Reuse
    <3>3. r.finalised /\ ~r.immutable
      BY DEF Reused
    <3> HIDE DEF r
    <3>4. ss[i] = r
      BY <3>1
    <3> QED
      BY <3>2, <3>3, <3>4
  <2>2. CASE ~w.has_free
    <3>1. i = w.count /\ w.count \in Nat
      BY <2>2, TableTypes DEF NextIndex
    <3> DEFINE ss == [k \in 0 .. w.count |-> IF k = w.count THEN FreshSlot ELSE w.slots[k]]
    <3>2. a.slots = ss
      BY <2>2, TableFacts DEF Allocate, PushBack
    <3>3. ss[i] = FreshSlot
      BY <3>1
    <3> HIDE DEF ss
    <3> QED
      BY <3>2, <3>3 DEF FreshSlot
  <2> QED
    BY <2>1, <2>2
<1> QED
  BY <1>1, <1>2, <1>3, <1>4

LEMMA TakeFacts ==
  ASSUME NEW w, TableSound(w), FreeSet(w) # {}, NEW v, AllocStep(w, v), NEW id \in EntityID,
         id.index = NextIndex(w), id.generation = v.slots[id.index].generation,
         ~v.slots[id.index].finalised => ~v.slots[id.index].immutable
  PROVE  /\ Takes(w, v, id) /\ Holds(v, id)
         /\ \A jd \in EntityID : Holds(v, jd) <=> Holds(w, jd) \/ jd = id
         /\ \A jd \in EntityID : Holds(w, jd) => /\ jd # id
                                                 /\ IsAlive(v, jd) <=> IsAlive(w, jd)
                                                 /\ IsImmutable(v, jd) <=> IsImmutable(w, jd)
<1> DEFINE i == id.index
<1>1. IsTable(w) /\ w.count \in Nat
  BY TableTypes DEF TableSound
<1>2. /\ w.has_free => w.first_free \in 0 .. w.count - 1
      /\ NextIndex(w) \in FreeSet(w)
  BY CanTake
<1>3. /\ IsTable(v) /\ i \in 0 .. v.count - 1
      /\ v.count = IF w.has_free THEN w.count ELSE w.count + 1
      /\ \A k \in 0 .. w.count - 1 : k # i => v.slots[k] = w.slots[k]
      /\ v.slots[i].alive
  BY DEF AllocStep
<1>4. v.count \in Nat
  BY <1>3, TableTypes
<1>5. i = IF w.has_free THEN w.first_free ELSE w.count
  BY DEF NextIndex
<1>6. \A k \in Nat : k < v.count <=> k < w.count \/ k = i
  <2>1. CASE w.has_free
    <3>1. v.count = w.count /\ i \in 0 .. w.count - 1
      BY <1>2, <1>3, <1>5, <2>1
    <3> HIDE DEF i
    <3> QED
      BY <1>1, <3>1
  <2>2. CASE ~w.has_free
    <3>1. v.count = w.count + 1 /\ i = w.count
      BY <1>3, <1>5, <2>2
    <3> HIDE DEF i
    <3> QED
      BY <1>1, <3>1
  <2> QED
    BY <2>1, <2>2
<1>7. i \in FreeSet(w) /\ i \in Nat /\ i \in Index
  BY <1>2, EntityIdFacts
<1> HIDE DEF i
<1>8. \A k \in Nat : k < w.count /\ k # i => v.slots[k] = w.slots[k]
  BY <1>1, <1>3
<1>9. FreeSet(v) = FreeSet(w) \ {i}
  <2>1. ASSUME NEW k \in Index PROVE k \in FreeSet(v) <=> k \in FreeSet(w) /\ k # i
    <3>1. k \in Nat
      BY TableAssumption DEF Index
    <3>2. k >= v.count <=> ~(k < v.count)
      BY <1>4, <3>1
    <3>3. k >= w.count <=> ~(k < w.count)
      BY <1>1, <3>1
    <3>4. CASE k = i
      BY <1>3, <1>6, <3>1, <3>2, <3>4 DEF FreeSet
    <3>5. CASE k # i
      BY <1>6, <1>8, <3>1, <3>2, <3>3, <3>5 DEF FreeSet
    <3> QED
      BY <3>4, <3>5
  <2> QED
    BY <2>1 DEF FreeSet
<1>10. Holds(v, id)
  BY <1>3, <1>6, <1>7 DEF Holds, i
<1>11. \A jd \in EntityID : Holds(w, jd) => jd.index # i
  <2>1. \A jd \in EntityID : Holds(w, jd) => jd.index \notin FreeSet(w)
    BY <1>1, LiveApart
  <2> QED
    BY <1>7, <2>1
<1>12. ASSUME NEW jd \in EntityID, jd.index # i
       PROVE  /\ Holds(v, jd) <=> Holds(w, jd)
              /\ Holds(w, jd) => /\ IsAlive(v, jd) <=> IsAlive(w, jd)
                                 /\ IsImmutable(v, jd) <=> IsImmutable(w, jd)
  <2>1. jd.index \in Nat
    BY EntityIdFacts
  <2>2. jd.index < v.count <=> jd.index < w.count
    BY <1>6, <1>12, <2>1
  <2>3. jd.index < w.count => v.slots[jd.index] = w.slots[jd.index]
    BY <1>8, <1>12, <2>1
  <2> QED
    BY <2>2, <2>3 DEF Holds, IsAlive, IsImmutable
<1>13. \A jd \in EntityID : jd.index = i /\ Holds(v, jd) => jd = id
  BY <1>3, <1>10, LiveApart DEF i
<1>14. \A k \in 0 .. v.count - 1 : v.slots[k].alive /\ ~v.slots[k].finalised => ~v.slots[k].immutable
  <2> TAKE k \in 0 .. v.count - 1
  <2>1. CASE k = i
    BY <2>1 DEF i
  <2>2. CASE k # i
    <3>1. k \in Nat /\ k < v.count
      BY <1>4
    <3>2. k < w.count /\ v.slots[k] = w.slots[k]
      BY <1>6, <1>8, <2>2, <3>1
    <3>3. k \in 0 .. w.count - 1
      BY <1>1, <3>1, <3>2
    <3> QED
      BY <3>2, <3>3 DEF TableSound
  <2> QED
    BY <2>1, <2>2
<1>15. TableSound(v)
  <2>1. PICK st \in Seq(Index) : ChainOf(w, st)
    BY DEF TableSound
  <2> DEFINE tt == IF w.has_free THEN Tail(st) ELSE st
  <2>2. ChainOf(v, tt)
    BY <1>1, <2>1, ChainTaken
  <2>3. tt \in Seq(Index)
    <3>1. w.has_free => st # <<>>
      BY <2>1 DEF ChainOf
    <3> QED
      BY <3>1, TailFacts
  <2> HIDE DEF tt
  <2> QED
    BY <1>3, <1>14, <2>2, <2>3 DEF TableSound
<1>16. \A jd \in Live(w) : jd.index # i
  BY <1>11 DEF Live, IsAlive
<1>17. Takes(w, v, id)
  BY <1>7, <1>9, <1>15, <1>16 DEF Takes, i
<1>18. \A jd \in EntityID : Holds(v, jd) <=> Holds(w, jd) \/ jd = id
  <2> TAKE jd \in EntityID
  <2>1. CASE jd.index = i
    <3>1. ~Holds(w, jd)
      BY <1>11, <2>1
    <3> QED
      BY <1>10, <1>13, <2>1, <3>1
  <2>2. CASE jd.index # i
    <3>1. jd # id
      BY <2>2 DEF i
    <3> QED
      BY <1>12, <2>2, <3>1
  <2> QED
    BY <2>1, <2>2
<1>19. \A jd \in EntityID : Holds(w, jd) => /\ jd # id
                                            /\ IsAlive(v, jd) <=> IsAlive(w, jd)
                                            /\ IsImmutable(v, jd) <=> IsImmutable(w, jd)
  BY <1>11, <1>12 DEF i
<1> QED
  BY <1>10, <1>17, <1>18, <1>19

(* What is known of one handle of a table is known of all. *)
LEMMA LiveChanges ==
  ASSUME NEW w, NEW v, NEW id \in EntityID, Takes(w, v, id), Holds(v, id),
         \A jd \in EntityID : Holds(v, jd) <=> Holds(w, jd) \/ jd = id,
         \A jd \in EntityID : Holds(w, jd) => /\ jd # id
                                              /\ IsAlive(v, jd) <=> IsAlive(w, jd)
                                              /\ IsImmutable(v, jd) <=> IsImmutable(w, jd)
  PROVE  /\ IsAlive(v, id) => Live(v) = Live(w) \cup {id}
         /\ ~IsAlive(v, id) => Live(v) = Live(w)
         /\ \A jd \in Live(w) : jd # id /\ (IsImmutable(v, jd) <=> IsImmutable(w, jd))
<1>1. \A jd : IsAlive(v, jd) => Holds(v, jd)
  BY DEF IsAlive
<1>2. \A jd : IsAlive(w, jd) => Holds(w, jd)
  BY DEF IsAlive
<1> QED
  BY <1>1, <1>2 DEF Live

LEMMA CreateOne ==
  ASSUME NEW w, TableSound(w), FreeSet(w) # {}, NEW imm \in BOOLEAN
  PROVE  LET v == Create(w, imm)
             id == NextId(w)
         IN  /\ Takes(w, v, id) /\ Live(v) = Live(w) \cup {id}
             /\ IsImmutable(v, id) <=> imm
             /\ \A jd \in Live(w) : jd # id /\ (IsImmutable(v, jd) <=> IsImmutable(w, jd))
<1> DEFINE i == NextIndex(w)
           a == Allocate(w)
           x == [a.slots[i] EXCEPT !.immutable = imm]
           v == WithSlot(a, i, x)
           id == NextId(w)
<1>1. IsTable(w) /\ (w.has_free => w.first_free \in 0 .. w.count - 1) /\ (w.has_free \/ w.count < MaxSlots)
  BY CanTake DEF TableSound
<1>2. /\ IsTable(a) /\ i \in 0 .. a.count - 1 /\ a.slots[i] \in EntitySlot /\ a.slots[i].finalised
      /\ ~a.slots[i].immutable /\ AllocStep(w, a)
  BY <1>1, FreshBits
<1>3. Create(w, imm) = v /\ AllocStep(w, v) /\ id \in EntityID
  BY <1>1, CreateFacts DEF Create
<1>4. id.index = i /\ id.generation = a.slots[i].generation
  BY DEF NextId
<1> HIDE DEF i, a, id
<1>5. x \in EntitySlot /\ x.finalised /\ x.immutable = imm /\ x.generation = a.slots[i].generation
  BY <1>2 DEF EntitySlot
<1> HIDE DEF x
<1>6. v.slots = [a.slots EXCEPT ![i] = x] /\ v.slots[i] = x
  <2>1. v.slots = [a.slots EXCEPT ![i] = x]
    BY <1>2, <1>5, WithSlotFacts
  <2>2. i \in DOMAIN a.slots
    BY <1>2, TableTypes
  <2> QED
    BY <2>1, <2>2
<1> HIDE DEF v
<1>7. /\ id.index = NextIndex(w) /\ id.generation = v.slots[id.index].generation
      /\ (~v.slots[id.index].finalised => ~v.slots[id.index].immutable)
  BY <1>4, <1>5, <1>6 DEF i
<1>8. /\ Takes(w, v, id) /\ Holds(v, id)
      /\ \A jd \in EntityID : Holds(v, jd) <=> Holds(w, jd) \/ jd = id
      /\ \A jd \in EntityID : Holds(w, jd) => /\ jd # id
                                              /\ IsAlive(v, jd) <=> IsAlive(w, jd)
                                              /\ IsImmutable(v, jd) <=> IsImmutable(w, jd)
  BY <1>3, <1>7, TakeFacts
<1>9. IsAlive(v, id) /\ (IsImmutable(v, id) <=> imm)
  BY <1>4, <1>5, <1>6, <1>8 DEF IsAlive, IsImmutable
<1>10. Live(v) = Live(w) \cup {id} /\ \A jd \in Live(w) : jd # id /\ (IsImmutable(v, jd) <=> IsImmutable(w, jd))
  BY <1>3, <1>8, <1>9, LiveChanges
<1> QED
  BY <1>3, <1>8, <1>9, <1>10 DEF id

LEMMA ReserveOne ==
  ASSUME NEW w, TableSound(w), FreeSet(w) # {}
  PROVE  LET v == Reserve(w)
         IN  /\ TableSound(v) /\ Live(v) = Live(w)
             /\ \A jd \in Live(w) : IsImmutable(v, jd) <=> IsImmutable(w, jd)
<1> DEFINE i == NextIndex(w)
           a == Allocate(w)
           x == [a.slots[i] EXCEPT !.finalised = FALSE]
           v == WithSlot(a, i, x)
           id == NextId(w)
<1>1. IsTable(w) /\ (w.has_free => w.first_free \in 0 .. w.count - 1) /\ (w.has_free \/ w.count < MaxSlots)
  BY CanTake DEF TableSound
<1>2. /\ IsTable(a) /\ i \in 0 .. a.count - 1 /\ a.slots[i] \in EntitySlot /\ a.slots[i].finalised
      /\ ~a.slots[i].immutable /\ AllocStep(w, a)
  BY <1>1, FreshBits
<1>3. Reserve(w) = v /\ AllocStep(w, v) /\ id \in EntityID
  BY <1>1, CreateFacts DEF Reserve
<1>4. id.index = i /\ id.generation = a.slots[i].generation
  BY DEF NextId
<1> HIDE DEF i, a, id
<1>5. x \in EntitySlot /\ ~x.finalised /\ ~x.immutable /\ x.generation = a.slots[i].generation
  <2>1. x \in EntitySlot /\ x.finalised = FALSE /\ x.immutable = a.slots[i].immutable
        /\ x.generation = a.slots[i].generation
    BY <1>2 DEF EntitySlot
  <2> QED
    BY <1>2, <2>1
<1> HIDE DEF x
<1>6. v.slots = [a.slots EXCEPT ![i] = x] /\ v.slots[i] = x
  <2>1. v.slots = [a.slots EXCEPT ![i] = x]
    BY <1>2, <1>5, WithSlotFacts
  <2>2. i \in DOMAIN a.slots
    BY <1>2, TableTypes
  <2> QED
    BY <2>1, <2>2
<1> HIDE DEF v
<1>7. /\ id.index = NextIndex(w) /\ id.generation = v.slots[id.index].generation
      /\ (~v.slots[id.index].finalised => ~v.slots[id.index].immutable)
  BY <1>4, <1>5, <1>6 DEF i
<1>8. /\ Takes(w, v, id) /\ Holds(v, id)
      /\ \A jd \in EntityID : Holds(v, jd) <=> Holds(w, jd) \/ jd = id
      /\ \A jd \in EntityID : Holds(w, jd) => /\ jd # id
                                              /\ IsAlive(v, jd) <=> IsAlive(w, jd)
                                              /\ IsImmutable(v, jd) <=> IsImmutable(w, jd)
  BY <1>3, <1>7, TakeFacts
<1>9. ~IsAlive(v, id)
  BY <1>4, <1>5, <1>6 DEF IsAlive
<1>10. Live(v) = Live(w) /\ \A jd \in Live(w) : jd # id /\ (IsImmutable(v, jd) <=> IsImmutable(w, jd))
  BY <1>3, <1>8, <1>9, LiveChanges
<1> QED
  BY <1>3, <1>8, <1>10 DEF Takes

LEMMA FinaliseOne ==
  ASSUME NEW w, TableSound(w), NEW id \in EntityID
  PROVE  LET v == Finalise(w, id)
         IN  /\ TableSound(v)
             /\ \A jd \in EntityID : Holds(v, jd) <=> Holds(w, jd)
             /\ \A jd \in EntityID : IsAlive(v, jd) <=> IsAlive(w, jd) \/ (jd = id /\ IsReserved(w, jd))
             /\ \A jd \in EntityID : IsImmutable(v, jd) <=> IsImmutable(w, jd)
<1> DEFINE i == id.index
           x == [w.slots[i] EXCEPT !.finalised = TRUE]
           u == WithSlot(w, i, x)
           v == Finalise(w, id)
<1>1. IsTable(w) /\ \A k \in 0 .. w.count - 1 : w.slots[k].alive /\ ~w.slots[k].finalised => ~w.slots[k].immutable
  BY DEF TableSound
<1>2. PICK st \in Seq(Index) : ChainOf(w, st)
  BY DEF TableSound
<1>3. CASE ~IsReserved(w, id)
  <2>1. v = w
    BY <1>3 DEF Finalise
  <2> HIDE DEF v
  <2> QED
    BY <1>3, <2>1 DEF v
<1>4. CASE IsReserved(w, id)
  <2>1. v = u
    BY <1>4 DEF Finalise
  <2>2. Holds(w, id) /\ i \in 0 .. w.count - 1 /\ w.slots[i].alive /\ ~w.slots[i].finalised
        /\ w.slots[i].generation = id.generation
    BY <1>1, <1>4, LiveApart DEF IsReserved, Holds
  <2>3. ~w.slots[i].immutable /\ w.slots[i] \in EntitySlot
    BY <1>1, <2>2, TableTypes
  <2>4. /\ x \in EntitySlot /\ x.finalised = TRUE /\ x.alive = w.slots[i].alive
        /\ x.generation = w.slots[i].generation /\ x.immutable = w.slots[i].immutable
        /\ x.next_free = w.slots[i].next_free
    BY <2>3 DEF EntitySlot
  <2> HIDE DEF x
  <2>5. IsTable(u) /\ u.count = w.count /\ u.slots = [w.slots EXCEPT ![i] = x]
    BY <1>1, <2>2, <2>4, WithSlotFacts
  <2>6. u.slots[i] = x /\ \A k \in 0 .. w.count - 1 : k # i => u.slots[k] = w.slots[k]
    BY <1>1, <2>2, <2>5, TableTypes
  <2>7. ChainOf(u, st)
    <3>1. StampStep(w, FinaliseAndStamp(w, id, FALSE))
      BY <1>1, StampFacts
    <3>2. FinaliseAndStamp(w, id, FALSE) = u
      BY <2>1 DEF FinaliseAndStamp
    <3>3. StampStep(w, u)
      BY <3>1, <3>2
    <3> HIDE DEF u
    <3> QED
      BY <1>1, <1>2, <3>3, ChainSame
  <2> HIDE DEF u
  <2>8. TableSound(u)
    <3>1. \A k \in 0 .. u.count - 1 : u.slots[k].alive /\ ~u.slots[k].finalised => ~u.slots[k].immutable
      <4> TAKE k \in 0 .. u.count - 1
      <4>1. CASE k = i
        BY <2>4, <2>6, <4>1
      <4>2. CASE k # i
        BY <1>1, <2>5, <2>6, <4>2
      <4> QED
        BY <4>1, <4>2
    <3> QED
      BY <2>5, <2>7, <3>1 DEF TableSound
  <2>9. ASSUME NEW jd \in EntityID
        PROVE  /\ Holds(u, jd) <=> Holds(w, jd)
               /\ IsAlive(u, jd) <=> IsAlive(w, jd) \/ (jd = id /\ IsReserved(w, jd))
               /\ IsImmutable(u, jd) <=> IsImmutable(w, jd)
    <3>1. jd.index \in Nat /\ w.count \in Nat /\ (jd.index < w.count => jd.index \in 0 .. w.count - 1)
      BY <1>1, EntityIdFacts, TableTypes
    <3>2. CASE jd.index = i
      <4>1. Holds(u, jd) <=> Holds(w, jd)
        BY <2>2, <2>4, <2>5, <2>6, <3>2 DEF Holds
      <4>2. Holds(w, jd) => jd = id
        BY <1>1, <2>2, <3>2, LiveApart
      <4>3. ~IsAlive(w, jd) /\ (Holds(w, jd) => IsReserved(w, jd))
        BY <2>2, <3>2 DEF IsAlive, IsReserved
      <4>4. IsAlive(u, jd) <=> Holds(u, jd)
        BY <2>4, <2>6, <3>2 DEF IsAlive
      <4>5. ~IsImmutable(u, jd) /\ ~IsImmutable(w, jd)
        BY <2>3, <2>4, <2>6, <3>2, <4>3 DEF IsImmutable
      <4>6. jd = id => Holds(w, jd)
        BY <2>2
      <4> QED
        BY <4>1, <4>2, <4>3, <4>4, <4>5, <4>6
    <3>3. CASE jd.index # i
      <4>1. jd # id
        BY <3>3
      <4>2. jd.index < w.count => u.slots[jd.index] = w.slots[jd.index]
        BY <2>6, <3>1, <3>3
      <4> QED
        BY <2>5, <4>1, <4>2 DEF Holds, IsAlive, IsImmutable
    <3> QED
      BY <3>2, <3>3
  <2> QED
    BY <2>1, <2>8, <2>9
<1> QED
  BY <1>3, <1>4

(* A reservation is what holds its slot and has no row yet. *)
LEMMA ReservedFacts ==
  ASSUME NEW w
  PROVE  /\ \A id : IsReserved(w, id) <=> Holds(w, id) /\ ~IsAlive(w, id)
         /\ \A id : IsAlive(w, id) => Holds(w, id)
         /\ \A id : IsImmutable(w, id) => IsAlive(w, id)
BY DEF IsReserved, IsAlive, IsImmutable

LEMMA DestroyOne ==
  ASSUME NEW w, TableSound(w), NEW id \in EntityID, Holds(w, id)
  PROVE  LET v == Destroy(w, id)
         IN  /\ TableSound(v)
             /\ Live(v) = Live(w) \ {id}
             /\ \A jd \in Live(v) : IsImmutable(v, jd) <=> IsImmutable(w, jd)
<1> DEFINE i == id.index
           v == Destroy(w, id)
<1>1. IsTable(w) /\ \A k \in 0 .. w.count - 1 : w.slots[k].alive /\ ~w.slots[k].finalised => ~w.slots[k].immutable
  BY DEF TableSound
<1>2. PICK st \in Seq(Index) : ChainOf(w, st)
  BY DEF TableSound
<1>3. FreeStep(w, i, v) /\ i \in 0 .. w.count - 1
  BY <1>1, DestroyFacts
<1>4. w.slots[i].alive
  BY DEF Holds
<1> HIDE DEF v
<1>5. /\ IsTable(v) /\ v.count = w.count /\ ~v.slots[i].alive
      /\ \A k \in 0 .. w.count - 1 : k # i => v.slots[k] = w.slots[k]
  BY <1>3 DEF FreeStep
<1>6. TableSound(v)
  <2>1. ChainOf(v, <<i>> \o st)
    BY <1>1, <1>2, <1>3, <1>4, ChainGrown
  <2>2. <<i>> \o st \in Seq(Index)
    BY EntityIdFacts, PushFacts
  <2>3. \A k \in 0 .. v.count - 1 : v.slots[k].alive /\ ~v.slots[k].finalised => ~v.slots[k].immutable
    BY <1>1, <1>5
  <2> QED
    BY <1>5, <2>1, <2>2, <2>3 DEF TableSound
<1>7. ASSUME NEW jd \in EntityID
      PROVE  /\ IsAlive(v, jd) <=> IsAlive(w, jd) /\ jd # id
             /\ IsAlive(v, jd) => (IsImmutable(v, jd) <=> IsImmutable(w, jd))
  <2>1. jd.index \in Nat /\ w.count \in Nat /\ (jd.index < w.count => jd.index \in 0 .. w.count - 1)
    BY <1>1, EntityIdFacts, TableTypes
  <2>2. CASE jd.index = i
    <3>1. ~IsAlive(v, jd)
      BY <1>5, <2>2 DEF IsAlive, Holds
    <3>2. IsAlive(w, jd) => jd = id
      BY <1>1, <2>2, LiveApart DEF IsAlive
    <3> QED
      BY <3>1, <3>2
  <2>3. CASE jd.index # i
    <3>1. jd # id
      BY <2>3
    <3>2. jd.index < w.count => v.slots[jd.index] = w.slots[jd.index]
      BY <1>5, <2>1, <2>3
    <3> QED
      BY <1>5, <3>1, <3>2 DEF Holds, IsAlive, IsImmutable
  <2> QED
    BY <2>2, <2>3
<1>8. Live(v) = Live(w) \ {id}
  BY <1>7 DEF Live
<1>9. \A jd \in Live(v) : IsImmutable(v, jd) <=> IsImmutable(w, jd)
  BY <1>7 DEF Live
<1> QED
  BY <1>6, <1>8, <1>9 DEF v
=============================================================================
