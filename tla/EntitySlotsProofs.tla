-------------------------- MODULE EntitySlotsProofs --------------------------
(***************************************************************************)
(* Proofs about the slot table, for every number of slots and generations: *)
(* its types, the integrity of the free chain, and that a retired EntityID *)
(* stays dead.  The three facts are one induction: reusing the head of the *)
(* chain is only well typed because the chain is intact, and a generation  *)
(* only outgrows the retired ones because reuse starts from the slot's own.*)
(*                                                                         *)
(* Then about saving and loading (IdentitySnapshot): the walk of the free  *)
(* chain finds all of it, what is restored of a file keeps every slot, and *)
(* two Worlds that are alike stay alike under the same calls.              *)
(***************************************************************************)
EXTENDS IdentitySnapshot, SlotTableProofs, SequenceTheorems, FunctionTheorems, FiniteSetTheorems,
        WellFoundedInduction, TLAPS

(* A retired handle is at most as young as its slot, whose generation has  *)
(* not wrapped; where it is exactly as young, the slot is dead.            *)
RetiredBelow ==
  \A id \in retired :
    /\ id.index < world.count
    /\ id.index \notin wrapped
    /\ id.generation <= world.slots[id.index].generation
    /\ id.generation = world.slots[id.index].generation => ~world.slots[id.index].alive

IInv == TypeOK /\ FreeChain /\ RetiredBelow

-----------------------------------------------------------------------------
(* What the code reads when it pops: an in-range dead slot whose next_free *)
(* is an index.                                                            *)
LEMMA PopFacts ==
  ASSUME IInv, world.has_free
  PROVE  /\ stack # <<>>
         /\ world.first_free = stack[1]
         /\ world.first_free \in 0 .. world.count - 1
         /\ world.slots[world.first_free] \in EntitySlot
         /\ ~world.slots[world.first_free].alive
<1>1. stack # <<>> /\ world.first_free = stack[1]
  BY DEF IInv, FreeChain
<1>2. Len(stack) \in Nat \ {0}
  BY <1>1, TailFacts DEF IInv, TypeOK
<1>3. world.first_free < world.count /\ ~world.slots[world.first_free].alive
  BY <1>1, <1>2 DEF IInv, FreeChain
<1>4. world.first_free \in 0 .. world.count - 1
  BY <1>3 DEF IInv, TypeOK, IsTable, Index
<1>5. QED
  BY <1>1, <1>3, <1>4 DEF IInv, TypeOK, IsTable

-----------------------------------------------------------------------------
(* The three conjuncts of IInv, across an allocation. *)
LEMMA AllocKeepsTypes ==
  ASSUME IInv, Room, AllocStep(world, world'), NEW imm \in BOOLEAN, Taken(imm),
         queued' \subseteq CreateOp
  PROVE  TypeOK'
<1>1. NextId(world) \in EntityID
  BY PopFacts, CreateFacts DEF IInv, TypeOK, Room
<1>2. world.has_free => stack # <<>> /\ world.first_free \in Index
  BY DEF IInv, TypeOK, IsTable, FreeChain
<1>3. stack' \in Seq(Index)
  BY <1>2, TailFacts DEF IInv, TypeOK, Taken
<1>4. wrapped' \subseteq Index
  BY <1>2 DEF IInv, TypeOK, Taken, WrapsNow
<1>5. retired' \subseteq EntityID
  BY DEF IInv, TypeOK, Taken
<1>6. born' \subseteq EntityID
  BY <1>1 DEF IInv, TypeOK, Taken
<1>7. phase' \in {"idle", "body", "apply"}
  BY DEF IInv, TypeOK, Taken
<1>8. QED
  BY <1>3, <1>4, <1>5, <1>6, <1>7 DEF TypeOK, AllocStep

LEMMA AllocKeepsChain ==
  ASSUME IInv, Room, AllocStep(world, world'), NEW imm \in BOOLEAN, Taken(imm)
  PROVE  FreeChain'
<1>1. IsTable(world) /\ stack \in Seq(Index) /\ ChainOf(world, stack)
  BY DEF IInv, TypeOK, FreeChain, ChainOf
<1>2. ChainOf(world', IF world.has_free THEN Tail(stack) ELSE stack)
  BY <1>1, ChainTaken
<1>3. stack' = IF world.has_free THEN Tail(stack) ELSE stack
  BY DEF Taken
<1> QED
  BY <1>2, <1>3 DEF FreeChain, ChainOf

LEMMA AllocKeepsRetired ==
  ASSUME IInv, Room, AllocStep(world, world'), NEW imm \in BOOLEAN, Taken(imm)
  PROVE  RetiredBelow'
<1>0. /\ world.count \in Nat /\ retired \subseteq EntityID
      /\ world'.count = IF world.has_free THEN world.count ELSE world.count + 1
      /\ \A k \in 0 .. world.count - 1 : world.slots[k].generation \in Generation
  <2>1. /\ world.count \in 0 .. MaxSlots
        /\ world.slots \in [0 .. world.count - 1 -> EntitySlot]
    BY DEF IInv, TypeOK, IsTable
  <2>2. \A k \in 0 .. world.count - 1 : world.slots[k] \in EntitySlot
    BY <2>1
  <2>3. QED
    BY <2>1, <2>2, TableAssumption DEF IInv, TypeOK, AllocStep, EntitySlot
<1>1. SUFFICES ASSUME NEW id \in retired'
               PROVE  /\ id.index < world'.count
                      /\ id.index \notin wrapped'
                      /\ id.generation <= world'.slots[id.index].generation
                      /\ id.generation = world'.slots[id.index].generation
                           => ~world'.slots[id.index].alive
  BY DEF RetiredBelow
<1>2. /\ id \in retired /\ id \in EntityID
      /\ WrapsNow => id.index # world.first_free
  BY <1>0, <1>1 DEF Taken
<1>3. /\ id.index \in 0 .. world.count - 1 /\ id.index \notin wrapped
      /\ id.generation \in Nat
      /\ id.generation <= world.slots[id.index].generation
      /\ id.generation = world.slots[id.index].generation => ~world.slots[id.index].alive
  BY <1>0, <1>2, TableAssumption DEF IInv, RetiredBelow, EntityID, Index, Generation
<1>4. id.index < world'.count /\ id.index \notin wrapped'
  BY <1>0, <1>2, <1>3 DEF Taken
<1>5. CASE id.index # NextIndex(world)
  <2>1. world'.slots[id.index] = world.slots[id.index]
    BY <1>3, <1>5 DEF AllocStep
  <2>2. QED
    BY <1>3, <1>4, <2>1
<1>6. CASE id.index = NextIndex(world)
  <2>1. world.has_free /\ id.index = world.first_free
    BY <1>0, <1>3, <1>6 DEF NextIndex
  <2>2. world.slots[id.index].generation # GenMax
    BY <1>2, <2>1 DEF WrapsNow
  <2>3. world'.slots[id.index].generation = world.slots[id.index].generation + 1
    BY <1>0, <1>3, <1>6, <2>1, <2>2, TableAssumption DEF AllocStep, NextGeneration, Generation
  <2>4. QED
    BY <1>0, <1>3, <1>4, <2>3 DEF Generation
<1>7. QED
  BY <1>5, <1>6

(* An apply or a clear leaves the chain and the handles as they were. *)
LEMMA StampKeepsIInv ==
  ASSUME IInv, StampStep(world, world'), queued' \subseteq CreateOp,
         UNCHANGED <<phase, stack, retired, wrapped, born>>
  PROVE  IInv'
<1>0. /\ IsTable(world) /\ IsTable(world') /\ world.count \in Nat /\ world'.count = world.count
      /\ \A k \in 0 .. world.count - 1 :
           /\ world'.slots[k].alive = world.slots[k].alive
           /\ world'.slots[k].generation = world.slots[k].generation
           /\ world'.slots[k].next_free = world.slots[k].next_free
  BY TableAssumption DEF IInv, TypeOK, StampStep, IsTable
<1>1. TypeOK'
  BY <1>0 DEF IInv, TypeOK
<1>2. FreeChain'
  <2>1. IsTable(world) /\ stack \in Seq(Index) /\ ChainOf(world, stack)
    BY DEF IInv, TypeOK, FreeChain, ChainOf
  <2>2. ChainOf(world', stack)
    BY <2>1, ChainSame
  <2> QED
    BY <2>2 DEF FreeChain, ChainOf
<1>3. RetiredBelow'
  <2>1. \A id \in retired : id.index \in 0 .. world.count - 1
    BY <1>0, TableAssumption DEF IInv, TypeOK, RetiredBelow, EntityID, Index
  <2>2. QED
    BY <1>0, <2>1 DEF IInv, RetiredBelow
<1>4. QED
  BY <1>1, <1>2, <1>3 DEF IInv

(* A destruction pushes its slot, which was not in the chain: it was alive. *)
LEMMA FreeKeepsIInv ==
  ASSUME IInv, NEW id \in EntityID, Holds(world, id), FreeStep(world, id.index, world'),
         id.index \in 0 .. world.count - 1, Released(id)
  PROVE  IInv'
<1> DEFINE i == id.index
           n == Len(stack)
<1>0. /\ FreeChain /\ stack \in Seq(Index) /\ n \in Nat /\ world.count \in Nat
      /\ IsTable(world') /\ i \in Index
  BY TableAssumption DEF IInv, TypeOK, IsTable, FreeStep, EntityID
<1>1. /\ stack' \in Seq(Index) /\ Len(stack') = n + 1 /\ stack'[1] = i
      /\ \A j \in 1 .. n : stack'[j + 1] = stack[j]
      /\ stack' # <<>>
  BY <1>0, PushFacts DEF Released
<1>2. TypeOK'
  BY <1>0, <1>1 DEF IInv, TypeOK, Released
<1>3. /\ world'.count = world.count /\ world'.has_free /\ world'.first_free = i
      /\ \A k \in 0 .. world.count - 1 : k # i => world'.slots[k] = world.slots[k]
      /\ ~world'.slots[i].alive
      /\ world'.slots[i].generation = world.slots[i].generation
      /\ world'.slots[i].next_free = IF world.has_free THEN world.first_free ELSE i
  BY DEF FreeStep
<1>4. world.slots[i].alive /\ world.slots[i].generation = id.generation
  BY DEF Holds
<1>6. FreeChain'
  <2>1. IsTable(world) /\ ChainOf(world, stack)
    BY DEF IInv, TypeOK, FreeChain, ChainOf
  <2>2. ChainOf(world', <<i>> \o stack)
    BY <1>0, <1>4, <2>1, ChainGrown
  <2> QED
    BY <2>2 DEF Released, FreeChain, ChainOf
<1>7. RetiredBelow'
  <2>1. ASSUME NEW d \in retired'
        PROVE  /\ d.index < world'.count
               /\ d.index \notin wrapped'
               /\ d.generation <= world'.slots[d.index].generation
               /\ d.generation = world'.slots[d.index].generation
                    => ~world'.slots[d.index].alive
    <3>1. wrapped' = wrapped
      BY DEF Released
    <3>2. CASE d \in retired
      <4>1. /\ d.index \in 0 .. world.count - 1 /\ d.index \notin wrapped
            /\ d.generation <= world.slots[d.index].generation
            /\ d.generation = world.slots[d.index].generation => ~world.slots[d.index].alive
        BY <1>0, <3>2, TableAssumption DEF IInv, TypeOK, RetiredBelow, EntityID, Index
      <4>2. world'.slots[d.index].generation = world.slots[d.index].generation
        BY <1>3, <4>1
      <4>3. ~world.slots[d.index].alive => ~world'.slots[d.index].alive
        BY <1>3, <4>1
      <4>4. QED
        BY <1>0, <1>3, <3>1, <4>1, <4>2, <4>3
    <3>3. CASE d \notin retired
      <4>1. d = id /\ i \notin wrapped
        BY <2>1, <3>3 DEF Released
      <4>2. id.generation \in Nat
        BY TableAssumption DEF EntityID, Generation
      <4>3. QED
        BY <1>0, <1>3, <1>4, <3>1, <4>1, <4>2
    <3>4. QED
      BY <3>2, <3>3
  <2>2. QED
    BY <2>1 DEF RetiredBelow
<1>8. QED
  BY <1>2, <1>6, <1>7 DEF IInv

-----------------------------------------------------------------------------
LEMMA SlotInitIInv == SlotInit => IInv
<1> SUFFICES ASSUME SlotInit PROVE IInv
  OBVIOUS
<1> DEFINE ss == [i \in 0 .. -1 |-> FALSE]
           has == FALSE
           z == 0
<1>1. ss \in [0 .. z - 1 -> EntitySlot] /\ has \in BOOLEAN
  OBVIOUS
<1>2. world = Table(z, ss, has, z)
  BY DEF SlotInit, EmptyTable
<1>3. z \in Index /\ z \in 0 .. MaxSlots
  BY TableAssumption DEF Index
<1> HIDE DEF ss, has, z
<1>4. IsTable(world) /\ world.count = z /\ world.has_free = has
  BY <1>1, <1>2, <1>3, TableFacts
<1>5. /\ stack = <<>> /\ stack \in Seq(Index) /\ Len(stack) = 0
      /\ phase = "idle" /\ queued = {} /\ retired = {} /\ wrapped = {} /\ born = {}
  BY DEF SlotInit
<1>6. TypeOK
  BY <1>4, <1>5 DEF TypeOK
<1>7. FreeChain
  BY <1>4, <1>5 DEF FreeChain, has, z
<1>8. RetiredBelow
  BY <1>5 DEF RetiredBelow
<1>9. QED
  BY <1>6, <1>7, <1>8 DEF IInv

LEMMA SlotNextIInv == IInv /\ [SlotNext]_slotVars => IInv'
<1> SUFFICES ASSUME IInv, [SlotNext]_slotVars PROVE IInv'
  OBVIOUS
<1>0. /\ IsTable(world) /\ queued \subseteq CreateOp
      /\ Room => world.has_free \/ world.count < MaxSlots
      /\ world.has_free => world.first_free \in 0 .. world.count - 1
  BY PopFacts DEF IInv, TypeOK, Room
<1>1. ASSUME NEW imm \in BOOLEAN, CreateEntity(imm) PROVE IInv'
  <2>1. Room /\ Taken(imm) /\ world' = Create(world, imm) /\ queued' \subseteq CreateOp
    BY <1>0, <1>1 DEF CreateEntity
  <2>2. AllocStep(world, world')
    BY <1>0, <2>1, CreateFacts
  <2>3. QED
    BY <2>1, <2>2, AllocKeepsTypes, AllocKeepsChain, AllocKeepsRetired DEF IInv
<1>2. ASSUME NEW imm \in BOOLEAN, RecordCreate(imm) PROVE IInv'
  <2>1. Room /\ Taken(imm) /\ world' = Reserve(world)
    BY <1>2 DEF RecordCreate
  <2>2. AllocStep(world, world') /\ NextId(world) \in EntityID
    BY <1>0, <2>1, CreateFacts
  <2>3. [id |-> NextId(world), immutable |-> imm] \in CreateOp
    BY <2>2 DEF CreateOp
  <2>4. queued' \subseteq CreateOp
    BY <1>0, <1>2, <2>3 DEF RecordCreate
  <2>5. QED
    BY <2>1, <2>2, <2>4, AllocKeepsTypes, AllocKeepsChain, AllocKeepsRetired DEF IInv
<1>3. ASSUME NEW op \in queued, ApplyCreate(op) PROVE IInv'
  <2>1. op.id \in EntityID /\ op.immutable \in BOOLEAN
    BY <1>0, <1>3 DEF CreateOp
  <2>2. StampStep(world, world')
    BY <1>0, <1>3, <2>1, StampFacts DEF ApplyCreate
  <2>3. queued' \subseteq CreateOp /\ UNCHANGED <<phase, stack, retired, wrapped, born>>
    BY <1>0, <1>3 DEF ApplyCreate
  <2>4. QED
    BY <2>2, <2>3, StampKeepsIInv
<1>4. ASSUME NEW op \in queued, DiscardCreate(op) PROVE IInv'
  <2>1. StampStep(world, world')
    BY <1>0, <1>4 DEF DiscardCreate, StampStep
  <2>2. queued' \subseteq CreateOp /\ UNCHANGED <<phase, stack, retired, wrapped, born>>
    BY <1>0, <1>4 DEF DiscardCreate
  <2>3. QED
    BY <2>1, <2>2, StampKeepsIInv
<1>5. ASSUME NEW id \in EntityID, DestroyEntity(id) PROVE IInv'
  <2>1. Holds(world, id) /\ world' = Destroy(world, id) /\ Released(id)
    BY <1>5 DEF DestroyEntity
  <2>2. FreeStep(world, id.index, world') /\ id.index \in 0 .. world.count - 1
    BY <1>0, <2>1, DestroyFacts
  <2>3. QED
    BY <2>1, <2>2, FreeKeepsIInv
<1>6. CASE TickPhase
  <2>1. /\ UNCHANGED <<world, queued, stack, retired, wrapped, born>>
        /\ phase' \in {"idle", "body", "apply"}
    BY <1>6 DEF TickPhase
  <2>2. QED
    BY <2>1 DEF IInv, TypeOK, FreeChain, RetiredBelow
<1>7. CASE UNCHANGED slotVars
  BY <1>7 DEF slotVars, IInv, TypeOK, FreeChain, RetiredBelow
<1>8. QED
  BY <1>1, <1>2, <1>3, <1>4, <1>5, <1>6, <1>7 DEF SlotNext

(* The inductive invariant, for every number of slots and generations.     *)
THEOREM SlotsInductive == SlotSpec => []IInv
BY SlotInitIInv, SlotNextIInv, PTL DEF SlotSpec

(* The slot table is always well typed: in particular first_free and every *)
(* next_free stay inside entity_slots, and no generation is 0 or deferred. *)
THEOREM SlotsTypeCorrect == SlotSpec => []TypeOK
<1>1. IInv => TypeOK
  BY DEF IInv
<1>2. QED
  BY <1>1, SlotsInductive, PTL

(* The intrusive free list is exactly the dead slots, each once, whatever  *)
(* interleaving of reservations, applies, clears and destructions ran.     *)
THEOREM FreeListIntact == SlotSpec => []FreeChain
<1>1. IInv => FreeChain
  BY DEF IInv
<1>2. QED
  BY <1>1, SlotsInductive, PTL

(* A destroyed EntityID never names another entity before its slot wraps.  *)
THEOREM RetiredNeverReturns == SlotSpec => []RetiredStayDead
<1>1. IInv => RetiredStayDead
  BY DEF IInv, RetiredBelow, RetiredStayDead, Holds
<1>2. QED
  BY <1>1, SlotsInductive, PTL

-----------------------------------------------------------------------------
(* Two slots nobody can tell apart: what a live slot has left in its link, *)
(* and a dead one in its bits, does not count.                             *)
SlotKept(s, t) ==
  /\ s.generation = t.generation
  /\ s.alive = t.alive
  /\ s.alive => s.immutable = t.immutable
  /\ ~s.alive => s.next_free = t.next_free

SlotAlike(s, t) == SlotKept(s, t) /\ (s.alive => s.finalised = t.finalised)

(* Two tables with such slots, the same number of them and the same head   *)
(* of the chain: what loading keeps, and what the loaded World has.        *)
SameHead(t, w) ==
  /\ t.count = w.count
  /\ t.has_free = w.has_free
  /\ w.has_free => t.first_free = w.first_free

Kept(t, w) == SameHead(t, w) /\ \A i \in 0 .. w.count - 1 : SlotKept(t.slots[i], w.slots[i])

Alike(t, w) == SameHead(t, w) /\ \A i \in 0 .. w.count - 1 : SlotAlike(t.slots[i], w.slots[i])

(* What the two Worlds and the file are to each other in each mode.        *)
TwinInv ==
  /\ mode \in {"run", "saved", "loading", "both", "damaged"}
  /\ mode \in {"run", "saved"} => twin = EmptyTable
  /\ mode \in {"saved", "loading"} => saved = Snapshot(world) /\ Unfinalised(world) = {}
  /\ mode = "loading" => IsTable(twin) /\ Kept(twin, world)
  /\ mode = "both" => IsTable(twin) /\ Alike(twin, world)
  /\ mode = "damaged" => /\ IsTable(twin)
                         /\ FreeList(twin) \in Seq(Index)
                         /\ ChainOf(twin, FreeList(twin))

IdentityInv == IInv /\ TwinInv

-----------------------------------------------------------------------------
(* Sets of numbers have a least member. *)
LEMMA LeastNumber ==
  ASSUME NEW S \in SUBSET Nat, S # {}
  PROVE  \E n \in S : \A m \in S : n <= m
<1> DEFINE R == OpToRel(<, Nat)
<1>1. \A m, n \in Nat : m < n => <<m, n>> \in R
  BY DEF OpToRel
<1>2. IsWellFoundedOn(R, Nat)
  BY NatLessThanWellFounded
<1> HIDE DEF R
<1>3. PICK n \in S : \A m \in S : <<m, n>> \notin R
  BY <1>2, WFMin
<1>4. \A m \in S : ~(m < n)
  BY <1>1, <1>3
<1> QED
  BY <1>4

LEMMA Counted ==
  ASSUME NEW n \in Nat
  PROVE  /\ IsFiniteSet(1 .. n) /\ Cardinality(1 .. n) = n
         /\ IsFiniteSet(0 .. n - 1) /\ Cardinality(0 .. n - 1) = n
<1>1. 0 \in Int /\ 1 \in Int /\ n \in Int /\ n - 1 \in Int
  OBVIOUS
<1>2. /\ IsFiniteSet(1 .. n) /\ Cardinality(1 .. n) = IF 1 > n THEN 0 ELSE n - 1 + 1
      /\ IsFiniteSet(0 .. n - 1) /\ Cardinality(0 .. n - 1) = IF 0 > n - 1 THEN 0 ELSE (n - 1) - 0 + 1
  BY <1>1, FS_Interval
<1> QED
  BY <1>2

(* A chain has as many links as there are dead slots. *)
LEMMA ChainCount ==
  ASSUME NEW w, IsTable(w), NEW st \in Seq(Index), ChainOf(w, st)
  PROVE  /\ Len(st) \in Nat /\ Len(st) = Cardinality(DeadSlots(w)) /\ Len(st) <= w.count
         /\ w.count \in Nat
         /\ \A j \in 1 .. Len(st) : st[j] \in DeadSlots(w)
<1>1. /\ w.count \in Nat /\ Len(st) \in Nat /\ DOMAIN st = 1 .. Len(st)
      /\ \A j \in 1 .. Len(st) : st[j] \in Nat
  BY TableAssumption DEF IsTable, Index
<1>2. ASSUME NEW j \in 1 .. Len(st) PROVE st[j] \in DeadSlots(w)
  <2>1. st[j] < w.count /\ ~w.slots[st[j]].alive
    BY DEF ChainOf
  <2>2. st[j] \in 0 .. w.count - 1
    BY <1>1, <2>1
  <2> QED
    BY <2>1, <2>2 DEF DeadSlots
<1>3. st \in [1 .. Len(st) -> DeadSlots(w)]
  BY <1>1, <1>2
<1>4. \A j, k \in 1 .. Len(st) : st[j] = st[k] => j = k
  BY DEF ChainOf
<1>5. \A i \in DeadSlots(w) : \E j \in 1 .. Len(st) : st[j] = i
  BY DEF ChainOf, DeadSlots
<1>6. st \in Bijection(1 .. Len(st), DeadSlots(w))
  BY <1>3, <1>4, <1>5, Fun_IsBij
<1>7. IsFiniteSet(1 .. Len(st)) /\ Cardinality(1 .. Len(st)) = Len(st)
  BY <1>1, Counted
<1>8. Cardinality(DeadSlots(w)) = Len(st)
  <2>1. ExistsBijection(1 .. Len(st), DeadSlots(w))
    BY <1>6 DEF ExistsBijection
  <2> QED
    BY <1>7, <2>1, FS_Bijection
<1>9. Len(st) <= w.count
  <2>1. IsFiniteSet(0 .. w.count - 1) /\ Cardinality(0 .. w.count - 1) = w.count
    BY <1>1, Counted
  <2>2. DeadSlots(w) \subseteq 0 .. w.count - 1
    BY DEF DeadSlots
  <2>3. Cardinality(DeadSlots(w)) <= Cardinality(0 .. w.count - 1)
    BY <2>1, <2>2, FS_Subset
  <2> QED
    BY <1>8, <2>1, <2>3
<1> QED
  BY <1>1, <1>2, <1>8, <1>9

(* The walk: it visits the chain and then stays at its last slot. *)
LEMMA ChainNodes ==
  ASSUME NEW w, IsTable(w), NEW st \in Seq(Index), ChainOf(w, st), st # <<>>
  PROVE  /\ Len(st) \in 1 .. w.count
         /\ ChainNode(w) = [k \in 1 .. w.count |-> IF k <= Len(st) THEN st[k] ELSE st[Len(st)]]
<1> DEFINE n == w.count
           m == Len(st)
           rule(g) == [k \in 1 .. n |->
                         IF k = 1 THEN w.first_free
                         ELSE IF g[k - 1] < n THEN w.slots[g[k - 1]].next_free ELSE n]
           h == [k \in 1 .. n |-> IF k <= m THEN st[k] ELSE st[m]]
<1>1. n \in Nat /\ m \in Nat /\ m <= n
  BY ChainCount
<1>2. m \in 1 .. n
  <2>1. m # 0
    OBVIOUS
  <2> QED
    BY <1>1, <2>1
<1>3. /\ w.first_free = st[1]
      /\ \A j \in 1 .. m : /\ st[j] < n
                           /\ w.slots[st[j]].next_free = IF j = m THEN st[j] ELSE st[j + 1]
  BY DEF ChainOf
<1>4. ASSUME NEW k \in 1 .. n
      PROVE  h[k] = IF k = 1 THEN w.first_free
                    ELSE IF h[k - 1] < n THEN w.slots[h[k - 1]].next_free ELSE n
  <2>1. CASE k = 1
    BY <1>2, <1>3, <2>1
  <2>2. CASE k # 1 /\ k <= m
    <3>1. k - 1 \in 1 .. n /\ k - 1 \in 1 .. m /\ k - 1 # m /\ (k - 1) + 1 = k
      BY <1>1, <2>2
    <3>2. h[k - 1] = st[k - 1] /\ h[k] = st[k]
      BY <2>2, <3>1
    <3>3. st[k - 1] < n /\ w.slots[st[k - 1]].next_free = st[k]
      BY <1>3, <3>1
    <3> HIDE DEF h
    <3> QED
      BY <2>2, <3>2, <3>3
  <2>3. CASE k # 1 /\ ~(k <= m)
    <3>1. k - 1 \in 1 .. n /\ m <= k - 1
      BY <1>1, <2>3
    <3>2. h[k - 1] = st[m] /\ h[k] = st[m]
      <4>1. CASE k - 1 = m
        BY <1>1, <2>3, <3>1, <4>1
      <4>2. CASE k - 1 # m
        <5>1. ~(k - 1 <= m)
          BY <1>1, <3>1, <4>2
        <5> QED
          BY <2>3, <3>1, <5>1
      <4> QED
        BY <4>1, <4>2
    <3>3. st[m] < n /\ w.slots[st[m]].next_free = st[m]
      BY <1>2, <1>3
    <3> HIDE DEF h
    <3> QED
      BY <2>3, <3>2, <3>3
  <2> QED
    BY <2>1, <2>2, <2>3
<1>5. h = rule(h)
  BY <1>4
<1>6. ASSUME NEW g, g = rule(g) PROVE g = h
  <2> DEFINE S == {k \in 1 .. n : g[k] # h[k]}
  <2>1. S = {}
    <3> SUFFICES ASSUME S # {} PROVE FALSE
      OBVIOUS
    <3>1. S \in SUBSET Nat
      BY <1>1
    <3> HIDE DEF S
    <3>2. PICK k \in S : \A j \in S : k <= j
      BY <3>1, LeastNumber
    <3>3. k \in 1 .. n /\ g[k] # h[k]
      BY <3>2 DEF S
    <3> HIDE DEF h
    <3>4. g[k] = IF k = 1 THEN w.first_free
                 ELSE IF g[k - 1] < n THEN w.slots[g[k - 1]].next_free ELSE n
      BY <1>6, <3>3
    <3>5. h[k] = IF k = 1 THEN w.first_free
                 ELSE IF h[k - 1] < n THEN w.slots[h[k - 1]].next_free ELSE n
      BY <1>4, <3>3
    <3>6. k # 1 => g[k - 1] = h[k - 1]
      <4> SUFFICES ASSUME k # 1 PROVE g[k - 1] = h[k - 1]
        OBVIOUS
      <4>1. k - 1 \in 1 .. n /\ ~(k <= k - 1)
        BY <1>1, <3>3
      <4>2. k - 1 \notin S
        BY <3>2, <4>1
      <4> QED
        BY <4>1, <4>2 DEF S
    <3> QED
      BY <3>3, <3>4, <3>5, <3>6
  <2>2. g = [k \in 1 .. n |-> g[k]]
    BY <1>6
  <2>3. \A k \in 1 .. n : g[k] = h[k]
    BY <2>1
  <2> QED
    BY <2>2, <2>3
<1>7. ChainNode(w) = CHOOSE g : g = rule(g)
  BY DEF ChainNode
<1> HIDE DEF rule
<1>8. (CHOOSE g : g = rule(g)) = h
  <2> HIDE DEF h
  <2> QED
    BY <1>5, <1>6
<1> QED
  BY <1>2, <1>7, <1>8

(* So the walk of snapshot_identity finds the chain, all of it and no more. *)
LEMMA WalkFindsChain ==
  ASSUME NEW w, IsTable(w), NEW st \in Seq(Index), ChainOf(w, st)
  PROVE  /\ FreeList(w) = st
         /\ ChainIntact(w)
         /\ Len(FreeList(w)) = Cardinality(DeadSlots(w))
<1>0. Len(st) = Cardinality(DeadSlots(w)) /\ Len(st) \in Nat /\ w.count \in Nat
  BY ChainCount
<1>1. CASE st = <<>>
  <2>1. ~w.has_free
    BY <1>1 DEF ChainOf
  <2>2. FreeList(w) = st
    BY <1>1, <2>1 DEF FreeList
  <2> QED
    BY <1>0, <2>1, <2>2 DEF ChainIntact
<1>2. CASE st # <<>>
  <2> DEFINE n == w.count
             m == Len(st)
             node == ChainNode(w)
  <2>1. /\ m \in 1 .. n
        /\ \A k \in 1 .. n : node[k] = IF k <= m THEN st[k] ELSE st[m]
    <3>1. m \in 1 .. n /\ node = [k \in 1 .. n |-> IF k <= m THEN st[k] ELSE st[m]]
      BY <1>2, ChainNodes
    <3> HIDE DEF node, m, n
    <3> QED
      BY <3>1
  <2>2. /\ \A j \in 1 .. m : /\ st[j] < n
                             /\ w.slots[st[j]].next_free = IF j = m THEN st[j] ELSE st[j + 1]
        /\ \A j, k \in 1 .. m : st[j] = st[k] => j = k
    BY DEF ChainOf
  <2> HIDE DEF node
  <2>3. ASSUME NEW k \in 1 .. n
        PROVE  node[k] < n /\ (w.slots[node[k]].next_free = node[k] <=> m <= k)
    <3>1. CASE k < m
      <4>1. k \in 1 .. m /\ k + 1 \in 1 .. m /\ k # k + 1 /\ k # m /\ k <= m
        BY <1>0, <3>1
      <4>2. st[k] < n /\ w.slots[st[k]].next_free = st[k + 1] /\ st[k] # st[k + 1]
        BY <2>2, <4>1
      <4>3. node[k] = st[k]
        BY <2>1, <4>1
      <4> QED
        BY <1>0, <3>1, <4>2, <4>3
    <3>2. CASE m <= k
      <4>1. node[k] = st[m]
        <5>1. CASE k = m
          BY <2>1, <5>1
        <5>2. CASE k # m
          <6>1. ~(k <= m)
            BY <1>0, <3>2, <5>2
          <6> QED
            BY <2>1, <6>1
        <5> QED
          BY <5>1, <5>2
      <4>2. st[m] < n /\ w.slots[st[m]].next_free = st[m]
        BY <2>1, <2>2
      <4> QED
        BY <3>2, <4>1, <4>2
    <3> QED
      BY <1>0, <3>1, <3>2
  <2>4. TailSteps(w) = {k \in 1 .. n : m <= k}
    <3>1. TailSteps(w) = {k \in 1 .. n : /\ \A j \in 1 .. k : node[j] < n
                                         /\ w.slots[node[k]].next_free = node[k]}
      BY DEF TailSteps, node
    <3>2. ASSUME NEW k \in 1 .. n PROVE \A j \in 1 .. k : node[j] < n
      <4>1. \A j \in 1 .. k : j \in 1 .. n
        BY <1>0
      <4> QED
        BY <2>3, <4>1
    <3> QED
      BY <2>3, <3>1, <3>2
  <2>5. FirstTail(w) = m
    <3>1. m \in TailSteps(w) /\ \A j \in TailSteps(w) : m <= j
      BY <1>0, <2>1, <2>4
    <3>2. \A k \in TailSteps(w) : (\A j \in TailSteps(w) : k <= j) => k = m
      BY <1>0, <2>4, <3>1
    <3> QED
      BY <3>1, <3>2 DEF FirstTail
  <2>6. FreeList(w) = SubSeq(node, 1, m)
    <3>1. w.has_free /\ TailSteps(w) # {}
      BY <1>2, <2>1, <2>4 DEF ChainOf
    <3> QED
      BY <2>5, <3>1 DEF FreeList, node
  <2>7. FreeList(w) = st
    <3>1. \A k \in 1 .. m : k \in 1 .. n /\ k <= m /\ node[k] = st[k] /\ st[k] \in Index
      BY <1>0, <2>1
    <3>2. /\ SubSeq(node, 1, m) \in Seq(Index) /\ Len(SubSeq(node, 1, m)) = IF 1 <= m THEN m - 1 + 1 ELSE 0
          /\ \A k \in 1 .. m - 1 + 1 : SubSeq(node, 1, m)[k] = node[1 + k - 1]
      <4>1. 1 \in Int /\ m \in Int /\ \A k \in 1 .. m : node[k] \in Index
        BY <1>0, <3>1
      <4> HIDE DEF m
      <4> QED
        BY <4>1, SubSeqProperties
    <3>3. Len(SubSeq(node, 1, m)) = Len(st) /\ \A k \in 1 .. Len(st) : SubSeq(node, 1, m)[k] = st[k]
      <4>1. 1 <= m /\ m - 1 + 1 = m
        BY <1>0, <2>1
      <4>2. ASSUME NEW k \in 1 .. m PROVE SubSeq(node, 1, m)[k] = st[k]
        <5>1. 1 + k - 1 = k /\ k \in 1 .. m - 1 + 1
          BY <1>0
        <5> QED
          BY <3>1, <3>2, <5>1
      <4> QED
        BY <3>2, <4>1, <4>2
    <3> QED
      BY <2>6, <3>2, <3>3, SeqEqual
  <2>8. \A k \in DOMAIN FreeList(w) : ~w.slots[FreeList(w)[k]].alive
    BY <2>7 DEF ChainOf
  <2>9. TailSteps(w) # {}
    BY <2>1, <2>4
  <2> QED
    BY <1>0, <2>7, <2>8, <2>9 DEF ChainIntact
<1> QED
  BY <1>1, <1>2

-----------------------------------------------------------------------------
(* What restore_identity builds of a file it accepts. *)
FileSlot == [generation : Generation, immutable : BOOLEAN]

IsFile(s, n) ==
  /\ n \in 0 .. MaxSlots
  /\ s.slots \in [0 .. n - 1 -> FileSlot]
  /\ s.free_list \in Seq(0 .. n - 1)
  /\ \A j, k \in 1 .. Len(s.free_list) : s.free_list[j] = s.free_list[k] => j = k

LEMMA RestoredSlots ==
  ASSUME NEW s, NEW n, IsFile(s, n), NEW i \in 0 .. n - 1
  PROVE  /\ RestoredSlot(s, i) \in EntitySlot
         /\ RestoredSlot(s, i).generation = s.slots[i].generation
         /\ RestoredSlot(s, i).alive <=> ~(\E j \in 1 .. Len(s.free_list) : s.free_list[j] = i)
         /\ RestoredSlot(s, i).alive => RestoredSlot(s, i).immutable = s.slots[i].immutable
         /\ \A j \in 1 .. Len(s.free_list) :
              s.free_list[j] = i =>
                RestoredSlot(s, i).next_free =
                  IF j = Len(s.free_list) THEN s.free_list[j] ELSE s.free_list[j + 1]
<1> DEFINE fl == s.free_list
           m == Len(fl)
<1>1. /\ m \in Nat /\ DOMAIN fl = 1 .. m /\ \A j \in 1 .. m : fl[j] \in 0 .. n - 1
      /\ s.slots[i].generation \in Generation /\ s.slots[i].immutable \in BOOLEAN
      /\ \A j, k \in 1 .. m : fl[j] = fl[k] => j = k
      /\ n \in 0 .. MaxSlots
  BY SMTT(40) DEF IsFile, FileSlot
<1>2. /\ \A j \in 0 .. n - 1 : j \in Index
      /\ 0 \in Index
  BY <1>1, TableAssumption DEF Index
<1> HIDE DEF fl, m
<1>3. CASE \E j \in 1 .. m : fl[j] = i
  <2>1. PICK j \in 1 .. m : fl[j] = i
    BY <1>3
  <2>2. (CHOOSE k \in 1 .. m : fl[k] = i) = j
    BY <1>1, <2>1
  <2> DEFINE next == IF j < m THEN fl[j + 1] ELSE i
  <2>3. RestoredSlot(s, i) = [generation |-> s.slots[i].generation, alive |-> FALSE,
                              finalised |-> TRUE, immutable |-> FALSE, next_free |-> next]
    BY <1>1, <2>1, <2>2 DEF RestoredSlot, fl, m
  <2>4. next = IF j = m THEN fl[j] ELSE fl[j + 1]
    BY <1>1, <2>1
  <2>5. next \in Index
    <3>1. CASE j = m
      BY <1>1, <1>2, <2>1, <2>4, <3>1
    <3>2. CASE j # m
      <4>1. j + 1 \in 1 .. m
        BY <1>1, <2>1, <3>2
      <4> QED
        BY <1>1, <1>2, <2>4, <3>2, <4>1
    <3> QED
      BY <3>1, <3>2
  <2> HIDE DEF next
  <2>6. RestoredSlot(s, i) \in EntitySlot
    BY <1>1, <2>3, <2>5 DEF EntitySlot
  <2>7. ASSUME NEW k \in 1 .. m, fl[k] = i
        PROVE  RestoredSlot(s, i).next_free = IF k = m THEN fl[k] ELSE fl[k + 1]
    <3>1. k = j
      BY <1>1, <2>1, <2>7
    <3> QED
      BY <2>3, <2>4, <3>1
  <2>8. RestoredSlot(s, i).generation = s.slots[i].generation /\ ~RestoredSlot(s, i).alive
    BY <2>3
  <2> QED
    BY <1>3, <2>6, <2>7, <2>8 DEF fl, m
<1>4. CASE ~(\E j \in 1 .. m : fl[j] = i)
  <2>1. RestoredSlot(s, i) = [generation |-> s.slots[i].generation, alive |-> TRUE, finalised |-> FALSE,
                              immutable |-> s.slots[i].immutable, next_free |-> 0]
    BY <1>1, <1>4 DEF RestoredSlot, fl, m
  <2>2. RestoredSlot(s, i) \in EntitySlot
    BY <1>1, <1>2, <2>1 DEF EntitySlot
  <2>3. /\ RestoredSlot(s, i).generation = s.slots[i].generation /\ RestoredSlot(s, i).alive
        /\ RestoredSlot(s, i).immutable = s.slots[i].immutable
    BY <2>1
  <2> QED
    BY <1>4, <2>2, <2>3 DEF fl, m
<1> QED
  BY <1>3, <1>4

LEMMA RestoredTable ==
  ASSUME NEW s, NEW n, IsFile(s, n)
  PROVE  /\ IsTable(Restore(s)) /\ Restore(s).count = n
         /\ Restore(s).slots = [i \in 0 .. n - 1 |-> RestoredSlot(s, i)]
         /\ s.free_list \in Seq(Index) /\ ChainOf(Restore(s), s.free_list)
<1> DEFINE w == Restore(s)
           fl == s.free_list
           m == Len(fl)
<1>1. /\ m \in Nat /\ DOMAIN fl = 1 .. m /\ \A j \in 1 .. m : fl[j] \in 0 .. n - 1
      /\ DOMAIN s.slots = 0 .. n - 1 /\ n \in 0 .. MaxSlots /\ n \in Nat
      /\ \A j, k \in 1 .. m : fl[j] = fl[k] => j = k
      /\ fl # <<>> => 1 \in 1 .. m
  BY TableAssumption DEF IsFile
<1>2. \A j \in 0 .. n - 1 : j \in Index
  BY <1>1, TableAssumption DEF Index
<1> HIDE DEF fl, m
<1>3. fl \in Seq(Index)
  <2>1. fl \in Seq(0 .. n - 1)
    BY DEF IsFile, fl
  <2>2. 0 .. n - 1 \subseteq Index
    BY <1>2
  <2> QED
    BY <2>1, <2>2, SeqMonotonic
<1>4. Cardinality(DOMAIN s.slots) = n
  BY <1>1, Counted
<1>5. /\ w.count = n
      /\ w.slots = [i \in 0 .. n - 1 |-> RestoredSlot(s, i)]
      /\ w.has_free = (fl # <<>>)
      /\ w.first_free = IF fl # <<>> THEN fl[1] ELSE 0
      /\ w = [count |-> w.count, slots |-> w.slots, has_free |-> w.has_free, first_free |-> w.first_free]
  BY <1>1, <1>4 DEF Restore, fl
<1> HIDE DEF w
<1>6. w.slots \in [0 .. n - 1 -> EntitySlot]
  BY <1>5, RestoredSlots
<1>7. w.first_free \in Index
  BY <1>1, <1>2, <1>5, TableAssumption DEF Index
<1>8. IsTable(w)
  <2>1. w.has_free \in BOOLEAN
    BY <1>5
  <2> QED
    BY <1>1, <1>5, <1>6, <1>7, <2>1 DEF IsTable
<1>9. ChainOf(w, fl)
  <2>1. ASSUME NEW j \in 1 .. m
        PROVE  /\ fl[j] < w.count
               /\ ~w.slots[fl[j]].alive
               /\ w.slots[fl[j]].next_free = IF j = m THEN fl[j] ELSE fl[j + 1]
    <3>1. fl[j] \in 0 .. n - 1 /\ w.slots[fl[j]] = RestoredSlot(s, fl[j])
      BY <1>1, <1>5
    <3>2. /\ ~RestoredSlot(s, fl[j]).alive
          /\ RestoredSlot(s, fl[j]).next_free = IF j = m THEN fl[j] ELSE fl[j + 1]
      BY <3>1, RestoredSlots DEF fl, m
    <3> QED
      BY <1>1, <1>5, <3>1, <3>2
  <2>2. ASSUME NEW i \in 0 .. n - 1, ~w.slots[i].alive PROVE \E j \in 1 .. m : fl[j] = i
    <3>1. ~RestoredSlot(s, i).alive
      BY <1>5, <2>2
    <3> QED
      BY <3>1, RestoredSlots DEF fl, m
  <2>3. /\ w.has_free <=> fl # <<>>
        /\ fl # <<>> => w.first_free = fl[1]
    BY <1>5
  <2>4. \A j, k \in 1 .. m : fl[j] = fl[k] => j = k
    BY <1>1
  <2> QED
    BY <1>5, <2>1, <2>2, <2>3, <2>4 DEF ChainOf, m
<1> QED
  BY <1>3, <1>5, <1>8, <1>9 DEF w, fl

-----------------------------------------------------------------------------
(* The operations keep two tables alike. *)
LEMMA SetAlike ==
  ASSUME NEW t, NEW w, IsTable(t), IsTable(w), Alike(t, w), NEW i \in 0 .. w.count - 1,
         NEW a \in EntitySlot, NEW b \in EntitySlot, SlotAlike(a, b)
  PROVE  /\ IsTable(WithSlot(t, i, a)) /\ IsTable(WithSlot(w, i, b))
         /\ Alike(WithSlot(t, i, a), WithSlot(w, i, b))
<1> DEFINE u == WithSlot(t, i, a)
           v == WithSlot(w, i, b)
<1>1. t.count = w.count /\ t.slots \in [0 .. t.count - 1 -> EntitySlot] /\ w.slots \in [0 .. w.count - 1 -> EntitySlot]
  BY DEF Alike, SameHead, IsTable
<1>2. /\ IsTable(u) /\ u.count = t.count /\ u.has_free = t.has_free
      /\ u.first_free = t.first_free /\ u.slots = [t.slots EXCEPT ![i] = a]
  BY <1>1, WithSlotFacts
<1>3. /\ IsTable(v) /\ v.count = w.count /\ v.has_free = w.has_free
      /\ v.first_free = w.first_free /\ v.slots = [w.slots EXCEPT ![i] = b]
  BY <1>1, WithSlotFacts
<1> HIDE DEF u, v
<1>4. SameHead(u, v)
  BY <1>2, <1>3 DEF Alike, SameHead
<1>5. ASSUME NEW k \in 0 .. v.count - 1 PROVE SlotAlike(u.slots[k], v.slots[k])
  <2>1. CASE k = i
    BY <1>1, <1>2, <1>3, <2>1
  <2>2. CASE k # i
    <3>1. u.slots[k] = t.slots[k] /\ v.slots[k] = w.slots[k] /\ k \in 0 .. w.count - 1
      BY <1>1, <1>2, <1>3, <1>5, <2>2
    <3> QED
      BY <3>1 DEF Alike
  <2> QED
    BY <2>1, <2>2
<1> QED
  BY <1>2, <1>3, <1>4, <1>5 DEF Alike, u, v

(* Both take the same slot, with the same generation. *)
LEMMA AllocateAlike ==
  ASSUME NEW t, NEW w, IsTable(t), IsTable(w), Alike(t, w),
         w.has_free => (w.first_free \in 0 .. w.count - 1 /\ ~w.slots[w.first_free].alive),
         w.has_free \/ w.count < MaxSlots
  PROVE  /\ NextIndex(t) = NextIndex(w) /\ IsTable(Allocate(t)) /\ IsTable(Allocate(w))
         /\ NextIndex(w) \in 0 .. Allocate(w).count - 1
         /\ Alike(Allocate(t), Allocate(w))
<1>1. /\ t.count = w.count /\ t.has_free = w.has_free
      /\ w.has_free => t.first_free = w.first_free
  BY DEF Alike, SameHead
<1>2. NextIndex(t) = NextIndex(w)
  BY <1>1 DEF NextIndex
<1>3. /\ IsTable(Allocate(t)) /\ IsTable(Allocate(w)) /\ NextIndex(w) \in 0 .. Allocate(w).count - 1
  <2>1. AllocStep(w, Allocate(w))
    BY AllocateFacts
  <2>2. AllocStep(t, Allocate(t))
    BY <1>1, AllocateFacts
  <2> QED
    BY <2>1, <2>2 DEF AllocStep
<1>4. CASE w.has_free
  <2> DEFINE i == w.first_free
             s == Reused(t.slots[i])
             r == Reused(w.slots[i])
             next == w.slots[i].next_free
             has == next # i
             ts == [t.slots EXCEPT ![i] = s]
             ws == [w.slots EXCEPT ![i] = r]
  <2>1. /\ i \in 0 .. w.count - 1 /\ t.slots \in [0 .. w.count - 1 -> EntitySlot]
        /\ w.slots \in [0 .. w.count - 1 -> EntitySlot]
        /\ t.slots[i] \in EntitySlot /\ w.slots[i] \in EntitySlot
    BY <1>1, <1>4 DEF IsTable
  <2>2. /\ t.slots[i].generation = w.slots[i].generation /\ t.slots[i].next_free = next
    BY <1>4, <2>1 DEF Alike, SlotAlike, SlotKept
  <2>3. SlotAlike(s, r) /\ s \in EntitySlot /\ r \in EntitySlot
    <3>1. s \in EntitySlot /\ r \in EntitySlot
      BY <2>1, SlotFacts
    <3>2. SlotAlike(s, r)
      BY <2>2 DEF Reused, SlotAlike, SlotKept
    <3> QED
      BY <3>1, <3>2
  <2>4. /\ Allocate(t) = Table(w.count, ts, has, next)
        /\ Allocate(w) = Table(w.count, ws, has, next)
    BY <1>1, <1>4, <2>2 DEF Allocate, Reuse
  <2>5. ASSUME NEW k \in 0 .. w.count - 1 PROVE SlotAlike(ts[k], ws[k])
    <3> HIDE DEF s, r
    <3>1. CASE k = i
      BY <2>1, <2>3, <3>1
    <3>2. CASE k # i
      <4>1. ts[k] = t.slots[k] /\ ws[k] = w.slots[k]
        BY <2>1, <3>2
      <4> QED
        BY <4>1 DEF Alike
    <3> QED
      BY <3>1, <3>2
  <2> HIDE DEF ts, ws, has, next
  <2>6. /\ Allocate(t).count = w.count /\ Allocate(t).slots = ts
        /\ Allocate(t).has_free = has /\ Allocate(t).first_free = next
        /\ Allocate(w).count = w.count /\ Allocate(w).slots = ws
        /\ Allocate(w).has_free = has /\ Allocate(w).first_free = next
    BY <2>4, TableFacts
  <2>7. Alike(Allocate(t), Allocate(w))
    BY <2>5, <2>6 DEF Alike, SameHead
  <2> QED
    BY <1>2, <1>3, <2>7
<1>5. CASE ~w.has_free
  <2> DEFINE ts == [i \in 0 .. w.count |-> IF i = w.count THEN FreshSlot ELSE t.slots[i]]
             ws == [i \in 0 .. w.count |-> IF i = w.count THEN FreshSlot ELSE w.slots[i]]
             n == w.count + 1
  <2>1. /\ Allocate(t) = Table(n, ts, t.has_free, t.first_free)
        /\ Allocate(w) = Table(n, ws, w.has_free, w.first_free)
    BY <1>1, <1>5 DEF Allocate, PushBack
  <2>2. w.count \in Nat
    BY TableAssumption DEF IsTable
  <2>3. ASSUME NEW k \in 0 .. n - 1 PROVE SlotAlike(ts[k], ws[k])
    <3>1. k \in 0 .. w.count
      BY <2>2, <2>3
    <3>2. CASE k = w.count
      <4>1. ts[k] = FreshSlot /\ ws[k] = FreshSlot
        BY <3>1, <3>2
      <4> HIDE DEF ts, ws
      <4> QED
        BY <4>1 DEF SlotAlike, SlotKept
    <3>3. CASE k # w.count
      <4>1. ts[k] = t.slots[k] /\ ws[k] = w.slots[k] /\ k \in 0 .. w.count - 1
        BY <2>2, <3>1, <3>3
      <4> HIDE DEF ts, ws
      <4> QED
        BY <4>1 DEF Alike
    <3> QED
      BY <3>2, <3>3
  <2> HIDE DEF ts, ws, n
  <2>4. /\ Allocate(t).count = n /\ Allocate(t).slots = ts
        /\ Allocate(t).has_free = t.has_free /\ Allocate(t).first_free = t.first_free
        /\ Allocate(w).count = n /\ Allocate(w).slots = ws
        /\ Allocate(w).has_free = w.has_free /\ Allocate(w).first_free = w.first_free
    BY <2>1, TableFacts
  <2>5. Alike(Allocate(t), Allocate(w))
    BY <1>1, <1>5, <2>3, <2>4 DEF Alike, SameHead
  <2> QED
    BY <1>2, <1>3, <2>5
<1> QED
  BY <1>4, <1>5

LEMMA CreateAlike ==
  ASSUME NEW t, NEW w, IsTable(t), IsTable(w), Alike(t, w),
         w.has_free => (w.first_free \in 0 .. w.count - 1 /\ ~w.slots[w.first_free].alive),
         w.has_free \/ w.count < MaxSlots
  PROVE  /\ NextId(t) = NextId(w)
         /\ \A imm \in BOOLEAN : IsTable(Create(t, imm)) /\ Alike(Create(t, imm), Create(w, imm))
         /\ IsTable(Reserve(t)) /\ Alike(Reserve(t), Reserve(w))
<1> DEFINE a == Allocate(t)
           b == Allocate(w)
           i == NextIndex(w)
           s == a.slots[i]
           r == b.slots[i]
<1>1. NextIndex(t) = i /\ IsTable(a) /\ IsTable(b) /\ i \in 0 .. b.count - 1 /\ Alike(a, b)
  BY AllocateAlike
<1>2. a.slots[i] \in EntitySlot /\ b.slots[i] \in EntitySlot /\ SlotAlike(s, r) /\ r.alive
  <2>1. a.count = b.count
    BY <1>1 DEF Alike, SameHead
  <2>2. AllocStep(w, b)
    BY AllocateFacts
  <2> QED
    BY <1>1, <2>1, <2>2 DEF IsTable, Alike, AllocStep
<1>3. NextId(t) = NextId(w)
  BY <1>1, <1>2 DEF NextId, SlotAlike, SlotKept
<1>4. ASSUME NEW imm \in BOOLEAN
      PROVE  IsTable(Create(t, imm)) /\ Alike(Create(t, imm), Create(w, imm))
  <2> DEFINE c == [s EXCEPT !.immutable = imm]
             d == [r EXCEPT !.immutable = imm]
  <2>1. c \in EntitySlot /\ d \in EntitySlot
    BY <1>2 DEF EntitySlot
  <2>2. SlotAlike(c, d)
    BY <1>2 DEF EntitySlot, SlotAlike, SlotKept
  <2>3. Create(t, imm) = WithSlot(a, i, c) /\ Create(w, imm) = WithSlot(b, i, d)
    BY <1>1 DEF Create
  <2> HIDE DEF a, b, c, d
  <2> QED
    BY <1>1, <2>1, <2>2, <2>3, SetAlike
<1>5. IsTable(Reserve(t)) /\ Alike(Reserve(t), Reserve(w))
  <2> DEFINE c == [s EXCEPT !.finalised = FALSE]
             d == [r EXCEPT !.finalised = FALSE]
  <2>1. c \in EntitySlot /\ d \in EntitySlot
    BY <1>2 DEF EntitySlot
  <2>2. SlotAlike(c, d)
    BY <1>2 DEF EntitySlot, SlotAlike, SlotKept
  <2>3. Reserve(t) = WithSlot(a, i, c) /\ Reserve(w) = WithSlot(b, i, d)
    BY <1>1 DEF Reserve
  <2> HIDE DEF a, b, c, d
  <2> QED
    BY <1>1, <2>1, <2>2, <2>3, SetAlike
<1> QED
  BY <1>3, <1>4, <1>5

(* Whatever a handle is asked for, both tables answer the same. *)
LEMMA HandlesAlike ==
  ASSUME NEW t, NEW w, IsTable(t), IsTable(w), Alike(t, w), NEW id \in EntityID
  PROVE  /\ Holds(t, id) = Holds(w, id) /\ IsAlive(t, id) = IsAlive(w, id)
         /\ IsReserved(t, id) = IsReserved(w, id) /\ IsImmutable(t, id) = IsImmutable(w, id)
<1> DEFINE i == id.index
<1>1. i \in Nat /\ t.count = w.count /\ w.count \in Nat
  BY TableAssumption DEF EntityID, Index, IsTable, Alike, SameHead
<1>2. CASE i < w.count
  <2>1. i \in 0 .. w.count - 1
    BY <1>1, <1>2
  <2>2. /\ t.slots[i] \in EntitySlot /\ w.slots[i] \in EntitySlot
        /\ SlotAlike(t.slots[i], w.slots[i])
    BY <1>1, <2>1 DEF IsTable, Alike
  <2>3. /\ t.slots[i].alive \in BOOLEAN /\ t.slots[i].finalised \in BOOLEAN /\ t.slots[i].immutable \in BOOLEAN
        /\ w.slots[i].alive \in BOOLEAN /\ w.slots[i].finalised \in BOOLEAN /\ w.slots[i].immutable \in BOOLEAN
        /\ t.slots[i].alive = w.slots[i].alive /\ t.slots[i].generation = w.slots[i].generation
        /\ w.slots[i].alive => /\ t.slots[i].finalised = w.slots[i].finalised
                               /\ t.slots[i].immutable = w.slots[i].immutable
    BY <2>2 DEF EntitySlot, SlotAlike, SlotKept
  <2> QED
    BY <1>1, <1>2, <2>3 DEF Holds, IsAlive, IsReserved, IsImmutable
<1>3. CASE ~(i < w.count)
  BY <1>1, <1>3 DEF Holds, IsAlive, IsReserved, IsImmutable
<1> QED
  BY <1>2, <1>3

LEMMA FinaliseAlike ==
  ASSUME NEW t, NEW w, IsTable(t), IsTable(w), Alike(t, w), NEW id \in EntityID
  PROVE  /\ IsTable(Finalise(t, id)) /\ IsTable(Finalise(w, id)) /\ Alike(Finalise(t, id), Finalise(w, id))
         /\ IsTable(Stamp(t, id)) /\ IsTable(Stamp(w, id)) /\ Alike(Stamp(t, id), Stamp(w, id))
<1> DEFINE i == id.index
<1>1. i \in Nat /\ t.count = w.count /\ w.count \in Nat
  BY TableAssumption DEF EntityID, Index, IsTable, Alike, SameHead
<1>2. ASSUME i < w.count
      PROVE  /\ i \in 0 .. w.count - 1 /\ t.slots[i] \in EntitySlot /\ w.slots[i] \in EntitySlot
             /\ SlotAlike(t.slots[i], w.slots[i])
  <2>1. i \in 0 .. w.count - 1
    BY <1>1, <1>2
  <2> QED
    BY <1>1, <2>1 DEF IsTable, Alike
<1>3. /\ IsTable(Finalise(t, id)) /\ IsTable(Finalise(w, id)) /\ Alike(Finalise(t, id), Finalise(w, id))
  <2>1. CASE IsReserved(w, id)
    <3> DEFINE a == [t.slots[i] EXCEPT !.finalised = TRUE]
               b == [w.slots[i] EXCEPT !.finalised = TRUE]
    <3>1. i < w.count /\ IsReserved(t, id)
      BY <2>1, HandlesAlike DEF IsReserved, Holds
    <3>2. a \in EntitySlot /\ b \in EntitySlot /\ SlotAlike(a, b)
      BY <1>2, <3>1 DEF EntitySlot, SlotAlike, SlotKept
    <3>3. Finalise(t, id) = WithSlot(t, i, a) /\ Finalise(w, id) = WithSlot(w, i, b)
      BY <2>1, <3>1 DEF Finalise
    <3> HIDE DEF a, b
    <3> QED
      BY <1>2, <3>1, <3>2, <3>3, SetAlike
  <2>2. CASE ~IsReserved(w, id)
    <3>1. ~IsReserved(t, id)
      BY <2>2, HandlesAlike
    <3> QED
      BY <2>2, <3>1 DEF Finalise
  <2> QED
    BY <2>1, <2>2
<1>4. /\ IsTable(Stamp(t, id)) /\ IsTable(Stamp(w, id)) /\ Alike(Stamp(t, id), Stamp(w, id))
  <2>1. CASE i < w.count
    <3> DEFINE a == [t.slots[i] EXCEPT !.immutable = TRUE]
               b == [w.slots[i] EXCEPT !.immutable = TRUE]
    <3>1. a \in EntitySlot /\ b \in EntitySlot /\ SlotAlike(a, b)
      BY <1>2, <2>1 DEF EntitySlot, SlotAlike, SlotKept
    <3>2. Stamp(t, id) = WithSlot(t, i, a) /\ Stamp(w, id) = WithSlot(w, i, b)
      BY <1>1, <2>1 DEF Stamp
    <3> HIDE DEF a, b
    <3> QED
      BY <1>2, <2>1, <3>1, <3>2, SetAlike
  <2>2. CASE ~(i < w.count)
    BY <1>1, <2>2 DEF Stamp
  <2> QED
    BY <2>1, <2>2
<1> QED
  BY <1>3, <1>4

LEMMA StampAlike ==
  ASSUME NEW t, NEW w, IsTable(t), IsTable(w), Alike(t, w), NEW id \in EntityID, NEW imm \in BOOLEAN
  PROVE  /\ IsTable(FinaliseAndStamp(t, id, imm))
         /\ Alike(FinaliseAndStamp(t, id, imm), FinaliseAndStamp(w, id, imm))
<1>1. /\ IsTable(Finalise(t, id)) /\ IsTable(Finalise(w, id)) /\ Alike(Finalise(t, id), Finalise(w, id))
  BY FinaliseAlike
<1>2. /\ IsTable(Stamp(Finalise(t, id), id))
      /\ Alike(Stamp(Finalise(t, id), id), Stamp(Finalise(w, id), id))
  BY <1>1, FinaliseAlike
<1> QED
  BY <1>1, <1>2 DEF FinaliseAndStamp

LEMMA DestroyAlike ==
  ASSUME NEW t, NEW w, IsTable(t), IsTable(w), Alike(t, w), NEW id \in EntityID, Holds(w, id)
  PROVE  IsTable(Destroy(t, id)) /\ Alike(Destroy(t, id), Destroy(w, id))
<1> DEFINE i == id.index
           u == Destroy(t, id)
           v == Destroy(w, id)
<1>1. Holds(t, id) /\ t.count = w.count /\ t.has_free = w.has_free
  BY HandlesAlike DEF Alike, SameHead
<1>2. w.has_free => t.first_free = w.first_free
  BY DEF Alike, SameHead
<1>3. FreeStep(t, i, u) /\ FreeStep(w, i, v) /\ i \in 0 .. w.count - 1
  BY <1>1, DestroyFacts
<1> HIDE DEF u, v
<1>4. SameHead(u, v) /\ IsTable(u)
  BY <1>1, <1>3 DEF FreeStep, SameHead
<1>5. ASSUME NEW k \in 0 .. v.count - 1 PROVE SlotAlike(u.slots[k], v.slots[k])
  <2>1. k \in 0 .. w.count - 1 /\ k \in 0 .. t.count - 1
    BY <1>1, <1>3 DEF FreeStep
  <2>2. CASE k = i
    <3>1. SlotAlike(t.slots[i], w.slots[i])
      BY <1>3 DEF Alike
    <3>2. u.slots[i].generation = v.slots[i].generation /\ u.slots[i].next_free = v.slots[i].next_free
      BY <1>1, <1>2, <1>3, <3>1 DEF FreeStep, SlotAlike, SlotKept
    <3>3. ~u.slots[i].alive /\ ~v.slots[i].alive
      BY <1>3 DEF FreeStep
    <3>4. u.slots[i].alive \in BOOLEAN /\ v.slots[i].alive \in BOOLEAN
      BY <1>1, <1>3 DEF FreeStep, IsTable, EntitySlot
    <3> QED
      BY <2>2, <3>2, <3>3, <3>4 DEF SlotAlike, SlotKept
  <2>3. CASE k # i
    <3>1. u.slots[k] = t.slots[k] /\ v.slots[k] = w.slots[k]
      BY <1>3, <2>1, <2>3 DEF FreeStep
    <3> QED
      BY <2>1, <3>1 DEF Alike
  <2> QED
    BY <2>2, <2>3
<1> QED
  BY <1>4, <1>5 DEF Alike, u, v

-----------------------------------------------------------------------------
(* A table that keeps the slots of another has its chain, and, once all    *)
(* live slots are finalised in both, is alike and saves to the same file.  *)
LEMMA KeptChain ==
  ASSUME NEW t, NEW w, Kept(t, w), IsTable(w), NEW st \in Seq(Index), ChainOf(w, st)
  PROVE  ChainOf(t, st)
<1>1. /\ t.count = w.count /\ t.has_free = w.has_free
      /\ w.has_free => t.first_free = w.first_free
  BY DEF Kept, SameHead
<1>2. /\ w.has_free <=> st # <<>>
      /\ st # <<>> => w.first_free = st[1]
      /\ \A j, k \in 1 .. Len(st) : st[j] = st[k] => j = k
  BY DEF ChainOf
<1>3. ASSUME NEW j \in 1 .. Len(st)
      PROVE  /\ st[j] < t.count
             /\ ~t.slots[st[j]].alive
             /\ t.slots[st[j]].next_free = IF j = Len(st) THEN st[j] ELSE st[j + 1]
  <2>1. st[j] \in DeadSlots(w)
    BY ChainCount
  <2>2. st[j] \in 0 .. w.count - 1 /\ ~w.slots[st[j]].alive
    BY <2>1 DEF DeadSlots
  <2>3. SlotKept(t.slots[st[j]], w.slots[st[j]])
    BY <2>2 DEF Kept
  <2>4. st[j] < w.count /\ w.slots[st[j]].next_free = IF j = Len(st) THEN st[j] ELSE st[j + 1]
    BY DEF ChainOf
  <2> QED
    BY <1>1, <2>2, <2>3, <2>4 DEF SlotKept
<1>4. ASSUME NEW i \in 0 .. t.count - 1, ~t.slots[i].alive PROVE \E j \in 1 .. Len(st) : st[j] = i
  <2>1. i \in 0 .. w.count - 1 /\ SlotKept(t.slots[i], w.slots[i])
    BY <1>1 DEF Kept
  <2>2. ~w.slots[i].alive
    BY <1>4, <2>1 DEF SlotKept
  <2> QED
    BY <2>1, <2>2 DEF ChainOf
<1> QED
  BY <1>1, <1>2, <1>3, <1>4 DEF ChainOf

LEMMA AlikeKeeps ==
  ASSUME NEW t, NEW w, Alike(t, w)
  PROVE  Kept(t, w)
BY DEF Alike, Kept, SlotAlike

LEMMA LoadedAlike ==
  ASSUME NEW t, NEW w, IsTable(t), IsTable(w), Kept(t, w), Unfinalised(t) = {}, Unfinalised(w) = {}
  PROVE  Alike(t, w)
<1>1. t.count = w.count
  BY DEF Kept, SameHead
<1>2. ASSUME NEW i \in 0 .. w.count - 1 PROVE SlotAlike(t.slots[i], w.slots[i])
  <2>1. SlotKept(t.slots[i], w.slots[i]) /\ i \notin Unfinalised(t) /\ i \notin Unfinalised(w)
    BY DEF Kept
  <2>2. t.slots[i] \in EntitySlot /\ w.slots[i] \in EntitySlot
    BY <1>1 DEF IsTable
  <2>3. w.slots[i].alive => w.slots[i].finalised
    BY <2>1 DEF Unfinalised
  <2>4. t.slots[i].alive => t.slots[i].finalised
    BY <1>1, <2>1 DEF Unfinalised
  <2>5. t.slots[i].finalised \in BOOLEAN /\ w.slots[i].finalised \in BOOLEAN /\ t.slots[i].alive = w.slots[i].alive
    BY <2>1, <2>2 DEF EntitySlot, SlotKept
  <2>6. t.slots[i].alive => t.slots[i].finalised = w.slots[i].finalised
    BY <2>3, <2>4, <2>5
  <2> QED
    BY <2>1, <2>6 DEF SlotAlike
<1> QED
  BY <1>2 DEF Alike, Kept

LEMMA KeptSaves ==
  ASSUME NEW t, NEW w, IsTable(t), IsTable(w), Kept(t, w), NEW st \in Seq(Index), ChainOf(w, st)
  PROVE  Snapshot(t) = Snapshot(w)
<1>1. t.count = w.count
  BY DEF Kept, SameHead
<1>2. FreeList(t) = st /\ FreeList(w) = st
  BY KeptChain, WalkFindsChain
<1>3. ASSUME NEW i \in 0 .. w.count - 1
      PROVE  /\ t.slots[i].generation = w.slots[i].generation
             /\ (t.slots[i].alive /\ t.slots[i].immutable) = (w.slots[i].alive /\ w.slots[i].immutable)
  <2>1. SlotKept(t.slots[i], w.slots[i])
    BY DEF Kept
  <2>2. /\ t.slots[i].generation = w.slots[i].generation /\ t.slots[i].alive = w.slots[i].alive
        /\ t.slots[i].alive => t.slots[i].immutable = w.slots[i].immutable
    BY <2>1 DEF SlotKept
  <2> QED
    BY <2>2
<1> DEFINE entry(x, i) == [generation |-> x.slots[i].generation,
                           immutable |-> x.slots[i].alive /\ x.slots[i].immutable]
<1>4. \A i \in 0 .. w.count - 1 : entry(t, i) = entry(w, i)
  BY <1>3
<1>5. [i \in 0 .. t.count - 1 |-> entry(t, i)] = [i \in 0 .. w.count - 1 |-> entry(w, i)]
  BY <1>1, <1>4
<1> QED
  BY <1>2, <1>5 DEF Snapshot

LEMMA SeqInto ==
  ASSUME NEW S, NEW T, NEW st \in Seq(T), \A j \in 1 .. Len(st) : st[j] \in S
  PROVE  st \in Seq(S)
<1> DEFINE m == Len(st)
<1>1. m \in Nat /\ st \in [1 .. m -> T]
  BY LenProperties
<1>2. st \in [1 .. m -> S]
  BY <1>1
<1> HIDE DEF m
<1> QED
  BY <1>1, <1>2, SeqDef

(* The file of a World, and what is restored of it. *)
LEMMA SavedIsFile ==
  ASSUME NEW w, IsTable(w), NEW st \in Seq(Index), ChainOf(w, st)
  PROVE  /\ IsFile(Snapshot(w), w.count)
         /\ Snapshot(w).free_list = st
         /\ \A i \in 0 .. w.count - 1 :
              /\ Snapshot(w).slots[i].generation = w.slots[i].generation
              /\ Snapshot(w).slots[i].immutable = (w.slots[i].alive /\ w.slots[i].immutable)
<1> DEFINE s == Snapshot(w)
           n == w.count
<1>1. FreeList(w) = st
  BY WalkFindsChain
<1>2. /\ s.slots = [i \in 0 .. n - 1 |-> [generation |-> w.slots[i].generation,
                                          immutable |-> w.slots[i].alive /\ w.slots[i].immutable]]
      /\ s.free_list = st
  BY <1>1 DEF Snapshot
<1> HIDE DEF s
<1>3. ASSUME NEW i \in 0 .. n - 1
      PROVE  /\ s.slots[i].generation = w.slots[i].generation
             /\ s.slots[i].immutable = (w.slots[i].alive /\ w.slots[i].immutable)
             /\ s.slots[i] \in FileSlot
  <2>1. w.slots[i] \in EntitySlot
    BY DEF IsTable
  <2>2. s.slots[i] = [generation |-> w.slots[i].generation,
                      immutable |-> w.slots[i].alive /\ w.slots[i].immutable]
    BY <1>2
  <2> QED
    BY <2>1, <2>2 DEF EntitySlot, FileSlot
<1>4. s.slots \in [0 .. n - 1 -> FileSlot]
  BY <1>2, <1>3
<1>5. st \in Seq(0 .. n - 1)
  <2>1. \A j \in 1 .. Len(st) : st[j] \in 0 .. n - 1
    BY ChainCount DEF DeadSlots
  <2> QED
    BY <2>1, SeqInto
<1>6. IsFile(s, n)
  <2>1. n \in 0 .. MaxSlots
    BY DEF IsTable
  <2>2. \A j, k \in 1 .. Len(st) : st[j] = st[k] => j = k
    BY DEF ChainOf
  <2> QED
    BY <1>2, <1>4, <1>5, <2>1, <2>2 DEF IsFile
<1> QED
  BY <1>2, <1>3, <1>6 DEF s

LEMMA RestoredKeeps ==
  ASSUME NEW w, IsTable(w), NEW st \in Seq(Index), ChainOf(w, st)
  PROVE  IsTable(Restore(Snapshot(w))) /\ Kept(Restore(Snapshot(w)), w)
<1> DEFINE s == Snapshot(w)
           t == Restore(s)
           n == w.count
<1>1. /\ IsFile(s, n) /\ s.free_list = st
      /\ \A i \in 0 .. n - 1 : /\ s.slots[i].generation = w.slots[i].generation
                               /\ s.slots[i].immutable = (w.slots[i].alive /\ w.slots[i].immutable)
  BY SavedIsFile
<1> HIDE DEF s
<1>2. /\ IsTable(t) /\ t.count = n /\ t.slots = [i \in 0 .. n - 1 |-> RestoredSlot(s, i)]
      /\ ChainOf(t, st)
  BY <1>1, RestoredTable
<1> HIDE DEF t
<1>3. SameHead(t, w)
  <2>1. t.has_free \in BOOLEAN /\ w.has_free \in BOOLEAN
    BY <1>2 DEF IsTable
  <2>2. t.has_free = w.has_free
    BY <1>2, <2>1 DEF ChainOf
  <2>3. w.has_free => t.first_free = w.first_free
    BY <1>2 DEF ChainOf
  <2> QED
    BY <1>2, <2>2, <2>3 DEF SameHead
<1>4. ASSUME NEW i \in 0 .. n - 1 PROVE SlotKept(t.slots[i], w.slots[i])
  <2>1. t.slots[i] \in EntitySlot /\ w.slots[i] \in EntitySlot /\ t.slots[i] = RestoredSlot(s, i)
    BY <1>2 DEF IsTable
  <2>2. /\ t.slots[i].generation = s.slots[i].generation
        /\ t.slots[i].alive <=> ~(\E j \in 1 .. Len(st) : st[j] = i)
        /\ t.slots[i].alive => t.slots[i].immutable = s.slots[i].immutable
    BY <1>1, <2>1, RestoredSlots
  <2>3. w.slots[i].alive <=> ~(\E j \in 1 .. Len(st) : st[j] = i)
    BY DEF ChainOf
  <2>4. t.slots[i].alive \in BOOLEAN /\ w.slots[i].alive \in BOOLEAN /\ w.slots[i].immutable \in BOOLEAN
    BY <2>1 DEF EntitySlot
  <2>5. t.slots[i].alive = w.slots[i].alive
    BY <2>2, <2>3, <2>4
  <2>6. t.slots[i].alive => t.slots[i].immutable = w.slots[i].immutable
    BY <1>1, <2>2, <2>4, <2>5
  <2>7. ~t.slots[i].alive => t.slots[i].next_free = w.slots[i].next_free
    <3> SUFFICES ASSUME ~t.slots[i].alive PROVE t.slots[i].next_free = w.slots[i].next_free
      OBVIOUS
    <3>1. PICK j \in 1 .. Len(st) : st[j] = i
      BY <2>2
    <3>2. t.slots[st[j]].next_free = IF j = Len(st) THEN st[j] ELSE st[j + 1]
      BY <1>2 DEF ChainOf
    <3>3. w.slots[st[j]].next_free = IF j = Len(st) THEN st[j] ELSE st[j + 1]
      BY DEF ChainOf
    <3> QED
      BY <3>1, <3>2, <3>3
  <2>8. t.slots[i].generation = w.slots[i].generation
    BY <1>1, <2>2
  <2> QED
    BY <2>5, <2>6, <2>7, <2>8 DEF SlotKept
<1> QED
  BY <1>2, <1>3, <1>4 DEF Kept, t, s

(* Finalising one entity more keeps the slots. *)
LEMMA FinaliseKeeps ==
  ASSUME NEW t, NEW w, IsTable(t), IsTable(w), Kept(t, w), NEW id \in EntityID
  PROVE  IsTable(Finalise(t, id)) /\ Kept(Finalise(t, id), w)
<1>1. CASE IsReserved(t, id)
  <2> DEFINE i == id.index
             a == [t.slots[i] EXCEPT !.finalised = TRUE]
             u == WithSlot(t, i, a)
  <2>1. t.count = w.count /\ t.count \in Nat /\ i \in Nat /\ i < t.count
    BY <1>1, TableAssumption DEF Kept, SameHead, IsTable, EntityID, Index, IsReserved, Holds
  <2>2. i \in 0 .. t.count - 1 /\ t.slots[i] \in EntitySlot /\ t.slots \in [0 .. t.count - 1 -> EntitySlot]
    BY <2>1 DEF IsTable
  <2>3. a \in EntitySlot /\ SlotKept(a, t.slots[i])
    BY <2>2 DEF EntitySlot, SlotKept
  <2> HIDE DEF a
  <2>4. /\ IsTable(u) /\ u.count = t.count /\ u.has_free = t.has_free
        /\ u.first_free = t.first_free /\ u.slots = [t.slots EXCEPT ![i] = a]
    BY <2>2, <2>3, WithSlotFacts
  <2>5. Finalise(t, id) = u
    BY <1>1 DEF Finalise, a
  <2> HIDE DEF u
  <2>6. ASSUME NEW k \in 0 .. w.count - 1 PROVE SlotKept(u.slots[k], w.slots[k])
    <3>1. SlotKept(t.slots[k], w.slots[k])
      BY DEF Kept
    <3>2. CASE k = i
      <4>1. u.slots[k] = a /\ SlotKept(a, t.slots[k])
        BY <2>2, <2>3, <2>4, <3>2
      <4> QED
        BY <3>1, <4>1 DEF SlotKept
    <3>3. CASE k # i
      BY <2>1, <2>2, <2>4, <3>1, <3>3
    <3> QED
      BY <3>2, <3>3
  <2> QED
    BY <2>4, <2>5, <2>6 DEF Kept, SameHead
<1>2. CASE ~IsReserved(t, id)
  BY <1>2 DEF Finalise
<1> QED
  BY <1>1, <1>2

(* A damaged file that is accepted makes a sound table too. *)
LEMMA DamagedSound ==
  ASSUME NEW w, IsTable(w), NEW st \in Seq(Index), ChainOf(w, st),
         NEW s \in Damaged(Snapshot(w)), SnapshotValid(s)
  PROVE  /\ IsTable(Restore(s))
         /\ FreeList(Restore(s)) \in Seq(Index)
         /\ ChainOf(Restore(s), FreeList(Restore(s)))
<1> DEFINE f == Snapshot(w)
           n == w.count
<1>1. /\ IsFile(f, n) /\ f.free_list = st
      /\ f = [slots |-> f.slots, free_list |-> f.free_list]
  BY SavedIsFile DEF Snapshot
<1> HIDE DEF f
<1>2. IsFile(s, n)
  <2>1. CASE \E i \in 0 .. MaxSlots : s = [f EXCEPT !.free_list = Append(@, i)]
    <3>1. PICK i \in 0 .. MaxSlots : s = [f EXCEPT !.free_list = Append(@, i)]
      BY <2>1
    <3>2. s.slots = f.slots /\ s.free_list = Append(st, i)
      BY <1>1, <3>1
    <3>3. Append(st, i) \in Seq(Nat)
      <4>1. st \in Seq(Nat) /\ i \in Nat
        <5>1. Index \subseteq Nat /\ i \in Nat
          BY TableAssumption DEF Index
        <5> QED
          BY <5>1, SeqMonotonic
      <4> QED
        BY <4>1
    <3>4. DOMAIN s.slots = 0 .. n - 1 /\ s.slots \in [0 .. n - 1 -> FileSlot] /\ n \in 0 .. MaxSlots
      BY <1>1, <3>2 DEF IsFile
    <3>5. DOMAIN s.free_list = 1 .. Len(s.free_list)
      BY <3>2, <3>3
    <3>6. /\ \A j \in 1 .. Len(s.free_list) : s.free_list[j] \in 0 .. n - 1
          /\ \A j, k \in 1 .. Len(s.free_list) : s.free_list[j] = s.free_list[k] => j = k
      BY <3>4, <3>5 DEF SnapshotValid
    <3>7. s.free_list \in Seq(0 .. n - 1)
      BY <3>2, <3>3, <3>6, SeqInto
    <3> QED
      BY <3>4, <3>6, <3>7 DEF IsFile
  <2>2. CASE \E i \in DOMAIN f.slots, g \in {0, GenMax + 1} : s = [f EXCEPT !.slots[i].generation = g]
    <3>1. PICK i \in DOMAIN f.slots, g \in {0, GenMax + 1} : s = [f EXCEPT !.slots[i].generation = g]
      BY <2>2
    <3>2. f.slots \in [0 .. n - 1 -> FileSlot] /\ i \in 0 .. n - 1
      BY <1>1, <3>1 DEF IsFile
    <3>3. f.slots[i] \in FileSlot
      BY <3>2
    <3>4. s.slots = [f.slots EXCEPT ![i] = [f.slots[i] EXCEPT !.generation = g]]
      BY <1>1, <3>1
    <3>5. i \in DOMAIN s.slots /\ s.slots[i] = [f.slots[i] EXCEPT !.generation = g]
      BY <3>2, <3>4
    <3>6. s.slots[i].generation = g
      BY <3>3, <3>5 DEF FileSlot
    <3>7. g \notin Generation
      BY <3>1, TableAssumption DEF Generation
    <3> QED
      BY <3>5, <3>6, <3>7 DEF SnapshotValid
  <2> QED
    BY <2>1, <2>2 DEF Damaged, f
<1>3. /\ IsTable(Restore(s)) /\ s.free_list \in Seq(Index) /\ ChainOf(Restore(s), s.free_list)
  BY <1>2, RestoredTable
<1>4. FreeList(Restore(s)) = s.free_list
  BY <1>3, WalkFindsChain
<1> QED
  BY <1>3, <1>4

-----------------------------------------------------------------------------
(* What the World offers to the lemmas above. *)
LEMMA WorldFacts ==
  ASSUME IInv
  PROVE  /\ IsTable(world) /\ stack \in Seq(Index) /\ ChainOf(world, stack)
         /\ world.has_free => (world.first_free \in 0 .. world.count - 1 /\ ~world.slots[world.first_free].alive)
         /\ Room => world.has_free \/ world.count < MaxSlots
<1>1. ChainOf(world, stack)
  BY DEF IInv, FreeChain, ChainOf
<1>2. IsTable(world) /\ stack \in Seq(Index)
  BY DEF IInv, TypeOK
<1> QED
  BY <1>1, <1>2, PopFacts DEF Room

(* In a call both Worlds get, the twin follows or does not exist yet. *)
LEMMA BothKeep ==
  ASSUME TwinInv, mode \in {"run", "both"}, UNCHANGED <<saved, mode>>,
         mode # "both" => twin' = twin,
         mode = "both" => IsTable(twin') /\ Alike(twin', world')
  PROVE  TwinInv'
BY DEF TwinInv

LEMMA IdentityStepIsSlotStep == [IdentityNext]_identityVars => [SlotNext]_slotVars
<1> SUFFICES ASSUME [IdentityNext]_identityVars PROVE [SlotNext]_slotVars
  OBVIOUS
<1>1. ASSUME NEW imm \in BOOLEAN, BothCreate(imm) PROVE SlotNext
  BY <1>1 DEF BothCreate, SlotNext
<1>2. ASSUME NEW imm \in BOOLEAN, BothRecord(imm) PROVE SlotNext
  BY <1>2 DEF BothRecord, SlotNext
<1>3. ASSUME NEW op \in queued, BothApply(op) PROVE SlotNext
  BY <1>3 DEF BothApply, SlotNext
<1>4. ASSUME NEW op \in queued, BothDiscard(op) PROVE SlotNext
  BY <1>4 DEF BothDiscard, SlotNext
<1>5. ASSUME NEW id \in EntityID, BothDestroy(id) PROVE SlotNext
  BY <1>5 DEF BothDestroy, SlotNext
<1>6. CASE BothTick
  BY <1>6 DEF BothTick, SlotNext
<1>7. CASE SnapshotIdentity
  BY <1>7 DEF SnapshotIdentity
<1>8. CASE RestoreIdentity
  BY <1>8 DEF RestoreIdentity
<1>9. CASE RestoreDamaged
  BY <1>9 DEF RestoreDamaged
<1>10. ASSUME NEW id \in EntityID, RestoreEntity(id) PROVE UNCHANGED slotVars
  BY <1>10 DEF RestoreEntity
<1>11. CASE FinishLoad
  BY <1>11 DEF FinishLoad
<1>12. CASE UNCHANGED identityVars
  BY <1>12 DEF identityVars
<1> QED
  BY <1>1, <1>2, <1>3, <1>4, <1>5, <1>6, <1>7, <1>8, <1>9, <1>10, <1>11, <1>12 DEF IdentityNext

LEMMA TwinKept == IdentityInv /\ [IdentityNext]_identityVars => TwinInv'
<1> SUFFICES ASSUME IInv, TwinInv, [IdentityNext]_identityVars PROVE TwinInv'
  BY DEF IdentityInv
<1>0. /\ IsTable(world) /\ stack \in Seq(Index) /\ ChainOf(world, stack)
      /\ world.has_free => (world.first_free \in 0 .. world.count - 1 /\ ~world.slots[world.first_free].alive)
      /\ Room => world.has_free \/ world.count < MaxSlots
      /\ queued \subseteq CreateOp
  BY WorldFacts DEF IInv, TypeOK
<1>a. mode = "both" => IsTable(twin) /\ Alike(twin, world)
  BY DEF TwinInv
<1>1. ASSUME NEW imm \in BOOLEAN, BothCreate(imm) PROVE TwinInv'
  <2>1. /\ mode \in {"run", "both"} /\ UNCHANGED <<saved, mode>> /\ Room /\ world' = Create(world, imm)
        /\ mode # "both" => twin' = twin
        /\ mode = "both" => twin' = Create(twin, imm)
    BY <1>1 DEF BothCreate, CreateEntity, Lockstep
  <2>2. mode = "both" => IsTable(twin') /\ Alike(twin', world')
    BY <1>0, <1>a, <2>1, CreateAlike
  <2> QED
    BY <2>1, <2>2, BothKeep
<1>2. ASSUME NEW imm \in BOOLEAN, BothRecord(imm) PROVE TwinInv'
  <2>1. /\ mode \in {"run", "both"} /\ UNCHANGED <<saved, mode>> /\ Room /\ world' = Reserve(world)
        /\ mode # "both" => twin' = twin
        /\ mode = "both" => twin' = Reserve(twin)
    BY <1>2 DEF BothRecord, RecordCreate, Lockstep
  <2>2. mode = "both" => IsTable(twin') /\ Alike(twin', world')
    BY <1>0, <1>a, <2>1, CreateAlike
  <2> QED
    BY <2>1, <2>2, BothKeep
<1>3. ASSUME NEW op \in queued, BothApply(op) PROVE TwinInv'
  <2>1. /\ mode \in {"run", "both"} /\ UNCHANGED <<saved, mode>>
        /\ world' = FinaliseAndStamp(world, op.id, op.immutable)
        /\ mode # "both" => twin' = twin
        /\ mode = "both" => twin' = FinaliseAndStamp(twin, op.id, op.immutable)
    BY <1>3 DEF BothApply, ApplyCreate, Lockstep
  <2>2. op.id \in EntityID /\ op.immutable \in BOOLEAN
    BY <1>0, <1>3 DEF CreateOp
  <2>3. mode = "both" => IsTable(twin') /\ Alike(twin', world')
    BY <1>0, <1>a, <2>1, <2>2, StampAlike
  <2> QED
    BY <2>1, <2>3, BothKeep
<1>4. ASSUME NEW op \in queued, BothDiscard(op) PROVE TwinInv'
  <2>1. mode \in {"run", "both"} /\ UNCHANGED <<saved, mode, world>> /\ twin' = twin
    BY <1>4 DEF BothDiscard, DiscardCreate, Lockstep
  <2> QED
    BY <1>a, <2>1, BothKeep
<1>5. ASSUME NEW id \in EntityID, BothDestroy(id) PROVE TwinInv'
  <2>1. /\ mode \in {"run", "both"} /\ UNCHANGED <<saved, mode>>
        /\ Holds(world, id) /\ world' = Destroy(world, id)
        /\ mode # "both" => twin' = twin
        /\ mode = "both" => twin' = Destroy(twin, id)
    BY <1>5 DEF BothDestroy, DestroyEntity, Lockstep
  <2>2. mode = "both" => IsTable(twin') /\ Alike(twin', world')
    BY <1>0, <1>a, <2>1, DestroyAlike
  <2> QED
    BY <2>1, <2>2, BothKeep
<1>6. CASE BothTick
  <2>1. mode \in {"run", "both"} /\ UNCHANGED <<saved, mode, world>> /\ twin' = twin
    BY <1>6 DEF BothTick, TickPhase, Lockstep
  <2> QED
    BY <1>a, <2>1, BothKeep
<1>7. CASE SnapshotIdentity
  <2>1. /\ mode = "run" /\ mode' = "saved" /\ UNCHANGED <<world, twin>>
        /\ SnapshotAccepted(world) /\ saved' = Snapshot(world)
    BY <1>7 DEF SnapshotIdentity, slotVars
  <2>2. Unfinalised(world) = {} /\ twin = EmptyTable
    BY <2>1 DEF SnapshotAccepted, TwinInv
  <2>3. Unfinalised(world)' = {} /\ saved' = Snapshot(world)' /\ twin' = EmptyTable
    BY <2>1, <2>2 DEF Unfinalised
  <2> QED
    BY <2>1, <2>3 DEF TwinInv
<1>8. CASE RestoreIdentity
  <2>1. mode = "saved" /\ mode' = "loading" /\ UNCHANGED <<world, saved>> /\ twin' = Restore(saved)
    BY <1>8 DEF RestoreIdentity, slotVars
  <2>2. saved = Snapshot(world) /\ Unfinalised(world) = {}
    BY <2>1 DEF TwinInv
  <2>3. IsTable(twin') /\ Kept(twin', world)
    BY <1>0, <2>1, <2>2, RestoredKeeps
  <2> QED
    BY <2>1, <2>2, <2>3 DEF TwinInv
<1>9. CASE RestoreDamaged
  <2>1. mode = "saved" /\ mode' = "damaged" /\ \E s \in Damaged(saved) : SnapshotValid(s) /\ twin' = Restore(s)
    BY <1>9 DEF RestoreDamaged
  <2>2. saved = Snapshot(world)
    BY <2>1 DEF TwinInv
  <2>3. PICK s \in Damaged(Snapshot(world)) : SnapshotValid(s) /\ twin' = Restore(s)
    BY <2>1, <2>2
  <2>4. IsTable(twin') /\ FreeList(twin') \in Seq(Index) /\ ChainOf(twin', FreeList(twin'))
    BY <1>0, <2>3, DamagedSound
  <2> QED
    BY <2>1, <2>4 DEF TwinInv
<1>10. ASSUME NEW id \in EntityID, RestoreEntity(id) PROVE TwinInv'
  <2>1. mode = "loading" /\ UNCHANGED <<world, saved, mode>> /\ twin' = Finalise(twin, id)
    BY <1>10 DEF RestoreEntity, slotVars
  <2>2. IsTable(twin) /\ Kept(twin, world) /\ saved = Snapshot(world) /\ Unfinalised(world) = {}
    BY <2>1 DEF TwinInv
  <2>3. IsTable(twin') /\ Kept(twin', world)
    BY <1>0, <2>1, <2>2, FinaliseKeeps
  <2> QED
    BY <2>1, <2>2, <2>3 DEF TwinInv
<1>11. CASE FinishLoad
  <2>1. mode = "loading" /\ mode' = "both" /\ Unfinalised(twin) = {} /\ UNCHANGED <<world, twin>>
    BY <1>11 DEF FinishLoad, slotVars
  <2>2. IsTable(twin) /\ Kept(twin, world) /\ Unfinalised(world) = {}
    BY <2>1 DEF TwinInv
  <2>3. Alike(twin, world)
    BY <1>0, <2>1, <2>2, LoadedAlike
  <2> QED
    BY <2>1, <2>2, <2>3 DEF TwinInv
<1>12. CASE UNCHANGED identityVars
  BY <1>12 DEF identityVars, slotVars, TwinInv
<1> QED
  BY <1>1, <1>2, <1>3, <1>4, <1>5, <1>6, <1>7, <1>8, <1>9, <1>10, <1>11, <1>12 DEF IdentityNext

(* The inductive invariant of saving and loading, for every number of      *)
(* slots and generations: the loaded World keeps, slot by slot, what the   *)
(* World that never saved has (snapshot_identity, restore_identity,        *)
(* restore_entity).                                                        *)
THEOREM IdentityInductive == IdentitySpec => []IdentityInv
<1>1. IdentityInit => IdentityInv
  <2> SUFFICES ASSUME IdentityInit PROVE IdentityInv
    OBVIOUS
  <2>1. IInv
    BY SlotInitIInv DEF IdentityInit
  <2>2. TwinInv
    BY DEF IdentityInit, TwinInv
  <2> QED
    BY <2>1, <2>2 DEF IdentityInv
<1>2. IdentityInv /\ [IdentityNext]_identityVars => IdentityInv'
  BY TwinKept, IdentityStepIsSlotStep, SlotNextIInv DEF IdentityInv
<1> QED
  BY <1>1, <1>2, PTL DEF IdentitySpec

(* The restored run and the run that never saved give out the same         *)
(* EntityIDs and answer the same to every handle, whatever is called.      *)
THEOREM TwinNeverDiverges == IdentitySpec => []TwinAgrees
<1>1. IdentityInv => TwinAgrees
  <2> SUFFICES ASSUME IInv, TwinInv, mode = "both"
               PROVE  /\ Room => NextId(twin) = NextId(world)
                      /\ \A id \in EntityID : /\ IsAlive(twin, id) = IsAlive(world, id)
                                              /\ IsReserved(twin, id) = IsReserved(world, id)
                                              /\ IsImmutable(twin, id) = IsImmutable(world, id)
    BY DEF IdentityInv, TwinAgrees
  <2>1. /\ IsTable(twin) /\ Alike(twin, world) /\ IsTable(world)
        /\ world.has_free => (world.first_free \in 0 .. world.count - 1 /\ ~world.slots[world.first_free].alive)
        /\ Room => world.has_free \/ world.count < MaxSlots
    BY WorldFacts DEF TwinInv
  <2>2. Room => NextId(twin) = NextId(world)
    BY <2>1, CreateAlike
  <2> QED
    BY <2>1, <2>2, HandlesAlike
<1> QED
  BY <1>1, IdentityInductive, PTL

(* snapshot_identity never refuses a World without reservations, and what  *)
(* restore_identity accepts, damaged or not, has a sound chain.            *)
THEOREM SavesAreAccepted == IdentitySpec => []AlwaysSaveable
<1>1. IdentityInv => AlwaysSaveable
  <2> SUFFICES ASSUME IInv, TwinInv PROVE AlwaysSaveable
    BY DEF IdentityInv
  <2>1. IsTable(world) /\ stack \in Seq(Index) /\ ChainOf(world, stack)
    BY WorldFacts
  <2>2. phase = "idle" /\ Unfinalised(world) = {} => SnapshotAccepted(world)
    BY <2>1, WalkFindsChain DEF SnapshotAccepted
  <2>3. ASSUME NEW t, IsTable(t), NEW st \in Seq(Index), ChainOf(t, st)
        PROVE  /\ ChainIntact(t)
               /\ Len(FreeList(t)) = Cardinality(DeadSlots(t))
               /\ \A i \in 0 .. t.count - 1 : t.slots[i].generation \in Generation
    <3>1. \A i \in 0 .. t.count - 1 : t.slots[i].generation \in Generation
      BY <2>3 DEF IsTable, EntitySlot
    <3> QED
      BY <2>3, <3>1, WalkFindsChain
  <2>4. CASE mode = "saved"
    <3>1. twin = EmptyTable /\ IsTable(EmptyTable) /\ ChainOf(EmptyTable, <<>>) /\ <<>> \in Seq(Index)
      BY <2>4, EmptyChain DEF TwinInv
    <3> QED
      BY <2>2, <2>3, <3>1 DEF AlwaysSaveable
  <2>5. CASE mode \in {"loading", "both"}
    <3>1. IsTable(twin) /\ Kept(twin, world)
      BY <2>5, AlikeKeeps DEF TwinInv
    <3>2. ChainOf(twin, stack)
      BY <2>1, <3>1, KeptChain
    <3> QED
      BY <2>1, <2>2, <2>3, <3>1, <3>2 DEF AlwaysSaveable
  <2>6. CASE mode = "damaged"
    <3>1. IsTable(twin) /\ FreeList(twin) \in Seq(Index) /\ ChainOf(twin, FreeList(twin))
      BY <2>6 DEF TwinInv
    <3> QED
      BY <2>2, <2>3, <3>1 DEF AlwaysSaveable
  <2>7. CASE mode = "run"
    BY <2>2, <2>7 DEF AlwaysSaveable
  <2> QED
    BY <2>4, <2>5, <2>6, <2>7 DEF TwinInv
<1> QED
  BY <1>1, IdentityInductive, PTL

(* Saving what was loaded gives the file it was loaded from.               *)
THEOREM SavesRoundTrip == IdentitySpec => RoundTrip
<1>1. IdentityInv /\ [IdentityNext]_identityVars
        => (mode = "loading" /\ mode' = "both" => SnapshotAccepted(twin) /\ Snapshot(twin) = saved)
  <2> SUFFICES ASSUME IInv, TwinInv, [IdentityNext]_identityVars, mode = "loading", mode' = "both"
               PROVE  SnapshotAccepted(twin) /\ Snapshot(twin) = saved
    BY DEF IdentityInv
  <2>1. FinishLoad
    <3>1. ASSUME NEW imm \in BOOLEAN PROVE ~BothCreate(imm) /\ ~BothRecord(imm)
      BY DEF BothCreate, BothRecord, Lockstep
    <3>2. ASSUME NEW op \in queued PROVE ~BothApply(op) /\ ~BothDiscard(op)
      BY DEF BothApply, BothDiscard, Lockstep
    <3>3. ASSUME NEW id \in EntityID PROVE ~BothDestroy(id) /\ ~RestoreEntity(id)
      BY DEF BothDestroy, RestoreEntity, Lockstep
    <3>4. ~BothTick /\ ~SnapshotIdentity /\ ~RestoreIdentity /\ ~RestoreDamaged /\ ~UNCHANGED identityVars
      BY DEF BothTick, Lockstep, SnapshotIdentity, RestoreIdentity, RestoreDamaged, identityVars
    <3> QED
      BY <3>1, <3>2, <3>3, <3>4 DEF IdentityNext
  <2>2. /\ IsTable(world) /\ stack \in Seq(Index) /\ ChainOf(world, stack)
        /\ IsTable(twin) /\ Kept(twin, world) /\ saved = Snapshot(world)
    BY WorldFacts DEF TwinInv
  <2>3. ChainOf(twin, stack)
    BY <2>2, KeptChain
  <2>4. SnapshotAccepted(twin)
    <3>1. Unfinalised(twin) = {}
      BY <2>1 DEF FinishLoad
    <3> QED
      BY <2>2, <2>3, <3>1, WalkFindsChain DEF SnapshotAccepted
  <2> QED
    BY <2>2, <2>4, KeptSaves
<1> QED
  BY <1>1, IdentityInductive, PTL DEF IdentitySpec, RoundTrip
=============================================================================
