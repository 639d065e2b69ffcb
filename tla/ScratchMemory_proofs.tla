-------------------------- MODULE ScratchMemory_proofs --------------------------
(***************************************************************************)
(* Proofs about the scratch memory, for any number of filters, tensors and *)
(* sizes: as long as no allocation fails while other filters hold scratch  *)
(* buffers, every tensor points into memory that is allocated, the one     *)
(* block is as large as the largest network needs and no larger, and       *)
(* nothing is used after it has been freed.                                *)
(***************************************************************************)
EXTENDS ScratchMemory, WellFoundedInduction, TLAPS

\* Memory does not run out when a scratch buffer is made next to others
\* (the run scratch_nomem shows what happens if it does).
GrowsSafely == "attach" \notin FailsIn

\* There is always a block nothing points to: the blocks of the heap are many.
EnoughBlocks == \A b \in Blocks \cup {Null} : \E c \in Blocks : c # b

\* The filters with a scratch buffer are those in the set of the manager, which
\* has no other members.
Registered ==
  /\ ~dangling
  /\ \A f \in Filters : f \in attached <=> local[f] # 0
  /\ \A f \in Filters : local[f] = 0 => DOMAIN view[f] = {}

\* The buffer has the size of the largest.
Fitting ==
  /\ \A f \in Filters : local[f] <= bytes
  /\ bytes # 0 => \E f \in Filters : local[f] = bytes

\* There is one block, and everything points to it.
OneBlock ==
  /\ ptr = Null <=> bytes = 0
  /\ heap = {ptr} \ {Null}
  /\ \A f \in Filters : \A t \in DOMAIN view[f] : view[f][t] = ptr

ScratchInv ==
  TypeOK /\ Registered /\ Fitting /\ OneBlock /\ MemorySafe
-------------------------------------------------------------------------------
\* A set of natural numbers has a least one.
LEMMA WellOrdered ==
  ASSUME NEW S \in SUBSET Nat, S # {}
  PROVE  \E m \in S : \A n \in S : m <= n
<1>. DEFINE R == OpToRel(<, Nat)
<1>1. \A x, y \in Nat : <<x, y>> \in R <=> x < y
  BY DEF OpToRel
<1>2. IsWellFoundedOn(R, Nat)
  BY NatLessThanWellFounded
<1>. HIDE DEF R
<1>3. PICK m \in S : \A n \in S : ~ (<<n, m>> \in R)
  BY <1>2, WFMin
<1>4. \A n \in S : n \in Nat /\ m \in Nat /\ ~ (n < m)
  BY <1>1, <1>3
<1>. QED BY <1>4

\* Sizes that have a bound have a largest one.
LEMMA LargestIs ==
  ASSUME NEW fs \in SUBSET Filters, NEW bound \in Nat,
         \A g \in fs : local[g] \in Nat /\ local[g] <= bound
  PROVE  /\ Largest(fs) \in {local[g] : g \in fs} \cup {0}
         /\ Largest(fs) \in Nat
         /\ \A g \in fs : local[g] <= Largest(fs)
<1>. DEFINE S == {n \in Nat : \A g \in fs : local[g] <= n}
<1>1. PICK m \in S : \A n \in S : m <= n
  <2>1. bound \in S /\ S \in SUBSET Nat
    OBVIOUS
  <2>. HIDE DEF S
  <2>. QED BY <2>1, WellOrdered
<1>2. m \in Nat /\ \A g \in fs : local[g] <= m
  BY <1>1
<1>3. m = 0 \/ \E g \in fs : local[g] = m
  <2>1. SUFFICES ASSUME m # 0, \A g \in fs : local[g] # m PROVE FALSE
    OBVIOUS
  <2>2. m - 1 \in Nat /\ \A g \in fs : local[g] <= m - 1
    BY <1>2, <2>1
  <2>3. ~ (m <= m - 1)
    BY <1>2
  <2>. QED BY <1>1, <2>2, <2>3
<1>4. m \in {local[g] : g \in fs} \cup {0}
  BY <1>3
<1>. HIDE DEF S
<1>. QED BY <1>2, <1>4 DEF Largest

LEMMA Sizes0 ==
  /\ \A n \in Sizes : n \in Nat /\ n > 0
  /\ \A b \in Blocks : b \in Nat /\ b # Null
  /\ Null = 0
<1>1. \A n \in Sizes : n \in Nat /\ n # 0
  BY ScratchAssumption
<1>2. \A n \in Sizes : n > 0
  BY <1>1
<1>3. \A b \in Blocks : b \in Nat /\ b # 0
  BY ScratchAssumption
<1>. QED BY <1>1, <1>2, <1>3 DEF Null

\* A free block can be found.
LEMMA NewBlockIs ==
  ASSUME ScratchInv, EnoughBlocks
  PROVE  NewBlock \in Blocks /\ NewBlock # ptr
<1>1. PICK c \in Blocks : c # ptr
  BY DEF EnoughBlocks, ScratchInv, TypeOK
<1>2. c \in Unused
  BY <1>1 DEF Unused, ScratchInv, OneBlock
<1>. QED BY <1>2 DEF NewBlock, Unused

\* Nothing is freed twice, and no member of the set is gone.
LEMMA WalkSafe == ScratchInv => FreeFault = fault /\ WalkFault = fault
BY DEF ScratchInv, Registered, OneBlock, FreeFault, WalkFault

LEMMA TypeFacts ==
  ASSUME ScratchInv
  PROVE  /\ bytes \in Nat /\ \A f \in Filters : local[f] \in Nat
         /\ \A g \in attached : g \in Filters
BY Sizes0 DEF ScratchInv, TypeOK
-------------------------------------------------------------------------------
\* The buffer moves to a block of n bytes, and everything is told.
LEMMA MoveKeeps ==
  ASSUME ScratchInv, EnoughBlocks, NEW n \in Sizes \cup {0}, Resized(n),
         NEW v, DOMAIN v = Filters,
         \A f \in Filters : DOMAIN v[f] \subseteq DOMAIN view[f],
         view' = Updated(v)
  PROVE  /\ ptr' \in Blocks \cup {Null} /\ bytes' = n /\ heap' \subseteq Blocks
         /\ OneBlock' /\ DOMAIN view' = Filters
         /\ \A f \in Filters : /\ DOMAIN view'[f] = DOMAIN v[f]
                               /\ DOMAIN view'[f] \subseteq Tensors
                               /\ \A t \in DOMAIN view'[f] : view'[f][t] \in Blocks \cup {Null}
<1>1. bytes' = n /\ (ptr' = IF n = 0 THEN Null ELSE NewBlock)
      /\ heap' = (heap \ {ptr}) \cup ({ptr'} \ {Null})
  BY DEF Resized
<1>2. ptr' \in Blocks \cup {Null} /\ (ptr' = Null <=> n = 0)
  BY <1>1, NewBlockIs, Sizes0
<1>3. heap' = {ptr'} \ {Null} /\ heap' \subseteq Blocks
  BY <1>1, <1>2 DEF ScratchInv, OneBlock
<1>4. \A f \in Filters : DOMAIN view'[f] = DOMAIN v[f] /\ \A t \in DOMAIN v[f] : view'[f][t] = ptr'
  BY DEF Updated
<1>5. DOMAIN view' = Filters
  BY DEF Updated
<1>6. OneBlock'
  BY <1>1, <1>2, <1>3, <1>4 DEF OneBlock
<1>. QED BY <1>1, <1>2, <1>3, <1>4, <1>5, <1>6 DEF ScratchInv, TypeOK

LEMMA AttachGrowKeeps ==
  ASSUME ScratchInv, EnoughBlocks, NEW f \in Filters, NEW n \in Sizes, AttachGrow(f, n)
  PROVE  ScratchInv'
<1>1. /\ local[f] = 0 /\ n > bytes /\ attached' = attached \cup {f}
      /\ local' = [local EXCEPT ![f] = n] /\ Resized(n) /\ view' = Updated(view)
      /\ fault' = fault /\ dangling' = dangling
  BY WalkSafe DEF AttachGrow
<1>2. DOMAIN view = Filters
  BY DEF ScratchInv, TypeOK
<1>3. /\ ptr' \in Blocks \cup {Null} /\ bytes' = n /\ heap' \subseteq Blocks
      /\ OneBlock' /\ DOMAIN view' = Filters
      /\ \A g \in Filters : /\ DOMAIN view'[g] = DOMAIN view[g]
                            /\ DOMAIN view'[g] \subseteq Tensors
                            /\ \A t \in DOMAIN view'[g] : view'[g][t] \in Blocks \cup {Null}
  BY <1>1, <1>2, MoveKeeps
<1>4. /\ n \in Nat /\ n > 0 /\ bytes \in Nat
      /\ \A g \in Filters : local[g] \in Nat /\ local'[g] = IF g = f THEN n ELSE local[g]
  BY <1>1, Sizes0, TypeFacts DEF ScratchInv, TypeOK
<1>5. TypeOK'
  BY <1>1, <1>3 DEF ScratchInv, TypeOK
<1>6. Registered'
  BY <1>1, <1>3, <1>4 DEF ScratchInv, Registered
<1>7. Fitting'
  <2>1. \A g \in Filters : local[g] <= n
    BY <1>1, <1>4 DEF ScratchInv, Fitting
  <2>. QED BY <1>3, <1>4, <2>1 DEF Fitting
<1>8. MemorySafe'
  BY <1>1 DEF ScratchInv, MemorySafe
<1>. QED BY <1>3, <1>5, <1>6, <1>7, <1>8 DEF ScratchInv

LEMMA AttachFitsKeeps ==
  ASSUME ScratchInv, NEW f \in Filters, NEW n \in Sizes, AttachFits(f, n)
  PROVE  ScratchInv'
<1>1. /\ local[f] = 0 /\ n <= bytes /\ attached' = attached \cup {f}
      /\ local' = [local EXCEPT ![f] = n]
      /\ UNCHANGED <<dangling, view, ptr, bytes, heap, fault>>
  BY DEF AttachFits
<1>2. /\ n \in Nat /\ n > 0 /\ bytes \in Nat
      /\ \A g \in Filters : local[g] \in Nat /\ local'[g] = IF g = f THEN n ELSE local[g]
  BY <1>1, Sizes0, TypeFacts DEF ScratchInv, TypeOK
<1>3. TypeOK'
  BY <1>1 DEF ScratchInv, TypeOK
<1>4. Registered'
  BY <1>1, <1>2 DEF ScratchInv, Registered
<1>5. Fitting'
  <2>1. \A g \in Filters : local'[g] <= bytes
    BY <1>1, <1>2 DEF ScratchInv, Fitting
  <2>2. PICK g \in Filters : local[g] = bytes
    BY <1>1, <1>2 DEF ScratchInv, Fitting
  <2>3. g # f
    BY <1>1, <1>2, <2>2
  <2>4. local'[g] = bytes
    BY <1>2, <2>2, <2>3
  <2>. QED BY <1>1, <2>1, <2>4 DEF Fitting
<1>6. OneBlock' /\ MemorySafe'
  BY <1>1 DEF ScratchInv, OneBlock, MemorySafe
<1>. QED BY <1>3, <1>4, <1>5, <1>6 DEF ScratchInv

\* The only failure allowed is that of the first scratch buffer, which leaves
\* everything as it was.
LEMMA AttachFailsKeeps ==
  ASSUME ScratchInv, GrowsSafely, NEW f \in Filters, NEW n \in Sizes, AttachFails(f, n)
  PROVE  ScratchInv'
<1>1. attached = {} /\ heap' = heap \ {ptr}
      /\ dangling' = FALSE /\ fault' = fault /\ UNCHANGED <<ptr, bytes, attached, local, view>>
  BY WalkSafe DEF AttachFails, GrowsSafely, ResizeFails, ScratchInv, Registered, TypeOK
<1>2. bytes = 0
  BY <1>1 DEF ScratchInv, Registered, Fitting
<1>3. heap' = heap
  BY <1>1, <1>2 DEF ScratchInv, OneBlock
<1>4. dangling' = dangling
  BY <1>1 DEF ScratchInv, Registered, TypeOK
<1>. QED BY <1>1, <1>3, <1>4 DEF ScratchInv, TypeOK, Registered, Fitting, OneBlock, MemorySafe

LEMMA NewTensorKeeps ==
  ASSUME ScratchInv, NEW f \in Filters, NEW t \in Tensors, NewTensor(f, t)
  PROVE  ScratchInv'
<1>1. /\ local[f] # 0
      /\ view' = [view EXCEPT ![f] = [u \in DOMAIN view[f] \cup {t} |->
                                        IF u = t THEN ptr ELSE view[f][u]]]
      /\ UNCHANGED <<attached, dangling, local, ptr, bytes, heap, fault>>
  BY DEF NewTensor
<1>2. /\ DOMAIN view' = Filters
      /\ \A g \in Filters \ {f} : view'[g] = view[g]
      /\ DOMAIN view'[f] = DOMAIN view[f] \cup {t}
      /\ \A u \in DOMAIN view'[f] : view'[f][u] = IF u = t THEN ptr ELSE view[f][u]
  BY <1>1 DEF ScratchInv, TypeOK
<1>3. \A g \in Filters : \A u \in DOMAIN view'[g] : view'[g][u] = ptr
  BY <1>2 DEF ScratchInv, OneBlock
<1>4. TypeOK'
  BY <1>1, <1>2, <1>3 DEF ScratchInv, TypeOK
<1>5. Registered'
  BY <1>1, <1>2 DEF ScratchInv, Registered
<1>6. Fitting' /\ OneBlock' /\ MemorySafe'
  BY <1>1, <1>3 DEF ScratchInv, Fitting, OneBlock, MemorySafe
<1>. QED BY <1>4, <1>5, <1>6 DEF ScratchInv

\* What is the largest when f goes.
LEMMA RestLargest ==
  ASSUME ScratchInv, NEW f \in Filters
  PROVE  /\ Largest(attached \ {f}) \in Nat /\ Largest(attached \ {f}) \in Sizes \cup {0}
         /\ Largest(attached \ {f}) <= bytes
         /\ \A g \in Filters \ {f} : local[g] <= Largest(attached \ {f})
         /\ Largest(attached \ {f}) # 0 => \E g \in Filters \ {f} : local[g] = Largest(attached \ {f})
<1>. DEFINE fs == attached \ {f}  n == Largest(fs)
<1>1. fs \in SUBSET Filters /\ bytes \in Nat /\ \A g \in Filters : local[g] \in Nat /\ local[g] <= bytes
  BY TypeFacts DEF ScratchInv, Fitting
<1>2. n \in {local[g] : g \in fs} \cup {0} /\ n \in Nat /\ \A g \in fs : local[g] <= n
  <2>. HIDE DEF fs
  <2>. QED BY <1>1, LargestIs
<1>3. n # 0 => \E g \in Filters \ {f} : local[g] = n
  <2>. HIDE DEF n
  <2>. QED BY <1>1, <1>2
<1>4. \A g \in Filters \ {f} : local[g] <= n
  <2>1. ASSUME NEW g \in Filters \ {f}, g \notin fs PROVE local[g] = 0
    BY <2>1 DEF ScratchInv, Registered
  <2>2. \A g \in fs : local[g] <= n
    BY <1>2
  <2>3. n \in Nat /\ 0 <= n
    BY <1>2
  <2>. HIDE DEF n, fs
  <2>. QED BY <2>1, <2>2, <2>3
<1>5. n <= bytes /\ n \in Sizes \cup {0}
  <2>1. CASE n = 0
    BY <1>1, <2>1
  <2>2. CASE n # 0
    <3>. HIDE DEF n
    <3>1. PICK g \in Filters : local[g] = n
      BY <1>3, <2>2
    <3>. QED BY <1>1, <3>1 DEF ScratchInv, TypeOK
  <2>. QED BY <2>1, <2>2
<1>. HIDE DEF n
<1>. QED BY <1>2, <1>3, <1>4, <1>5 DEF n

LEMMA DetachKeepKeeps ==
  ASSUME ScratchInv, NEW f \in Filters, DetachKeep(f)
  PROVE  ScratchInv'
<1>1. /\ local[f] # 0 /\ (local[f] # bytes \/ Largest(attached \ {f}) >= bytes)
      /\ attached' = attached \ {f} /\ local' = [local EXCEPT ![f] = 0]
      /\ view' = [view EXCEPT ![f] = <<>>]
      /\ UNCHANGED <<dangling, ptr, bytes, heap, fault>>
  BY DEF DetachKeep, ScratchInv, Registered
<1>2. /\ DOMAIN view' = Filters /\ DOMAIN view'[f] = {}
      /\ \A g \in Filters \ {f} : view'[g] = view[g]
      /\ \A g \in Filters : local[g] \in Nat /\ local'[g] = IF g = f THEN 0 ELSE local[g]
      /\ bytes \in Nat
  BY <1>1, TypeFacts DEF ScratchInv, TypeOK
<1>3. TypeOK'
  BY <1>1, <1>2 DEF ScratchInv, TypeOK
<1>4. Registered'
  BY <1>1, <1>2 DEF ScratchInv, Registered
<1>5. Fitting'
  <2>1. \A g \in Filters : local'[g] <= bytes
    BY <1>2 DEF ScratchInv, Fitting
  <2>2. ASSUME bytes # 0 PROVE \E g \in Filters \ {f} : local[g] = bytes
    <3>1. PICK g \in Filters : local[g] = bytes
      BY <2>2 DEF ScratchInv, Fitting
    <3>2. CASE local[f] # bytes
      BY <3>1, <3>2
    <3>3. CASE Largest(attached \ {f}) >= bytes
      <4>1. Largest(attached \ {f}) = bytes
        BY <1>2, <3>3, RestLargest
      <4>. QED BY <2>2, <4>1, RestLargest
    <3>. QED BY <1>1, <3>2, <3>3
  <2>. QED BY <1>1, <1>2, <2>1, <2>2 DEF Fitting
<1>6. OneBlock' /\ MemorySafe'
  BY <1>1, <1>2 DEF ScratchInv, OneBlock, MemorySafe
<1>. QED BY <1>3, <1>4, <1>5, <1>6 DEF ScratchInv

LEMMA DetachShrinkKeeps ==
  ASSUME ScratchInv, EnoughBlocks, NEW f \in Filters, DetachShrink(f)
  PROVE  ScratchInv'
<1>. DEFINE n == Largest(attached \ {f})  v == [view EXCEPT ![f] = <<>>]
<1>0. /\ local[f] # 0 /\ attached' = attached \ {f}
      /\ local' = [local EXCEPT ![f] = 0]
      /\ fault' = fault /\ dangling' = dangling /\ view' = Updated(v)
      /\ Resized(Largest(attached'))
  BY WalkSafe DEF DetachShrink, Shrinking
<1>1. /\ n \in Sizes \cup {0} /\ n \in Nat
      /\ \A g \in Filters : local[g] \in Nat /\ local'[g] = IF g = f THEN 0 ELSE local[g]
      /\ \A g \in Filters : local'[g] <= n
      /\ n # 0 => \E g \in Filters : local'[g] = n
  <2>1. \A g \in Filters : local[g] \in Nat /\ local'[g] = IF g = f THEN 0 ELSE local[g]
    BY <1>0, TypeFacts DEF ScratchInv, TypeOK
  <2>2. \A g \in Filters \ {f} : local[g] <= n
    BY RestLargest
  <2>3. n \in Sizes \cup {0} /\ n \in Nat
    BY RestLargest
  <2>4. n # 0 => \E g \in Filters \ {f} : local[g] = n
    BY RestLargest
  <2>. HIDE DEF n
  <2>. QED BY <2>1, <2>2, <2>3, <2>4
<1>2. DOMAIN v = Filters /\ DOMAIN v[f] = {} /\ \A g \in Filters \ {f} : v[g] = view[g]
  BY DEF ScratchInv, TypeOK
<1>3. Resized(n)
  BY <1>0
<1>4. /\ ptr' \in Blocks \cup {Null} /\ bytes' = n /\ heap' \subseteq Blocks
      /\ OneBlock' /\ DOMAIN view' = Filters
      /\ \A g \in Filters : /\ DOMAIN view'[g] = DOMAIN v[g]
                            /\ DOMAIN view'[g] \subseteq Tensors
                            /\ \A t \in DOMAIN view'[g] : view'[g][t] \in Blocks \cup {Null}
  <2>1. \A g \in Filters : DOMAIN v[g] \subseteq DOMAIN view[g]
    BY <1>2
  <2>. HIDE DEF n, v
  <2>. QED BY <1>0, <1>1, <1>2, <1>3, <2>1, MoveKeeps
<1>. HIDE DEF n, v
<1>5. TypeOK'
  BY <1>0, <1>1, <1>4 DEF ScratchInv, TypeOK
<1>6. Registered'
  BY <1>0, <1>1, <1>2, <1>4 DEF ScratchInv, Registered
<1>7. Fitting'
  BY <1>1, <1>4 DEF Fitting
<1>8. MemorySafe'
  BY <1>0 DEF ScratchInv, MemorySafe
<1>. QED BY <1>4, <1>5, <1>6, <1>7, <1>8 DEF ScratchInv

\* The process ends.
LEMMA DetachFailsKeeps ==
  ASSUME ScratchInv, NEW f \in Filters, DetachFails(f)
  PROVE  ScratchInv'
BY DEF DetachFails, ScratchInv, TypeOK, Faults, Registered, Fitting, OneBlock, MemorySafe

LEMMA StutterKeepsScratch == ASSUME ScratchInv, UNCHANGED vars PROVE ScratchInv'
BY DEF vars, ScratchInv, TypeOK, Registered, Fitting, OneBlock, MemorySafe

LEMMA InitScratch == Init => ScratchInv
<1>. SUFFICES ASSUME Init PROVE ScratchInv
  OBVIOUS
<1>1. TypeOK
  <2>1. DOMAIN <<>> = {}
    OBVIOUS
  <2>2. \A f \in Filters : view[f] = <<>>
    BY DEF Init
  <2>3. \A f \in Filters : DOMAIN view[f] = {}
    BY <2>1, <2>2
  <2>. QED BY <2>3 DEF Init, TypeOK, Faults
<1>2. Registered /\ Fitting /\ OneBlock /\ MemorySafe
  BY DEF Init, Registered, Fitting, OneBlock, MemorySafe
<1>. QED BY <1>1, <1>2 DEF ScratchInv

LEMMA NextScratch ==
  ASSUME GrowsSafely, EnoughBlocks, ScratchInv, [Next]_vars
  PROVE  ScratchInv'
<1>1. ASSUME NEW f \in Filters, NEW n \in Sizes,
             AttachGrow(f, n) \/ AttachFails(f, n) \/ AttachFits(f, n)
      PROVE  ScratchInv'
  BY <1>1, AttachGrowKeeps, AttachFailsKeeps, AttachFitsKeeps
<1>2. ASSUME NEW f \in Filters, NEW t \in Tensors, NewTensor(f, t) PROVE ScratchInv'
  BY <1>2, NewTensorKeeps
<1>3. ASSUME NEW f \in Filters, DetachKeep(f) \/ DetachShrink(f) \/ DetachFails(f)
      PROVE  ScratchInv'
  BY <1>3, DetachKeepKeeps, DetachShrinkKeeps, DetachFailsKeeps
<1>4. CASE Next
  BY <1>1, <1>2, <1>3, <1>4 DEF Next
<1>. QED BY <1>4, StutterKeepsScratch

LEMMA ScratchAlways == GrowsSafely /\ EnoughBlocks => (Spec => []ScratchInv)
<1>. SUFFICES ASSUME GrowsSafely, EnoughBlocks PROVE Spec => []ScratchInv
  OBVIOUS
<1>1. Init => ScratchInv
  BY InitScratch
<1>2. ScratchInv /\ [Next]_vars => ScratchInv'
  BY NextScratch
<1>. QED BY <1>1, <1>2, PTL DEF Spec
-------------------------------------------------------------------------------
LEMMA InvPointers == ScratchInv => PointersValid
<1>. SUFFICES ASSUME ScratchInv, NEW f \in Filters, NEW t \in DOMAIN view[f]
              PROVE  view[f][t] \in heap
  BY DEF PointersValid
<1>1. local[f] # 0 /\ view[f][t] = ptr
  BY DEF ScratchInv, Registered, OneBlock
<1>2. bytes # 0
  BY <1>1, TypeFacts DEF ScratchInv, Fitting
<1>. QED BY <1>1, <1>2 DEF ScratchInv, OneBlock

LEMMA InvSize == ScratchInv => AsLargeAsNeeded
<1>. SUFFICES ASSUME ScratchInv PROVE bytes = Largest(Filters)
  BY DEF AsLargeAsNeeded, ScratchInv, OneBlock
<1>1. bytes \in Nat /\ \A g \in Filters : local[g] \in Nat /\ local[g] <= bytes
  BY TypeFacts DEF ScratchInv, Fitting
<1>. DEFINE n == Largest(Filters)
<1>2. n \in {local[g] : g \in Filters} \cup {0} /\ n \in Nat /\ \A g \in Filters : local[g] <= n
  BY <1>1, LargestIs
<1>. HIDE DEF n
<1>3. n <= bytes
  BY <1>1, <1>2
<1>4. bytes <= n
  BY <1>1, <1>2 DEF ScratchInv, Fitting
<1>5. n = bytes
  BY <1>1, <1>2, <1>3, <1>4
<1>. QED BY <1>5 DEF n

\* Every tensor of every filter points into allocated memory, whatever the other
\* filters do to the buffer (scratch.cpp:43-53).
THEOREM PointersAreValid == GrowsSafely /\ EnoughBlocks => (Spec => []PointersValid)
<1>. SUFFICES ASSUME GrowsSafely, EnoughBlocks PROVE Spec => []PointersValid
  OBVIOUS
<1>. QED BY ScratchAlways, InvPointers, PTL

\* The buffer is exactly as large as the largest network needs, and there is no
\* other block (scratch.cpp:12-39).
THEOREM SizeIsNeeded == GrowsSafely /\ EnoughBlocks => (Spec => []AsLargeAsNeeded)
<1>. SUFFICES ASSUME GrowsSafely, EnoughBlocks PROVE Spec => []AsLargeAsNeeded
  OBVIOUS
<1>. QED BY ScratchAlways, InvSize, PTL

\* No block is freed twice and no scratch buffer used that is gone (scratch.cpp:12-53,
\* cpu_buffer.h:36-64).
THEOREM MemoryIsSafe == GrowsSafely /\ EnoughBlocks => (Spec => [](TypeOK /\ MemorySafe))
<1>. SUFFICES ASSUME GrowsSafely, EnoughBlocks PROVE Spec => [](TypeOK /\ MemorySafe)
  OBVIOUS
<1>1. ScratchInv => TypeOK /\ MemorySafe
  BY DEF ScratchInv
<1>. QED BY <1>1, ScratchAlways, PTL
===============================================================================
