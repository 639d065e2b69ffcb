--------------------------- MODULE DeviceApi_proofs ----------------------------
(***************************************************************************)
(* Proofs about the API of a device, for any number of threads, buffers,   *)
(* filters, parts of networks, error functions and handles: reference      *)
(* counts are exact, what is in use exists, nothing is left over, and an   *)
(* error function gets the pointer it was registered with.  Only what is   *)
(* said of the device itself needs the user to release it last.            *)
(*                                                                         *)
(* The first part is about references alone: Refs(u, h, I, K, P, S) says   *)
(* that in heap h, with handles u, images I, kept images K, networks P and *)
(* scratch memory S, every count is exact and references are to objects    *)
(* that exist.  A reference on its way from one place to another is for    *)
(* that time counted as a handle.                                          *)
(***************************************************************************)
EXTENDS DeviceApi, FiniteSetTheorems, TLAPS

\* The filters whose image, or kept image, is in buffer b.
Slot(I, b) == {f \in Filters : I[f] = b}

\* The parts of networks that refer to the device, and with the scratch memory.
PartRefs(P) == {x \in Filters \X Parts : x[2] \in P[x[1]]}
NetTotal(P, S) == Cardinality(PartRefs(P)) + (IF \E f \in Filters : S[f] THEN 1 ELSE 0)

\* The share of filter f in them.
Share(f, P, S) ==
  Cardinality(P[f]) + (IF S[f] /\ \A g \in Filters \ {f} : ~S[g] THEN 1 ELSE 0)

RefsType(u, h, I, K, P, S) ==
  /\ h.live \subseteq Objects /\ IsFiniteSet(h.live)
  /\ h.rc \in [Objects -> Nat] /\ u \in [Objects -> Nat]
  /\ I \in [Filters -> Buffers \cup {Nothing}] /\ K \in [Filters -> Buffers \cup {Nothing}]
  /\ P \in [Filters -> SUBSET Parts] /\ S \in [Filters -> BOOLEAN]

RefsCount(u, h, I, K, P, S) ==
  /\ \A f \in Filters : h.rc[f] = u[f]
  /\ \A b \in Buffers : h.rc[b] = u[b] + Cardinality(Slot(I, b)) + Cardinality(Slot(K, b))
  /\ h.rc[Device] = u[Device] + Cardinality(h.live \ {Device}) + NetTotal(P, S)

RefsExist(h, I, K, P, S) ==
  /\ \A o \in Objects : h.rc[o] > 0 => o \in h.live
  /\ Device \in h.live => h.rc[Device] > 0
  /\ \A f \in Filters : I[f] # Nothing \/ K[f] # Nothing \/ P[f] # {} \/ S[f] => f \in h.live

Refs(u, h, I, K, P, S) ==
  RefsType(u, h, I, K, P, S) /\ RefsCount(u, h, I, K, P, S) /\ RefsExist(h, I, K, P, S)

\* The objects, other than the device, that nothing refers to any more.
Dead(h) == {o \in h.live \ {Device} : h.rc[o] = 0}

\* n handles more, or fewer; one reference fewer; another value for filter f.
More(u, o, n) == [u EXCEPT ![o] = u[o] + n]
Fewer(u, o, n) == [u EXCEPT ![o] = u[o] - n]
Less(h, o) == [live |-> h.live, rc |-> [h.rc EXCEPT ![o] = h.rc[o] - 1]]
Without(h, o) == [live |-> h.live \ {o}, rc |-> h.rc]
Put(I, f, x) == [I EXCEPT ![f] = x]

LEMMA Constants ==
  /\ Nothing \notin Threads /\ Nothing \notin Objects /\ Nothing \notin Callbacks
  /\ Device \in Objects /\ Device \notin Buffers /\ Device \notin Filters
  /\ Buffers \subseteq Objects /\ Filters \subseteq Objects
  /\ Buffers \cap Filters = {} /\ Callbacks \cap Objects = {}
  /\ IsFiniteSet(Parts)
BY ApiAssumption DEF Objects

\* All the numbers are numbers.
LEMMA Sizes ==
  ASSUME NEW u, NEW h, NEW I, NEW K, NEW P, NEW S, Refs(u, h, I, K, P, S)
  PROVE  /\ IsFiniteSet(h.live \ {Device}) /\ Cardinality(h.live \ {Device}) \in Nat
         /\ \A b \in Buffers : /\ IsFiniteSet(Slot(I, b)) /\ Cardinality(Slot(I, b)) \in Nat
                               /\ IsFiniteSet(Slot(K, b)) /\ Cardinality(Slot(K, b)) \in Nat
         /\ IsFiniteSet(PartRefs(P)) /\ Cardinality(PartRefs(P)) \in Nat
         /\ NetTotal(P, S) \in Nat
<1>1. IsFiniteSet(h.live)
  BY DEF Refs, RefsType
<1>2. IsFiniteSet(h.live \ {Device})
  BY <1>1, FS_RemoveElement
<1>3. ASSUME NEW b \in Buffers PROVE IsFiniteSet(Slot(I, b)) /\ IsFiniteSet(Slot(K, b))
  <2>1. Slot(I, b) \subseteq h.live /\ Slot(K, b) \subseteq h.live
    BY Constants DEF Refs, RefsExist, Slot
  <2>. QED BY <1>1, <2>1, FS_Subset
<1>4. IsFiniteSet(PartRefs(P))
  <2>1. PartRefs(P) \subseteq h.live \X Parts
    BY DEF Refs, RefsExist, PartRefs
  <2>2. IsFiniteSet(h.live \X Parts)
    BY <1>1, Constants, FS_Product
  <2>. QED BY <2>1, <2>2, FS_Subset
<1>5. NetTotal(P, S) \in Nat
  BY <1>4, FS_CardinalityType DEF NetTotal
<1>. QED BY <1>2, <1>3, <1>4, <1>5, FS_CardinalityType

\* References that there are let the object live.
LEMMA Handle ==
  ASSUME NEW u, NEW h, NEW I, NEW K, NEW P, NEW S, Refs(u, h, I, K, P, S),
         NEW o \in Objects, u[o] > 0
  PROVE  h.rc[o] \in Nat /\ u[o] \in Nat /\ h.rc[o] >= u[o] /\ o \in h.live
<1>1. h.rc[o] \in Nat /\ u[o] \in Nat
  BY DEF Refs, RefsType
<1>2. h.rc[o] >= u[o]
  <2>1. CASE o \in Filters
    BY <1>1, <2>1 DEF Refs, RefsCount
  <2>2. CASE o \in Buffers
    <3>1. h.rc[o] = u[o] + Cardinality(Slot(I, o)) + Cardinality(Slot(K, o))
      BY <2>2 DEF Refs, RefsCount
    <3>2. Cardinality(Slot(I, o)) \in Nat /\ Cardinality(Slot(K, o)) \in Nat
      BY <2>2, Sizes
    <3>. QED BY <1>1, <3>1, <3>2
  <2>3. CASE o = Device
    BY <1>1, <2>3, Sizes DEF Refs, RefsCount
  <2>. QED BY <2>1, <2>2, <2>3 DEF Objects
<1>3. o \in h.live
  BY <1>1, <1>2 DEF Refs, RefsExist
<1>. QED BY <1>1, <1>2, <1>3

\* So does an image.
LEMMA HeldBuffer ==
  ASSUME NEW u, NEW h, NEW I, NEW K, NEW P, NEW S, Refs(u, h, I, K, P, S),
         NEW f \in Filters, I[f] # Nothing
  PROVE  /\ I[f] \in Buffers /\ I[f] \in h.live /\ h.rc[I[f]] > 0
         /\ h.rc[I[f]] > u[I[f]] /\ f \in h.live
<1>1. I[f] \in Buffers /\ I[f] \in Objects /\ f \in h.live
  BY Constants DEF Refs, RefsType, RefsExist
<1>2. f \in Slot(I, I[f])
  BY DEF Slot
<1>3. /\ IsFiniteSet(Slot(I, I[f])) /\ Cardinality(Slot(I, I[f])) \in Nat
      /\ Cardinality(Slot(K, I[f])) \in Nat /\ Cardinality(Slot(I, I[f])) > 0
  <2>1. /\ IsFiniteSet(Slot(I, I[f])) /\ Cardinality(Slot(I, I[f])) \in Nat
        /\ Cardinality(Slot(K, I[f])) \in Nat
    BY <1>1, Sizes
  <2>2. Cardinality(Slot(I, I[f])) # 0
    BY <1>2, <2>1, FS_EmptySet
  <2>. QED BY <2>1, <2>2
<1>4. h.rc[I[f]] \in Nat /\ u[I[f]] \in Nat
  BY <1>1 DEF Refs, RefsType
<1>5. h.rc[I[f]] = u[I[f]] + Cardinality(Slot(I, I[f])) + Cardinality(Slot(K, I[f]))
  BY <1>1 DEF Refs, RefsCount
<1>6. h.rc[I[f]] > u[I[f]]
  BY <1>3, <1>4, <1>5
<1>. QED BY <1>1, <1>4, <1>6, Constants DEF Refs, RefsExist

\* More references to an object that somebody refers to.
LEMMA HoldRefs ==
  ASSUME NEW u, NEW h, NEW I, NEW K, NEW P, NEW S, Refs(u, h, I, K, P, S),
         NEW o \in Objects, h.rc[o] > 0, NEW n \in Nat
  PROVE  /\ Refs(More(u, o, n), Hold(h, o, n), I, K, P, S)
         /\ Dead(Hold(h, o, n)) = Dead(h)
<1>. DEFINE v == More(u, o, n)  g == Hold(h, o, n)
<1>1. /\ g.live = h.live
      /\ \A x \in Objects : g.rc[x] = IF x = o THEN h.rc[o] + n ELSE h.rc[x]
      /\ \A x \in Objects : v[x] = IF x = o THEN u[o] + n ELSE u[x]
      /\ \A x \in Objects : h.rc[x] \in Nat /\ u[x] \in Nat
      /\ g.rc \in [Objects -> Nat] /\ v \in [Objects -> Nat]
  BY Constants DEF Hold, More, Refs, RefsType
<1>. HIDE DEF v, g
<1>2. RefsType(v, g, I, K, P, S)
  BY <1>1 DEF Refs, RefsType
<1>3. ASSUME NEW x \in Objects, NEW k \in Nat, h.rc[x] = u[x] + k PROVE g.rc[x] = v[x] + k
  BY <1>1, <1>3
<1>4. RefsCount(v, g, I, K, P, S)
  <2>1. ASSUME NEW f \in Filters PROVE g.rc[f] = v[f]
    BY <1>1, Constants DEF Refs, RefsCount
  <2>2. ASSUME NEW b \in Buffers
        PROVE  g.rc[b] = v[b] + Cardinality(Slot(I, b)) + Cardinality(Slot(K, b))
    <3>1. h.rc[b] = u[b] + Cardinality(Slot(I, b)) + Cardinality(Slot(K, b)) /\ b \in Objects
      BY Constants DEF Refs, RefsCount
    <3>2. Cardinality(Slot(I, b)) \in Nat /\ Cardinality(Slot(K, b)) \in Nat
      BY Sizes
    <3>. QED BY <1>1, <3>1, <3>2
  <2>3. g.rc[Device] = v[Device] + Cardinality(g.live \ {Device}) + NetTotal(P, S)
    <3>1. h.rc[Device] = u[Device] + Cardinality(h.live \ {Device}) + NetTotal(P, S)
      BY DEF Refs, RefsCount
    <3>2. Cardinality(h.live \ {Device}) \in Nat /\ NetTotal(P, S) \in Nat
      BY Sizes
    <3>. QED BY <1>1, <3>1, <3>2, Constants
  <2>. QED BY <2>1, <2>2, <2>3 DEF RefsCount
<1>5. RefsExist(g, I, K, P, S)
  BY <1>1, Constants DEF Refs, RefsExist
<1>6. Dead(g) = Dead(h)
  BY <1>1 DEF Dead, Refs, RefsType
<1>. QED BY <1>2, <1>4, <1>5, <1>6 DEF Refs, v, g

\* A handle less; an object may be left without references.
LEMMA LessRefs ==
  ASSUME NEW u, NEW h, NEW I, NEW K, NEW P, NEW S, Refs(u, h, I, K, P, S),
         NEW o \in Objects \ {Device}, u[o] > 0
  PROVE  /\ Refs(Fewer(u, o, 1), Less(h, o), I, K, P, S)
         /\ Dead(Less(h, o)) = IF h.rc[o] = 1 THEN Dead(h) \cup {o} ELSE Dead(h)
         /\ o \in h.live /\ o \notin Dead(h)
<1>. DEFINE v == Fewer(u, o, 1)  g == Less(h, o)
<1>0. h.rc[o] > 0 /\ o \in h.live
  BY Handle
<1>1. /\ g.live = h.live
      /\ \A x \in Objects : g.rc[x] = IF x = o THEN h.rc[o] - 1 ELSE h.rc[x]
      /\ \A x \in Objects : v[x] = IF x = o THEN u[o] - 1 ELSE u[x]
      /\ \A x \in Objects : h.rc[x] \in Nat /\ u[x] \in Nat
      /\ g.rc \in [Objects -> Nat] /\ v \in [Objects -> Nat]
  BY <1>0 DEF Less, Fewer, Refs, RefsType
<1>. HIDE DEF v, g
<1>2. RefsType(v, g, I, K, P, S)
  BY <1>1 DEF Refs, RefsType
<1>4. RefsCount(v, g, I, K, P, S)
  <2>1. ASSUME NEW f \in Filters PROVE g.rc[f] = v[f]
    BY <1>1, Constants DEF Refs, RefsCount
  <2>2. ASSUME NEW b \in Buffers
        PROVE  g.rc[b] = v[b] + Cardinality(Slot(I, b)) + Cardinality(Slot(K, b))
    <3>1. h.rc[b] = u[b] + Cardinality(Slot(I, b)) + Cardinality(Slot(K, b)) /\ b \in Objects
      BY Constants DEF Refs, RefsCount
    <3>2. Cardinality(Slot(I, b)) \in Nat /\ Cardinality(Slot(K, b)) \in Nat
      BY Sizes
    <3>. QED BY <1>1, <3>1, <3>2
  <2>3. g.rc[Device] = v[Device] + Cardinality(g.live \ {Device}) + NetTotal(P, S)
    BY <1>1, Constants DEF Refs, RefsCount
  <2>. QED BY <2>1, <2>2, <2>3 DEF RefsCount
<1>5. RefsExist(g, I, K, P, S)
  BY <1>0, <1>1, Constants DEF Refs, RefsExist
<1>6. Dead(g) = IF h.rc[o] = 1 THEN Dead(h) \cup {o} ELSE Dead(h)
  BY <1>0, <1>1 DEF Dead, Refs, RefsType
<1>. QED BY <1>0, <1>2, <1>4, <1>5, <1>6 DEF Refs, v, g, Dead

\* Fewer references to the device, which goes with the last one.
LEMMA DeviceRefs ==
  ASSUME NEW u, NEW h, NEW I, NEW K, NEW P, NEW S, Refs(u, h, I, K, P, S),
         NEW n \in Nat, u[Device] >= n
  PROVE  /\ Refs(Fewer(u, Device, n), LetGoDevice(h, n), I, K, P, S)
         /\ Dead(LetGoDevice(h, n)) = Dead(h)
<1>. DEFINE v == Fewer(u, Device, n)  g == LetGoDevice(h, n)
<1>0. /\ h.rc[Device] = u[Device] + Cardinality(h.live \ {Device}) + NetTotal(P, S)
      /\ Cardinality(h.live \ {Device}) \in Nat /\ NetTotal(P, S) \in Nat
  <2>1. h.rc[Device] = u[Device] + Cardinality(h.live \ {Device}) + NetTotal(P, S)
    BY DEF Refs, RefsCount
  <2>2. Cardinality(h.live \ {Device}) \in Nat /\ NetTotal(P, S) \in Nat
    BY Sizes
  <2>. QED BY <2>1, <2>2
<1>1. \A x \in Objects : h.rc[x] \in Nat /\ u[x] \in Nat
  BY DEF Refs, RefsType
<1>2. h.rc[Device] - n \in Nat /\ u[Device] - n \in Nat
  BY <1>0, <1>1, Constants
<1>3. /\ g.live = (IF h.rc[Device] = n THEN h.live \ {Device} ELSE h.live)
      /\ g.rc = [h.rc EXCEPT ![Device] = h.rc[Device] - n]
      /\ v = [u EXCEPT ![Device] = u[Device] - n]
  BY DEF LetGoDevice, Fewer
<1>. HIDE DEF v, g
<1>4. /\ \A x \in Objects : g.rc[x] = IF x = Device THEN h.rc[Device] - n ELSE h.rc[x]
      /\ \A x \in Objects : v[x] = IF x = Device THEN u[Device] - n ELSE u[x]
      /\ g.rc \in [Objects -> Nat] /\ v \in [Objects -> Nat]
  BY <1>2, <1>3 DEF Refs, RefsType
<1>5. g.live \ {Device} = h.live \ {Device}
  BY <1>3
<1>6. RefsType(v, g, I, K, P, S)
  <2>1. g.live \subseteq Objects /\ IsFiniteSet(g.live)
    <3>1. h.live \subseteq Objects /\ IsFiniteSet(h.live)
      BY DEF Refs, RefsType
    <3>. QED BY <1>3, <3>1, FS_RemoveElement
  <2>. QED BY <1>4, <2>1 DEF Refs, RefsType
<1>7. RefsCount(v, g, I, K, P, S)
  <2>1. \A o \in Buffers \cup Filters : g.rc[o] = h.rc[o] /\ v[o] = u[o]
    BY <1>4, Constants
  <2>2. g.rc[Device] = v[Device] + Cardinality(g.live \ {Device}) + NetTotal(P, S)
    <3>1. Cardinality(g.live \ {Device}) = Cardinality(h.live \ {Device})
      BY <1>5
    <3>2. v[Device] = u[Device] - n /\ g.rc[Device] = h.rc[Device] - n /\ u[Device] \in Nat
      BY <1>1, <1>4, Constants
    <3>. QED BY <1>0, <3>1, <3>2
  <2>. QED BY <2>1, <2>2 DEF Refs, RefsCount
<1>8. RefsExist(g, I, K, P, S)
  <2>1. ASSUME NEW o \in Objects, g.rc[o] > 0 PROVE o \in g.live
    BY <1>1, <1>2, <1>3, <1>4, <2>1, Constants DEF Refs, RefsExist
  <2>2. Device \in g.live => g.rc[Device] > 0
    BY <1>1, <1>2, <1>3, <1>4, Constants
  <2>3. \A f \in Filters : f \in h.live => f \in g.live
    BY <1>3, Constants
  <2>. QED BY <2>1, <2>2, <2>3 DEF Refs, RefsExist
<1>9. Dead(g) = Dead(h)
  BY <1>4, <1>5 DEF Dead, Refs, RefsType
<1>. QED BY <1>6, <1>7, <1>8, <1>9 DEF Refs, v, g

\* An object without references is deleted.
LEMMA WithoutRefs ==
  ASSUME NEW u, NEW h, NEW I, NEW K, NEW P, NEW S, Refs(u, h, I, K, P, S),
         NEW o \in Dead(h),
         o \in Filters => I[o] = Nothing /\ K[o] = Nothing /\ P[o] = {} /\ ~S[o]
  PROVE  /\ Refs(More(u, Device, 1), Without(h, o), I, K, P, S)
         /\ Dead(Without(h, o)) = Dead(h) \ {o}
<1>. DEFINE v == More(u, Device, 1)  g == Without(h, o)
<1>0. o \in h.live \ {Device} /\ h.rc[o] = 0
  BY DEF Dead
<1>1. /\ g.live = h.live \ {o} /\ g.rc = h.rc
      /\ \A x \in Objects : v[x] = IF x = Device THEN u[Device] + 1 ELSE u[x]
      /\ \A x \in Objects : h.rc[x] \in Nat /\ u[x] \in Nat
      /\ v \in [Objects -> Nat]
  BY Constants DEF Without, More, Refs, RefsType
<1>. HIDE DEF v, g
<1>2. /\ IsFiniteSet(g.live)
      /\ Cardinality(g.live \ {Device}) = Cardinality(h.live \ {Device}) - 1
  <2>1. IsFiniteSet(h.live)
    BY DEF Refs, RefsType
  <2>3. IsFiniteSet(h.live \ {Device})
    BY Sizes
  <2>2. g.live \ {Device} = (h.live \ {Device}) \ {o}
    BY <1>1
  <2>4. Cardinality((h.live \ {Device}) \ {o}) = Cardinality(h.live \ {Device}) - 1
    BY <1>0, <2>3, FS_RemoveElement
  <2>5. IsFiniteSet(g.live)
    BY <1>1, <2>1, FS_RemoveElement
  <2>. QED BY <2>2, <2>4, <2>5
<1>3. RefsType(v, g, I, K, P, S)
  BY <1>1, <1>2 DEF Refs, RefsType
<1>4. RefsCount(v, g, I, K, P, S)
  <2>1. \A x \in Buffers \cup Filters : g.rc[x] = h.rc[x] /\ v[x] = u[x]
    BY <1>1, Constants
  <2>2. g.rc[Device] = v[Device] + Cardinality(g.live \ {Device}) + NetTotal(P, S)
    <3>1. h.rc[Device] = u[Device] + Cardinality(h.live \ {Device}) + NetTotal(P, S)
      BY DEF Refs, RefsCount
    <3>2. Cardinality(h.live \ {Device}) \in Nat /\ NetTotal(P, S) \in Nat
      BY Sizes
    <3>3. v[Device] = u[Device] + 1 /\ u[Device] \in Nat /\ g.rc[Device] = h.rc[Device]
      BY <1>1, Constants
    <3>. QED BY <1>2, <3>1, <3>2, <3>3
  <2>. QED BY <2>1, <2>2 DEF Refs, RefsCount
<1>5. RefsExist(g, I, K, P, S)
  BY <1>0, <1>1, Constants DEF Refs, RefsExist
<1>6. Dead(g) = Dead(h) \ {o}
  BY <1>1 DEF Dead
<1>. QED BY <1>3, <1>4, <1>5, <1>6 DEF Refs, v, g

LEMMA Cancel ==
  ASSUME NEW u \in [Objects -> Nat], NEW o \in Objects, NEW n \in Nat
  PROVE  Fewer(More(u, o, n), o, n) = u /\ More(u, o, n)[o] = u[o] + n
<1>1. More(u, o, n)[o] = u[o] + n /\ More(u, o, n) \in [Objects -> Nat]
  BY DEF More
<1>2. Fewer(More(u, o, n), o, n) \in [Objects -> Nat]
  BY <1>1 DEF Fewer
<1>3. \A x \in Objects : Fewer(More(u, o, n), o, n)[x] = u[x]
  BY DEF More, Fewer
<1>. QED BY <1>1, <1>2, <1>3

LEMMA DeleteRefs ==
  ASSUME NEW u, NEW h, NEW I, NEW K, NEW P, NEW S, Refs(u, h, I, K, P, S),
         NEW o \in Dead(h),
         o \in Filters => I[o] = Nothing /\ K[o] = Nothing /\ P[o] = {} /\ ~S[o]
  PROVE  Refs(u, Delete(h, o), I, K, P, S) /\ Dead(Delete(h, o)) = Dead(h) \ {o}
<1>. DEFINE v == More(u, Device, 1)
<1>1. Refs(v, Without(h, o), I, K, P, S) /\ Dead(Without(h, o)) = Dead(h) \ {o}
  BY WithoutRefs
<1>2. Fewer(v, Device, 1) = u /\ v[Device] = u[Device] + 1 /\ u[Device] \in Nat
  BY Cancel, Constants DEF Refs, RefsType
<1>. HIDE DEF v
<1>3. /\ Refs(Fewer(v, Device, 1), LetGoDevice(Without(h, o), 1), I, K, P, S)
      /\ Dead(LetGoDevice(Without(h, o), 1)) = Dead(Without(h, o))
  BY <1>1, <1>2, DeviceRefs
<1>. QED BY <1>1, <1>2, <1>3 DEF Delete, Without

\* A handle to a buffer is given up, and the buffer is deleted if it was the last.
LEMMA LetGoRefs ==
  ASSUME NEW u, NEW h, NEW I, NEW K, NEW P, NEW S, Refs(u, h, I, K, P, S),
         NEW b \in Buffers, u[b] > 0
  PROVE  Refs(Fewer(u, b, 1), LetGo(h, b), I, K, P, S) /\ Dead(LetGo(h, b)) = Dead(h)
<1>. DEFINE v == Fewer(u, b, 1)
<1>1. b \in Objects \ {Device} /\ b \notin Filters /\ b # Nothing
  BY Constants
<1>2. /\ Refs(v, Less(h, b), I, K, P, S)
      /\ Dead(Less(h, b)) = IF h.rc[b] = 1 THEN Dead(h) \cup {b} ELSE Dead(h)
      /\ b \notin Dead(h)
  BY <1>1, LessRefs
<1>. HIDE DEF v
<1>3. Less(h, b).rc[b] = h.rc[b] - 1 /\ h.rc[b] \in Nat
  BY <1>1 DEF Less, Refs, RefsType
<1>4. LetGo(h, b) = IF h.rc[b] = 1 THEN Delete(Less(h, b), b) ELSE Less(h, b)
  BY <1>1, <1>3 DEF LetGo, Less
<1>5. CASE h.rc[b] = 1
  <2>1. b \in Dead(Less(h, b))
    BY <1>2, <1>5
  <2>2. /\ Refs(v, Delete(Less(h, b), b), I, K, P, S)
        /\ Dead(Delete(Less(h, b), b)) = Dead(Less(h, b)) \ {b}
    BY <1>1, <1>2, <2>1, DeleteRefs
  <2>. QED BY <1>2, <1>4, <1>5, <2>2 DEF v
<1>6. CASE h.rc[b] # 1
  BY <1>2, <1>4, <1>6 DEF v
<1>. QED BY <1>5, <1>6

\* The two places for an image are alike.
LEMMA Swap ==
  ASSUME NEW u, NEW h, NEW I, NEW K, NEW P, NEW S, Refs(u, h, I, K, P, S)
  PROVE  Refs(u, h, K, I, P, S)
<1>1. ASSUME NEW b \in Buffers
      PROVE  h.rc[b] = u[b] + Cardinality(Slot(K, b)) + Cardinality(Slot(I, b))
  <2>1. h.rc[b] = u[b] + Cardinality(Slot(I, b)) + Cardinality(Slot(K, b)) /\ u[b] \in Nat
    BY Constants DEF Refs, RefsCount, RefsType
  <2>2. Cardinality(Slot(I, b)) \in Nat /\ Cardinality(Slot(K, b)) \in Nat
    BY Sizes
  <2>. QED BY <2>1, <2>2
<1>2. RefsType(u, h, K, I, P, S) /\ RefsExist(h, K, I, P, S)
  BY DEF Refs, RefsType, RefsExist
<1>3. RefsCount(u, h, K, I, P, S)
  BY <1>1 DEF Refs, RefsCount
<1>. QED BY <1>2, <1>3 DEF Refs

\* The reference of an image becomes a handle.
LEMMA ImageOut ==
  ASSUME NEW u, NEW h, NEW I, NEW K, NEW P, NEW S, Refs(u, h, I, K, P, S),
         NEW f \in Filters, I[f] # Nothing
  PROVE  Refs(More(u, I[f], 1), h, Put(I, f, Nothing), K, P, S)
<1>. DEFINE b == I[f]  v == More(u, b, 1)  J == Put(I, f, Nothing)
<1>1. b \in Buffers /\ b \in Objects \ {Device} /\ b \notin Filters
  BY HeldBuffer, Constants
<1>2. /\ \A x \in Objects : v[x] = IF x = b THEN u[b] + 1 ELSE u[x]
      /\ v \in [Objects -> Nat] /\ J \in [Filters -> Buffers \cup {Nothing}]
      /\ \A g \in Filters : J[g] = IF g = f THEN Nothing ELSE I[g]
      /\ \A x \in Objects : u[x] \in Nat
  BY <1>1 DEF More, Put, Refs, RefsType
<1>3. Slot(J, b) = Slot(I, b) \ {f} /\ f \in Slot(I, b)
  BY <1>1, <1>2, Constants DEF Slot
<1>. HIDE DEF v, J
<1>4. Cardinality(Slot(J, b)) = Cardinality(Slot(I, b)) - 1
  <2>1. IsFiniteSet(Slot(I, b))
    BY <1>1, Sizes
  <2>. QED BY <1>3, <2>1, FS_RemoveElement
<1>5. ASSUME NEW c \in Buffers
      PROVE  h.rc[c] = v[c] + Cardinality(Slot(J, c)) + Cardinality(Slot(K, c))
  <2>1. h.rc[c] = u[c] + Cardinality(Slot(I, c)) + Cardinality(Slot(K, c)) /\ c \in Objects
    BY Constants DEF Refs, RefsCount
  <2>2. Cardinality(Slot(I, c)) \in Nat /\ Cardinality(Slot(K, c)) \in Nat /\ u[c] \in Nat
    BY <1>2, <2>1, Sizes
  <2>3. CASE c = b
    <3>. HIDE DEF b
    <3>1. v[c] = u[c] + 1
      BY <1>2, <2>1, <2>3
    <3>. QED BY <1>4, <2>1, <2>2, <2>3, <3>1
  <2>4. CASE c # b
    <3>1. Slot(J, c) = Slot(I, c)
      BY <1>2, <2>4, Constants DEF Slot
    <3>2. v[c] = u[c]
      BY <1>2, <2>1, <2>4
    <3>. QED BY <2>1, <3>1, <3>2
  <2>. QED BY <2>3, <2>4
<1>6. RefsCount(v, h, J, K, P, S)
  <2>1. \A x \in Filters \cup {Device} : v[x] = u[x]
    BY <1>1, <1>2, Constants
  <2>. QED BY <1>5, <2>1 DEF Refs, RefsCount
<1>7. RefsType(v, h, J, K, P, S) /\ RefsExist(h, J, K, P, S)
  BY <1>2 DEF Refs, RefsType, RefsExist
<1>. QED BY <1>6, <1>7 DEF Refs, v, J

\* A handle becomes the reference of an image.
LEMMA ImageIn ==
  ASSUME NEW u, NEW h, NEW I, NEW K, NEW P, NEW S, Refs(u, h, I, K, P, S),
         NEW f \in Filters, f \in h.live, I[f] = Nothing, NEW b \in Buffers, u[b] > 0
  PROVE  Refs(Fewer(u, b, 1), h, Put(I, f, b), K, P, S)
<1>. DEFINE v == Fewer(u, b, 1)  J == Put(I, f, b)
<1>1. b \in Objects \ {Device} /\ b \notin Filters /\ b # Nothing
  BY Constants
<1>2. /\ \A x \in Objects : v[x] = IF x = b THEN u[b] - 1 ELSE u[x]
      /\ v \in [Objects -> Nat] /\ J \in [Filters -> Buffers \cup {Nothing}]
      /\ \A g \in Filters : J[g] = IF g = f THEN b ELSE I[g]
      /\ \A x \in Objects : u[x] \in Nat
  BY <1>1 DEF Fewer, Put, Refs, RefsType
<1>3. Slot(J, b) = Slot(I, b) \cup {f} /\ f \notin Slot(I, b)
  BY <1>1, <1>2, Constants DEF Slot
<1>. HIDE DEF v, J
<1>4. Cardinality(Slot(J, b)) = Cardinality(Slot(I, b)) + 1
  <2>1. IsFiniteSet(Slot(I, b))
    BY <1>1, Sizes
  <2>. QED BY <1>3, <2>1, FS_AddElement
<1>5. ASSUME NEW c \in Buffers
      PROVE  h.rc[c] = v[c] + Cardinality(Slot(J, c)) + Cardinality(Slot(K, c))
  <2>1. h.rc[c] = u[c] + Cardinality(Slot(I, c)) + Cardinality(Slot(K, c)) /\ c \in Objects
    BY Constants DEF Refs, RefsCount
  <2>2. Cardinality(Slot(I, c)) \in Nat /\ Cardinality(Slot(K, c)) \in Nat /\ u[c] \in Nat
    BY <1>2, <2>1, Sizes
  <2>3. CASE c = b
    <3>1. v[c] = u[c] - 1
      BY <1>2, <2>1, <2>3
    <3>. QED BY <1>4, <2>1, <2>2, <2>3, <3>1
  <2>4. CASE c # b
    <3>1. Slot(J, c) = Slot(I, c)
      BY <1>1, <1>2, <2>4, Constants DEF Slot
    <3>2. v[c] = u[c]
      BY <1>2, <2>1, <2>4
    <3>. QED BY <2>1, <3>1, <3>2
  <2>. QED BY <2>3, <2>4
<1>6. RefsCount(v, h, J, K, P, S)
  <2>1. \A x \in Filters \cup {Device} : v[x] = u[x]
    BY <1>1, <1>2, Constants
  <2>. QED BY <1>5, <2>1 DEF Refs, RefsCount
<1>7. RefsType(v, h, J, K, P, S) /\ RefsExist(h, J, K, P, S)
  BY <1>2 DEF Refs, RefsType, RefsExist
<1>. QED BY <1>6, <1>7 DEF Refs, v, J

LEMMA PutAgain ==
  ASSUME NEW I \in [Filters -> Buffers \cup {Nothing}], NEW f \in Filters, NEW x, NEW y
  PROVE  /\ Put(Put(I, f, x), f, y) = Put(I, f, y)
         /\ Put(I, f, x)[f] = x
         /\ I[f] = x => Put(I, f, x) = I
BY DEF Put

\* What letting go of a buffer may delete.
LEMMA OnlyThat ==
  ASSUME NEW h, NEW b, NEW n
  PROVE  /\ \A o \in h.live : o # b /\ o # Device => o \in LetGo(h, b).live
         /\ \A o \in h.live : o # Device => o \in LetGoDevice(h, n).live
         /\ Hold(h, b, n).live = h.live
BY DEF LetGo, Delete, LetGoDevice, Hold

\* Filter f drops its image.
LEMMA DropImage ==
  ASSUME NEW u, NEW h, NEW I, NEW K, NEW P, NEW S, Refs(u, h, I, K, P, S), NEW f \in Filters
  PROVE  /\ Refs(u, LetGo(h, I[f]), Put(I, f, Nothing), K, P, S)
         /\ Dead(LetGo(h, I[f])) = Dead(h)
<1>1. CASE I[f] = Nothing
  <2>1. Put(I, f, Nothing) = I
    BY <1>1, PutAgain DEF Refs, RefsType
  <2>. QED BY <1>1, <2>1 DEF LetGo
<1>2. CASE I[f] # Nothing
  <2>. DEFINE b == I[f]  v == More(u, b, 1)
  <2>1. b \in Buffers /\ b \in Objects /\ u \in [Objects -> Nat] /\ u[b] \in Nat
    BY <1>2, HeldBuffer, Constants DEF Refs, RefsType
  <2>2. Refs(v, h, Put(I, f, Nothing), K, P, S)
    BY <1>2, ImageOut
  <2>3. Fewer(v, b, 1) = u /\ v[b] = u[b] + 1
    BY <2>1, Cancel
  <2>. HIDE DEF v, b
  <2>4. v[b] > 0
    BY <2>1, <2>3
  <2>5. /\ Refs(Fewer(v, b, 1), LetGo(h, b), Put(I, f, Nothing), K, P, S)
        /\ Dead(LetGo(h, b)) = Dead(h)
    BY <2>1, <2>2, <2>4, LetGoRefs
  <2>. QED BY <2>3, <2>5 DEF b
<1>. QED BY <1>1, <1>2

\* The nodes of filter f drop the image they have kept.
LEMMA DropKept ==
  ASSUME NEW u, NEW h, NEW I, NEW K, NEW P, NEW S, Refs(u, h, I, K, P, S), NEW f \in Filters
  PROVE  /\ Refs(u, LetGo(h, K[f]), I, Put(K, f, Nothing), P, S)
         /\ Dead(LetGo(h, K[f])) = Dead(h)
<1>1. Refs(u, h, K, I, P, S)
  BY Swap
<1>2. /\ Refs(u, LetGo(h, K[f]), Put(K, f, Nothing), I, P, S)
      /\ Dead(LetGo(h, K[f])) = Dead(h)
  BY <1>1, DropImage
<1>. QED BY <1>2, Swap

\* Filter f gets an image for the one that it drops.
LEMMA NewImage ==
  ASSUME NEW u, NEW h, NEW I, NEW K, NEW P, NEW S, Refs(u, h, I, K, P, S), NEW f \in Filters,
         f \in h.live, NEW b \in Buffers \cup {Nothing}, b # Nothing => h.rc[b] > 0
  PROVE  /\ Refs(u, LetGo(Hold(h, b, 1), I[f]), Put(I, f, b), K, P, S)
         /\ Dead(LetGo(Hold(h, b, 1), I[f])) = Dead(h)
<1>1. CASE b = Nothing
  BY <1>1, DropImage DEF Hold
<1>2. CASE b # Nothing
  <2>. DEFINE v == More(u, b, 1)  g == Hold(h, b, 1)  k == LetGo(g, I[f])
  <2>1. b \in Buffers /\ b \in Objects /\ u \in [Objects -> Nat] /\ u[b] \in Nat
    BY <1>2, Constants DEF Refs, RefsType
  <2>2. Refs(v, g, I, K, P, S) /\ Dead(g) = Dead(h)
    BY <1>2, <2>1, HoldRefs
  <2>3. Refs(v, k, Put(I, f, Nothing), K, P, S) /\ Dead(k) = Dead(g)
    <3>. HIDE DEF v, g
    <3>. QED BY <2>2, DropImage DEF k
  <2>4. f \in k.live
    <3>1. f # I[f] /\ f # Device
      BY Constants DEF Refs, RefsType
    <3>2. g.live = h.live
      BY OnlyThat
    <3>. HIDE DEF g
    <3>. QED BY <3>1, <3>2, OnlyThat
  <2>5. Fewer(v, b, 1) = u /\ v[b] = u[b] + 1
    BY <2>1, Cancel
  <2>6. Put(I, f, Nothing)[f] = Nothing /\ Put(Put(I, f, Nothing), f, b) = Put(I, f, b)
    BY PutAgain DEF Refs, RefsType
  <2>. HIDE DEF v, g, k
  <2>7. v[b] > 0
    BY <2>1, <2>5
  <2>8. Refs(Fewer(v, b, 1), k, Put(Put(I, f, Nothing), f, b), K, P, S)
    BY <2>1, <2>3, <2>4, <2>6, <2>7, ImageIn
  <2>. QED BY <2>2, <2>3, <2>5, <2>6, <2>8 DEF k, g
<1>. QED BY <1>1, <1>2

\* The nodes keep the image that filter f had.
LEMMA KeepImage ==
  ASSUME NEW u, NEW h, NEW I, NEW K, NEW P, NEW S, Refs(u, h, I, K, P, S), NEW f \in Filters,
         K[f] = Nothing
  PROVE  Refs(u, h, Put(I, f, Nothing), Put(K, f, I[f]), P, S)
<1>1. CASE I[f] = Nothing
  <2>1. /\ I \in [Filters -> Buffers \cup {Nothing}]
        /\ K \in [Filters -> Buffers \cup {Nothing}]
    BY DEF Refs, RefsType
  <2>2. Put(I, f, Nothing) = I
    BY <1>1, <2>1, PutAgain
  <2>3. Put(K, f, Nothing) = K
    BY <2>1, PutAgain
  <2>. QED BY <1>1, <2>2, <2>3
<1>2. CASE I[f] # Nothing
  <2>. DEFINE b == I[f]  v == More(u, b, 1)  J == Put(I, f, Nothing)
  <2>1. b \in Buffers /\ b \in Objects /\ u \in [Objects -> Nat] /\ u[b] \in Nat /\ f \in h.live
    BY <1>2, HeldBuffer, Constants DEF Refs, RefsType
  <2>2. Refs(v, h, J, K, P, S)
    BY <1>2, ImageOut
  <2>3. Fewer(v, b, 1) = u /\ v[b] = u[b] + 1
    BY <2>1, Cancel
  <2>. HIDE DEF v, b, J
  <2>4. Refs(v, h, K, J, P, S) /\ v[b] > 0
    BY <2>1, <2>2, <2>3, Swap
  <2>5. Refs(Fewer(v, b, 1), h, Put(K, f, b), J, P, S)
    BY <2>1, <2>4, ImageIn
  <2>. QED BY <2>3, <2>5, Swap DEF b, J
<1>. QED BY <1>1, <1>2

\* Filter f gets an image while its nodes share the one it had.
LEMMA NewImageKept ==
  ASSUME NEW u, NEW h, NEW I, NEW K, NEW P, NEW S, Refs(u, h, I, K, P, S), NEW f \in Filters,
         f \in h.live, NEW b \in Buffers \cup {Nothing}, b # Nothing => h.rc[b] > 0,
         K[f] = Nothing
  PROVE  /\ Refs(u, Hold(h, b, 1), Put(I, f, b), Put(K, f, I[f]), P, S)
         /\ Dead(Hold(h, b, 1)) = Dead(h)
<1>. DEFINE J == Put(I, f, Nothing)  L == Put(K, f, I[f])
<1>1. Refs(u, h, J, L, P, S)
  BY KeepImage
<1>2. J[f] = Nothing /\ Put(J, f, b) = Put(I, f, b)
  BY PutAgain DEF Refs, RefsType
<1>. HIDE DEF J, L
<1>3. /\ Refs(u, LetGo(Hold(h, b, 1), J[f]), Put(J, f, b), L, P, S)
      /\ Dead(LetGo(Hold(h, b, 1), J[f])) = Dead(h)
  BY <1>1, NewImage
<1>4. LetGo(Hold(h, b, 1), J[f]) = Hold(h, b, 1)
  BY <1>2 DEF LetGo
<1>. QED BY <1>2, <1>3, <1>4 DEF L
-------------------------------------------------------------------------------
\* What filter f has of the parts and of the scratch memory.
LEMMA NetSplit ==
  ASSUME NEW P \in [Filters -> SUBSET Parts], NEW S \in [Filters -> BOOLEAN], NEW f \in Filters,
         IsFiniteSet(PartRefs(P))
  PROVE  /\ NetTotal(P, S) = NetTotal(Put(P, f, {}), Put(S, f, FALSE)) + Share(f, P, S)
         /\ NetTotal(Put(P, f, {}), Put(S, f, FALSE)) \in Nat
         /\ Share(f, P, S) \in Nat
<1>. DEFINE Q == PartRefs(Put(P, f, {}))  R == {f} \X P[f]
<1>1. /\ \A g \in Filters : Put(P, f, {})[g] = IF g = f THEN {} ELSE P[g]
      /\ \A g \in Filters : Put(S, f, FALSE)[g] = IF g = f THEN FALSE ELSE S[g]
  BY DEF Put
<1>2. PartRefs(P) = Q \cup R /\ Q \cap R = {}
  BY <1>1 DEF PartRefs
<1>3. /\ IsFiniteSet(P[f]) /\ Cardinality(P[f]) \in Nat
      /\ IsFiniteSet(R) /\ Cardinality(R) = Cardinality(P[f])
  <2>1. IsFiniteSet(P[f]) /\ Cardinality(P[f]) \in Nat
    <3>1. P[f] \in SUBSET Parts
      OBVIOUS
    <3>. QED BY <3>1, Constants, FS_Subset, FS_CardinalityType
  <2>2. IsFiniteSet({f}) /\ Cardinality({f}) = 1
    BY FS_Singleton
  <2>3. IsFiniteSet(R) /\ Cardinality(R) = Cardinality({f}) * Cardinality(P[f])
    BY <2>1, <2>2, FS_Product
  <2>. QED BY <2>1, <2>2, <2>3
<1>4. IsFiniteSet(Q) /\ Cardinality(Q) \in Nat
  BY <1>2, FS_Subset, FS_CardinalityType
<1>5. Cardinality(PartRefs(P)) = Cardinality(Q) + Cardinality(P[f])
  <2>1. Cardinality(Q \cup R) = Cardinality(Q) + Cardinality(R) - Cardinality(Q \cap R)
    BY <1>3, <1>4, FS_Union
  <2>2. Cardinality(Q \cap R) = 0
    BY <1>2, FS_EmptySet
  <2>. HIDE DEF Q, R
  <2>. QED BY <1>2, <1>3, <1>4, <2>1, <2>2
<1>. DEFINE a == IF \E g \in Filters : S[g] THEN 1 ELSE 0
            c == IF \E g \in Filters : Put(S, f, FALSE)[g] THEN 1 ELSE 0
            d == IF S[f] /\ \A g \in Filters \ {f} : ~S[g] THEN 1 ELSE 0
<1>6. a = c + d /\ a \in Nat /\ c \in Nat /\ d \in Nat
  <2>1. (\E g \in Filters : Put(S, f, FALSE)[g]) <=> (\E g \in Filters \ {f} : S[g])
    BY <1>1
  <2>2. a \in {0, 1} /\ c \in {0, 1} /\ d \in {0, 1}
    OBVIOUS
  <2>3. CASE \E g \in Filters \ {f} : S[g]
    <3>1. a = 1 /\ c = 1 /\ d = 0
      BY <2>1, <2>3
    <3>. HIDE DEF a, c, d
    <3>. QED BY <3>1
  <2>4. CASE ~\E g \in Filters \ {f} : S[g]
    <3>1. c = 0
      BY <2>1, <2>4
    <3>2. a = d
      BY <2>4
    <3>. HIDE DEF a, c, d
    <3>. QED BY <2>2, <3>1, <3>2
  <2>. QED BY <2>3, <2>4
<1>7. /\ NetTotal(P, S) = Cardinality(PartRefs(P)) + a
      /\ NetTotal(Put(P, f, {}), Put(S, f, FALSE)) = Cardinality(Q) + c
      /\ Share(f, P, S) = Cardinality(P[f]) + d
  BY DEF NetTotal, Share
<1>. DEFINE k == NetTotal(P, S)  l == NetTotal(Put(P, f, {}), Put(S, f, FALSE))
            m == Share(f, P, S)
<1>8. k = l + m /\ l \in Nat /\ m \in Nat
  <2>1. k = Cardinality(PartRefs(P)) + a /\ l = Cardinality(Q) + c /\ m = Cardinality(P[f]) + d
    BY <1>7
  <2>. HIDE DEF Q, R, a, c, d, k, l, m
  <2>. QED BY <1>3, <1>4, <1>5, <1>6, <2>1
<1>. QED BY <1>8

\* Filter f drops its network.
LEMMA DropNet ==
  ASSUME NEW u, NEW h, NEW I, NEW K, NEW P, NEW S, Refs(u, h, I, K, P, S), NEW f \in Filters,
         NEW n, n = Share(f, P, S)
  PROVE  Refs(u, LetGoDevice(h, n), I, K, Put(P, f, {}), Put(S, f, FALSE))
<1>. DEFINE Q == Put(P, f, {})  R == Put(S, f, FALSE)  v == More(u, Device, n)
<1>1. /\ NetTotal(P, S) = NetTotal(Q, R) + n /\ NetTotal(Q, R) \in Nat /\ n \in Nat
  BY NetSplit, Sizes DEF Refs, RefsType
<1>2. u \in [Objects -> Nat] /\ u[Device] \in Nat /\ Device \in Objects
  BY Constants DEF Refs, RefsType
<1>3. /\ Fewer(v, Device, n) = u /\ v[Device] = u[Device] + n
  BY <1>1, <1>2, Cancel
<1>4. /\ v \in [Objects -> Nat] /\ \A x \in Objects \ {Device} : v[x] = u[x]
  BY <1>1, <1>2 DEF More
<1>5. /\ Q \in [Filters -> SUBSET Parts] /\ R \in [Filters -> BOOLEAN]
      /\ \A g \in Filters : (Q[g] # {} => P[g] # {}) /\ (R[g] => S[g])
  BY DEF Put, Refs, RefsType
<1>. HIDE DEF v, Q, R
<1>6. Refs(v, h, I, K, Q, R)
  <2>1. h.rc[Device] = v[Device] + Cardinality(h.live \ {Device}) + NetTotal(Q, R)
    <3>1. h.rc[Device] = u[Device] + Cardinality(h.live \ {Device}) + NetTotal(P, S)
      BY DEF Refs, RefsCount
    <3>2. Cardinality(h.live \ {Device}) \in Nat
      BY Sizes
    <3>. QED BY <1>1, <1>2, <1>3, <3>1, <3>2
  <2>2. \A x \in Buffers \cup Filters : v[x] = u[x]
    BY <1>4, Constants
  <2>3. RefsCount(v, h, I, K, Q, R)
    BY <2>1, <2>2 DEF Refs, RefsCount
  <2>4. RefsType(v, h, I, K, Q, R) /\ RefsExist(h, I, K, Q, R)
    BY <1>4, <1>5 DEF Refs, RefsType, RefsExist
  <2>. QED BY <2>3, <2>4 DEF Refs
<1>7. v[Device] >= n
  BY <1>1, <1>2, <1>3
<1>8. Refs(Fewer(v, Device, n), LetGoDevice(h, n), I, K, Q, R)
  BY <1>1, <1>6, <1>7, DeviceRefs
<1>. QED BY <1>3, <1>8 DEF Q, R

\* Filter f makes a network.
LEMMA MakeNet ==
  ASSUME NEW u, NEW h, NEW I, NEW K, NEW P, NEW S, Refs(u, h, I, K, P, S), NEW f \in Filters,
         f \in h.live, P[f] = {}, ~S[f], NEW p \in SUBSET Parts, NEW s \in BOOLEAN,
         NEW n, n = Share(f, Put(P, f, p), Put(S, f, s))
  PROVE  /\ Refs(u, Hold(h, Device, n), I, K, Put(P, f, p), Put(S, f, s))
         /\ Dead(Hold(h, Device, n)) = Dead(h)
<1>. DEFINE Q == Put(P, f, p)  R == Put(S, f, s)  v == More(u, Device, n)  g == Hold(h, Device, n)
<1>1. /\ Q \in [Filters -> SUBSET Parts] /\ R \in [Filters -> BOOLEAN]
      /\ Q[f] = p /\ R[f] = s
      /\ \A x \in Filters \ {f} : Q[x] = P[x] /\ R[x] = S[x]
  BY DEF Put, Refs, RefsType
<1>2. Put(Q, f, {}) = P /\ Put(R, f, FALSE) = S
  BY DEF Put, Refs, RefsType
<1>0. n = Share(f, Q, R)
  OBVIOUS
<1>. HIDE DEF Q, R
<1>3. IsFiniteSet(PartRefs(Q))
  <2>1. PartRefs(Q) \subseteq PartRefs(P) \cup ({f} \X Parts)
    BY <1>1 DEF PartRefs
  <2>2. IsFiniteSet({f} \X Parts) /\ IsFiniteSet(PartRefs(P))
    <3>1. IsFiniteSet({f})
      BY FS_Singleton
    <3>. QED BY <3>1, Constants, FS_Product, Sizes
  <2>. QED BY <2>1, <2>2, FS_Union, FS_Subset
<1>4. NetTotal(Q, R) = NetTotal(P, S) + n /\ NetTotal(P, S) \in Nat /\ n \in Nat
  <2>1. /\ NetTotal(Q, R) = NetTotal(Put(Q, f, {}), Put(R, f, FALSE)) + Share(f, Q, R)
        /\ NetTotal(Put(Q, f, {}), Put(R, f, FALSE)) \in Nat
        /\ Share(f, Q, R) \in Nat
    BY <1>1, <1>3, NetSplit
  <2>. QED BY <1>0, <1>2, <2>1
<1>5. h.rc[Device] > 0 /\ u \in [Objects -> Nat] /\ u[Device] \in Nat /\ Device \in Objects
  <2>1. f \in h.live \ {Device}
    BY Constants
  <2>2. IsFiniteSet(h.live \ {Device}) /\ Cardinality(h.live \ {Device}) \in Nat
    BY Sizes
  <2>3. Cardinality(h.live \ {Device}) # 0
    BY <2>1, <2>2, FS_EmptySet
  <2>4. h.rc[Device] = u[Device] + Cardinality(h.live \ {Device}) + NetTotal(P, S)
    BY DEF Refs, RefsCount
  <2>5. u \in [Objects -> Nat] /\ u[Device] \in Nat /\ Device \in Objects
    BY Constants DEF Refs, RefsType
  <2>. QED BY <1>4, <2>2, <2>3, <2>4, <2>5
<1>6. Refs(v, g, I, K, P, S) /\ Dead(g) = Dead(h)
  BY <1>4, <1>5, HoldRefs
<1>7. /\ v[Device] = u[Device] + n /\ \A x \in Objects \ {Device} : v[x] = u[x]
      /\ g.live = h.live
  BY <1>5 DEF More, Hold
<1>. HIDE DEF v, g
<1>8. RefsCount(u, g, I, K, Q, R)
  <2>1. g.rc[Device] = u[Device] + Cardinality(g.live \ {Device}) + NetTotal(Q, R)
    <3>1. g.rc[Device] = v[Device] + Cardinality(g.live \ {Device}) + NetTotal(P, S)
      BY <1>6 DEF Refs, RefsCount
    <3>2. Cardinality(g.live \ {Device}) \in Nat
      BY <1>6, Sizes
    <3>. QED BY <1>4, <1>5, <1>7, <3>1, <3>2
  <2>2. \A x \in Buffers \cup Filters : v[x] = u[x]
    BY <1>7, Constants
  <2>. QED BY <1>6, <2>1, <2>2 DEF Refs, RefsCount
<1>9. RefsType(u, g, I, K, Q, R) /\ RefsExist(g, I, K, Q, R)
  BY <1>1, <1>5, <1>6, <1>7 DEF Refs, RefsType, RefsExist
<1>. QED BY <1>6, <1>8, <1>9 DEF Refs, Q, R, g
-------------------------------------------------------------------------------
\* Counts are exact and references are to objects that exist; nodes that share an
\* image with their filter have kept no other one.
Graph ==
  /\ Refs(user, Heap, image, kept, parts, scratch)
  /\ lent \in [Filters -> BOOLEAN] /\ due \in [Filters -> {"nothing", "commit", "init"}]
  /\ \A f \in Filters : lent[f] => kept[f] = Nothing

\* The mutex is with the thread that is in the middle of a call.
Locked == \A t \in Threads : at[t] \in Holding <=> mutex = t

\* The error function and its pointer belong together, but for the moment between
\* the two assignments.
Paired ==
  /\ \A t \in Threads : at[t] = "half" => errorFunc = arg[t]
  /\ (\A t \in Threads : at[t] # "half") => errorFunc = errorUserPtr
  /\ CallbackPaired

\* Thread t is about to delete an object.
Destroying(t) == op[t] = "destroy" /\ at[t] \in {"wait", "in"}

\* A call that is no destruction has handles to what it works on.
CalledBy(t) ==
  /\ at[t] = "half" => op[t] = "setErrorFunction"
  /\ ~Idle(t) /\ op[t] # "destroy" =>
       /\ obj[t] \in Objects /\ user[obj[t]] > 0
       /\ op[t] \in DeviceOps => obj[t] = Device
       /\ op[t] \in FilterOps => obj[t] \in Filters
       /\ op[t] = "setImage" => arg[t] \in Buffers \cup {Nothing}
       /\ op[t] = "setErrorFunction" => arg[t] \in Callbacks
       /\ arg[t] \in Buffers => user[arg[t]] > 0
Called == \A t \in Threads : CalledBy(t)

\* An object that nobody refers to is in the hands of one thread, which deletes it.
Doomed ==
  /\ \A t \in Threads : Destroying(t) => obj[t] \in Dead(Heap) /\ arg[t] = Nothing
  /\ \A t, u \in Threads : Destroying(t) /\ Destroying(u) /\ t # u => obj[t] # obj[u]
  /\ \A o \in Dead(Heap) : \E t \in Threads : Destroying(t) /\ obj[t] = o

\* A user who gives up the device last still has it while there is anything else.
HeldToTheEnd ==
  DeviceLast =>
    /\ \A t \in Threads : ~Idle(t) => user[Device] > 0
    /\ \A o \in Objects : user[o] > 0 => user[Device] > 0

CallTypeOK ==
  /\ mutex \in Threads \cup {Nothing}
  /\ op \in [Threads -> DeviceOps \cup FilterOps \cup {"destroy", "none"}]
  /\ obj \in [Threads -> Objects \cup {Nothing}]
  /\ arg \in [Threads -> Buffers \cup Callbacks \cup {Nothing}]
  /\ at \in [Threads -> Holding \cup {"idle", "wait", "failed", "report"}]
  /\ dirty \in BOOLEAN /\ committed \in BOOLEAN
  /\ errorFunc \in Callbacks \cup {Nothing} /\ errorUserPtr \in Callbacks \cup {Nothing}
  /\ seen \in [Threads -> (Callbacks \cup {Nothing}) \X (Callbacks \cup {Nothing})]

Thread == CallTypeOK /\ Locked /\ Paired

Inv == Graph /\ Thread /\ Doomed /\ Called /\ HeldToTheEnd
-------------------------------------------------------------------------------
\* What a step of thread t leaves alone of the other threads.
Alone(t) ==
  \A u \in Threads \ {t} :
    at'[u] = at[u] /\ op'[u] = op[u] /\ obj'[u] = obj[u] /\ arg'[u] = arg[u] /\ seen'[u] = seen[u]

\* Nobody comes to delete an object, nobody leaves before it has.
LEMMA SameDoomed ==
  ASSUME Doomed, NEW t \in Threads, Alone(t), Dead(Heap)' = Dead(Heap),
         Destroying(t)' <=> Destroying(t),
         Destroying(t) => UNCHANGED <<obj[t], arg[t]>>
  PROVE  Doomed'
<1>1. \A u \in Threads : /\ Destroying(u)' <=> Destroying(u)
                         /\ Destroying(u) => obj'[u] = obj[u] /\ arg'[u] = arg[u]
  BY DEF Alone, Destroying
<1>. QED BY <1>1 DEF Doomed

LEMMA SameHandles ==
  ASSUME Called, HeldToTheEnd, NEW t \in Threads, Alone(t), UNCHANGED user,
         CalledBy(t)', ~Idle(t)' => ~Idle(t) \/ \E o \in Objects : user[o] > 0
  PROVE  Called' /\ HeldToTheEnd'
<1>1. Called'
  BY DEF Called, CalledBy, Alone, Idle
<1>2. HeldToTheEnd'
  BY DEF HeldToTheEnd, Alone, Idle
<1>. QED BY <1>1, <1>2

LEMMA SameGraph ==
  ASSUME Graph, UNCHANGED <<live, rc, user, image, network>>,
         due' \in [Filters -> {"nothing", "commit", "init"}]
  PROVE  Graph' /\ Dead(Heap)' = Dead(Heap)
<1>1. /\ Heap' = Heap
      /\ UNCHANGED <<user, image, lent, kept, parts, scratch>>
  BY DEF Heap, network
<1>. QED BY <1>1 DEF Graph

\* A step that leaves all objects alone.
LEMMA Quiet ==
  ASSUME Inv, NEW t \in Threads, Alone(t), UNCHANGED objects,
         Thread', CalledBy(t)',
         ~Idle(t)' => ~Idle(t) \/ \E o \in Objects : user[o] > 0,
         Destroying(t)' <=> Destroying(t),
         Destroying(t) => UNCHANGED <<obj[t], arg[t]>>
  PROVE  Inv'
<1>1. UNCHANGED <<live, rc, user, image, network, due>>
  BY DEF objects
<1>2. Graph' /\ Dead(Heap)' = Dead(Heap)
  BY <1>1, SameGraph DEF Inv, Graph
<1>3. Doomed'
  BY <1>2, SameDoomed DEF Inv
<1>4. Called' /\ HeldToTheEnd'
  BY <1>1, SameHandles DEF Inv
<1>. QED BY <1>2, <1>3, <1>4 DEF Inv

\* A step in a call, under the mutex or not, from stage "in" to stage s.
LEMMA StageStep ==
  ASSUME Inv, NEW t \in Threads, NEW s \in Holding, at[t] = "in", Goto(t, s),
         UNCHANGED <<mutex, op, obj, arg, errorFunc, errorUserPtr, seen>>,
         dirty' \in BOOLEAN, committed' \in BOOLEAN, s # "half"
  PROVE  Thread' /\ Alone(t)
<1>1. at' = [at EXCEPT ![t] = s]
  BY DEF Goto
<1>2. CallTypeOK'
  BY <1>1 DEF Inv, Thread, CallTypeOK
<1>3. Locked'
  BY <1>1 DEF Inv, Thread, CallTypeOK, Locked, Holding
<1>4. Paired'
  BY <1>1 DEF Inv, Thread, CallTypeOK, Paired, CallbackPaired, Holding
<1>5. Alone(t)
  BY <1>1 DEF Inv, Thread, CallTypeOK, Alone
<1>. QED BY <1>2, <1>3, <1>4, <1>5 DEF Thread

\* The steps of a call that leave the objects alone.
LEMMA InCall ==
  ASSUME Inv, NEW t \in Threads,
         \/ NewFails(t) \/ Set1i(t) \/ Commit(t) \/ CommitFails(t) \/ ExecuteNothing(t)
         \/ FilterFails(t)
  PROVE  Inv'
<1>1. PICK s \in {"out", "raise"} :
        /\ at[t] = "in" /\ op[t] # "destroy" /\ Goto(t, s)
        /\ UNCHANGED <<objects, mutex, op, obj, arg, errorFunc, errorUserPtr, seen>>
        /\ dirty' \in BOOLEAN /\ committed' \in BOOLEAN
  BY DEF Inv, NewFails, Set1i, Commit, CommitFails, ExecuteNothing, FilterFails, Raise,
            In, calls, device, Thread, CallTypeOK
<1>2. Thread' /\ Alone(t)
  BY <1>1, StageStep DEF Holding
<1>3. CalledBy(t)' /\ ~Idle(t)
  BY <1>1 DEF Inv, Goto, Thread, CallTypeOK, Called, CalledBy, Idle, objects
<1>4. ~Destroying(t) /\ ~Destroying(t)'
  BY <1>1 DEF Destroying
<1>. QED BY <1>1, <1>2, <1>3, <1>4, Quiet

LEMMA CallKeeps == ASSUME Inv, NEW t \in Threads, Call(t) PROVE Inv'
<1>1. PICK o \in DeviceOps \cup FilterOps, x \in Objects,
           a \in Buffers \cup Callbacks \cup {Nothing} :
        /\ Enter(t, o, x, a)
        /\ o \in DeviceOps => x = Device
        /\ o \in FilterOps => x \in Filters
        /\ o = "setImage" => a \in Buffers \cup {Nothing}
        /\ o = "setErrorFunction" => a \in Callbacks
  BY Constants DEF Call, DeviceOps, FilterOps
<1>2. /\ at[t] = "idle" /\ user[x] > 0 /\ (a \in Buffers => user[a] > 0)
      /\ op' = [op EXCEPT ![t] = o] /\ obj' = [obj EXCEPT ![t] = x]
      /\ arg' = [arg EXCEPT ![t] = a] /\ at' = [at EXCEPT ![t] = "wait"]
      /\ UNCHANGED <<objects, mutex, dirty, committed, errorFunc, errorUserPtr, seen>>
  BY <1>1 DEF Enter, Idle, Goto, device
<1>3. Alone(t)
  BY <1>2 DEF Inv, Alone, Thread, CallTypeOK
<1>4. CallTypeOK'
  BY <1>1, <1>2 DEF Inv, Thread, CallTypeOK
<1>5. Locked' /\ Paired'
  BY <1>2 DEF Inv, Thread, CallTypeOK, Locked, Paired, CallbackPaired, Holding
<1>6. CalledBy(t)'
  BY <1>1, <1>2 DEF Inv, Thread, CallTypeOK, CalledBy, objects
<1>7. ~Destroying(t) /\ ~Destroying(t)'
  BY <1>1, <1>2 DEF Inv, Destroying, DeviceOps, FilterOps, Thread, CallTypeOK
<1>. QED BY <1>2, <1>3, <1>4, <1>5, <1>6, <1>7, Quiet DEF Thread

LEMMA LockKeeps == ASSUME Inv, NEW t \in Threads, Lock(t) PROVE Inv'
<1>1. /\ at[t] = "wait" /\ mutex = Nothing /\ mutex' = t
      /\ at' = [at EXCEPT ![t] = "in"]
      /\ UNCHANGED <<objects, op, obj, arg, dirty, committed, errorFunc,
                     errorUserPtr, seen>>
  BY DEF Lock, Goto, calls, device
<1>2. Alone(t)
  BY <1>1 DEF Inv, Alone, Thread, CallTypeOK
<1>3. CallTypeOK'
  BY <1>1 DEF Inv, Thread, CallTypeOK, Holding
<1>4. Locked' /\ Paired'
  BY <1>1, Constants DEF Inv, Thread, CallTypeOK, Locked, Paired, CallbackPaired, Holding
<1>5. CalledBy(t)' /\ ~Idle(t)
  BY <1>1 DEF Inv, Thread, CallTypeOK, Called, CalledBy, Idle, objects
<1>6. Destroying(t)' <=> Destroying(t)
  BY <1>1 DEF Inv, Destroying, Thread, CallTypeOK
<1>. QED BY <1>1, <1>2, <1>3, <1>4, <1>5, <1>6, Quiet DEF Thread

LEMMA SetErrorFuncKeeps == ASSUME Inv, NEW t \in Threads, SetErrorFunc(t) PROVE Inv'
<1>1. /\ at[t] = "in" /\ op[t] = "setErrorFunction" /\ errorFunc' = arg[t]
      /\ at' = [at EXCEPT ![t] = "half"]
      /\ UNCHANGED <<objects, mutex, op, obj, arg, dirty, committed, errorUserPtr, seen>>
  BY DEF SetErrorFunc, In, Goto, calls
<1>2. CalledBy(t) /\ mutex = t
  BY <1>1 DEF Inv, Called, Thread, Locked, Holding
<1>3. arg[t] \in Callbacks /\ ~Idle(t)
  BY <1>1, <1>2 DEF CalledBy, Idle
<1>4. Alone(t)
  BY <1>1 DEF Inv, Alone, Thread, CallTypeOK
<1>5. CallTypeOK'
  BY <1>1, <1>3 DEF Inv, Thread, CallTypeOK, Holding
<1>6. Locked'
  BY <1>1 DEF Inv, Thread, CallTypeOK, Locked, Holding
<1>7. \A u \in Threads : at[u] # "half"
  BY <1>1, <1>2 DEF Inv, Thread, Locked, Holding
<1>8. Paired'
  BY <1>1, <1>7 DEF Inv, Thread, CallTypeOK, Paired, CallbackPaired
<1>9. CalledBy(t)' /\ ~Destroying(t) /\ ~Destroying(t)'
  BY <1>1, <1>2, <1>3 DEF Inv, Thread, CallTypeOK, CalledBy, Idle, Destroying, objects
<1>. QED BY <1>1, <1>3, <1>4, <1>5, <1>6, <1>8, <1>9, Quiet DEF Thread

LEMMA SetErrorUserPtrKeeps == ASSUME Inv, NEW t \in Threads, SetErrorUserPtr(t) PROVE Inv'
<1>1. /\ at[t] = "half" /\ errorUserPtr' = arg[t] /\ at' = [at EXCEPT ![t] = "out"]
      /\ UNCHANGED <<objects, mutex, op, obj, arg, dirty, committed, errorFunc, seen>>
  BY DEF SetErrorUserPtr, Goto, calls
<1>2. CalledBy(t) /\ mutex = t /\ errorFunc = arg[t]
  BY <1>1 DEF Inv, Called, Thread, Locked, Holding, Paired
<1>3. arg[t] \in Callbacks /\ op[t] = "setErrorFunction" /\ ~Idle(t)
  BY <1>1, <1>2 DEF CalledBy, Idle
<1>4. Alone(t)
  BY <1>1 DEF Inv, Alone, Thread, CallTypeOK
<1>5. CallTypeOK'
  BY <1>1, <1>3 DEF Inv, Thread, CallTypeOK, Holding
<1>6. Locked'
  BY <1>1 DEF Inv, Thread, CallTypeOK, Locked, Holding
<1>7. \A u \in Threads \ {t} : at[u] # "half"
  BY <1>1, <1>2 DEF Inv, Thread, Locked, Holding
<1>8. Paired'
  BY <1>1, <1>2, <1>7 DEF Inv, Thread, CallTypeOK, Paired, CallbackPaired
<1>9. CalledBy(t)' /\ ~Destroying(t) /\ ~Destroying(t)'
  BY <1>1, <1>2, <1>3 DEF Inv, Thread, CallTypeOK, CalledBy, Idle, Destroying, objects
<1>. QED BY <1>1, <1>3, <1>4, <1>5, <1>6, <1>8, <1>9, Quiet DEF Thread

\* A call ends.
LEMMA ReturnKeeps ==
  ASSUME Inv, NEW t \in Threads, Return(t), at[t] \in {"out", "report"},
         mutex' = IF at[t] = "out" THEN Nothing ELSE mutex,
         UNCHANGED <<objects, dirty, committed, errorFunc, errorUserPtr>>
  PROVE  Inv'
<1>1. /\ at' = [at EXCEPT ![t] = "idle"] /\ op' = [op EXCEPT ![t] = "none"]
      /\ obj' = [obj EXCEPT ![t] = Nothing] /\ arg' = [arg EXCEPT ![t] = Nothing]
      /\ seen' = [seen EXCEPT ![t] = <<Nothing, Nothing>>]
  BY DEF Return, Goto
<1>2. Alone(t)
  BY <1>1 DEF Inv, Alone, Thread, CallTypeOK
<1>3. CallTypeOK'
  BY <1>1 DEF Inv, Thread, CallTypeOK, Holding
<1>4. Locked'
  BY <1>1, Constants DEF Inv, Thread, CallTypeOK, Locked, Holding
<1>5. Paired'
  BY <1>1 DEF Inv, Thread, CallTypeOK, Paired, CallbackPaired
<1>6. CalledBy(t)' /\ ~Idle(t) /\ ~Destroying(t) /\ ~Destroying(t)'
  BY <1>1 DEF Inv, Thread, CallTypeOK, CalledBy, Idle, Destroying
<1>. QED BY <1>2, <1>3, <1>4, <1>5, <1>6, Quiet DEF Thread

LEMMA UnlockKeeps == ASSUME Inv, NEW t \in Threads, Unlock(t) PROVE Inv'
<1>1. CASE at[t] = "out"
  <2>1. Return(t) /\ mutex' = Nothing
        /\ UNCHANGED <<objects, dirty, committed, errorFunc, errorUserPtr>>
    BY <1>1 DEF Unlock, device
  <2>. QED BY <1>1, <2>1, ReturnKeeps
<1>2. CASE at[t] # "out"
  <2>1. /\ at[t] = "raise" /\ at' = [at EXCEPT ![t] = "failed"] /\ mutex' = Nothing
        /\ UNCHANGED <<objects, op, obj, arg, dirty, committed, errorFunc,
                       errorUserPtr, seen>>
    BY <1>2 DEF Unlock, Goto, calls, device
  <2>2. Alone(t)
    BY <2>1 DEF Inv, Alone, Thread, CallTypeOK
  <2>3. CallTypeOK'
    BY <2>1 DEF Inv, Thread, CallTypeOK, Holding
  <2>4. Locked'
    BY <2>1, Constants DEF Inv, Thread, CallTypeOK, Locked, Holding
  <2>5. Paired'
    BY <2>1 DEF Inv, Thread, CallTypeOK, Paired, CallbackPaired
  <2>6. CalledBy(t)' /\ ~Idle(t) /\ ~Destroying(t) /\ ~Destroying(t)'
    BY <2>1 DEF Inv, Thread, CallTypeOK, Called, CalledBy, Idle, Destroying, objects
  <2>. QED BY <2>1, <2>2, <2>3, <2>4, <2>5, <2>6, Quiet DEF Thread
<1>. QED BY <1>1, <1>2

LEMMA LookUpKeeps == ASSUME Inv, NEW t \in Threads, LookUp(t) PROVE Inv'
<1>1. /\ at[t] = "failed" /\ mutex = Nothing /\ at' = [at EXCEPT ![t] = "report"]
      /\ seen' = [seen EXCEPT ![t] = <<errorFunc, errorUserPtr>>]
      /\ UNCHANGED <<objects, mutex, op, obj, arg, dirty, committed, errorFunc,
                     errorUserPtr>>
  BY DEF LookUp, Goto, calls, device
<1>2. Alone(t)
  BY <1>1 DEF Inv, Alone, Thread, CallTypeOK
<1>3. CallTypeOK'
  BY <1>1 DEF Inv, Thread, CallTypeOK, Holding
<1>4. Locked'
  BY <1>1 DEF Inv, Thread, CallTypeOK, Locked, Holding
<1>5. errorFunc = errorUserPtr
  BY <1>1, Constants DEF Inv, Thread, Locked, Paired, Holding
<1>6. Paired'
  BY <1>1, <1>5 DEF Inv, Thread, CallTypeOK, Paired, CallbackPaired
<1>7. CalledBy(t)' /\ ~Idle(t) /\ ~Destroying(t) /\ ~Destroying(t)'
  BY <1>1 DEF Inv, Thread, CallTypeOK, Called, CalledBy, Idle, Destroying, objects
<1>. QED BY <1>1, <1>2, <1>3, <1>4, <1>6, <1>7, Quiet DEF Thread

LEMMA ReportKeeps == ASSUME Inv, NEW t \in Threads, Report(t) PROVE Inv'
BY ReturnKeeps DEF Report, device
-------------------------------------------------------------------------------
\* What is said of a heap is said of the state when it becomes that heap.
LEMMA Became ==
  ASSUME NEW u, NEW h, NEW I, NEW K, NEW P, NEW S, Refs(u, h, I, K, P, S), Becomes(h)
  PROVE  Refs(u, Heap', I, K, P, S) /\ Dead(Heap') = Dead(h)
<1>1. Heap'.live = h.live /\ Heap'.rc = h.rc
  BY DEF Becomes, Heap
<1>. HIDE DEF Heap
<1>. QED BY <1>1 DEF Refs, RefsType, RefsCount, RefsExist, Dead

\* The step of a call that does its work.
LEMMA Effect ==
  ASSUME Inv, NEW t \in Threads, NEW s \in {"out", "raise"}, at[t] = "in", Goto(t, s),
         UNCHANGED <<user, mutex, calls, device, seen>>, Graph',
         Dead(Heap)' = IF op[t] = "destroy" THEN Dead(Heap) \ {obj[t]} ELSE Dead(Heap)
  PROVE  Inv'
<1>1. /\ at' = [at EXCEPT ![t] = s]
      /\ UNCHANGED <<user, mutex, op, obj, arg, dirty, committed, errorFunc, errorUserPtr, seen>>
  BY DEF Goto, calls, device
<1>2. Thread' /\ Alone(t)
  BY <1>1, StageStep DEF Holding, Inv, Thread, CallTypeOK
<1>3. ~Destroying(t)' /\ ~Idle(t)
  BY <1>1 DEF Destroying, Idle, Inv, Thread, CallTypeOK
<1>4. CalledBy(t)'
  BY <1>1 DEF Inv, Called, CalledBy, Thread, CallTypeOK, Idle
<1>5. Called' /\ HeldToTheEnd'
  BY <1>1, <1>2, <1>3, <1>4, SameHandles DEF Inv
<1>6. Doomed'
  <2>1. CASE op[t] # "destroy"
    BY <1>2, <1>3, <2>1, SameDoomed DEF Inv, Destroying
  <2>2. CASE op[t] = "destroy"
    <3>1. Destroying(t) /\ Dead(Heap)' = Dead(Heap) \ {obj[t]}
      BY <2>2 DEF Destroying
    <3>2. \A u \in Threads \ {t} : /\ Destroying(u)' <=> Destroying(u)
                                   /\ obj'[u] = obj[u] /\ arg'[u] = arg[u]
      BY <1>2 DEF Alone, Destroying
    <3>3. \A u \in Threads \ {t} : Destroying(u) => obj[u] # obj[t]
      BY <3>1 DEF Inv, Doomed
    <3>. QED BY <1>3, <3>1, <3>2, <3>3 DEF Inv, Doomed
  <2>. QED BY <2>1, <2>2
<1>. QED BY <1>2, <1>5, <1>6 DEF Inv

\* The filter of a call exists.
LEMMA FilterOfCall ==
  ASSUME Inv, NEW t \in Threads, at[t] = "in", op[t] \in FilterOps
  PROVE  /\ obj[t] \in Filters /\ obj[t] \in live /\ op[t] # "destroy"
         /\ op[t] = "setImage" =>
              arg[t] \in Buffers \cup {Nothing} /\ (arg[t] # Nothing => rc[arg[t]] > 0)
<1>1. /\ obj[t] \in Filters /\ obj[t] \in Objects /\ user[obj[t]] > 0 /\ op[t] # "destroy"
      /\ op[t] = "setImage" => arg[t] \in Buffers \cup {Nothing}
      /\ arg[t] \in Buffers => user[arg[t]] > 0
  BY DEF Inv, Called, CalledBy, Idle, FilterOps
<1>2. Refs(user, Heap, image, kept, parts, scratch) /\ Heap.live = live /\ Heap.rc = rc
  BY DEF Inv, Graph, Heap
<1>3. ASSUME NEW o \in Objects, user[o] > 0 PROVE o \in live /\ rc[o] > 0
  BY <1>2, <1>3, Handle
<1>. QED BY <1>1, <1>3, Constants

LEMMA SetParamKeeps ==
  ASSUME Inv, NEW t \in Threads, SetParam(t) \/ CommitFilter(t) PROVE Inv'
<1>1. /\ at[t] = "in" /\ op[t] # "destroy" /\ Goto(t, "out")
      /\ UNCHANGED <<live, rc, user, image, network, mutex, calls, device, seen>>
      /\ \E d \in {"nothing", "commit", "init"} : due' = [due EXCEPT ![obj[t]] = d]
  BY DEF SetParam, CommitFilter, In
<1>2. due' \in [Filters -> {"nothing", "commit", "init"}]
  BY <1>1 DEF Inv, Graph
<1>3. Graph' /\ Dead(Heap)' = Dead(Heap)
  BY <1>1, <1>2, SameGraph DEF Inv
<1>. QED BY <1>1, <1>3, Effect

\* The types of what a step changes for one filter.
LEMMA NetworkTypes ==
  ASSUME Graph, NEW f \in Filters, NEW l \in BOOLEAN, NEW d \in {"nothing", "commit", "init"}
  PROVE  /\ Put(lent, f, l) \in [Filters -> BOOLEAN]
         /\ Put(due, f, d) \in [Filters -> {"nothing", "commit", "init"}]
BY DEF Graph, Put

LEMMA AssignKeeps ==
  ASSUME Inv, NEW t \in Threads, at[t] = "in", op[t] \in {"setImage", "removeImage"},
         NEW b \in Buffers \cup {Nothing}, b # Nothing => rc[b] > 0,
         Assign(obj[t], b), NEW must \in BOOLEAN, Outdate(obj[t], must), Goto(t, "out"),
         UNCHANGED <<mutex, calls, device, seen>>
  PROVE  Inv'
<1>. DEFINE f == obj[t]
<1>1. f \in Filters /\ f \in live /\ op[t] # "destroy"
  BY FilterOfCall DEF FilterOps
<1>. HIDE DEF f
<1>2. /\ Refs(user, Heap, image, kept, parts, scratch) /\ Heap.live = live /\ Heap.rc = rc
      /\ lent \in [Filters -> BOOLEAN] /\ due \in [Filters -> {"nothing", "commit", "init"}]
      /\ \A g \in Filters : lent[g] => kept[g] = Nothing
  BY DEF Inv, Graph, Heap
<1>3. /\ image' = Put(image, f, b) /\ UNCHANGED <<user, parts, scratch>>
      /\ kept' = IF lent[f] THEN Put(kept, f, image[f]) ELSE kept
      /\ Becomes(LetGo(Hold(Heap, b, 1), IF lent[f] THEN Nothing ELSE image[f]))
      /\ lent' = [lent EXCEPT ![f] = FALSE]
  BY DEF Assign, Put, f
<1>4. Refs(user', Heap', image', kept', parts', scratch') /\ Dead(Heap') = Dead(Heap)
  <2>1. CASE ~lent[f]
    <3>. DEFINE h == LetGo(Hold(Heap, b, 1), image[f])
    <3>1. Refs(user, h, Put(image, f, b), kept, parts, scratch) /\ Dead(h) = Dead(Heap)
      BY <1>1, <1>2, NewImage
    <3>2. Becomes(h)
      BY <1>3, <2>1
    <3>. HIDE DEF h
    <3>3. Refs(user, Heap', Put(image, f, b), kept, parts, scratch) /\ Dead(Heap') = Dead(h)
      BY <3>1, <3>2, Became
    <3>. QED BY <1>3, <2>1, <3>1, <3>3
  <2>2. CASE lent[f]
    <3>. DEFINE h == Hold(Heap, b, 1)  L == Put(kept, f, image[f])
    <3>1. Refs(user, h, Put(image, f, b), L, parts, scratch) /\ Dead(h) = Dead(Heap)
      BY <1>1, <1>2, <2>2, NewImageKept
    <3>2. Becomes(h) /\ kept' = L
      BY <1>3, <2>2 DEF LetGo
    <3>. HIDE DEF h, L
    <3>3. Refs(user, Heap', Put(image, f, b), L, parts, scratch) /\ Dead(Heap') = Dead(h)
      BY <3>1, <3>2, Became
    <3>. QED BY <1>3, <3>1, <3>2, <3>3
  <2>. QED BY <2>1, <2>2
<1>5. /\ lent' \in [Filters -> BOOLEAN]
      /\ due' \in [Filters -> {"nothing", "commit", "init"}]
      /\ \A g \in Filters : lent'[g] => kept'[g] = Nothing
  <2>1. due' \in [Filters -> {"nothing", "commit", "init"}]
    BY <1>2 DEF Outdate, f
  <2>2. \A g \in Filters : lent'[g] => g # f /\ lent[g] /\ kept'[g] = kept[g]
    BY <1>1, <1>2, <1>3 DEF Put, Refs, RefsType
  <2>. QED BY <1>2, <1>3, <2>1, <2>2
<1>6. Graph'
  BY <1>4, <1>5 DEF Graph
<1>. QED BY <1>1, <1>3, <1>4, <1>6, Effect

LEMMA SetImageKeeps == ASSUME Inv, NEW t \in Threads, SetImage(t) PROVE Inv'
<1>1. at[t] = "in" /\ op[t] = "setImage"
  BY DEF SetImage, In
<1>2. arg[t] \in Buffers \cup {Nothing} /\ (arg[t] # Nothing => rc[arg[t]] > 0)
  BY <1>1, FilterOfCall DEF FilterOps
<1>3. PICK b \in {arg[t], Nothing} : Assign(obj[t], b)
  BY DEF SetImage
<1>. QED BY <1>1, <1>2, <1>3, AssignKeeps DEF SetImage

LEMMA RemoveImageKeeps == ASSUME Inv, NEW t \in Threads, RemoveImage(t) PROVE Inv'
<1>1. at[t] = "in" /\ op[t] = "removeImage"
  BY DEF RemoveImage, In
<1>. QED BY <1>1, AssignKeeps DEF RemoveImage

\* The nodes drop the image they have kept and may share the filter's.
LEMMA ExecuteKeeps == ASSUME Inv, NEW t \in Threads, Execute(t) PROVE Inv'
<1>. DEFINE f == obj[t]  h == LetGo(Heap, kept[f])
<1>1. at[t] = "in" /\ op[t] = "execute"
  BY DEF Execute, In
<1>2. f \in Filters /\ f \in live /\ op[t] # "destroy"
  BY <1>1, FilterOfCall DEF FilterOps
<1>3. /\ Refs(user, Heap, image, kept, parts, scratch)
      /\ lent \in [Filters -> BOOLEAN] /\ due \in [Filters -> {"nothing", "commit", "init"}]
      /\ \A g \in Filters : lent[g] => kept[g] = Nothing
  BY DEF Inv, Graph
<1>4. /\ Becomes(h) /\ kept' = Put(kept, f, Nothing)
      /\ UNCHANGED <<user, image, parts, scratch, due, mutex, calls, device, seen>>
  BY DEF Execute, Put
<1>5. PICK l \in BOOLEAN : lent' = Put(lent, f, l)
  BY DEF Execute, Put
<1>6. PICK s \in {"out", "raise"} : Goto(t, s)
  BY DEF Execute
<1>7. Refs(user, h, image, Put(kept, f, Nothing), parts, scratch) /\ Dead(h) = Dead(Heap)
  BY <1>2, <1>3, DropKept
<1>. HIDE DEF f, h
<1>8. /\ Refs(user, Heap', image, Put(kept, f, Nothing), parts, scratch)
      /\ Dead(Heap') = Dead(Heap)
  BY <1>4, <1>7, Became
<1>9. \A g \in Filters : lent'[g] => kept'[g] = Nothing
  BY <1>2, <1>3, <1>4, <1>5 DEF Put, Refs, RefsType
<1>10. lent' \in [Filters -> BOOLEAN]
  BY <1>3, <1>5 DEF Put
<1>11. Graph'
  BY <1>3, <1>4, <1>8, <1>9, <1>10 DEF Graph
<1>. QED BY <1>1, <1>2, <1>4, <1>6, <1>8, <1>11, Effect

\* Filter f drops its network and its nodes.
LEMMA ClearRefs ==
  ASSUME Graph, NEW f \in Filters
  PROVE  /\ Refs(user, Clear(Heap, f), image, Put(kept, f, Nothing), Put(parts, f, {}),
                 Put(scratch, f, FALSE))
         /\ Dead(Clear(Heap, f)) = Dead(Heap)
         /\ f \in live => f \in Clear(Heap, f).live
<1>. DEFINE h == LetGo(Heap, kept[f])  n == Share(f, parts, scratch)
<1>1. Refs(user, h, image, Put(kept, f, Nothing), parts, scratch) /\ Dead(h) = Dead(Heap)
  BY DropKept DEF Graph
<1>2. Clear(Heap, f) = LetGoDevice(h, n)
  BY DEF Clear, NetRefs, Share
<1>3. f # kept[f] /\ f # Device /\ Heap.live = live
  BY Constants DEF Graph, Refs, RefsType, Heap
<1>4. f \in live => f \in h.live
  BY <1>3, OnlyThat
<1>0. n = Share(f, parts, scratch)
  OBVIOUS
<1>. HIDE DEF h, n
<1>5. /\ Refs(user, LetGoDevice(h, n), image, Put(kept, f, Nothing), Put(parts, f, {}),
              Put(scratch, f, FALSE))
      /\ Dead(LetGoDevice(h, n)) = Dead(h)
  <2>1. Refs(user, LetGoDevice(h, n), image, Put(kept, f, Nothing), Put(parts, f, {}),
             Put(scratch, f, FALSE))
    BY <1>0, <1>1, DropNet
  <2>2. Dead(LetGoDevice(h, n)) = Dead(h)
    BY <1>1 DEF Dead, LetGoDevice, Refs, RefsType
  <2>. QED BY <2>1, <2>2
<1>6. f \in live => f \in LetGoDevice(h, n).live
  BY <1>3, <1>4, OnlyThat
<1>. QED BY <1>1, <1>2, <1>5, <1>6

LEMMA RebuildKeeps == ASSUME Inv, NEW t \in Threads, Rebuild(t) PROVE Inv'
<1>. DEFINE f == obj[t]  h == Clear(Heap, f)
<1>1. at[t] = "in" /\ op[t] = "commitFilter"
  BY DEF Rebuild, In
<1>2. f \in Filters /\ f \in live /\ op[t] # "destroy"
  BY <1>1, FilterOfCall DEF FilterOps
<1>3. /\ Graph /\ Refs(user, Heap, image, kept, parts, scratch)
      /\ lent \in [Filters -> BOOLEAN] /\ due \in [Filters -> {"nothing", "commit", "init"}]
      /\ \A g \in Filters : lent[g] => kept[g] = Nothing
  BY DEF Inv, Graph
<1>4. /\ kept' = Put(kept, f, Nothing) /\ lent' = Put(lent, f, FALSE)
      /\ UNCHANGED <<user, image, mutex, calls, device, seen>>
  BY DEF Rebuild, Put
<1>5. PICK p \in SUBSET Parts, s \in BOOLEAN, end \in {"out", "raise"} :
        /\ Becomes(Hold(h, Device, NetRefs(f, p, s)))
        /\ parts' = Put(parts, f, p) /\ scratch' = Put(scratch, f, s)
        /\ due' = Put(due, f, IF end = "out" THEN "nothing" ELSE "init")
        /\ Goto(t, end)
  BY DEF Rebuild, Put
<1>. DEFINE L == Put(kept, f, Nothing)  P == Put(parts, f, {})  S == Put(scratch, f, FALSE)
<1>6. Refs(user, h, image, L, P, S) /\ Dead(h) = Dead(Heap) /\ f \in h.live
  BY <1>2, <1>3, ClearRefs
<1>7. /\ P[f] = {} /\ ~S[f] /\ Put(P, f, p) = Put(parts, f, p) /\ Put(S, f, s) = Put(scratch, f, s)
      /\ \A g \in Filters \ {f} : S[g] = scratch[g]
  BY <1>2, <1>3 DEF Put, Refs, RefsType
<1>. DEFINE n == Share(f, Put(P, f, p), Put(S, f, s))
<1>8. n = NetRefs(f, p, s)
  BY <1>2, <1>3, <1>7 DEF Share, NetRefs, Put, Refs, RefsType
<1>. HIDE DEF h, L, P, S, f
<1>9. /\ Refs(user, Hold(h, Device, n), image, L, Put(P, f, p), Put(S, f, s))
      /\ Dead(Hold(h, Device, n)) = Dead(h)
  BY <1>2, <1>6, <1>7, MakeNet
<1>10. Becomes(Hold(h, Device, n))
  BY <1>5, <1>8
<1>11. /\ Refs(user, Heap', image, L, Put(P, f, p), Put(S, f, s))
       /\ Dead(Heap') = Dead(Heap)
  BY <1>6, <1>9, <1>10, Became
<1>12. /\ lent' \in [Filters -> BOOLEAN]
       /\ due' \in [Filters -> {"nothing", "commit", "init"}]
       /\ \A g \in Filters : lent'[g] => kept'[g] = Nothing
  BY <1>2, <1>3, <1>4, <1>5 DEF Put, Refs, RefsType
<1>13. Graph'
  BY <1>4, <1>5, <1>7, <1>11, <1>12 DEF Graph, L
<1>. QED BY <1>1, <1>2, <1>4, <1>5, <1>11, <1>13, Effect

LEMMA DestroyFilterKeeps == ASSUME Inv, NEW t \in Threads, DestroyFilter(t) PROVE Inv'
<1>. DEFINE f == obj[t]  h == Clear(Heap, f)  k == LetGo(h, image[f])
            J == Put(image, f, Nothing)  L == Put(kept, f, Nothing)
            P == Put(parts, f, {})  S == Put(scratch, f, FALSE)
<1>1. /\ at[t] = "in" /\ op[t] = "destroy" /\ f \in Filters
      /\ Becomes(Delete(k, f)) /\ Goto(t, "out")
      /\ image' = J /\ kept' = L /\ lent' = Put(lent, f, FALSE) /\ parts' = P /\ scratch' = S
      /\ due' = Put(due, f, "init")
      /\ UNCHANGED <<user, mutex, calls, device, seen>>
  BY DEF DestroyFilter, In, Put
<1>2. f \in Dead(Heap)
  BY <1>1 DEF Inv, Doomed, Destroying
<1>3. /\ Graph /\ Refs(user, Heap, image, kept, parts, scratch)
      /\ lent \in [Filters -> BOOLEAN] /\ due \in [Filters -> {"nothing", "commit", "init"}]
      /\ \A g \in Filters : lent[g] => kept[g] = Nothing
  BY DEF Inv, Graph
<1>4. J[f] = Nothing /\ L[f] = Nothing /\ P[f] = {} /\ ~S[f]
  BY <1>1, <1>3 DEF Put, Refs, RefsType
<1>5. /\ lent' \in [Filters -> BOOLEAN]
      /\ due' \in [Filters -> {"nothing", "commit", "init"}]
      /\ \A g \in Filters : lent'[g] => kept'[g] = Nothing
  BY <1>1, <1>3 DEF Put, Refs, RefsType
<1>6. Refs(user, h, image, L, P, S) /\ Dead(h) = Dead(Heap)
  BY <1>1, <1>3, ClearRefs
<1>. HIDE DEF h, L, P, S
<1>7. Refs(user, k, J, L, P, S) /\ Dead(k) = Dead(h)
  BY <1>1, <1>6, DropImage
<1>. HIDE DEF k, J, f
<1>8. Refs(user, Delete(k, f), J, L, P, S) /\ Dead(Delete(k, f)) = Dead(k) \ {f}
  BY <1>2, <1>4, <1>6, <1>7, DeleteRefs
<1>9. Refs(user, Heap', J, L, P, S) /\ Dead(Heap') = Dead(Heap) \ {f}
  BY <1>1, <1>6, <1>7, <1>8, Became
<1>10. Graph'
  BY <1>1, <1>5, <1>9 DEF Graph
<1>. QED BY <1>1, <1>9, <1>10, Effect DEF f

LEMMA DestroyBufferKeeps == ASSUME Inv, NEW t \in Threads, DestroyBuffer(t) PROVE Inv'
<1>. DEFINE b == obj[t]
<1>1. /\ at[t] = "in" /\ op[t] = "destroy" /\ b \in Buffers
      /\ Becomes(Delete(Heap, b)) /\ Goto(t, "out")
      /\ UNCHANGED <<user, image, network, due, mutex, calls, device, seen>>
  BY DEF DestroyBuffer, In
<1>2. b \in Dead(Heap) /\ b \notin Filters
  BY <1>1, Constants DEF Inv, Doomed, Destroying
<1>3. Refs(user, Heap, image, kept, parts, scratch)
  BY DEF Inv, Graph
<1>. HIDE DEF b
<1>4. /\ Refs(user, Delete(Heap, b), image, kept, parts, scratch)
      /\ Dead(Delete(Heap, b)) = Dead(Heap) \ {b}
  BY <1>2, <1>3, DeleteRefs
<1>5. Refs(user, Heap', image, kept, parts, scratch) /\ Dead(Heap') = Dead(Heap) \ {b}
  BY <1>1, <1>4, Became
<1>6. Graph'
  BY <1>1, <1>5 DEF Inv, Graph, network
<1>. QED BY <1>1, <1>5, <1>6, Effect DEF b
-------------------------------------------------------------------------------
\* A new object: the user gets a handle, the object a reference to its device.
LEMMA NewRefs ==
  ASSUME NEW u, NEW h, NEW I, NEW K, NEW P, NEW S, Refs(u, h, I, K, P, S),
         NEW o \in Objects \ {Device}, o \notin h.live, Device \in h.live,
         NEW g, g.live = h.live \cup {o},
         g.rc = [h.rc EXCEPT ![o] = 1, ![Device] = h.rc[Device] + 1]
  PROVE  Refs([u EXCEPT ![o] = 1], g, I, K, P, S)
<1>. DEFINE v == [u EXCEPT ![o] = 1]
<1>0. /\ \A x \in Objects : h.rc[x] \in Nat /\ u[x] \in Nat
      /\ h.rc[o] = 0
  BY DEF Refs, RefsType, RefsExist
<1>1. /\ \A x \in Objects : g.rc[x] = IF x = o THEN 1
                                      ELSE IF x = Device THEN h.rc[Device] + 1 ELSE h.rc[x]
      /\ \A x \in Objects : v[x] = IF x = o THEN 1 ELSE u[x]
      /\ g.rc \in [Objects -> Nat] /\ v \in [Objects -> Nat]
  BY <1>0, Constants DEF Refs, RefsType
<1>. HIDE DEF v
<1>2. u[o] = 0
  BY <1>0, Handle
<1>3. /\ IsFiniteSet(g.live)
      /\ Cardinality(g.live \ {Device}) = Cardinality(h.live \ {Device}) + 1
  <2>1. IsFiniteSet(h.live)
    BY DEF Refs, RefsType
  <2>2. IsFiniteSet(h.live \ {Device})
    BY Sizes
  <2>3. g.live \ {Device} = (h.live \ {Device}) \cup {o} /\ o \notin h.live \ {Device}
    OBVIOUS
  <2>4. Cardinality((h.live \ {Device}) \cup {o}) = Cardinality(h.live \ {Device}) + 1
    BY <2>2, <2>3, FS_AddElement
  <2>5. IsFiniteSet(g.live)
    BY <2>1, FS_AddElement
  <2>. QED BY <2>3, <2>4, <2>5
<1>4. RefsType(v, g, I, K, P, S)
  BY <1>1, <1>3 DEF Refs, RefsType
<1>5. RefsCount(v, g, I, K, P, S)
  <2>1. ASSUME NEW f \in Filters PROVE g.rc[f] = v[f]
    BY <1>1, Constants DEF Refs, RefsCount
  <2>2. ASSUME NEW b \in Buffers
        PROVE  g.rc[b] = v[b] + Cardinality(Slot(I, b)) + Cardinality(Slot(K, b))
    <3>1. h.rc[b] = u[b] + Cardinality(Slot(I, b)) + Cardinality(Slot(K, b))
          /\ b \in Objects /\ b # Device
      BY Constants DEF Refs, RefsCount
    <3>2. Cardinality(Slot(I, b)) \in Nat /\ Cardinality(Slot(K, b)) \in Nat
      BY Sizes
    <3>. QED BY <1>0, <1>1, <1>2, <3>1, <3>2
  <2>3. g.rc[Device] = v[Device] + Cardinality(g.live \ {Device}) + NetTotal(P, S)
    <3>1. h.rc[Device] = u[Device] + Cardinality(h.live \ {Device}) + NetTotal(P, S)
      BY DEF Refs, RefsCount
    <3>2. Cardinality(h.live \ {Device}) \in Nat /\ NetTotal(P, S) \in Nat
      BY Sizes
    <3>3. g.rc[Device] = h.rc[Device] + 1 /\ v[Device] = u[Device] /\ u[Device] \in Nat
      BY <1>0, <1>1, Constants
    <3>. QED BY <1>3, <3>1, <3>2, <3>3
  <2>. QED BY <2>1, <2>2, <2>3 DEF RefsCount
<1>6. RefsExist(g, I, K, P, S)
  BY <1>0, <1>1, Constants DEF Refs, RefsExist
<1>. QED BY <1>4, <1>5, <1>6 DEF Refs, v

LEMMA NewObjectKeeps == ASSUME Inv, NEW t \in Threads, NewObject(t) PROVE Inv'
<1>1. PICK o \in (IF op[t] = "newBuffer" THEN Buffers ELSE Filters) \ live :
        /\ live' = live \cup {o}
        /\ rc' = [rc EXCEPT ![o] = 1, ![Device] = rc[Device] + 1]
        /\ user' = [user EXCEPT ![o] = 1]
  BY DEF NewObject
<1>2. /\ at[t] = "in" /\ op[t] \in DeviceOps /\ op[t] # "destroy"
      /\ Goto(t, "out") /\ at' = [at EXCEPT ![t] = "out"]
      /\ UNCHANGED <<image, lent, kept, parts, scratch, due, mutex, op, obj, arg, dirty, committed,
                     errorFunc, errorUserPtr, seen>>
  BY DEF NewObject, In, Goto, DeviceOps, network, calls, device
<1>3. o \in Objects \ {Device} /\ o \notin live
  BY Constants
<1>4. /\ Refs(user, Heap, image, kept, parts, scratch) /\ Heap.live = live /\ Heap.rc = rc
      /\ Heap'.live = live' /\ Heap'.rc = rc' /\ user \in [Objects -> Nat]
  BY DEF Inv, Graph, Refs, RefsType, Heap
<1>5. Device \in live
  <2>1. obj[t] = Device /\ user[Device] > 0
    BY <1>2 DEF Inv, Called, CalledBy, Idle
  <2>. QED BY <1>4, <2>1, Handle, Constants
<1>6. Refs(user', Heap', image, kept, parts, scratch) /\ Dead(Heap') = Dead(Heap)
  <2>1. /\ Heap'.live = Heap.live \cup {o} /\ o \notin Heap.live /\ Device \in Heap.live
        /\ Heap'.rc = [Heap.rc EXCEPT ![o] = 1, ![Device] = Heap.rc[Device] + 1]
    BY <1>1, <1>3, <1>4, <1>5
  <2>. HIDE DEF Heap
  <2>2. Refs([user EXCEPT ![o] = 1], Heap', image, kept, parts, scratch)
    BY <1>3, <1>4, <2>1, NewRefs
  <2>3. Dead(Heap') = Dead(Heap)
    BY <1>3, <1>4, <2>1 DEF Dead, Refs, RefsType
  <2>. QED BY <1>1, <2>2, <2>3
<1>7. Graph'
  BY <1>2, <1>6 DEF Inv, Graph
<1>8. Thread' /\ Alone(t)
  BY <1>2, StageStep DEF Inv, Thread, CallTypeOK, Holding
<1>9. ~Idle(t) /\ ~Destroying(t) /\ ~Destroying(t)'
  BY <1>2 DEF Destroying, Idle
<1>10. /\ \A x \in Objects : user[x] > 0 => user'[x] > 0
       /\ user'[Device] = user[Device]
  BY <1>1, <1>3, <1>4, Constants
<1>11. Called'
  <2>1. ASSUME NEW x \in Threads PROVE CalledBy(x)'
    <3>1. CalledBy(x) /\ (~Idle(x)' => ~Idle(x)) /\ (at'[x] = "half" => at[x] = "half")
      BY <1>2, <1>9 DEF Inv, Called, Thread, CallTypeOK, Idle
    <3>. QED BY <1>2, <1>10, <3>1, Constants DEF CalledBy
  <2>. QED BY <2>1 DEF Called
<1>12. HeldToTheEnd'
  <2>1. DeviceLast => user[Device] > 0
    BY <1>9 DEF Inv, HeldToTheEnd
  <2>. QED BY <1>10, <2>1 DEF HeldToTheEnd
<1>13. Doomed'
  BY <1>6, <1>8, <1>9, SameDoomed DEF Inv
<1>. QED BY <1>7, <1>8, <1>11, <1>12, <1>13 DEF Inv

LEMMA RetainKeeps ==
  ASSUME Inv, NEW t \in Threads, NEW o \in Objects, Retain(t, o) PROVE Inv'
<1>1. /\ user[o] \in 1..(MaxHandles[o] - 1)
      /\ rc' = [rc EXCEPT ![o] = rc[o] + 1] /\ user' = More(user, o, 1) /\ live' = live
      /\ UNCHANGED <<image, lent, kept, parts, scratch, due, mutex, op, obj, arg, at, dirty,
                     committed, errorFunc, errorUserPtr, seen>>
  BY DEF Retain, network, calls, device, More
<1>2. /\ Refs(user, Heap, image, kept, parts, scratch) /\ Heap.live = live /\ Heap.rc = rc
      /\ user \in [Objects -> Nat]
  BY DEF Inv, Graph, Refs, RefsType, Heap
<1>3. user[o] > 0
  <2>1. MaxHandles[o] - 1 \in Int
    BY ApiAssumption
  <2>. QED BY <1>1, <2>1
<1>4. rc[o] > 0
  BY <1>2, <1>3, Handle
<1>5. /\ Refs(user', Hold(Heap, o, 1), image, kept, parts, scratch)
      /\ Dead(Hold(Heap, o, 1)) = Dead(Heap)
  BY <1>1, <1>2, <1>4, HoldRefs
<1>6. Becomes(Hold(Heap, o, 1))
  BY <1>1, <1>2, Constants DEF Becomes, Hold
<1>7. Refs(user', Heap', image, kept, parts, scratch) /\ Dead(Heap') = Dead(Heap)
  BY <1>5, <1>6, Became
<1>8. Graph'
  BY <1>1, <1>7 DEF Inv, Graph
<1>9. \A x \in Objects : user[x] > 0 <=> user'[x] > 0
  BY <1>1, <1>2, <1>3 DEF More
<1>10. Thread'
  BY <1>1 DEF Inv, Thread, CallTypeOK, Locked, Paired, CallbackPaired
<1>11. Called'
  <2>1. ASSUME NEW x \in Threads PROVE CalledBy(x)'
    <3>1. CalledBy(x)
      BY DEF Inv, Called
    <3>. QED BY <1>1, <1>9, <3>1, Constants DEF CalledBy, Idle
  <2>. QED BY <2>1 DEF Called
<1>12. HeldToTheEnd'
  BY <1>1, <1>9, Constants DEF Inv, HeldToTheEnd, Idle
<1>13. Doomed'
  BY <1>1, <1>7 DEF Inv, Doomed, Destroying
<1>. QED BY <1>8, <1>10, <1>11, <1>12, <1>13 DEF Inv

\* Of the handles that a call uses one is left.
LEMMA ReleaseHandles ==
  ASSUME Inv, NEW t \in Threads, NEW o \in Objects, Idle(t), MayRelease(o),
         user' = Fewer(user, o, 1), Alone(t), CalledBy(t)',
         ~Idle(t)' => o # Device
  PROVE  Called' /\ HeldToTheEnd'
<1>0. Called /\ HeldToTheEnd /\ user \in [Objects -> Nat]
  BY DEF Inv, Graph, Refs, RefsType
<1>1. /\ \A x \in Objects : user[x] \in Nat
      /\ \A x \in Objects : user'[x] = IF x = o THEN user[o] - 1 ELSE user[x]
  BY <1>0 DEF Fewer
<1>2. ASSUME NEW u \in Threads \ {t} PROVE CalledBy(u)'
  <2>1. /\ at'[u] = at[u] /\ op'[u] = op[u] /\ obj'[u] = obj[u] /\ arg'[u] = arg[u]
        /\ CalledBy(u)
    BY <1>0 DEF Alone, Called
  <2>2. ASSUME NEW x \in Objects, user[x] > 0, ~Idle(u), x = obj[u] \/ x = arg[u]
        PROVE  user'[x] > 0
    BY <1>1, <2>2 DEF MayRelease, Unused
  <2>. QED BY <2>1, <2>2, Constants DEF CalledBy, Idle
<1>3. ASSUME DeviceLast, NEW u \in Threads, ~Idle(u)' PROVE user'[Device] > 0
  <2>1. u # t => ~Idle(u)
    BY <1>3 DEF Alone, Idle
  <2>2. user[Device] > 0
    BY <1>0, <1>3, <2>1 DEF HeldToTheEnd, MayRelease
  <2>3. o = Device => u # t /\ user[Device] # 1
    BY <1>3, <2>1, Constants DEF MayRelease
  <2>. QED BY <1>1, <2>2, <2>3, Constants
<1>4. ASSUME DeviceLast, NEW x \in Objects, user'[x] > 0 PROVE user'[Device] > 0
  <2>1. user[x] > 0
    BY <1>1, <1>4
  <2>2. user[Device] > 0
    BY <1>0, <1>4, <2>1 DEF HeldToTheEnd
  <2>3. o = Device => x = Device \/ user[Device] # 1
    BY <1>4, <2>1 DEF MayRelease
  <2>. QED BY <1>1, <1>4, <2>2, <2>3, Constants
<1>. QED BY <1>2, <1>3, <1>4 DEF Called, HeldToTheEnd

LEMMA ReleaseKeeps ==
  ASSUME Inv, NEW t \in Threads, NEW o \in Objects, Release(t, o) PROVE Inv'
<1>1. /\ at[t] = "idle" /\ Idle(t) /\ MayRelease(o) /\ user[o] > 0
      /\ rc' = [rc EXCEPT ![o] = rc[o] - 1] /\ user' = Fewer(user, o, 1)
      /\ UNCHANGED <<image, lent, kept, parts, scratch, due, mutex, dirty, committed, errorFunc,
                     errorUserPtr, seen>>
  BY DEF Release, network, device, Idle, MayRelease, Fewer
<1>2. /\ Refs(user, Heap, image, kept, parts, scratch) /\ Heap.live = live /\ Heap.rc = rc
      /\ user \in [Objects -> Nat] /\ rc \in [Objects -> Nat] /\ live \subseteq Objects
  BY DEF Inv, Graph, Refs, RefsType, Heap
<1>3. rc[o] \in Nat /\ user[o] \in Nat /\ rc[o] > 0 /\ o \in live
  BY <1>1, <1>2, Handle
<1>4. CASE o = Device
  <2>1. /\ UNCHANGED <<op, obj, arg, at>>
        /\ live' = IF rc[Device] = 1 THEN live \ {Device} ELSE live
    BY <1>3, <1>4 DEF Release, calls
  <2>. DEFINE h == LetGoDevice(Heap, 1)
  <2>2. Refs(user', h, image, kept, parts, scratch) /\ Dead(h) = Dead(Heap)
    BY <1>1, <1>2, <1>3, <1>4, DeviceRefs
  <2>3. Becomes(h)
    BY <1>1, <1>2, <1>4, <2>1 DEF Becomes, LetGoDevice
  <2>. HIDE DEF h
  <2>4. Refs(user', Heap', image, kept, parts, scratch) /\ Dead(Heap') = Dead(Heap)
    BY <2>2, <2>3, Became
  <2>5. Graph'
    BY <1>1, <2>4 DEF Inv, Graph
  <2>6. Thread' /\ Alone(t) /\ Idle(t)'
    BY <1>1, <2>1 DEF Inv, Thread, CallTypeOK, Locked, Paired, CallbackPaired, Alone, Idle
  <2>7. CalledBy(t)'
    BY <2>6, <1>1, <2>1 DEF CalledBy, Idle
  <2>8. Called' /\ HeldToTheEnd'
    BY <1>1, <2>6, <2>7, ReleaseHandles
  <2>9. Doomed'
    BY <2>1, <2>4 DEF Inv, Doomed, Destroying
  <2>. QED BY <2>5, <2>6, <2>8, <2>9 DEF Inv
<1>5. CASE o # Device
  <2>. DEFINE h == Less(Heap, o)
  <2>1. live' = live
    BY <1>3, <1>5 DEF Release
  <2>2. /\ Refs(user', h, image, kept, parts, scratch)
        /\ Dead(h) = IF rc[o] = 1 THEN Dead(Heap) \cup {o} ELSE Dead(Heap)
        /\ o \notin Dead(Heap)
    BY <1>1, <1>2, <1>5, LessRefs
  <2>3. Becomes(h)
    BY <1>1, <1>2, <2>1 DEF Becomes, Less
  <2>. HIDE DEF h
  <2>4. /\ Refs(user', Heap', image, kept, parts, scratch)
        /\ Dead(Heap') = IF rc[o] = 1 THEN Dead(Heap) \cup {o} ELSE Dead(Heap)
    BY <2>2, <2>3, Became
  <2>5. Graph'
    BY <1>1, <2>4 DEF Inv, Graph
  <2>6. CASE rc[o] # 1
    <3>1. UNCHANGED <<op, obj, arg, at>>
      BY <1>5, <2>6 DEF Release, calls
    <3>2. Thread' /\ Alone(t) /\ Idle(t)'
      BY <1>1, <3>1 DEF Inv, Thread, CallTypeOK, Locked, Paired, CallbackPaired, Alone, Idle
    <3>3. CalledBy(t)'
      BY <1>1, <3>1 DEF CalledBy, Idle
    <3>4. Called' /\ HeldToTheEnd'
      BY <1>1, <3>2, <3>3, ReleaseHandles
    <3>5. Doomed'
      BY <2>4, <2>6, <3>1 DEF Inv, Doomed, Destroying
    <3>. QED BY <2>5, <3>2, <3>4, <3>5 DEF Inv
  <2>7. CASE rc[o] = 1
    <3>1. /\ op' = [op EXCEPT ![t] = "destroy"] /\ obj' = [obj EXCEPT ![t] = o]
          /\ arg' = [arg EXCEPT ![t] = Nothing] /\ at' = [at EXCEPT ![t] = "wait"]
      BY <1>5, <2>7 DEF Release, Goto
    <3>2. Alone(t)
      BY <1>1, <3>1 DEF Inv, Alone, Thread, CallTypeOK
    <3>3. CallTypeOK'
      BY <1>1, <3>1 DEF Inv, Thread, CallTypeOK
    <3>4. Locked' /\ Paired'
      BY <1>1, <3>1 DEF Inv, Thread, CallTypeOK, Locked, Paired, CallbackPaired, Holding
    <3>5. CalledBy(t)' /\ ~Destroying(t)
      BY <1>1, <3>1 DEF Inv, Thread, CallTypeOK, CalledBy, Destroying
    <3>6. Called' /\ HeldToTheEnd'
      BY <1>1, <1>5, <3>2, <3>5, ReleaseHandles
    <3>7. Doomed'
      <4>1. Destroying(t)' /\ obj'[t] = o /\ arg'[t] = Nothing
        BY <3>1 DEF Inv, Destroying, Thread, CallTypeOK
      <4>2. \A u \in Threads \ {t} : /\ Destroying(u)' <=> Destroying(u)
                                     /\ obj'[u] = obj[u] /\ arg'[u] = arg[u]
        BY <3>2 DEF Alone, Destroying
      <4>3. Dead(Heap)' = Dead(Heap) \cup {o}
        BY <2>4, <2>7
      <4>4. \A u \in Threads \ {t} : Destroying(u) => obj[u] # o
        BY <2>2 DEF Inv, Doomed
      <4>5. \A u \in Threads : Destroying(u)' => obj'[u] \in Dead(Heap)' /\ arg'[u] = Nothing
        BY <4>1, <4>2, <4>3 DEF Inv, Doomed
      <4>6. \A u, v \in Threads : Destroying(u)' /\ Destroying(v)' /\ u # v => obj'[u] # obj'[v]
        BY <4>1, <4>2, <4>4 DEF Inv, Doomed
      <4>7. \A x \in Dead(Heap)' : \E u \in Threads : Destroying(u)' /\ obj'[u] = x
        BY <3>5, <4>1, <4>2, <4>3 DEF Inv, Doomed
      <4>. QED BY <4>5, <4>6, <4>7 DEF Doomed
    <3>. QED BY <2>5, <3>2, <3>3, <3>4, <3>6, <3>7 DEF Inv, Thread
  <2>. QED BY <2>6, <2>7
<1>. QED BY <1>4, <1>5
-------------------------------------------------------------------------------
LEMMA InitInv == Init => Inv
<1>. SUFFICES ASSUME Init PROVE Inv
  OBVIOUS
<1>1. /\ live = {Device}
      /\ rc = [o \in Objects |-> IF o = Device THEN 1 ELSE 0]
      /\ user = rc
      /\ image = [f \in Filters |-> Nothing]
      /\ lent = [f \in Filters |-> FALSE] /\ kept = [f \in Filters |-> Nothing]
      /\ parts = [f \in Filters |-> {}] /\ scratch = [f \in Filters |-> FALSE]
      /\ due = [f \in Filters |-> "init"]
      /\ mutex = Nothing
      /\ op = [t \in Threads |-> "none"] /\ at = [t \in Threads |-> "idle"]
      /\ obj = [t \in Threads |-> Nothing] /\ arg = [t \in Threads |-> Nothing]
      /\ dirty = TRUE /\ committed = FALSE
      /\ errorFunc = Nothing /\ errorUserPtr = Nothing
      /\ seen = [t \in Threads |-> <<Nothing, Nothing>>]
  BY DEF Init
<1>2. Heap.live = {Device} /\ Heap.rc = rc
  BY <1>1 DEF Heap
<1>3. RefsType(user, Heap, image, kept, parts, scratch)
  <2>1. Heap.live \subseteq Objects /\ IsFiniteSet(Heap.live)
    BY <1>2, FS_Singleton, Constants
  <2>2. rc \in [Objects -> Nat] /\ user \in [Objects -> Nat]
    BY <1>1
  <2>3. /\ image \in [Filters -> Buffers \cup {Nothing}]
        /\ kept \in [Filters -> Buffers \cup {Nothing}]
        /\ parts \in [Filters -> SUBSET Parts]
    BY <1>1
  <2>4. scratch \in [Filters -> BOOLEAN]
    BY <1>1
  <2>. QED BY <1>2, <2>1, <2>2, <2>3, <2>4 DEF RefsType
<1>4. RefsCount(user, Heap, image, kept, parts, scratch)
  <2>1. Cardinality({}) = 0
    BY FS_EmptySet
  <2>2. \A b \in Buffers : Slot(image, b) = {} /\ Slot(kept, b) = {}
    BY <1>1, Constants DEF Slot
  <2>3. Heap.live \ {Device} = {} /\ PartRefs(parts) = {}
    BY <1>1, <1>2 DEF PartRefs
  <2>4. NetTotal(parts, scratch) = 0
    <3>1. Cardinality(PartRefs(parts)) = 0
      BY <2>1, <2>3
    <3>2. ~\E f \in Filters : scratch[f]
      BY <1>1
    <3>3. NetTotal(parts, scratch) = Cardinality(PartRefs(parts)) + 0
      BY <3>2 DEF NetTotal
    <3>. QED BY <3>1, <3>3
  <2>5. \A o \in Buffers \cup Filters : rc[o] = 0 /\ user[o] = 0
    BY <1>1, Constants
  <2>6. rc[Device] = 1 /\ user[Device] = 1
    BY <1>1, Constants
  <2>7. /\ \A b \in Buffers : Cardinality(Slot(image, b)) = 0 /\ Cardinality(Slot(kept, b)) = 0
        /\ Cardinality(Heap.live \ {Device}) = 0
    BY <2>1, <2>2, <2>3
  <2>. QED BY <1>2, <2>4, <2>5, <2>6, <2>7 DEF RefsCount
<1>5. RefsExist(Heap, image, kept, parts, scratch)
  BY <1>1, <1>2, Constants DEF RefsExist
<1>6. Graph
  BY <1>1, <1>3, <1>4, <1>5 DEF Graph, Refs
<1>7. Thread
  BY <1>1, Constants DEF Thread, CallTypeOK, Locked, Paired, CallbackPaired, Holding
<1>8. Dead(Heap) = {}
  BY <1>2 DEF Dead
<1>9. Doomed /\ Called
  BY <1>1, <1>8 DEF Doomed, Called, CalledBy, Destroying, Idle
<1>10. HeldToTheEnd
  BY <1>1, Constants DEF HeldToTheEnd, Idle
<1>. QED BY <1>6, <1>7, <1>9, <1>10 DEF Inv

LEMMA StutterKeeps == ASSUME Inv, UNCHANGED vars PROVE Inv'
<1>1. UNCHANGED <<live, rc, user, image, network, due, mutex, op, obj, arg, at, dirty, committed,
                  errorFunc, errorUserPtr, seen>>
  BY DEF vars, objects, calls, device
<1>2. Graph' /\ Dead(Heap)' = Dead(Heap)
  BY <1>1, SameGraph DEF Inv, Graph
<1>3. Thread'
  BY <1>1 DEF Inv, Thread, CallTypeOK, Locked, Paired, CallbackPaired
<1>4. Doomed' /\ Called' /\ HeldToTheEnd'
  BY <1>1, <1>2 DEF Inv, Doomed, Destroying, Called, CalledBy, HeldToTheEnd, Idle
<1>. QED BY <1>2, <1>3, <1>4 DEF Inv

\* Every step keeps the invariant.
LEMMA NextInv == Inv /\ [Next]_vars => Inv'
<1>. SUFFICES ASSUME Inv, [Next]_vars PROVE Inv'
  OBVIOUS
<1>1. ASSUME NEW t \in Threads, Body(t) PROVE Inv'
  <2>1. CASE NewFails(t) \/ Set1i(t) \/ Commit(t) \/ CommitFails(t) \/ ExecuteNothing(t)
             \/ FilterFails(t)
    BY <2>1, InCall
  <2>2. CASE NewObject(t) \/ SetErrorFunc(t) \/ SetErrorUserPtr(t) \/ SetParam(t) \/ CommitFilter(t)
    BY <2>2, NewObjectKeeps, SetErrorFuncKeeps, SetErrorUserPtrKeeps, SetParamKeeps
  <2>3. CASE SetImage(t) \/ RemoveImage(t) \/ Rebuild(t) \/ Execute(t) \/ DestroyFilter(t)
             \/ DestroyBuffer(t)
    BY <2>3, SetImageKeeps, RemoveImageKeeps, RebuildKeeps, ExecuteKeeps, DestroyFilterKeeps,
       DestroyBufferKeeps
  <2>. QED BY <1>1, <2>1, <2>2, <2>3 DEF Body
<1>2. ASSUME NEW t \in Threads, Step(t) PROVE Inv'
  BY <1>1, <1>2, LockKeeps, UnlockKeeps, LookUpKeeps, ReportKeeps DEF Step
<1>3. ASSUME NEW t \in Threads, NEW o \in Objects, Retain(t, o) \/ Release(t, o) PROVE Inv'
  BY <1>3, RetainKeeps, ReleaseKeeps
<1>4. CASE Next
  BY <1>2, <1>3, <1>4, CallKeeps DEF Next
<1>. QED BY <1>4, StutterKeeps

LEMMA Always == Spec => []Inv
<1>1. Init => Inv
  BY InitInv
<1>2. Inv /\ [Next]_vars => Inv'
  BY NextInv
<1>. QED BY <1>1, <1>2, PTL DEF Spec
-------------------------------------------------------------------------------
\* The reference counts, handles, images, networks, calls and error functions have
\* their types in every state, whatever the threads do (oidn/core/api.cpp,
\* device.cpp).
THEOREM TypeCorrect == Spec => []TypeOK
<1>1. Inv => TypeOK
  BY DEF Inv, Graph, Refs, RefsType, Heap, Thread, CallTypeOK, TypeOK
<1>. QED BY <1>1, Always, PTL

\* Every reference count is the number of the user's handles and of the references
\* that other objects hold, those of nodes that have kept an image, of networks and
\* of the scratch memory included, at any time (ref.h:10-47).
THEOREM CountsAreExact == Spec => []CountsExact
<1>1. ASSUME Inv PROVE CountsExact
  <2>1. /\ Refs(user, Heap, image, kept, parts, scratch) /\ Heap.live = live /\ Heap.rc = rc
        /\ \A o \in Objects : user[o] \in Nat
    BY <1>1 DEF Inv, Graph, Refs, RefsType, Heap
  <2>2. \A f \in Filters : rc[f] = user[f]
    BY <2>1 DEF Refs, RefsCount
  <2>3. ASSUME NEW b \in Buffers
        PROVE  rc[b] = user[b] + Cardinality({f \in Filters : image[f] = b})
                               + Cardinality({f \in Filters : kept[f] = b})
    BY <2>1 DEF Refs, RefsCount, Slot
  <2>4. rc[Device] = user[Device] + Cardinality(live \ {Device})
                      + Cardinality({x \in Filters \X Parts : x[2] \in parts[x[1]]})
                      + (IF \E f \in Filters : scratch[f] THEN 1 ELSE 0)
    <3>. DEFINE s == IF \E f \in Filters : scratch[f] THEN 1 ELSE 0
    <3>1. rc[Device] = user[Device] + Cardinality(live \ {Device}) + NetTotal(parts, scratch)
      BY <2>1 DEF Refs, RefsCount
    <3>2. NetTotal(parts, scratch) = Cardinality(PartRefs(parts)) + s
      BY DEF NetTotal
    <3>3. /\ user[Device] \in Nat /\ Cardinality(live \ {Device}) \in Nat
          /\ Cardinality(PartRefs(parts)) \in Nat
      BY <2>1, Sizes, Constants
    <3>4. s \in Nat
      OBVIOUS
    <3>. HIDE DEF s
    <3>5. rc[Device] = user[Device] + Cardinality(live \ {Device})
                        + Cardinality(PartRefs(parts)) + s
      BY <3>1, <3>2, <3>3, <3>4
    <3>. QED BY <3>5 DEF s, PartRefs
  <2>. QED BY <2>2, <2>3, <2>4 DEF CountsExact
<1>. QED BY <1>1, Always, PTL

\* An error function is called with the pointer that was registered together with
\* it, though the two are assigned one after the other (device.cpp:48-59).
THEOREM CallbacksArePaired == Spec => []CallbackPaired
<1>1. Inv => CallbackPaired
  BY DEF Inv, Thread, Paired
<1>. QED BY <1>1, Always, PTL

\* An object has its place in the hands of the user, of a filter or of a thread.
LEMMA NeededOrGoing ==
  ASSUME Inv, NEW o \in live \ {Device}
  PROVE  \/ user[o] > 0
         \/ \E f \in Filters \cap live : o \in {image[f], kept[f]}
         \/ \E t \in Threads : op[t] = "destroy" /\ obj[t] = o
<1>1. /\ Refs(user, Heap, image, kept, parts, scratch) /\ Heap.live = live /\ Heap.rc = rc
      /\ o \in Objects /\ user[o] \in Nat /\ rc[o] \in Nat
  BY DEF Inv, Graph, Refs, RefsType, Heap
<1>2. CASE rc[o] = 0
  BY <1>1, <1>2 DEF Inv, Doomed, Destroying, Dead
<1>3. CASE rc[o] # 0 /\ o \in Filters
  BY <1>1, <1>3 DEF Refs, RefsCount
<1>4. CASE rc[o] # 0 /\ o \in Buffers /\ user[o] = 0
  <2>1. rc[o] = user[o] + Cardinality(Slot(image, o)) + Cardinality(Slot(kept, o))
    BY <1>1, <1>4 DEF Refs, RefsCount
  <2>2. Slot(image, o) # {} \/ Slot(kept, o) # {}
    <3>1. Cardinality({}) = 0
      BY FS_EmptySet
    <3>. QED BY <1>4, <2>1, <3>1
  <2>3. PICK f \in Filters : o \in {image[f], kept[f]}
    BY <2>2 DEF Slot
  <2>4. f \in live
    BY <1>1, <2>3, Constants DEF Refs, RefsExist
  <2>. QED BY <2>3, <2>4
<1>. QED BY <1>1, <1>2, <1>3, <1>4 DEF Objects

\* What nobody refers to has been deleted once no call is in progress.
LEMMA InvLeaks == Inv => NothingLeaks
<1>. SUFFICES ASSUME Inv PROVE NothingLeaks
  OBVIOUS
<1>1. ASSUME \A o \in Objects : user[o] = 0, \A t \in Threads : Idle(t) PROVE live = {}
  <2>1. /\ Refs(user, Heap, image, kept, parts, scratch) /\ Heap.live = live /\ Heap.rc = rc
        /\ live \subseteq Objects /\ rc[Device] \in Nat
    BY Constants DEF Inv, Graph, Refs, RefsType, Heap
  <2>2. Dead(Heap) = {}
    BY <1>1 DEF Inv, Doomed, Destroying, Idle
  <2>3. \A f \in Filters : f \notin live
    BY <1>1, <2>1, <2>2, Constants DEF Refs, RefsCount, Dead
  <2>4. \A o \in live \ {Device} : \E t \in Threads : op[t] = "destroy" /\ obj[t] = o
    BY <1>1, <2>1, <2>3, NeededOrGoing
  <2>5. \A f \in Filters : image[f] = Nothing /\ kept[f] = Nothing /\ parts[f] = {} /\ ~scratch[f]
    BY <2>1, <2>3 DEF Refs, RefsExist
  <2>6. Cardinality({}) = 0
    BY FS_EmptySet
  <2>7. ASSUME NEW b \in Buffers, b \in live PROVE FALSE
    <3>1. Slot(image, b) = {} /\ Slot(kept, b) = {}
      BY <2>5, Constants DEF Slot
    <3>2. rc[b] = user[b] + Cardinality(Slot(image, b)) + Cardinality(Slot(kept, b))
      BY <2>1 DEF Refs, RefsCount
    <3>3. rc[b] = 0
      BY <1>1, <2>6, <3>1, <3>2, Constants
    <3>. QED BY <2>1, <2>2, <2>7, <3>3, Constants DEF Dead
  <2>8. live \ {Device} = {}
    BY <2>1, <2>3, <2>7 DEF Objects
  <2>9. rc[Device] = 0
    <3>1. PartRefs(parts) = {}
      BY <2>5 DEF PartRefs
    <3>2. NetTotal(parts, scratch) = 0
      BY <2>5, <2>6, <3>1 DEF NetTotal
    <3>3. rc[Device] = user[Device] + Cardinality(live \ {Device}) + NetTotal(parts, scratch)
      BY <2>1 DEF Refs, RefsCount
    <3>. QED BY <1>1, <2>6, <2>8, <3>2, <3>3, Constants
  <2>. QED BY <2>1, <2>8, <2>9 DEF Refs, RefsExist
<1>. QED BY <1>1, NeededOrGoing DEF NothingLeaks

\* An object that neither the user nor a filter has is gone or being deleted, and
\* when the user has given up all handles and no call is in progress nothing is
\* left, in whatever order the handles were given up (ref.h:26-33, api.cpp's
\* releaseObject, unet.cpp:244-248).
THEOREM NothingIsLeaked == Spec => []NothingLeaks
<1>. QED BY InvLeaks, Always, PTL

LEMMA InvAlive == Inv /\ DeviceLast => AliveInUse
<1>. SUFFICES ASSUME Inv, DeviceLast PROVE AliveInUse
  OBVIOUS
<1>0. /\ Refs(user, Heap, image, kept, parts, scratch) /\ Heap.live = live
      /\ Doomed /\ Called /\ HeldToTheEnd
  BY DEF Inv, Graph, Heap
<1>1. ASSUME NEW t \in Threads, ~Idle(t) PROVE Device \in live
  BY <1>0, <1>1, Handle, Constants DEF HeldToTheEnd
<1>2. ASSUME NEW t \in Threads, at[t] \in {"wait", "in", "half"},
             NEW x \in Objects, x = obj[t] \/ x = arg[t]
      PROVE  x \in live
  <2>1. CASE op[t] = "destroy"
    <3>1. Destroying(t)
      BY <1>0, <1>2, <2>1 DEF Called, CalledBy, Destroying
    <3>. QED BY <1>0, <1>2, <3>1, Constants DEF Doomed, Dead
  <2>2. CASE op[t] # "destroy"
    <3>1. /\ obj[t] \in Objects /\ user[obj[t]] > 0
          /\ arg[t] \in Buffers => user[arg[t]] > 0
      BY <1>0, <1>2, <2>2 DEF Called, CalledBy, Idle
    <3>2. arg[t] \in Objects => arg[t] \in Buffers
      BY Constants DEF Inv, Thread, CallTypeOK
    <3>. QED BY <1>0, <1>2, <3>1, <3>2, Handle
  <2>. QED BY <2>1, <2>2
<1>3. ASSUME NEW f \in Filters PROVE {image[f], kept[f]} \ {Nothing} \subseteq live
  <2>1. image[f] # Nothing => image[f] \in live
    BY <1>0, HeldBuffer
  <2>2. kept[f] # Nothing => kept[f] \in live
    <3>1. Refs(user, Heap, kept, image, parts, scratch)
      BY <1>0, Swap
    <3>. QED BY <1>0, <3>1, HeldBuffer
  <2>. QED BY <2>1, <2>2
<1>. QED BY <1>1, <1>2, <1>3 DEF AliveInUse

\* If the user gives up the device last, whatever a thread in a call still uses
\* exists, and so do the buffers of every filter's image and of the image that its
\* nodes have kept (api.cpp, ref.h:10-47, input_reorder.cpp:36-38).
THEOREM InUseIsAlive == DeviceLast => (Spec => []AliveInUse)
<1>. SUFFICES ASSUME DeviceLast PROVE Spec => []AliveInUse
  OBVIOUS
<1>1. Inv => AliveInUse
  BY InvAlive
<1>. QED BY <1>1, Always, PTL
===============================================================================
