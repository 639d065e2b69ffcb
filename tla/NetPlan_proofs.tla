----------------------------- MODULE NetPlan_proofs ----------------------------
(***************************************************************************)
(* The memory plan is right for every number of channels, every tile size  *)
(* and every size of the temporary output: no tensor is overwritten before *)
(* its last use, for any number of tiles.                                  *)
(*                                                                         *)
(* Offsets and sizes never change, so the facts about them (Layout) are    *)
(* about one state.  The invariant says which tensors are still needed     *)
(* before each node; a node keeps those that lie apart from its output.    *)
(***************************************************************************)
EXTENDS NetPlan, TLAPS

\* The plan of the initial state, which no step changes.
Plan ==
  /\ shape \in Shapes
  /\ size = [t \in Tensors |-> RoundUp(Bytes(t), 128)]
  /\ ofs = Offsets

Sized == /\ shape \in Shapes /\ size \in [Tensors -> Nat] /\ ofs = Offsets

\* The tensors that node k or a later one still reads.
Needed ==
  <<{}, {"input"}, {"input", "encConv0"}, {"input", "encConv1"},
    {"input", "pool1"}, {"input", "pool1", "encConv2"},
    {"input", "pool1", "pool2"}, {"input", "pool1", "pool2", "encConv3"},
    {"input", "pool1", "pool2", "pool3"},
    {"input", "pool1", "pool2", "pool3", "encConv4"},
    {"input", "pool1", "pool2", "pool3", "pool4"},
    {"input", "pool1", "pool2", "pool3", "encConv5a"},
    {"input", "pool1", "pool2", "pool3", "encConv5b"},
    {"input", "pool1", "pool2", "pool3", "upsample4"},
    {"input", "pool1", "pool2", "decConv4a"},
    {"input", "pool1", "pool2", "decConv4b"},
    {"input", "pool1", "pool2", "upsample3"},
    {"input", "pool1", "decConv3a"}, {"input", "pool1", "decConv3b"},
    {"input", "pool1", "upsample2"},
    {"input", "decConv2a"}, {"input", "decConv2b"}, {"input", "upsample1"},
    {"decConv1a"}, {"decConv1b"}, {"decConv0"}>>

\* Node k writes apart from what it reads and from what is needed after it.
Sound(k) ==
  LET n == Nodes[k] IN
  /\ \A t \in n.src : t \in Needed[k] /\ Apart(t, n.dst)
  /\ \A t \in Needed[k + 1] : t = n.dst \/ (t \in Needed[k] /\ Apart(t, n.dst))
-------------------------------------------------------------------------------
LEMMA RoundUpNat ==
  ASSUME NEW n \in Nat, NEW a \in {8, 16, 128}
  PROVE  RoundUp(n, a) \in Nat /\ RoundUp(n, a) >= n /\ RoundUp(n, a) % a = 0
<1>1. CASE a = 8
  BY <1>1 DEF RoundUp
<1>2. CASE a = 16
  BY <1>2 DEF RoundUp
<1>3. CASE a = 128
  BY <1>3 DEF RoundUp
<1>. QED BY <1>1, <1>2, <1>3

\* The offsets are integers, given by their definitions.
LEMMA OffsetsAre ==
  ASSUME Sized
  PROVE  /\ ofs["input"] = InputOfs /\ ofs["encConv0"] = EncConv0Ofs
         /\ ofs["pool1"] = Pool1Ofs /\ ofs["encConv1"] = EncConv1Ofs
         /\ ofs["pool2"] = Pool2Ofs /\ ofs["encConv2"] = EncConv2Ofs
         /\ ofs["pool3"] = Pool3Ofs /\ ofs["encConv3"] = EncConv3Ofs
         /\ ofs["encConv4"] = EncConv4Ofs /\ ofs["encConv5a"] = EncConv5aOfs
         /\ ofs["pool4"] = Pool4Ofs /\ ofs["upsample4"] = Upsample4Ofs
         /\ ofs["encConv5b"] = EncConv5bOfs /\ ofs["upsample3"] = Upsample3Ofs
         /\ ofs["decConv4b"] = DecConv4bOfs /\ ofs["decConv4a"] = DecConv4aOfs
         /\ ofs["upsample2"] = Upsample2Ofs /\ ofs["decConv3b"] = DecConv3bOfs
         /\ ofs["decConv3a"] = DecConv3aOfs /\ ofs["upsample1"] = Upsample1Ofs
         /\ ofs["decConv2b"] = DecConv2bOfs /\ ofs["decConv2a"] = DecConv2aOfs
         /\ ofs["decConv1b"] = DecConv1bOfs /\ ofs["decConv1a"] = DecConv1aOfs
         /\ ofs["decConv0"] = DecConv0Ofs
BY DEF Sized, Offsets

\* Each tensor lies below the ones it must not touch; ofs[t] + size[t] is where a
\* tensor ends.
Below(t, u) == ofs[t] + size[t] <= ofs[u]

LEMMA Layout ==
  ASSUME Sized
  PROVE  /\ \A t \in Tensors : ofs[t] \in Int /\ size[t] \in Nat
         /\ \A t \in Tensors : ofs[t] + size[t] <= 0
         /\ \A t \in {"encConv0", "pool1", "upsample1"} : Below(t, "input")
         /\ \A t \in {"encConv1", "pool2", "upsample2"} : Below(t, "pool1")
         /\ \A t \in {"encConv2", "pool3", "upsample3"} : Below(t, "pool2")
         /\ \A t \in {"encConv3", "encConv4", "encConv5a", "upsample4"} : Below(t, "pool3")
         /\ Below("encConv1", "encConv0")
         /\ Below("pool4", "encConv4") /\ Below("pool4", "encConv5a")
         /\ Below("encConv5b", "encConv5a") /\ Below("encConv5b", "upsample4")
         /\ Below("decConv4b", "upsample3")
         /\ Below("decConv4a", "upsample4") /\ Below("decConv4a", "decConv4b")
         /\ Below("decConv3b", "upsample2")
         /\ Below("decConv3a", "upsample3") /\ Below("decConv3a", "decConv3b")
         /\ Below("decConv2b", "upsample1")
         /\ Below("decConv2a", "upsample2") /\ Below("decConv2a", "decConv2b")
         /\ Below("decConv1a", "upsample1") /\ Below("decConv1a", "decConv1b")
         /\ Below("decConv0", "decConv1b")
<1> DEFINE Fits(t) == ofs[t] \in Int /\ size[t] \in Nat /\ ofs[t] + size[t] <= 0
<1>0. \A t \in Tensors : size[t] \in Nat
  BY DEF Sized
<1>1. Fits("input")
  BY <1>0, OffsetsAre DEF InputOfs, Tensors
<1>2. Fits("encConv0") /\ Below("encConv0", "input")
  BY <1>0, <1>1, OffsetsAre DEF EncConv0Ofs, Tensors, Convs, Below
<1>3. Fits("pool1") /\ Below("pool1", "input")
  BY <1>0, <1>1, OffsetsAre DEF Pool1Ofs, Tensors, Pools, Below
<1>4. Fits("encConv1") /\ Below("encConv1", "encConv0") /\ Below("encConv1", "pool1")
  BY <1>0, <1>2, <1>3, OffsetsAre DEF EncConv1Ofs, Tensors, Convs, Below, Least
<1>5. Fits("pool2") /\ Below("pool2", "pool1")
  BY <1>0, <1>3, OffsetsAre DEF Pool2Ofs, Tensors, Pools, Below
<1>6. Fits("encConv2") /\ Below("encConv2", "pool2")
  BY <1>0, <1>5, OffsetsAre DEF EncConv2Ofs, Tensors, Convs, Below
<1>7. Fits("pool3") /\ Below("pool3", "pool2")
  BY <1>0, <1>5, OffsetsAre DEF Pool3Ofs, Tensors, Pools, Below
<1>8. Fits("encConv3") /\ Below("encConv3", "pool3")
  BY <1>0, <1>7, OffsetsAre DEF EncConv3Ofs, Tensors, Convs, Below
<1>9. Fits("encConv4") /\ Below("encConv4", "pool3")
  BY <1>0, <1>7, OffsetsAre DEF EncConv4Ofs, Tensors, Convs, Below
<1>10. Fits("encConv5a") /\ Below("encConv5a", "pool3")
  BY <1>0, <1>7, OffsetsAre DEF EncConv5aOfs, Tensors, Convs, Below
<1>11. Fits("pool4") /\ Below("pool4", "encConv4") /\ Below("pool4", "encConv5a")
  BY <1>0, <1>9, <1>10, OffsetsAre DEF Pool4Ofs, Tensors, Pools, Below, Least
<1>12. Fits("upsample4") /\ Below("upsample4", "pool3")
  BY <1>0, <1>7, OffsetsAre DEF Upsample4Ofs, Tensors, Upsamples, Below
<1>13. Fits("encConv5b") /\ Below("encConv5b", "encConv5a") /\ Below("encConv5b", "upsample4")
  BY <1>0, <1>10, <1>12, OffsetsAre DEF EncConv5bOfs, Tensors, Convs, Below, Least
<1>14. Fits("upsample3") /\ Below("upsample3", "pool2")
  BY <1>0, <1>5, OffsetsAre DEF Upsample3Ofs, Tensors, Upsamples, Below
<1>15. Fits("decConv4b") /\ Below("decConv4b", "upsample3")
  BY <1>0, <1>14, OffsetsAre DEF DecConv4bOfs, Tensors, Convs, Below
<1>16. Fits("decConv4a") /\ Below("decConv4a", "upsample4") /\ Below("decConv4a", "decConv4b")
  BY <1>0, <1>12, <1>15, OffsetsAre DEF DecConv4aOfs, Tensors, Convs, Below, Least
<1>17. Fits("upsample2") /\ Below("upsample2", "pool1")
  BY <1>0, <1>3, OffsetsAre DEF Upsample2Ofs, Tensors, Upsamples, Below
<1>18. Fits("decConv3b") /\ Below("decConv3b", "upsample2")
  BY <1>0, <1>17, OffsetsAre DEF DecConv3bOfs, Tensors, Convs, Below
<1>19. Fits("decConv3a") /\ Below("decConv3a", "upsample3") /\ Below("decConv3a", "decConv3b")
  BY <1>0, <1>14, <1>18, OffsetsAre DEF DecConv3aOfs, Tensors, Convs, Below, Least
<1>20. Fits("upsample1") /\ Below("upsample1", "input")
  BY <1>0, <1>1, OffsetsAre DEF Upsample1Ofs, Tensors, Upsamples, Below
<1>21. Fits("decConv2b") /\ Below("decConv2b", "upsample1")
  BY <1>0, <1>20, OffsetsAre DEF DecConv2bOfs, Tensors, Convs, Below
<1>22. Fits("decConv2a") /\ Below("decConv2a", "upsample2") /\ Below("decConv2a", "decConv2b")
  BY <1>0, <1>17, <1>21, OffsetsAre DEF DecConv2aOfs, Tensors, Convs, Below, Least
<1>23. Fits("decConv1b")
  BY <1>0, OffsetsAre DEF DecConv1bOfs, Tensors, Convs
<1>24. Fits("decConv1a") /\ Below("decConv1a", "upsample1") /\ Below("decConv1a", "decConv1b")
  BY <1>0, <1>20, <1>23, OffsetsAre DEF DecConv1aOfs, Tensors, Convs, Below, Least
<1>25. Fits("decConv0") /\ Below("decConv0", "decConv1b")
  BY <1>0, <1>23, OffsetsAre DEF DecConv0Ofs, Tensors, Convs, Below
<1>26. \A t \in Tensors : Fits(t)
  BY <1>1, <1>2, <1>3, <1>4, <1>5, <1>6, <1>7, <1>8, <1>9, <1>10, <1>11,
     <1>12, <1>13, <1>14, <1>15, <1>16, <1>17, <1>18, <1>19, <1>20, <1>21,
     <1>22, <1>23, <1>24, <1>25
  DEF Tensors, Convs, Pools, Upsamples
<1> HIDE DEF Fits
<1>27. \A t \in Tensors : ofs[t] \in Int /\ size[t] \in Nat /\ ofs[t] + size[t] <= 0
  BY <1>26 DEF Fits
<1>. QED
  BY <1>2, <1>3, <1>4, <1>5, <1>6, <1>7, <1>8, <1>9, <1>10, <1>11, <1>12,
     <1>13, <1>14, <1>15, <1>16, <1>17, <1>18, <1>19, <1>20, <1>21, <1>22,
     <1>23, <1>24, <1>25, <1>27

\* No node destroys what a later one reads.
LEMMA Apartness ==
  ASSUME Sized
  PROVE  \A k \in 1..25 : Sound(k)
<1>. USE Layout DEF Sound, Nodes, Node, Needed, Apart, Below, Tensors, Convs, Pools, Upsamples
<1>1. Sound(1)
  OBVIOUS
<1>2. Sound(2)
  OBVIOUS
<1>3. Sound(3)
  OBVIOUS
<1>4. Sound(4)
  OBVIOUS
<1>5. Sound(5)
  OBVIOUS
<1>6. Sound(6)
  OBVIOUS
<1>7. Sound(7)
  OBVIOUS
<1>8. Sound(8)
  OBVIOUS
<1>9. Sound(9)
  OBVIOUS
<1>10. Sound(10)
  OBVIOUS
<1>11. Sound(11)
  OBVIOUS
<1>12. Sound(12)
  OBVIOUS
<1>13. Sound(13)
  OBVIOUS
<1>14. Sound(14)
  OBVIOUS
<1>15. Sound(15)
  OBVIOUS
<1>16. Sound(16)
  OBVIOUS
<1>17. Sound(17)
  OBVIOUS
<1>18. Sound(18)
  OBVIOUS
<1>19. Sound(19)
  OBVIOUS
<1>20. Sound(20)
  OBVIOUS
<1>21. Sound(21)
  OBVIOUS
<1>22. Sound(22)
  OBVIOUS
<1>23. Sound(23)
  OBVIOUS
<1>24. Sound(24)
  OBVIOUS
<1>25. Sound(25)
  OBVIOUS
<1>. HIDE Layout DEF Sound, Nodes, Node, Needed, Apart, Below, Tensors, Convs, Pools, Upsamples
<1>. QED
  BY <1>1, <1>2, <1>3, <1>4, <1>5, <1>6, <1>7, <1>8, <1>9, <1>10, <1>11,
     <1>12, <1>13, <1>14, <1>15, <1>16, <1>17, <1>18, <1>19, <1>20, <1>21, <1>22, <1>23, <1>24, <1>25

\* The ten offsets of the code's list have a least one, and no tensor lies lower.
LEMMA Lowest ==
  ASSUME Sized
  PROVE  MinOfs \in Int /\ \A t \in Tensors : MinOfs <= ofs[t]
<1>1. \A t \in Listed : ofs[t] \in Int
  BY Layout DEF Listed, Tensors, Convs, Pools
<1>2. PICK m \in {ofs[t] : t \in Listed} : \A t \in Listed : m <= ofs[t]
  <2> DEFINE Has(S) == \E s \in S : \A t \in S : ofs[s] <= ofs[t]
  <2>1. \A S, T \in SUBSET Listed : Has(S) /\ Has(T) => Has(S \cup T)
    BY <1>1
  <2>2. \A s \in Listed : Has({s})
    BY <1>1
  <2> HIDE DEF Has
  <2>3. Has({"encConv1", "encConv2"}) /\ Has({"encConv3", "pool4"})
        /\ Has({"encConv5b", "decConv4a"}) /\ Has({"decConv3a", "decConv2a"})
        /\ Has({"decConv1a", "decConv0"})
    BY <2>1, <2>2 DEF Listed
  <2>4. Has({"encConv1", "encConv2", "encConv3", "pool4"})
        /\ Has({"encConv5b", "decConv4a", "decConv3a", "decConv2a"})
    BY <2>1, <2>3 DEF Listed
  <2>5. Has({"encConv1", "encConv2", "encConv3", "pool4",
             "encConv5b", "decConv4a", "decConv3a", "decConv2a"})
    BY <2>1, <2>4 DEF Listed
  <2>6. Has(Listed)
    BY <2>1, <2>3, <2>5 DEF Listed
  <2>. QED BY <2>6 DEF Has
<1>3. MinOfs \in {ofs[t] : t \in Listed} /\ \A t \in Listed : MinOfs <= ofs[t]
  BY <1>2 DEF MinOfs
<1>4. MinOfs \in Int
  BY <1>1, <1>3
<1>. QED
  BY <1>3, <1>4, Layout DEF Listed, Tensors, Convs, Pools, Upsamples, Below

\* Sizes are natural numbers, whatever the channels.
LEMMA ChannelsNat ==
  ASSUME shape \in Shapes, NEW t \in Tensors
  PROVE  \E c \in Nat : Channels(t) = 8 * c
<1> DEFINE n == IF t = "input" THEN shape.inputC
                ELSE shape.oc[IF t \in Convs THEN t ELSE Before[t]]
<1>1. n \in Nat
  BY PlanAssumption DEF Tensors, Convs, Pools, Upsamples, Before
<1>2. shape.k \in {8, 16}
  BY PlanAssumption
<1> HIDE DEF n
<1>3. RoundUp(n, shape.k) \in Nat /\ RoundUp(n, shape.k) % 8 = 0
  <2>1. CASE shape.k = 8
    <3>1. RoundUp(n, 8) \in Nat /\ RoundUp(n, 8) % 8 = 0
      BY <1>1, RoundUpNat
    <3>. QED BY <2>1, <3>1
  <2>2. CASE shape.k = 16
    <3>1. RoundUp(n, 16) \in Nat /\ RoundUp(n, 16) % 16 = 0
      BY <1>1, RoundUpNat
    <3>2. \A m \in Nat : m % 16 = 0 => m % 8 = 0
      OBVIOUS
    <3>. QED BY <2>2, <3>1, <3>2
  <2>. QED BY <1>2, <2>1, <2>2
<1>4. PICK c \in Nat : RoundUp(n, shape.k) = 8 * c
  BY <1>3
<1>5. Channels(t) = RoundUp(n, shape.k)
  BY DEF Channels, n
<1>. QED BY <1>4, <1>5

LEMMA ProductNat ==
  ASSUME NEW a \in Nat, NEW b \in Nat
  PROVE  a * b \in Nat
OBVIOUS

LEMMA BytesNat ==
  ASSUME shape \in Shapes, NEW t \in Tensors
  PROVE  Bytes(t) \in Nat
<1>1. Channels(t) \in Nat
  BY ChannelsNat
<1>2. Level(t) \in {1, 2, 4, 8, 16}
  BY DEF Level, Tensors, Convs, Pools, Upsamples
<1>3. shape.h \in Nat /\ shape.w \in Nat
  BY PlanAssumption
<1>4. shape.h \div Level(t) \in Nat /\ shape.w \div Level(t) \in Nat
  BY <1>2, <1>3
<1> HIDE DEF Channels
<1>5. Channels(t) * (shape.h \div Level(t)) \in Nat
  BY <1>1, <1>4, ProductNat
<1>6. Channels(t) * (shape.h \div Level(t)) * (shape.w \div Level(t)) \in Nat
  BY <1>4, <1>5, ProductNat
<1>. QED
  BY <1>6 DEF Bytes

LEMMA PlanSized == Plan => Sized
<1>1. SUFFICES ASSUME Plan PROVE \A t \in Tensors : RoundUp(Bytes(t), 128) \in Nat
  BY DEF Plan, Sized
<1>. QED
  BY <1>1, BytesNat, RoundUpNat DEF Plan

\* Tiles are multiples of 16, so all but the deepest level have even sizes.
LEMMA EvenAtLevel ==
  ASSUME NEW n \in Nat, n % 16 = 0, NEW l \in {1, 2, 4, 8}
  PROVE  \E a \in Nat : n \div l = 2 * a
<1>1. PICK q \in Nat : n = 16 * q
  OBVIOUS
<1>2. CASE l = 1
  <2>1. n \div 1 = 2 * (8 * q) /\ 8 * q \in Nat
    BY <1>1
  <2>. QED BY <1>2, <2>1
<1>3. CASE l = 2
  <2>1. n \div 2 = 2 * (4 * q) /\ 4 * q \in Nat
    BY <1>1
  <2>. QED BY <1>3, <2>1
<1>4. CASE l = 4
  <2>1. n \div 4 = 2 * (2 * q) /\ 2 * q \in Nat
    BY <1>1
  <2>. QED BY <1>4, <2>1
<1>5. CASE l = 8
  <2>1. n \div 8 = 2 * q /\ q \in Nat
    BY <1>1
  <2>. QED BY <1>5, <2>1
<1>. QED BY <1>2, <1>3, <1>4, <1>5

\* The bytes of the upper half of a decoder's input need no rounding up: they are
\* those of 8 c channels of an even number of rows and columns.
LEMMA Unpadded ==
  ASSUME shape \in Shapes, NEW t \in Upsamples
  PROVE  RoundUp(Bytes(t), 128) = Bytes(t)
<1>1. PICK c \in Nat : Channels(t) = 8 * c
  BY ChannelsNat DEF Tensors
<1>2. Level(t) \in {1, 2, 4, 8}
  BY DEF Level, Upsamples
<1>3. shape.h \in Nat /\ shape.w \in Nat /\ shape.h % 16 = 0 /\ shape.w % 16 = 0
  BY PlanAssumption
<1>4. PICK a \in Nat : shape.h \div Level(t) = 2 * a
  BY <1>2, <1>3, EvenAtLevel
<1>5. PICK b \in Nat : shape.w \div Level(t) = 2 * b
  BY <1>2, <1>3, EvenAtLevel
<1>6. Bytes(t) = 8 * c * (2 * a) * (2 * b) * 4
  BY <1>1, <1>4, <1>5 DEF Bytes
<1>7. a * b \in Nat /\ c * (a * b) \in Nat
  BY ProductNat
<1>8. Bytes(t) = 128 * (c * (a * b))
  <2>1. (8 * c) * (2 * a) = 16 * (c * a)
    OBVIOUS
  <2>2. (16 * (c * a)) * (2 * b) = 32 * (c * (a * b))
    OBVIOUS
  <2>. QED BY <1>6, <1>7, <2>1, <2>2
<1>9. \A n \in Nat : RoundUp(128 * n, 128) = 128 * n
  BY DEF RoundUp
<1>. QED
  BY <1>7, <1>8, <1>9
-------------------------------------------------------------------------------
\* What is still needed is intact: the core of the invariant.  The conjuncts below it
\* are facts of the plan, which no step changes.
Inv ==
  /\ TypeOK
  /\ Needed[step] \cup {"temp"} \subseteq intact
  /\ \A k \in 1..25 : Sound(k)
  /\ \A t \in Tensors : ApartFromTemp(t)
  /\ InScratch
  /\ ConcatContiguous

LEMMA InitInv == Init => Inv
<1> SUFFICES ASSUME Init PROVE Inv
  OBVIOUS
<1>1. Plan /\ Sized
  BY PlanSized DEF Init, Plan
<1>2. TypeOK
  <2>1. Tiles + 1 \in Nat /\ 1 \in 1..(Tiles + 1)
    BY PlanAssumption
  <2>2. ofs \in [Tensors -> Int]
    <3>1. ofs = [t \in Tensors |-> ofs[t]]
      BY DEF Init, Offsets, Tensors, Convs, Pools, Upsamples
    <3>2. \A t \in Tensors : ofs[t] \in Int
      BY <1>1, Layout
    <3>. QED BY <3>1, <3>2
  <2>. QED
    BY <1>1, <2>1, <2>2 DEF Init, Sized, TypeOK, Nodes
<1>3. Needed[step] \cup {"temp"} \subseteq intact
  BY DEF Init, Needed
<1>4. \A k \in 1..25 : Sound(k)
  BY <1>1, Apartness
<1>5. RoundUp(shape.temp, 128) \in Nat
  BY <1>1, RoundUpNat, PlanAssumption DEF Sized
<1>6. MinOfs \in Int /\ \A t \in Tensors : MinOfs <= ofs[t]
  BY <1>1, Lowest
<1>7. \A t \in Tensors : ofs[t] \in Int /\ ofs[t] + size[t] <= 0
  BY <1>1, Layout
<1>8. \A t \in Tensors : ApartFromTemp(t)
  BY <1>5, <1>6, <1>7 DEF ApartFromTemp, TempOfs
<1>9. InScratch
  BY <1>5, <1>6, <1>7 DEF InScratch, ScratchSize, TempOfs
<1>10. ConcatContiguous
  <2>1. \A t \in Upsamples : size[t] = Bytes(t) /\ Bytes(t) \in Nat
    BY <1>1, Unpadded, BytesNat DEF Plan, Tensors
  <2>2. \A t \in Tensors : ofs[t] \in Int
    BY <1>7
  <2>3. ofs["upsample4"] + Bytes("upsample4") = ofs["pool3"]
    BY <1>1, <2>1, <2>2, OffsetsAre DEF Upsample4Ofs, Upsamples, Tensors, Pools
  <2>4. ofs["upsample3"] + Bytes("upsample3") = ofs["pool2"]
    BY <1>1, <2>1, <2>2, OffsetsAre DEF Upsample3Ofs, Upsamples, Tensors, Pools
  <2>5. ofs["upsample2"] + Bytes("upsample2") = ofs["pool1"]
    BY <1>1, <2>1, <2>2, OffsetsAre DEF Upsample2Ofs, Upsamples, Tensors, Pools
  <2>6. ofs["upsample1"] + Bytes("upsample1") = ofs["input"]
    BY <1>1, <2>1, <2>2, OffsetsAre DEF Upsample1Ofs, Upsamples, Tensors
  <2>. QED
    BY <2>3, <2>4, <2>5, <2>6 DEF ConcatContiguous
<1>. QED
  BY <1>2, <1>3, <1>4, <1>8, <1>9, <1>10 DEF Inv

\* The plan stays as it is.
LEMMA PlanKept ==
  ASSUME Inv, UNCHANGED <<shape, size, ofs>>
  PROVE  /\ \A k \in 1..25 : Sound(k)'
         /\ \A t \in Tensors : ApartFromTemp(t)'
         /\ InScratch'
         /\ ConcatContiguous'
<1>1. MinOfs' = MinOfs
  BY DEF MinOfs
<1>2. TempOfs' = TempOfs
  BY <1>1 DEF TempOfs
<1>3. \A t, u : Apart(t, u)' = Apart(t, u)
  BY DEF Apart
<1>4. \A k \in 1..25 : Sound(k)'
  BY <1>3 DEF Inv, Sound
<1>5. \A t \in Tensors : ApartFromTemp(t)'
  BY <1>2 DEF Inv, ApartFromTemp
<1>6. InScratch'
  BY <1>2 DEF Inv, InScratch, ScratchSize
<1>7. \A t : Bytes(t)' = Bytes(t)
  BY DEF Bytes, Channels
<1>8. ConcatContiguous'
  BY <1>7 DEF Inv, ConcatContiguous
<1>. QED
  BY <1>4, <1>5, <1>6, <1>8

LEMMA RunNodeInv ==
  ASSUME Inv, RunNode
  PROVE  Inv'
<1> DEFINE n == Nodes[step]
<1>1. Len(Nodes) = 25 /\ step \in 1..25 /\ step + 1 \in 1..26
  BY DEF Inv, TypeOK, RunNode, Nodes
<1>2. n.dst \in Tensors
  BY <1>1 DEF Nodes, Node, Tensors, Convs, Pools, Upsamples
<1>3. Sound(step)
  BY <1>1 DEF Inv
<1>4. Needed[step] \cup {"temp"} \subseteq intact
  BY DEF Inv
<1>5. "temp" \notin Needed[step + 1]
  BY <1>1 DEF Needed
<1> HIDE DEF n
<1>6. intact' = {t \in intact : IF t = "temp" THEN shape.temp = 0 \/ ApartFromTemp(n.dst)
                                             ELSE Apart(t, n.dst)}
               \cup (IF \A t \in n.src : t \in intact /\ Apart(t, n.dst) THEN {n.dst} ELSE {})
  BY DEF RunNode, n
<1>7. "temp" \in intact'
  BY <1>2, <1>4, <1>6 DEF Inv
<1>8. Needed[step + 1] \subseteq intact'
  <2>1. /\ \A t \in n.src : t \in Needed[step] /\ Apart(t, n.dst)
        /\ \A t \in Needed[step + 1] : t = n.dst \/ (t \in Needed[step] /\ Apart(t, n.dst))
    BY <1>3 DEF Sound, n
  <2>2. n.dst \in intact'
    BY <1>4, <1>6, <2>1
  <2>3. ASSUME NEW t \in Needed[step + 1], t \in Needed[step], Apart(t, n.dst)
        PROVE  t \in intact'
    BY <1>4, <1>5, <1>6, <2>3
  <2>. QED BY <2>1, <2>2, <2>3
<1>9. TypeOK'
  BY <1>1, <1>2, <1>6 DEF Inv, TypeOK, RunNode
<1>. QED
  BY <1>7, <1>8, <1>9, PlanKept DEF Inv, RunNode

LEMMA ReorderOutputInv ==
  ASSUME Inv, ReorderOutput
  PROVE  Inv'
<1>1. TypeOK'
  BY PlanAssumption DEF Inv, TypeOK, ReorderOutput, Nodes
<1>2. (Needed[step] \cup {"temp"} \subseteq intact)'
  BY DEF Inv, ReorderOutput, Needed
<1>. QED
  BY <1>1, <1>2, PlanKept DEF Inv, ReorderOutput

LEMMA NextInv == Inv /\ [Next]_vars => Inv'
<1> SUFFICES ASSUME Inv, [Next]_vars PROVE Inv'
  OBVIOUS
<1>1. CASE RunNode
  BY <1>1, RunNodeInv
<1>2. CASE ReorderOutput
  BY <1>2, ReorderOutputInv
<1>3. CASE UNCHANGED vars
  <2>1. TypeOK' /\ (Needed[step] \cup {"temp"} \subseteq intact)'
    BY <1>3 DEF Inv, TypeOK, vars
  <2>. QED BY <1>3, <2>1, PlanKept DEF Inv, vars
<1>. QED
  BY <1>1, <1>2, <1>3 DEF Next

LEMMA Invariant == Spec => []Inv
BY InitInv, NextInv, PTL DEF Spec
-------------------------------------------------------------------------------
\* Sizes are natural numbers and offsets integers, for all channel counts and tile
\* sizes, and only existing tensors are counted as intact (unet.cpp:355-466).
THEOREM TypeCorrect == Spec => []TypeOK
<1>1. Inv => TypeOK
  BY DEF Inv
<1>. QED BY <1>1, Invariant, PTL

\* For any channel counts, tile size, block size and number of tiles, the last tensor
\* is good when a tile is written out (unet.cpp:412-438).
THEOREM OutputSurvives == Spec => []OutputIntact
<1>1. Inv => OutputIntact
  BY DEF Inv, OutputIntact, Needed, Nodes
<1>. QED BY <1>1, Invariant, PTL

\* The network never writes to the temporary output (unet.cpp:454-461).
THEOREM TempSurvives == Spec => []TempKept
<1>1. Inv => TempKept
  BY DEF Inv, TempKept
<1>. QED BY <1>1, Invariant, PTL

\* No tensor lies outside the scratch buffer, the list of ten offsets that the code
\* takes the least of is long enough, and a decoder's two inputs are one tensor: rounding
\* up to 128 bytes leaves no gap, as tiles are multiples of 16 and channels of 8
\* (unet.cpp:440-466, 548-549).
THEOREM PlanSound == Spec => []LaidOut
<1>1. Inv => LaidOut
  BY DEF Inv, LaidOut
<1>. QED BY <1>1, Invariant, PTL
===============================================================================
