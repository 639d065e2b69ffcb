------------------------------- MODULE NetPlan --------------------------------
(***************************************************************************)
(* The memory plan of the U-Net (UNetFilter::buildNet): all tensors of the *)
(* network lie in one scratch buffer at offsets that let them overlap as   *)
(* soon as one of them is no longer needed.  The model runs the nodes over *)
(* the tiles of an image and tracks which tensors still hold what their    *)
(* node wrote.                                                             *)
(*                                                                         *)
(* Offsets are relative to the end of the buffer and negative, as in the   *)
(* code.  The arithmetic of a node is left out: its output is good if its  *)
(* inputs were good and lie apart from it, since a node's threads read and *)
(* write at the same time.                                                 *)
(***************************************************************************)
EXTENDS Integers, Sequences

CONSTANTS
  Shapes,   \* records [h, w, k, inputC, oc, temp]: the size of a tile, the block
            \* size of the device, the number of input channels, the output
            \* channels of the convolutions, the bytes of the temporary output
            \* (0 if none is needed)
  Tiles     \* bound: how many tiles are run

Convs == {"encConv0", "encConv1", "encConv2", "encConv3", "encConv4", "encConv5a",
          "encConv5b", "decConv4a", "decConv4b", "decConv3a", "decConv3b",
          "decConv2a", "decConv2b", "decConv1a", "decConv1b", "decConv0"}
Pools == {"pool1", "pool2", "pool3", "pool4"}
Upsamples == {"upsample1", "upsample2", "upsample3", "upsample4"}
Tensors == {"input"} \cup Convs \cup Pools \cup Upsamples

ASSUME PlanAssumption ==
  /\ Tiles \in Nat \ {0}
  /\ \A s \in Shapes :
       /\ s.h \in Nat \ {0} /\ s.h % 16 = 0
       /\ s.w \in Nat \ {0} /\ s.w % 16 = 0
       /\ s.k \in {8, 16}
       /\ s.inputC \in {3, 6, 9}
       /\ s.oc \in [Convs -> Nat \ {0}]
       /\ s.temp \in Nat

VARIABLES
  shape,
  size,     \* alignedByteSize() of each tensor
  ofs,      \* the offset of each tensor
  tile,     \* the tile being run; Tiles + 1 when all have been
  step,     \* the node to run next; Len(Nodes) + 1: the output is reordered
  intact    \* the tensors that hold what their node wrote, "temp" if the
            \* temporary output holds all tiles written so far

vars == <<shape, size, ofs, tile, step, intact>>

RoundUp(n, a) == ((n + a - 1) \div a) * a
Least(a, b) == IF a <= b THEN a ELSE b

\* How often the image has been halved where the tensor is computed.
Level(t) ==
  CASE t \in {"input", "encConv0", "encConv1", "upsample1", "decConv1a",
              "decConv1b", "decConv0"} -> 1
    [] t \in {"pool1", "encConv2", "upsample2", "decConv2a", "decConv2b"} -> 2
    [] t \in {"pool2", "encConv3", "upsample3", "decConv3a", "decConv3b"} -> 4
    [] t \in {"pool3", "encConv4", "upsample4", "decConv4a", "decConv4b"} -> 8
    [] t \in {"pool4", "encConv5a", "encConv5b"} -> 16

\* A pool or upsample node keeps the channels of the convolution before it.
Before == [pool1 |-> "encConv1", pool2 |-> "encConv2", pool3 |-> "encConv3",
           pool4 |-> "encConv4", upsample4 |-> "encConv5b", upsample3 |-> "decConv4b",
           upsample2 |-> "decConv3b", upsample1 |-> "decConv2b"]

Channels(t) ==
  RoundUp(IF t = "input" THEN shape.inputC
          ELSE shape.oc[IF t \in Convs THEN t ELSE Before[t]], shape.k)

\* byteSize() of a tensor of floats.
Bytes(t) == Channels(t) * (shape.h \div Level(t)) * (shape.w \div Level(t)) * 4

InputOfs     == -size.input
EncConv0Ofs  == InputOfs - size.encConv0
Pool1Ofs     == InputOfs - size.pool1
EncConv1Ofs  == Least(EncConv0Ofs, Pool1Ofs) - size.encConv1
Pool2Ofs     == Pool1Ofs - size.pool2
EncConv2Ofs  == Pool2Ofs - size.encConv2
Pool3Ofs     == Pool2Ofs - size.pool3
EncConv3Ofs  == Pool3Ofs - size.encConv3
EncConv4Ofs  == Pool3Ofs - size.encConv4
EncConv5aOfs == Pool3Ofs - size.encConv5a
Pool4Ofs     == Least(EncConv4Ofs, EncConv5aOfs) - size.pool4
Upsample4Ofs == Pool3Ofs - size.upsample4
EncConv5bOfs == Least(EncConv5aOfs, Upsample4Ofs) - size.encConv5b
Upsample3Ofs == Pool2Ofs - size.upsample3
DecConv4bOfs == Upsample3Ofs - size.decConv4b

\* Mutant: upsample4, the source, is not taken into account.
DecConv4aOfs_Overlaps == DecConv4bOfs - size.decConv4a
DecConv4aOfs == Least(Upsample4Ofs, DecConv4bOfs) - size.decConv4a

Upsample2Ofs == Pool1Ofs - size.upsample2
DecConv3bOfs == Upsample2Ofs - size.decConv3b
DecConv3aOfs == Least(Upsample3Ofs, DecConv3bOfs) - size.decConv3a

Upsample1Ofs == InputOfs - size.upsample1

DecConv2bOfs == Upsample1Ofs - size.decConv2b
DecConv2aOfs == Least(Upsample2Ofs, DecConv2bOfs) - size.decConv2a
DecConv1bOfs == -size.decConv1b
DecConv1aOfs == Least(Upsample1Ofs, DecConv1bOfs) - size.decConv1a
DecConv0Ofs  == DecConv1bOfs - size.decConv0

Offsets ==
  [input |-> InputOfs, encConv0 |-> EncConv0Ofs, pool1 |-> Pool1Ofs,
   encConv1 |-> EncConv1Ofs, pool2 |-> Pool2Ofs, encConv2 |-> EncConv2Ofs,
   pool3 |-> Pool3Ofs, encConv3 |-> EncConv3Ofs, encConv4 |-> EncConv4Ofs,
   encConv5a |-> EncConv5aOfs, pool4 |-> Pool4Ofs, upsample4 |-> Upsample4Ofs,
   encConv5b |-> EncConv5bOfs, upsample3 |-> Upsample3Ofs,
   decConv4b |-> DecConv4bOfs, decConv4a |-> DecConv4aOfs,
   upsample2 |-> Upsample2Ofs, decConv3b |-> DecConv3bOfs,
   decConv3a |-> DecConv3aOfs, upsample1 |-> Upsample1Ofs,
   decConv2b |-> DecConv2bOfs, decConv2a |-> DecConv2aOfs,
   decConv1b |-> DecConv1bOfs, decConv1a |-> DecConv1aOfs,
   decConv0 |-> DecConv0Ofs]

\* Mutant: the list of which minOfs is the least element ends too early.
Listed_Short == {"encConv1", "encConv2", "encConv3", "pool4", "encConv5b",
                 "decConv4a", "decConv3a", "decConv2a"}

\* minOfsList.
Listed == {"encConv1", "encConv2", "encConv3", "pool4", "encConv5b", "decConv4a",
           "decConv3a", "decConv2a", "decConv1a", "decConv0"}

MinOfs == CHOOSE m \in {ofs[t] : t \in Listed} : \A t \in Listed : m <= ofs[t]

\* Mutant: the temporary output is placed over the lowest tensors.
TempOfs_Over == MinOfs

\* The temporary output of in-place tiled filtering.
TempOfs == MinOfs - RoundUp(shape.temp, 128)
ScratchSize == -TempOfs

\* Two tensors share no memory.
Apart(t, u) == ofs[t] + size[t] <= ofs[u] \/ ofs[u] + size[u] <= ofs[t]
ApartFromTemp(t) == TempOfs + RoundUp(shape.temp, 128) <= ofs[t]

Node(src, dst) == [src |-> src, dst |-> dst]

\* The nodes in the order they are added and executed.  A decoder's first
\* convolution reads the upsampled tensor and the skipped one as one tensor.
Nodes ==
  <<Node({}, "input"),
    Node({"input"}, "encConv0"), Node({"encConv0"}, "encConv1"), Node({"encConv1"}, "pool1"),
    Node({"pool1"}, "encConv2"), Node({"encConv2"}, "pool2"),
    Node({"pool2"}, "encConv3"), Node({"encConv3"}, "pool3"),
    Node({"pool3"}, "encConv4"), Node({"encConv4"}, "pool4"),
    Node({"pool4"}, "encConv5a"), Node({"encConv5a"}, "encConv5b"),
    Node({"encConv5b"}, "upsample4"),
    Node({"upsample4", "pool3"}, "decConv4a"), Node({"decConv4a"}, "decConv4b"),
    Node({"decConv4b"}, "upsample3"),
    Node({"upsample3", "pool2"}, "decConv3a"), Node({"decConv3a"}, "decConv3b"),
    Node({"decConv3b"}, "upsample2"),
    Node({"upsample2", "pool1"}, "decConv2a"), Node({"decConv2a"}, "decConv2b"),
    Node({"decConv2b"}, "upsample1"),
    Node({"upsample1", "input"}, "decConv1a"), Node({"decConv1a"}, "decConv1b"),
    Node({"decConv1b"}, "decConv0")>>

TypeOK ==
  /\ shape \in Shapes
  /\ size \in [Tensors -> Nat] /\ ofs \in [Tensors -> Int]
  /\ tile \in 1..(Tiles + 1)
  /\ step \in 1..(Len(Nodes) + 1)
  /\ intact \subseteq Tensors \cup {"temp"}

Init ==
  /\ shape \in Shapes
  /\ size = [t \in Tensors |-> RoundUp(Bytes(t), 128)]
  /\ ofs = Offsets
  /\ tile = 1 /\ step = 1
  /\ intact = {"temp"}

\* Mutant: the output is reordered before the last node has run.
ReorderOutput_Early ==
  /\ tile <= Tiles /\ step >= Len(Nodes)
  /\ tile' = tile + 1
  /\ step' = step - Len(Nodes)
  /\ UNCHANGED <<shape, size, ofs, intact>>

\* Network::execute: the next node overwrites whatever lies where it writes.
RunNode ==
  /\ tile <= Tiles /\ step <= Len(Nodes)
  /\ LET n == Nodes[step] IN
     intact' = {t \in intact : IF t = "temp" THEN shape.temp = 0 \/ ApartFromTemp(n.dst)
                                             ELSE Apart(t, n.dst)}
               \cup (IF \A t \in n.src : t \in intact /\ Apart(t, n.dst) THEN {n.dst} ELSE {})
  /\ step' = step + 1
  /\ UNCHANGED <<shape, size, ofs, tile>>

\* The output node writes the tile to the output or to the temporary one.
ReorderOutput ==
  /\ tile <= Tiles /\ step = Len(Nodes) + 1
  /\ tile' = tile + 1
  /\ step' = 1
  /\ UNCHANGED <<shape, size, ofs, intact>>

Next == RunNode \/ ReorderOutput

Spec == Init /\ [][Next]_vars
-------------------------------------------------------------------------------
\* When a tile is written out, the last tensor is the result of a network none of
\* whose tensors was overwritten before its last use, for every tile
\* (unet.cpp:412-438: offsets that overlap on purpose).
OutputIntact == step = Len(Nodes) + 1 => "decConv0" \in intact

\* Nothing the network writes touches the tiles in the temporary output
\* (unet.cpp:454-461).
TempKept == "temp" \in intact

\* Every tensor lies within the scratch buffer (unet.cpp:440-466).
InScratch == \A t \in Tensors : -ScratchSize <= ofs[t] /\ ofs[t] + size[t] <= 0

\* What a decoder reads as one tensor are the upsampled and the skipped tensor
\* without a gap (unet.cpp:548-549 and likewise for the other three levels).
ConcatContiguous ==
  \A c \in {<<"upsample4", "pool3">>, <<"upsample3", "pool2">>,
            <<"upsample2", "pool1">>, <<"upsample1", "input">>} :
    ofs[c[1]] + Bytes(c[1]) = ofs[c[2]]

\* The plan as a whole: no tensor sticks out of the memory that is asked for, and none
\* was moved away from the one it is read together with (unet.cpp:412-466).
LaidOut == InScratch /\ ConcatContiguous
===============================================================================
