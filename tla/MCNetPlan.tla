------------------------------ MODULE MCNetPlan -------------------------------
(***************************************************************************)
(* The channels of the trained networks (oidn/training/model.py:54-63),       *)
(* uneven ones and ones that grow towards the end, over small tiles.        *)
(***************************************************************************)
EXTENDS NetPlan

Widths(e1, e2, e3, e4, e5, d4, d3, d2, d1a, d1b) ==
  [encConv0 |-> e1, encConv1 |-> e1, encConv2 |-> e2, encConv3 |-> e3, encConv4 |-> e4,
   encConv5a |-> e5, encConv5b |-> e5, decConv4a |-> d4, decConv4b |-> d4,
   decConv3a |-> d3, decConv3b |-> d3, decConv2a |-> d2, decConv2b |-> d2,
   decConv1a |-> d1a, decConv1b |-> d1b, decConv0 |-> 3]

Trained == Widths(32, 48, 64, 80, 96, 112, 96, 64, 64, 32)
Uneven == Widths(7, 9, 33, 5, 130, 17, 1, 65, 20, 3)
Growing == Widths(8, 16, 32, 8, 8, 200, 100, 50, 3, 90)
Deep == Widths(1, 8, 16, 400, 900, 8, 8, 1, 1, 1)

MCShapes == [h : {16, 48}, w : {16}, k : {8, 16}, inputC : {3, 9},
             oc : {Trained, Uneven, Growing, Deep}, temp : {0, 1000}]
===============================================================================
