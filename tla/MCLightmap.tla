------------------------------ MODULE MCLightmap ------------------------------
(***************************************************************************)
(* Runs of the tool on one file system with three lightmaps.               *)
(***************************************************************************)
EXTENDS LightmapRefine

CONSTANTS p1, p2, p3, a, b, c, ta, tb, tc, l1, l2, i1, i2, i3, i4, i5, i6

\* Every lightmap has a file name of its own.
OwnTemp == (a :> ta @@ b :> tb @@ c :> tc)

MCLines == (l1 :> <<a, Blank, b, a>> @@ l2 :> <<c, l1>>)
MCHome == (a :> i1 @@ b :> i2 @@ c :> i3)

\* p1: a list with a blank line, and one of its lightmaps a second time;
\* p2: a list whose second line names a list; p3: no arguments.
ThreeRuns == (p1 :> <<l1, a>> @@ p2 :> <<l2>> @@ p3 :> <<>>)
\* A list and a lightmap.
TwoRuns == (p1 :> <<l1>> @@ p2 :> <<c>>)
OneEach == (p1 :> <<a>> @@ p2 :> <<c>>)
===============================================================================
