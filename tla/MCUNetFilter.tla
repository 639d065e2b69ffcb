----------------------------- MODULE MCUNetFilter -----------------------------
(***************************************************************************)
(* Three images, two of them in the same memory; tiling only for the large *)
(* size under the small limit.                                             *)
(***************************************************************************)
EXTENDS UNetFilter

CONSTANTS m1, m2, none, small, large, low, high

Img(s, f, m) == [size |-> s, format |-> f, mem |-> m]

\* For RTLightmap: two images of the large size in different memory, a small one
\* in the memory of the first, one without pixels.
LightmapImages == {Img(large, "float3", m1), Img(large, "float3", m2),
                   Img(small, "half3", m1), Img(none, "float3", m2)}
\* For RT: the same size and format throughout.
RTImages == {Img(large, "half3", m1), Img(large, "half3", m2)}

MCTiled == [sm \in Sizes \X Memories |-> sm = <<large, low>>]
===============================================================================
