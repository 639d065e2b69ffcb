--------------------------- MODULE UNetFilter_proofs ---------------------------
(***************************************************************************)
(* Proofs about UNetFilter for every set of images, weights and memory     *)
(* limits, with memory that may run out during init(), as long as the user *)
(* passes no null pointer as weights (NullData).                           *)
(***************************************************************************)
EXTENDS UNetFilter, TLAPS

\* What holds of a network whose parameters have not been touched.
BuiltFrom(inp) ==
  /\ image["output"] # NoImage
  /\ net = Blueprint(inp)
  /\ size = Output.size
  /\ tiled = Tiled[<<size, memory>>]
  /\ outputTemp = (size # Empty /\ inp /\ tiled)

\* The flags mean what they say; an RTLightmap filter is in exactly one mode, so
\* that setting directional again changes nothing.
Inv ==
  /\ ~dirty => ~dirtyParam /\ inplace = Overlapping
  /\ ~dirtyParam => BuiltFrom(inplace)
  /\ Kind = "RTLightmap" => option["hdr"] = ~option["directional"]
  /\ last # "crash"

LEMMA OverlappingType == Overlapping \in BOOLEAN
  BY DEF Overlapping

LEMMA TypedInit == Init => TypeOK
<1> SUFFICES ASSUME Init PROVE TypeOK
  OBVIOUS
<1>1. option \in [AllOptions -> BOOLEAN]
  BY Zenon DEF Init
<1>2. version \in [Blobs -> 0..MaxVersion]
  BY UNetAssumption DEF Init
<1>. QED BY <1>1, <1>2, UNetAssumption DEF Init, TypeOK

LEMMA BlueprintType == TypeOK => Blueprint(Overlapping) \in Blueprints /\ Blueprint(inplace) \in Blueprints
<1> SUFFICES ASSUME TypeOK, NEW inp \in BOOLEAN PROVE Blueprint(inp) \in Blueprints
  BY OverlappingType DEF TypeOK
<1>1. \A n \in ImageNames : Desc(image[n]) \in Descs
  BY DEF TypeOK, Descs
<1>2. (IF weights = NoData THEN NoData ELSE <<weights, version[weights]>>)
        \in {NoData} \cup (Blobs \X (0..MaxVersion))
  BY DEF TypeOK
<1>. QED BY <1>1, <1>2 DEF TypeOK, Blueprint, Blueprints

LEMMA TypedNext == TypeOK /\ [Next]_vars => TypeOK'
<1> SUFFICES ASSUME TypeOK, [Next]_vars PROVE TypeOK'
  OBVIOUS
<1> USE UNetAssumption DEF TypeOK, Changed, built, params
<1>1. ASSUME NEW n \in ImageNames, RemoveImage(n) PROVE TypeOK'
  BY <1>1 DEF RemoveImage
<1>2. ASSUME NEW n \in ImageNames, NEW i \in Images, SetImage(n, i) PROVE TypeOK'
  BY <1>2 DEF SetImage
<1>3. ASSUME NEW n \in OptionNames, NEW b \in BOOLEAN, SetOption(n, b) PROVE TypeOK'
  <2>1. option' \in [AllOptions -> BOOLEAN]
    BY <1>3 DEF SetOption, AllOptions
  <2>. QED BY <1>3, <2>1 DEF SetOption
<1>4. ASSUME NEW m \in Memories, SetMemory(m) PROVE TypeOK'
  BY <1>4 DEF SetMemory
<1>5. ASSUME NEW b \in Blobs \cup {NoData}, SetData(b) PROVE TypeOK'
  BY <1>5 DEF SetData
<1>6. CASE UpdateData
  <2>1. version' \in [Blobs -> 0..MaxVersion]
    BY <1>6 DEF UpdateData
  <2>. QED BY <1>6, <2>1 DEF UpdateData
<1>7. CASE RemoveData \/ SetOther
  BY <1>7 DEF RemoveData, SetOther
<1>8. CASE CommitClean \/ CommitCheap \/ Execute
  BY <1>8 DEF CommitClean, CommitCheap, Execute
<1>9. ASSUME Output # NoImage PROVE Output.size \in Sizes /\ Tiled[<<Output.size, memory>>] \in BOOLEAN
  <2>1. "output" \in ImageNames
    BY DEF ImageNames
  <2>. QED BY <1>9, <2>1 DEF Output
<1>10. CASE CommitInit
  <2>1. size' \in Sizes /\ tiled' \in BOOLEAN
    BY <1>10, <1>9 DEF CommitInit, Initializable, HasImages
  <2>2. net' \in Blueprints /\ outputTemp' \in BOOLEAN /\ inplace' \in BOOLEAN
    BY <1>10, BlueprintType, OverlappingType DEF CommitInit
  <2>. QED BY <1>10, <2>1, <2>2 DEF CommitInit
<1>11. CASE CommitFails
  <2>1. size' \in Sizes /\ tiled' \in BOOLEAN /\ net' \in {NoNet, Partial}
    BY <1>11, <1>9 DEF CommitFails, Initializable, HasImages
  <2>. QED BY <1>11, <2>1, OverlappingType DEF CommitFails
<1>12. CASE UNCHANGED vars
  BY <1>12 DEF vars
<1>. QED BY <1>1, <1>2, <1>3, <1>4, <1>5, <1>6, <1>7, <1>8, <1>10, <1>11, <1>12 DEF Next

LEMMA InvInit == Init => Inv
  BY DEF Init, Inv, AllOptions

LEMMA InvNext == ~NullData /\ TypeOK /\ Inv /\ [Next]_vars => Inv'
<1> SUFFICES ASSUME ~NullData, TypeOK, Inv, [Next]_vars PROVE Inv'
  OBVIOUS
<1> USE UNetAssumption DEF TypeOK, Inv
<1>1. ASSUME NEW n \in ImageNames, NEW i \in Images \cup {NoImage},
             image' = [image EXCEPT ![n] = i], Desc(image[n]) = Desc(i), ~dirtyParam,
             UNCHANGED <<option, memory, weights, version, inplace, built>>
      PROVE BuiltFrom(inplace)'
  <2>1. \A k \in ImageNames : Desc(image'[k]) = Desc(image[k])
    BY <1>1
  <2>2. Blueprint(inplace)' = Blueprint(inplace)
    BY <1>1, <2>1 DEF Blueprint
  <2>3. "output" \in ImageNames
    BY DEF ImageNames
  <2>4. image'["output"] # NoImage /\ image'["output"].size = image["output"].size
    <3>1. image["output"] \in Images
      BY <1>1, <2>3 DEF BuiltFrom
    <3>2. Desc(image'["output"]) = [size |-> image["output"].size, format |-> image["output"].format]
      BY <2>1, <2>3, <3>1 DEF Desc
    <3>3. [size |-> image["output"].size, format |-> image["output"].format]
            \in [size : Sizes, format : Formats]
      BY <3>1
    <3>4. image'["output"] # NoImage
      BY <3>2, <3>3 DEF Desc
    <3>. QED BY <3>2, <3>4 DEF Desc
  <2>5. net' = net /\ size' = size /\ tiled' = tiled /\ outputTemp' = outputTemp
        /\ memory' = memory /\ inplace' = inplace
    BY <1>1 DEF built
  <2>6. BuiltFrom(inplace)
    BY <1>1
  <2>. QED BY <2>2, <2>4, <2>5, <2>6 DEF BuiltFrom, Output
<1>2. ASSUME NEW n \in ImageNames, RemoveImage(n) PROVE Inv'
  <2>1. ~dirtyParam' => ~dirtyParam /\ image[n] = NoImage
    BY <1>2 DEF RemoveImage, Changed
  <2>2. ~dirtyParam' => BuiltFrom(inplace)'
    BY <1>1, <1>2, <2>1 DEF RemoveImage
  <2>. QED BY <1>2, <2>2 DEF RemoveImage, Changed
<1>3. ASSUME NEW n \in ImageNames, NEW i \in Images, SetImage(n, i) PROVE Inv'
  <2>1. ~dirtyParam' => ~dirtyParam /\ Desc(image[n]) = Desc(i)
    BY <1>3 DEF SetImage, Changed
  <2>2. ~dirtyParam' => BuiltFrom(inplace)'
    BY <1>1, <1>3, <2>1 DEF SetImage
  <2>. QED BY <1>3, <2>2 DEF SetImage, Changed
<1>4. ASSUME NEW n \in OptionNames, NEW b \in BOOLEAN, SetOption(n, b) PROVE Inv'
  <2>1. Kind = "RTLightmap" => n = "directional"
    BY UNetAssumption DEF OptionNames
  <2>2. ~(Kind = "RTLightmap") => n # "directional"
    BY DEF OptionNames
  <2>3. (Kind = "RTLightmap" => option["hdr"] = ~option["directional"])'
    BY <1>4, <2>1 DEF SetOption, AllOptions
  <2>4. ~dirtyParam' => ~dirtyParam /\ option[n] = b
    BY <1>4 DEF SetOption, Changed
  <2>5. ~dirtyParam' => option' = option
    BY <1>4, <2>1, <2>2, <2>4 DEF SetOption, AllOptions
  <2>6. ~dirtyParam' => BuiltFrom(inplace)'
    BY <1>4, <2>4, <2>5 DEF SetOption, BuiltFrom, Blueprint, Output, built
  <2>. QED BY <1>4, <2>3, <2>6 DEF SetOption, Changed
<1>5. ASSUME NEW m \in Memories, SetMemory(m) PROVE Inv'
  BY <1>5 DEF SetMemory, Changed, BuiltFrom, Blueprint, Output, built
<1>6. ASSUME NEW b \in Blobs \cup (IF NullData THEN {NoData} ELSE {}), SetData(b) PROVE Inv'
  BY <1>6 DEF SetData, Changed
<1>7. CASE UpdateData
  BY <1>7 DEF UpdateData, Changed
<1>8. CASE RemoveData
  BY <1>8 DEF RemoveData, Changed, BuiltFrom, Blueprint, Output, built
<1>9. CASE SetOther
  BY <1>9 DEF SetOther, Changed, BuiltFrom, Blueprint, Output, built, params
<1>10. CASE CommitClean
  BY <1>10 DEF CommitClean, BuiltFrom, Blueprint, Output, Overlapping, Inputs, Image, built, params
<1>11. CASE CommitCheap
  BY <1>11 DEF CommitCheap, Stale, BuiltFrom, Blueprint, Output, Overlapping, Inputs, Image, built, params
<1>12. CASE CommitInit
  <2>1. Overlapping' = Overlapping /\ Output' = Output
    BY <1>12 DEF CommitInit, Overlapping, Output, Inputs, Image, params
  <2>2. image'["output"] # NoImage
    BY <1>12 DEF CommitInit, Initializable, HasImages, Output, params
  <2>3. net' = Blueprint(inplace)'
    BY <1>12 DEF CommitInit, Blueprint, params
  <2>4. BuiltFrom(inplace)'
    BY <1>12, <2>1, <2>2, <2>3, OverlappingType DEF CommitInit, BuiltFrom, params
  <2>. QED BY <1>12, <2>1, <2>4 DEF CommitInit, params
<1>13. CASE CommitFails
  BY <1>13 DEF CommitFails, params
<1>14. CASE Execute
  <2>1. ~dirty => net = Blueprint(inplace)
    BY DEF BuiltFrom
  <2>2. Blueprint(inplace) \notin {NoNet, Partial}
    BY NetAssumption, BlueprintType
  <2>3. last' # "crash"
    BY <1>14, <2>1, <2>2 DEF Execute
  <2>. QED BY <1>14, <2>3 DEF Execute, BuiltFrom, Blueprint, Output, Overlapping, Inputs, Image,
     built, params
<1>15. CASE UNCHANGED vars
  BY <1>15 DEF vars, BuiltFrom, Blueprint, Output, Overlapping, Inputs, Image
<1>. QED
  BY <1>2, <1>3, <1>4, <1>5, <1>6, <1>7, <1>8, <1>9, <1>10, <1>11, <1>12, <1>13, <1>14, <1>15
  DEF Next

LEMMA InvImplies == TypeOK /\ Inv => CommittedIsBuilt /\ InPlaceSafe /\ NeverCrashes
  BY OverlappingType DEF TypeOK, Inv, BuiltFrom, CommittedIsBuilt, InPlaceSafe, NeverCrashes

\* The variables keep their types (UNetFilter's fields, unet.h:17-89).
THEOREM TypeCorrect == Spec => []TypeOK
<1>. QED BY TypedInit, TypedNext, PTL DEF Spec

LEMMA Invariant == ~NullData => (Spec => []Inv)
<1> SUFFICES ASSUME ~NullData PROVE Spec => []Inv
  OBVIOUS
<1>1. TypeOK /\ Inv /\ [Next]_vars => Inv'
  BY InvNext
<1>. QED BY InvInit, TypeCorrect, <1>1, PTL DEF Spec

\* commit() takes in all changes: a filter that can be executed has the network
\* its parameters ask for, whatever calls came before (unet.cpp:86-111, filter.cpp).
THEOREM CommitComplete == ~NullData => (Spec => []CommittedIsBuilt)
<1> SUFFICES ASSUME ~NullData PROVE Spec => []CommittedIsBuilt
  OBVIOUS
<1>. QED BY TypeCorrect, Invariant, InvImplies, PTL

\* A tiled filter whose output lies over an input writes to a temporary image
\* (unet.cpp:91-96, 454-461), also after images were moved without a rebuild.
THEOREM InPlaceProtected == ~NullData => (Spec => []InPlaceSafe)
<1> SUFFICES ASSUME ~NullData PROVE Spec => []InPlaceSafe
  OBVIOUS
<1>. QED BY TypeCorrect, Invariant, InvImplies, PTL

\* execute() finds a finished network whenever it uses one, also after a commit
\* that failed part-way (unet.cpp:113-119, 241-248).
THEOREM NetworkThere == ~NullData => (Spec => []NeverCrashes)
<1> SUFFICES ASSUME ~NullData PROVE Spec => []NeverCrashes
  OBVIOUS
<1>. QED BY TypeCorrect, Invariant, InvImplies, PTL
===============================================================================
