------------------------------ MODULE UNetFilter ------------------------------
(***************************************************************************)
(* The parameters of an OIDN filter (RT or RTLightmap) and what commit     *)
(* and execute make of them.  A setter marks the filter dirty, and         *)
(* dirtyParam if the network has to be built anew; commit() calls init()   *)
(* only if dirtyParam is set; execute() uses the network of the last       *)
(* init() on the images that are set now.                                  *)
(*                                                                         *)
(* Abstractions: an image is its description and the memory it lies in;    *)
(* weights are a blob and how often the user has rewritten it; whether an  *)
(* image is tiled is a function of its size and of maxMemoryMB (module     *)
(* Tiling has the computation).                                            *)
(***************************************************************************)
EXTENDS Naturals

CONSTANTS
  Kind,         \* "RT" or "RTLightmap"
  Images,       \* records [size, format, mem]: the images the user has
  NoImage,
  Sizes,        \* image sizes, Empty among them
  Empty,        \* a size without pixels
  Memories,     \* values of maxMemoryMB
  Tiled,        \* Tiled[<<s, m>>]: images of size s are tiled under limit m
  Blobs,        \* user weights
  NoData,
  GoodBlobs,    \* the blobs parseTZA accepts
  MaxVersion,   \* bound: how often a blob is rewritten
  NullData,     \* TRUE if the user may pass a null pointer as weights
  AllocFails,   \* TRUE if memory may run out while the network is built
  NoNet,
  Partial       \* a Network object that buildNet() has not finished

Formats == {"float3", "half3", "other"}

ASSUME UNetAssumption ==
  /\ Kind \in {"RT", "RTLightmap"}
  /\ \A i \in Images : i.size \in Sizes /\ i.format \in Formats
  /\ NoImage \notin Images /\ NoImage \notin [size : Sizes, format : Formats]
  /\ Empty \in Sizes
  /\ Tiled \in [Sizes \X Memories -> BOOLEAN]
  /\ NoData \notin Blobs /\ GoodBlobs \subseteq Blobs
  /\ MaxVersion \in Nat
  /\ NullData \in BOOLEAN /\ AllocFails \in BOOLEAN

\* The image and option names setImage and set1i know.
ImageNames == IF Kind = "RT" THEN {"color", "albedo", "normal", "output"}
                             ELSE {"color", "output"}
OptionNames == IF Kind = "RT" THEN {"hdr", "srgb", "cleanAux"} ELSE {"directional"}

InputNames == {"color", "albedo", "normal"}
AllOptions == {"hdr", "srgb", "cleanAux", "directional"}

VARIABLES
  image,      \* image[n]: the image set under name n, or NoImage
  option,     \* option[n]: hdr, srgb, cleanAux, directional
  memory,     \* maxMemoryMB
  weights,    \* userWeights
  version,    \* version[b]: how often the user has rewritten blob b
  dirty, dirtyParam, inplace,
  size,       \* H and W
  tiled,      \* tileCountH * tileCountW > 1
  net,        \* what the network was built from, NoNet or Partial
  outputTemp, \* is there a temporary output?
  last        \* the outcome of the last call

params == <<image, option, memory, weights, version>>
built == <<size, tiled, net, outputTemp>>
vars == <<image, option, memory, weights, version, dirty, dirtyParam, inplace,
          size, tiled, net, outputTemp, last>>

Image(n) == IF n \in ImageNames THEN image[n] ELSE NoImage
Inputs == {Image(n) : n \in InputNames} \ {NoImage}
Output == image["output"]

Desc(i) == IF i = NoImage THEN NoImage ELSE [size |-> i.size, format |-> i.format]
Descs == {Desc(i) : i \in Images \cup {NoImage}}

\* Everything init() reads, the contents of the weights included.
Blueprint(inp) ==
  [desc    |-> [n \in ImageNames |-> Desc(image[n])],
   option  |-> option,
   memory  |-> memory,
   weights |-> IF weights = NoData THEN NoData ELSE <<weights, version[weights]>>,
   inplace |-> inp]

Blueprints == [desc : [ImageNames -> Descs],
               option : [AllOptions -> BOOLEAN],
               memory : Memories,
               weights : {NoData} \cup (Blobs \X (0..MaxVersion)),
               inplace : BOOLEAN]

ASSUME NetAssumption == NoNet \notin Blueprints /\ Partial \notin Blueprints

TypeOK ==
  /\ image \in [ImageNames -> Images \cup {NoImage}]
  /\ option \in [AllOptions -> BOOLEAN]
  /\ memory \in Memories
  /\ weights \in Blobs \cup {NoData}
  /\ version \in [Blobs -> 0..MaxVersion]
  /\ dirty \in BOOLEAN /\ dirtyParam \in BOOLEAN /\ inplace \in BOOLEAN
  /\ size \in Sizes /\ tiled \in BOOLEAN
  /\ net \in Blueprints \cup {NoNet, Partial}
  /\ outputTemp \in BOOLEAN
  /\ last \in {"none", "ok", "error", "crash"}

Init ==
  /\ image = [n \in ImageNames |-> NoImage]
  /\ option = [n \in AllOptions |-> n = "hdr" /\ Kind = "RTLightmap"]
  /\ memory \in Memories
  /\ weights = NoData
  /\ version = [b \in Blobs |-> 0]
  /\ dirty = TRUE /\ dirtyParam = TRUE /\ inplace = FALSE
  /\ size = Empty /\ tiled = FALSE
  /\ net = NoNet /\ outputTemp = FALSE
  /\ last = "none"
-------------------------------------------------------------------------------
\* After every setter: execute() is refused until the next commit().
Changed(param) ==
  /\ dirty' = TRUE
  /\ dirtyParam' = param
  /\ last' = "ok"

\* Mutant: only setting and unsetting an image make the network stale.
SetImage_IgnoresSize(n, i) ==
  /\ image' = [image EXCEPT ![n] = i]
  /\ Changed(dirtyParam \/ image[n] = NoImage)
  /\ UNCHANGED <<option, memory, weights, version, inplace, built>>

\* setParam(Image): a new pointer alone does not make the network stale.
SetImage(n, i) ==
  /\ image' = [image EXCEPT ![n] = i]
  /\ Changed(dirtyParam \/ Desc(image[n]) # Desc(i))
  /\ UNCHANGED <<option, memory, weights, version, inplace, built>>

\* removeParam(Image); an image without memory counts as none in setImage, too.
RemoveImage(n) ==
  /\ image' = [image EXCEPT ![n] = NoImage]
  /\ Changed(dirtyParam \/ image[n] # NoImage)
  /\ UNCHANGED <<option, memory, weights, version, inplace, built>>

\* In an RTLightmap filter hdr follows directional.
SetOption(n, b) ==
  /\ option' = IF n = "directional"
               THEN [option EXCEPT !["directional"] = b, !["hdr"] = ~b]
               ELSE [option EXCEPT ![n] = b]
  /\ Changed(dirtyParam \/ option[n] # b)
  /\ UNCHANGED <<image, memory, weights, version, inplace, built>>

SetMemory(m) ==
  /\ memory' = m
  /\ Changed(dirtyParam \/ memory # m)
  /\ UNCHANGED <<image, option, weights, version, inplace, built>>

\* set1f("inputScale"), an unknown name, hdr of an RTLightmap filter: dirty, but
\* nothing init() depends on.
SetOther ==
  /\ Changed(dirtyParam)
  /\ UNCHANGED <<params, inplace, built>>

\* setParam(Data) assigns dirtyParam where the others accumulate.
SetData(b) ==
  /\ weights' = b
  /\ Changed(weights # NoData \/ b # NoData)
  /\ UNCHANGED <<image, option, memory, version, inplace, built>>

\* The user rewrites the blob and says so with updateData.
UpdateData ==
  /\ \E b \in Blobs : /\ version[b] < MaxVersion
                      /\ version' = [version EXCEPT ![b] = @ + 1]
                      /\ weights = b
  /\ Changed(TRUE)
  /\ UNCHANGED <<image, option, memory, weights, inplace, built>>

RemoveData ==
  /\ weights' = NoData
  /\ Changed(dirtyParam \/ weights # NoData)
  /\ UNCHANGED <<image, option, memory, version, inplace, built>>
-------------------------------------------------------------------------------
\* Image::overlaps for the output and any input.
Overlapping ==
  \E i \in Inputs : /\ Output # NoImage /\ i.mem = Output.mem
                  /\ i.size # Empty /\ Output.size # Empty

HasColor == Image("color") # NoImage
HasAlbedo == Image("albedo") # NoImage
HasNormal == Image("normal") # NoImage

\* There are built-in weights for the inputs and the mode.
HasDefaultWeights ==
  \/ HasColor /\ ~HasAlbedo /\ ~HasNormal
     /\ IF Kind = "RT" THEN ~option["directional"]
                       ELSE option["directional"] \/ option["hdr"]
  \/ Kind = "RT" /\ HasColor /\ HasAlbedo
  \/ Kind = "RT" /\ ~HasColor /\ HasAlbedo /\ ~HasNormal
  \/ Kind = "RT" /\ ~HasColor /\ ~HasAlbedo /\ HasNormal

\* Combinations init() refuses whatever the weights are.
Refused ==
  \/ option["directional"] /\ (option["hdr"] \/ option["srgb"])
  \/ option["hdr"] /\ option["srgb"]
  \/ ~HasColor /\ HasAlbedo /\ HasNormal
  \/ ~HasColor /\ HasAlbedo /\ option["hdr"]
  \/ ~HasColor /\ HasNormal /\ (option["hdr"] \/ option["srgb"])

\* init() can go as far as the size of the output.
HasImages == Inputs # {} /\ Output # NoImage

Initializable ==
  /\ HasImages
  /\ \E f \in {"float3", "half3"} : \A i \in Inputs : i.format = f
  /\ Output.format \in {"float3", "half3"}
  /\ \A i \in Inputs : i.size = Output.size
  /\ ~Refused
  /\ IF weights = NoData THEN HasDefaultWeights ELSE weights \in GoodBlobs

\* commit() without anything to commit.
CommitClean ==
  /\ ~dirty
  /\ last' = "ok"
  /\ UNCHANGED <<params, dirty, dirtyParam, inplace, built>>

\* Mutant: a change of inplace does not make the network stale.
Stale_WithoutInplace == dirtyParam

\* setParam(inplace, overlapping) before dirtyParam is looked at.
Stale == dirtyParam \/ inplace # Overlapping

\* No parameter of the network has changed: init() is skipped.
CommitCheap ==
  /\ dirty /\ ~Stale
  /\ dirty' = FALSE /\ dirtyParam' = FALSE
  /\ last' = "ok"
  /\ UNCHANGED <<params, inplace, built>>

CommitInit ==
  /\ dirty /\ Stale /\ Initializable
  /\ inplace' = Overlapping
  /\ size' = Output.size
  /\ tiled' = Tiled[<<Output.size, memory>>]
  /\ outputTemp' = (Output.size # Empty /\ Overlapping /\ Tiled[<<Output.size, memory>>])
  /\ net' = Blueprint(Overlapping)
  /\ dirty' = FALSE /\ dirtyParam' = FALSE
  /\ last' = "ok"
  /\ UNCHANGED params

\* Mutant: init() takes the size before it has checked that there is an output;
\* without one it gets no size.
CommitFails_SizeFirst ==
  /\ dirty /\ Stale /\ ~Initializable
  /\ net' = NoNet
  /\ size' = IF Inputs = {} THEN size ELSE IF Output = NoImage THEN NoImage ELSE Output.size
  /\ inplace' = Overlapping
  /\ outputTemp' = FALSE
  /\ dirtyParam' = TRUE
  /\ last' = "error"
  /\ UNCHANGED <<params, dirty, tiled>>

\* init() throws: the old network is gone and the filter stays dirty.
CommitFails ==
  /\ dirty /\ Stale
  /\ \/ /\ ~Initializable
        /\ net' = NoNet
        /\ size' = IF HasImages THEN Output.size ELSE size
        /\ UNCHANGED tiled
     \/ /\ Initializable /\ AllocFails
        /\ net' = Partial
        /\ size' = Output.size
        /\ tiled' = Tiled[<<Output.size, memory>>]
  /\ inplace' = Overlapping
  /\ outputTemp' = FALSE
  /\ dirtyParam' = TRUE
  /\ last' = "error"
  /\ UNCHANGED <<params, dirty>>

\* execute(): refused if dirty, nothing to do without pixels; otherwise it uses
\* the network, whatever has become of it.
Execute ==
  /\ last' = IF dirty THEN "error"
             ELSE IF size # Empty /\ net \in {NoNet, Partial} THEN "crash"
             ELSE "ok"
  /\ UNCHANGED <<params, dirty, dirtyParam, inplace, built>>

Next ==
  /\ last # "crash"
  /\ \/ \E n \in ImageNames : RemoveImage(n) \/ \E i \in Images : SetImage(n, i)
     \/ \E n \in OptionNames, b \in BOOLEAN : SetOption(n, b)
     \/ \E m \in Memories : SetMemory(m)
     \/ \E b \in Blobs \cup (IF NullData THEN {NoData} ELSE {}) : SetData(b)
     \/ UpdateData \/ RemoveData \/ SetOther
     \/ CommitClean \/ CommitCheap \/ CommitInit \/ CommitFails
     \/ Execute

Spec == Init /\ [][Next]_vars
-------------------------------------------------------------------------------
\* Commit takes in all changes made before it: in a filter that can be executed,
\* the network is the one the parameters as they are now ask for
\* (oidn.h:207 "Commits all previous changes to the filter.").
CommittedIsBuilt ==
  ~dirty => net = Blueprint(Overlapping) /\ size = Output.size /\ tiled = Tiled[<<size, memory>>]

\* Tiles read pixels their neighbours write: if the output overlaps an input, an
\* executable filter with several tiles writes to a temporary image first
\* (unet.cpp:91-96, 454-461; pointers may have changed since the network was built).
InPlaceSafe ==
  ~dirty /\ Overlapping /\ tiled /\ size # Empty => outputTemp

\* execute() never runs on a network that is not there or not finished.
NeverCrashes == last # "crash"
===============================================================================
