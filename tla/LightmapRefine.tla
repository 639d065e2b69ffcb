---------------------------- MODULE LightmapRefine ----------------------------
(***************************************************************************)
(* Without kills, with the temporary directory on the lightmaps' file      *)
(* system and as long as this does not refuse a rename, the tool           *)
(* implements ReplaceLightmaps: removal of the original is the step that   *)
(* counts, since the rename that follows then succeeds.                    *)
(***************************************************************************)
EXTENDS LightmapDenoiser, SequencesExt

\* The lightmaps a line, a list and an argument stand for, in order.
Named(line) == IF line = Blank THEN <<>> ELSE <<line>>
NonBlank(s) == FlattenSeq([i \in DOMAIN s |-> Named(s[i])])
Meant(arg) == IF arg \in Lists THEN NonBlank(Lines[arg]) ELSE <<arg>>
Expand(as) == FlattenSeq([i \in DOMAIN as |-> Meant(as[i])])

InFlight(p) == IF pc[p] \in {"load", "filter", "open", "write", "remove"}
               THEN <<cur[p]>> ELSE <<>>

\* What run p still has to replace.
Pending(p) == IF outcome[p] = "running"
              THEN InFlight(p) \o NonBlank(lines[p]) \o Expand(args[p])
              ELSE <<>>

\* The image a reader will find at f once a rename in progress is through.
Settled(f) == IF \E p \in Procs : At(p, "rename") /\ cur[p] = f
              THEN Content(TempOf[f]) ELSE Content(f)

\* How often f has been denoised.
Passes(f) == IF Settled(f) \in ImageOf(f) THEN Settled(f)[2] ELSE NoFile

RM == INSTANCE ReplaceLightmaps WITH
  Todo <- [p \in Procs |-> Expand(Args[p])],
  passes <- [f \in Paths |-> Passes(f)],
  pending <- [p \in Procs |-> Pending(p)],
  outcome <- [p \in Procs |-> IF outcome[p] = "killed" THEN "failure" ELSE outcome[p]]

\* The tool implements the promise of README.md:22-25: every lightmap is replaced
\* in one step, in the order of the list, and success means all of them were.
ImplementsReplace == RM!RSpec
===============================================================================
