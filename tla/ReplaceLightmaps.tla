--------------------------- MODULE ReplaceLightmaps ---------------------------
(***************************************************************************)
(* What the tool promises (README.md:22-25): every run works through its   *)
(* list of lightmaps in order, replaces each file by its denoised version  *)
(* in one step, and stops at the first one it cannot do.  Nothing else is  *)
(* ever visible at a lightmap's path.                                      *)
(***************************************************************************)
EXTENDS Naturals, Sequences

CONSTANTS
  Procs,    \* runs of the tool
  Paths,    \* lightmap files
  Todo      \* Todo[p]: the files run p has to replace, in order

VARIABLES
  passes,   \* passes[f]: how often f has been denoised
  pending,  \* pending[p]: the files run p still has to replace
  outcome   \* outcome[p]: "running" until the run ends

rvars == <<passes, pending, outcome>>

RInit ==
  /\ passes = [f \in Paths |-> 0]
  /\ pending = Todo
  /\ outcome = [p \in Procs |-> "running"]

Replace(p) ==
  /\ outcome[p] = "running"
  /\ pending[p] # <<>>
  /\ Head(pending[p]) \in Paths
  /\ passes' = [passes EXCEPT ![Head(pending[p])] = @ + 1]
  /\ pending' = [pending EXCEPT ![p] = Tail(@)]
  /\ UNCHANGED outcome

Succeed(p) ==
  /\ outcome[p] = "running"
  /\ pending[p] = <<>>
  /\ outcome' = [outcome EXCEPT ![p] = "success"]
  /\ UNCHANGED <<passes, pending>>

GiveUp(p) ==
  /\ outcome[p] = "running"
  /\ outcome' = [outcome EXCEPT ![p] = "failure"]
  /\ pending' = [pending EXCEPT ![p] = <<>>]
  /\ UNCHANGED passes

RNext == \E p \in Procs : Replace(p) \/ Succeed(p) \/ GiveUp(p)

RSpec == RInit /\ [][RNext]_rvars
===============================================================================
