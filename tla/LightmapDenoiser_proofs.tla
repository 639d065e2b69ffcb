------------------------ MODULE LightmapDenoiser_proofs ------------------------
(***************************************************************************)
(* Proofs about LightmapDenoiser, for any number of runs, lightmaps, lists *)
(* and starts.  The type invariant holds under every fault.  That no       *)
(* lightmap is lost, that nothing partial is visible, that a list is       *)
(* worked through in order and that a run reports success only when all    *)
(* its lightmaps have been replaced is proved for runs that do not share a *)
(* lightmap or a file name (SoleUse) on file systems whose fclose reports  *)
(* no late error; kills, restarts, a temporary directory on another file   *)
(* system and all other faults are included.  Without kills, restarts, a   *)
(* refused rename and a second file system (Undisturbed) the runs          *)
(* implement ReplaceLightmaps.                                             *)
(***************************************************************************)
EXTENDS LightmapRefine, SequenceTheorems, WellFoundedInduction, TLAPS

Working == {"filter", "open", "write", "remove", "rename"}

\* Inside denoise() a run has a lightmap, and after the load an image.
Typed ==
  /\ TypeOK
  /\ \A p \in Procs : pc[p] \in Working => cur[p] \in Paths
  /\ \A p \in Procs : pc[p] = "filter" => pixels[p] \in Images

USE DEF At, Goto, Names, Images, ImageOf

LEMMA TailType == ASSUME NEW S, NEW s \in Seq(S), s # <<>>
                  PROVE  Head(s) \in S /\ Tail(s) \in Seq(S)
  OBVIOUS

LEMMA TypedInit == Init => Typed
<1> SUFFICES ASSUME Init PROVE Typed
  OBVIOUS
<1> USE DenoiserAssumption
<1>1. dir \in [Names -> Inodes \cup {NoFile}]
  BY DEF Init
<1>2. data \in [Inodes -> Images \cup {Truncated}]
  <2>1. ASSUME NEW i \in Inodes, \E f \in Paths : Home[f] = i
        PROVE <<CHOOSE f \in Paths : Home[f] = i, 0>> \in Images
    BY <2>1
  <2>. QED BY <2>1 DEF Init
<1>3. args \in [Procs -> Seq(Paths \cup Lists)]
  BY DEF Init
<1>4. lines \in [Procs -> Seq(Paths \cup Lists \cup {Blank})]
  BY DEF Init
<1>. QED BY <1>1, <1>2, <1>3, <1>4 DEF Init, Typed, TypeOK, Working

\* A run that ends keeps the types.
LEMMA LeaveTyped ==
  ASSUME DenoiserAssumption, Typed, NEW p \in Procs,
         NEW how \in {"success", "failure", "killed"},
         NEW dev \in {"none", "ready", "failed", "released", "leaked"},
         Leave(p, how, dev), UNCHANGED <<dir, data, args, lines, cur, pixels, starts>>
  PROVE  Typed'
<1> USE DEF Typed, TypeOK, Working
<1>1. /\ pc' = [pc EXCEPT ![p] = "exit"] /\ file' = [file EXCEPT ![p] = NoFile]
      /\ outcome' = [outcome EXCEPT ![p] = how]
      /\ device' = [device EXCEPT ![p] = dev]
  BY DEF Leave
<1>. QED BY <1>1

LEMMA TerminateTyped ==
  ASSUME DenoiserAssumption, Typed, NEW p \in Procs,
         Terminate(p), UNCHANGED <<dir, data, args, lines, cur, pixels, starts>>
  PROVE  Typed'
<1>1. device[p] \in {"none", "ready", "failed", "released", "leaked"}
  BY DEF Typed, TypeOK
<1>. QED BY <1>1, LeaveTyped DEF Terminate

LEMMA TypedNext == Typed /\ [Next]_vars => Typed'
<1> SUFFICES ASSUME Typed, [Next]_vars PROVE Typed'
  OBVIOUS
<1> USE DenoiserAssumption DEF Typed, TypeOK, Working
<1>1. ASSUME NEW p \in Procs, Start(p) PROVE Typed'
  <2>1. CASE args[p] = <<>>
    <3>1. Leave(p, "success", "none") /\ UNCHANGED <<dir, data, args, lines, cur, pixels, starts>>
      BY <1>1, <2>1 DEF Start
    <3>. QED BY <3>1, LeaveTyped
  <2>2. CASE args[p] # <<>>
    <3>1. /\ pc' = [pc EXCEPT ![p] = "args"]
          /\ UNCHANGED <<dir, data, args, lines, cur, pixels, starts, file, outcome>>
      BY <1>1, <2>2 DEF Start
    <3>2. PICK d \in {"ready", "failed"} : device' = [device EXCEPT ![p] = d]
      BY <1>1, <2>2 DEF Start
    <3>. QED BY <3>1, <3>2
  <2>. QED BY <2>1, <2>2
<1>2. ASSUME NEW p \in Procs, NextArg(p) PROVE Typed'
  <2>1. Head(args[p]) \in Paths \cup Lists /\ Tail(args[p]) \in Seq(Paths \cup Lists)
    BY <1>2, TailType DEF NextArg
  <2>2. ASSUME Head(args[p]) \notin Lists
        PROVE <<Head(args[p])>> \in Seq(Paths \cup Lists \cup {Blank})
    BY <2>1, <2>2
  <2>3. lines' \in [Procs -> Seq(Paths \cup Lists \cup {Blank})]
    BY <1>2, <2>1, <2>2 DEF NextArg
  <2>. QED BY <1>2, <2>1, <2>3 DEF NextArg
<1>3. ASSUME NEW p \in Procs, ListFails(p) PROVE Typed'
  BY <1>3 DEF ListFails, ReturnFalse, Leave
<1>4. ASSUME NEW p \in Procs, Succeed(p) PROVE Typed'
  <2>1. Leave(p, "success", "released") /\ UNCHANGED <<dir, data, args, lines, cur, pixels, starts>>
    BY <1>4 DEF Succeed
  <2> HIDE DEF Typed, TypeOK, Working
  <2>. QED BY <2>1, LeaveTyped
<1>5. ASSUME NEW p \in Procs, NextLine(p) PROVE Typed'
  <2>1. /\ Head(lines[p]) \in Paths \cup Lists \cup {Blank}
        /\ Tail(lines[p]) \in Seq(Paths \cup Lists \cup {Blank})
    BY <1>5, TailType DEF NextLine
  <2>2. CASE Head(lines[p]) = Blank
    <3>1. UNCHANGED <<dir, data, pc, args, cur, pixels, file, device, outcome, starts>>
      BY <1>5, <2>2 DEF NextLine
    <3>2. lines' = [lines EXCEPT ![p] = Tail(lines[p])]
      BY <1>5 DEF NextLine
    <3>3. lines' \in [Procs -> Seq(Paths \cup Lists \cup {Blank})]
      BY <2>1, <3>2
    <3>. QED BY <2>1, <3>1, <3>3
  <2>3. CASE Head(lines[p]) # Blank
    <3>1. /\ cur' = [cur EXCEPT ![p] = Head(lines[p])]
          /\ pc' = [pc EXCEPT ![p] = "load"]
          /\ UNCHANGED <<dir, data, args, pixels, file, device, outcome, starts>>
      BY <1>5, <2>3 DEF NextLine
    <3>2. lines' = [lines EXCEPT ![p] = Tail(lines[p])]
      BY <1>5 DEF NextLine
    <3>3. lines' \in [Procs -> Seq(Paths \cup Lists \cup {Blank})]
      BY <2>1, <3>2
    <3>. QED BY <2>1, <3>1, <3>3
  <2>. QED BY <2>2, <2>3
<1>6. ASSUME NEW p \in Procs, LastLine(p) PROVE Typed'
  <2>1. /\ pc' = [pc EXCEPT ![p] = "args"]
        /\ UNCHANGED <<dir, data, args, lines, cur, pixels, file, device, outcome, starts>>
    BY <1>6 DEF LastLine
  <2>2. \A q \in Procs : pc'[q] \in Working => pc[q] = pc'[q]
    BY <2>1
  <2>. QED BY <2>1, <2>2
<1>7. ASSUME NEW p \in Procs, Load(p) PROVE Typed'
  <2>1. CASE Loadable(cur[p])
    <3>1. cur[p] \in Paths /\ Content(cur[p]) \in Images
      BY <2>1 DEF Loadable
    <3>2. /\ pixels' = [pixels EXCEPT ![p] = Content(cur[p])]
          /\ pc' = [pc EXCEPT ![p] = "filter"]
          /\ UNCHANGED <<dir, data, args, lines, cur, file, device, outcome, starts>>
      BY <1>7, <2>1 DEF Load
    <3>. QED BY <3>1, <3>2
  <2>2. CASE ~Loadable(cur[p])
    <3>1. ReturnFalse(p) /\ UNCHANGED <<dir, data, args, lines, cur, pixels, starts>>
      BY <1>7, <2>2 DEF Load
    <3>. QED BY <3>1, LeaveTyped DEF ReturnFalse
  <2>. QED BY <2>1, <2>2
<1>8. ASSUME NEW p \in Procs, Filter(p) PROVE Typed'
  <2>1. <<pixels[p][1], pixels[p][2] + 1>> \in Images
    BY <1>8 DEF Filter
  <2>2. PICK x \in Images : pixels' = [pixels EXCEPT ![p] = x]
    BY <1>8, <2>1 DEF Filter
  <2>3. /\ pc' = [pc EXCEPT ![p] = "open"] /\ pc[p] = "filter"
        /\ UNCHANGED <<dir, data, args, lines, cur, file, device, outcome, starts>>
    BY <1>8 DEF Filter
  <2>. QED BY <2>2, <2>3
<1>9. ASSUME NEW p \in Procs, FilterFails(p) PROVE Typed'
  <2>1. PICK dev \in {"leaked", "released"} : Leave(p, "failure", dev)
    BY <1>9 DEF FilterFails, ReturnFalse
  <2>2. UNCHANGED <<dir, data, args, lines, cur, pixels, starts>>
    BY <1>9 DEF FilterFails
  <2> HIDE DEF Typed, TypeOK, Working
  <2>. QED BY <2>1, <2>2, LeaveTyped
<1>10. ASSUME NEW p \in Procs, OpenTemp(p) PROVE Typed'
  <2>1. cur[p] \in Paths /\ TempOf[cur[p]] \in Names
    BY <1>10 DEF OpenTemp
  <2>2. PICK i \in IF dir[TempOf[cur[p]]] = NoFile THEN Free ELSE {dir[TempOf[cur[p]]]} :
          /\ dir' = [dir EXCEPT ![TempOf[cur[p]]] = i]
          /\ data' = [data EXCEPT ![i] = Truncated]
          /\ file' = [file EXCEPT ![p] = i]
    BY <1>10 DEF OpenTemp
  <2>3. i \in Inodes
    BY <2>1, <2>2 DEF Free
  <2>4. /\ pc' = [pc EXCEPT ![p] = "write"] /\ pc[p] = "open"
        /\ UNCHANGED <<args, lines, cur, pixels, device, outcome, starts>>
    BY <1>10 DEF OpenTemp
  <2>5. /\ dir' \in [Names -> Inodes \cup {NoFile}]
        /\ data' \in [Inodes -> Images \cup {Truncated}]
        /\ file' \in [Procs -> Inodes \cup {NoFile}]
    BY <2>1, <2>2, <2>3
  <2>. QED BY <2>1, <2>4, <2>5
<1>11. ASSUME NEW p \in Procs, OpenFails(p) \/ ReadFails(p) PROVE Typed'
  <2>1. Leave(p, "failure", "released") /\ UNCHANGED <<dir, data, args, lines, cur, pixels, starts>>
    BY <1>11 DEF OpenFails, ReadFails, ReturnFalse
  <2> HIDE DEF Typed, TypeOK, Working
  <2>. QED BY <2>1, LeaveTyped
<1>12. ASSUME NEW p \in Procs, WriteTemp(p) PROVE Typed'
  <2>2. PICK x \in Images \cup {Truncated} : data' = [data EXCEPT ![file[p]] = x]
    BY <1>12 DEF WriteTemp, Written
  <2>3. /\ pc' = [pc EXCEPT ![p] = "remove"] /\ file' = [file EXCEPT ![p] = NoFile]
        /\ UNCHANGED <<dir, args, lines, cur, pixels, device, outcome, starts>>
    BY <1>12 DEF WriteTemp
  <2>4. pc[p] \in Working
    BY <1>12 DEF WriteTemp
  <2>. QED BY <2>2, <2>3, <2>4
<1>13. ASSUME NEW p \in Procs, WriteFails(p) PROVE Typed'
  <2>1. /\ pc' = [pc EXCEPT ![p] = "exit"] /\ file' = [file EXCEPT ![p] = NoFile]
        /\ outcome' = [outcome EXCEPT ![p] = "failure"]
        /\ device' = [device EXCEPT ![p] = "released"]
    BY <1>13 DEF WriteFails, ReturnFalse, Leave
  <2>2. data' = [data EXCEPT ![file[p]] = Truncated]
        /\ UNCHANGED <<dir, args, lines, cur, pixels, starts>>
    BY <1>13 DEF WriteFails
  <2>. QED BY <2>1, <2>2
<1>14. ASSUME NEW p \in Procs, RemoveOriginal(p) PROVE Typed'
  <2>1. CASE dir[cur[p]] = NoFile
    <3>1. ReturnFalse(p) /\ UNCHANGED <<dir, data, args, lines, cur, pixels, starts>>
      BY <1>14, <2>1 DEF RemoveOriginal
    <3>. QED BY <3>1, LeaveTyped DEF ReturnFalse
  <2>2. CASE dir[cur[p]] # NoFile
    <3>1. /\ dir' = [dir EXCEPT ![cur[p]] = NoFile] /\ pc' = [pc EXCEPT ![p] = "rename"]
          /\ UNCHANGED <<data, args, lines, cur, pixels, file, device, outcome, starts>>
      BY <1>14, <2>2 DEF RemoveOriginal
    <3>2. pc[p] \in Working
      BY <1>14 DEF RemoveOriginal
    <3>. QED BY <3>1, <3>2
  <2>. QED BY <2>1, <2>2
<1>15. ASSUME NEW p \in Procs, RemoveThrows(p) \/ RenameThrows(p) PROVE Typed'
  BY <1>15, TerminateTyped DEF RemoveThrows, RenameThrows
<1>16. ASSUME NEW p \in Procs, RenameTemp(p) PROVE Typed'
  <2>1. CASE Renameable(cur[p])
    <3>1. cur[p] \in Paths /\ TempOf[cur[p]] \in Names
      BY <1>16 DEF RenameTemp
    <3>2. dir[TempOf[cur[p]]] \in Inodes
      BY <2>1, <3>1 DEF Renameable
    <3>3. /\ dir' = [dir EXCEPT ![cur[p]] = dir[TempOf[cur[p]]],
                                ![TempOf[cur[p]]] = NoFile]
          /\ pc' = [pc EXCEPT ![p] = "lines"]
          /\ UNCHANGED <<data, args, lines, cur, pixels, file, device, outcome, starts>>
      BY <1>16, <2>1 DEF RenameTemp
    <3>4. dir' \in [Names -> Inodes \cup {NoFile}]
      BY <3>1, <3>2, <3>3
    <3>5. \A q \in Procs : pc'[q] \in Working => pc[q] = pc'[q]
      BY <3>3
    <3>6. UNCHANGED <<data, args, lines, cur, pixels, file, device, outcome, starts>>
      BY <3>3
    <3>7. pc' \in [Procs -> {"start", "args", "lines", "load", "filter", "open",
                             "write", "remove", "rename", "exit"}]
      BY <3>3
    <3>. QED BY <3>4, <3>5, <3>6, <3>7
  <2>2. CASE ~Renameable(cur[p])
    <3>1. Terminate(p) /\ UNCHANGED <<dir, data, args, lines, cur, pixels, starts>>
      BY <1>16, <2>2 DEF RenameTemp
    <3>. QED BY <3>1, TerminateTyped
  <2>. QED BY <2>1, <2>2
<1>17. ASSUME NEW p \in Procs, Crash(p) PROVE Typed'
  BY <1>17, TerminateTyped DEF Crash
<1>18. ASSUME NEW p \in Procs, Restart(p) PROVE Typed'
  BY <1>18 DEF Restart
<1>19. CASE UNCHANGED vars
  BY <1>19 DEF vars
<1>. QED
  BY <1>1, <1>2, <1>3, <1>4, <1>5, <1>6, <1>7, <1>8, <1>9, <1>10, <1>11, <1>12,
     <1>13, <1>14, <1>15, <1>16, <1>17, <1>18, <1>19 DEF Next, Run

\* Every variable keeps to its type, whatever the environment does to a run
\* (main.cpp:48-115, defaultlightmapdenoiser.cpp:64-165).
THEOREM TypeCorrect == Spec => []TypeOK
<1>1. Typed => TypeOK
  BY DEF Typed
<1>. QED BY <1>1, TypedInit, TypedNext, PTL DEF Spec
-------------------------------------------------------------------------------
(***************************************************************************)
(* A run only ever works on lightmaps of its own arguments.                *)
(***************************************************************************)
Belongs ==
  \A p \in Procs :
    /\ args[p] \in Seq(Mine(p) \cup MyLists(p))
    /\ lines[p] \in Seq(Mine(p) \cup Lists \cup {Blank})
    /\ pc[p] = "load" => cur[p] \in Mine(p) \cup Lists
    /\ pc[p] \in Working => cur[p] \in Mine(p)

LEMMA ArgsBelong ==
  ASSUME NEW p \in Procs
  PROVE  Args[p] \in Seq(Mine(p) \cup MyLists(p))
<1>1. Args[p] \in Seq(Paths \cup Lists)
  BY DenoiserAssumption
<1>2. ASSUME NEW i \in DOMAIN Args[p] PROVE Args[p][i] \in Mine(p) \cup MyLists(p)
  BY <1>1, <1>2 DEF Mine, MyLists
<1>. QED BY <1>1, <1>2

LEMMA LinesBelong ==
  ASSUME NEW p \in Procs, NEW l \in MyLists(p)
  PROVE  Lines[l] \in Seq(Mine(p) \cup Lists \cup {Blank})
<1>1. Lines[l] \in Seq(Paths \cup Lists \cup {Blank})
  BY DenoiserAssumption DEF MyLists
<1>2. ASSUME NEW i \in DOMAIN Lines[l]
      PROVE Lines[l][i] \in Mine(p) \cup Lists \cup {Blank}
  BY <1>1, <1>2 DEF Mine
<1>. QED BY <1>1, <1>2

LEMMA BelongsNext == Typed /\ Belongs /\ [Next]_vars => Belongs'
<1> SUFFICES ASSUME Typed, Belongs, [Next]_vars, NEW q \in Procs
             PROVE  /\ args'[q] \in Seq(Mine(q) \cup MyLists(q))
                    /\ lines'[q] \in Seq(Mine(q) \cup Lists \cup {Blank})
                    /\ pc'[q] = "load" => cur'[q] \in Mine(q) \cup Lists
                    /\ pc'[q] \in Working => cur'[q] \in Mine(q)
  BY DEF Belongs, Mine, MyLists
<1> DEFINE Goal == /\ args'[q] \in Seq(Mine(q) \cup MyLists(q))
                   /\ lines'[q] \in Seq(Mine(q) \cup Lists \cup {Blank})
                   /\ pc'[q] = "load" => cur'[q] \in Mine(q) \cup Lists
                   /\ pc'[q] \in Working => cur'[q] \in Mine(q)
<1>0. /\ args[q] \in Seq(Mine(q) \cup MyLists(q))
      /\ lines[q] \in Seq(Mine(q) \cup Lists \cup {Blank})
      /\ pc[q] = "load" => cur[q] \in Mine(q) \cup Lists
      /\ pc[q] \in Working => cur[q] \in Mine(q)
      /\ pc \in [Procs -> {"start", "args", "lines", "load", "filter", "open",
                           "write", "remove", "rename", "exit"}]
      /\ DOMAIN args = Procs /\ DOMAIN lines = Procs /\ DOMAIN cur = Procs
  BY DEF Belongs, Typed, TypeOK
<1>1. ASSUME NEW p \in Procs, NextArg(p) PROVE Goal
  <2>1. CASE p # q
    BY <1>0, <1>1, <2>1 DEF NextArg
  <2>2. CASE p = q
    <3>1. /\ Head(args[q]) \in Mine(q) \cup MyLists(q)
          /\ Tail(args[q]) \in Seq(Mine(q) \cup MyLists(q))
      BY <1>0, <1>1, <2>2, TailType DEF NextArg
    <3>2. CASE Head(args[q]) \in Lists
      <4>1. Head(args[q]) \in MyLists(q)
        BY <3>1, <3>2, DenoiserAssumption DEF Mine
      <4>2. lines'[q] = Lines[Head(args[q])]
        BY <1>0, <1>1, <2>2, <3>2 DEF NextArg
      <4>3. lines'[q] \in Seq(Mine(q) \cup Lists \cup {Blank})
        BY <4>1, <4>2, LinesBelong
      <4>. QED BY <1>0, <1>1, <2>2, <3>1, <4>3 DEF NextArg, Working
    <3>3. CASE Head(args[q]) \notin Lists
      <4>1. Head(args[q]) \in Mine(q)
        BY <3>1, <3>3 DEF MyLists
      <4>2. lines'[q] = <<Head(args[q])>>
        BY <1>0, <1>1, <2>2, <3>3 DEF NextArg
      <4>3. lines'[q] \in Seq(Mine(q) \cup Lists \cup {Blank})
        BY <4>1, <4>2
      <4>. QED BY <1>0, <1>1, <2>2, <3>1, <4>3 DEF NextArg, Working
    <3>. QED BY <3>2, <3>3
  <2>. QED BY <2>1, <2>2
<1>2. ASSUME NEW p \in Procs, NextLine(p) PROVE Goal
  <2>1. CASE p # q
    BY <1>0, <1>2, <2>1 DEF NextLine
  <2>2. CASE p = q
    <3>1. /\ Head(lines[q]) \in Mine(q) \cup Lists \cup {Blank}
          /\ Tail(lines[q]) \in Seq(Mine(q) \cup Lists \cup {Blank})
      BY <1>0, <1>2, <2>2, TailType DEF NextLine
    <3>2. CASE Head(lines[q]) = Blank
      BY <1>0, <1>2, <2>2, <3>1, <3>2 DEF NextLine, Working
    <3>3. CASE Head(lines[q]) # Blank
      BY <1>0, <1>2, <2>2, <3>1, <3>3 DEF NextLine, Working
    <3>. QED BY <3>2, <3>3
  <2>. QED BY <2>1, <2>2
<1>3. ASSUME NEW p \in Procs, Load(p) PROVE Goal
  <2>1. UNCHANGED <<args, lines, cur>>
    BY <1>3 DEF Load
  <2>2. CASE Loadable(cur[p])
    <3>1. cur[p] \notin Lists
      BY <2>2, DenoiserAssumption DEF Loadable
    <3>2. pc' = [pc EXCEPT ![p] = "filter"]
      BY <1>3, <2>2 DEF Load
    <3>. QED BY <1>0, <1>3, <2>1, <3>1, <3>2 DEF Load, Working
  <2>3. CASE ~Loadable(cur[p])
    BY <1>0, <1>3, <2>1, <2>3 DEF Load, ReturnFalse, Leave, Working
  <2>. QED BY <2>2, <2>3
<1>4. ASSUME NEW p \in Procs, Restart(p) PROVE Goal
  <2>1. <<>> \in Seq(Mine(q) \cup Lists \cup {Blank})
    OBVIOUS
  <2>. QED BY <1>0, <1>4, <2>1, ArgsBelong DEF Restart, Working
<1>5. ASSUME NEW p \in Procs, UNCHANGED <<args, lines, cur>>,
             \A r \in Procs : pc'[r] = pc[r] \/ pc'[r] \notin {"load"} \cup Working
                              \/ pc[r] \in Working
      PROVE Goal
  BY <1>0, <1>5 DEF Working
<1>6. ASSUME NEW p \in Procs, Start(p) PROVE Goal
  BY <1>0, <1>5, <1>6 DEF Start, Leave, Working
<1>7. ASSUME NEW p \in Procs, ListFails(p) \/ Succeed(p) \/ LastLine(p) PROVE Goal
  BY <1>0, <1>5, <1>7 DEF ListFails, Succeed, LastLine, ReturnFalse, Leave, Working
<1>8. ASSUME NEW p \in Procs, Filter(p) \/ FilterFails(p) \/ OpenTemp(p) \/ OpenFails(p)
                              \/ ReadFails(p)
                              \/ WriteTemp(p) \/ WriteFails(p)
      PROVE Goal
  BY <1>0, <1>5, <1>8 DEF Filter, FilterFails, OpenTemp, OpenFails, ReadFails, WriteTemp,
     WriteFails, ReturnFalse, Leave, Working
<1>9. ASSUME NEW p \in Procs, RemoveOriginal(p) \/ RemoveThrows(p) \/ RenameThrows(p)
                              \/ RenameTemp(p)
                              \/ Crash(p)
      PROVE Goal
  BY <1>0, <1>5, <1>9 DEF RemoveOriginal, RemoveThrows, RenameThrows, RenameTemp, Crash,
     ReturnFalse,
     Terminate, Leave, Working
<1>10. CASE UNCHANGED vars
  BY <1>0, <1>10 DEF vars
<1>. QED
  BY <1>1, <1>2, <1>3, <1>4, <1>6, <1>7, <1>8, <1>9, <1>10 DEF Next, Run

LEMMA BelongsInit == Init => Belongs
<1> SUFFICES ASSUME Init PROVE Belongs
  OBVIOUS
<1>1. args = Args /\ lines = [p \in Procs |-> <<>>] /\ pc = [p \in Procs |-> "start"]
  BY DEF Init
<1>2. \A p \in Procs : <<>> \in Seq(Mine(p) \cup Lists \cup {Blank})
  OBVIOUS
<1>. QED BY <1>1, <1>2, ArgsBelong DEF Belongs, Working
-------------------------------------------------------------------------------
(***************************************************************************)
(* The file system invariant.  Names do not share inodes; a run that has a *)
(* file open has its own temporary file open; and from the load on a run's *)
(* lightmap is complete at its path until it is removed, and complete in   *)
(* its temporary file once that has been closed.                           *)
(***************************************************************************)
NoSharing ==
  \A m, n \in Names : m # n /\ dir[m] = dir[n] => dir[m] = NoFile

OpenFile ==
  \A p \in Procs : file[p] # NoFile =>
    pc[p] = "write" /\ file[p] = dir[TempOf[cur[p]]]

Saving(p) ==
  /\ pc[p] \in {"filter", "open", "write", "remove"} =>
       Content(cur[p]) \in ImageOf(cur[p])
  /\ pc[p] \in {"filter", "open", "write"} => pixels[p] \in ImageOf(cur[p])
  /\ pc[p] = "write" => file[p] # NoFile
  /\ pc[p] \in {"remove", "rename"} => Content(TempOf[cur[p]]) \in ImageOf(cur[p])

Safe ==
  /\ NoSharing
  /\ OpenFile
  /\ \A p \in Procs : Saving(p)
  /\ NothingLost
  /\ VisibleComplete

\* The names a step of run p may change the content of.
MyNames(p) == {cur[p], TempOf[cur[p]]}
Frame(p) == \A n \in Names \ MyNames(p) : Content(n)' = Content(n) /\ dir'[n] = dir[n]

Others(p) ==
  \A q \in Procs \ {p} : /\ pc'[q] = pc[q] /\ cur'[q] = cur[q]
                         /\ pixels'[q] = pixels[q] /\ file'[q] = file[q]

\* A step of run p that keeps to its names preserves the invariant if it does so
\* for p and for p's lightmap.
LEMMA StepOfOne ==
  ASSUME SoleUse, Typed, Belongs, Safe, Typed', NEW p \in Procs,
         cur[p] \in Mine(p), cur'[p] = cur[p],
         Others(p), Frame(p),
         NoSharing', Saving(p)',
         file'[p] # NoFile => pc'[p] = "write" /\ file'[p] = dir'[TempOf[cur[p]]],
         \/ Content(cur[p])' \in ImageOf(cur[p])
         \/ Content(cur[p])' = NoFile /\ Content(TempOf[cur[p]])' \in ImageOf(cur[p])
  PROVE  Safe'
<1> USE DenoiserAssumption DEF Typed, TypeOK
<1>0. \A q \in Procs : Mine(q) \subseteq Paths /\ (pc[q] \in Working => cur[q] \in Mine(q))
  BY DEF Belongs, Mine
<1>. cur[p] \in Paths
  BY <1>0
<1>1. ASSUME NEW f \in Paths, f # cur[p]
      PROVE  /\ f \in Names \ MyNames(p) /\ TempOf[f] \in Names \ MyNames(p)
             /\ Content(f)' = Content(f) /\ Content(TempOf[f])' = Content(TempOf[f])
             /\ dir'[TempOf[f]] = dir[TempOf[f]]
  BY <1>0, <1>1 DEF Frame, MyNames, SoleUse
<1>2. \A f \in Paths \ {cur[p]}, n \in Names : n \in {f, TempOf[f]} =>
        (IF dir'[n] = NoFile THEN NoFile ELSE data'[dir'[n]])
          = (IF dir[n] = NoFile THEN NoFile ELSE data[dir[n]])
  BY <1>1 DEF Content
<1>9. ASSUME NEW q \in Procs, q # p, pc[q] \in Working
      PROVE  cur[q] \in Paths /\ cur[q] # cur[p]
  BY <1>0, <1>9 DEF SoleUse
<1>3. ASSUME NEW q \in Procs PROVE Saving(q)'
  <2>1. CASE q = p
    BY <2>1
  <2>2. CASE q # p /\ pc[q] \in Working
    <3>1. cur[q] \in Paths /\ cur[q] # cur[p]
      BY <1>9, <2>2
    <3>2. Saving(q)
      BY DEF Safe
    <3>3. /\ pc'[q] = pc[q] /\ cur'[q] = cur[q]
          /\ pixels'[q] = pixels[q] /\ file'[q] = file[q]
      BY <2>2 DEF Others
    <3>4. Content(cur[q])' = Content(cur[q]) /\ Content(TempOf[cur[q]])' = Content(TempOf[cur[q]])
      <4>1. cur[q] \in Names /\ TempOf[cur[q]] \in Names
        BY <3>1
      <4> HIDE DenoiserAssumption DEF Typed, TypeOK, Names
      <4>2. \A n \in {cur[q], TempOf[cur[q]]} :
              (IF dir'[n] = NoFile THEN NoFile ELSE data'[dir'[n]])
                = (IF dir[n] = NoFile THEN NoFile ELSE data[dir[n]])
        BY <1>2, <3>1, <4>1
      <4>. QED BY <3>3, <4>2 DEF Content
    <3>. QED BY <3>2, <3>3, <3>4 DEF Saving
  <2>3. CASE q # p /\ pc[q] \notin Working
    BY <2>3 DEF Saving, Others, Working
  <2>. QED BY <2>1, <2>2, <2>3
<1>4. OpenFile'
  <2> SUFFICES ASSUME NEW q \in Procs, file'[q] # NoFile
               PROVE pc'[q] = "write" /\ file'[q] = dir'[TempOf[cur'[q]]]
    BY DEF OpenFile
  <2>1. CASE q = p
    BY <2>1
  <2>2. CASE q # p
    <3>1. pc[q] = "write" /\ file[q] = dir[TempOf[cur[q]]]
      BY <2>2 DEF Safe, OpenFile, Others
    <3>2. cur[q] \in Paths /\ cur[q] # cur[p]
      BY <1>9, <2>2, <3>1 DEF Working
    <3>. QED BY <1>1, <2>2, <3>1, <3>2 DEF Others
  <2>. QED BY <2>1, <2>2
<1>5. NothingLost'
  <2> SUFFICES ASSUME NEW f \in Paths
               PROVE Content(f)' \in ImageOf(f) \/ Content(TempOf[f])' \in ImageOf(f)
    BY DEF NothingLost
  <2>1. CASE f = cur[p]
    BY <2>1 DEF Content
  <2>2. CASE f # cur[p]
    BY <1>1, <2>2 DEF NothingLost, Safe
  <2>. QED BY <2>1, <2>2
<1>6. VisibleComplete'
  <2> SUFFICES ASSUME NEW f \in Paths
               PROVE Content(f)' \in ImageOf(f) \cup {NoFile}
    BY DEF VisibleComplete
  <2>1. CASE f = cur[p]
    BY <2>1 DEF Content
  <2>2. CASE f # cur[p]
    BY <1>1, <2>2 DEF VisibleComplete, Safe
  <2>. QED BY <2>1, <2>2
<1>. QED BY <1>3, <1>4, <1>5, <1>6 DEF Safe

\* A step outside denoise(), or one that leaves it, preserves the invariant.
Outside(p) ==
  /\ UNCHANGED <<dir, data>>
  /\ Others(p)
  /\ pc'[p] \notin Working
  /\ file'[p] = NoFile \/ (file'[p] = file[p] /\ pc[p] # "write")

LEMMA StepOutside ==
  ASSUME Safe, NEW p \in Procs, Outside(p)
  PROVE  Safe'
<1>1. NoSharing' /\ NothingLost' /\ VisibleComplete'
  BY DEF Safe, NoSharing, NothingLost, VisibleComplete, Content, Outside
<1>2. OpenFile'
  BY DEF Safe, OpenFile, Outside, Others
<1>3. ASSUME NEW q \in Procs PROVE Saving(q)'
  <2>1. Saving(q)
    BY DEF Safe
  <2>. QED BY <2>1 DEF Saving, Content, Working, Outside, Others
<1>. QED BY <1>1, <1>2, <1>3 DEF Safe

LEMMA SafeInit == Init => Safe
<1> SUFFICES ASSUME Init PROVE Safe
  OBVIOUS
<1> USE DenoiserAssumption
<1>1. dir = [n \in Names |-> IF n \in Paths THEN Home[n] ELSE NoFile]
  BY DEF Init
<1>2. NoSharing
  BY <1>1 DEF NoSharing
<1>3. OpenFile /\ \A p \in Procs : Saving(p)
  BY DEF Init, OpenFile, Saving
<1>4. ASSUME NEW f \in Paths PROVE Content(f) = <<f, 0>>
  <2>1. dir[f] = Home[f] /\ Home[f] \in Inodes
    BY <1>1
  <2>2. data[Home[f]] = <<CHOOSE g \in Paths : Home[g] = Home[f], 0>>
    BY <2>1 DEF Init
  <2>3. (CHOOSE g \in Paths : Home[g] = Home[f]) = f
    OBVIOUS
  <2>. QED BY <2>1, <2>2, <2>3 DEF Content
<1>. QED BY <1>2, <1>3, <1>4 DEF Safe, NothingLost, VisibleComplete

LEMMA SafeNext ==
  ASSUME SoleUse, "close" \notin Faults, Typed, Belongs, Safe, [Next]_vars, Typed'
  PROVE  Safe'
<1> USE DenoiserAssumption
<1>a. /\ DOMAIN pc = Procs /\ DOMAIN file = Procs /\ DOMAIN pixels = Procs
      /\ DOMAIN cur = Procs /\ DOMAIN dir = Names /\ DOMAIN data = Inodes
  BY DEF Typed, TypeOK
<1>1. ASSUME NEW p \in Procs, Start(p) PROVE Safe'
  BY <1>1, <1>a, StepOutside DEF Start, Leave, Working, Outside, Others
<1>2. ASSUME NEW p \in Procs, NextArg(p) \/ LastLine(p) PROVE Safe'
  BY <1>2, <1>a, StepOutside DEF NextArg, LastLine, Working, Outside, Others
<1>3. ASSUME NEW p \in Procs, ListFails(p) \/ Succeed(p) PROVE Safe'
  BY <1>3, <1>a, StepOutside DEF ListFails, Succeed, ReturnFalse, Leave, Working, Outside, Others
<1>4. ASSUME NEW p \in Procs, NextLine(p) PROVE Safe'
  <2>1. pc' = pc \/ pc' = [pc EXCEPT ![p] = "load"]
    BY <1>4 DEF NextLine
  <2>2. cur' = cur \/ cur' = [cur EXCEPT ![p] = Head(lines[p])]
    BY <1>4 DEF NextLine
  <2>. QED BY <1>4, <1>a, <2>1, <2>2, StepOutside DEF NextLine, Working, Outside, Others
<1>5. ASSUME NEW p \in Procs, FilterFails(p) \/ OpenFails(p) \/ ReadFails(p) PROVE Safe'
  BY <1>5, <1>a, StepOutside DEF FilterFails, OpenFails, ReadFails, ReturnFalse, Leave, Working,
     Outside, Others
<1>6. ASSUME NEW p \in Procs, RemoveThrows(p) \/ RenameThrows(p) \/ Crash(p) PROVE Safe'
  BY <1>6, <1>a, StepOutside DEF RemoveThrows, RenameThrows, Crash, Terminate, Leave, Working,
     Outside, Others
<1>7. ASSUME NEW p \in Procs, Restart(p) PROVE Safe'
  BY <1>7, <1>a, StepOutside DEF Restart, Working, Outside, Others
<1>b. ASSUME NEW p \in Procs, pc[p] \in Working
      PROVE  /\ cur[p] \in Mine(p) /\ cur[p] \in Paths /\ TempOf[cur[p]] \in Temps
             /\ cur[p] # TempOf[cur[p]] /\ cur[p] \in Names /\ TempOf[cur[p]] \in Names
  BY <1>b DEF Typed, Belongs
<1>c. ASSUME NEW p \in Procs PROVE Saving(p)
  BY DEF Safe
<1>8. ASSUME NEW p \in Procs, Load(p) PROVE Safe'
  <2>1. CASE ~Loadable(cur[p])
    <3>1. ReturnFalse(p) /\ UNCHANGED <<dir, data, args, lines, cur, pixels, starts>>
      BY <1>8, <2>1 DEF Load
    <3>. QED BY <3>1, <1>a, StepOutside DEF ReturnFalse, Leave, Working, Outside, Others
  <2>2. CASE Loadable(cur[p])
    <3>1. /\ pc[p] = "load" /\ cur[p] \in Paths /\ Content(cur[p]) \in Images
          /\ pixels' = [pixels EXCEPT ![p] = Content(cur[p])]
          /\ pc' = [pc EXCEPT ![p] = "filter"]
          /\ UNCHANGED <<dir, data, cur, file>>
      BY <1>8, <2>2 DEF Load, Loadable
    <3>2. cur[p] \in Mine(p)
      BY <3>1 DEF Belongs
    <3>3. Content(cur[p]) \in ImageOf(cur[p])
      BY <3>1 DEF Safe, VisibleComplete
    <3>4. Others(p) /\ Frame(p) /\ NoSharing'
      BY <1>a, <3>1 DEF Others, Frame, Content, Safe, NoSharing
    <3>5. Content(cur[p])' \in ImageOf(cur[p])
      BY <3>1, <3>3 DEF Content
    <3>6. Saving(p)'
      BY <1>a, <3>1, <3>3, <3>5 DEF Saving, Content
    <3>7. file'[p] = NoFile
      BY <3>1 DEF Safe, OpenFile
    <3>. QED BY <3>1, <3>2, <3>4, <3>5, <3>6, <3>7, StepOfOne
  <2>. QED BY <2>1, <2>2
<1>9. ASSUME NEW p \in Procs, Filter(p) PROVE Safe'
  <2>1. /\ pc[p] = "filter" /\ pc' = [pc EXCEPT ![p] = "open"]
        /\ pixels' = [pixels EXCEPT ![p] = <<pixels[p][1], pixels[p][2] + 1>>]
        /\ UNCHANGED <<dir, data, cur, file>>
    BY <1>9 DEF Filter
  <2>2. cur[p] \in Mine(p) /\ cur[p] \in Paths
    BY <1>b, <2>1 DEF Working
  <2>3. Content(cur[p]) \in ImageOf(cur[p]) /\ pixels[p] \in ImageOf(cur[p])
    BY <1>c, <2>1 DEF Saving
  <2>4. Others(p) /\ Frame(p) /\ NoSharing'
    BY <1>a, <2>1 DEF Others, Frame, Content, Safe, NoSharing
  <2>5. Content(cur[p])' \in ImageOf(cur[p])
    BY <2>1, <2>3 DEF Content
  <2>6. pixels'[p] \in ImageOf(cur[p])
    BY <1>a, <2>1, <2>3
  <2>7. Saving(p)'
    BY <1>a, <2>1, <2>5, <2>6 DEF Saving, Content
  <2>8. file'[p] = NoFile
    BY <2>1 DEF Safe, OpenFile
  <2>. QED BY <2>1, <2>2, <2>4, <2>5, <2>7, <2>8, StepOfOne
<1>10. ASSUME NEW p \in Procs, OpenTemp(p) PROVE Safe'
  <2> DEFINE t == TempOf[cur[p]]
  <2>1. /\ pc[p] = "open" /\ pc' = [pc EXCEPT ![p] = "write"]
        /\ UNCHANGED <<cur, pixels>>
    BY <1>10 DEF OpenTemp
  <2>2. /\ cur[p] \in Mine(p) /\ cur[p] \in Paths /\ t \in Temps /\ t # cur[p]
        /\ cur[p] \in Names /\ t \in Names
    BY <1>b, <2>1 DEF Working
  <2>3. PICK i \in IF dir[t] = NoFile THEN Free ELSE {dir[t]} :
          /\ dir' = [dir EXCEPT ![t] = i]
          /\ data' = [data EXCEPT ![i] = Truncated]
          /\ file' = [file EXCEPT ![p] = i]
    BY <1>10 DEF OpenTemp
  <2>4. i \in Inodes /\ \A n \in Names \ {t} : dir[n] # i
    BY <2>2, <2>3 DEF Free, Safe, NoSharing, Typed, TypeOK
  <2>5. \A n \in Names \ {t} : dir'[n] = dir[n] /\ Content(n)' = Content(n)
    BY <1>a, <2>2, <2>3, <2>4 DEF Content, Typed, TypeOK
  <2>6. dir'[t] = i /\ file'[p] = i
    BY <1>a, <2>2, <2>3
  <2>7. NoSharing'
    BY <2>4, <2>5, <2>6 DEF Safe, NoSharing
  <2>8. Others(p) /\ Frame(p)
    BY <1>a, <2>1, <2>3, <2>5 DEF Others, Frame, MyNames
  <2>9. Content(cur[p]) \in ImageOf(cur[p]) /\ pixels[p] \in ImageOf(cur[p])
    BY <1>c, <2>1 DEF Saving
  <2>10. Content(cur[p])' \in ImageOf(cur[p])
    BY <2>1, <2>2, <2>5, <2>9 DEF Content
  <2>11. Saving(p)'
    BY <1>a, <2>1, <2>4, <2>6, <2>9, <2>10 DEF Saving, Content
  <2>. QED BY <1>a, <2>1, <2>2, <2>6, <2>7, <2>8, <2>10, <2>11, StepOfOne
<1>11. ASSUME NEW p \in Procs, WriteTemp(p) \/ WriteFails(p) PROVE Safe'
  <2> DEFINE t == TempOf[cur[p]]
  <2>1. /\ pc[p] = "write" /\ UNCHANGED <<dir, cur, pixels>>
        /\ file' = [file EXCEPT ![p] = NoFile]
    BY <1>11 DEF WriteTemp, WriteFails, ReturnFalse, Leave
  <2>2. /\ cur[p] \in Mine(p) /\ cur[p] \in Paths /\ t \in Temps /\ t # cur[p]
        /\ cur[p] \in Names /\ t \in Names
    BY <1>b, <2>1 DEF Working
  <2>3. file[p] = dir[t] /\ dir[t] # NoFile /\ dir[t] \in Inodes
    BY <1>c, <2>1, <2>2 DEF Saving, Safe, OpenFile, Typed, TypeOK
  <2>4. \E x : data' = [data EXCEPT ![dir[t]] = x]
    BY <1>11, <2>3 DEF WriteTemp, Written, WriteFails
  <2>5. \A n \in Names \ {t} : dir'[n] = dir[n] /\ Content(n)' = Content(n)
    BY <1>a, <2>1, <2>2, <2>3, <2>4 DEF Content, Safe, NoSharing, Typed, TypeOK
  <2>6. NoSharing'
    BY <2>1 DEF Safe, NoSharing
  <2>7. Others(p) /\ Frame(p)
    <3>1. pc' = [pc EXCEPT ![p] = "remove"] \/ pc' = [pc EXCEPT ![p] = "exit"]
      BY <1>11 DEF WriteTemp, WriteFails, ReturnFalse, Leave
    <3>. QED BY <1>a, <2>1, <2>5, <3>1 DEF Others, Frame, MyNames
  <2>8. Content(cur[p]) \in ImageOf(cur[p]) /\ pixels[p] \in ImageOf(cur[p])
    BY <1>c, <2>1 DEF Saving
  <2>9. Content(cur[p])' \in ImageOf(cur[p])
    BY <2>1, <2>2, <2>5, <2>8 DEF Content
  <2>10. Saving(p)'
    <3>1. CASE WriteTemp(p)
      <4>1. pc' = [pc EXCEPT ![p] = "remove"] /\ data' = [data EXCEPT ![dir[t]] = pixels[p]]
        BY <2>3, <3>1 DEF WriteTemp, Written
      <4>2. Content(t)' = pixels[p]
        BY <1>a, <2>1, <2>2, <2>3, <4>1 DEF Content
      <4>. QED BY <1>a, <2>1, <2>8, <2>9, <4>1, <4>2 DEF Saving, Content
    <3>2. CASE WriteFails(p)
      BY <1>a, <3>2 DEF WriteFails, ReturnFalse, Leave, Saving
    <3>. QED BY <1>11, <3>1, <3>2
  <2>. QED BY <1>a, <2>1, <2>2, <2>6, <2>7, <2>9, <2>10, StepOfOne
<1>12. ASSUME NEW p \in Procs, RemoveOriginal(p) PROVE Safe'
  <2> DEFINE t == TempOf[cur[p]]
  <2>1. pc[p] = "remove" /\ UNCHANGED <<data, cur, pixels>>
    BY <1>12 DEF RemoveOriginal
  <2>2. /\ cur[p] \in Mine(p) /\ cur[p] \in Paths /\ t \in Temps /\ t # cur[p]
        /\ cur[p] \in Names /\ t \in Names
    BY <1>b, <2>1 DEF Working
  <2>3. Content(cur[p]) \in ImageOf(cur[p]) /\ Content(t) \in ImageOf(cur[p])
    BY <1>c, <2>1 DEF Saving
  <2>4. dir[cur[p]] # NoFile
    BY <2>2, <2>3 DEF Content
  <2>5. /\ dir' = [dir EXCEPT ![cur[p]] = NoFile] /\ pc' = [pc EXCEPT ![p] = "rename"]
        /\ UNCHANGED file
    BY <1>12, <2>4 DEF RemoveOriginal
  <2>6. \A n \in Names \ {cur[p]} : dir'[n] = dir[n] /\ Content(n)' = Content(n)
    BY <1>a, <2>1, <2>2, <2>5 DEF Content
  <2>7. dir'[cur[p]] = NoFile
    BY <1>a, <2>2, <2>5
  <2>8. NoSharing'
    BY <2>6, <2>7 DEF Safe, NoSharing
  <2>9. Others(p) /\ Frame(p)
    BY <1>a, <2>1, <2>5, <2>6 DEF Others, Frame, MyNames
  <2>10. Content(cur[p])' = NoFile /\ Content(t)' \in ImageOf(cur[p])
    BY <2>1, <2>2, <2>3, <2>6, <2>7 DEF Content
  <2>11. Saving(p)'
    BY <1>a, <2>1, <2>5, <2>10 DEF Saving, Content
  <2>12. file'[p] = NoFile
    BY <2>1, <2>5 DEF Safe, OpenFile
  <2>. QED BY <2>1, <2>2, <2>8, <2>9, <2>10, <2>11, <2>12, StepOfOne
<1>13. ASSUME NEW p \in Procs, RenameTemp(p) PROVE Safe'
  <2> DEFINE t == TempOf[cur[p]]
  <2>1. CASE ~Renameable(cur[p])
    <3>1. Terminate(p) /\ UNCHANGED <<dir, data, cur, pixels>>
      BY <1>13, <2>1 DEF RenameTemp
    <3>. QED BY <1>a, <3>1, StepOutside DEF Terminate, Leave, Working, Outside, Others
  <2>2. CASE Renameable(cur[p])
    <3>1. /\ pc[p] = "rename" /\ pc' = [pc EXCEPT ![p] = "lines"]
          /\ dir' = [dir EXCEPT ![cur[p]] = dir[t], ![t] = NoFile]
          /\ UNCHANGED <<data, cur, pixels, file>>
      BY <1>13, <2>2 DEF RenameTemp
    <3>2. /\ cur[p] \in Mine(p) /\ cur[p] \in Paths /\ t \in Temps /\ t # cur[p]
          /\ cur[p] \in Names /\ t \in Names
      BY <1>b, <3>1 DEF Working
    <3>3. Content(t) \in ImageOf(cur[p])
      BY <1>c, <3>1 DEF Saving
    <3>4. dir'[cur[p]] = dir[t] /\ dir'[t] = NoFile
      BY <1>a, <3>1, <3>2
    <3>5. \A n \in Names \ {cur[p], t} : dir'[n] = dir[n] /\ Content(n)' = Content(n)
      BY <1>a, <3>1, <3>2 DEF Content
    <3>6. NoSharing'
      BY <3>2, <3>4, <3>5 DEF Safe, NoSharing
    <3>7. Others(p) /\ Frame(p)
      BY <1>a, <3>1, <3>5 DEF Others, Frame, MyNames
    <3>8. Content(cur[p])' \in ImageOf(cur[p])
      BY <3>1, <3>2, <3>3, <3>4 DEF Content
    <3>9. Saving(p)'
      BY <1>a, <3>1 DEF Saving
    <3>10. file'[p] = NoFile
      BY <3>1 DEF Safe, OpenFile
    <3>. QED BY <3>1, <3>2, <3>6, <3>7, <3>8, <3>9, <3>10, StepOfOne
  <2>. QED BY <2>1, <2>2
<1>14. CASE UNCHANGED vars
  BY <1>14 DEF vars, Safe, NoSharing, OpenFile, Saving, NothingLost, VisibleComplete, Content
<1>. QED
  BY <1>1, <1>2, <1>3, <1>4, <1>5, <1>6, <1>7, <1>8, <1>9, <1>10, <1>11, <1>12,
     <1>13, <1>14 DEF Next, Run

\* Where runs share neither lightmaps nor file names and fclose reports no late
\* error, no lightmap is ever lost, however the runs fail or are killed
\* (defaultlightmapdenoiser.cpp:128-140).
THEOREM NeverLost == SoleUse /\ "close" \notin Faults => (Spec => []NothingLost)
<1> SUFFICES ASSUME SoleUse, "close" \notin Faults PROVE Spec => []NothingLost
  OBVIOUS
<1>1. Init => Typed /\ Belongs /\ Safe
  BY TypedInit, BelongsInit, SafeInit
<1>2. Typed /\ Belongs /\ Safe /\ [Next]_vars => (Typed /\ Belongs /\ Safe)'
  BY TypedNext, BelongsNext, SafeNext
<1>3. Typed /\ Belongs /\ Safe => NothingLost
  BY DEF Safe
<1>. QED BY <1>1, <1>2, <1>3, PTL DEF Spec

\* Under the same conditions a reader of a lightmap's path sees a complete image of
\* that lightmap or no file (defaultlightmapdenoiser.cpp:128-140).
THEOREM AlwaysComplete == SoleUse /\ "close" \notin Faults => (Spec => []VisibleComplete)
<1> SUFFICES ASSUME SoleUse, "close" \notin Faults PROVE Spec => []VisibleComplete
  OBVIOUS
<1>1. Init => Typed /\ Belongs /\ Safe
  BY TypedInit, BelongsInit, SafeInit
<1>2. Typed /\ Belongs /\ Safe /\ [Next]_vars => (Typed /\ Belongs /\ Safe)'
  BY TypedNext, BelongsNext, SafeNext
<1>3. Typed /\ Belongs /\ Safe => VisibleComplete
  BY DEF Safe
<1>. QED BY <1>1, <1>2, <1>3, PTL DEF Spec
-------------------------------------------------------------------------------
(***************************************************************************)
(* What a step of a run does to the files, for the two properties that     *)
(* speak of versions: the rest is untouched, the original goes with the    *)
(* removal, and its place is taken by the temporary file.                  *)
(***************************************************************************)
Step(p) == Run(p) \/ Crash(p) \/ Restart(p)

\* Steps that leave the file system alone.
Quiet(p) ==
  \/ Start(p) \/ NextArg(p) \/ ListFails(p) \/ Succeed(p) \/ NextLine(p) \/ LastLine(p)
  \/ Load(p) \/ Filter(p) \/ FilterFails(p) \/ OpenFails(p) \/ ReadFails(p) \/ RemoveThrows(p)
  \/ RenameThrows(p)
  \/ Crash(p) \/ Restart(p)

\* The files after a step of run p that is at f.
Effect(p, f) ==
  /\ \A n \in Names : Content(n)' # Content(n) =>
       \/ n = f /\ pc[p] \in {"remove", "rename"}
       \/ n = TempOf[f] /\ pc[p] \in {"open", "write", "rename"}
  /\ pc[p] = "remove" =>
       \/ pc'[p] = "rename" /\ Content(f)' = NoFile
       \/ pc'[p] = "exit" /\ Content(f)' = Content(f)
  /\ pc[p] = "rename" =>
       \/ pc'[p] = "lines" /\ Content(f)' = Content(TempOf[f])
       \/ pc'[p] = "exit" /\ Content(f)' = Content(f)
  /\ pc[p] = "write" /\ pc'[p] = "remove" => Content(TempOf[f])' = pixels[p]

LEMMA QuietEffect ==
  ASSUME Typed, NEW p \in Procs, Quiet(p), NEW f
  PROVE  UNCHANGED <<dir, data>> /\ Effect(p, f)
<1>1. UNCHANGED <<dir, data>>
  BY DEF Quiet, Start, NextArg, ListFails, Succeed, NextLine, LastLine, Load, Filter,
     FilterFails, OpenFails, ReadFails, RemoveThrows, RenameThrows, Crash, Restart
<1>2. \A n : Content(n)' = Content(n)
  BY <1>1 DEF Content
<1>3. pc[p] \in {"write", "remove", "rename"} => pc'[p] = "exit"
  <2>1. DOMAIN pc = Procs
    BY DEF Typed, TypeOK
  <2>. QED BY <2>1 DEF Quiet, Start, NextArg, ListFails, Succeed, NextLine, LastLine, Load, Filter,
       FilterFails, OpenFails, ReadFails, RemoveThrows, RenameThrows, Crash, Restart, Leave,
       Terminate, ReturnFalse
<1>. QED BY <1>1, <1>2, <1>3 DEF Effect

LEMMA StepEffect ==
  ASSUME SoleUse, "close" \notin Faults, Typed, Belongs, Safe, NEW p \in Procs, Step(p),
         NEW f, f = cur[p]
  PROVE  Effect(p, f)
<1>. DEFINE t == TempOf[f]
<1>. USE DenoiserAssumption
<1>a. /\ DOMAIN pc = Procs /\ DOMAIN file = Procs /\ DOMAIN pixels = Procs
      /\ DOMAIN cur = Procs /\ DOMAIN dir = Names /\ DOMAIN data = Inodes
  BY DEF Typed, TypeOK
<1>b. pc[p] \in Working => /\ f \in Paths /\ t \in Temps /\ t # f /\ f \in Names /\ t \in Names
  BY DEF Typed
<1>c. Saving(p)
  BY DEF Safe
<1>1. CASE OpenTemp(p)
  <2>1. pc[p] = "open" /\ pc' = [pc EXCEPT ![p] = "write"]
    BY <1>1 DEF OpenTemp
  <2>2. f \in Paths /\ t \in Temps /\ t # f /\ f \in Names /\ t \in Names
    BY <1>b, <2>1 DEF Working
  <2>3. PICK i \in IF dir[t] = NoFile THEN Free ELSE {dir[t]} :
          /\ dir' = [dir EXCEPT ![t] = i]
          /\ data' = [data EXCEPT ![i] = Truncated]
    BY <1>1 DEF OpenTemp
  <2>4. i \in Inodes /\ \A n \in Names \ {t} : dir[n] # i
    BY <2>2, <2>3 DEF Free, Safe, NoSharing, Typed, TypeOK
  <2>5. \A n \in Names \ {t} : Content(n)' = Content(n)
    BY <1>a, <2>2, <2>3, <2>4 DEF Content, Typed, TypeOK
  <2>. QED BY <1>a, <2>1, <2>5 DEF Effect
<1>2. CASE WriteTemp(p) \/ WriteFails(p)
  <2>1. pc[p] = "write" /\ UNCHANGED <<dir, cur, pixels>>
    BY <1>2 DEF WriteTemp, WriteFails
  <2>2. f \in Paths /\ t \in Temps /\ t # f /\ f \in Names /\ t \in Names
    BY <1>b, <2>1 DEF Working
  <2>3. file[p] = dir[t] /\ dir[t] # NoFile /\ dir[t] \in Inodes
    BY <1>c, <2>1, <2>2 DEF Saving, Safe, OpenFile, Typed, TypeOK
  <2>4. \E x : data' = [data EXCEPT ![dir[t]] = x]
    BY <1>2, <2>3 DEF WriteTemp, Written, WriteFails
  <2>5. \A n \in Names \ {t} : Content(n)' = Content(n)
    BY <1>a, <2>1, <2>2, <2>3, <2>4 DEF Content, Safe, NoSharing, Typed, TypeOK
  <2>6. pc'[p] = "remove" => Content(t)' = pixels[p]
    <3>. SUFFICES ASSUME pc'[p] = "remove" PROVE Content(t)' = pixels[p]
      OBVIOUS
    <3>1. WriteTemp(p)
      BY <1>2, <1>a DEF WriteFails, ReturnFalse, Leave
    <3>2. data' = [data EXCEPT ![dir[t]] = pixels[p]]
      BY <2>3, <3>1 DEF WriteTemp, Written
    <3>. QED BY <1>a, <2>1, <2>2, <2>3, <3>2 DEF Content
  <2>. QED BY <1>a, <2>1, <2>5, <2>6 DEF Effect
<1>3. CASE RemoveOriginal(p)
  <2>1. pc[p] = "remove" /\ UNCHANGED data
    BY <1>3 DEF RemoveOriginal
  <2>2. f \in Paths /\ t \in Temps /\ t # f /\ f \in Names /\ t \in Names
    BY <1>b, <2>1 DEF Working
  <2>3. dir[f] # NoFile
    BY <1>c, <2>1, <2>2 DEF Saving, Content
  <2>4. dir' = [dir EXCEPT ![f] = NoFile] /\ pc' = [pc EXCEPT ![p] = "rename"]
    BY <1>3, <2>3 DEF RemoveOriginal
  <2>5. \A n \in Names \ {f} : Content(n)' = Content(n)
    BY <1>a, <2>1, <2>2, <2>4 DEF Content
  <2>6. Content(f)' = NoFile
    BY <1>a, <2>2, <2>4 DEF Content
  <2>. QED BY <1>a, <2>1, <2>4, <2>5, <2>6 DEF Effect
<1>4. CASE RenameTemp(p)
  <2>1. CASE ~Renameable(f)
    <3>1. pc[p] = "rename" /\ pc'[p] = "exit" /\ UNCHANGED <<dir, data>>
      BY <1>4, <1>a, <2>1 DEF RenameTemp, Terminate, Leave
    <3>2. \A n : Content(n)' = Content(n)
      BY <3>1 DEF Content
    <3>. QED BY <3>1, <3>2 DEF Effect
  <2>2. CASE Renameable(f)
    <3>1. /\ pc[p] = "rename" /\ pc' = [pc EXCEPT ![p] = "lines"]
          /\ dir' = [dir EXCEPT ![f] = dir[t], ![t] = NoFile]
          /\ UNCHANGED data
      BY <1>4, <2>2 DEF RenameTemp
    <3>2. f \in Paths /\ t \in Temps /\ t # f /\ f \in Names /\ t \in Names
      BY <1>b, <3>1 DEF Working
    <3>3. dir'[f] = dir[t]
      BY <1>a, <3>1, <3>2
    <3>4. \A n \in Names \ {f, t} : Content(n)' = Content(n)
      BY <1>a, <3>1, <3>2 DEF Content
    <3>5. Content(f)' = Content(t)
      BY <3>1, <3>3 DEF Content
    <3>. QED BY <1>a, <3>1, <3>4, <3>5 DEF Effect
  <2>. QED BY <2>1, <2>2
<1>5. CASE Quiet(p)
  BY <1>5, QuietEffect
<1>. QED BY <1>1, <1>2, <1>3, <1>4, <1>5 DEF Step, Run, Quiet

\* A step of one run leaves what the others hold alone.
LEMMA OthersStand ==
  ASSUME Typed, NEW p \in Procs, Step(p), NEW q \in Procs \ {p}
  PROVE  /\ pc'[q] = pc[q] /\ cur'[q] = cur[q] /\ pixels'[q] = pixels[q]
         /\ args'[q] = args[q] /\ lines'[q] = lines[q] /\ outcome'[q] = outcome[q]
<1>. USE DEF Typed, TypeOK
<1>1. CASE Quiet(p)
  BY <1>1 DEF Quiet, Start, NextArg, ListFails, Succeed, NextLine, LastLine, Load, Filter,
     FilterFails, OpenFails, ReadFails, RemoveThrows, RenameThrows, Crash, Restart, Leave,
     Terminate, ReturnFalse
<1>2. CASE OpenTemp(p) \/ WriteTemp(p) \/ WriteFails(p)
  BY <1>2 DEF OpenTemp, WriteTemp, WriteFails, Leave, ReturnFalse
<1>3. CASE RemoveOriginal(p) \/ RenameTemp(p)
  BY <1>3 DEF RemoveOriginal, RenameTemp, Leave, Terminate, ReturnFalse
<1>. QED BY <1>1, <1>2, <1>3 DEF Step, Run, Quiet

\* Where a run can go from where it is inside denoise().
LEMMA WayThrough ==
  ASSUME Typed, NEW p \in Procs, Step(p), pc'[p] \in Working
  PROVE  /\ cur'[p] = cur[p] /\ args'[p] = args[p] /\ lines'[p] = lines[p]
         /\ pc'[p] = "filter" => pc[p] = "load"
         /\ pc'[p] = "open" => pc[p] = "filter" /\ pixels'[p][2] # 0
         /\ pc'[p] = "write" => pc[p] = "open" /\ pixels'[p] = pixels[p]
         /\ pc'[p] = "remove" => pc[p] = "write"
         /\ pc'[p] = "rename" => pc[p] = "remove"
<1>. USE DEF Typed, TypeOK, Working
<1>1. CASE Start(p) \/ NextArg(p) \/ ListFails(p) \/ Succeed(p) \/ NextLine(p) \/ LastLine(p)
  BY <1>1 DEF Start, NextArg, ListFails, Succeed, NextLine, LastLine, Leave, ReturnFalse
<1>2. CASE FilterFails(p) \/ OpenFails(p) \/ ReadFails(p) \/ RemoveThrows(p)
            \/ RenameThrows(p) \/ Crash(p) \/ Restart(p)
  BY <1>2 DEF FilterFails, OpenFails, ReadFails, RemoveThrows, RenameThrows, Crash, Restart,
     Leave, Terminate, ReturnFalse
<1>3. CASE Load(p)
  BY <1>3 DEF Load, Leave, ReturnFalse
<1>4. CASE Filter(p)
  <2>1. pc'[p] = "open" /\ pc[p] = "filter" /\ UNCHANGED <<cur, args, lines>>
    BY <1>4 DEF Filter
  <2>2. pixels'[p] = <<pixels[p][1], pixels[p][2] + 1>> /\ pixels[p][2] \in Nat
    BY <1>4 DEF Filter
  <2>. QED BY <2>1, <2>2
<1>5. CASE OpenTemp(p) \/ WriteTemp(p) \/ WriteFails(p)
  BY <1>5 DEF OpenTemp, WriteTemp, WriteFails, Leave, ReturnFalse
<1>6. CASE RemoveOriginal(p) \/ RenameTemp(p)
  BY <1>6 DEF RemoveOriginal, RenameTemp, Leave, Terminate, ReturnFalse
<1>. QED BY <1>1, <1>2, <1>3, <1>4, <1>5, <1>6 DEF Step, Run

\* What a run has denoised is not the original any more.
Fresh ==
  \A p \in Procs :
    /\ pc[p] \in {"open", "write"} => pixels[p] # <<cur[p], 0>>
    /\ pc[p] \in {"remove", "rename"} => Content(TempOf[cur[p]]) # <<cur[p], 0>>

LEMMA FreshNext ==
  ASSUME SoleUse, "close" \notin Faults, Typed, Belongs, Safe, Fresh,
         NEW p \in Procs, Step(p)
  PROVE  Fresh'
<1>. USE DenoiserAssumption
<1>1. ASSUME NEW q \in Procs, NEW f, f = cur'[q], pc'[q] \in Working
      PROVE  /\ pc'[q] \in {"open", "write"} => pixels'[q] # <<f, 0>>
             /\ pc'[q] \in {"remove", "rename"} => Content(TempOf[f])' # <<f, 0>>
  <2>1. CASE q = p
    <3>1. /\ f = cur[p]
          /\ pc'[p] = "open" => pixels'[p][2] # 0
          /\ pc'[p] = "write" => pc[p] = "open" /\ pixels'[p] = pixels[p]
          /\ pc'[p] = "remove" => pc[p] = "write"
          /\ pc'[p] = "rename" => pc[p] = "remove"
      BY <1>1, <2>1, WayThrough
    <3>2. Effect(p, f)
      BY <3>1, StepEffect
    <3>3. /\ pc[p] \in {"open", "write"} => pixels[p] # <<f, 0>>
          /\ pc[p] \in {"remove", "rename"} => Content(TempOf[f]) # <<f, 0>>
      BY <3>1 DEF Fresh
    <3>4. ASSUME pc'[p] = "open" PROVE pixels'[p] # <<f, 0>>
      BY <3>1, <3>4
    <3>5. ASSUME pc'[p] = "rename" PROVE Content(TempOf[f])' # <<f, 0>>
      <4>1. f \in Paths /\ TempOf[f] \in Names /\ TempOf[f] # f /\ pc[p] = "remove"
        BY <3>1, <3>5 DEF Typed, Working
      <4>. QED BY <3>2, <3>3, <4>1 DEF Effect
    <3>6. ASSUME pc'[p] = "remove" PROVE Content(TempOf[f])' # <<f, 0>>
      BY <3>1, <3>2, <3>3, <3>6 DEF Effect
    <3>. QED BY <2>1, <3>1, <3>3, <3>4, <3>5, <3>6
  <2>2. CASE q # p
    <3>1. pc'[q] = pc[q] /\ cur'[q] = cur[q] /\ pixels'[q] = pixels[q]
      BY <2>2, OthersStand
    <3>2. /\ pc[q] \in {"open", "write"} => pixels[q] # <<f, 0>>
          /\ pc[q] \in {"remove", "rename"} => Content(TempOf[f]) # <<f, 0>>
      BY <1>1, <3>1 DEF Fresh
    <3>3. f \in Mine(q) /\ f \in Paths /\ TempOf[f] \in Temps /\ TempOf[f] \in Names
      BY <1>1, <3>1 DEF Belongs, Typed
    <3>4. Content(TempOf[f])' = Content(TempOf[f])
      <4>. SUFFICES ASSUME Content(TempOf[f])' # Content(TempOf[f]) PROVE FALSE
        OBVIOUS
      <4>. DEFINE g == cur[p]
      <4>0. \A h : h = g => Effect(p, h)
        BY StepEffect
      <4>1. pc[p] \in Working /\ (TempOf[f] = g \/ TempOf[f] = TempOf[g])
        BY <3>3, <4>0 DEF Effect, Working
      <4>2. g \in Mine(p) /\ g \in Paths
        BY <4>1 DEF Belongs, Typed
      <4>. QED BY <2>2, <3>3, <4>1, <4>2 DEF SoleUse
    <3>. QED BY <3>1, <3>2, <3>4
  <2>. QED BY <2>1, <2>2
<1>. QED BY <1>1 DEF Fresh, Content, Working

Denoised(f) == Content(f) \in ImageOf(f) /\ Touched(f)

\* What a step does to the image a reader finds at a lightmap's path.
LEMMA Versions ==
  ASSUME SoleUse, "close" \notin Faults, Typed, Belongs, Safe, Fresh,
         NEW p \in Procs, Step(p), NEW f \in Paths
  PROVE  \/ Content(f)' = Content(f) /\ (f = cur[p] => ~(pc[p] = "rename" /\ pc'[p] = "lines"))
         \/ f = cur[p] /\ pc[p] = "remove" /\ pc'[p] = "rename" /\ Content(f)' = NoFile
         \/ f = cur[p] /\ pc[p] = "rename" /\ pc'[p] = "lines" /\ Denoised(f)'
<1>. USE DenoiserAssumption
<1>1. CASE f = cur[p]
  <2>1. Effect(p, f)
    BY <1>1, StepEffect
  <2>2. pc[p] = "rename" => Content(TempOf[f]) \in ImageOf(f) /\ Content(TempOf[f]) # <<f, 0>>
    BY <1>1 DEF Fresh, Safe, Saving
  <2>3. f \in Names
    OBVIOUS
  <2>4. f # TempOf[f]
    OBVIOUS
  <2>5. pc[p] \notin {"remove", "rename"} => Content(f)' = Content(f)
    BY <2>1, <2>3, <2>4 DEF Effect
  <2>6. /\ pc[p] = "remove" => \/ pc'[p] = "rename" /\ Content(f)' = NoFile
                               \/ pc'[p] = "exit" /\ Content(f)' = Content(f)
        /\ pc[p] = "rename" => \/ pc'[p] = "lines" /\ Content(f)' = Content(TempOf[f])
                               \/ pc'[p] = "exit" /\ Content(f)' = Content(f)
    BY <2>1 DEF Effect
  <2>7. Denoised(f)' <=> Content(f)' \in ImageOf(f) /\ Content(f)' # <<f, 0>>
    BY DEF Denoised, Touched
  <2>. HIDE DEF Denoised, Content, ImageOf
  <2>. QED BY <1>1, <2>2, <2>5, <2>6, <2>7
<1>2. CASE f # cur[p]
  <2>1. \A h : h = cur[p] => Effect(p, h)
    BY StepEffect
  <2>2. Content(f)' # Content(f) => pc[p] \in Working /\ f = TempOf[cur[p]]
    BY <1>2, <2>1 DEF Effect, Working
  <2>3. pc[p] \in Working => TempOf[cur[p]] \in Temps
    BY DEF Typed
  <2>. QED BY <1>2, <2>2, <2>3
<1>. QED BY <1>1, <1>2

\* Only the run that removes a lightmap touches it, and none makes it untouched.
LEMMA Touching ==
  ASSUME SoleUse, "close" \notin Faults, Typed, Belongs, Safe, Fresh,
         NEW p \in Procs, Step(p), NEW f \in Paths
  PROVE  /\ Touched(f) => Touched(f)'
         /\ Touched(f)' => Touched(f) \/ (f = cur[p] /\ pc[p] \in {"remove", "rename"})
<1>1. NoFile # <<f, 0>>
  BY DenoiserAssumption
<1>2. Touched(f)' <=> Content(f)' # <<f, 0>>
  BY DEF Touched
<1>. QED BY <1>1, <1>2, Versions DEF Touched, Denoised
-------------------------------------------------------------------------------
(***************************************************************************)
(* A list is worked through in order.  Where a run is in its list is the   *)
(* number of lines it has consumed: all of them name touched lightmaps,    *)
(* except the one it is at.                                                *)
(***************************************************************************)
Busy == {"load"} \cup Working

Passed(l, m) == \A i \in 1..m : Lines[l][i] \in Paths => Touched(Lines[l][i])

\* The lines of run p are those of list l after the first k.
Rest(p, l, k) ==
  /\ Len(lines[p]) = Len(Lines[l]) - k
  /\ \A i \in 1..Len(lines[p]) : lines[p][i] = Lines[l][k + i]

InList(p, l) ==
  /\ pc[p] = "start" => args[p] = <<l>>
  /\ pc[p] = "args" => args[p] \in {<<l>>, <<>>}
  /\ pc[p] \in {"lines"} \cup Busy => args[p] = <<>>
  /\ pc[p] = "lines" => \E k \in 0..Len(Lines[l]) : Rest(p, l, k) /\ Passed(l, k)
  /\ pc[p] \in Busy =>
       \E k \in 1..Len(Lines[l]) : Rest(p, l, k) /\ cur[p] = Lines[l][k] /\ Passed(l, k - 1)

Listed == \A p \in Procs, l \in Lists : Args[p] = <<l>> => InList(p, l)

LEMMA PassedStays ==
  ASSUME SoleUse, "close" \notin Faults, Typed, Belongs, Safe, Fresh,
         NEW p \in Procs, Step(p), NEW l \in Lists, NEW m, Passed(l, m)
  PROVE  Passed(l, m)'
<1>1. ASSUME NEW i \in 1..m, Lines[l][i] \in Paths PROVE Touched(Lines[l][i])'
  <2>1. Touched(Lines[l][i])
    BY <1>1 DEF Passed
  <2>. QED BY <1>1, <2>1, Touching
<1>. QED BY <1>1 DEF Passed

\* The lightmap of a run that is no longer at it has been denoised.
LEMMA CurrentDenoised ==
  ASSUME SoleUse, "close" \notin Faults, Typed, Belongs, Safe, Fresh,
         NEW p \in Procs, Step(p), pc[p] \in Working, pc'[p] = "lines"
  PROVE  cur[p] \in Paths /\ \A f : f = cur[p] => Denoised(f)'
<1>1. pc[p] = "rename"
  <2>. USE DEF Typed, TypeOK, Working
  <2>1. ~Quiet(p)
    BY DEF Quiet, Start, NextArg, ListFails, Succeed, NextLine, LastLine, Load, Filter,
       FilterFails, OpenFails, ReadFails, RemoveThrows, RenameThrows, Crash, Restart, Leave,
       Terminate, ReturnFalse
  <2>2. ~(OpenTemp(p) \/ WriteTemp(p) \/ WriteFails(p) \/ RemoveOriginal(p))
    BY DEF OpenTemp, WriteTemp, WriteFails, RemoveOriginal, Leave, ReturnFalse
  <2>. QED BY <2>1, <2>2 DEF Step, Run, Quiet, RenameTemp
<1>2. cur[p] \in Paths
  BY DEF Typed
<1>3. ASSUME NEW f, f = cur[p] PROVE Denoised(f)'
  BY <1>1, <1>2, <1>3, Versions
<1>. QED BY <1>2, <1>3

\* A step inside denoise() leaves the list alone, and only failures leave it early.
LEMMA BusyStep ==
  ASSUME Typed, NEW p \in Procs, Step(p), pc[p] \in Busy
  PROVE  /\ args'[p] = args[p] /\ lines'[p] = lines[p] /\ cur'[p] = cur[p]
         /\ pc'[p] \in {"lines", "exit"} \cup Working
         /\ pc'[p] = "lines" => pc[p] \in Working
         /\ pc'[p] = "exit" => outcome'[p] # "success"
         /\ pc'[p] # "exit" => outcome'[p] = outcome[p]
<1>. USE DEF Typed, TypeOK, Working, Busy
<1>1. CASE Start(p) \/ NextArg(p) \/ ListFails(p) \/ Succeed(p) \/ NextLine(p) \/ LastLine(p)
            \/ Restart(p)
  BY <1>1 DEF Start, NextArg, ListFails, Succeed, NextLine, LastLine, Restart
<1>2. CASE FilterFails(p) \/ OpenFails(p) \/ ReadFails(p) \/ RemoveThrows(p)
            \/ RenameThrows(p) \/ Crash(p)
  BY <1>2 DEF FilterFails, OpenFails, ReadFails, RemoveThrows, RenameThrows, Crash, Leave,
     Terminate, ReturnFalse
<1>3. CASE Load(p) \/ Filter(p)
  BY <1>3 DEF Load, Filter, Leave, ReturnFalse
<1>4. CASE OpenTemp(p) \/ WriteTemp(p) \/ WriteFails(p)
  BY <1>4 DEF OpenTemp, WriteTemp, WriteFails, Leave, ReturnFalse
<1>5. CASE RemoveOriginal(p) \/ RenameTemp(p)
  BY <1>5 DEF RemoveOriginal, RenameTemp, Leave, Terminate, ReturnFalse
<1>. QED BY <1>1, <1>2, <1>3, <1>4, <1>5 DEF Step, Run

\* Outside of denoise() a step is one of few.
LEMMA IdleStep ==
  ASSUME NEW p \in Procs, Step(p), pc[p] \notin Busy
  PROVE  \/ Start(p) \/ NextArg(p) \/ ListFails(p) \/ Succeed(p) \/ NextLine(p) \/ LastLine(p)
         \/ Crash(p) \/ Restart(p)
BY DEF Step, Run, Busy, Working, Load, Filter, FilterFails, OpenTemp, OpenFails, ReadFails,
   WriteTemp,
   WriteFails, RemoveOriginal, RemoveThrows, RenameThrows, RenameTemp

LEMMA RestTail ==
  ASSUME Typed, NEW p \in Procs, NEW l \in Lists, NEW k \in 0..Len(Lines[l]), Rest(p, l, k),
         lines[p] # <<>>, lines'[p] = Tail(lines[p])
  PROVE  k + 1 \in 1..Len(Lines[l]) /\ Head(lines[p]) = Lines[l][k + 1] /\ Rest(p, l, k + 1)'
<1>. DEFINE S == Paths \cup Lists \cup {Blank}  s == lines[p]  n == Len(Lines[l])
<1>1. s \in Seq(S) /\ n \in Nat /\ k \in Nat /\ Len(s) \in Nat /\ Len(s) > 0
  BY DenoiserAssumption DEF Typed, TypeOK
<1>2. Len(s) = n - k /\ \A i \in 1..Len(s) : s[i] = Lines[l][k + i]
  BY DEF Rest
<1>. HIDE DEF n
<1>3. Head(s) = s[1] /\ Len(Tail(s)) = Len(s) - 1 /\ \A i \in 1..Len(s)-1 : Tail(s)[i] = s[i + 1]
  BY <1>1
<1>4. k + 1 \in 1..n /\ Head(s) = Lines[l][k + 1]
  BY <1>1, <1>2, <1>3
<1>5. Len(Tail(s)) = n - (k + 1)
  BY <1>1, <1>2, <1>3
<1>6. ASSUME NEW i \in 1..Len(Tail(s)) PROVE Tail(s)[i] = Lines[l][(k + 1) + i]
  <2>1. i \in 1..Len(s)-1 /\ i + 1 \in 1..Len(s) /\ k + (i + 1) = (k + 1) + i
    BY <1>1, <1>3
  <2>. QED BY <1>2, <1>3, <2>1
<1>7. lines'[p] = Tail(s)
  OBVIOUS
<1>. HIDE DEF s
<1>. QED BY <1>4, <1>5, <1>6, <1>7 DEF n, s, Rest

LEMMA ListedNext ==
  ASSUME SoleUse, "close" \notin Faults, Typed, Belongs, Safe, Fresh, Listed,
         NEW p \in Procs, Step(p)
  PROVE  Listed'
<1>. SUFFICES ASSUME NEW q \in Procs, NEW l \in Lists, Args[q] = <<l>> PROVE InList(q, l)'
  BY DEF Listed
<1>1. InList(q, l)
  BY DEF Listed
<1>2. \A m : Passed(l, m) => Passed(l, m)'
  BY PassedStays
<1>3. CASE q # p
  <2>1. pc'[q] = pc[q] /\ cur'[q] = cur[q] /\ args'[q] = args[q] /\ lines'[q] = lines[q]
    BY <1>3, OthersStand
  <2>2. \A k : Rest(q, l, k) => Rest(q, l, k)'
    BY <2>1 DEF Rest
  <2>. QED BY <1>1, <1>2, <2>1, <2>2 DEF InList
<1>4. CASE q = p /\ pc[p] \in Busy
  <2>1. /\ args'[q] = args[q] /\ lines'[q] = lines[q] /\ cur'[q] = cur[q]
        /\ pc'[q] \in {"lines", "exit"} \cup Working
        /\ pc'[q] = "lines" => pc[q] \in Working
    BY <1>4, BusyStep
  <2>2. PICK k \in 1..Len(Lines[l]) : Rest(q, l, k) /\ cur[q] = Lines[l][k] /\ Passed(l, k - 1)
    BY <1>1, <1>4 DEF InList
  <2>3. args[q] = <<>> /\ Rest(q, l, k)' /\ Passed(l, k - 1)'
    BY <1>1, <1>2, <1>4, <2>1, <2>2 DEF InList, Rest
  <2>4. ASSUME pc'[q] = "lines" PROVE Passed(l, k)'
    <3>1. \A f : f = Lines[l][k] => Touched(f)'
      <4>1. \A f : f = Lines[l][k] => Denoised(f)'
        BY <1>4, <2>1, <2>2, <2>4, CurrentDenoised
      <4>. QED BY <4>1 DEF Denoised
    <3>2. ASSUME NEW i \in 1..k, Lines[l][i] \in Paths PROVE Touched(Lines[l][i])'
      <4>1. CASE i = k
        BY <3>1, <4>1
      <4>2. CASE i \in 1..k-1
        BY <2>3, <3>2, <4>2 DEF Passed
      <4>. QED BY <4>1, <4>2
    <3>. QED BY <3>2 DEF Passed
  <2>5. k \in 0..Len(Lines[l])
    OBVIOUS
  <2>6. pc'[q] = "lines" => InList(q, l)'
    <3>. SUFFICES ASSUME pc'[q] = "lines" PROVE InList(q, l)'
      OBVIOUS
    <3>. QED BY <2>1, <2>3, <2>4, <2>5 DEF InList, Busy, Working
  <2>7. pc'[q] \in Working => InList(q, l)'
    <3>. SUFFICES ASSUME pc'[q] \in Working PROVE InList(q, l)'
      OBVIOUS
    <3>. QED BY <2>1, <2>2, <2>3 DEF InList, Busy, Working
  <2>8. pc'[q] = "exit" => InList(q, l)'
    BY DEF InList, Busy, Working
  <2>. QED BY <2>1, <2>6, <2>7, <2>8
<1>5. CASE q = p /\ pc[p] \notin Busy
  <2>. USE DEF Typed, TypeOK
  <2>1. CASE Start(q)
    BY <1>1, <2>1 DEF Start, Leave, InList, Busy, Working
  <2>2. CASE ListFails(q) \/ Succeed(q) \/ Crash(q)
    BY <2>2 DEF ListFails, Succeed, Crash, ReturnFalse, Terminate, Leave, InList, Busy, Working
  <2>3. CASE Restart(q)
    BY <2>3 DEF Restart, InList, Busy, Working
  <2>4. CASE NextArg(q)
    <3>1. pc[q] = "args" /\ pc'[q] = "lines" /\ args[q] = <<l>>
      BY <1>1, <2>4 DEF NextArg, InList
    <3>2. args'[q] = Tail(<<l>>) /\ Head(<<l>>) = l
      BY <2>4, <3>1 DEF NextArg
    <3>3. args'[q] = <<>> /\ lines'[q] = Lines[l]
      BY <2>4, <3>1, <3>2 DEF NextArg
    <3>4. Rest(q, l, 0)' /\ Passed(l, 0)'
      <4>1. Len(Lines[l]) \in Nat
        BY DenoiserAssumption
      <4>. QED BY <3>3, <4>1 DEF Rest, Passed
    <3>5. 0 \in 0..Len(Lines[l])
      BY DenoiserAssumption
    <3>. QED BY <3>1, <3>3, <3>4, <3>5 DEF InList, Busy, Working
  <2>5. CASE NextLine(q)
    <3>1. pc[q] = "lines" /\ lines[q] # <<>> /\ lines'[q] = Tail(lines[q]) /\ args'[q] = args[q]
      BY <2>5 DEF NextLine
    <3>2. PICK k \in 0..Len(Lines[l]) : Rest(q, l, k) /\ Passed(l, k)
      BY <1>1, <3>1 DEF InList
    <3>3. /\ k + 1 \in 1..Len(Lines[l]) /\ Head(lines[q]) = Lines[l][k + 1]
          /\ Rest(q, l, k + 1)'
      BY <3>1, <3>2, RestTail
    <3>4. Passed(l, k)' /\ args[q] = <<>>
      BY <1>1, <1>2, <3>1, <3>2 DEF InList
    <3>5. CASE Head(lines[q]) = Blank
      <4>1. Lines[l][k + 1] \notin Paths
        BY <3>3, <3>5, DenoiserAssumption
      <4>2. Passed(l, k + 1)'
        <5>1. ASSUME NEW i \in 1..k+1, Lines[l][i] \in Paths PROVE Touched(Lines[l][i])'
          <6>1. i \in 1..k
            BY <3>2, <4>1, <5>1
          <6>. QED BY <3>4, <5>1, <6>1 DEF Passed
        <5>. QED BY <5>1 DEF Passed
      <4>3. pc'[q] = "lines" /\ k + 1 \in 0..Len(Lines[l])
        BY <2>5, <3>1, <3>3, <3>5 DEF NextLine
      <4>. QED BY <3>1, <3>3, <3>4, <4>2, <4>3 DEF InList, Busy, Working
    <3>6. CASE Head(lines[q]) # Blank
      <4>1. pc'[q] = "load" /\ cur'[q] = Lines[l][k + 1]
        BY <2>5, <3>3, <3>6 DEF NextLine
      <4>2. Passed(l, (k + 1) - 1)'
        <5>1. (k + 1) - 1 = k
          BY <3>2
        <5>. QED BY <3>4, <5>1
      <4>. QED BY <3>1, <3>3, <3>4, <4>1, <4>2 DEF InList, Busy, Working
    <3>. QED BY <3>5, <3>6
  <2>6. CASE LastLine(q)
    BY <1>1, <2>6 DEF LastLine, InList, Busy, Working
  <2>. QED BY <1>5, <2>1, <2>2, <2>3, <2>4, <2>5, <2>6, IdleStep
<1>. QED BY <1>3, <1>4, <1>5

LEMMA InOrderNext ==
  ASSUME SoleUse, "close" \notin Faults, Typed, Belongs, Safe, Fresh, Listed, InOrder,
         NEW p \in Procs, Step(p)
  PROVE  InOrder'
<1>. SUFFICES ASSUME NEW q \in Procs, NEW l \in Lists, Args[q] = <<l>>,
                     NEW f \in Mine(q), Touched(f)'
              PROVE  \E k \in DOMAIN Lines[l] : Lines[l][k] = f /\ Passed(l, k - 1)'
  BY DEF InOrder, Passed, Mine, MyLists
<1>1. f \in Paths
  BY DEF Mine
<1>2. \A m : Passed(l, m) => Passed(l, m)'
  BY PassedStays
<1>3. CASE Touched(f)
  <2>1. PICK k \in DOMAIN Lines[l] : Lines[l][k] = f /\ Passed(l, k - 1)
    BY <1>3 DEF InOrder, Passed
  <2>. QED BY <1>2, <2>1
<1>4. CASE f = cur[p] /\ pc[p] \in {"remove", "rename"}
  <2>1. cur[p] \in Mine(p)
    BY <1>4 DEF Belongs, Working
  <2>2. p = q
    BY <1>4, <2>1 DEF SoleUse
  <2>3. InList(q, l) /\ pc[q] \in Busy
    BY <1>4, <2>2 DEF Listed, Busy, Working
  <2>4. PICK k \in 1..Len(Lines[l]) : cur[q] = Lines[l][k] /\ Passed(l, k - 1)
    BY <2>3 DEF InList
  <2>5. DOMAIN Lines[l] = 1..Len(Lines[l])
    BY DenoiserAssumption
  <2>. QED BY <1>2, <1>4, <2>2, <2>4, <2>5
<1>. QED BY <1>1, <1>3, <1>4, Touching

LEMMA FirstVersions ==
  ASSUME Init
  PROVE  \A f \in Paths : Content(f) = <<f, 0>>
<1>. USE DenoiserAssumption
<1>. SUFFICES ASSUME NEW f \in Paths PROVE Content(f) = <<f, 0>>
  OBVIOUS
<1>1. dir[f] = Home[f] /\ Home[f] \in Inodes
  BY DEF Init
<1>2. data[Home[f]] = <<CHOOSE g \in Paths : Home[g] = Home[f], 0>>
  BY <1>1 DEF Init
<1>3. (CHOOSE g \in Paths : Home[g] = Home[f]) = f
  OBVIOUS
<1>. QED BY <1>1, <1>2, <1>3 DEF Content

LEMMA OrderInit == Init => Fresh /\ Listed /\ InOrder
<1>. SUFFICES ASSUME Init PROVE Fresh /\ Listed /\ InOrder
  OBVIOUS
<1>1. \A p \in Procs : pc[p] = "start" /\ args[p] = Args[p]
  BY DEF Init
<1>2. Fresh
  BY <1>1 DEF Fresh
<1>3. Listed
  BY <1>1 DEF Listed, InList, Busy, Working
<1>4. InOrder
  BY FirstVersions DEF InOrder, Touched, Mine
<1>. QED BY <1>2, <1>3, <1>4
-------------------------------------------------------------------------------
(***************************************************************************)
(* Success.  A lightmap of a run that has not ended is denoised, or it is  *)
(* still among the run's arguments or lines, or the run is at it.          *)
(***************************************************************************)
Asked(as, f) ==
  \E i \in DOMAIN as :
    as[i] = f \/ (as[i] \in Lists /\ \E k \in DOMAIN Lines[as[i]] : Lines[as[i]][k] = f)

Waiting(p, f) ==
  \/ Asked(args[p], f)
  \/ \E i \in DOMAIN lines[p] : lines[p][i] = f
  \/ pc[p] \in Busy /\ cur[p] = f

Accounted(p) ==
  /\ pc[p] # "exit" => outcome[p] # "success"
  /\ pc[p] \in {"start", "args"} => lines[p] = <<>>
  /\ pc[p] # "exit" => \A f \in Mine(p) : Denoised(f) \/ Waiting(p, f)
  /\ outcome[p] = "success" => \A f \in Mine(p) : Denoised(f)

LEMMA HeadOrTail ==
  ASSUME NEW S, NEW s \in Seq(S), NEW i \in DOMAIN s
  PROVE  s # <<>> /\ (s[i] = Head(s) \/ \E k \in DOMAIN Tail(s) : Tail(s)[k] = s[i])
<1>1. s # <<>> /\ Head(s) = s[1] /\ DOMAIN s = 1..Len(s) /\ Len(s) \in Nat
  OBVIOUS
<1>2. CASE i = 1
  BY <1>1, <1>2
<1>3. CASE i # 1
  <2>1. i - 1 \in 1..Len(s)-1 /\ DOMAIN Tail(s) = 1..Len(s)-1 /\ Tail(s)[i - 1] = s[(i - 1) + 1]
    BY <1>1, <1>3
  <2>2. (i - 1) + 1 = i
    BY <1>1
  <2>. QED BY <1>1, <2>1, <2>2
<1>. QED BY <1>2, <1>3

LEMMA AllAsked ==
  ASSUME NEW p \in Procs, NEW f \in Mine(p)
  PROVE  Asked(Args[p], f) /\ f \in Paths /\ f # Blank
BY DenoiserAssumption DEF Asked, Mine, MyLists

\* Nobody undoes what has been denoised, but the run that is at it again.
LEMMA StaysDenoised ==
  ASSUME SoleUse, "close" \notin Faults, Typed, Belongs, Safe, Fresh,
         NEW p \in Procs, Step(p), NEW f \in Paths, Denoised(f)
  PROVE  Denoised(f)' \/ (f = cur[p] /\ pc[p] = "remove" /\ pc'[p] = "rename")
<1>1. Content(f)' = Content(f) => Denoised(f)'
  BY DEF Denoised, Touched
<1>. QED BY <1>1, Versions

LEMMA AccountedOthers ==
  ASSUME SoleUse, "close" \notin Faults, Typed, Belongs, Safe, Fresh,
         NEW p \in Procs, Step(p), NEW q \in Procs \ {p}, Accounted(q)
  PROVE  Accounted(q)'
<1>1. /\ pc'[q] = pc[q] /\ cur'[q] = cur[q] /\ args'[q] = args[q] /\ lines'[q] = lines[q]
      /\ outcome'[q] = outcome[q]
  BY OthersStand
<1>2. ASSUME NEW f \in Mine(q), Denoised(f) PROVE Denoised(f)'
  <2>1. f \in Paths
    BY DEF Mine
  <2>2. ASSUME f = cur[p], pc[p] = "remove" PROVE FALSE
    <3>1. f \in Mine(p)
      BY <2>2 DEF Belongs, Working
    <3>. QED BY <3>1 DEF SoleUse
  <2>. QED BY <1>2, <2>1, <2>2, StaysDenoised
<1>3. \A f : Waiting(q, f) => Waiting(q, f)'
  BY <1>1 DEF Waiting
<1>4. Mine(q)' = Mine(q)
  OBVIOUS
<1>. QED BY <1>1, <1>2, <1>3, <1>4 DEF Accounted

LEMMA AccountedBusy ==
  ASSUME SoleUse, "close" \notin Faults, Typed, Belongs, Safe, Fresh,
         NEW p \in Procs, Step(p), Accounted(p), pc[p] \in Busy
  PROVE  Accounted(p)'
<1>1. /\ args'[p] = args[p] /\ lines'[p] = lines[p] /\ cur'[p] = cur[p]
      /\ pc'[p] \in {"lines", "exit"} \cup Working
      /\ pc'[p] = "lines" => pc[p] \in Working
      /\ pc'[p] = "exit" => outcome'[p] # "success"
      /\ pc'[p] # "exit" => outcome'[p] = outcome[p]
  BY BusyStep
<1>2. pc[p] # "exit" /\ outcome[p] # "success"
  BY DEF Accounted, Busy, Working
<1>3. outcome'[p] # "success" /\ pc'[p] \notin {"start", "args"}
  BY <1>1, <1>2 DEF Working
<1>4. ASSUME pc'[p] # "exit", NEW f \in Mine(p) PROVE Denoised(f)' \/ Waiting(p, f)'
  <2>1. f \in Paths
    BY DEF Mine
  <2>2. CASE f = cur[p] /\ pc'[p] \in Working
    BY <1>1, <2>2 DEF Waiting, Busy
  <2>3. CASE f = cur[p] /\ pc'[p] = "lines"
    BY <1>1, <2>1, <2>3, CurrentDenoised
  <2>4. CASE f # cur[p]
    <3>1. Denoised(f) \/ Asked(args[p], f) \/ \E i \in DOMAIN lines[p] : lines[p][i] = f
      BY <1>2, <2>4 DEF Accounted, Waiting
    <3>2. Denoised(f) => Denoised(f)'
      BY <2>1, <2>4, StaysDenoised
    <3>. QED BY <1>1, <3>1, <3>2 DEF Waiting
  <2>. QED BY <1>1, <1>4, <2>2, <2>3, <2>4
<1>. QED BY <1>3, <1>4 DEF Accounted, Mine, MyLists

LEMMA AccountedIdle ==
  ASSUME SoleUse, "close" \notin Faults, Typed, Belongs, Safe, Fresh,
         NEW p \in Procs, Step(p), Accounted(p), pc[p] \notin Busy
  PROVE  Accounted(p)'
<1>. USE DEF Typed, TypeOK
<1>1. ASSUME NEW f \in Mine(p), Denoised(f) PROVE Denoised(f)'
  <2>1. f \in Paths
    BY DEF Mine
  <2>. QED BY <1>1, <2>1, StaysDenoised DEF Busy, Working
<1>2. /\ pc[p] # "exit" => \A f \in Mine(p) :
                              \/ Denoised(f)
                              \/ Asked(args[p], f) \/ \E i \in DOMAIN lines[p] : lines[p][i] = f
      /\ pc[p] \in {"start", "args"} => lines[p] = <<>>
      /\ pc[p] # "exit" => outcome[p] # "success"
  BY DEF Accounted, Waiting
<1>3. DOMAIN <<>> = {}
  OBVIOUS
<1>4. CASE (Start(p) /\ args[p] = <<>>) \/ Succeed(p)
  <2>1. pc[p] \in {"start", "args"} /\ args[p] = <<>> /\ pc'[p] = "exit"
    BY <1>4 DEF Start, Succeed, Leave
  <2>2. \A f \in Mine(p) : Denoised(f)
    BY <1>2, <1>3, <2>1 DEF Asked
  <2>3. \A f \in Mine(p) : Denoised(f)'
    BY <1>1, <2>2
  <2>. QED BY <2>1, <2>3 DEF Accounted, Mine, MyLists
<1>5. CASE ListFails(p) \/ Crash(p)
  BY <1>5 DEF ListFails, Crash, ReturnFalse, Terminate, Leave, Accounted
<1>6. CASE (Start(p) /\ args[p] # <<>>) \/ LastLine(p)
  <2>1. /\ pc[p] \in {"start", "lines"} /\ lines[p] = <<>> /\ pc'[p] = "args"
        /\ args'[p] = args[p] /\ lines'[p] = lines[p] /\ outcome'[p] = outcome[p]
    BY <1>2, <1>6 DEF Start, LastLine
  <2>2. ASSUME NEW f \in Mine(p) PROVE Denoised(f)' \/ Waiting(p, f)'
    BY <1>1, <1>2, <2>1 DEF Waiting
  <2>. QED BY <1>2, <2>1, <2>2 DEF Accounted, Mine, MyLists
<1>7. CASE Restart(p)
  <2>1. pc'[p] = "start" /\ args'[p] = Args[p] /\ lines'[p] = <<>> /\ outcome'[p] = "running"
    BY <1>7 DEF Restart
  <2>2. ASSUME NEW f \in Mine(p) PROVE Waiting(p, f)'
    BY <2>1, AllAsked DEF Waiting
  <2>. QED BY <2>1, <2>2 DEF Accounted, Mine, MyLists
<1>8. CASE NextArg(p)
  <2>1. /\ pc[p] = "args" /\ pc'[p] = "lines" /\ args[p] # <<>> /\ args'[p] = Tail(args[p])
        /\ lines'[p] = IF Head(args[p]) \in Lists THEN Lines[Head(args[p])] ELSE <<Head(args[p])>>
        /\ outcome'[p] = outcome[p]
    BY <1>8 DEF NextArg
  <2>2. ASSUME NEW f \in Mine(p), Asked(args[p], f) PROVE Waiting(p, f)'
    <3>1. PICK i \in DOMAIN args[p] :
            \/ args[p][i] = f
            \/ /\ args[p][i] \in Lists
               /\ \E k \in DOMAIN Lines[args[p][i]] : Lines[args[p][i]][k] = f
      BY <2>2 DEF Asked
    <3>2. \/ args[p][i] = Head(args[p])
          \/ \E k \in DOMAIN Tail(args[p]) : Tail(args[p])[k] = args[p][i]
      BY HeadOrTail
    <3>3. CASE \E k \in DOMAIN Tail(args[p]) : Tail(args[p])[k] = args[p][i]
      <4>1. Asked(Tail(args[p]), f)
        BY <3>1, <3>3 DEF Asked
      <4>. QED BY <2>1, <4>1 DEF Waiting
    <3>4. CASE args[p][i] = Head(args[p])
      <4>1. f \notin Lists
        BY DenoiserAssumption DEF Mine
      <4>2. \E k \in DOMAIN lines'[p] : lines'[p][k] = f
        <5>1. CASE Head(args[p]) \in Lists
          BY <2>1, <3>1, <3>4, <4>1, <5>1
        <5>2. CASE Head(args[p]) \notin Lists
          <6>1. lines'[p] = <<f>>
            BY <2>1, <3>1, <3>4, <5>2
          <6>2. 1 \in DOMAIN <<f>> /\ <<f>>[1] = f
            OBVIOUS
          <6>. QED BY <6>1, <6>2
        <5>. QED BY <5>1, <5>2
      <4>. QED BY <4>2 DEF Waiting
    <3>. QED BY <3>2, <3>3, <3>4
  <2>3. ASSUME NEW f \in Mine(p) PROVE Denoised(f)' \/ Waiting(p, f)'
    <3>1. Denoised(f) \/ Asked(args[p], f)
      BY <1>2, <1>3, <2>1
    <3>. QED BY <1>1, <2>2, <3>1
  <2>. QED BY <1>2, <2>1, <2>3 DEF Accounted, Mine, MyLists
<1>9. CASE NextLine(p)
  <2>1. /\ pc[p] = "lines" /\ lines[p] # <<>> /\ lines'[p] = Tail(lines[p]) /\ args'[p] = args[p]
        /\ outcome'[p] = outcome[p]
        /\ \/ Head(lines[p]) = Blank /\ pc'[p] = "lines"
           \/ Head(lines[p]) # Blank /\ cur'[p] = Head(lines[p]) /\ pc'[p] = "load"
    BY <1>9 DEF NextLine
  <2>2. ASSUME NEW f \in Mine(p), NEW i \in DOMAIN lines[p], lines[p][i] = f PROVE Waiting(p, f)'
    <3>4. lines[p] \in Seq(Paths \cup Lists \cup {Blank})
      OBVIOUS
    <3>5. \/ lines[p][i] = Head(lines[p])
          \/ \E k \in DOMAIN Tail(lines[p]) : Tail(lines[p])[k] = lines[p][i]
      BY <3>4, HeadOrTail, Zenon
    <3>1. f = Head(lines[p]) \/ \E k \in DOMAIN Tail(lines[p]) : Tail(lines[p])[k] = f
      BY <2>2, <3>5
    <3>2. CASE \E k \in DOMAIN Tail(lines[p]) : Tail(lines[p])[k] = f
      BY <2>1, <3>2 DEF Waiting
    <3>3. CASE f = Head(lines[p])
      <4>1. f # Blank
        BY AllAsked
      <4>. QED BY <2>1, <3>3, <4>1 DEF Waiting, Busy
    <3>. QED BY <3>1, <3>2, <3>3
  <2>3. ASSUME NEW f \in Mine(p), Asked(args[p], f) PROVE Waiting(p, f)'
    BY <2>1, <2>3 DEF Waiting
  <2>4. ASSUME NEW f \in Mine(p) PROVE Denoised(f)' \/ Waiting(p, f)'
    <3>1. Denoised(f) \/ Asked(args[p], f) \/ \E i \in DOMAIN lines[p] : lines[p][i] = f
      BY <1>2, <2>1
    <3>. QED BY <1>1, <2>2, <2>3, <3>1
  <2>5. pc'[p] \notin {"start", "args", "exit"} /\ outcome'[p] # "success"
    BY <1>2, <2>1
  <2>. QED BY <2>4, <2>5 DEF Accounted, Mine, MyLists
<1>. QED BY <1>4, <1>5, <1>6, <1>7, <1>8, <1>9, IdleStep

LEMMA AccountedInit == Init => \A p \in Procs : Accounted(p)
<1>1. ASSUME Init, NEW p \in Procs PROVE Accounted(p)
  <2>1. /\ pc[p] = "start" /\ args[p] = Args[p] /\ lines[p] = <<>>
        /\ outcome[p] = "running"
    BY <1>1, DenoiserAssumption DEF Init
  <2>2. ASSUME NEW f \in Mine(p) PROVE Waiting(p, f)
    BY <2>1, AllAsked DEF Waiting
  <2>. QED BY <2>1, <2>2 DEF Accounted
<1>. QED BY <1>1

\* What the order of a run and its outcome rest on: the types, the lightmaps' safety,
\* where each run stands in its list and what it still has before it.
OrderInv ==
  /\ Typed /\ Belongs /\ Safe
  /\ Fresh /\ Listed /\ InOrder
  /\ \A p \in Procs : Accounted(p)

LEMMA OrderInvStep ==
  ASSUME SoleUse, "close" \notin Faults, OrderInv, NEW p \in Procs, Step(p)
  PROVE  OrderInv'
<1>1. Typed /\ Belongs /\ Safe /\ Fresh /\ Listed /\ InOrder /\ \A q \in Procs : Accounted(q)
  BY DEF OrderInv
<1>2. Next
  BY DEF Next, Step
<1>3. Typed' /\ Belongs' /\ Safe'
  BY <1>1, <1>2, TypedNext, BelongsNext, SafeNext
<1>4. Fresh' /\ Listed' /\ InOrder'
  BY <1>1, FreshNext, ListedNext, InOrderNext, Zenon
<1>5. Accounted(p)'
  BY <1>1, AccountedBusy, AccountedIdle, Zenon
<1>6. ASSUME NEW q \in Procs PROVE Accounted(q)'
  <2>1. CASE q = p
    BY <1>5, <2>1
  <2>2. CASE q \in Procs \ {p}
    BY <1>1, <2>2, AccountedOthers, Zenon
  <2>. QED BY <2>1, <2>2
<1>. QED BY <1>3, <1>4, <1>6 DEF OrderInv

LEMMA OrderInvStutter == OrderInv /\ UNCHANGED vars => OrderInv'
<1>. SUFFICES ASSUME OrderInv, UNCHANGED vars PROVE OrderInv'
  OBVIOUS
<1>1. Typed' /\ Belongs'
  BY TypedNext, BelongsNext DEF OrderInv
<1>2. Safe'
  BY DEF OrderInv, vars, Safe, NoSharing, OpenFile, Saving, NothingLost, VisibleComplete, Content
<1>3. \A f : Touched(f)' = Touched(f) /\ Denoised(f)' = Denoised(f)
  BY DEF vars, Touched, Denoised, Content
<1>4. Fresh'
  BY DEF OrderInv, vars, Fresh, Denoised, Touched, Content
<1>5. Listed'
  <2>1. pc' = pc /\ args' = args /\ lines' = lines /\ cur' = cur
    BY DEF vars
  <2>2. \A l, m : Passed(l, m)' = Passed(l, m)
    BY <1>3 DEF Passed
  <2>3. \A p, l, k : Rest(p, l, k)' = Rest(p, l, k)
    BY <2>1 DEF Rest
  <2>. QED BY <2>1, <2>2, <2>3 DEF OrderInv, Listed, InList
<1>7. InOrder'
  BY <1>3 DEF OrderInv, InOrder, Mine, MyLists
<1>6. ASSUME NEW p \in Procs PROVE Accounted(p)'
  BY <1>3 DEF OrderInv, vars, Accounted, Waiting, Asked, Mine, MyLists
<1>. QED BY <1>1, <1>2, <1>4, <1>5, <1>6, <1>7 DEF OrderInv

LEMMA OrderInvInit == Init => OrderInv
BY TypedInit, BelongsInit, SafeInit, OrderInit, AccountedInit DEF OrderInv

LEMMA OrderInvNext ==
  ASSUME SoleUse, "close" \notin Faults PROVE OrderInv /\ [Next]_vars => OrderInv'
<1>. SUFFICES ASSUME OrderInv, [Next]_vars PROVE OrderInv'
  OBVIOUS
<1>1. CASE Next
  <2>1. PICK p \in Procs : Step(p)
    BY <1>1 DEF Next, Step
  <2>. QED BY <2>1, OrderInvStep
<1>2. CASE UNCHANGED vars
  BY <1>2, OrderInvStutter
<1>. QED BY <1>1, <1>2

\* A list is worked through in order and given up at its first failure: under the
\* same conditions a lightmap is touched only after all lines before the first that
\* names it, over kills and restarts too (defaultlightmapdenoiser.cpp:155-162).
THEOREM ListInOrder == SoleUse /\ "close" \notin Faults => (Spec => []InOrder)
<1> SUFFICES ASSUME SoleUse, "close" \notin Faults PROVE Spec => []InOrder
  OBVIOUS
<1>1. OrderInv => InOrder
  BY DEF OrderInv
<1>. QED BY <1>1, OrderInvInit, OrderInvNext, PTL DEF Spec

\* Under the same conditions a run that reports success has replaced every lightmap
\* it was given, named on the command line or in a list, by a denoised version
\* (defaultlightmapdenoiser.cpp:155-169, main.cpp; README.md:22-23).
THEOREM SuccessIsReplaced ==
  SoleUse /\ "close" \notin Faults => (Spec => []SuccessMeansReplaced)
<1> SUFFICES ASSUME SoleUse, "close" \notin Faults PROVE Spec => []SuccessMeansReplaced
  OBVIOUS
<1>1. ASSUME OrderInv, NEW p \in Procs, outcome[p] = "success", NEW f \in Mine(p)
      PROVE  Content(f) \in ImageOf(f) /\ Content(f) # <<f, 0>>
  BY <1>1 DEF OrderInv, Accounted, Denoised, Touched
<1>2. OrderInv => SuccessMeansReplaced
  BY <1>1 DEF SuccessMeansReplaced
<1>. QED BY <1>2, OrderInvInit, OrderInvNext, PTL DEF Spec
-------------------------------------------------------------------------------
(***************************************************************************)
(* The implementation of ReplaceLightmaps rests on what FlattenSeq does to *)
(* the first of the sequences it is given.  FlattenSeq is a recursive      *)
(* function of the index; that it exists and what it is is shown with the  *)
(* least index for which it is not.                                        *)
(***************************************************************************)

\* A set of natural numbers has a least one.
LEMMA WellOrdered ==
  ASSUME NEW S \in SUBSET Nat, S # {}
  PROVE  \E m \in S : \A n \in S : m <= n
<1>. DEFINE R == OpToRel(<, Nat)
<1>1. \A x, y \in Nat : <<x, y>> \in R <=> x < y
  BY DEF OpToRel
<1>2. IsWellFoundedOn(R, Nat)
  BY NatLessThanWellFounded
<1>. HIDE DEF R
<1>3. PICK m \in S : \A n \in S : ~ (<<n, m>> \in R)
  BY <1>2, WFMin
<1>4. \A n \in S : n \in Nat /\ m \in Nat /\ ~ (n < m)
  BY <1>1, <1>3
<1>. QED BY <1>4

\* A set that has 1 and with every number the next one has all numbers up to n.
LEMMA Upwards ==
  ASSUME NEW n \in Nat, NEW G \in SUBSET Nat, n > 0 => 1 \in G,
         \A i \in 1..n-1 : i \in G => i + 1 \in G
  PROVE  1..n \subseteq G
<1>. DEFINE B == {i \in 1..n : i \notin G}
<1>. SUFFICES ASSUME B # {} PROVE FALSE
  OBVIOUS
<1>1. B \in SUBSET Nat
  OBVIOUS
<1>2. PICK m \in B : \A i \in B : m <= i
  <2>. HIDE DEF B
  <2>. QED BY <1>1, WellOrdered
<1>3. m \in 1..n /\ m \notin G /\ m - 1 \notin B
  BY <1>2
<1>4. m # 1
  BY <1>3
<1>5. m - 1 \in 1..n-1 /\ m - 1 \in 1..n /\ (m - 1) + 1 = m
  BY <1>3, <1>4
<1>6. m - 1 \in G
  BY <1>3, <1>5
<1>. QED BY <1>3, <1>5, <1>6

\* The partial results of FlattenSeq.
Partial(ss, f, n) == f = [i \in 1..n |-> IF i = 1 THEN ss[i] ELSE f[i - 1] \o ss[i]]

LEMMA PartialExists ==
  ASSUME NEW ss, NEW n \in Nat
  PROVE  \E f : Partial(ss, f, n)
<1>. DEFINE G == {m \in Nat : \E f : Partial(ss, f, m)}
<1>1. ASSUME NEW m \in Nat, m \in G PROVE m + 1 \in G
  <2>1. PICK f : Partial(ss, f, m)
    BY <1>1
  <2>. DEFINE g == [i \in 1..m+1 |-> IF i = 1 THEN ss[i]
                                     ELSE IF i = m + 1 THEN f[m] \o ss[i] ELSE f[i]]
              h == [i \in 1..m+1 |-> IF i = 1 THEN ss[i] ELSE g[i - 1] \o ss[i]]
  <2>2. ASSUME NEW i \in 1..m+1 PROVE g[i] = h[i]
    <3>1. CASE i = 1
      BY <3>1
    <3>2. CASE i # 1 /\ i = m + 1
      <4>1. i - 1 = m /\ m \in 1..m+1 /\ m \in 1..m /\ m # m + 1
        BY <3>2
      <4>2. g[i] = f[m] \o ss[i] /\ h[i] = g[m] \o ss[i]
        BY <3>2, <4>1
      <4>3. g[m] = f[m]
        <5>1. CASE m = 1
          BY <2>1, <4>1, <5>1 DEF Partial
        <5>2. CASE m # 1
          BY <4>1, <5>2
        <5>. QED BY <5>1, <5>2
      <4>. QED BY <4>2, <4>3
    <3>3. CASE i # 1 /\ i # m + 1
      <4>1. i \in 1..m /\ i - 1 \in 1..m+1 /\ i - 1 \in 1..m /\ i - 1 # m + 1
        BY <3>3
      <4>2. g[i] = f[i] /\ f[i] = f[i - 1] \o ss[i] /\ h[i] = g[i - 1] \o ss[i]
        BY <2>1, <3>3, <4>1 DEF Partial
      <4>3. g[i - 1] = f[i - 1]
        <5>1. CASE i - 1 = 1
          BY <2>1, <4>1, <5>1 DEF Partial
        <5>2. CASE i - 1 # 1
          BY <4>1, <5>2
        <5>. QED BY <5>1, <5>2
      <4>. QED BY <4>2, <4>3
    <3>. QED BY <3>1, <3>2, <3>3
  <2>3. g = h
    BY <2>2
  <2>4. Partial(ss, g, m + 1)
    <3>. HIDE DEF g
    <3>. QED BY <2>3 DEF Partial
  <2>. HIDE DEF g
  <2>. QED BY <2>4
<1>2. Partial(ss, [i \in 1..0 |-> ss[i]], 0)
  BY DEF Partial
<1>3. 0 \in G /\ 0 + 1 \in G
  BY <1>1, <1>2
<1>4. G \in SUBSET Nat
  OBVIOUS
<1>. HIDE DEF G
<1>5. 1..n \subseteq G
  BY <1>1, <1>3, <1>4, Upwards
<1>6. n \in G
  BY <1>3, <1>5
<1>. QED BY <1>6 DEF G

LEMMA FlattenEmpty == FlattenSeq(<<>>) = <<>>
BY DEF FlattenSeq

\* FlattenSeq(ss) is the last of its partial results.
LEMMA FlattenIs ==
  ASSUME NEW S, NEW ss \in Seq(Seq(S)), ss # <<>>
  PROVE  \E f : /\ Partial(ss, f, Len(ss)) /\ FlattenSeq(ss) = f[Len(ss)]
                /\ \A i \in 1..Len(ss) : f[i] \in Seq(S)
<1>. DEFINE n == Len(ss)
            f == CHOOSE g : Partial(ss, g, n)
<1>1. n \in Nat /\ n # 0 /\ n \in 1..n
  OBVIOUS
<1>2. FlattenSeq(ss) = f[n]
  BY <1>1 DEF FlattenSeq, Partial
<1>3. \A i \in 1..n : ss[i] \in Seq(S)
  OBVIOUS
<1>. HIDE DEF n
<1>4. Partial(ss, f, n)
  BY <1>1, PartialExists
<1>. HIDE DEF f
<1>. DEFINE G == {i \in 1..n : f[i] \in Seq(S)}
<1>5. 1 \in G
  BY <1>1, <1>3, <1>4 DEF Partial
<1>6. ASSUME NEW i \in 1..n-1, i \in G PROVE i + 1 \in G
  <2>1. i + 1 \in 1..n /\ i + 1 # 1 /\ (i + 1) - 1 = i
    BY <1>1
  <2>2. f[i + 1] = f[i] \o ss[i + 1]
    BY <1>4, <2>1 DEF Partial
  <2>3. f[i] \in Seq(S) /\ ss[i + 1] \in Seq(S)
    BY <1>3, <1>6, <2>1
  <2>4. f[i] \o ss[i + 1] \in Seq(S)
    BY <2>3, ConcatProperties
  <2>. QED BY <2>1, <2>2, <2>4
<1>7. G \in SUBSET Nat
  OBVIOUS
<1>8. 1..n \subseteq G
  <2>. HIDE DEF G
  <2>. QED BY <1>1, <1>5, <1>6, <1>7, Upwards
<1>. QED BY <1>2, <1>4, <1>8 DEF n

\* Flattening takes the sequences one after the other.
LEMMA FlattenHead ==
  ASSUME NEW S, NEW ss \in Seq(Seq(S)), ss # <<>>
  PROVE  /\ FlattenSeq(ss) \in Seq(S)
         /\ FlattenSeq(Tail(ss)) \in Seq(S)
         /\ FlattenSeq(ss) = Head(ss) \o FlattenSeq(Tail(ss))
<1>. DEFINE n == Len(ss)  tt == Tail(ss)
<1>1. /\ n \in Nat /\ n # 0 /\ n \in 1..n /\ 1 \in 1..n
      /\ tt \in Seq(Seq(S)) /\ Len(tt) = n - 1 /\ Head(ss) = ss[1]
      /\ \A i \in 1..n : ss[i] \in Seq(S)
      /\ \A i \in 1..n-1 : tt[i] = ss[i + 1]
  OBVIOUS
<1>2. PICK f : /\ Partial(ss, f, n) /\ FlattenSeq(ss) = f[n]
               /\ \A i \in 1..n : f[i] \in Seq(S)
  BY FlattenIs
<1>. HIDE DEF n, tt
<1>3. CASE n = 1
  <2>1. tt = <<>>
    BY <1>1, <1>3, EmptySeq
  <2>2. f[n] = ss[1]
    BY <1>1, <1>2, <1>3 DEF Partial
  <2>3. ss[1] \in Seq(S) /\ ss[1] \o <<>> = ss[1]
    BY <1>1, ConcatEmptySeq
  <2>. QED BY <1>1, <1>2, <2>1, <2>2, <2>3, FlattenEmpty, EmptySeq DEF tt
<1>4. CASE n # 1
  <2>0. Len(tt) # 0 /\ Len(<<>>) = 0
    BY <1>1, <1>4
  <2>1. tt # <<>> /\ n - 1 \in Nat /\ n - 1 \in 1..n-1 /\ 1 \in 1..n-1 /\ 2 \in 1..n
    BY <1>1, <1>4, <2>0
  <2>2. PICK g : /\ Partial(tt, g, n - 1) /\ FlattenSeq(tt) = g[n - 1]
                 /\ \A i \in 1..n-1 : g[i] \in Seq(S)
    <3>1. \E g : /\ Partial(tt, g, Len(tt)) /\ FlattenSeq(tt) = g[Len(tt)]
                 /\ \A i \in 1..Len(tt) : g[i] \in Seq(S)
      BY <1>1, <2>1, FlattenIs
    <3>. QED BY <1>1, <3>1
  <2>. DEFINE G == {i \in 1..n-1 : f[i + 1] = ss[1] \o g[i]}
  <2>3. 1 \in G
    <3>1. g[1] = tt[1] /\ tt[1] = ss[1 + 1]
      BY <1>1, <2>1, <2>2 DEF Partial
    <3>2. f[2] = f[2 - 1] \o ss[2] /\ f[1] = ss[1]
      <4>1. 2 \in 1..n /\ 1 \in 1..n /\ 2 # 1
        BY <1>1, <2>1
      <4>. QED BY <1>2, <4>1 DEF Partial
    <3>3. 1 + 1 = 2 /\ 2 - 1 = 1
      OBVIOUS
    <3>. QED BY <2>1, <3>1, <3>2, <3>3
  <2>4. ASSUME NEW i \in 1..(n-1)-1, i \in G PROVE i + 1 \in G
    <3>1. /\ i \in 1..n-1 /\ i + 1 \in 1..n-1 /\ i + 1 # 1 /\ (i + 1) - 1 = i
          /\ (i + 1) + 1 \in 1..n /\ (i + 1) + 1 # 1 /\ ((i + 1) + 1) - 1 = i + 1
      BY <1>1
    <3>2. f[(i + 1) + 1] = f[i + 1] \o ss[(i + 1) + 1]
      BY <1>2, <3>1 DEF Partial
    <3>3. g[i + 1] = g[i] \o tt[i + 1] /\ tt[i + 1] = ss[(i + 1) + 1]
      BY <1>1, <2>2, <3>1 DEF Partial
    <3>4. f[i + 1] = ss[1] \o g[i]
      BY <2>4
    <3>5. ss[1] \in Seq(S) /\ g[i] \in Seq(S) /\ ss[(i + 1) + 1] \in Seq(S)
      BY <1>1, <2>2, <3>1
    <3>6. (ss[1] \o g[i]) \o ss[(i + 1) + 1] = ss[1] \o (g[i] \o ss[(i + 1) + 1])
      <4>. DEFINE a == ss[1]  b == g[i]  c == ss[(i + 1) + 1]
      <4>1. a \in Seq(S) /\ b \in Seq(S) /\ c \in Seq(S)
        BY <3>5
      <4>. HIDE DEF a, b, c
      <4>2. (a \o b) \o c = a \o (b \o c)
        BY <4>1, SMTT(30)
      <4>. QED BY <4>2 DEF a, b, c
    <3>7. f[(i + 1) + 1] = ss[1] \o g[i + 1]
      BY <3>2, <3>3, <3>4, <3>6
    <3>. QED BY <3>1, <3>7, Zenon
  <2>5. G \in SUBSET Nat
    <3>1. 1..n-1 \subseteq Nat
      BY <1>1
    <3>. QED BY <3>1, Zenon
  <2>6. 1..n-1 \subseteq G
    <3>. HIDE DEF G
    <3>. QED BY <2>1, <2>3, <2>4, <2>5, Upwards
  <2>7. n - 1 \in G
    BY <2>1, <2>6
  <2>8. f[(n - 1) + 1] = ss[1] \o g[n - 1] /\ (n - 1) + 1 = n
    <3>1. f[(n - 1) + 1] = ss[1] \o g[n - 1]
      BY <2>7, Zenon
    <3>. QED BY <1>1, <3>1
  <2>. QED BY <1>1, <1>2, <2>1, <2>2, <2>8 DEF tt
<1>. QED BY <1>3, <1>4
-------------------------------------------------------------------------------
(***************************************************************************)
(* First, what the lists of the refinement mapping are: NonBlank and       *)
(* Expand take a line or an argument off the front as the loops of the     *)
(* code do.                                                                *)
(***************************************************************************)
Words == Paths \cup Lists \cup {Blank}

\* The first line of a list, and the rest (the loop of processListFile).
LEMMA NonBlankStep ==
  ASSUME NEW s \in Seq(Words)
  PROVE  /\ NonBlank(s) \in Seq(Words)
         /\ s = <<>> => NonBlank(s) = <<>>
         /\ s # <<>> => /\ NonBlank(Tail(s)) \in Seq(Words)
                        /\ NonBlank(s) = Named(Head(s)) \o NonBlank(Tail(s))
<1>. DEFINE ss == [i \in DOMAIN s |-> Named(s[i])]
            tt == [i \in DOMAIN Tail(s) |-> Named(Tail(s)[i])]
<1>1. \A w \in Words : Named(w) \in Seq(Words)
  BY DEF Named
<1>2. DOMAIN s = 1..Len(s) /\ Len(s) \in Nat /\ \A i \in 1..Len(s) : s[i] \in Words
  OBVIOUS
<1>3. ss \in Seq(Seq(Words)) /\ Len(ss) = Len(s) /\ \A i \in 1..Len(s) : ss[i] = Named(s[i])
  <2>1. \A i \in 1..Len(s) : Named(s[i]) \in Seq(Words)
    BY <1>1, <1>2
  <2>. QED BY <1>2, <2>1
<1>4. NonBlank(s) = FlattenSeq(ss) /\ NonBlank(Tail(s)) = FlattenSeq(tt)
  BY DEF NonBlank
<1>. HIDE DEF ss
<1>5. CASE s = <<>>
  <2>1. ss = <<>>
    BY <1>3, <1>5, EmptySeq
  <2>2. <<>> \in Seq(Words)
    OBVIOUS
  <2>. QED BY <1>4, <1>5, <2>1, <2>2, FlattenEmpty
<1>6. CASE s # <<>>
  <2>1. Len(s) # 0 /\ ss # <<>> /\ Head(s) = s[1] /\ Head(ss) = ss[1] /\ 1 \in 1..Len(s)
    BY <1>2, <1>3, <1>6, EmptySeq
  <2>2. /\ Tail(s) \in Seq(Words) /\ Len(Tail(s)) = Len(s) - 1
        /\ \A i \in 1..Len(s)-1 : Tail(s)[i] = s[i + 1]
    BY <1>6
  <2>3. /\ Tail(ss) \in Seq(Seq(Words)) /\ Len(Tail(ss)) = Len(s) - 1
        /\ \A i \in 1..Len(s)-1 : Tail(ss)[i] = ss[i + 1]
    BY <1>3, <2>1
  <2>4. DOMAIN Tail(s) = 1..Len(s)-1 /\ DOMAIN Tail(ss) = 1..Len(s)-1
    BY <2>2, <2>3
  <2>5. ASSUME NEW i \in 1..Len(s)-1 PROVE Tail(ss)[i] = Named(Tail(s)[i])
    <3>1. i + 1 \in 1..Len(s)
      BY <1>2
    <3>. QED BY <1>3, <2>2, <2>3, <3>1
  <2>6. /\ DOMAIN tt = 1..Len(s)-1 /\ \A i \in 1..Len(s)-1 : tt[i] = Tail(ss)[i]
        /\ tt \in Seq(Seq(Words)) /\ Len(tt) = Len(s) - 1
    <3>1. \A i \in 1..Len(s)-1 : Tail(ss)[i] \in Seq(Words)
      BY <2>3
    <3>2. Len(s) - 1 \in Nat
      BY <1>2, <2>1
    <3>. QED BY <2>4, <2>5, <3>1, <3>2
  <2>7. tt = Tail(ss)
    <3>. HIDE DEF tt
    <3>. QED BY <2>3, <2>6, SeqEqual
  <2>8. /\ FlattenSeq(ss) \in Seq(Words) /\ FlattenSeq(Tail(ss)) \in Seq(Words)
        /\ FlattenSeq(ss) = Head(ss) \o FlattenSeq(Tail(ss))
    BY <1>3, <2>1, FlattenHead
  <2>. HIDE DEF tt
  <2>. QED BY <1>3, <1>4, <1>6, <2>1, <2>7, <2>8
<1>. QED BY <1>5, <1>6

LEMMA OneLine ==
  ASSUME NEW w \in Words, w # Blank PROVE NonBlank(<<w>>) = <<w>>
<1>1. <<w>> \in Seq(Words) /\ <<w>> # <<>> /\ Tail(<<w>>) = <<>> /\ Head(<<w>>) = w
  OBVIOUS
<1>2. NonBlank(<<w>>) = Named(w) \o NonBlank(<<>>)
  BY <1>1, NonBlankStep
<1>3. NonBlank(<<>>) = <<>>
  <2>1. <<>> \in Seq(Words)
    OBVIOUS
  <2>. QED BY <2>1, NonBlankStep
<1>. QED BY <1>2, <1>3 DEF Named

LEMMA MeantType ==
  ASSUME NEW arg \in Paths \cup Lists PROVE Meant(arg) \in Seq(Words)
<1>1. arg \in Lists => Lines[arg] \in Seq(Words)
  BY DenoiserAssumption DEF Words
<1>2. <<arg>> \in Seq(Words)
  BY DEF Words
<1>. QED BY <1>1, <1>2, NonBlankStep DEF Meant

\* The first argument, and the rest (the loop of main).
LEMMA ExpandStep ==
  ASSUME NEW s \in Seq(Paths \cup Lists)
  PROVE  /\ Expand(s) \in Seq(Words)
         /\ s = <<>> => Expand(s) = <<>>
         /\ s # <<>> => /\ Expand(Tail(s)) \in Seq(Words)
                        /\ Expand(s) = Meant(Head(s)) \o Expand(Tail(s))
<1>. DEFINE ss == [i \in DOMAIN s |-> Meant(s[i])]
            tt == [i \in DOMAIN Tail(s) |-> Meant(Tail(s)[i])]
<1>2. DOMAIN s = 1..Len(s) /\ Len(s) \in Nat /\ \A i \in 1..Len(s) : s[i] \in Paths \cup Lists
  OBVIOUS
<1>3. ss \in Seq(Seq(Words)) /\ Len(ss) = Len(s) /\ \A i \in 1..Len(s) : ss[i] = Meant(s[i])
  <2>1. \A i \in 1..Len(s) : Meant(s[i]) \in Seq(Words)
    BY <1>2, MeantType
  <2>. QED BY <1>2, <2>1
<1>4. Expand(s) = FlattenSeq(ss) /\ Expand(Tail(s)) = FlattenSeq(tt)
  BY DEF Expand
<1>. HIDE DEF ss
<1>5. CASE s = <<>>
  <2>1. ss = <<>>
    BY <1>3, <1>5, EmptySeq
  <2>2. <<>> \in Seq(Words)
    OBVIOUS
  <2>. QED BY <1>4, <1>5, <2>1, <2>2, FlattenEmpty
<1>6. CASE s # <<>>
  <2>1. Len(s) # 0 /\ ss # <<>> /\ Head(s) = s[1] /\ Head(ss) = ss[1] /\ 1 \in 1..Len(s)
    BY <1>2, <1>3, <1>6, EmptySeq
  <2>2. /\ Len(Tail(s)) = Len(s) - 1
        /\ \A i \in 1..Len(s)-1 : Tail(s)[i] = s[i + 1]
    BY <1>6
  <2>3. /\ Tail(ss) \in Seq(Seq(Words)) /\ Len(Tail(ss)) = Len(s) - 1
        /\ \A i \in 1..Len(s)-1 : Tail(ss)[i] = ss[i + 1]
    BY <1>3, <2>1
  <2>4. DOMAIN Tail(s) = 1..Len(s)-1 /\ DOMAIN Tail(ss) = 1..Len(s)-1
    BY <1>6, <2>2, <2>3
  <2>5. ASSUME NEW i \in 1..Len(s)-1 PROVE Tail(ss)[i] = Meant(Tail(s)[i])
    <3>1. i + 1 \in 1..Len(s)
      BY <1>2
    <3>. QED BY <1>3, <2>2, <2>3, <3>1
  <2>6. /\ DOMAIN tt = 1..Len(s)-1 /\ \A i \in 1..Len(s)-1 : tt[i] = Tail(ss)[i]
        /\ tt \in Seq(Seq(Words)) /\ Len(tt) = Len(s) - 1
    <3>1. \A i \in 1..Len(s)-1 : Tail(ss)[i] \in Seq(Words)
      BY <2>3
    <3>2. Len(s) - 1 \in Nat
      BY <1>2, <2>1
    <3>. QED BY <2>4, <2>5, <3>1, <3>2
  <2>7. tt = Tail(ss)
    <3>. HIDE DEF tt
    <3>. QED BY <2>3, <2>6, SeqEqual
  <2>8. /\ FlattenSeq(ss) \in Seq(Words) /\ FlattenSeq(Tail(ss)) \in Seq(Words)
        /\ FlattenSeq(ss) = Head(ss) \o FlattenSeq(Tail(ss))
    BY <1>3, <2>1, FlattenHead
  <2>. HIDE DEF tt
  <2>. QED BY <1>3, <1>4, <1>6, <2>1, <2>7, <2>8
<1>. QED BY <1>5, <1>6
-------------------------------------------------------------------------------
(***************************************************************************)
(* Second, the versions.  A run that is not disturbed from outside adds    *)
(* one to the version it has loaded, and nobody else changes it meanwhile. *)
(***************************************************************************)
Undisturbed ==
  /\ SoleUse
  /\ {"crash", "close", "rename"} \cap Faults = {}
  /\ OtherDevice = {} /\ MaxStarts = 1

Following(f) == <<f, Content(f)[2] + 1>>

Counting(p) ==
  /\ pc[p] = "filter" => pixels[p] = Content(cur[p])
  /\ pc[p] \in {"open", "write"} => pixels[p] = Following(cur[p])
  /\ pc[p] = "remove" => Content(TempOf[cur[p]]) = Following(cur[p])
  /\ outcome[p] = "running" <=> pc[p] # "exit"
  /\ pc[p] \in {"start", "args"} => lines[p] = <<>>

\* No run changes the lightmap another one is at, or its temporary file.
LEMMA OwnFiles ==
  ASSUME SoleUse, "close" \notin Faults, Typed, Belongs, Safe,
         NEW p \in Procs, Step(p), NEW q \in Procs \ {p}, NEW f \in Mine(q)
  PROVE  Content(f)' = Content(f) /\ Content(TempOf[f])' = Content(TempOf[f])
<1>. USE DenoiserAssumption
<1>1. f \in Paths /\ TempOf[f] \in Temps /\ f \in Names /\ TempOf[f] \in Names
  BY DEF Mine
<1>. SUFFICES ASSUME NEW n \in {f, TempOf[f]}, Content(n)' # Content(n) PROVE FALSE
  OBVIOUS
<1>. DEFINE g == cur[p]
<1>2. \A h : h = g => Effect(p, h)
  BY StepEffect
<1>3. pc[p] \in Working /\ (n = g \/ n = TempOf[g])
  BY <1>1, <1>2 DEF Effect, Working
<1>4. g \in Mine(p) /\ g \in Paths /\ TempOf[g] \in Temps
  BY <1>3 DEF Belongs, Typed
<1>5. g = f
  BY <1>1, <1>3, <1>4 DEF SoleUse
<1>. QED BY <1>4, <1>5 DEF SoleUse

LEMMA CountingOthers ==
  ASSUME SoleUse, "close" \notin Faults, Typed, Belongs, Safe,
         NEW p \in Procs, Step(p), NEW q \in Procs \ {p}, Counting(q)
  PROVE  Counting(q)'
<1>1. /\ pc'[q] = pc[q] /\ cur'[q] = cur[q] /\ pixels'[q] = pixels[q]
      /\ lines'[q] = lines[q] /\ outcome'[q] = outcome[q]
  BY OthersStand
<1>2. ASSUME NEW f, f = cur[q], pc[q] \in Working
      PROVE  Content(f)' = Content(f) /\ Content(TempOf[f])' = Content(TempOf[f])
  <2>1. f \in Mine(q)
    BY <1>2 DEF Belongs
  <2>. QED BY <2>1, OwnFiles
<1>3. ASSUME NEW f, f = cur[q]
      PROVE  /\ pc'[q] = "filter" => pixels'[q] = Content(f)'
             /\ pc'[q] \in {"open", "write"} => pixels'[q] = Following(f)'
             /\ pc'[q] = "remove" => Content(TempOf[f])' = Following(f)'
  BY <1>1, <1>2, <1>3 DEF Counting, Following, Working
<1>4. ASSUME NEW f, f = cur'[q]
      PROVE  /\ pc'[q] = "filter" => pixels'[q] = Content(f)'
             /\ pc'[q] \in {"open", "write"} => pixels'[q] = Following(f)'
             /\ pc'[q] = "remove" => Content(TempOf[f])' = Following(f)'
  BY <1>1, <1>3, <1>4
<1>5. /\ outcome'[q] = "running" <=> pc'[q] # "exit"
      /\ pc'[q] \in {"start", "args"} => lines'[q] = <<>>
  BY <1>1 DEF Counting
<1>. QED BY <1>4, <1>5 DEF Counting, Following, Content

\* The versions inside denoise().
LEMMA CountingVersions ==
  ASSUME SoleUse, "close" \notin Faults, Typed, Belongs, Safe,
         NEW p \in Procs, Step(p), Counting(p), NEW f, f = cur'[p]
  PROVE  /\ pc'[p] = "filter" => pixels'[p] = Content(f)'
         /\ pc'[p] \in {"open", "write"} => pixels'[p] = Following(f)'
         /\ pc'[p] = "remove" => Content(TempOf[f])' = Following(f)'
<1>. SUFFICES ASSUME pc'[p] \in {"filter", "open", "write", "remove"}
              PROVE  /\ pc'[p] = "filter" => pixels'[p] = Content(f)'
                     /\ pc'[p] \in {"open", "write"} => pixels'[p] = Following(f)'
                     /\ pc'[p] = "remove" => Content(TempOf[f])' = Following(f)'
  OBVIOUS
<1>. USE DenoiserAssumption
<1>1. /\ f = cur[p]
      /\ pc'[p] = "filter" => pc[p] = "load"
      /\ pc'[p] = "open" => pc[p] = "filter"
      /\ pc'[p] = "write" => pc[p] = "open" /\ pixels'[p] = pixels[p]
      /\ pc'[p] = "remove" => pc[p] = "write"
  BY WayThrough DEF Working
<1>2. Effect(p, f)
  BY <1>1, StepEffect
<1>3. ASSUME pc[p] \in Working PROVE Content(f)' = Content(f)
  <2>1. f \in Paths /\ f \in Names /\ TempOf[f] # f
    BY <1>1, <1>3 DEF Typed
  <2>2. pc[p] \notin {"remove", "rename"}
    BY <1>1
  <2>. QED BY <1>2, <2>1, <2>2 DEF Effect
<1>4. CASE pc'[p] = "filter"
  <2>1. Load(p)
    BY <1>1, <1>4 DEF Step, Run, Start, NextArg, ListFails, Succeed, NextLine, LastLine, Filter,
       FilterFails, OpenTemp, OpenFails, ReadFails, WriteTemp, WriteFails, RemoveOriginal,
       RemoveThrows, RenameThrows,
       RenameTemp, Crash, Restart, ReturnFalse, Terminate, Leave, Typed, TypeOK
  <2>2. pixels' = [pixels EXCEPT ![p] = Content(cur[p])] /\ UNCHANGED <<dir, data>>
    BY <1>4, <2>1 DEF Load, ReturnFalse, Leave, Typed, TypeOK
  <2>3. pixels'[p] = Content(f) /\ Content(f)' = Content(f)
    BY <1>1, <2>2 DEF Content, Typed, TypeOK
  <2>. QED BY <1>4, <2>3
<1>5. CASE pc'[p] = "open"
  <2>1. Filter(p)
    BY <1>1, <1>5 DEF Step, Run, Start, NextArg, ListFails, Succeed, NextLine, LastLine, Load,
       FilterFails, OpenTemp, OpenFails, ReadFails, WriteTemp, WriteFails, RemoveOriginal,
       RemoveThrows, RenameThrows,
       RenameTemp, Crash, Restart, ReturnFalse, Terminate, Leave, Typed, TypeOK
  <2>2. pixels'[p] = <<pixels[p][1], pixels[p][2] + 1>>
    BY <2>1 DEF Filter, Typed, TypeOK
  <2>3. pixels[p] = Content(f) /\ Content(f) \in ImageOf(f)
    BY <1>1, <1>5 DEF Counting, Safe, Saving
  <2>4. Content(f)' = Content(f)
    BY <1>1, <1>3, <1>5 DEF Working
  <2>5. pixels'[p] = <<f, Content(f)[2] + 1>>
    BY <2>2, <2>3
  <2>. QED BY <1>5, <2>4, <2>5 DEF Following
<1>6. CASE pc'[p] \in {"write", "remove"}
  <2>1. pixels[p] = <<f, Content(f)[2] + 1>>
    BY <1>1, <1>6 DEF Counting, Following
  <2>2. Content(f)' = Content(f)
    BY <1>1, <1>3, <1>6 DEF Working
  <2>3. pc'[p] = "remove" => Content(TempOf[f])' = pixels[p]
    BY <1>1, <1>2 DEF Effect
  <2>. QED BY <1>1, <1>6, <2>1, <2>2, <2>3 DEF Following
<1>. QED BY <1>4, <1>5, <1>6

LEMMA RunningOutcome ==
  ASSUME Typed, NEW p \in Procs, Step(p), Counting(p)
  PROVE  /\ outcome'[p] = "running" <=> pc'[p] # "exit"
         /\ pc'[p] \in {"start", "args"} => lines'[p] = <<>>
<1>. USE DEF Typed, TypeOK, Counting
<1>1. CASE pc[p] \in Busy
  <2>1. /\ pc'[p] \notin {"start", "args"}
        /\ pc'[p] # "exit" => outcome'[p] = outcome[p]
    BY <1>1, BusyStep DEF Working
  <2>2. pc'[p] = "exit" => outcome'[p] \in {"failure", "killed"}
    BY <1>1 DEF Busy, Working, Step, Run, Start, NextArg, ListFails, Succeed, NextLine, LastLine,
       Load, Filter, FilterFails, OpenTemp, OpenFails, ReadFails, WriteTemp, WriteFails,
       RemoveOriginal,
       RemoveThrows, RenameThrows, RenameTemp, Crash, Restart, ReturnFalse, Terminate, Leave
  <2>. QED BY <1>1, <2>1, <2>2 DEF Busy, Working
<1>2. CASE Start(p) \/ NextArg(p) \/ ListFails(p) \/ Succeed(p)
  BY <1>2 DEF Start, NextArg, ListFails, Succeed, ReturnFalse, Leave
<1>3. CASE NextLine(p) \/ LastLine(p)
  BY <1>3 DEF NextLine, LastLine
<1>4. CASE Crash(p) \/ Restart(p)
  BY <1>4 DEF Crash, Restart, Terminate, Leave
<1>. QED BY <1>1, <1>2, <1>3, <1>4, IdleStep

LEMMA CountingNext ==
  ASSUME SoleUse, "close" \notin Faults, Typed, Belongs, Safe, \A q \in Procs : Counting(q),
         NEW p \in Procs, Step(p)
  PROVE  \A q \in Procs : Counting(q)'
<1>1. Counting(p)'
  BY CountingVersions, RunningOutcome DEF Counting, Following, Content
<1>2. ASSUME NEW q \in Procs PROVE Counting(q)'
  <2>1. CASE q \in Procs \ {p}
    BY <2>1, CountingOthers
  <2>2. CASE q = p
    BY <1>1, <2>2
  <2>. QED BY <2>1, <2>2
<1>. QED BY <1>2

\* The rename that follows the removal succeeds.
LEMMA RenameWorks ==
  ASSUME Undisturbed, Typed, Safe, NEW p \in Procs, Step(p), pc[p] = "rename"
  PROVE  pc'[p] = "lines" /\ outcome' = outcome /\ UNCHANGED <<args, lines, cur>>
<1>. USE DenoiserAssumption
<1>1. RenameTemp(p)
  BY DEF Step, Run, Start, NextArg, ListFails, Succeed, NextLine, LastLine, Load, Filter,
     FilterFails, OpenTemp, OpenFails, ReadFails, WriteTemp, WriteFails, RemoveOriginal,
     RemoveThrows, RenameThrows,
     Crash, Restart, Undisturbed
<1>2. Content(TempOf[cur[p]]) \in ImageOf(cur[p]) /\ cur[p] \in Paths
  BY DEF Safe, Saving, Typed, Working
<1>3. Renameable(cur[p])
  BY <1>2 DEF Renameable, Content, Undisturbed
<1>. QED BY <1>1, <1>3 DEF RenameTemp, Typed, TypeOK

\* A step leaves what a reader will find, but for the removal of an original.
LEMMA SettledStays ==
  ASSUME Undisturbed, Typed, Belongs, Safe, Fresh, NEW p \in Procs, Step(p),
         NEW f \in Paths, ~(f = cur[p] /\ pc[p] = "remove" /\ pc'[p] = "rename")
  PROVE  Settled(f)' = Settled(f)
<1>. USE DenoiserAssumption
<1>. DEFINE Renames == \E q \in Procs : pc[q] = "rename" /\ cur[q] = f
<1>0. SoleUse /\ "close" \notin Faults
  BY DEF Undisturbed
<1>1. Settled(f) = (IF Renames THEN Content(TempOf[f]) ELSE Content(f))
  BY DEF Settled
<1>2. Settled(f)' = (IF Renames' THEN Content(TempOf[f])' ELSE Content(f)')
  BY DEF Settled
<1>3. \A q \in Procs \ {p} : pc'[q] = pc[q] /\ cur'[q] = cur[q]
  BY OthersStand
<1>4. \A q \in Procs : pc[q] = "rename" /\ cur[q] = f => f \in Mine(q)
  BY DEF Belongs, Working
<1>5. CASE pc[p] = "rename" /\ cur[p] = f
  <2>1. pc'[p] = "lines"
    BY <1>5, RenameWorks
  <2>2. Effect(p, f)
    BY <1>0, <1>5, StepEffect
  <2>3. Content(f)' = Content(TempOf[f])
    BY <1>5, <2>1, <2>2 DEF Effect
  <2>4. ASSUME NEW q \in Procs, pc'[q] = "rename", cur'[q] = f PROVE FALSE
    <3>1. q # p
      BY <2>1, <2>4
    <3>2. f \in Mine(q) /\ f \in Mine(p)
      BY <1>3, <1>4, <1>5, <2>4, <3>1
    <3>. QED BY <1>0, <3>1, <3>2 DEF SoleUse
  <2>5. Renames /\ ~Renames'
    BY <1>5, <2>4
  <2>. QED BY <1>1, <1>2, <2>3, <2>5
<1>6. CASE ~(pc[p] = "rename" /\ cur[p] = f)
  <2>1. pc'[p] = "rename" => pc[p] = "remove" /\ cur'[p] = cur[p]
    BY WayThrough DEF Working
  <2>2. ~(pc'[p] = "rename" /\ cur'[p] = f)
    BY <2>1
  <2>3. Renames' <=> Renames
    BY <1>3, <1>6, <2>2
  <2>4. Content(f)' = Content(f)
    BY <1>0, <1>6, Versions
  <2>5. ASSUME Renames PROVE Content(TempOf[f])' = Content(TempOf[f])
    <3>1. PICK q \in Procs \ {p} : pc[q] = "rename" /\ cur[q] = f
      BY <1>6, <2>5
    <3>2. f \in Mine(q)
      BY <1>4, <3>1
    <3>. QED BY <1>0, <3>1, <3>2, OwnFiles
  <2>. QED BY <1>1, <1>2, <2>3, <2>4, <2>5
<1>. QED BY <1>5, <1>6

\* The removal of an original settles its next version.
LEMMA RemovalCounts ==
  ASSUME Undisturbed, Typed, Belongs, Safe, NEW p \in Procs, Counting(p),
         Step(p), pc[p] = "remove", pc'[p] = "rename", NEW f, f = cur[p]
  PROVE  f \in Paths /\ Passes(f) \in Nat /\ Passes(f)' = Passes(f) + 1
<1>. USE DenoiserAssumption
<1>0. SoleUse /\ "close" \notin Faults
  BY DEF Undisturbed
<1>1. f \in Paths /\ f \in Mine(p) /\ TempOf[f] \in Names /\ TempOf[f] # f
  BY DEF Typed, Belongs, Working
<1>2. ASSUME NEW q \in Procs, pc[q] = "rename", cur[q] = f PROVE FALSE
  <2>1. q # p /\ f \in Mine(q)
    BY <1>2 DEF Belongs, Working
  <2>. QED BY <1>0, <1>1, <2>1 DEF SoleUse
<1>3. Settled(f) = Content(f) /\ Content(f) \in ImageOf(f)
  BY <1>2 DEF Settled, Safe, Saving
<1>4. cur'[p] = f
  BY WayThrough DEF Working
<1>5. Settled(f)' = Content(TempOf[f])'
  BY <1>4 DEF Settled
<1>6. Content(TempOf[f])' = Content(TempOf[f])
  <2>1. Effect(p, f)
    BY <1>0, StepEffect
  <2>. QED BY <1>1, <2>1 DEF Effect
<1>7. Content(TempOf[f]) = <<f, Content(f)[2] + 1>>
  BY DEF Counting, Following
<1>8. Content(f) = <<f, Content(f)[2]>> /\ Content(f)[2] \in Nat
  BY <1>3
<1>9. Passes(f) = Content(f)[2]
  BY <1>3 DEF Passes
<1>10. Settled(f)' = <<f, Content(f)[2] + 1>> /\ Settled(f)' \in ImageOf(f)
  BY <1>5, <1>6, <1>7, <1>8
<1>11. Passes(f)' = Content(f)[2] + 1
  BY <1>10 DEF Passes
<1>. QED BY <1>1, <1>8, <1>9, <1>11
-------------------------------------------------------------------------------
(***************************************************************************)
(* Third, the steps: each is a step of ReplaceLightmaps or a stutter.      *)
(***************************************************************************)
\* The outcome without the distinction ReplaceLightmaps does not make.
Ending(p) == IF outcome[p] = "killed" THEN "failure" ELSE outcome[p]

\* What a step of run p is for the others.
Apart(p) == \A q \in Procs \ {p} : Pending(q)' = Pending(q) /\ Ending(q)' = Ending(q)

LEMMA IsApart == ASSUME Typed, NEW p \in Procs, Step(p) PROVE Apart(p)
<1>1. ASSUME NEW q \in Procs \ {p} PROVE Pending(q)' = Pending(q) /\ Ending(q)' = Ending(q)
  <2>1. /\ pc'[q] = pc[q] /\ cur'[q] = cur[q] /\ outcome'[q] = outcome[q]
        /\ args'[q] = args[q] /\ lines'[q] = lines[q]
    BY OthersStand
  <2>. QED BY <2>1 DEF Pending, Ending, InFlight
<1>. QED BY <1>1 DEF Apart

LEMMA IsStutter ==
  ASSUME NEW p \in Procs, Apart(p), Pending(p)' = Pending(p), Ending(p)' = Ending(p),
         \A f \in Paths : Passes(f)' = Passes(f)
  PROVE  UNCHANGED RM!rvars
<1>1. \A q \in Procs : Pending(q)' = Pending(q) /\ Ending(q)' = Ending(q)
  BY DEF Apart
<1>. QED BY <1>1 DEF RM!rvars, Ending

LEMMA IsGiveUp ==
  ASSUME NEW p \in Procs, Apart(p), Ending(p) = "running", Ending(p)' = "failure",
         Pending(p)' = <<>>, \A f \in Paths : Passes(f)' = Passes(f)
  PROVE  RM!RNext
<1>1. \A q \in Procs \ {p} : Pending(q)' = Pending(q) /\ Ending(q)' = Ending(q)
  BY DEF Apart
<1>2. RM!GiveUp(p)
  BY <1>1 DEF RM!GiveUp, Ending
<1>. QED BY <1>2 DEF RM!RNext

LEMMA IsSuccess ==
  ASSUME NEW p \in Procs, Apart(p), Ending(p) = "running", Ending(p)' = "success",
         Pending(p) = <<>>, Pending(p)' = <<>>, \A f \in Paths : Passes(f)' = Passes(f)
  PROVE  RM!RNext
<1>1. \A q \in Procs \ {p} : Pending(q)' = Pending(q) /\ Ending(q)' = Ending(q)
  BY DEF Apart
<1>2. RM!Succeed(p)
  BY <1>1 DEF RM!Succeed, Ending
<1>. QED BY <1>2 DEF RM!RNext

LEMMA IsReplace ==
  ASSUME NEW p \in Procs, Apart(p), Ending(p) = "running", Ending(p)' = "running",
         NEW f \in Paths, Pending(p) # <<>>, Head(Pending(p)) = f,
         Pending(p)' = Tail(Pending(p)), Passes(f)' = Passes(f) + 1,
         \A g \in Paths \ {f} : Passes(g)' = Passes(g)
  PROVE  RM!RNext
<1>1. \A q \in Procs \ {p} : Pending(q)' = Pending(q) /\ Ending(q)' = Ending(q)
  BY DEF Apart
<1>2. RM!Replace(p)
  BY <1>1 DEF RM!Replace, Ending
<1>. QED BY <1>2 DEF RM!RNext

LEMMA HeadOfThree ==
  ASSUME NEW S, NEW a \in S, NEW s \in Seq(S), NEW t \in Seq(S)
  PROVE  /\ <<a>> \o s \o t # <<>>
         /\ Head(<<a>> \o s \o t) = a
         /\ Tail(<<a>> \o s \o t) = s \o t
<1>. DEFINE r == <<a>> \o s \o t
<1>1. /\ r \in Seq(S) /\ Len(r) = 1 + Len(s) + Len(t) /\ r[1] = a
      /\ Len(s) \in Nat /\ Len(t) \in Nat
  OBVIOUS
<1>2. r # <<>> /\ Head(r) = a
  BY <1>1
<1>3. Tail(r) = s \o t
  OBVIOUS
<1>. QED BY <1>2, <1>3

RefineInv ==
  /\ Typed /\ Belongs /\ Safe /\ Fresh
  /\ \A p \in Procs : Counting(p)

\* Inside denoise() a step goes on, is through, or fails.
LEMMA BusyEnds ==
  ASSUME Typed, NEW p \in Procs, Step(p), pc[p] \in Busy
  PROVE  /\ pc'[p] = "exit" => outcome'[p] \in {"failure", "killed"}
         /\ pc'[p] = "lines" => pc[p] = "rename"
<1>. USE DEF Typed, TypeOK
<1>1. Load(p) \/ Filter(p) \/ FilterFails(p) \/ OpenTemp(p) \/ OpenFails(p) \/ ReadFails(p)
      \/ WriteTemp(p) \/ WriteFails(p) \/ RemoveOriginal(p) \/ RemoveThrows(p) \/ RenameThrows(p)
      \/ RenameTemp(p) \/ Crash(p)
  BY DEF Busy, Working, Step, Run, Start, NextArg, ListFails, Succeed, NextLine, LastLine, Restart
<1>2. CASE Load(p) \/ FilterFails(p) \/ OpenFails(p) \/ ReadFails(p) \/ WriteFails(p)
  BY <1>2 DEF Load, FilterFails, OpenFails, ReadFails, WriteFails, ReturnFalse, Leave
<1>3. CASE Filter(p) \/ OpenTemp(p) \/ WriteTemp(p)
  BY <1>3 DEF Filter, OpenTemp, WriteTemp
<1>4. CASE RemoveOriginal(p) \/ RemoveThrows(p) \/ RenameThrows(p) \/ RenameTemp(p) \/ Crash(p)
  BY <1>4 DEF RemoveOriginal, RemoveThrows, RenameThrows, RenameTemp, Crash, ReturnFalse,
     Terminate, Leave
<1>. QED BY <1>1, <1>2, <1>3, <1>4

LEMMA RefineBusy ==
  ASSUME Undisturbed, RefineInv, NEW p \in Procs, Step(p), pc[p] \in Busy
  PROVE  RM!RNext \/ UNCHANGED RM!rvars
<1>0. Typed /\ Belongs /\ Safe /\ Fresh /\ Counting(p) /\ Apart(p)
  BY IsApart DEF RefineInv
<1>1. /\ args'[p] = args[p] /\ lines'[p] = lines[p] /\ cur'[p] = cur[p]
      /\ pc'[p] \in {"lines", "exit"} \cup Working
      /\ pc'[p] # "exit" => outcome'[p] = outcome[p]
  BY <1>0, BusyStep
<1>2. outcome[p] = "running" /\ Ending(p) = "running"
  BY <1>0 DEF Counting, Busy, Working, Ending
<1>3. \A f \in Paths :
        ~(f = cur[p] /\ pc[p] = "remove" /\ pc'[p] = "rename") => Passes(f)' = Passes(f)
  BY <1>0, SettledStays DEF Passes
<1>4. CASE pc'[p] = "exit"
  <2>1. outcome'[p] \in {"failure", "killed"}
    BY <1>0, <1>4, BusyEnds
  <2>2. Ending(p)' = "failure" /\ Pending(p)' = <<>>
    BY <2>1 DEF Ending, Pending
  <2>. QED BY <1>0, <1>2, <1>3, <1>4, <2>2, IsGiveUp
<1>5. CASE pc'[p] \in {"lines", "filter", "open", "write", "remove"}
  <2>1. \/ pc'[p] = "lines" /\ pc[p] = "rename"
        \/ pc'[p] \in {"filter", "open", "write", "remove"}
           /\ pc[p] \in {"load", "filter", "open", "write"}
    BY <1>0, <1>5, BusyEnds, WayThrough DEF Working
  <2>2. InFlight(p)' = InFlight(p)
    BY <1>1, <2>1 DEF InFlight
  <2>3. Pending(p)' = Pending(p) /\ Ending(p)' = Ending(p)
    BY <1>1, <1>5, <2>2 DEF Pending, Ending
  <2>. QED BY <1>0, <1>3, <1>5, <2>3, IsStutter
<1>6. CASE pc'[p] = "rename"
  <2>1. pc[p] = "remove"
    BY <1>0, <1>6, WayThrough DEF Working
  <2>2. \A f : f = cur[p] => f \in Paths /\ Passes(f) \in Nat /\ Passes(f)' = Passes(f) + 1
    BY <1>0, <1>6, <2>1, RemovalCounts
  <2>3. NonBlank(lines[p]) \in Seq(Words) /\ Expand(args[p]) \in Seq(Words) /\ cur[p] \in Words
    BY <1>0, NonBlankStep, ExpandStep DEF Typed, TypeOK, Words
  <2>4. Pending(p) = <<cur[p]>> \o NonBlank(lines[p]) \o Expand(args[p])
    BY <1>2, <2>1 DEF Pending, InFlight
  <2>5. Pending(p)' = NonBlank(lines[p]) \o Expand(args[p])
    <3>1. outcome'[p] = "running" /\ InFlight(p)' = <<>>
      BY <1>1, <1>2, <1>6 DEF InFlight
    <3>2. Pending(p)' = <<>> \o NonBlank(lines[p]) \o Expand(args[p])
      BY <1>1, <3>1 DEF Pending
    <3>3. <<>> \o NonBlank(lines[p]) = NonBlank(lines[p])
      BY <2>3, ConcatEmptySeq
    <3>. QED BY <3>2, <3>3
  <2>6. Pending(p) # <<>> /\ Head(Pending(p)) = cur[p] /\ Pending(p)' = Tail(Pending(p))
    <3>. DEFINE a == cur[p]  s == NonBlank(lines[p])  t == Expand(args[p])
    <3>1. a \in Words /\ s \in Seq(Words) /\ t \in Seq(Words)
      BY <2>3
    <3>2. Pending(p) = <<a>> \o s \o t /\ Pending(p)' = s \o t /\ a = cur[p]
      BY <2>4, <2>5
    <3>. HIDE DEF a, s, t
    <3>3. <<a>> \o s \o t # <<>> /\ Head(<<a>> \o s \o t) = a /\ Tail(<<a>> \o s \o t) = s \o t
      BY <3>1, HeadOfThree
    <3>. QED BY <3>2, <3>3
  <2>7. Ending(p)' = "running"
    BY <1>1, <1>2, <1>6 DEF Ending
  <2>8. cur[p] \in Paths
    BY <2>2
  <2>9. ASSUME NEW f \in Paths, f = cur[p] PROVE RM!RNext
    <3>1. Pending(p) # <<>> /\ Head(Pending(p)) = f /\ Passes(f)' = Passes(f) + 1
      BY <2>2, <2>6, <2>9
    <3>2. \A g \in Paths \ {f} : Passes(g)' = Passes(g)
      BY <1>3, <2>9
    <3>. QED BY <1>0, <1>2, <2>6, <2>7, <3>1, <3>2, IsReplace
  <2>. QED BY <2>8, <2>9
<1>. QED BY <1>1, <1>4, <1>5, <1>6 DEF Working

LEMMA RefineIdle ==
  ASSUME Undisturbed, RefineInv, NEW p \in Procs, Step(p), pc[p] \notin Busy
  PROVE  RM!RNext \/ UNCHANGED RM!rvars
<1>0. Typed /\ Belongs /\ Safe /\ Fresh /\ Counting(p) /\ Apart(p)
  BY IsApart DEF RefineInv
<1>1. \A f \in Paths : Passes(f)' = Passes(f)
  BY <1>0, SettledStays DEF Passes, Busy, Working
<1>2. InFlight(p) = <<>>
  BY DEF InFlight, Busy, Working
<1>3. /\ lines[p] \in Seq(Words) /\ args[p] \in Seq(Paths \cup Lists)
      /\ NonBlank(lines[p]) \in Seq(Words) /\ Expand(args[p]) \in Seq(Words)
  BY <1>0, NonBlankStep, ExpandStep DEF Typed, TypeOK, Words
<1>4. outcome[p] = "running" =>
        Ending(p) = "running" /\ Pending(p) = NonBlank(lines[p]) \o Expand(args[p])
  <2>1. <<>> \o NonBlank(lines[p]) = NonBlank(lines[p])
    BY <1>3, ConcatEmptySeq
  <2>. QED BY <1>2, <2>1 DEF Pending, Ending
<1>5. NonBlank(<<>>) = <<>> /\ Expand(<<>>) = <<>> /\ <<>> \o <<>> = <<>>
  <2>1. <<>> \in Seq(Words) /\ <<>> \in Seq(Paths \cup Lists)
    OBVIOUS
  <2>. QED BY <2>1, NonBlankStep, ExpandStep, ConcatEmptySeq
<1>. USE DEF Typed, TypeOK, Counting
<1>6. CASE (Start(p) /\ args[p] = <<>>) \/ Succeed(p)
  <2>1. /\ pc[p] \in {"start", "args"} /\ args[p] = <<>> /\ outcome'[p] = "success"
    BY <1>0, <1>6 DEF Start, Succeed, Leave
  <2>2. lines[p] = <<>> /\ outcome[p] = "running"
    BY <1>0, <2>1
  <2>3. Ending(p) = "running" /\ Pending(p) = <<>>
    BY <1>4, <1>5, <2>1, <2>2
  <2>4. Ending(p)' = "success" /\ Pending(p)' = <<>>
    BY <2>1 DEF Ending, Pending
  <2>. QED BY <1>0, <1>1, <2>3, <2>4, IsSuccess
<1>7. CASE ListFails(p)
  <2>1. pc[p] = "args" /\ outcome'[p] = "failure"
    BY <1>0, <1>7 DEF ListFails, ReturnFalse, Leave
  <2>2. Ending(p) = "running"
    BY <1>0, <1>4, <2>1
  <2>3. Ending(p)' = "failure" /\ Pending(p)' = <<>>
    BY <2>1 DEF Ending, Pending
  <2>. QED BY <1>0, <1>1, <2>2, <2>3, IsGiveUp
<1>8. CASE (Start(p) /\ args[p] # <<>>) \/ LastLine(p)
  <2>1. /\ pc'[p] = "args" /\ args'[p] = args[p] /\ lines'[p] = lines[p]
        /\ outcome'[p] = outcome[p]
    BY <1>0, <1>8 DEF Start, LastLine
  <2>2. InFlight(p)' = InFlight(p)
    BY <1>2, <2>1 DEF InFlight
  <2>3. Pending(p)' = Pending(p) /\ Ending(p)' = Ending(p)
    BY <2>1, <2>2 DEF Pending, Ending
  <2>. QED BY <1>0, <1>1, <2>3, IsStutter
<1>9. CASE NextArg(p)
  <2>1. /\ pc[p] = "args" /\ pc'[p] = "lines" /\ args[p] # <<>> /\ args'[p] = Tail(args[p])
        /\ lines'[p] = IF Head(args[p]) \in Lists THEN Lines[Head(args[p])] ELSE <<Head(args[p])>>
        /\ outcome'[p] = outcome[p] /\ outcome[p] = "running" /\ lines[p] = <<>>
    BY <1>0, <1>9 DEF NextArg
  <2>2. Head(args[p]) \in Paths \cup Lists
    BY <1>3, <2>1, TailType
  <2>3. NonBlank(lines'[p]) = Meant(Head(args[p]))
    <3>1. Head(args[p]) \notin Lists => Head(args[p]) \in Words /\ Head(args[p]) # Blank
      BY <2>2, DenoiserAssumption DEF Words
    <3>. QED BY <2>1, <3>1, OneLine DEF Meant
  <2>4. Expand(args[p]) = Meant(Head(args[p])) \o Expand(Tail(args[p]))
    BY <1>3, <2>1, ExpandStep
  <2>5. Pending(p) = Expand(args[p]) /\ Ending(p) = "running"
    <3>1. <<>> \o Expand(args[p]) = Expand(args[p])
      BY <1>3, ConcatEmptySeq
    <3>. QED BY <1>4, <1>5, <2>1, <3>1
  <2>6. Pending(p)' = Meant(Head(args[p])) \o Expand(Tail(args[p]))
    <3>1. InFlight(p)' = <<>>
      BY <2>1 DEF InFlight
    <3>2. Pending(p)' = <<>> \o NonBlank(lines'[p]) \o Expand(args'[p])
      BY <2>1, <3>1 DEF Pending
    <3>3. <<>> \o Meant(Head(args[p])) = Meant(Head(args[p]))
      BY <2>2, MeantType, ConcatEmptySeq
    <3>. QED BY <2>1, <2>3, <3>2, <3>3
  <2>7. Ending(p)' = Ending(p)
    BY <2>1 DEF Ending
  <2>. QED BY <1>0, <1>1, <2>4, <2>5, <2>6, <2>7, IsStutter
<1>10. CASE NextLine(p)
  <2>1. /\ pc[p] = "lines" /\ lines[p] # <<>> /\ lines'[p] = Tail(lines[p]) /\ args'[p] = args[p]
        /\ outcome'[p] = outcome[p] /\ outcome[p] = "running"
        /\ \/ Head(lines[p]) = Blank /\ pc'[p] = "lines"
           \/ Head(lines[p]) # Blank /\ cur'[p] = Head(lines[p]) /\ pc'[p] = "load"
    BY <1>0, <1>10 DEF NextLine
  <2>2. /\ NonBlank(Tail(lines[p])) \in Seq(Words)
        /\ NonBlank(lines[p]) = Named(Head(lines[p])) \o NonBlank(Tail(lines[p]))
    BY <1>3, <2>1, NonBlankStep
  <2>3. InFlight(p)' = Named(Head(lines[p]))
    BY <2>1 DEF InFlight, Named
  <2>4. Pending(p)' = InFlight(p)' \o NonBlank(Tail(lines[p])) \o Expand(args[p])
    BY <2>1 DEF Pending
  <2>5. Pending(p)' = Pending(p)
    BY <1>4, <2>1, <2>2, <2>3, <2>4
  <2>6. Ending(p)' = Ending(p)
    BY <2>1 DEF Ending
  <2>. QED BY <1>0, <1>1, <2>5, <2>6, IsStutter
<1>11. ~Crash(p) /\ ~Restart(p)
  BY <1>0 DEF Crash, Restart, Undisturbed
<1>. QED BY <1>6, <1>7, <1>8, <1>9, <1>10, <1>11, IdleStep

LEMMA RefineInit == Init => RM!RInit
<1>. SUFFICES ASSUME Init PROVE RM!RInit
  OBVIOUS
<1>1. ASSUME NEW f \in Paths PROVE Passes(f) = 0
  <2>1. Content(f) = <<f, 0>>
    BY FirstVersions
  <2>2. Settled(f) = <<f, 0>>
    BY <2>1 DEF Settled, Init
  <2>. QED BY <2>2 DEF Passes
<1>2. ASSUME NEW p \in Procs PROVE Pending(p) = Expand(Args[p]) /\ outcome[p] = "running"
  <2>1. pc[p] = "start" /\ lines[p] = <<>> /\ args[p] = Args[p] /\ outcome[p] = "running"
    BY DEF Init
  <2>2. <<>> \in Seq(Words) /\ Args[p] \in Seq(Paths \cup Lists)
    BY DenoiserAssumption
  <2>3. NonBlank(<<>>) = <<>> /\ Expand(Args[p]) \in Seq(Words)
    BY <2>2, NonBlankStep, ExpandStep
  <2>4. Pending(p) = <<>> \o <<>> \o Expand(Args[p])
    BY <2>1, <2>3 DEF Pending, InFlight
  <2>5. <<>> \o <<>> = <<>> /\ <<>> \o Expand(Args[p]) = Expand(Args[p])
    BY <2>2, <2>3, ConcatEmptySeq
  <2>. QED BY <2>1, <2>4, <2>5
<1>. QED BY <1>1, <1>2 DEF RM!RInit

LEMMA RefineInvInit == Init => RefineInv
<1>. SUFFICES ASSUME Init PROVE RefineInv
  OBVIOUS
<1>1. \A p \in Procs : Counting(p)
  BY DEF Init, Counting
<1>. QED BY <1>1, TypedInit, BelongsInit, SafeInit, OrderInit DEF RefineInv

LEMMA RefineInvNext ==
  ASSUME Undisturbed PROVE RefineInv /\ [Next]_vars => RefineInv'
<1>. SUFFICES ASSUME RefineInv, [Next]_vars PROVE RefineInv'
  OBVIOUS
<1>0. SoleUse /\ "close" \notin Faults /\ Typed /\ Belongs /\ Safe /\ Fresh
  BY DEF Undisturbed, RefineInv
<1>1. Typed' /\ Belongs' /\ Safe'
  BY <1>0, TypedNext, BelongsNext, SafeNext
<1>2. CASE Next
  <2>1. PICK p \in Procs : Step(p)
    BY <1>2 DEF Next, Step
  <2>2. Fresh' /\ \A q \in Procs : Counting(q)'
    BY <1>0, <2>1, FreshNext, CountingNext DEF RefineInv
  <2>. QED BY <1>1, <2>2 DEF RefineInv
<1>3. CASE UNCHANGED vars
  <2>1. Fresh' /\ \A q \in Procs : Counting(q)'
    BY <1>3 DEF vars, RefineInv, Fresh, Counting, Following, Content
  <2>. QED BY <1>1, <2>1 DEF RefineInv
<1>. QED BY <1>2, <1>3

LEMMA RefineNext ==
  ASSUME Undisturbed PROVE RefineInv /\ [Next]_vars => [RM!RNext]_RM!rvars
<1>. SUFFICES ASSUME RefineInv, [Next]_vars PROVE RM!RNext \/ UNCHANGED RM!rvars
  OBVIOUS
<1>1. CASE Next
  <2>1. PICK p \in Procs : Step(p)
    BY <1>1 DEF Next, Step
  <2>. QED BY <2>1, RefineBusy, RefineIdle
<1>2. CASE UNCHANGED vars
  <2>1. pc' = pc /\ cur' = cur /\ args' = args /\ lines' = lines /\ outcome' = outcome
    BY <1>2 DEF vars
  <2>2. \A f : Passes(f)' = Passes(f)
    BY <1>2 DEF vars, Passes, Settled, Content
  <2>3. \A p : Pending(p)' = Pending(p)
    BY <2>1 DEF Pending, InFlight
  <2>. QED BY <2>1, <2>2, <2>3 DEF RM!rvars
<1>. QED BY <1>1, <1>2

\* Runs that nobody kills or starts again, that do not share lightmaps or file names,
\* with the temporary directory on the lightmaps' file system, replace their lightmaps
\* one after the other, each in one step, up to the first failure, however they
\* interleave (README.md:22-25; main.cpp, defaultlightmapdenoiser.cpp:46-169).
THEOREM ReplacesInOneStep == Undisturbed => (Spec => ImplementsReplace)
<1> SUFFICES ASSUME Undisturbed PROVE Spec => ImplementsReplace
  OBVIOUS
<1>. QED BY RefineInit, RefineInvInit, RefineInvNext, RefineNext, PTL
     DEF Spec, ImplementsReplace, RM!RSpec
===============================================================================
