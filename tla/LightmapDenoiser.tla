--------------------------- MODULE LightmapDenoiser ---------------------------
(***************************************************************************)
(* The command line tool: main() walks over its arguments, a .txt argument *)
(* is a list of lightmaps, and DefaultLightmapDenoiser::denoise() takes    *)
(* one lightmap through load, filter, save to a temporary file, removal of *)
(* the original and rename of the temporary file over it.  Several runs    *)
(* of the tool share one file system.                                      *)
(*                                                                         *)
(* Abstractions: the pixels of a lightmap are <<whose image, how often     *)
(* denoised>>; a name refers to an inode, so a run that still has the      *)
(* temporary file open writes to it wherever it has been renamed to; the   *)
(* several opens of one LoadEXR are one step.                              *)
(***************************************************************************)
EXTENDS Naturals, Sequences, FiniteSets

CONSTANTS
  Procs,        \* runs of the tool
  Paths,        \* absolute paths of lightmaps
  Temps,        \* names in the temporary directory
  Lists,        \* .txt list files
  Blank,        \* an empty line of a list file
  TempOf,       \* TempOf[f]: temp_directory_path() / f.filename()
  Lines,        \* Lines[l]: the lines of list file l
  Args,         \* Args[p]: the positional arguments of run p
  OtherDevice,  \* the paths on another file system than the temporary directory
  Faults,       \* what the environment may do to a run
  MaxStarts,    \* bound: how often one run is started
  Inodes,       \* bound: the inodes of the file system
  Home,         \* Home[f]: the inode of lightmap f at the start
  NoFile,       \* no inode, or the content of none
  Truncated     \* a file that is no complete EXR image

FaultKinds == {"device", "list", "read", "filter", "open", "write", "close",
               "remove", "rename", "crash"}

ASSUME DenoiserAssumption ==
  /\ TempOf \in [Paths -> Temps]
  /\ Lines \in [Lists -> Seq(Paths \cup Lists \cup {Blank})]
  /\ Args \in [Procs -> Seq(Paths \cup Lists)]
  /\ Paths \cap Temps = {} /\ Paths \cap Lists = {}
  /\ Blank \notin Paths \cup Lists
  /\ OtherDevice \subseteq Paths
  /\ Faults \subseteq FaultKinds
  /\ MaxStarts \in Nat \ {0}
  /\ NoFile \notin Inodes
  /\ Home \in [Paths -> Inodes]
  /\ \A f, g \in Paths : Home[f] = Home[g] => f = g
  /\ {NoFile, Truncated} \cap (Paths \X Nat) = {}

VARIABLES
  dir,      \* dir[n]: the inode a name refers to, or NoFile
  data,     \* data[i]: the content of an inode
  pc,       \* where run p is
  args,     \* the arguments still to be processed
  lines,    \* the lines of the current argument still to be denoised
  cur,      \* the lightmap being denoised
  pixels,   \* the image run p has in memory
  file,     \* the inode run p has open for writing
  device,   \* the OIDN device: "none", "ready", "failed", "released", "leaked"
  outcome,  \* "running", "success", "failure" or "killed"
  starts    \* how often run p has been started

fsvars == <<dir, data>>
vars == <<dir, data, pc, args, lines, cur, pixels, file, device, outcome, starts>>

Names == Paths \cup Temps

\* Complete images; ImageOf(f) are those that show lightmap f.
Images == Paths \X Nat
ImageOf(f) == {f} \X Nat

Content(n) == IF dir[n] = NoFile THEN NoFile ELSE data[dir[n]]

\* An inode that neither a name nor an open file refers to.
Free == {i \in Inodes : /\ \A n \in Names : dir[n] # i
                        /\ \A p \in Procs : file[p] # i}

TypeOK ==
  /\ dir \in [Names -> Inodes \cup {NoFile}]
  /\ data \in [Inodes -> Images \cup {Truncated}]
  /\ pc \in [Procs -> {"start", "args", "lines", "load", "filter", "open",
                       "write", "remove", "rename", "exit"}]
  /\ args \in [Procs -> Seq(Paths \cup Lists)]
  /\ lines \in [Procs -> Seq(Paths \cup Lists \cup {Blank})]
  /\ cur \in [Procs -> Paths \cup Lists \cup {Blank}]
  /\ pixels \in [Procs -> Images \cup {Truncated}]
  /\ file \in [Procs -> Inodes \cup {NoFile}]
  /\ device \in [Procs -> {"none", "ready", "failed", "released", "leaked"}]
  /\ outcome \in [Procs -> {"running", "success", "failure", "killed"}]
  /\ starts \in [Procs -> 1..MaxStarts]

Init ==
  /\ dir = [n \in Names |-> IF n \in Paths THEN Home[n] ELSE NoFile]
  /\ data = [i \in Inodes |-> IF \E f \in Paths : Home[f] = i
                              THEN <<CHOOSE f \in Paths : Home[f] = i, 0>>
                              ELSE Truncated]
  /\ pc = [p \in Procs |-> "start"]
  /\ args = Args
  /\ lines = [p \in Procs |-> <<>>]
  /\ cur = [p \in Procs |-> Blank]
  /\ pixels = [p \in Procs |-> Truncated]
  /\ file = [p \in Procs |-> NoFile]
  /\ device = [p \in Procs |-> "none"]
  /\ outcome = [p \in Procs |-> "running"]
  /\ starts = [p \in Procs |-> 1]
-------------------------------------------------------------------------------
At(p, l) == pc[p] = l
Goto(p, l) == pc' = [pc EXCEPT ![p] = l]

\* The run ends: its open file is closed with it, and so is its device unless
\* the run was killed or a filter still holds a reference to it.
Leave(p, how, dev) ==
  /\ Goto(p, "exit")
  /\ outcome' = [outcome EXCEPT ![p] = how]
  /\ device' = [device EXCEPT ![p] = dev]
  /\ file' = [file EXCEPT ![p] = NoFile]

\* Mutant: main() does not look at what process() returned.
ReturnFalse_IgnoredByMain(p) ==
  /\ Goto(p, "lines")
  /\ file' = [file EXCEPT ![p] = NoFile]
  /\ UNCHANGED <<outcome, device>>

\* denoise() or processListFile() returns false, and main() EXIT_FAILURE.
ReturnFalse(p) == Leave(p, "failure", "released")

\* An exception of std::filesystem that nothing catches.
Terminate(p) == Leave(p, "killed", device[p])

\* main() without arguments prints the help; otherwise it opens the device.
Start(p) ==
  /\ At(p, "start")
  /\ \/ /\ args[p] = <<>>
        /\ Leave(p, "success", "none")
     \/ /\ args[p] # <<>>
        /\ \/ device' = [device EXCEPT ![p] = "ready"]
           \/ /\ "device" \in Faults
              /\ device' = [device EXCEPT ![p] = "failed"]
        /\ Goto(p, "args")
        /\ UNCHANGED <<file, outcome>>
  /\ UNCHANGED <<dir, data, args, lines, cur, pixels, starts>>

\* process(): a list contributes its lines, any other argument itself.
NextArg(p) ==
  /\ At(p, "args")
  /\ args[p] # <<>>
  /\ args' = [args EXCEPT ![p] = Tail(@)]
  /\ lines' = [lines EXCEPT ![p] = IF Head(args[p]) \in Lists
                                   THEN Lines[Head(args[p])]
                                   ELSE <<Head(args[p])>>]
  /\ Goto(p, "lines")
  /\ UNCHANGED <<dir, data, cur, pixels, file, device, outcome, starts>>

\* The list file cannot be opened.
ListFails(p) ==
  /\ At(p, "args")
  /\ args[p] # <<>> /\ Head(args[p]) \in Lists
  /\ "list" \in Faults
  /\ ReturnFalse(p)
  /\ UNCHANGED <<dir, data, args, lines, cur, pixels, starts>>

\* Every argument has been processed.
Succeed(p) ==
  /\ At(p, "args")
  /\ args[p] = <<>>
  /\ Leave(p, "success", "released")
  /\ UNCHANGED <<dir, data, args, lines, cur, pixels, starts>>

\* The next line of the list; a blank one is skipped.
NextLine(p) ==
  /\ At(p, "lines")
  /\ lines[p] # <<>>
  /\ lines' = [lines EXCEPT ![p] = Tail(@)]
  /\ \/ /\ Head(lines[p]) = Blank
        /\ UNCHANGED <<pc, cur>>
     \/ /\ Head(lines[p]) # Blank
        /\ cur' = [cur EXCEPT ![p] = Head(lines[p])]
        /\ Goto(p, "load")
  /\ UNCHANGED <<dir, data, args, pixels, file, device, outcome, starts>>

\* Mutant: the end of the list file is not noticed.
LastLine_Endless(p) ==
  /\ At(p, "lines")
  /\ lines[p] = <<>>
  /\ UNCHANGED vars

LastLine(p) ==
  /\ At(p, "lines")
  /\ lines[p] = <<>>
  /\ Goto(p, "args")
  /\ UNCHANGED <<dir, data, args, lines, cur, pixels, file, device, outcome, starts>>

Loadable(n) == n \in Paths /\ Content(n) \in Images

\* Mutant: the result of LoadEXR is not looked at.
Load_Unchecked(p) ==
  /\ At(p, "load") /\ cur[p] \in Paths
  /\ pixels' = [pixels EXCEPT ![p] = Content(cur[p])]
  /\ Goto(p, "filter")
  /\ UNCHANGED <<dir, data, args, lines, cur, file, device, outcome, starts>>

Load(p) ==
  /\ At(p, "load")
  /\ \/ /\ Loadable(cur[p])
        /\ pixels' = [pixels EXCEPT ![p] = Content(cur[p])]
        /\ Goto(p, "filter")
        /\ UNCHANGED <<file, device, outcome>>
     \/ /\ ~Loadable(cur[p])
        /\ ReturnFalse(p)
        /\ UNCHANGED pixels
  /\ UNCHANGED <<dir, data, args, lines, cur, starts>>

\* An error of fopen, fseek or fread, or no memory for the pixels.
ReadFails(p) ==
  /\ At(p, "load")
  /\ "read" \in Faults
  /\ ReturnFalse(p)
  /\ UNCHANGED <<dir, data, args, lines, cur, pixels, starts>>

\* Mutant: the original is removed before the result has been saved.
Filter_RemovesFirst(p) ==
  /\ At(p, "filter")
  /\ device[p] = "ready"
  /\ pixels' = [pixels EXCEPT ![p] = <<@[1], @[2] + 1>>]
  /\ dir' = [dir EXCEPT ![cur[p]] = NoFile]
  /\ Goto(p, "open")
  /\ UNCHANGED <<data, args, lines, cur, file, device, outcome, starts>>

Filter(p) ==
  /\ At(p, "filter")
  /\ device[p] = "ready"
  /\ pixels' = [pixels EXCEPT ![p] = <<@[1], @[2] + 1>>]
  /\ Goto(p, "open")
  /\ UNCHANGED <<dir, data, args, lines, cur, file, device, outcome, starts>>

\* oidnGetDeviceError reports an error: the function returns without releasing
\* the filter, which keeps its device alive if there is one.
FilterFails(p) ==
  /\ At(p, "filter")
  /\ \/ /\ device[p] = "failed"
        /\ ReturnFalse(p)
     \/ /\ device[p] = "ready" /\ "filter" \in Faults
        /\ \/ Leave(p, "failure", "leaked")
           \/ ReturnFalse(p)            \* the filter was never made
  /\ UNCHANGED <<dir, data, args, lines, cur, pixels, starts>>

\* Mutant: the result is written straight over the original.
OpenTemp_InPlace(p) ==
  /\ At(p, "open")
  /\ data' = [data EXCEPT ![dir[cur[p]]] = Truncated]
  /\ file' = [file EXCEPT ![p] = dir[cur[p]]]
  /\ Goto(p, "write")
  /\ UNCHANGED <<dir, args, lines, cur, pixels, device, outcome, starts>>

\* fopen(temp, "wb") truncates an existing temporary file or makes a new one.
OpenTemp(p) ==
  /\ At(p, "open")
  /\ LET t == TempOf[cur[p]] IN
     \E i \in IF dir[t] = NoFile THEN Free ELSE {dir[t]} :
        /\ dir' = [dir EXCEPT ![t] = i]
        /\ data' = [data EXCEPT ![i] = Truncated]
        /\ file' = [file EXCEPT ![p] = i]
  /\ Goto(p, "write")
  /\ UNCHANGED <<args, lines, cur, pixels, device, outcome, starts>>

OpenFails(p) ==
  /\ At(p, "open")
  /\ "open" \in Faults
  /\ ReturnFalse(p)
  /\ UNCHANGED <<dir, data, args, lines, cur, pixels, starts>>

\* What fwrite and fclose leave in the file.  The result of fclose is not looked
\* at: a write error that only surfaces there goes unnoticed.
Written(p) == {pixels[p]} \cup (IF "close" \in Faults THEN {Truncated} ELSE {})

\* SaveEXRImageToMemory, fwrite and fclose.
WriteTemp(p) ==
  /\ At(p, "write")
  /\ \E w \in Written(p) : data' = [data EXCEPT ![file[p]] = w]
  /\ file' = [file EXCEPT ![p] = NoFile]
  /\ Goto(p, "remove")
  /\ UNCHANGED <<dir, args, lines, cur, pixels, device, outcome, starts>>

\* Mutant: the result of SaveEXR is not looked at.
WriteFails_Ignored(p) ==
  /\ At(p, "write")
  /\ "write" \in Faults
  /\ data' = [data EXCEPT ![file[p]] = Truncated]
  /\ file' = [file EXCEPT ![p] = NoFile]
  /\ Goto(p, "remove")
  /\ UNCHANGED <<dir, args, lines, cur, pixels, device, outcome, starts>>

WriteFails(p) ==
  /\ At(p, "write")
  /\ "write" \in Faults
  /\ data' = [data EXCEPT ![file[p]] = Truncated]
  /\ ReturnFalse(p)
  /\ UNCHANGED <<dir, args, lines, cur, pixels, starts>>

\* std::filesystem::remove: false if there is nothing to remove.
RemoveOriginal(p) ==
  /\ At(p, "remove")
  /\ \/ /\ dir[cur[p]] # NoFile
        /\ dir' = [dir EXCEPT ![cur[p]] = NoFile]
        /\ Goto(p, "rename")
        /\ UNCHANGED <<file, device, outcome>>
     \/ /\ dir[cur[p]] = NoFile
        /\ ReturnFalse(p)
        /\ UNCHANGED dir
  /\ UNCHANGED <<data, args, lines, cur, pixels, starts>>

RemoveThrows(p) ==
  /\ At(p, "remove")
  /\ "remove" \in Faults
  /\ Terminate(p)
  /\ UNCHANGED <<dir, data, args, lines, cur, pixels, starts>>

\* std::filesystem::rename replaces what is at the path; it throws when the
\* temporary file is gone or on another file system.
Renameable(f) == dir[TempOf[f]] # NoFile /\ f \notin OtherDevice

RenameTemp(p) ==
  /\ At(p, "rename")
  /\ \/ /\ Renameable(cur[p])
        /\ dir' = [dir EXCEPT ![cur[p]] = dir[TempOf[cur[p]]],
                              ![TempOf[cur[p]]] = NoFile]
        /\ Goto(p, "lines")
        /\ UNCHANGED <<file, device, outcome>>
     \/ /\ ~Renameable(cur[p])
        /\ Terminate(p)
        /\ UNCHANGED dir
  /\ UNCHANGED <<data, args, lines, cur, pixels, starts>>

\* The system refuses the rename.
RenameThrows(p) ==
  /\ At(p, "rename")
  /\ "rename" \in Faults
  /\ Terminate(p)
  /\ UNCHANGED <<dir, data, args, lines, cur, pixels, starts>>

\* The run is killed from outside.
Crash(p) ==
  /\ ~At(p, "exit")
  /\ "crash" \in Faults
  /\ Terminate(p)
  /\ UNCHANGED <<dir, data, args, lines, cur, pixels, starts>>

\* The user starts an ended run again with the same arguments.
Restart(p) ==
  /\ At(p, "exit")
  /\ starts[p] < MaxStarts
  /\ starts' = [starts EXCEPT ![p] = @ + 1]
  /\ Goto(p, "start")
  /\ args' = [args EXCEPT ![p] = Args[p]]
  /\ lines' = [lines EXCEPT ![p] = <<>>]
  /\ cur' = [cur EXCEPT ![p] = Blank]
  /\ pixels' = [pixels EXCEPT ![p] = Truncated]
  /\ device' = [device EXCEPT ![p] = "none"]
  /\ outcome' = [outcome EXCEPT ![p] = "running"]
  /\ UNCHANGED <<dir, data, file>>

Run(p) ==
  \/ Start(p) \/ NextArg(p) \/ ListFails(p) \/ Succeed(p)
  \/ NextLine(p) \/ LastLine(p) \/ Load(p) \/ ReadFails(p) \/ Filter(p) \/ FilterFails(p)
  \/ OpenTemp(p) \/ OpenFails(p) \/ WriteTemp(p) \/ WriteFails(p)
  \/ RemoveOriginal(p) \/ RemoveThrows(p) \/ RenameTemp(p) \/ RenameThrows(p)

Next == \E p \in Procs : Run(p) \/ Crash(p) \/ Restart(p)

Spec == Init /\ [][Next]_vars

\* The operating system goes on scheduling a run that has not ended.
FairSpec == Spec /\ \A p \in Procs : WF_vars(Run(p))
-------------------------------------------------------------------------------
\* The lists and the lightmaps a run is asked to process.
MyLists(p) == {l \in Lists : \E i \in DOMAIN Args[p] : Args[p][i] = l}
Mine(p) ==
  {f \in Paths : \/ \E i \in DOMAIN Args[p] : Args[p][i] = f
                 \/ \E l \in MyLists(p) : \E i \in DOMAIN Lines[l] : Lines[l][i] = f}

\* No two lightmaps have the same file name, so none share a temporary file, and
\* no two runs process the same lightmap.
SoleUse ==
  /\ \A f, g \in Paths : TempOf[f] = TempOf[g] => f = g
  /\ \A p, q \in Procs : p # q => Mine(p) \cap Mine(q) = {}

\* A lightmap is never lost: whatever fails and wherever a run is killed, a
\* complete image of it is at its path or in its temporary file
\* (defaultlightmapdenoiser.cpp:128-140: save first, then remove, then rename).
NothingLost ==
  \A f \in Paths : \/ Content(f) \in ImageOf(f)
                   \/ Content(TempOf[f]) \in ImageOf(f)

\* What a reader finds at a lightmap's path is a complete image of that lightmap
\* or nothing: never a file still being written, never another lightmap
\* (the new file is written under the temporary name and renamed when closed).
VisibleComplete == \A f \in Paths : Content(f) \in ImageOf(f) \cup {NoFile}

\* A run that exits with EXIT_SUCCESS has left a denoised version of each of its
\* lightmaps at the lightmap's own path (README.md:22-23).
SuccessMeansReplaced ==
  \A p \in Procs : outcome[p] = "success" =>
    \A f \in Mine(p) : Content(f) \in ImageOf(f) /\ Content(f) # <<f, 0>>

\* Once every run has ended, each lightmap's path holds a complete image of that
\* lightmap, denoised or not (the comment "Replace the original file" of
\* defaultlightmapdenoiser.cpp:135).
KeptOrReplaced ==
  (\A p \in Procs : At(p, "exit")) =>
    \A f \in Paths : Content(f) \in ImageOf(f)

\* A list is worked through in order and given up at its first failure: a lightmap
\* is touched only after all lines before the first that names it have been
\* (defaultlightmapdenoiser.cpp:155-162).
Touched(f) == Content(f) # <<f, 0>>
InOrder ==
  \A p \in Procs, l \in Lists : Args[p] = <<l>> =>
    \A f \in Mine(p) : Touched(f) =>
      \E k \in DOMAIN Lines[l] :
        /\ Lines[l][k] = f
        /\ \A i \in 1..k-1 : Lines[l][i] \in Paths => Touched(Lines[l][i])

\* A run uses up its arguments and ends.
Terminates == \A p \in Procs : []<>(At(p, "exit"))
===============================================================================
