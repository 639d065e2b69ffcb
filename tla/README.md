# Formal models of qlmdenoiser

qlmdenoiser replaces the `.exr` lightmaps it is given with denoised ones. It consists of a small command line
tool, the single-header EXR library `tinyexr.h` and an embedded copy of Intel Open Image Denoise (OIDN) with
oneTBB and oneDNN. This directory holds TLA+ models of its logic, TLC configurations that check them on small
instances, and proofs that TLAPS checks for all instances. Every definition is a translation of the code; paths in
comments are relative to the repository's root, or plain file names where those are unambiguous.

Contents: [inventory](#1-inventory) · [plan](#2-plan) · [modules](#3-modules-and-how-they-correspond-to-the-code) ·
[runs and bounds](#4-runs-what-they-check-and-their-bounds) · [fairness](#5-fairness) ·
[proofs](#6-proofs) · [findings](#7-findings) · [limits](#8-what-is-not-modelled-and-why)

## 1. Inventory

### How the parts interact

    main() --arguments--> DefaultLightmapDenoiser --LoadEXR / SaveEXR--> tinyexr --> worker threads, files
                                  |
                                  +--C API--> Device --owns--> mutex, ScratchBufferManager, error functions
                                                |
                                                +-- Buffer (reference to the device)
                                                +-- Filter (reference to the device, images refer to buffers)
                                                       network, nodes, scratch memory: more references to the device;
                                                       reorder nodes share the images of the last execute
                                                       commit  --> tile size --> memory plan --> Network
                                                       execute --> tiles --> nodes --> TBB arena, Progress

All calls into OIDN are synchronous C calls; the library takes the device's mutex in each of them. The tool itself
is sequential, but any number of runs of it share a file system. EXR images are encoded and decoded by
`std::thread` workers that share an atomic counter. Errors are exceptions inside OIDN and become an error code and a
callback at the C API; in the tool they are `false` results that go up to `main`, or exceptions of
`std::filesystem` that nobody catches.

### Components

| Component | State | Operations | What is hard | What makes it correct |
|---|---|---|---|---|
| Command line tool and file replacement (`main.cpp`, `defaultlightmapdenoiser.cpp`) | arguments and list lines left, the image in memory, open file, device; the names and contents of the file system | parse arguments, read a list, load, filter, save to a temporary file, remove, rename | several runs, kills between remove and rename, partial failures, a second file system | a lightmap is never lost, nothing partial is visible, success means replaced, lists are done in order |
| EXR writing and reading (`tinyexr.h`) | shared counter, encoded blocks, offset table, file size, shared flag `invalid`, decoded lines | encode, lay out, write, check, decode | thread interleavings, files cut off anywhere, off-by-one checks | what loads is what was saved; a prefix never loads; a complete file always does |
| Filter parameters, commit and execute (`filter.cpp`, `unet.cpp`) | images, options, weights, memory limit; flags `dirty`, `dirtyParam`, `inplace`; the network | setters, removers, updateData, commit, execute | long sequences of calls, stale network, failures half-way through init | an executable filter has the network its parameters ask for |
| Memory plan and run of the network (`unet.cpp` buildNet, `network.cpp`) | sizes and offsets of 25 tensors, scratch size, contents of the buffer | plan, run a node, write a tile out | overlapping on purpose, roundings, tiles that follow one another | no tensor is overwritten before its last use |
| Tiled execution and progress (`unet.cpp` computeTileSize/execute, reorders, `progress.h`, blocks of `color.cpp`) | tile size and counts, position, exposure, written pixels, progress | cut, count, measure the exposure, run a node, report, cancel, copy | roundings at the borders, in-place tiles, cancellation between nodes | every pixel written and measured once, and filtered with its context; in-place runs are all or nothing |
| Scratch memory (`scratch.cpp`, `cpu_buffer.h`) | set of scratch buffers, one global block, cached pointers | attach, new tensor, detach, resize | moving memory under cached pointers, out of memory half-way | pointers valid, size right, nothing used after free |
| Device and API calls (`api.cpp`, `device.cpp`, `ref.h`, what `filter.cpp`, `unet.cpp`, the reorder nodes and `scratch.cpp` refer to) | reference counts, images of filters and of their nodes, networks, mutex, commit flags, error function | create, retain, release, set, commit, execute, report | threads, destruction under the mutex, images that nodes outlive their parameter with, networks dropped half-made, error path | counts exact, nothing in use is deleted, no leak, no deadlock |
| Thread affinity and stored errors (`thread.cpp`, `tasking.cpp`, `device.cpp`) | affinity of each thread and the one saved for its slot; an error code per thread | enter and leave the arena, store and ask for an error | slots that change hands, failing system calls, the device deleted under its workers | a thread gets back its own affinity and finds its own first error |
| Calls from the lock to the stored error (`api.cpp`, `device.h`, `unet.cpp`) | who holds the mutex, where a call is, what it has thrown | commit, execute, release, each with exceptions at every point | unlocking and leaving the arena on the way of an exception | the three parts above stay right together |
| Weights file (`tza.cpp`), kernels, codecs, oneTBB, oneDNN, miniz, training, C++ wrapper, build | – | – | – | not modelled, see [limits](#8-what-is-not-modelled-and-why) |

The hazards of each part (steps in orders nobody tests, partial failures, roundings, stale state) are listed at their
lines in `PROJECT.json`, each with the properties that would notice it going wrong or the reason why none does.

## 2. Plan

The order was chosen by what a fault would cost: first the tool's handling of the user's only copy of a lightmap, then
the filter state machine every run of the tool depends on, then the memory the network works in, then concurrency.

| Step | Module | Abstract specification or composition | State |
|---|---|---|---|
| 1 | `LightmapDenoiser` | implements `ReplaceLightmaps` through `LightmapRefine` | done; all safety proved, and the refinement for runs that are not killed |
| 2 | `UNetFilter` | takes "is this size tiled" from `Tiling` as a constant function | done; all properties proved |
| 3 | `NetPlan` | refines "run the nodes" of `Tiling` to memory | done; all properties proved |
| 4 | `Tiling` | takes the scratch size as any stopping point of the search | done; all properties proved |
| 5 | `ScratchMemory` | implemented by `Session` | done; all properties proved |
| 6 | `DeviceApi` | what a call does to a filter is in `UNetFilter`, to memory and threads in `Session` | done; all safety proved |
| 7 | `ExrFile` | gives `LightmapDenoiser` its `Loadable`: complete images load, others do not | done; all safety proved |
| 8 | `ThreadContext` | part of `Session` | done; proved there |
| 9 | `Session` | composes `ScratchMemory`, `ThreadContext` and the mutex: calls of several threads with exceptions | done; all properties proved, and that it implements `ScratchMemory` |

What is left, in this order:

1. The refinement of `ReplaceLightmaps` for runs that are killed and started again. The abstract specification has
   neither: it would need a step that gives up, and one that begins a list anew and denoises its first part again.
2. `LoadEXR` as three opens of a file that another run may replace in between. It matters only where two runs have the
   same lightmap, which `SoleUse` and the runs exclude by now.
3. `NetPlan`: the scratch memory the convolution nodes share (`Network::finalize`), and which weights a padded channel of
   two tensors read as one meets (`Network::padWeights`).

## 3. Modules and how they correspond to the code

`PROJECT.json` maps each definition to its lines. Modules named `MC...` only declare model values and the
functions the configurations need. Some definitions are followed by variants marked "Mutant": faulty forms of the same
code, used to see that each property can be violated by a plausible mistake; no specification uses them.

**LightmapDenoiser** (`main.cpp`, `defaultlightmapdenoiser.cpp`, file level of `tinyexr.h`). A set of runs share a
file system: `dir` maps names to inodes and `data` inodes to contents, so that a run that has a file open goes on
writing to it after a rename. An image is "whose, and how often denoised". Each run has a program counter; there is one
action per call that reaches the file system or the device (`Load`, `Filter`, `OpenTemp`, `WriteTemp`,
`RemoveOriginal`, `RenameTemp`) and one per loop step (`NextArg`, `NextLine`, `LastLine`), each with its failing
counterpart. `Faults` says what the environment may do: a failing device, list, read of a lightmap, filter, open,
write, remove, rename, an error that only `fclose` sees (which the code ignores), a kill at any step. A rename that
the system refuses throws like one to another file system (`RenameThrows`). `Restart` starts an ended run again.

**ReplaceLightmaps**, **LightmapRefine**. What the repository's README promises: lightmaps are replaced one after the
other, each in one step, and a run stops at the first failure. The refinement mapping reads the count of passes from a
file's content (from the temporary file while a rename is pending) and the pending list from `cur`, `lines` and
`args`: `Expand` joins what the arguments mean, `NonBlank` leaves the blank lines of a list out. The removal of the
original is the step that counts. That is right as long as the rename behind it succeeds, and so the refinement, unlike
the properties about losses, is stated without the fault `rename` and for one file system.

**UNetFilter** (`filter.cpp`, `unet.cpp:1-353, 590-760`). All setters of RT and RTLightmap, as they change the
parameters and the flags `dirty` and `dirtyParam`; `commit` as four actions (nothing to do; cheap; with init; with an
init that fails before or after it has dropped the old network); `execute`. `Blueprint` is everything init reads,
and the network is the blueprint it was built from, so "stale" can be stated as an equation.

**NetPlan** (`unet.cpp:355-587`, `network.cpp`, `tensor.h`). The sizes (channels rounded to blocks, bytes to 128) and
the 25 offsets as written in the code, the list of which `minOfs` is the least, the temporary output below it.
`RunNode` overwrites whatever lies under a node's output; `intact` is the set of tensors that still hold what their
node wrote. The source computes offsets once per commit; the model does so in `Init`.

**Tiling** (`unet.cpp:121-239`, reorder nodes, `progress.h`, `color.cpp:33-84`). The search for a tile size in both
dimensions (`CutH`, `CutW`, `StopSearch`, `CountTiles`) and the loops of `execute` (`Begin`, `RunNode`, `Finish`) with
the progress monitor that may cancel after every node. `written` counts how often each pixel is written. Between the
start and the first tile `SetInputScale` measures the exposure of an HDR image or takes the one it is given; `Block`
are the pixels a task of getAutoexposure averages.

**ScratchMemory** (`scratch.cpp`, `scratch.h`, `cpu_buffer.h`, `platform.cpp`). Attach (three outcomes), new tensor,
detach (three outcomes) for the filters of a device. Blocks are numbered, `heap` are those that are allocated; `fault`
records the first undefined behaviour.

**ThreadContext** (`tasking.cpp`, `thread.cpp`, `device.cpp:24-60`). A thread occupies a slot of the arena, enters
(`on_scheduler_entry` saves its affinity under the slot's number and pins it), leaves (it gets back what is saved under
that number) and frees the slot. `mask[t] = t` stands for whatever `t` was allowed to run on at first. `Failing` says
which system calls may fail. `StoreError` keeps the first code a thread has not asked for. The module has no next-state
relation of its own: the steps belong to calls.

**Session** (`api.cpp`, `device.h` executeTask, `unet.cpp` init and execute). A call of a thread goes from the mutex
to the arena, deletes the old network, makes a scratch buffer and its tensors, or runs, and comes back: it leaves the
arena, unlocks, and if it has thrown, stores the error and takes the mutex once more. `Throw` may happen wherever the
code may throw, among others when `AttachFails`. Workers enter the arena while a call is in it and leave when they
like, which may be calls later, or after `ReleaseDevice`. `failures` is a history of codes for the properties.

**DeviceApi** (`api.cpp`, `device.cpp`, `ref.h`). A call passes through the stages wait, in, out, or raise, failed,
report. References are counted as in the code (`rc`) and, separately, recorded by who holds them: the user (`user`), the
image of a filter (`image`), a network (`parts`, the network itself, its nodes and tensors, any of which may refer to the
device) and the scratch memory all networks of a device share (`scratch`). An execute hands the filter's Image object to
the reorder nodes (`lent`; `input_reorder.cpp:36`, the output reorder's `setDst`), so that replacing or removing the
parameter does not let go of its buffer: the nodes keep it (`kept`) until the next execute, the next `init()` or the end of
the filter. `due` is what the filter's flags come to here: whether the next commit has nothing to do, something, or a network
to make. `Rebuild` is `init()`, which drops the old network first and may throw when the new one is half made.
Several references go in one call, each with its consequences, so these actions compute with a heap: `Hold`, `LetGo` and
`Delete` take the objects and counts before and give those after. The release that drops the last reference awaits the
mutex and then destroys the object under it; the error path takes the mutex a second time to look the error function
up.

**ExrFile** (`tinyexr.h`, scanline images as the tool saves them). `Claim` is the atomic increment, `Encode` the work
of a thread on one block, `Join` the join, `LayOut` one step per block behind header and table, `Write` any prefix of
the file. Reading checks the table, then threads `Claim` and `Decode`; a block whose head or data is not in the file
sets `invalid`. Bytes are counted, not modelled: `ZIP` blocks may get any length up to their raw one.

## 4. Runs: what they check and their bounds

| Run | Instance | Shows |
|---|---|---|
| `lightmap_replace` | 3 runs of the tool: a list with a blank line that names its first lightmap again at the end; a list whose second line names a list; no arguments. Every reported failure but a refused rename, no kills, one file system | `ImplementsReplace`, `Terminates` |
| `lightmap_crash` | 2 runs (one with that list), 3 lightmaps, one of them on another file system, 6 inodes, every reported failure, kills at any step, each run started up to twice | `NothingLost`, `VisibleComplete`, `SuccessMeansReplaced`, `InOrder`, `TypeOK` |
| `lightmap_crossdevice` | no faults, one lightmap on another file system | violation of `KeptOrReplaced`, see findings |
| `unet_lightmap` | RTLightmap; 3 sizes (one empty), two memories, 4 images, good and bad weights rewritten once, 2 memory limits of which one forces tiles, failing allocations | `CommittedIsBuilt`, `InPlaceSafe`, `TypeOK` |
| `unet_nulldata` | RT with null weights | violation of `CommittedIsBuilt`, see findings |
| `net_plan` | tiles of 16 or 48 lines, blocks of 8 and 16 channels, 3 or 9 input channels, four profiles of channels (trained, uneven, growing, deep), with and without temporary output, 2 tiles | `OutputIntact`, `TempKept`, `LaidOut`, `TypeOK` |
| `tiling` | all images up to 21 x 17, alignment 2, overlap 4, 3 nodes, blocks of 4 x 4 for the exposure, in place or not, every stopping point, every cancellation | `WrittenOnce`, `EnoughContext`, `PlacedInBuffer`, `CutsBounded`, `MeasuredOnce`, `ReadsSource`, `CancelledWhole`, `TotalMeansComplete`, `TypeOK` |
| `scratch` | `Session`: 2 threads of the application and 1 worker in an arena of 2 slots, 3 filters, sizes 1 to 3, 3 blocks, a tensor each; memory may run out for a lone filter and in a shrink, pinning a thread may fail, 2 errors not asked for | `PointersValid`, `AsLargeAsNeeded`, `MemorySafe`, `AffinityRestored`, `FirstErrorKept`, `SessionTypeOK` |
| `scratch_nomem` | `ScratchMemory` alone; memory may run out for any filter | violation of `PointersValid`, see findings |
| `device` | 2 threads, 1 buffer with up to 2 handles, 2 filters with networks of 1 part, 1 error function, device released last; the second filter under the bound `SmallCrowd` | `AliveInUse`, `CountsExact`, `NothingLeaks`, `CallbackPaired`, `LockReleased`, `TypeOK` |
| `device_first` | 1 thread, device released in any order | violation of `AliveInUse`, see findings |
| `exr_file` | 1 to 5 lines, blocks of 1 or 2 lines, lines of 2 bytes, 3 threads, every length of the file on disk | `RoundTrip`, `LoadsIfWhole`, `NeverShared`, `Terminates`, `TypeOK` |

Why these bounds are enough to meet the interesting cases:

- *Lightmaps.* Two runs suffice for any pair of steps to interleave; three lightmaps give one for each run and one
  that is repeated or unreachable; two starts give one kill and one retry. Inodes: one for each lightmap and each
  temporary name. That is how many names there are, so a run that opens a new file always finds one.
- *Filter.* The flags and the network only depend on whether parameters equal those of the last commit; two values of
  each parameter reach every such pattern, and one rewrite of the weights distinguishes old and new contents.
- *Plan.* Tensors are compared pairwise, and an order of two offsets depends on ratios of channel counts; the four
  profiles put different tensors lowest. The proofs remove this bound.
- *Tiles.* Alignment 2 and overlap 4 keep the relation that the overlap is a multiple of the alignment; the least tile
  is 12, so 21 x 17 pixels give up to 4 x 3 tiles with every size of the last one. Three nodes have a first, a middle
  and a last. Blocks of 4 pixels give images without a block and up to 5 blocks in a dimension, with every remainder.
  The proofs remove these bounds.
- *Scratch memory and threads.* Three filters and three sizes give a largest, a second largest and a tie. Two
  applications and one worker are one thread more than slots, so that slots change hands, and slot 0, which is the
  application's, too; two errors not asked for are a first and a later one, of one thread or of two. Calls exclude
  each other by the mutex, so that more threads add nothing but other names; the proofs remove these bounds. The run has
  2.1 million states, the largest of all.
- *Device.* Two threads give any race of two calls, and two handles a retain; one buffer is enough for an image that is
  replaced by one in the same buffer or removed while the nodes keep it. The second filter is there for a buffer and a
  scratch memory that have two users. That needs no second thread, since calls exclude each other by the mutex, so the
  constraint `SmallCrowd` of `MCDeviceApi` lets it exist only while the second thread is in no call, the user has one
  handle to the buffer, and the device is committed and has no error function. Whatever happens while there is one filter
  is explored without a constraint. `LockReleased` is checked for the behaviours that stay within it. One part of a
  network stands for some, none for none. The proofs of all but `LockReleased` remove these bounds.
- *EXR.* Five lines in blocks of two give a partial last block; three threads are as many as the blocks of a
  compressed image. The proofs remove this bound, too.

`CHECK_DEADLOCK FALSE` is used where the system ends: all runs have exited, the image is loaded, the tiles are done,
the memory is at fault, or the user has released the device. `unet_lightmap` checks deadlock: a filter can always be
called.

## 5. Fairness

- `LightmapDenoiser!FairSpec`: weak fairness of each run's own steps. The operating system goes on scheduling a
  process that has not ended. Nothing is assumed of restarts or kills. `Terminates` says that each run is at its end
  again and again; with one start that is "it ends".
- `DeviceApi!Spec`: weak fairness of the steps of a thread that is in a call. Waiting for the mutex is enabled only
  while it is free, so a waiting thread is not promised that it ever gets it, as `std::mutex` does not promise it.
  `LockReleased` says that no thread keeps the mutex.
- `ExrFile!Spec`: weak fairness of the main thread and of each worker, which the system schedules.

No other specification needs fairness, and the others state none.

## 6. Proofs

TLAPS checks eight modules of proofs, one for each component. Each shows an invariant inductive (`Init => Inv`,
`Inv /\ [Next]_vars => Inv'`) with one step per action, and reads the properties off it; the temporal step is `PTL`
from the specification. Every invariant that a passing run checks, and the refinement, is stated by a theorem.

**LightmapDenoiser_proofs.** `TypeCorrect` holds under every fault; its invariant `Typed` adds to the type that a run
inside denoise() has a lightmap and after loading an image. `NeverLost` and `AlwaysComplete` assume `SoleUse` (no two
lightmaps share a temporary name, no two runs a lightmap) and `"close" \notin Faults`. `NothingLost` alone is not
inductive: a run about to remove the original must know that its temporary file is complete, that it is its own and
that it shows the right lightmap. `Belongs` says which inode a name and an open file may refer to, `Safe` what each
stage of a run guarantees about original and temporary file. Kills, restarts, a second file system, any
number of runs, lists and lightmaps are covered.

`ListInOrder` and `SuccessIsReplaced` hold under the same assumptions, kills and restarts included. Both need that what
a run has denoised is not the original any more (`Fresh`), so that "touched" stays true once it is. `Listed` says that
a run's remaining lines are those of its list after the first k, and that these k have been passed; `Accounted`, that a
lightmap a run was asked for is denoised or still before it. `InOrder` is about the first line that names a lightmap:
a list may name one again after others, and then it is touched before those others are.

`ReplacesInOneStep` is the refinement: `Undisturbed => (Spec => ImplementsReplace)`. `Undisturbed` names what makes it
true: `SoleUse`, no kills, no refused rename, no error that only `fclose` sees, one file system, one start; every other
fault may occur. `RefineInv` adds to the above how versions are counted (`Counting`): the image in memory, and then the
temporary file, is one version after the one at the path. Every action is shown to be a step of `ReplaceLightmaps` or
a stutter: the removal of the original is `Replace`, the return to `main` `Succeed` or `GiveUp`, and all others leave
what is pending and visible alone. The pending list is built with `FlattenSeq`, a recursive function of SequencesExt;
that it flattens a head in front of its tail is lemma `FlattenHead`, for which the function of partial results has to be
shown to exist (`PartialExists`). That is an induction, carried out as a search for a least counterexample.

**UNetFilter_proofs.** `TypeCorrect`; and, assuming `~NullData`, `CommitComplete`, `InPlaceProtected` and
`NetworkThere` (a call that succeeds never finds a filter without its network, `NeverCrashes`) for both kinds of
filter, any images, weights, limits and failing allocations. The invariant says what the flags mean: without `dirty`,
`inplace` is up to date; without `dirtyParam` the network is the one of the present parameters (`BuiltFrom`); and an
RTLightmap filter is in exactly one of its two modes, without which setting an option to its present value would
change the blueprint unnoticed.

**NetPlan_proofs.** `OutputSurvives`, `TempSurvives`, `PlanSound` for all channel counts,
input channels, tiles and blocks that `PlanAssumption` allows. `Needed[k]` lists which tensors node k and its
successors still read; `Sound(k)` says that node k reads only those and writes apart from them. That the 25 offsets
make every node sound is arithmetic over sums of sizes (`Layout`); the step from node to node is then set reasoning.
The proof shows that the list of ten candidates for `minOfs` is sufficient for every network of this form.

**Tiling_proofs.** All nine properties, for every size of image, alignment, overlap that is a multiple of it, number of
nodes and size of block, wherever the search stops and the monitor cancels. The work is in one dimension and about
quotients. `Searched` and `Tiled` are what the search and the count that follows it establish for a number of pixels, a
tile size and a number of tiles: the tiles reach the end of the image, and one tile fewer would not. From `Tiled`
follow the position of a tile and its context (`Position`); that the outputs are cut without gap or overlap is
expressed by `Start`, the first pixel a tile writes. In two dimensions `DoneAt` are the pixels of the rows of tiles
before the present one and of the tiles to its left; `Written` says that these have been written once and the others not
at all. `Progressing` ties the monitor's counter to tile and node (in a product of two variables, which the solvers
need to be led through), and `Ended` is what is left when an execution is over: whether it was cancelled or not, an
image filtered in place is untouched or complete.

**ScratchMemory_proofs.** `PointersAreValid`, `SizeIsNeeded` and `MemoryIsSafe` for any number of filters, tensors and
sizes. `Registered` says that the manager's set has the filters with a scratch buffer and no others, `Fitting` that the
block is as large as the largest of them, `OneBlock` that nothing else is allocated and everything points to it. Two
hypotheses: `GrowsSafely`, that memory does not run out for a scratch buffer made next to others, without which the
properties are false (run `scratch_nomem`); and `EnoughBlocks`, that there is a block to move to. Memory may run out
for a lone filter and in a shrink.

**Session_proofs.** `AffinityComesBack` and `OwnFirstError` for any number of threads, workers, slots, cores, filters
and error codes. The first assumes `Reliable`: pinning a thread may fail, reading and resetting an affinity may
not. That a thread outside of the arena has its affinity is not inductive: `Affine` adds that inside it is the one
saved for the thread's slot, `Slotted` that no two threads have the same slot from before the first notice until after
the second, which is why a value saved per slot is as good as one per thread. `AtRest` says that a thread whose call is
over is outside, and that without a device no call is under way. For the errors, `Erring` ties the stored code to the
history: it is that of the first failure, not counting one that has been thrown and not been stored.

`SessionUsesScratch` is that `SessionSpec` implements the specification of `ScratchMemory`, whose steps know no threads:
`Serial` says that who is between lock and unlock has the mutex and, until its work is done, a filter to work on. So the
theorems about memory hold of sessions, too (`SessionMemory`, `SessionTypes`), under the hypotheses they have there.

**DeviceApi_proofs.** `CountsAreExact`, `NothingIsLeaked` and `CallbacksArePaired` for any number of threads, buffers,
filters, handles and error functions, in whatever order the user releases; `InUseIsAlive` if the user gives up the
device last (`DeviceLast`; run `device_first` shows what happens if not). A count of zero is not the end of an
object: another thread's call may still hold the mutex that its destruction awaits. `Doomed` says that every object
without references is in the hands of exactly one thread, which deletes it, `Called` that any other call works on
something the user has a handle to, `HeldToTheEnd` that a user who gives up the device last has it until then. `Locked`
and `Paired` tie the mutex to the stages of a call, and the error function to its pointer but for the moment between the
two assignments.

What is about references alone comes first, as lemmas on `Refs(u, h, I, K, P, S)`: in heap `h`, with handles `u`, images
`I`, kept images `K`, parts `P` and scratch memory `S`, every count is the number of references there are, and these are to
objects that exist. A call that moves several references passes through heaps that are no state of the program; a
reference on its way from one place to another is for that time counted as a handle, and each lemma moves one: into an
image (`ImageIn`), out of it (`ImageOut`), out of existence (`LetGoRefs`, `DeleteRefs`), or a whole network (`MakeNet`,
`DropNet`). The cardinalities behind the counts change in these lemmas only. The actions are chains of them.

**ExrFile_proofs.** `TypeCorrect`, `Exclusive`, `LoadsWhatWasSaved`, `WholeOrRefused` for any number of
threads, lines and sizes. `Counted` ties each thread's block to the counter; `Encoded` and `Decoded` say of every
block the counter has passed that it is done, in a thread's hands or, when decoding, not in the file; `LaidOut` that
blocks lie between the table and the end, the last one ending there. That the lines are cut without gap or overlap is
lemma `Cut`. When all threads have left, the counter has passed every block, because thread 1 always
starts and leaves only when no block is left (`AllDone`).

Assumptions on constants (`DenoiserAssumption`, `UNetAssumption`, `NetAssumption`, `PlanAssumption`, `TilingAssumption`,
`ScratchAssumption`, `ContextAssumption`, `SessionAssumption`, `ApiAssumption`, `ExrAssumption`) are evaluated by TLC in
the runs of the same modules. `SoleUse`, `Undisturbed`, `NullData`, `GrowsSafely`, `EnoughBlocks`, `Reliable` and
`DeviceLast` are hypotheses of single theorems.

Only model-checked: liveness, that is `Terminates` of the tool and of the EXR file, and `LockReleased` of the device.
Liveness under fairness and ENABLED are beyond the prover. The library's induction theorems take an operator as a
parameter, which none of the installed provers can instantiate; where an induction is needed, the proofs use that the
natural numbers are well-founded (`WFMin` of WellFoundedInduction, which takes a relation). No module declares a
RECURSIVE operator.

## 7. Findings

Each is a run that ends in a counterexample of a property that states what a document or comment says.

- **Rename across file systems** (`lightmap_crossdevice`, `defaultlightmapdenoiser.cpp:140`). If the temporary directory
  is on another file system, `std::filesystem::rename` throws after the original has been removed. The exception is not
  caught, and nothing is left at the lightmap's path; the result stays in the temporary directory. `README.md:22` and the
  comment "Replace the original file" say otherwise.
- **A null pointer as weights hides changes** (`unet_nulldata`, `filter.cpp:48`). `setParam(Data)` assigns `dirtyParam`
  where all other setters accumulate it. Setting null weights on a filter without weights after another change clears
  the flag; the next commit succeeds and keeps the old network, against `oidn.h:207`. The tool never sets
  weights, so it is not affected.
- **Out of memory in one filter breaks the others** (`scratch_nomem`, `scratch.cpp:19`). `resize()` frees the block
  before it asks for a new one; if that throws, pointers of the other filters are not updated, and the dead scratch
  buffer stays in the manager's set.
- **Releasing the device first** (`device_first`, `api.cpp:76`). If a buffer or filter holds the last reference
  of its device, its release deletes the device, and with it the mutex that the release holds. The
  manual promises that reference counts take care of the order. The tool releases its device last.

Four further behaviours are in the models, but outside of what the runs and theorems assume:

- Runs whose lightmaps have the same file name share a temporary file (`TempOf`); without `SoleUse`,
  `VisibleComplete` fails.
- `SaveEXRImageToFile` ignores the result of `fclose`; with the fault `"close"`, `SuccessMeansReplaced` and
  `NothingLost` fail, since a truncated file replaces the original.
- A worker that is still in the arena when the device is deleted keeps the affinity of its core: `~Device` ends the
  observer (`device.cpp:28`), which is then not told that the worker leaves. `AffinityRestored` speaks of workers only
  while there is a device.
- If `pthread_getaffinity_np` fails when a thread enters, what is saved for its slot is the core's own affinity;
  restoring it pins the thread for good (`thread.cpp`, fault `"get"`).

## 8. What is not modelled, and why

- *Arithmetic of pixels.* Convolutions, transfer functions, luminances, half floats and the EXR codecs compute values
  that no property here tells apart. Compression is "some length that is not longer", decompression its inverse.
- *EXR files of other kinds.* Tiles, parts, deep images, attributes of the header and the choice of a layer: the tool
  writes single-part scanline images. Files of other programs are read by code that is left to tests.
- *Failures that cannot happen.* `EncodePixelData` is refused nothing by `SaveEXR`: it returns false for a compression it
  does not know, and `SaveEXR` asks for ZIP or none. `ExrFile!Encode` therefore always succeeds.
- *Other builds.* Without oneDNN tensors are not blocked (`cpu_device.cpp:21`, block size 1); `NetPlan` has the block
  sizes 8 and 16 of the oneDNN build.
- *More of a filter's images.* `DeviceApi` gives a filter one image parameter instead of up to four, each of which lives
  like this one. An image in memory of the user's own refers to no buffer and counts as none.
- *One read per load.* `LoadEXR` opens its file three times; `LightmapDenoiser` takes it as one step.
- *Aliasing of buffers.* `Image::overlaps` compares Buffer objects (`image.h:193`); an application that wraps one
  memory in two buffers is not warned. The models give an image the memory itself.
- *The API's getters and mapping of buffers.* They copy values and change no state.
- *The parser of weights* (`tza.cpp`) goes once over a range of bytes and keeps no state; `UNetFilter` models its two
  outcomes, that a blob parses or is refused with the filter's old network gone.
- *How cores are found* (`thread.cpp`): parsing of `/sys`; `ThreadContext` has their number as a constant, and the
  affinities of Linux only.
- *oneTBB and oneDNN* are third-party code, and with the weights as arrays and the EXR library's other formats they
  are nearly all of the repository's lines: a parallel loop is one step that reads and writes all its memory, which is
  why `NetPlan` demands that a node's output lies apart from its inputs.
- *miniz*, the *C++ wrapper* (forwards to the C API), *training scripts* and *build files* have no logic of their own
  at run time; `NetPlan` takes the channel counts from `training/model.py`.
