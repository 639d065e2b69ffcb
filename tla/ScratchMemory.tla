----------------------------- MODULE ScratchMemory ----------------------------
(***************************************************************************)
(* The scratch memory the filters of a device share.  Every network has a  *)
(* ScratchBuffer of its own size; all of them are the beginning of one     *)
(* global buffer that is as large as the largest of them and is moved when *)
(* that changes.  Tensors and images cache a pointer into it.              *)
(*                                                                         *)
(* All calls are made under the device's mutex (module DeviceApi), so each *)
(* is one action.  A new block gets a number nothing points to any more,   *)
(* so that a stale pointer can be told from a good one.                    *)
(***************************************************************************)
EXTENDS Integers

CONSTANTS
  Filters,     \* filters, each of which has at most one network
  Tensors,     \* tensors and images a network may have
  Sizes,       \* sizes of the scratch buffers
  Blocks,      \* bound: blocks that are referred to at the same time
  FailsIn      \* when alignedMalloc may throw bad_alloc: in "attach", in "attach
               \* alone" (no other filter has a scratch buffer), in "detach"

ASSUME ScratchAssumption ==
  /\ Sizes \subseteq Nat \ {0}
  /\ Blocks \subseteq Nat \ {0}
  /\ FailsIn \subseteq {"attach", "attach alone", "detach"}

Null == 0

VARIABLES
  attached,  \* the filters whose scratch buffer is in the manager's set
  dangling,  \* the set holds a scratch buffer whose constructor has failed
  local,     \* local[f]: the size of f's scratch buffer, 0 if it has none
  view,      \* view[f]: the tensors f has and the block they point into
  ptr,       \* the block of the global buffer
  bytes,     \* the size the global buffer believes it has
  heap,      \* the blocks that are allocated
  fault      \* "none", or the undefined behaviour or abort that has happened

vars == <<attached, dangling, local, view, ptr, bytes, heap, fault>>

Faults == {"none", "double free", "dangling scratch", "terminate"}

TypeOK ==
  /\ attached \subseteq Filters
  /\ dangling \in BOOLEAN
  /\ local \in [Filters -> {0} \cup Sizes]
  /\ DOMAIN view = Filters
  /\ \A f \in Filters : DOMAIN view[f] \subseteq Tensors
                        /\ \A t \in DOMAIN view[f] : view[f][t] \in Blocks \cup {Null}
  /\ ptr \in Blocks \cup {Null}
  /\ bytes \in {0} \cup Sizes
  /\ heap \subseteq Blocks
  /\ fault \in Faults

Init ==
  /\ attached = {} /\ dangling = FALSE
  /\ local = [f \in Filters |-> 0]
  /\ view = [f \in Filters |-> <<>>]
  /\ ptr = Null /\ bytes = 0
  /\ heap = {}
  /\ fault = "none"
-------------------------------------------------------------------------------
Unused == {b \in Blocks : b # ptr /\ b \notin heap
                          /\ \A f \in Filters : \A t \in DOMAIN view[f] : view[f][t] # b}
NewBlock == CHOOSE b \in Unused : TRUE

\* Mutant: the buffer grows by the size, not to it.
Resized_Adds(n) ==
  /\ bytes' = IF n = 0 THEN 0 ELSE bytes + n
  /\ ptr' = IF n = 0 THEN Null ELSE NewBlock
  /\ heap' = (heap \ {ptr}) \cup ({ptr'} \ {Null})

\* CPUBuffer::resize: frees the old block and asks for a new one.
Resized(n) ==
  /\ bytes' = n
  /\ ptr' = IF n = 0 THEN Null ELSE NewBlock
  /\ heap' = (heap \ {ptr}) \cup ({ptr'} \ {Null})

\* alignedMalloc throws: the pointer to the freed block stays.
ResizeFails ==
  /\ heap' = heap \ {ptr}
  /\ UNCHANGED <<ptr, bytes>>

\* updatePtrs: all tensors that are alive point into the new block.
Updated(v) == [f \in Filters |-> [t \in DOMAIN v[f] |-> ptr']]

\* ~CPUBuffer and the freeing that a resize starts with.
FreeFault == IF ptr # Null /\ ptr \notin heap THEN "double free" ELSE fault

\* A walk over the manager's set.
WalkFault == IF dangling THEN "dangling scratch" ELSE FreeFault

\* Mutant: tensors are not told that the buffer has moved.
AttachGrow_NoUpdate(f, n) ==
  /\ local[f] = 0 /\ n > bytes
  /\ attached' = attached \cup {f}
  /\ local' = [local EXCEPT ![f] = n]
  /\ Resized(n)
  /\ fault' = WalkFault
  /\ UNCHANGED <<dangling, view>>

\* A new scratch buffer that is larger than the global one.
AttachGrow(f, n) ==
  /\ local[f] = 0 /\ n > bytes
  /\ attached' = attached \cup {f}
  /\ local' = [local EXCEPT ![f] = n]
  /\ Resized(n)
  /\ view' = Updated(view)
  /\ fault' = WalkFault
  /\ UNCHANGED dangling

\* Mutant: the device keeps the manager of a scratch buffer that was not made.
AttachFails_ManagerStays(f, n) ==
  /\ "attach" \in FailsIn \/ ("attach alone" \in FailsIn /\ attached = {})
  /\ local[f] = 0 /\ n > bytes
  /\ ResizeFails
  /\ dangling' = TRUE
  /\ fault' = FreeFault
  /\ UNCHANGED <<attached, local, view>>

\* The constructor of the scratch buffer throws after it has been entered into
\* the set; if the manager was made for it, it goes again.
AttachFails(f, n) ==
  /\ "attach" \in FailsIn \/ ("attach alone" \in FailsIn /\ attached = {})
  /\ local[f] = 0 /\ n > bytes
  /\ ResizeFails
  /\ dangling' = (dangling \/ attached # {})
  /\ fault' = FreeFault
  /\ UNCHANGED <<attached, local, view>>

AttachFits(f, n) ==
  /\ local[f] = 0 /\ n <= bytes
  /\ attached' = attached \cup {f}
  /\ local' = [local EXCEPT ![f] = n]
  /\ UNCHANGED <<dangling, view, ptr, bytes, heap, fault>>

\* ScratchBuffer::newTensor and newImage.
NewTensor(f, t) ==
  /\ local[f] # 0 /\ t \notin DOMAIN view[f]
  /\ view' = [view EXCEPT ![f] = [u \in DOMAIN view[f] \cup {t} |->
                                    IF u = t THEN ptr ELSE view[f][u]]]
  /\ UNCHANGED <<attached, dangling, local, ptr, bytes, heap, fault>>

\* The largest of the scratch buffers that stay.
Largest(fs) ==
  CHOOSE n \in {local[g] : g \in fs} \cup {0} : \A g \in fs : local[g] <= n

\* Mutant: the buffer never shrinks.
DetachKeep_Always(f) ==
  /\ local[f] # 0
  /\ attached' = attached \ {f}
  /\ local' = [local EXCEPT ![f] = 0]
  /\ view' = [view EXCEPT ![f] = <<>>]
  /\ UNCHANGED <<dangling, ptr, bytes, heap, fault>>

\* A network and its tensors go, and another one needs as much memory.
DetachKeep(f) ==
  /\ local[f] # 0
  /\ local[f] # bytes \/ Largest(attached \ {f}) >= bytes
  /\ attached' = attached \ {f}
  /\ local' = [local EXCEPT ![f] = 0]
  /\ view' = [view EXCEPT ![f] = <<>>]
  /\ fault' = IF dangling /\ local[f] = bytes THEN "dangling scratch" ELSE fault
  /\ UNCHANGED <<dangling, ptr, bytes, heap>>

\* The largest one goes: the buffer shrinks to the largest that stays.
Shrinking(f) == local[f] # 0 /\ local[f] = bytes /\ Largest(attached \ {f}) < bytes

DetachShrink(f) ==
  /\ Shrinking(f)
  /\ attached' = attached \ {f}
  /\ local' = [local EXCEPT ![f] = 0]
  /\ Resized(Largest(attached'))
  /\ view' = Updated([view EXCEPT ![f] = <<>>])
  /\ fault' = WalkFault
  /\ UNCHANGED dangling

\* The destructor that shrinks the buffer throws: std::terminate ends the
\* process, whose memory is of no interest any more.
DetachFails(f) ==
  /\ "detach" \in FailsIn
  /\ Shrinking(f) /\ attached # {f}
  /\ fault' = "terminate"
  /\ UNCHANGED <<attached, dangling, local, view, ptr, bytes, heap>>

Next ==
  /\ fault = "none"
  /\ \E f \in Filters :
       \/ \E n \in Sizes : AttachGrow(f, n) \/ AttachFails(f, n) \/ AttachFits(f, n)
       \/ \E t \in Tensors : NewTensor(f, t)
       \/ DetachKeep(f) \/ DetachShrink(f) \/ DetachFails(f)

Spec == Init /\ [][Next]_vars
-------------------------------------------------------------------------------
\* Every tensor of every filter points into memory that is allocated, whatever
\* the other filters do to the buffer (scratch.cpp:43-53; the comment of
\* Memory::updatePtr, buffer.h:53).
PointersValid ==
  \A f \in Filters : \A t \in DOMAIN view[f] : view[f][t] \in heap

\* The block is as large as each network needs, no larger, and the only one: what
\* was grown for a filter goes with it (scratch.cpp:26-39).
AsLargeAsNeeded == bytes = Largest(Filters) /\ heap = {ptr} \ {Null}

\* Neither a block nor a scratch buffer is used after it has been freed, also by
\* the calls that follow one that ran out of memory (scratch.cpp:15-19 enters the
\* scratch buffer into the set and frees the old block before it may throw).
MemorySafe == fault \in {"none", "terminate"}
===============================================================================
