----------------------------- MODULE ThreadContext -----------------------------
(***************************************************************************)
(* What a device keeps per thread: the affinity a thread had before it     *)
(* entered the task arena of the device, and the error code the thread has *)
(* not asked for yet.                                                      *)
(*                                                                         *)
(* A thread of the application or a worker of TBB occupies a slot of the   *)
(* arena, the observer of the device is told (and pins it to the core of   *)
(* the slot), it works, the observer is told again (and gives it back its  *)
(* old affinity), and the slot is free.  Affinities are kept per slot.  The *)
(* arena is TBB's; of it the slots and the two notices are modelled.       *)
(***************************************************************************)
EXTENDS Integers

CONSTANTS
  Apps, Workers,   \* threads of the application and of TBB
  NoSlot,
  NumSlots,        \* slots of the arena; slot 0 is reserved for the application
  NumAffinities,   \* cores found by ThreadAffinity
  Failing,         \* system calls that may fail: "get", "set", "reset" of affinities
  Codes, NoError   \* error codes

Threads == Apps \cup Workers
Slots == 0..NumSlots-1

ASSUME ContextAssumption ==
  /\ Apps \cap Workers = {} /\ Threads \cap Int = {}
  /\ NumSlots \in Nat \ {0, 1}
  /\ NumAffinities \in Nat \ {0}
  /\ NoSlot \notin Slots
  /\ Failing \subseteq {"get", "set", "reset"}
  /\ NoError \notin Codes

VARIABLES
  place,      \* place[t]: "outside" of the arena, "arriving", "inside", "leaving"
  slot,       \* slot[t]: the slot of the arena t occupies
  mask,       \* mask[t]: where t may run: at first t itself stands for it
  saved,      \* saved[s]: oldAffinities[s], for the thread in slot s
  observing,  \* is there an observer, that is, is there the device?
  error       \* error[t]: the code stored for t

context == <<place, slot, mask, saved, observing, error>>

Core(s) == s
Masks == Threads \cup Int

ContextTypeOK ==
  /\ place \in [Threads -> {"outside", "arriving", "inside", "leaving"}]
  /\ slot \in [Threads -> Slots \cup {NoSlot}]
  /\ mask \in [Threads -> Masks]
  /\ saved \in [Slots -> Masks]
  /\ observing \in BOOLEAN
  /\ error \in [Threads -> Codes \cup {NoError}]

\* The device has been committed with affinities.
ContextInit ==
  /\ place = [t \in Threads |-> "outside"]
  /\ slot = [t \in Threads |-> NoSlot]
  /\ mask = [t \in Threads |-> t]
  /\ saved = [s \in Slots |-> Core(s)]
  /\ observing = TRUE
  /\ error = [t \in Threads |-> NoError]
-------------------------------------------------------------------------------
Move(t, p) == place' = [place EXCEPT ![t] = p]

\* arena::occupy_free_slot.
OccupySlot(t, s) ==
  /\ place[t] = "outside"
  /\ \A u \in Threads : slot[u] # s
  /\ slot' = [slot EXCEPT ![t] = s]
  /\ Move(t, "arriving")
  /\ UNCHANGED <<mask, saved, observing, error>>

\* Mutant: the affinity is saved once per slot.
Set_Once(t, s) ==
  /\ s < NumAffinities
  /\ saved' = [saved EXCEPT ![s] = IF @ = Core(s) THEN mask[t] ELSE @]
  /\ mask' = [mask EXCEPT ![t] = Core(s)]

\* ThreadAffinity::set: the old affinity is saved, the thread is pinned.  If the
\* old one cannot be read, the thread is left alone and the core is saved.
Set(t, s) ==
  \/ s >= NumAffinities /\ UNCHANGED <<saved, mask>>
  \/ /\ s < NumAffinities
     /\ saved' = [saved EXCEPT ![s] = mask[t]]
     /\ \/ mask' = [mask EXCEPT ![t] = Core(s)]
        \/ "set" \in Failing /\ UNCHANGED mask
  \/ /\ s < NumAffinities /\ "get" \in Failing
     /\ saved' = [saved EXCEPT ![s] = Core(s)]
     /\ UNCHANGED mask

\* ThreadAffinity::restore.
Restore(t, s) ==
  \/ s >= NumAffinities /\ UNCHANGED mask
  \/ s < NumAffinities /\ mask' = [mask EXCEPT ![t] = saved[s]]
  \/ s < NumAffinities /\ "reset" \in Failing /\ UNCHANGED mask

\* on_scheduler_entry, if there is an observer to be told.
Enter(t) ==
  /\ place[t] = "arriving"
  /\ IF observing THEN Set(t, slot[t]) ELSE UNCHANGED <<saved, mask>>
  /\ Move(t, "inside")
  /\ UNCHANGED <<slot, observing, error>>

\* on_scheduler_exit, likewise.
Leave(t) ==
  /\ place[t] = "inside"
  /\ IF observing THEN Restore(t, slot[t]) ELSE UNCHANGED mask
  /\ Move(t, "leaving")
  /\ UNCHANGED <<slot, saved, observing, error>>

FreeSlot(t) ==
  /\ place[t] = "leaving"
  /\ slot' = [slot EXCEPT ![t] = NoSlot]
  /\ Move(t, "outside")
  /\ UNCHANGED <<mask, saved, observing, error>>

\* ~Device: from now on the observer is not told of threads that leave.
ResetObserver ==
  /\ observing' = FALSE
  /\ UNCHANGED <<place, slot, mask, saved, error>>

\* Mutant: a later error replaces one that has not been asked for.
StoreError_Overwrites(t, code) ==
  /\ error' = [error EXCEPT ![t] = code]
  /\ UNCHANGED <<place, slot, mask, saved, observing>>

\* Device::setError: the first error stays until the thread has asked for it.
StoreError(t, code) ==
  /\ error' = [error EXCEPT ![t] = IF @ = NoError THEN code ELSE @]
  /\ UNCHANGED <<place, slot, mask, saved, observing>>

\* Device::getError.
TakeError(t) ==
  /\ error' = [error EXCEPT ![t] = NoError]
  /\ UNCHANGED <<place, slot, mask, saved, observing>>
-------------------------------------------------------------------------------
\* A thread that is not in the arena runs where it was allowed to run before, however
\* many threads have used its slot since, and after calls that failed, too
\* (tasking.cpp:29-39; thread.h "Restores the affinity of the thread").  Workers that
\* are still in the arena when the device is deleted stay pinned.
AffinityRestored ==
  \A t \in Threads : place[t] = "outside" /\ (t \in Apps \/ observing) => mask[t] = t
===============================================================================
