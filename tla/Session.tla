-------------------------------- MODULE Session --------------------------------
(***************************************************************************)
(* Threads of an application that commit, execute and release filters of   *)
(* one device: what a call does to the scratch memory (ScratchMemory) and  *)
(* to the thread that makes it (ThreadContext), from the lock of the       *)
(* device's mutex to the error code it leaves.                             *)
(*                                                                         *)
(* A call that throws leaves the arena, then unlocks, then stores the code *)
(* and takes the mutex again to look up the error function; which function *)
(* is called is in DeviceApi.  Workers of TBB come while a call is in the  *)
(* arena and go when they like.  An application that has released its      *)
(* filters may release the device; then there are no more calls.           *)
(***************************************************************************)
EXTENDS ScratchMemory, ThreadContext, Sequences, FiniteSets

CONSTANTS
  Nobody,
  MaxFailures  \* bound: failed calls whose error has not been asked for, of all threads

ASSUME SessionAssumption ==
  /\ Nobody \notin Threads \cup Filters
  /\ MaxFailures \in Nat
  /\ "OutOfMemory" \in Codes

VARIABLES
  mutex,   \* the thread that holds the device's mutex
  step,    \* step[t]: where t is in its call
  target,  \* the filter the call with the mutex is working on
  thrown,  \* thrown[t]: the code of the exception the call has thrown
  failures \* failures[t]: the codes of all calls of t that failed since t last
           \* asked for its error; only read by properties

call == <<mutex, step, target, thrown>>
sessionVars == <<vars, context, call, failures>>

Calls == {"commit", "execute", "release"}
Steps == Calls \cup {"idle", "cleaned", "built", "ended", "failed", "stored"}

SessionTypeOK ==
  /\ TypeOK /\ ContextTypeOK
  /\ mutex \in Apps \cup {Nobody}
  /\ step \in [Apps -> Steps]
  /\ target \in Filters \cup {Nobody}
  /\ thrown \in [Apps -> Codes \cup {NoError}]
  /\ failures \in [Apps -> Seq(Codes)]

SessionInit ==
  /\ Init /\ ContextInit
  /\ mutex = Nobody /\ target = Nobody
  /\ step = [t \in Apps |-> "idle"]
  /\ thrown = [t \in Apps |-> NoError]
  /\ failures = [t \in Apps |-> <<>>]
-------------------------------------------------------------------------------
Goto(t, s) == step' = [step EXCEPT ![t] = s]
Working(t) == place[t] = "inside"

\* OIDN_LOCK in oidnCommitFilter, oidnExecuteFilter and the last oidnReleaseFilter.
BeginCall(t, c, f) ==
  /\ observing /\ step[t] = "idle" /\ mutex = Nobody
  /\ mutex' = t /\ target' = f
  /\ Goto(t, c)
  /\ UNCHANGED <<vars, context, thrown, failures>>

\* The call has done what it has to do.
End(t) ==
  /\ Goto(t, "ended")
  /\ target' = Nobody
  /\ UNCHANGED <<mutex, thrown, failures>>

Unasked == UNION {{t} \X DOMAIN failures[t] : t \in Apps}

\* The call throws.
Throw(t, code) ==
  /\ Cardinality(Unasked) < MaxFailures
  /\ Goto(t, "ended")
  /\ thrown' = [thrown EXCEPT ![t] = code]
  /\ failures' = [failures EXCEPT ![t] = Append(@, code)]
  /\ target' = Nobody
  /\ UNCHANGED mutex

\* Device::executeTask.
EnterArena(t) ==
  /\ step[t] \in {"commit", "execute"}
  /\ OccupySlot(t, 0) \/ Enter(t)
  /\ UNCHANGED <<vars, call, failures>>

\* The network of the filter, if any, is deleted with its scratch buffer.
DropNetwork(f) ==
  IF local[f] = 0 THEN UNCHANGED vars
  ELSE DetachKeep(f) \/ DetachShrink(f) \/ DetachFails(f)

\* commit() of a filter no parameter of which has changed does not enter the arena.
CommitCheap(t) ==
  /\ step[t] = "commit" /\ place[t] = "outside"
  /\ End(t)
  /\ UNCHANGED <<vars, context>>

\* UNetFilter::init starts anew.
CleanUp(t) ==
  /\ step[t] = "commit" /\ Working(t)
  /\ DropNetwork(target)
  /\ Goto(t, "cleaned")
  /\ UNCHANGED <<context, mutex, target, thrown, failures>>

\* Network::allocScratch.
AllocScratch(t) ==
  /\ step[t] = "cleaned"
  /\ \E n \in Sizes :
       \/ /\ AttachGrow(target, n) \/ AttachFits(target, n)
          /\ Goto(t, "built")
          /\ UNCHANGED <<mutex, target, thrown, failures>>
       \/ AttachFails(target, n) /\ Throw(t, "OutOfMemory")
  /\ UNCHANGED context

AddTensor(t) ==
  /\ step[t] = "built"
  /\ \E x \in Tensors : NewTensor(target, x)
  /\ UNCHANGED <<context, call, failures>>

\* The network is complete, or there are no pixels to filter.
CommitDone(t) ==
  /\ step[t] = "cleaned" \/ (step[t] = "built" /\ DOMAIN view[target] = Tensors)
  /\ End(t)
  /\ UNCHANGED <<vars, context>>

ExecuteDone(t) ==
  /\ step[t] = "execute" /\ Working(t)
  /\ End(t)
  /\ UNCHANGED <<vars, context>>

\* init() refuses its parameters or runs out of other memory; execute() is refused
\* before it enters the arena, or cancelled in it.
Fail(t) ==
  /\ \/ step[t] \in {"cleaned", "built"}
     \/ step[t] = "execute" /\ place[t] \in {"outside", "inside"}
  /\ \E code \in Codes : Throw(t, code)
  /\ UNCHANGED <<vars, context>>

ReleaseFilter(t) ==
  /\ step[t] = "release"
  /\ DropNetwork(target)
  /\ End(t)
  /\ UNCHANGED context

\* The end of task_arena::execute, with or without an exception.
LeaveArena(t) ==
  /\ step[t] = "ended"
  /\ Leave(t) \/ FreeSlot(t)
  /\ UNCHANGED <<vars, call, failures>>

\* ~lock_guard.
Unlock(t) ==
  /\ step[t] = "ended" /\ place[t] = "outside"
  /\ mutex' = Nobody
  /\ Goto(t, IF thrown[t] = NoError THEN "idle" ELSE "failed")
  /\ UNCHANGED <<vars, context, target, thrown, failures>>

\* OIDN_CATCH.
Catch(t) ==
  /\ step[t] = "failed"
  /\ StoreError(t, thrown[t])
  /\ Goto(t, "stored")
  /\ thrown' = [thrown EXCEPT ![t] = NoError]
  /\ UNCHANGED <<vars, mutex, target, failures>>

\* setError takes the mutex once more, for the error function.
LookUpFunction(t) ==
  /\ step[t] = "stored" /\ mutex = Nobody
  /\ Goto(t, "idle")
  /\ UNCHANGED <<vars, context, mutex, target, thrown, failures>>

\* oidnGetDeviceError, which takes no lock.
GetError(t) ==
  /\ observing /\ step[t] = "idle"
  /\ TakeError(t)
  /\ failures' = [failures EXCEPT ![t] = <<>>]
  /\ UNCHANGED <<vars, call>>

\* oidnReleaseDevice, when the filters are gone.
ReleaseDevice ==
  /\ observing
  /\ \A t \in Apps : step[t] = "idle"
  /\ \A f \in Filters : local[f] = 0
  /\ ResetObserver
  /\ UNCHANGED <<vars, call, failures>>

App(t) ==
  \/ \E c \in Calls, f \in Filters : BeginCall(t, c, f)
  \/ EnterArena(t) \/ CommitCheap(t) \/ CleanUp(t) \/ AllocScratch(t) \/ AddTensor(t)
  \/ CommitDone(t) \/ ExecuteDone(t) \/ Fail(t) \/ ReleaseFilter(t)
  \/ LeaveArena(t) \/ Unlock(t) \/ Catch(t) \/ LookUpFunction(t) \/ GetError(t)

\* A worker that is called to the arena by the tasks of a call.
Worker(w) ==
  /\ \/ \E s \in Slots \ {0}, t \in Apps : Working(t) /\ OccupySlot(w, s)
     \/ Enter(w) \/ Leave(w) \/ FreeSlot(w)
  /\ UNCHANGED <<vars, call, failures>>

SessionNext ==
  /\ fault = "none"
  /\ (\E t \in Apps : App(t)) \/ ReleaseDevice \/ \E w \in Workers : Worker(w)

SessionSpec == SessionInit /\ [][SessionNext]_sessionVars
-------------------------------------------------------------------------------
\* Between calls a thread finds the code of its own first failed call since it last
\* asked, no later one and none of another thread (device.cpp:36-46 "Update the
\* stored error only if the previous error was queried").
FirstErrorKept ==
  \A t \in Apps : step[t] \in {"idle", "stored"} =>
    error[t] = IF failures[t] = <<>> THEN NoError ELSE Head(failures[t])
===============================================================================
