------------------------------- MODULE DeviceApi -------------------------------
(***************************************************************************)
(* The API of a device that several threads call: reference counts of the  *)
(* device, its buffers and its filters, the mutex of the device that every *)
(* call but the release of the device takes, destruction, and the error    *)
(* path, on which the error function is looked up and called.              *)
(*                                                                         *)
(* A call goes through the stages wait (for the mutex), in, out or raise,  *)
(* and after raise through failed (the mutex is free again) and report.    *)
(* What a call computes is in UNetFilter and Session; here it matters what *)
(* refers to what.  A buffer refers to its device.  A filter refers to its *)
(* device and, through an Image object, to the buffer of its parameter.    *)
(* Once committed it has a network, whose parts (the network itself, its   *)
(* nodes, its tensors) refer to the device, as does the scratch memory     *)
(* that the networks of a device share; once executed, the reorder nodes   *)
(* share the filter's Image object, and keep it when the parameter gets    *)
(* another one.                                                            *)
(*                                                                         *)
(* A filter has one image parameter here; an image in memory that is the   *)
(* user's own refers to no buffer and is like no image.                    *)
(***************************************************************************)
EXTENDS Naturals, FiniteSets

CONSTANTS
  Threads,
  Device, Buffers, Filters,  \* the objects
  Nothing,
  Parts,       \* what of a network may refer to the device
  Callbacks,   \* error functions, each registered with a user pointer of its own
  MaxHandles,  \* bound: MaxHandles[o] handles to object o the user has at a time
  DeviceLast   \* TRUE if the user gives up the device only when there are no
               \* other handles and no calls in progress

Objects == {Device} \cup Buffers \cup Filters

ASSUME ApiAssumption ==
  /\ Device \notin Buffers \cup Filters /\ Buffers \cap Filters = {}
  /\ Nothing \notin Threads \cup Objects \cup Callbacks
  /\ Callbacks \cap Objects = {}
  /\ IsFiniteSet(Parts)
  /\ MaxHandles \in [Objects -> Nat \ {0}]
  /\ DeviceLast \in BOOLEAN

VARIABLES
  live,       \* the objects that exist
  rc,         \* rc[o]: the reference count
  user,       \* user[o]: how many of the references are the user's
  image,      \* image[f]: the buffer of the filter's image
  lent,       \* lent[f]: the reorder nodes of f share its Image object
  kept,       \* kept[f]: the buffer of an older image that the nodes still have
  parts,      \* parts[f]: what of f's network refers to the device; {} if it has none
  scratch,    \* scratch[f]: f's network has scratch memory
  due,        \* due[f]: what the next commit of f has to do
  mutex,      \* the thread that holds the device's mutex
  op, obj, arg, at,  \* the call each thread is in and its stage
  dirty, committed,  \* the device's
  errorFunc, errorUserPtr,
  seen        \* seen[t]: the function and the pointer t is about to call

network == <<lent, kept, parts, scratch>>
objects == <<live, rc, user, image, network, due>>
calls == <<op, obj, arg>>
device == <<dirty, committed, errorFunc, errorUserPtr>>
vars == <<objects, mutex, calls, at, device, seen>>

DeviceOps == {"newBuffer", "newFilter", "set1i", "commit", "setErrorFunction"}
FilterOps == {"setImage", "removeImage", "setParam", "commitFilter", "execute"}
Holding == {"in", "half", "out", "raise"}

TypeOK ==
  /\ live \subseteq Objects
  /\ rc \in [Objects -> Nat]
  /\ user \in [Objects -> Nat]
  /\ image \in [Filters -> Buffers \cup {Nothing}]
  /\ lent \in [Filters -> BOOLEAN] /\ kept \in [Filters -> Buffers \cup {Nothing}]
  /\ parts \in [Filters -> SUBSET Parts] /\ scratch \in [Filters -> BOOLEAN]
  /\ due \in [Filters -> {"nothing", "commit", "init"}]
  /\ mutex \in Threads \cup {Nothing}
  /\ op \in [Threads -> DeviceOps \cup FilterOps \cup {"destroy", "none"}]
  /\ obj \in [Threads -> Objects \cup {Nothing}]
  /\ arg \in [Threads -> Buffers \cup Callbacks \cup {Nothing}]
  /\ at \in [Threads -> Holding \cup {"idle", "wait", "failed", "report"}]
  /\ dirty \in BOOLEAN /\ committed \in BOOLEAN
  /\ errorFunc \in Callbacks \cup {Nothing} /\ errorUserPtr \in Callbacks \cup {Nothing}
  /\ seen \in [Threads -> (Callbacks \cup {Nothing}) \X (Callbacks \cup {Nothing})]

\* oidnNewDevice has returned a handle.
Init ==
  /\ live = {Device}
  /\ rc = [o \in Objects |-> IF o = Device THEN 1 ELSE 0]
  /\ user = rc
  /\ image = [f \in Filters |-> Nothing]
  /\ lent = [f \in Filters |-> FALSE] /\ kept = [f \in Filters |-> Nothing]
  /\ parts = [f \in Filters |-> {}] /\ scratch = [f \in Filters |-> FALSE]
  /\ due = [f \in Filters |-> "init"]
  /\ mutex = Nothing
  /\ op = [t \in Threads |-> "none"] /\ at = [t \in Threads |-> "idle"]
  /\ obj = [t \in Threads |-> Nothing] /\ arg = [t \in Threads |-> Nothing]
  /\ dirty = TRUE /\ committed = FALSE
  /\ errorFunc = Nothing /\ errorUserPtr = Nothing
  /\ seen = [t \in Threads |-> <<Nothing, Nothing>>]
-------------------------------------------------------------------------------
Idle(t) == at[t] = "idle"
Goto(t, s) == at' = [at EXCEPT ![t] = s]
In(t, o) == at[t] = "in" /\ op[t] = o

\* The call returns.
Return(t) ==
  /\ Goto(t, "idle")
  /\ op' = [op EXCEPT ![t] = "none"]
  /\ obj' = [obj EXCEPT ![t] = Nothing]
  /\ arg' = [arg EXCEPT ![t] = Nothing]
  /\ seen' = [seen EXCEPT ![t] = <<Nothing, Nothing>>]

\* The user calls with a handle that it does not give up during the call.
Enter(t, o, x, a) ==
  /\ Idle(t) /\ user[x] > 0
  /\ a \in Buffers => user[a] > 0
  /\ op' = [op EXCEPT ![t] = o]
  /\ obj' = [obj EXCEPT ![t] = x]
  /\ arg' = [arg EXCEPT ![t] = a]
  /\ Goto(t, "wait")
  /\ UNCHANGED <<objects, mutex, device, seen>>

Call(t) ==
  \/ \E o \in DeviceOps \ {"setErrorFunction"} : Enter(t, o, Device, Nothing)
  \/ \E c \in Callbacks : Enter(t, "setErrorFunction", Device, c)
  \/ \E f \in Filters :
       \/ \E o \in FilterOps \ {"setImage"} : Enter(t, o, f, Nothing)
       \/ \E b \in Buffers \cup {Nothing} : Enter(t, "setImage", f, b)

\* OIDN_LOCK.
Lock(t) ==
  /\ at[t] = "wait" /\ mutex = Nothing
  /\ mutex' = t
  /\ Goto(t, "in")
  /\ UNCHANGED <<objects, calls, device, seen>>

\* The call throws.
Raise(t) ==
  /\ Goto(t, "raise")
  /\ UNCHANGED <<objects, mutex, calls, device, seen>>

\* A new object has one reference, and refers to its device.
NewObject(t) ==
  /\ In(t, "newBuffer") \/ In(t, "newFilter")
  /\ ~dirty
  /\ \E o \in (IF op[t] = "newBuffer" THEN Buffers ELSE Filters) \ live :
       /\ live' = live \cup {o}
       /\ rc' = [rc EXCEPT ![o] = 1, ![Device] = @ + 1]
       /\ user' = [user EXCEPT ![o] = 1]
  /\ Goto(t, "out")
  /\ UNCHANGED <<image, network, due, mutex, calls, device, seen>>

\* checkCommitted() throws, the type is unknown, or memory runs out.
NewFails(t) ==
  /\ In(t, "newBuffer") \/ In(t, "newFilter")
  /\ Raise(t)

\* A parameter of the device: it has to be committed again, which it cannot be.
Set1i(t) ==
  /\ In(t, "set1i")
  /\ dirty' = TRUE
  /\ Goto(t, "out")
  /\ UNCHANGED <<objects, mutex, calls, committed, errorFunc, errorUserPtr, seen>>

Commit(t) ==
  /\ In(t, "commit") /\ ~committed
  /\ dirty' = FALSE /\ committed' = TRUE
  /\ Goto(t, "out")
  /\ UNCHANGED <<objects, mutex, calls, errorFunc, errorUserPtr, seen>>

\* The device is committed already, or init() throws.
CommitFails(t) == In(t, "commit") /\ Raise(t)

\* The two assignments of setErrorFunction.
SetErrorFunc(t) ==
  /\ In(t, "setErrorFunction")
  /\ errorFunc' = arg[t]
  /\ Goto(t, "half")
  /\ UNCHANGED <<objects, mutex, calls, dirty, committed, errorUserPtr, seen>>

SetErrorUserPtr(t) ==
  /\ at[t] = "half"
  /\ errorUserPtr' = arg[t]
  /\ Goto(t, "out")
  /\ UNCHANGED <<objects, mutex, calls, dirty, committed, errorFunc, seen>>

Heap == [live |-> live, rc |-> rc]
Becomes(h) == live' = h.live /\ rc' = h.rc

\* n more references to o, if there is such an object.
Hold(h, o, n) ==
  IF o = Nothing THEN h
  ELSE [live |-> h.live, rc |-> [h.rc EXCEPT ![o] = h.rc[o] + n]]

\* n references to the device are gone; it goes with the last one.
LetGoDevice(h, n) ==
  [live |-> IF h.rc[Device] = n THEN h.live \ {Device} ELSE h.live,
   rc |-> [h.rc EXCEPT ![Device] = h.rc[Device] - n]]

\* Object o is deleted, and its reference to the device with it.
Delete(h, o) == LetGoDevice([live |-> h.live \ {o}, rc |-> h.rc], 1)

\* A reference to buffer b, if it is one, is gone; the buffer goes with the last.
LetGo(h, b) ==
  IF b = Nothing THEN h
  ELSE LET g == [live |-> h.live, rc |-> [h.rc EXCEPT ![b] = h.rc[b] - 1]] IN
       IF g.rc[b] = 0 THEN Delete(g, b) ELSE g

\* How many references to the device depend on whether filter f has a network of
\* parts p and scratch memory s: the filters share one buffer for the latter.
NetRefs(f, p, s) ==
  Cardinality(p) + (IF s /\ \A g \in Filters \ {f} : ~scratch[g] THEN 1 ELSE 0)

\* Filter f drops its network and its nodes, with the older image they have.
Clear(h, f) == LetGoDevice(LetGo(h, kept[f]), NetRefs(f, parts[f], scratch[f]))

\* A change of filter f: to be committed, perhaps with a new network.
Outdate(f, must) ==
  \E d \in {"commit", "init"} :
    /\ must \/ due[f] = "init" => d = "init"
    /\ due' = [due EXCEPT ![f] = d]

\* Mutant: the image does not hold a reference to its buffer.
Assign_NoRef(f, b) ==
  /\ Becomes(LetGo(Heap, IF lent[f] THEN Nothing ELSE image[f]))
  /\ image' = [image EXCEPT ![f] = b]
  /\ kept' = IF lent[f] THEN [kept EXCEPT ![f] = image[f]] ELSE kept
  /\ lent' = [lent EXCEPT ![f] = FALSE]
  /\ UNCHANGED <<user, parts, scratch>>

\* Filter f gets an image in buffer b, or none.  The new image holds its buffer
\* before the old one is dropped, which remains if the reorder nodes share it.
Assign(f, b) ==
  /\ Becomes(LetGo(Hold(Heap, b, 1), IF lent[f] THEN Nothing ELSE image[f]))
  /\ image' = [image EXCEPT ![f] = b]
  /\ kept' = IF lent[f] THEN [kept EXCEPT ![f] = image[f]] ELSE kept
  /\ lent' = [lent EXCEPT ![f] = FALSE]
  /\ UNCHANGED <<user, parts, scratch>>

\* An image without pixels counts as none.
SetImage(t) ==
  /\ In(t, "setImage")
  /\ \E b \in {arg[t], Nothing} : Assign(obj[t], b)
  /\ Outdate(obj[t], FALSE)
  /\ Goto(t, "out")
  /\ UNCHANGED <<mutex, calls, device, seen>>

\* Mutant: the parameter is not cleared.
RemoveImage_Stays(t) ==
  /\ In(t, "removeImage")
  /\ Becomes(LetGo(Heap, IF lent[obj[t]] THEN Nothing ELSE image[obj[t]]))
  /\ Outdate(obj[t], image[obj[t]] # Nothing)
  /\ Goto(t, "out")
  /\ UNCHANGED <<image, user, network, mutex, calls, device, seen>>

RemoveImage(t) ==
  /\ In(t, "removeImage")
  /\ Assign(obj[t], Nothing)
  /\ Outdate(obj[t], image[obj[t]] # Nothing)
  /\ Goto(t, "out")
  /\ UNCHANGED <<mutex, calls, device, seen>>

\* Any other parameter of the filter.  Setting the weights can even make it forget
\* that it needs a new network.
SetParam(t) ==
  /\ In(t, "setParam")
  /\ \E d \in {"commit", "init"} : due' = [due EXCEPT ![obj[t]] = d]
  /\ Goto(t, "out")
  /\ UNCHANGED <<live, rc, user, image, network, mutex, calls, device, seen>>

\* A commit that has no network to make.
CommitFilter(t) ==
  /\ In(t, "commitFilter") /\ due[obj[t]] # "init"
  /\ due' = [due EXCEPT ![obj[t]] = "nothing"]
  /\ Goto(t, "out")
  /\ UNCHANGED <<live, rc, user, image, network, mutex, calls, device, seen>>

\* init(): the network is dropped before the parameters are checked, and whatever
\* of the new one has been made stays if it throws.  There is no scratch memory if
\* the image is empty or memory runs out.
Rebuild(t) ==
  /\ In(t, "commitFilter") /\ due[obj[t]] # "nothing"
  /\ \E p \in SUBSET Parts, s \in BOOLEAN, end \in {"out", "raise"} :
       /\ s \/ end = "out" => p # {}
       /\ Becomes(Hold(Clear(Heap, obj[t]), Device, NetRefs(obj[t], p, s)))
       /\ parts' = [parts EXCEPT ![obj[t]] = p]
       /\ scratch' = [scratch EXCEPT ![obj[t]] = s]
       /\ due' = [due EXCEPT ![obj[t]] = IF end = "out" THEN "nothing" ELSE "init"]
       /\ Goto(t, end)
  /\ kept' = [kept EXCEPT ![obj[t]] = Nothing]
  /\ lent' = [lent EXCEPT ![obj[t]] = FALSE]
  /\ UNCHANGED <<user, image, mutex, calls, device, seen>>

\* Mutant: the reorder nodes do not drop the image they had.
Execute_Leaks(t) ==
  /\ In(t, "execute") /\ due[obj[t]] = "nothing" /\ scratch[obj[t]]
  /\ kept' = [kept EXCEPT ![obj[t]] = Nothing]
  /\ \E l \in {image[obj[t]] # Nothing, FALSE} : lent' = [lent EXCEPT ![obj[t]] = l]
  /\ \E end \in {"out", "raise"} : Goto(t, end)
  /\ UNCHANGED <<live, rc, user, image, parts, scratch, due, mutex, calls, device, seen>>

\* The reorder nodes get the filter's Image object, unless it is the output of
\* in-place filtering in tiles, and drop the one they had; what follows may throw.
Execute(t) ==
  /\ In(t, "execute") /\ due[obj[t]] = "nothing" /\ scratch[obj[t]]
  /\ Becomes(LetGo(Heap, kept[obj[t]]))
  /\ kept' = [kept EXCEPT ![obj[t]] = Nothing]
  /\ \E l \in {image[obj[t]] # Nothing, FALSE} : lent' = [lent EXCEPT ![obj[t]] = l]
  /\ \E end \in {"out", "raise"} : Goto(t, end)
  /\ UNCHANGED <<user, image, parts, scratch, due, mutex, calls, device, seen>>

\* An empty image: there is nothing to do.
ExecuteNothing(t) ==
  /\ In(t, "execute") /\ due[obj[t]] = "nothing" /\ ~scratch[obj[t]]
  /\ Goto(t, "out")
  /\ UNCHANGED <<objects, mutex, calls, device, seen>>

\* The image is not within its buffer, or the filter is not committed.
FilterFails(t) ==
  /\ In(t, "setImage") \/ (In(t, "execute") /\ due[obj[t]] # "nothing")
  /\ Raise(t)

\* retainObject.
Retain(t, o) ==
  /\ Idle(t) /\ user[o] \in 1..(MaxHandles[o] - 1)
  /\ rc' = [rc EXCEPT ![o] = @ + 1]
  /\ user' = [user EXCEPT ![o] = @ + 1]
  /\ UNCHANGED <<live, image, network, due, mutex, calls, at, device, seen>>

\* No thread is in a call with a handle to o.
Unused(o) == \A t \in Threads : ~Idle(t) => obj[t] # o /\ arg[t] # o

\* The user may give up a handle: the last one only when it is not in use.
MayRelease(o) ==
  /\ user[o] > 0
  /\ user[o] = 1 => Unused(o)
  /\ DeviceLast /\ o = Device /\ user[o] = 1 =>
       /\ \A t \in Threads : Idle(t)
       /\ \A x \in Objects \ {Device} : user[x] = 0

\* releaseObject, up to the count that is still positive or the wait for the
\* mutex.  The device is deleted at once.
Release(t, o) ==
  /\ Idle(t) /\ MayRelease(o)
  /\ rc' = [rc EXCEPT ![o] = @ - 1]
  /\ user' = [user EXCEPT ![o] = @ - 1]
  /\ \/ /\ rc[o] > 1
        /\ UNCHANGED <<live, calls, at>>
     \/ /\ rc[o] = 1 /\ o = Device
        /\ live' = live \ {o}
        /\ UNCHANGED <<calls, at>>
     \/ /\ rc[o] = 1 /\ o # Device
        /\ op' = [op EXCEPT ![t] = "destroy"]
        /\ obj' = [obj EXCEPT ![t] = o]
        /\ arg' = [arg EXCEPT ![t] = Nothing]
        /\ Goto(t, "wait")
        /\ UNCHANGED live
  /\ UNCHANGED <<image, network, due, mutex, device, seen>>

\* Mutant: the nodes of a filter that is deleted stay behind with their image.
DestroyFilter_KeepsNodes(t) ==
  /\ In(t, "destroy") /\ obj[t] \in Filters
  /\ Becomes(Delete(LetGo(LetGoDevice(Heap, NetRefs(obj[t], parts[obj[t]], scratch[obj[t]])),
                          image[obj[t]]), obj[t]))
  /\ image' = [image EXCEPT ![obj[t]] = Nothing]
  /\ kept' = [kept EXCEPT ![obj[t]] = Nothing]
  /\ lent' = [lent EXCEPT ![obj[t]] = FALSE]
  /\ parts' = [parts EXCEPT ![obj[t]] = {}]
  /\ scratch' = [scratch EXCEPT ![obj[t]] = FALSE]
  /\ due' = [due EXCEPT ![obj[t]] = "init"]
  /\ Goto(t, "out")
  /\ UNCHANGED <<user, mutex, calls, device, seen>>

\* destroy() of a filter under the mutex: with its network, its nodes, the images
\* they have and its own go, at last its reference to the device.
DestroyFilter(t) ==
  /\ In(t, "destroy") /\ obj[t] \in Filters
  /\ Becomes(Delete(LetGo(Clear(Heap, obj[t]), image[obj[t]]), obj[t]))
  /\ image' = [image EXCEPT ![obj[t]] = Nothing]
  /\ kept' = [kept EXCEPT ![obj[t]] = Nothing]
  /\ lent' = [lent EXCEPT ![obj[t]] = FALSE]
  /\ parts' = [parts EXCEPT ![obj[t]] = {}]
  /\ scratch' = [scratch EXCEPT ![obj[t]] = FALSE]
  /\ due' = [due EXCEPT ![obj[t]] = "init"]
  /\ Goto(t, "out")
  /\ UNCHANGED <<user, mutex, calls, device, seen>>

DestroyBuffer(t) ==
  /\ In(t, "destroy") /\ obj[t] \in Buffers
  /\ Becomes(Delete(Heap, obj[t]))
  /\ Goto(t, "out")
  /\ UNCHANGED <<user, image, network, due, mutex, calls, device, seen>>

\* Mutant: the error is reported with the mutex still held.
Unlock_NotOnError(t) ==
  /\ \/ at[t] = "out" /\ Return(t) /\ mutex' = Nothing
     \/ at[t] = "raise" /\ Goto(t, "failed") /\ UNCHANGED <<mutex, calls, seen>>
  /\ UNCHANGED <<objects, device>>

\* The lock_guard goes out of scope, on an exception before the handler runs.
Unlock(t) ==
  /\ \/ at[t] = "out" /\ Return(t)
     \/ at[t] = "raise" /\ Goto(t, "failed") /\ UNCHANGED <<calls, seen>>
  /\ mutex' = Nothing
  /\ UNCHANGED <<objects, device>>

\* Mutant: the function and its pointer are read without the mutex.
LookUp_Unlocked(t) ==
  /\ at[t] = "failed"
  /\ seen' = [seen EXCEPT ![t] = <<errorFunc, errorUserPtr>>]
  /\ Goto(t, "report")
  /\ UNCHANGED <<objects, mutex, calls, device>>

\* setError reads both under the mutex.
LookUp(t) ==
  /\ at[t] = "failed" /\ mutex = Nothing
  /\ seen' = [seen EXCEPT ![t] = <<errorFunc, errorUserPtr>>]
  /\ Goto(t, "report")
  /\ UNCHANGED <<objects, mutex, calls, device>>

\* The error function, if there is one, is called without the mutex.
Report(t) ==
  /\ at[t] = "report"
  /\ Return(t)
  /\ UNCHANGED <<objects, mutex, device>>

Body(t) ==
  \/ NewObject(t) \/ NewFails(t) \/ Set1i(t) \/ Commit(t) \/ CommitFails(t)
  \/ SetErrorFunc(t) \/ SetErrorUserPtr(t) \/ SetImage(t) \/ RemoveImage(t) \/ SetParam(t)
  \/ CommitFilter(t) \/ Rebuild(t) \/ Execute(t) \/ ExecuteNothing(t) \/ FilterFails(t)
  \/ DestroyFilter(t) \/ DestroyBuffer(t)

\* What a thread does once it is in a call.
Step(t) == Lock(t) \/ Body(t) \/ Unlock(t) \/ LookUp(t) \/ Report(t)

Next ==
  \E t \in Threads :
    \/ Call(t) \/ Step(t)
    \/ \E o \in Objects : Retain(t, o) \/ Release(t, o)

\* A thread that is in a call goes on.
Spec == Init /\ [][Next]_vars /\ \A t \in Threads : WF_vars(Step(t))
-------------------------------------------------------------------------------
\* Whatever a thread in a call still uses exists: the device, whose mutex it waits
\* for or holds, the object of the call and its argument; and the buffers of a
\* filter's image and of the one its nodes still have exist as long as the filter
\* (oidn/README.md:297-300 and 309: reference counts, thread-safe calls).
AliveInUse ==
  /\ \A t \in Threads :
       /\ ~Idle(t) => Device \in live
       /\ at[t] \in {"wait", "in", "half"} => {obj[t], arg[t]} \cap Objects \subseteq live
  /\ \A f \in Filters \cap live : {image[f], kept[f]} \ {Nothing} \subseteq live

\* Reference counts are exact: the user's handles, the images of filters and those
\* their nodes have kept, and for the device every other object, every part of a
\* network and the scratch memory, whatever threads do at the same time
\* (ref.h:10-47).
CountsExact ==
  /\ \A f \in Filters : rc[f] = user[f]
  /\ \A b \in Buffers : rc[b] = user[b] + Cardinality({f \in Filters : image[f] = b})
                                       + Cardinality({f \in Filters : kept[f] = b})
  /\ rc[Device] = user[Device] + Cardinality(live \ {Device})
                   + Cardinality({x \in Filters \X Parts : x[2] \in parts[x[1]]})
                   + (IF \E f \in Filters : scratch[f] THEN 1 ELSE 0)

\* An object that nobody needs is gone or being deleted: a buffer stays only as long
\* as the user or a filter has it, for its parameter or for nodes that have kept an
\* image that was replaced or removed; and when the user has given up all handles
\* and no call is in progress nothing is left (oidn/README.md:490-493).
NothingLeaks ==
  /\ \A o \in live \ {Device} :
       \/ user[o] > 0
       \/ \E f \in Filters \cap live : o \in {image[f], kept[f]}
       \/ \E t \in Threads : op[t] = "destroy" /\ obj[t] = o
  /\ (\A o \in Objects : user[o] = 0) /\ (\A t \in Threads : Idle(t)) => live = {}

\* The error function is called with the pointer it was registered with
\* (device.cpp:48-59; oidn/README.md:535-537).
CallbackPaired == \A t \in Threads : at[t] = "report" => seen[t][1] = seen[t][2]

\* No thread keeps the mutex for ever, in particular none waits for itself: the
\* error path takes the mutex a second time (device.cpp:53).
LockReleased == \A t \in Threads : []<>(mutex # t)
===============================================================================
