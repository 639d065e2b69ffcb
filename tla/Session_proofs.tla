---------------------------- MODULE Session_proofs -----------------------------
(***************************************************************************)
(* Proofs about the calls of any number of threads, with any number of     *)
(* workers, slots, cores, filters and error codes: every thread gets back  *)
(* its affinity and finds its own first error, and together the calls use  *)
(* the scratch memory as one thread alone would.  For the affinities,      *)
(* reading and resetting one may not fail; pinning a thread may.           *)
(***************************************************************************)
EXTENDS Session, ScratchMemory_proofs

\* The threads whose affinity the device answers for.
Kept(t) == t \in Apps \/ observing

\* A slot belongs to one thread, from before it is told of until after.
Slotted ==
  /\ \A t \in Threads : place[t] = "outside" <=> slot[t] = NoSlot
  /\ \A t, u \in Threads : t # u /\ slot[t] # NoSlot => slot[t] # slot[u]

\* Reading and resetting affinities does not fail.
Reliable == Failing \subseteq {"set"}

\* The affinity of a thread is where it was, or saved for its slot.
Affine ==
  Reliable =>
    \A t \in Threads :
      Kept(t) =>
        IF place[t] = "inside" /\ slot[t] < NumAffinities THEN saved[slot[t]] = t
                                                         ELSE mask[t] = t

\* A thread between calls is outside of the arena, and there are no calls without a device.
AtRest ==
  /\ \A t \in Apps : step[t] \in {"idle", "failed", "stored"} => place[t] = "outside"
  /\ ~observing => \A t \in Apps : step[t] = "idle"

CallTypeOK ==
  /\ ContextTypeOK
  /\ step \in [Apps -> Steps]
  /\ thrown \in [Apps -> Codes \cup {NoError}]
  /\ failures \in [Apps -> Seq(Codes)]

First(s) == IF s = <<>> THEN NoError ELSE Head(s)

\* The stored code is that of the first failure, not counting one that is on its way.
Stored(t) ==
  IF thrown[t] = NoError THEN error[t] = First(failures[t])
  ELSE \E s \in Seq(Codes) : failures[t] = Append(s, thrown[t]) /\ error[t] = First(s)

Erring ==
  \A t \in Apps :
    /\ Stored(t)
    /\ step[t] \notin {"ended", "failed"} => thrown[t] = NoError
    /\ step[t] = "failed" => thrown[t] # NoError

Inv == CallTypeOK /\ Slotted /\ Affine /\ AtRest /\ Erring
-------------------------------------------------------------------------------
LEMMA FirstAppended ==
  ASSUME NEW s \in Seq(Codes), NEW c \in Codes
  PROVE  First(Append(s, c)) = IF First(s) = NoError THEN c ELSE First(s)
<1>1. CASE s = <<>>
  BY <1>1 DEF First
<1>2. CASE s # <<>>
  <2>1. Head(Append(s, c)) = Head(s) /\ Head(s) \in Codes
    BY <1>2
  <2>. QED BY <1>2, <2>1, ContextAssumption DEF First
<1>. QED BY <1>1, <1>2

\* The steps of a thread that change where it is and where it may run.
Moves(t) == (\E s \in Slots : OccupySlot(t, s)) \/ Enter(t) \/ Leave(t) \/ FreeSlot(t)

LEMMA SetType ==
  ASSUME ContextTypeOK, NEW t \in Threads, slot[t] \in Slots, Set(t, slot[t])
  PROVE  /\ mask' \in [Threads -> Masks] /\ saved' \in [Slots -> Masks]
         /\ \A u \in Threads \ {t} : mask'[u] = mask[u]
         /\ \A s \in Slots \ {slot[t]} : saved'[s] = saved[s]
<1>1. slot[t] \in Int /\ Core(slot[t]) \in Masks
  BY DEF Slots, Core, Masks
<1>2. mask' = mask \/ mask' = [mask EXCEPT ![t] = Core(slot[t])]
  BY DEF Set
<1>3. \/ saved' = saved \/ saved' = [saved EXCEPT ![slot[t]] = mask[t]]
      \/ saved' = [saved EXCEPT ![slot[t]] = Core(slot[t])]
  BY DEF Set
<1>4. mask' \in [Threads -> Masks] /\ \A u \in Threads \ {t} : mask'[u] = mask[u]
  BY <1>1, <1>2 DEF ContextTypeOK
<1>5. saved' \in [Slots -> Masks] /\ \A s \in Slots \ {slot[t]} : saved'[s] = saved[s]
  BY <1>1, <1>3 DEF ContextTypeOK
<1>. QED BY <1>4, <1>5

LEMMA SetReliable ==
  ASSUME ContextTypeOK, NEW t \in Threads, slot[t] \in Slots, Set(t, slot[t]), Reliable
  PROVE  IF slot[t] < NumAffinities THEN saved'[slot[t]] = mask[t] ELSE UNCHANGED mask
<1>1. slot[t] \in Int /\ NumAffinities \in Int
  BY ContextAssumption DEF Slots
<1>. QED BY <1>1 DEF Set, Reliable, ContextTypeOK

\* Where a move leaves the other threads.
LEMMA MovesOne ==
  ASSUME ContextTypeOK, NEW t \in Threads, Moves(t)
  PROVE  UNCHANGED <<observing, error>> /\ \A u \in Threads \ {t} : place'[u] = place[u]
<1>1. UNCHANGED <<observing, error>>
  BY DEF Moves, OccupySlot, Enter, Leave, FreeSlot
<1>2. \E p : place' = [place EXCEPT ![t] = p]
  BY DEF Moves, OccupySlot, Enter, Leave, FreeSlot, Move
<1>. QED BY <1>1, <1>2 DEF ContextTypeOK

LEMMA MovesKeep ==
  ASSUME CallTypeOK, Slotted, Affine, NEW t \in Threads, Moves(t),
         Kept(t) => observing
  PROVE  ContextTypeOK' /\ Slotted' /\ Affine'
<1>0. /\ place[t] # "outside" => slot[t] \in Slots
      /\ NoSlot \notin Slots
  BY ContextAssumption DEF CallTypeOK, ContextTypeOK, Slotted
<1>1. ASSUME NEW s \in Slots, OccupySlot(t, s) PROVE ContextTypeOK' /\ Slotted' /\ Affine'
  <2>1. ContextTypeOK'
    BY <1>1 DEF OccupySlot, Move, CallTypeOK, ContextTypeOK
  <2>2. Slotted'
    BY <1>0, <1>1 DEF OccupySlot, Move, CallTypeOK, ContextTypeOK, Slotted
  <2>3. Affine'
    BY <1>1 DEF OccupySlot, Move, CallTypeOK, ContextTypeOK, Affine, Kept
  <2>. QED BY <2>1, <2>2, <2>3
<1>2. ASSUME Enter(t) PROVE ContextTypeOK' /\ Slotted' /\ Affine'
  <2>1. /\ place[t] = "arriving" /\ slot[t] \in Slots
        /\ place' = [place EXCEPT ![t] = "inside"]
        /\ UNCHANGED <<slot, observing, error>>
    BY <1>0, <1>2 DEF Enter, Move
  <2>2. CASE observing
    <3>1. Set(t, slot[t])
      BY <1>2, <2>2 DEF Enter
    <3>2. ContextTypeOK
      BY DEF CallTypeOK
    <3>3. /\ mask' \in [Threads -> Masks] /\ saved' \in [Slots -> Masks]
          /\ \A u \in Threads \ {t} : mask'[u] = mask[u]
          /\ \A s \in Slots \ {slot[t]} : saved'[s] = saved[s]
      BY <2>1, <3>1, <3>2, SetType
    <3>4. ContextTypeOK'
      BY <2>1, <3>2, <3>3 DEF ContextTypeOK
    <3>5. Slotted'
      BY <2>1, <3>2 DEF Slotted, ContextTypeOK
    <3>6. ASSUME NEW u \in Threads, Kept(u), Reliable
          PROVE  IF place'[u] = "inside" /\ slot[u] < NumAffinities
                 THEN saved'[slot[u]] = u ELSE mask'[u] = u
      <4>1. slot[t] \in Int /\ NumAffinities \in Int
        BY <2>1, ContextAssumption DEF Slots
      <4>2. CASE u = t
        <5>1. mask[t] = t
          BY <2>1, <3>6, <4>2 DEF Affine
        <5>2. IF slot[t] < NumAffinities THEN saved'[slot[t]] = mask[t] ELSE UNCHANGED mask
          BY <2>1, <3>1, <3>2, <3>6, SetReliable
        <5>. QED BY <2>1, <3>2, <4>1, <4>2, <5>1, <5>2 DEF ContextTypeOK
      <4>3. CASE u # t
        <5>1. place'[u] = place[u] /\ mask'[u] = mask[u]
          BY <2>1, <3>2, <3>3, <4>3 DEF ContextTypeOK
        <5>2. CASE place[u] = "inside"
          <6>1. slot[u] \in Slots /\ slot[u] # slot[t]
            BY <2>1, <3>2, <4>3, <5>2 DEF Slotted, ContextTypeOK
          <6>2. saved'[slot[u]] = saved[slot[u]]
            BY <3>3, <6>1
          <6>. QED BY <3>6, <5>1, <6>2 DEF Affine
        <5>. QED BY <3>6, <5>1, <5>2 DEF Affine
      <4>. QED BY <4>2, <4>3
    <3>7. Affine'
      BY <2>1, <3>6 DEF Affine, Kept
    <3>. QED BY <3>4, <3>5, <3>7
  <2>3. CASE ~observing
    <3>1. UNCHANGED <<saved, mask>> /\ ~Kept(t)
      BY <1>2, <2>3 DEF Enter
    <3>2. ContextTypeOK'
      BY <2>1, <3>1 DEF CallTypeOK, ContextTypeOK
    <3>3. Slotted'
      BY <2>1 DEF Slotted, CallTypeOK, ContextTypeOK
    <3>4. Affine'
      BY <2>1, <3>1 DEF Affine, Kept, CallTypeOK, ContextTypeOK
    <3>. QED BY <3>2, <3>3, <3>4
  <2>. QED BY <2>2, <2>3
<1>3. ASSUME Leave(t) PROVE ContextTypeOK' /\ Slotted' /\ Affine'
  <2>1. /\ place[t] = "inside" /\ slot[t] \in Slots
        /\ place' = [place EXCEPT ![t] = "leaving"]
        /\ UNCHANGED <<slot, saved, observing, error>>
    BY <1>0, <1>3 DEF Leave, Move
  <2>2. slot[t] \in Int /\ NumAffinities \in Int
    BY <2>1, ContextAssumption DEF Slots
  <2>3. UNCHANGED mask \/ mask' = [mask EXCEPT ![t] = saved[slot[t]]]
    BY <1>3 DEF Leave, Restore
  <2>8. Reliable =>
          IF observing /\ slot[t] < NumAffinities THEN mask' = [mask EXCEPT ![t] = saved[slot[t]]]
                                                  ELSE UNCHANGED mask
    BY <1>3, <2>1, <2>2 DEF Leave, Restore, Reliable
  <2>4. ContextTypeOK'
    BY <2>1, <2>3 DEF CallTypeOK, ContextTypeOK
  <2>5. Slotted'
    BY <2>1 DEF Slotted, CallTypeOK, ContextTypeOK
  <2>6. ASSUME NEW u \in Threads, Kept(u), Reliable
        PROVE  IF place'[u] = "inside" /\ slot[u] < NumAffinities
               THEN saved[slot[u]] = u ELSE mask'[u] = u
    <3>1. CASE u = t
      BY <2>1, <2>6, <2>8, <3>1 DEF Affine, CallTypeOK, ContextTypeOK
    <3>2. CASE u # t
      <4>1. place'[u] = place[u] /\ mask'[u] = mask[u]
        BY <2>1, <2>3, <3>2 DEF CallTypeOK, ContextTypeOK
      <4>. QED BY <2>6, <4>1 DEF Affine
    <3>. QED BY <3>1, <3>2
  <2>7. Affine'
    BY <2>1, <2>6 DEF Affine, Kept
  <2>. QED BY <2>4, <2>5, <2>7
<1>4. ASSUME FreeSlot(t) PROVE ContextTypeOK' /\ Slotted' /\ Affine'
  <2>1. ContextTypeOK'
    BY <1>4 DEF FreeSlot, Move, CallTypeOK, ContextTypeOK
  <2>2. Slotted'
    BY <1>4 DEF FreeSlot, Move, CallTypeOK, ContextTypeOK, Slotted
  <2>3. Affine'
    BY <1>4 DEF FreeSlot, Move, CallTypeOK, ContextTypeOK, Affine, Kept
  <2>. QED BY <2>1, <2>2, <2>3
<1>. QED BY <1>1, <1>2, <1>3, <1>4 DEF Moves

\* The context of all threads after a step that moves none of them.
LEMMA QuietKeeps ==
  ASSUME CallTypeOK, Slotted, Affine,
         UNCHANGED <<place, slot, mask, saved>>, observing' \in BOOLEAN,
         observing' => observing, error' \in [Threads -> Codes \cup {NoError}]
  PROVE  ContextTypeOK' /\ Slotted' /\ Affine'
<1>1. ContextTypeOK'
  BY DEF CallTypeOK, ContextTypeOK
<1>2. Slotted'
  BY DEF Slotted
<1>3. Affine'
  BY DEF Affine, Kept
<1>. QED BY <1>1, <1>2, <1>3

\* What a step of thread t leaves alone of the other threads of the application.
Others(t) ==
  \A u \in Apps \ {t} :
    /\ step'[u] = step[u] /\ thrown'[u] = thrown[u]
    /\ failures'[u] = failures[u] /\ error'[u] = error[u]
    /\ place'[u] = place[u]

LEMMA OneThread ==
  ASSUME AtRest, Erring, NEW t \in Apps, Others(t), observing',
         step'[t] \in {"idle", "failed", "stored"} => place'[t] = "outside",
         Stored(t)',
         step'[t] \notin {"ended", "failed"} => thrown'[t] = NoError,
         step'[t] = "failed" => thrown'[t] # NoError
  PROVE  AtRest' /\ Erring'
<1>1. AtRest'
  BY DEF AtRest, Others
<1>2. ASSUME NEW u \in Apps PROVE Stored(u)'
  BY <1>2 DEF Erring, Stored, Others
<1>3. Erring'
  BY <1>2 DEF Erring, Others
<1>. QED BY <1>1, <1>3

\* A step of t that neither throws, nor stores an error, nor asks for one.
LEMMA PlainStep ==
  ASSUME CallTypeOK, AtRest, Erring, NEW t \in Apps, NEW s \in Steps,
         step' = [step EXCEPT ![t] = s], UNCHANGED <<thrown, failures, error>>,
         observing', \A u \in Apps \ {t} : place'[u] = place[u],
         s \in {"idle", "failed", "stored"} => place'[t] = "outside",
         s \notin {"ended", "failed"} => thrown[t] = NoError,
         s = "failed" => thrown[t] # NoError
  PROVE  AtRest' /\ Erring'
<1>1. Others(t) /\ step'[t] = s
  BY DEF Others, CallTypeOK
<1>2. Stored(t)'
  BY DEF Erring, Stored
<1>. QED BY <1>1, <1>2, OneThread

LEMMA ThrowStep ==
  ASSUME CallTypeOK, AtRest, Erring, NEW t \in Apps, NEW c \in Codes, Throw(t, c),
         step[t] \notin {"ended", "failed"}, UNCHANGED error, observing', UNCHANGED place
  PROVE  AtRest' /\ Erring' /\ thrown' \in [Apps -> Codes \cup {NoError}]
         /\ failures' \in [Apps -> Seq(Codes)] /\ step' \in [Apps -> Steps]
<1>1. /\ step' = [step EXCEPT ![t] = "ended"]
      /\ thrown' = [thrown EXCEPT ![t] = c]
      /\ failures' = [failures EXCEPT ![t] = Append(failures[t], c)]
  BY DEF Throw, Goto
<1>2. failures[t] \in Seq(Codes) /\ Append(failures[t], c) \in Seq(Codes) /\ "ended" \in Steps
  BY DEF CallTypeOK, Steps
<1>3. /\ thrown' \in [Apps -> Codes \cup {NoError}]
      /\ failures' \in [Apps -> Seq(Codes)] /\ step' \in [Apps -> Steps]
  BY <1>1, <1>2 DEF CallTypeOK
<1>4. Others(t) /\ step'[t] = "ended" /\ thrown'[t] = c /\ failures'[t] = Append(failures[t], c)
  BY <1>1 DEF CallTypeOK, Others
<1>5. Stored(t)'
  <2>1. error[t] = First(failures[t])
    BY DEF Erring, Stored
  <2>2. c # NoError
    BY ContextAssumption
  <2>. QED BY <1>2, <1>4, <2>1, <2>2 DEF Stored
<1>. QED BY <1>3, <1>4, <1>5, OneThread

\* A step of t that changes nothing of what is kept for threads.
LEMMA CallStep ==
  ASSUME Inv, NEW t \in Apps, NEW s \in Steps,
         step' = [step EXCEPT ![t] = s], UNCHANGED <<thrown, failures>>, UNCHANGED context,
         observing,
         s \in {"idle", "failed", "stored"} => place[t] = "outside",
         s \notin {"ended", "failed"} => thrown[t] = NoError,
         s = "failed" => thrown[t] # NoError
  PROVE  Inv'
<1>1. ContextTypeOK' /\ Slotted' /\ Affine'
  BY QuietKeeps DEF Inv, CallTypeOK, ContextTypeOK, context
<1>2. AtRest' /\ Erring'
  BY PlainStep DEF Inv, context
<1>3. CallTypeOK'
  BY <1>1 DEF Inv, CallTypeOK
<1>. QED BY <1>1, <1>2, <1>3 DEF Inv

LEMMA ThrowKeeps ==
  ASSUME Inv, NEW t \in Apps, NEW c \in Codes, Throw(t, c), UNCHANGED context, observing,
         step[t] \notin {"ended", "failed"}
  PROVE  Inv'
<1>1. ContextTypeOK' /\ Slotted' /\ Affine'
  BY QuietKeeps DEF Inv, CallTypeOK, ContextTypeOK, context
<1>2. /\ AtRest' /\ Erring' /\ thrown' \in [Apps -> Codes \cup {NoError}]
      /\ failures' \in [Apps -> Seq(Codes)] /\ step' \in [Apps -> Steps]
  BY ThrowStep DEF Inv, context
<1>3. CallTypeOK'
  BY <1>1, <1>2 DEF CallTypeOK
<1>. QED BY <1>1, <1>2, <1>3 DEF Inv

\* An application thread enters or leaves the arena.
LEMMA ArenaKeeps ==
  ASSUME Inv, NEW t \in Apps, Moves(t), observing,
         UNCHANGED <<call, failures>>, step[t] \notin {"idle", "failed", "stored"}
  PROVE  Inv'
<1>1. t \in Threads
  BY DEF Threads
<1>2. ContextTypeOK' /\ Slotted' /\ Affine'
  BY <1>1, MovesKeep DEF Inv
<1>3. /\ UNCHANGED <<observing, error>>
      /\ \A u \in Apps \ {t} : place'[u] = place[u]
  BY <1>1, MovesOne DEF Inv, CallTypeOK, Threads
<1>4. step[t] \in Steps /\ step' = [step EXCEPT ![t] = step[t]] /\ UNCHANGED <<thrown, failures>>
  BY DEF call, Inv, CallTypeOK
<1>5. /\ step[t] \notin {"ended", "failed"} => thrown[t] = NoError
      /\ step[t] = "failed" => thrown[t] # NoError
  BY DEF Inv, Erring
<1>6. AtRest' /\ Erring'
  BY <1>3, <1>4, <1>5, PlainStep DEF Inv
<1>7. CallTypeOK'
  BY <1>2, <1>4 DEF Inv, CallTypeOK
<1>. QED BY <1>2, <1>6, <1>7 DEF Inv

LEMMA AppKeeps ==
  ASSUME Inv, NEW t \in Apps, App(t)
  PROVE  Inv'
<1>0. /\ step[t] # "idle" => observing
      /\ step[t] \notin {"ended", "failed"} => thrown[t] = NoError
      /\ step[t] = "failed" => thrown[t] # NoError
      /\ t \in Threads
  BY DEF Inv, AtRest, Erring, Threads
<1>1. ASSUME NEW c \in Calls, NEW f \in Filters, BeginCall(t, c, f) PROVE Inv'
  <2>1. c \in Steps /\ c \notin {"idle", "failed", "stored", "ended"}
    BY DEF Calls, Steps
  <2>. QED BY <1>0, <1>1, <2>1, CallStep DEF BeginCall, Goto
<1>2. ASSUME EnterArena(t) PROVE Inv'
  <2>1. 0 \in Slots
    BY ContextAssumption DEF Slots
  <2>. QED BY <1>0, <1>2, <2>1, ArenaKeeps DEF EnterArena, Moves
<1>3. ASSUME End(t), UNCHANGED context, observing PROVE Inv'
  BY <1>0, <1>3, CallStep DEF End, Goto, Steps
<1>4. ASSUME CommitCheap(t) \/ CommitDone(t) \/ ExecuteDone(t) \/ ReleaseFilter(t) PROVE Inv'
  BY <1>0, <1>3, <1>4 DEF CommitCheap, CommitDone, ExecuteDone, ReleaseFilter
<1>5. ASSUME CleanUp(t) PROVE Inv'
  BY <1>0, <1>5, CallStep DEF CleanUp, Goto, Steps
<1>6. ASSUME AllocScratch(t) PROVE Inv'
  <2>1. CASE Goto(t, "built") /\ UNCHANGED <<mutex, target, thrown, failures>>
    BY <1>0, <1>6, <2>1, CallStep DEF AllocScratch, Goto, Steps
  <2>2. CASE Throw(t, "OutOfMemory")
    BY <1>0, <1>6, <2>2, SessionAssumption, ThrowKeeps DEF AllocScratch
  <2>. QED BY <1>6, <2>1, <2>2 DEF AllocScratch
<1>7. ASSUME AddTensor(t) PROVE Inv'
  <2>1. step[t] \in Steps /\ step' = [step EXCEPT ![t] = step[t]] /\ UNCHANGED <<thrown, failures>>
    BY <1>7 DEF AddTensor, call, Inv, CallTypeOK
  <2>. QED BY <1>0, <1>7, <2>1, CallStep DEF AddTensor
<1>8. ASSUME Fail(t) PROVE Inv'
  <2>1. PICK c \in Codes : Throw(t, c)
    BY <1>8 DEF Fail
  <2>. QED BY <1>0, <1>8, <2>1, ThrowKeeps DEF Fail
<1>9. ASSUME LeaveArena(t) PROVE Inv'
  BY <1>0, <1>9, ArenaKeeps DEF LeaveArena, Moves
<1>10. ASSUME Unlock(t) PROVE Inv'
  <2> DEFINE s == IF thrown[t] = NoError THEN "idle" ELSE "failed"
  <2>1. s \in Steps /\ step' = [step EXCEPT ![t] = s] /\ UNCHANGED <<thrown, failures>>
    BY <1>10 DEF Unlock, Goto, Steps
  <2>2. observing /\ place[t] = "outside" /\ UNCHANGED context
    BY <1>0, <1>10 DEF Unlock
  <2>. QED BY <2>1, <2>2, CallStep
<1>11. ASSUME Catch(t) PROVE Inv'
  <2>1. /\ step' = [step EXCEPT ![t] = "stored"]
        /\ thrown' = [thrown EXCEPT ![t] = NoError]
        /\ error' = [error EXCEPT ![t] = IF error[t] = NoError THEN thrown[t] ELSE error[t]]
        /\ UNCHANGED <<place, slot, mask, saved, observing, failures>>
        /\ step[t] = "failed" /\ thrown[t] # NoError /\ thrown[t] \in Codes
    BY <1>0, <1>11 DEF Catch, StoreError, Goto, Inv, CallTypeOK
  <2>2. error' \in [Threads -> Codes \cup {NoError}]
    BY <2>1 DEF Inv, CallTypeOK, ContextTypeOK
  <2>3. ContextTypeOK' /\ Slotted' /\ Affine'
    BY <2>1, <2>2, QuietKeeps DEF Inv, CallTypeOK, ContextTypeOK
  <2>4. CallTypeOK'
    BY <2>1, <2>3 DEF Inv, CallTypeOK, Steps
  <2>5. Others(t) /\ step'[t] = "stored" /\ thrown'[t] = NoError /\ place'[t] = "outside"
    BY <1>0, <2>1 DEF Others, Inv, CallTypeOK, ContextTypeOK, Threads, AtRest
  <2>6. Stored(t)'
    <3>1. PICK s \in Seq(Codes) : failures[t] = Append(s, thrown[t]) /\ error[t] = First(s)
      BY <2>1 DEF Inv, Erring, Stored
    <3>2. First(failures[t]) = IF First(s) = NoError THEN thrown[t] ELSE First(s)
      BY <2>1, <3>1, FirstAppended
    <3>3. error'[t] = IF error[t] = NoError THEN thrown[t] ELSE error[t]
      BY <1>0, <2>1 DEF Inv, CallTypeOK, ContextTypeOK
    <3>. QED BY <2>1, <2>5, <3>1, <3>2, <3>3 DEF Stored
  <2>7. observing'
    BY <1>0, <2>1
  <2>8. AtRest' /\ Erring'
    BY <2>5, <2>6, <2>7, OneThread DEF Inv
  <2>. QED BY <2>3, <2>4, <2>8 DEF Inv
<1>12. ASSUME LookUpFunction(t) PROVE Inv'
  <2>1. place[t] = "outside" /\ thrown[t] = NoError
    BY <1>0, <1>12 DEF LookUpFunction, Inv, AtRest
  <2>. QED BY <1>0, <1>12, <2>1, CallStep DEF LookUpFunction, Goto, Steps
<1>13. ASSUME GetError(t) PROVE Inv'
  <2>1. /\ error' = [error EXCEPT ![t] = NoError]
        /\ failures' = [failures EXCEPT ![t] = <<>>]
        /\ UNCHANGED <<place, slot, mask, saved, observing, step, thrown>>
        /\ step[t] = "idle" /\ observing
    BY <1>13 DEF GetError, TakeError, call
  <2>2. error' \in [Threads -> Codes \cup {NoError}]
    BY <2>1 DEF Inv, CallTypeOK, ContextTypeOK
  <2>3. ContextTypeOK' /\ Slotted' /\ Affine'
    BY <2>1, <2>2, QuietKeeps DEF Inv, CallTypeOK, ContextTypeOK
  <2>4. CallTypeOK'
    BY <2>1, <2>3 DEF Inv, CallTypeOK
  <2>5. Others(t) /\ thrown'[t] = NoError /\ failures'[t] = <<>> /\ error'[t] = NoError
    BY <1>0, <2>1 DEF Others, Inv, CallTypeOK, ContextTypeOK
  <2>6. Stored(t)'
    BY <2>5 DEF Stored, First
  <2>7. AtRest' /\ Erring'
    BY <1>0, <2>1, <2>5, <2>6, OneThread DEF Inv, AtRest
  <2>. QED BY <2>3, <2>4, <2>7 DEF Inv
<1>. QED BY <1>1, <1>2, <1>4, <1>5, <1>6, <1>7, <1>8, <1>9, <1>10, <1>11, <1>12, <1>13 DEF App

LEMMA DeviceKeeps ==
  ASSUME Inv, ReleaseDevice
  PROVE  Inv'
<1>1. /\ UNCHANGED <<place, slot, mask, saved, error, step, thrown, failures>>
      /\ observing' = FALSE /\ observing
      /\ \A t \in Apps : step[t] = "idle"
  BY DEF ReleaseDevice, ResetObserver, call
<1>2. ContextTypeOK' /\ Slotted' /\ Affine'
  BY <1>1, QuietKeeps DEF Inv, CallTypeOK, ContextTypeOK
<1>3. CallTypeOK'
  BY <1>1, <1>2 DEF Inv, CallTypeOK
<1>4. AtRest' /\ Erring'
  BY <1>1 DEF Inv, AtRest, Erring, Stored
<1>. QED BY <1>2, <1>3, <1>4 DEF Inv

LEMMA WorkerKeeps ==
  ASSUME Inv, NEW w \in Workers, Worker(w)
  PROVE  Inv'
<1>1. w \in Threads /\ w \notin Apps /\ Slots \ {0} \subseteq Slots
  BY ContextAssumption DEF Threads
<1>2. Moves(w) /\ UNCHANGED <<step, thrown, failures>>
  BY <1>1 DEF Worker, Moves, call
<1>3. ContextTypeOK' /\ Slotted' /\ Affine'
  BY <1>1, <1>2, MovesKeep DEF Inv, Kept
<1>4. /\ UNCHANGED <<observing, error>>
      /\ \A u \in Apps : place'[u] = place[u]
  BY <1>1, <1>2, MovesOne DEF Inv, CallTypeOK, Threads
<1>5. CallTypeOK'
  BY <1>2, <1>3 DEF Inv, CallTypeOK
<1>6. AtRest' /\ Erring'
  BY <1>2, <1>4 DEF Inv, AtRest, Erring, Stored
<1>. QED BY <1>3, <1>5, <1>6 DEF Inv

LEMMA InitInv == SessionInit => Inv
<1> SUFFICES ASSUME SessionInit PROVE Inv
  OBVIOUS
<1>1. CallTypeOK
  <2>1. saved \in [Slots -> Masks] /\ mask \in [Threads -> Masks]
    BY DEF SessionInit, ContextInit, Core, Slots, Masks
  <2>. QED BY <2>1 DEF SessionInit, ContextInit, CallTypeOK, ContextTypeOK, Steps
<1>2. Slotted /\ Affine
  BY DEF SessionInit, ContextInit, Slotted, Affine
<1>3. AtRest /\ Erring
  BY DEF SessionInit, ContextInit, AtRest, Erring, Stored, First, Threads
<1>. QED BY <1>1, <1>2, <1>3 DEF Inv

LEMMA NextInv == Inv /\ [SessionNext]_sessionVars => Inv'
<1> SUFFICES ASSUME Inv, [SessionNext]_sessionVars PROVE Inv'
  OBVIOUS
<1>1. CASE SessionNext
  BY <1>1, AppKeeps, DeviceKeeps, WorkerKeeps DEF SessionNext
<1>2. CASE UNCHANGED sessionVars
  <2>1. UNCHANGED <<place, slot, mask, saved, observing, error, step, thrown, failures>>
    BY <1>2 DEF sessionVars, context, call
  <2>. QED BY <2>1 DEF Inv, CallTypeOK, ContextTypeOK, Slotted, Affine, Kept, AtRest, Erring, Stored
<1>. QED BY <1>1, <1>2

LEMMA Invariant == SessionSpec => []Inv
BY InitInv, NextInv, PTL DEF SessionSpec
-------------------------------------------------------------------------------
\* If affinities can be read and reset, every thread that is not in the arena runs
\* where it ran before, for any number of threads that use a slot one after another
\* and calls that fail anywhere (tasking.cpp:29-39, thread.cpp:177-207).
THEOREM AffinityComesBack ==
  Reliable => (SessionSpec => []AffinityRestored)
<1> SUFFICES ASSUME Reliable PROVE SessionSpec => []AffinityRestored
  OBVIOUS
<1>1. Inv => AffinityRestored
  BY DEF Inv, Affine, Kept, AffinityRestored
<1>. QED BY <1>1, Invariant, PTL

\* However the calls of the threads interleave, a thread finds the code of the first
\* call of its own that failed since it last asked (device.cpp:31-90).
THEOREM OwnFirstError == SessionSpec => []FirstErrorKept
<1>1. Inv => FirstErrorKept
  BY DEF Inv, Erring, Stored, First, FirstErrorKept
<1>. QED BY <1>1, Invariant, PTL
-------------------------------------------------------------------------------
\* The thread that is anywhere between lock and unlock has the mutex, and until its
\* work is done a filter to work on.
OnFilter == Calls \cup {"cleaned", "built"}

Serial ==
  /\ mutex \in Apps \cup {Nobody} /\ target \in Filters \cup {Nobody}
  /\ \A t \in Apps : step[t] \in OnFilter \cup {"ended"} => mutex = t
  /\ \A t \in Apps : step[t] \in OnFilter => target \in Filters

LEMMA SerialStep ==
  ASSUME Inv, Serial, NEW t \in Apps, NEW s, step' = [step EXCEPT ![t] = s],
         mutex \in {t, Nobody} \/ UNCHANGED <<mutex, target>>,
         mutex' \in Apps \cup {Nobody}, target' \in Filters \cup {Nobody},
         s \in OnFilter \cup {"ended"} => mutex' = t,
         s \in OnFilter => target' \in Filters
  PROVE  Serial'
<1>1. \A u \in Apps : step'[u] = IF u = t THEN s ELSE step[u]
  BY DEF Inv, CallTypeOK
<1>2. t # Nobody /\ \A u \in Apps : u # Nobody
  BY SessionAssumption DEF Threads
<1>. QED BY <1>1, <1>2 DEF Serial

LEMMA EndSerial ==
  ASSUME Inv, Serial, NEW t \in Apps, step[t] \in OnFilter,
         Goto(t, "ended"), target' = Nobody, mutex' = mutex
  PROVE  Serial'
<1>1. mutex = t /\ "ended" \notin OnFilter
  BY DEF Serial, OnFilter, Calls
<1>. QED BY <1>1, SerialStep DEF Goto, Serial

LEMMA AppSerial == ASSUME Inv, Serial, NEW t \in Apps, App(t) PROVE Serial'
<1>0. /\ step[t] \in OnFilter \cup {"ended"} => mutex = t
      /\ mutex \in Apps \cup {Nobody} /\ target \in Filters \cup {Nobody}
      /\ step[t] \in OnFilter => target \in Filters
      /\ Calls \subseteq OnFilter
      /\ step = [step EXCEPT ![t] = step[t]]
  BY DEF Serial, OnFilter, Inv, CallTypeOK
<1>1. ASSUME NEW c \in Calls, NEW f \in Filters, BeginCall(t, c, f) PROVE Serial'
  BY <1>0, <1>1, SerialStep DEF BeginCall, Goto
<1>2. ASSUME UNCHANGED call PROVE Serial'
  BY <1>2 DEF call, Serial
<1>3. CASE EnterArena(t) \/ AddTensor(t) \/ LeaveArena(t) \/ GetError(t)
  BY <1>2, <1>3 DEF EnterArena, AddTensor, LeaveArena, GetError
<1>4. CASE CommitCheap(t) \/ CommitDone(t) \/ ExecuteDone(t) \/ ReleaseFilter(t)
  BY <1>4, EndSerial DEF CommitCheap, CommitDone, ExecuteDone, ReleaseFilter, End, OnFilter, Calls
<1>5. CASE CleanUp(t)
  <2>1. step[t] \in OnFilter /\ "cleaned" \in OnFilter
    BY <1>5 DEF CleanUp, OnFilter, Calls
  <2>. QED BY <1>0, <1>5, <2>1, SerialStep DEF CleanUp, Goto
<1>6. CASE AllocScratch(t)
  <2>1. step[t] \in OnFilter /\ "built" \in OnFilter
    BY <1>6 DEF AllocScratch, OnFilter, Calls
  <2>2. CASE Goto(t, "built") /\ UNCHANGED <<mutex, target, thrown, failures>>
    BY <1>0, <2>1, <2>2, SerialStep DEF Goto
  <2>3. CASE Throw(t, "OutOfMemory")
    BY <2>1, <2>3, EndSerial DEF Throw
  <2>. QED BY <1>6, <2>2, <2>3 DEF AllocScratch
<1>7. CASE Fail(t)
  <2>1. step[t] \in OnFilter
    BY <1>7 DEF Fail, OnFilter, Calls
  <2>. QED BY <1>7, <2>1, EndSerial DEF Fail, Throw
<1>8. CASE Unlock(t)
  <2>. DEFINE s == IF thrown[t] = NoError THEN "idle" ELSE "failed"
  <2>1. mutex = t /\ mutex' = Nobody /\ target' = target /\ step' = [step EXCEPT ![t] = s]
    BY <1>0, <1>8 DEF Unlock, Goto
  <2>2. s \notin OnFilter \cup {"ended"}
    BY DEF OnFilter, Calls
  <2>. HIDE DEF s
  <2>. QED BY <1>0, <2>1, <2>2, SerialStep
<1>9. CASE Catch(t) \/ LookUpFunction(t)
  <2>1. PICK s \in {"stored", "idle"} : step' = [step EXCEPT ![t] = s] /\ UNCHANGED <<mutex, target>>
    BY <1>9 DEF Catch, LookUpFunction, Goto
  <2>2. s \notin OnFilter \cup {"ended"}
    BY DEF OnFilter, Calls
  <2>. QED BY <1>0, <2>1, <2>2, SerialStep
<1>. QED BY <1>1, <1>3, <1>4, <1>5, <1>6, <1>7, <1>8, <1>9 DEF App

\* What a call does to the scratch memory is a step of it.
LEMMA AppScratch ==
  ASSUME Serial, NEW t \in Apps, App(t), fault = "none"
  PROVE  [Next]_vars
<1>0. step[t] \in OnFilter => target \in Filters
  BY DEF Serial
<1>1. ASSUME NEW f \in Filters, DropNetwork(f) PROVE [Next]_vars
  BY <1>1 DEF DropNetwork, Next
<1>2. CASE CleanUp(t) \/ ReleaseFilter(t)
  <2>1. target \in Filters /\ DropNetwork(target)
    BY <1>0, <1>2 DEF CleanUp, ReleaseFilter, OnFilter, Calls
  <2>. QED BY <1>1, <2>1
<1>3. CASE AllocScratch(t)
  <2>1. target \in Filters
    BY <1>0, <1>3 DEF AllocScratch, OnFilter
  <2>2. PICK n \in Sizes : AttachGrow(target, n) \/ AttachFits(target, n) \/ AttachFails(target, n)
    BY <1>3 DEF AllocScratch
  <2>. QED BY <2>1, <2>2 DEF Next
<1>4. CASE AddTensor(t)
  <2>1. target \in Filters
    BY <1>0, <1>4 DEF AddTensor, OnFilter
  <2>. QED BY <1>4, <2>1 DEF AddTensor, Next
<1>5. CASE UNCHANGED vars
  BY <1>5
<1>6. CASE \/ \E c \in Calls, f \in Filters : BeginCall(t, c, f)
           \/ EnterArena(t) \/ CommitCheap(t) \/ CommitDone(t) \/ ExecuteDone(t) \/ Fail(t)
           \/ LeaveArena(t) \/ Unlock(t) \/ Catch(t) \/ LookUpFunction(t) \/ GetError(t)
  BY <1>5, <1>6 DEF BeginCall, EnterArena, CommitCheap, CommitDone, ExecuteDone, Fail,
                    LeaveArena, Unlock, Catch, LookUpFunction, GetError
<1>. QED BY <1>2, <1>3, <1>4, <1>6 DEF App

LEMMA SerialInit == SessionInit => Serial /\ Init
BY DEF SessionInit, Serial, OnFilter, Calls

LEMMA SerialNext ==
  Inv /\ Serial /\ [SessionNext]_sessionVars => Serial' /\ [Next]_vars
<1>. SUFFICES ASSUME Inv, Serial, [SessionNext]_sessionVars PROVE Serial' /\ [Next]_vars
  OBVIOUS
<1>1. ASSUME NEW t \in Apps, App(t), fault = "none" PROVE Serial' /\ [Next]_vars
  BY <1>1, AppSerial, AppScratch
<1>2. CASE ReleaseDevice \/ (\E w \in Workers : Worker(w)) \/ UNCHANGED sessionVars
  <2>1. UNCHANGED vars /\ UNCHANGED call
    BY <1>2 DEF ReleaseDevice, Worker, sessionVars
  <2>. QED BY <2>1 DEF call, Serial
<1>. QED BY <1>1, <1>2 DEF SessionNext

LEMMA SerialAlways == SessionSpec => [](Inv /\ Serial)
<1>1. SessionInit => Inv /\ Serial
  BY InitInv, SerialInit
<1>2. Inv /\ Serial /\ [SessionNext]_sessionVars => (Inv /\ Serial)'
  BY NextInv, SerialNext
<1>. QED BY <1>1, <1>2, PTL DEF SessionSpec

\* However the threads interleave and whatever fails in their calls, what happens to
\* the scratch memory is what it does when it is used by one thread alone: the mutex
\* and the order of the steps in a call see to that (api.cpp:6-36, unet.cpp:86-111).
THEOREM SessionUsesScratch == SessionSpec => Spec
BY SerialAlways, SerialInit, SerialNext, PTL DEF SessionSpec, Spec

\* Hence the threads' calls keep the tensors of all committed filters in allocated
\* memory, and the buffer at the size that is needed (scratch.cpp:12-53).
THEOREM SessionMemory ==
  GrowsSafely /\ EnoughBlocks =>
    (SessionSpec => [](PointersValid /\ AsLargeAsNeeded /\ MemorySafe))
<1>. SUFFICES ASSUME GrowsSafely, EnoughBlocks
              PROVE  SessionSpec => [](PointersValid /\ AsLargeAsNeeded /\ MemorySafe)
  OBVIOUS
<1>. QED BY SessionUsesScratch, PointersAreValid, SizeIsNeeded, MemoryIsSafe, PTL

\* The variables of a session keep their types, in memory, threads and calls alike
\* (api.cpp, scratch.cpp, device.cpp).
THEOREM SessionTypes == GrowsSafely /\ EnoughBlocks => (SessionSpec => []SessionTypeOK)
<1>. SUFFICES ASSUME GrowsSafely, EnoughBlocks PROVE SessionSpec => []SessionTypeOK
  OBVIOUS
<1>1. Inv /\ Serial /\ TypeOK => SessionTypeOK
  BY DEF Inv, CallTypeOK, Serial, SessionTypeOK
<1>. QED BY <1>1, SerialAlways, SessionUsesScratch, MemoryIsSafe, PTL
===============================================================================
