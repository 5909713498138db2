---------------------------- MODULE TasksProofs -----------------------------
(***************************************************************************)
(* Theorems about Tasks, for every set of task ids and goroutines, any     *)
(* number of peers, failing accesses of the store and crashes.             *)
(***************************************************************************)
EXTENDS Tasks, TLAPS

-----------------------------------------------------------------------------
(***************************************************************************)
(* Types.                                                                  *)
(***************************************************************************)

\* The tables, the goroutines and their counters keep values of their kind.
LEMMA TypeStep == TypeOK /\ [Next]_vars => TypeOK'
<1> SUFFICES ASSUME TypeOK, [Next]_vars PROVE TypeOK'
  OBVIOUS
<1> USE SlotAssumption, TaskBounds DEF TypeOK, Labels, Goto, Exit, Fault, answers, local
<1>o. \A s \in Slots : Others(s) \subseteq Slots
  BY DEF Others
<1>1. ASSUME UNCHANGED kind, NEW s \in Slots, Worker(s) PROVE TypeOK'
  <2>t. /\ pc[s] # "idle" => id[s] \in Ids
        /\ \A i \in Ids : Known(i) => taskMap[i] \in Entry
    BY DEF Known
  <2>1. CASE PutTaskPendingPool(s)
    BY <1>1, <1>o, <2>1, <2>t DEF PutTaskPendingPool, DelTask, Overtake
  <2>2. CASE Dispatch(s) \/ Start(s)
    BY <1>1, <2>2, <2>t DEF Dispatch, Start
  <2>3. CASE TaskBeginSet(s)
    BY <1>1, <2>3, <2>t DEF TaskBeginSet, Entry, Known
  <2>4. CASE SyncTask(s) \/ BroadcastTxTask(s) \/ SyncManifestTask(s)
    BY <1>1, <2>4, <2>t DEF SyncTask, BroadcastTxTask, SyncManifestTask, Work
  <2>5. CASE BroadcastPeer(s) \/ SkipPeer(s) \/ AllPeersDone(s)
    BY <1>1, <2>5, <2>t DEF BroadcastPeer, SkipPeer, AllPeersDone
  <2>6. CASE CloseDone(s)
    BY <1>1, <2>6, <2>t DEF CloseDone, CloseTask, Entry
  <2>7. CASE SaveTask(s)
    BY <1>1, <2>7, <2>t DEF SaveTask
  <2>8. CASE Unregister(s) \/ DelPendingPoolTaskId(s)
    BY <1>1, <1>o, <2>8, <2>t DEF Unregister, DelPendingPoolTaskId, DelTask, Overtake
  <2>9. QED
    BY <1>1, <2>1, <2>2, <2>3, <2>4, <2>5, <2>6, <2>7, <2>8 DEF Worker
<1>2. ASSUME UNCHANGED kind, NEW s \in Slots, NEW i \in Ids, Register(s, i)
      PROVE  TypeOK'
  BY <1>2 DEF Register, AddTask, Entry
<1>3. ASSUME UNCHANGED kind, NEW i \in Ids,
             KillTask(i) \/ HalfAnHourPasses(i) \/ WatcherClose(i)
      PROVE  TypeOK'
  <2>1. Known(i) => taskMap[i] \in Entry
    BY DEF Known
  <2>2. CASE KillTask(i)
    BY <1>3, <2>1, <2>2 DEF KillTask, CloseTask, Entry
  <2>3. CASE HalfAnHourPasses(i)
    BY <1>3, <2>1, <2>3 DEF HalfAnHourPasses, Entry
  <2>4. CASE WatcherClose(i)
    BY <1>3, <2>1, <2>4 DEF WatcherClose, CloseTask, Entry
  <2>5. QED
    BY <1>3, <2>2, <2>3, <2>4
<1>4. CASE UNCHANGED kind /\ WatcherSnapshot
  BY <1>4 DEF WatcherSnapshot
<1>5. CASE UNCHANGED kind /\ Restart
  BY <1>5 DEF Restart, Entry
<1>6. CASE UNCHANGED vars
  BY <1>6 DEF vars
<1>7. QED
  BY <1>1, <1>2, <1>3, <1>4, <1>5, <1>6 DEF Next

\* Task table, pending pool and goroutines are type correct.
THEOREM TaskTypes == Spec => []TypeOK
<1>1. Init => TypeOK
  BY SlotAssumption, TaskBounds DEF Init, TypeOK, Labels, Kinds
<1>2. QED
  BY <1>1, TypeStep, PTL DEF Spec

-----------------------------------------------------------------------------
(***************************************************************************)
(* No pending task without a goroutine.  The invariant is inductive as it  *)
(* stands, given the types.                                                *)
(***************************************************************************)

\* A goroutine lets go of its task only by taking it out of the pool or by
\* failing at it; a crash lets go of all, and InitTaskMg takes them up again.
LEMMA OwnerStep ==
  TypeOK /\ PendingHasOwner /\ [Next]_vars => PendingHasOwner'
<1> SUFFICES ASSUME TypeOK, PendingHasOwner, [Next]_vars,
                    NEW i \in pool', i \notin stuck'
             PROVE  \E s \in Slots : Owns(s, i)'
  BY DEF PendingHasOwner
<1> USE DEF Owns, Goto, Exit, Fault, answers, local
<1>p. /\ pc \in [Slots -> Labels] /\ id \in [Slots -> Ids \cup {None}]
      /\ \A t \in Slots : pc[t] # "idle" => id[t] \in Ids
      /\ pool \subseteq Ids /\ None \notin Ids
  BY SlotAssumption DEF TypeOK
<1>1. ASSUME NEW s \in Slots, Worker(s) PROVE \E t \in Slots : Owns(t, i)'
  <2>1. CASE PutTaskPendingPool(s)
    <3>1. CASE i = id[s] /\ pc'[s] = "send"
      BY <2>1, <3>1, <1>p DEF PutTaskPendingPool
    <3>2. CASE ~(i = id[s] /\ pc'[s] = "send")
      <4>1. i \in pool /\ i \notin stuck
        BY <2>1, <3>2, <1>p DEF PutTaskPendingPool
      <4>2. PICK t \in Slots : Owns(t, i)
        BY <4>1 DEF PendingHasOwner
      <4>3. t # s
        BY <2>1, <4>2 DEF PutTaskPendingPool
      <4>4. QED
        BY <2>1, <4>2, <4>3, <1>p DEF PutTaskPendingPool
    <3>3. QED
      BY <3>1, <3>2
  <2>2. CASE Dispatch(s) \/ Start(s) \/ TaskBeginSet(s)
    <3>1. PICK t \in Slots : Owns(t, i)
      BY <2>2 DEF PendingHasOwner, Dispatch, Start, TaskBeginSet
    <3>2. QED
      BY <2>2, <3>1, <1>p DEF Dispatch, Start, TaskBeginSet
  <2>3. CASE SyncTask(s) \/ BroadcastTxTask(s) \/ SyncManifestTask(s)
    <3>1. PICK t \in Slots : Owns(t, i)
      BY <2>3 DEF PendingHasOwner, SyncTask, BroadcastTxTask, SyncManifestTask, Work
    <3>2. QED
      BY <2>3, <3>1, <1>p DEF SyncTask, BroadcastTxTask, SyncManifestTask, Work
  <2>4. CASE BroadcastPeer(s) \/ SkipPeer(s) \/ AllPeersDone(s) \/ CloseDone(s)
             \/ Unregister(s)
    <3>1. PICK t \in Slots : Owns(t, i)
      BY <2>4 DEF PendingHasOwner, BroadcastPeer, SkipPeer, AllPeersDone, CloseDone,
                  Unregister
    <3>2. QED
      BY <2>4, <3>1, <1>p
      DEF BroadcastPeer, SkipPeer, AllPeersDone, CloseDone, Unregister
  <2>5. CASE SaveTask(s)
    <3>1. PICK t \in Slots : Owns(t, i)
      BY <2>5 DEF PendingHasOwner, SaveTask
    <3>2. CASE t = s
      BY <2>5, <3>1, <3>2, <1>p DEF SaveTask
    <3>3. CASE t # s
      BY <2>5, <3>1, <3>3, <1>p DEF SaveTask
    <3>4. QED
      BY <3>2, <3>3
  <2>6. CASE DelPendingPoolTaskId(s)
    <3>1. PICK t \in Slots : Owns(t, i)
      BY <2>6 DEF PendingHasOwner, DelPendingPoolTaskId
    <3>2. t # s
      BY <2>6, <3>1, <1>p DEF DelPendingPoolTaskId
    <3>3. QED
      BY <2>6, <3>1, <3>2, <1>p DEF DelPendingPoolTaskId
  <2>7. QED
    BY <1>1, <2>1, <2>2, <2>3, <2>4, <2>5, <2>6 DEF Worker
<1>2. ASSUME NEW s \in Slots, NEW j \in Ids, Register(s, j)
      PROVE  \E t \in Slots : Owns(t, i)'
  <2>1. PICK t \in Slots : Owns(t, i)
    BY <1>2 DEF PendingHasOwner, Register
  <2>2. QED
    BY <1>2, <2>1, <1>p DEF Register
<1>3. ASSUME NEW j \in Ids, KillTask(j) \/ HalfAnHourPasses(j) \/ WatcherClose(j)
      PROVE  \E t \in Slots : Owns(t, i)'
  BY <1>3 DEF PendingHasOwner, KillTask, HalfAnHourPasses, WatcherClose
<1>4. CASE WatcherSnapshot
  BY <1>4 DEF PendingHasOwner, WatcherSnapshot
<1>5. CASE Restart
  <2>1. PICK senders \in [pool -> Slots] :
          /\ \A j, k \in pool : senders[j] = senders[k] => j = k
          /\ pc' = [s \in Slots |-> IF {j \in pool : senders[j] = s} = {}
                                    THEN "idle" ELSE "send"]
          /\ id' = [s \in Slots |-> IF {j \in pool : senders[j] = s} = {} THEN None
                                    ELSE CHOOSE j \in {k \in pool : senders[k] = s} : TRUE]
    BY <1>5 DEF Restart
  <2>2. i \in pool
    BY <1>5 DEF Restart
  <2> DEFINE s == senders[i]
  <2>3. {j \in pool : senders[j] = s} = {i}
    BY <2>1, <2>2
  <2>4. s \in Slots /\ pc'[s] = "send" /\ id'[s] = i
    BY <2>1, <2>2, <2>3
  <2>5. QED
    BY <2>4
<1>6. CASE UNCHANGED vars
  BY <1>6 DEF vars, PendingHasOwner
<1>7. QED
  BY <1>1, <1>2, <1>3, <1>4, <1>5, <1>6 DEF Next

\* Every id of the pending pool has a goroutine that is going to process it,
\* also after any crash, unless its bookkeeping failed since the last start.
THEOREM PendingAlwaysOwned == Spec => []PendingHasOwner
<1>1. Init => PendingHasOwner
  BY DEF Init, PendingHasOwner
<1>2. QED
  BY <1>1, OwnerStep, TaskTypes, PTL DEF Spec

-----------------------------------------------------------------------------
(***************************************************************************)
(* No accepted task is forgotten.                                          *)
(***************************************************************************)

\* Why an accepted task is kept: unless a registration of the same id failed,
\* a goroutine finds its task in the map or saved, past the pending pool it is
\* pending or saved, and past SaveTask it is saved.
KeptOnce == accepted \ refused \subseteq saved \cup pool
Kept ==
  \A s \in Slots : pc[s] # "idle" /\ id[s] \notin refused =>
    /\ Known(id[s]) \/ id[s] \in saved
    /\ pc[s] # "put" => id[s] \in pool \cup saved
    /\ pc[s] \in {"delTask", "delPool"} => id[s] \in saved

\* An entry stays one, and is never mistaken for a missing entry, when its
\* timestamp or its closed flag is set.
LEMMA EntrySet ==
  ASSUME NEW e \in Entry
  PROVE  /\ e # None
         /\ \A t \in {"zero", "young", "old"} : [e EXCEPT !.ts = t] \in Entry
         /\ [e EXCEPT !.close = TRUE] \in Entry
  BY SlotAssumption DEF Entry

\* CloseTask closes an entry and adds or removes none.
LEMMA CloseKeepsKnown ==
  ASSUME TypeOK, NEW i \in Ids, CloseTask(i)
  PROVE  \A j \in Ids : Known(j)' <=> Known(j)
<1>1. CASE Known(i)
  <2>1. taskMap[i] \in Entry
    BY <1>1 DEF TypeOK, Known
  <2>2. /\ taskMap'[i] = [taskMap[i] EXCEPT !.close = TRUE]
        /\ \A j \in Ids \ {i} : taskMap'[j] = taskMap[j]
    BY <1>1 DEF TypeOK, CloseTask
  <2>3. QED
    BY <2>1, <2>2, EntrySet DEF Known
<1>2. QED
  BY <1>1 DEF CloseTask, Known

\* Entries leave the map, and ids the pool, only when the task is saved.
LEMMA KeptStep ==
  TypeOK /\ Kept /\ KeptOnce /\ [Next]_vars => Kept' /\ KeptOnce'
<1> SUFFICES ASSUME TypeOK, Kept, KeptOnce, [Next]_vars
             PROVE  Kept' /\ KeptOnce'
  OBVIOUS
<1> USE DEF Kept, KeptOnce, Goto, Exit, Fault, Known, answers, local
<1>p. /\ pc \in [Slots -> Labels] /\ id \in [Slots -> Ids \cup {None}]
      /\ \A t \in Slots : pc[t] # "idle" => id[t] \in Ids
      /\ taskMap \in [Ids -> Entry \cup {None}]
      /\ pool \subseteq Ids /\ None \notin Ids
  BY SlotAssumption DEF TypeOK
<1>1. ASSUME NEW s \in Slots, Worker(s) PROVE Kept' /\ KeptOnce'
  <2>1. CASE PutTaskPendingPool(s)
    BY <2>1, <1>p DEF PutTaskPendingPool, DelTask
  <2>2. CASE Dispatch(s) \/ Start(s)
    BY <2>2, <1>p DEF Dispatch, Start
  <2>3. CASE TaskBeginSet(s)
    <3>1. CASE Known(id[s])
      <4>1. taskMap[id[s]] \in Entry /\ id[s] \in Ids
        BY <2>3, <3>1, <1>p DEF TaskBeginSet
      <4>2. /\ taskMap'[id[s]] = [taskMap[id[s]] EXCEPT !.ts = "young"]
            /\ \A j \in Ids \ {id[s]} : taskMap'[j] = taskMap[j]
        BY <2>3, <3>1, <4>1, <1>p DEF TaskBeginSet
      <4>3. \A j \in Ids : Known(j)' <=> Known(j)
        BY <4>1, <4>2, EntrySet
      <4>4. QED
        BY <2>3, <3>1, <4>3, <1>p DEF TaskBeginSet
    <3>2. CASE ~Known(id[s])
      BY <2>3, <3>2, <1>p DEF TaskBeginSet
    <3>3. QED
      BY <3>1, <3>2
  <2>4. CASE SyncTask(s) \/ BroadcastTxTask(s) \/ SyncManifestTask(s)
    BY <2>4, <1>p DEF SyncTask, BroadcastTxTask, SyncManifestTask, Work
  <2>5. CASE BroadcastPeer(s) \/ SkipPeer(s) \/ AllPeersDone(s)
    BY <2>5, <1>p DEF BroadcastPeer, SkipPeer, AllPeersDone
  <2>6. CASE CloseDone(s)
    <3>1. \A j \in Ids : Known(j)' <=> Known(j)
      BY <2>6, <1>p, CloseKeepsKnown DEF CloseDone
    <3>2. QED
      BY <2>6, <3>1, <1>p DEF CloseDone
  <2>7. CASE SaveTask(s)
    BY <2>7, <1>p DEF SaveTask
  <2>8. CASE Unregister(s)
    BY <2>8, <1>p DEF Unregister, DelTask
  <2>9. CASE DelPendingPoolTaskId(s)
    BY <2>9, <1>p DEF DelPendingPoolTaskId
  <2>10. QED
    BY <1>1, <2>1, <2>2, <2>3, <2>4, <2>5, <2>6, <2>7, <2>8, <2>9 DEF Worker
<1>2. ASSUME NEW s \in Slots, NEW i \in Ids, Register(s, i)
      PROVE  Kept' /\ KeptOnce'
  <2>1. [close |-> FALSE, ts |-> "zero"] # None
    BY EntrySet DEF Entry
  <2>2. Known(i)' /\ \A j \in Ids : Known(j) => Known(j)'
    BY <1>2, <2>1, <1>p DEF Register, AddTask
  <2>3. QED
    BY <1>2, <2>2, <1>p DEF Register
<1>3. ASSUME NEW i \in Ids, KillTask(i) \/ HalfAnHourPasses(i) \/ WatcherClose(i)
      PROVE  Kept' /\ KeptOnce'
  <2>1. CASE HalfAnHourPasses(i)
    <3>1. taskMap[i] \in Entry
      BY <2>1, <1>p DEF HalfAnHourPasses
    <3>2. /\ taskMap'[i] = [taskMap[i] EXCEPT !.ts = "old"]
          /\ \A j \in Ids \ {i} : taskMap'[j] = taskMap[j]
      BY <2>1, <3>1, <1>p DEF HalfAnHourPasses
    <3>3. \A j \in Ids : Known(j)' <=> Known(j)
      BY <3>1, <3>2, EntrySet
    <3>4. QED
      BY <2>1, <3>3, <1>p DEF HalfAnHourPasses
  <2>2. CASE KillTask(i) \/ WatcherClose(i)
    <3>1. \A j \in Ids : Known(j)' <=> Known(j)
      BY <2>2, CloseKeepsKnown DEF KillTask, WatcherClose
    <3>2. QED
      BY <2>2, <3>1, <1>p DEF KillTask, WatcherClose
  <2>3. QED
    BY <1>3, <2>1, <2>2
<1>4. CASE WatcherSnapshot
  BY <1>4 DEF WatcherSnapshot
<1>5. CASE Restart
  <2>1. [close |-> FALSE, ts |-> "zero"] # None
    BY EntrySet DEF Entry
  <2>2. ASSUME NEW s \in Slots, pc'[s] # "idle" PROVE id'[s] \in pool /\ pc'[s] = "send"
    BY <1>5, <2>2 DEF Restart
  <2>3. \A i \in pool : Known(i)'
    BY <1>5, <2>1, <1>p DEF Restart
  <2>4. pool' = pool /\ saved' = saved /\ accepted' = accepted /\ refused' = refused
    BY <1>5 DEF Restart
  <2>5. QED
    BY <2>2, <2>3, <2>4
<1>6. CASE UNCHANGED vars
  BY <1>6 DEF vars
<1>7. QED
  BY <1>1, <1>2, <1>3, <1>4, <1>5, <1>6 DEF Next

\* Why an accepted task stays pending until it is saved: from a goroutine that
\* nobody overtook, its entry and, past the pending pool, its pending id have
\* not been taken away; and a task that is owed has such a goroutine, or its
\* bookkeeping failed since the last start.
OwedInv ==
  /\ \A s \in Slots \ overtaken : Underway(s) =>
       Known(id[s]) /\ (pc[s] # "put" => id[s] \in pool)
  /\ \A i \in owed :
       /\ i \in pool
       /\ i \in stuck \/ \E s \in Slots \ overtaken :
                           Underway(s) /\ pc[s] # "put" /\ id[s] = i

\* A step of one goroutine that takes nothing away and leaves the books alone.
LEMMA OwedFrame ==
  ASSUME TypeOK, OwedInv, NEW s \in Slots, Underway(s), pc[s] # "put",
         NEW l \in Labels, pc' = [pc EXCEPT ![s] = l],
         l \notin {"idle", "put", "delTask", "delPool"},
         UNCHANGED <<id, pool, owed, overtaken, stuck>>,
         \A i \in Ids : Known(i) => Known(i)'
  PROVE  OwedInv'
<1>1. /\ Underway(s)' /\ pc'[s] # "put"
      /\ \A t \in Slots \ {s} : pc'[t] = pc[t] /\ (Underway(t)' <=> Underway(t))
  BY DEF Underway, TypeOK
<1>2. ASSUME NEW t \in Slots, t \notin overtaken, Underway(t)'
      PROVE  Known(id[t])' /\ (pc'[t] # "put" => id[t] \in pool)
  <2>1. Underway(t) /\ (pc'[t] # "put" => pc[t] # "put")
    BY <1>1, <1>2
  <2>2. Known(id[t]) /\ (pc[t] # "put" => id[t] \in pool)
    BY <1>2, <2>1 DEF OwedInv
  <2>3. PICK i \in Ids : i = id[t]
    BY <2>1 DEF TypeOK, Underway
  <2>4. Known(i)' /\ id'[t] = i
    BY <2>2, <2>3
  <2>5. QED
    BY <2>1, <2>2, <2>4 DEF Known
<1>3. QED
  BY <1>1, <1>2 DEF OwedInv

\* A goroutine takes an entry or a pending id away only from those that it
\* overtakes, and gives up its own claim only when the task is saved.
LEMMA OwedStep ==
  TypeOK /\ OwedInv /\ [Next]_vars => OwedInv'
<1> SUFFICES ASSUME TypeOK, OwedInv, [Next]_vars PROVE OwedInv'
  OBVIOUS
<1> USE DEF Goto, Exit, Fault, answers, local
<1>p. /\ pc \in [Slots -> Labels] /\ id \in [Slots -> Ids \cup {None}]
      /\ \A t \in Slots : pc[t] # "idle" => id[t] \in Ids
      /\ taskMap \in [Ids -> Entry \cup {None}]
      /\ pool \subseteq Ids /\ owed \subseteq Ids /\ None \notin Ids
  BY SlotAssumption DEF TypeOK
<1>1. ASSUME NEW s \in Slots, Worker(s) PROVE OwedInv'
  <2>1. CASE PutTaskPendingPool(s)
    <3>1. CASE pc'[s] = "send"
      BY <2>1, <3>1, <1>p DEF PutTaskPendingPool, OwedInv, Underway, Known
    <3>2. CASE pc'[s] # "send"
      <4>1. pc[s] = "put" /\ pc' = [pc EXCEPT ![s] = "idle"] /\ id' = [id EXCEPT ![s] = None]
            /\ DelTask(id[s]) /\ Overtake(s) /\ UNCHANGED <<pool, stuck>>
        BY <2>1, <3>2, <1>p DEF PutTaskPendingPool
      <4>2. QED
        BY <4>1, <1>p DEF OwedInv, Underway, Others, Overtake, DelTask, Known
    <3>3. QED
      BY <3>1, <3>2
  <2>2. CASE Dispatch(s)
    BY <2>2, <1>p DEF Dispatch, OwedInv, Underway, Known
  <2>3. CASE Start(s)
    <3>1. PICK l \in Labels : pc' = [pc EXCEPT ![s] = l] /\ l \in {"save", "work", "begin"}
      BY <2>3 DEF Start, Labels
    <3>2. QED
      BY <2>3, <3>1, <1>p, OwedFrame DEF Start, Underway, Known
  <2>4. CASE TaskBeginSet(s)
    <3>1. PICK l \in Labels : pc' = [pc EXCEPT ![s] = l] /\ l \in {"save", "work", "peers"}
      BY <2>4 DEF TaskBeginSet, Labels
    <3>2. \A j \in Ids : Known(j) => Known(j)'
      <4>1. CASE Known(id[s])
        <5>1. taskMap[id[s]] \in Entry /\ id[s] \in Ids
          BY <2>4, <4>1, <1>p DEF TaskBeginSet, Known
        <5>2. taskMap' = [taskMap EXCEPT ![id[s]].ts = "young"]
          BY <2>4, <4>1 DEF TaskBeginSet
        <5>3. taskMap'[id[s]] # None /\ \A j \in Ids \ {id[s]} : taskMap'[j] = taskMap[j]
          BY <5>1, <5>2, <1>p, EntrySet
        <5>4. QED
          BY <5>3 DEF Known
      <4>2. CASE ~Known(id[s])
        BY <2>4, <4>2 DEF TaskBeginSet, Known
      <4>3. QED
        BY <4>1, <4>2
    <3>3. QED
      BY <2>4, <3>1, <3>2, <1>p, OwedFrame DEF TaskBeginSet, Underway
  <2>5. CASE SyncTask(s) \/ BroadcastTxTask(s) \/ SyncManifestTask(s)
    <3>1. PICK l \in Labels : pc' = [pc EXCEPT ![s] = l] /\ l \in {"save", "close", "peers"}
      BY <2>5 DEF SyncTask, BroadcastTxTask, SyncManifestTask, Work, Labels
    <3>2. QED
      BY <2>5, <3>1, <1>p, OwedFrame
      DEF SyncTask, BroadcastTxTask, SyncManifestTask, Work, Underway, Known
  <2>6. CASE BroadcastPeer(s) \/ SkipPeer(s) \/ AllPeersDone(s)
    <3>1. pc[s] = "peers" /\ UNCHANGED <<id, pool, owed, overtaken, stuck, taskMap>>
      BY <2>6 DEF BroadcastPeer, SkipPeer, AllPeersDone
    <3>2. PICK l \in Labels : pc' = [pc EXCEPT ![s] = l] /\ l \in {"save", "close", "peers"}
      BY <2>6, <3>1, <1>p DEF BroadcastPeer, SkipPeer, AllPeersDone, Labels
    <3>3. QED
      BY <3>1, <3>2, <1>p, OwedFrame DEF Underway, Known
  <2>7. CASE CloseDone(s)
    <3>1. \A j \in Ids : Known(j) => Known(j)'
      <4>1. id[s] \in Ids /\ CloseTask(id[s])
        BY <2>7, <1>p DEF CloseDone
      <4>2. CASE Known(id[s])
        <5>1. taskMap[id[s]] \in Entry
          BY <4>1, <4>2, <1>p DEF Known
        <5>2. taskMap' = [taskMap EXCEPT ![id[s]].close = TRUE]
          BY <4>1, <4>2 DEF CloseTask
        <5>3. taskMap'[id[s]] # None /\ \A j \in Ids \ {id[s]} : taskMap'[j] = taskMap[j]
          BY <4>1, <5>1, <5>2, <1>p, EntrySet
        <5>4. QED
          BY <5>3 DEF Known
      <4>3. CASE ~Known(id[s])
        BY <4>1, <4>3 DEF CloseTask, Known
      <4>4. QED
        BY <4>2, <4>3
    <3>2. "save" \in Labels
      BY DEF Labels
    <3>3. QED
      BY <2>7, <3>1, <3>2, <1>p, OwedFrame DEF CloseDone, Underway
  <2>8. CASE SaveTask(s)
    BY <2>8, <1>p DEF SaveTask, OwedInv, Underway, Known
  <2>9. CASE Unregister(s)
    BY <2>9, <1>p DEF Unregister, OwedInv, Underway, Others, Overtake, DelTask, Known
  <2>10. CASE DelPendingPoolTaskId(s)
    BY <2>10, <1>p DEF DelPendingPoolTaskId, OwedInv, Underway, Others, Known
  <2>11. QED
    BY <1>1, <2>1, <2>2, <2>3, <2>4, <2>5, <2>6, <2>7, <2>8, <2>9, <2>10 DEF Worker
<1>2. ASSUME NEW s \in Slots, NEW i \in Ids, Register(s, i) PROVE OwedInv'
  <2>1. [close |-> FALSE, ts |-> "zero"] # None
    BY EntrySet DEF Entry
  <2>2. Known(i)' /\ \A j \in Ids : Known(j) => Known(j)'
    BY <1>2, <2>1, <1>p DEF Register, AddTask, Known
  <2>3. QED
    BY <1>2, <2>2, <1>p DEF Register, OwedInv, Underway, Known
<1>3. ASSUME NEW i \in Ids, KillTask(i) \/ HalfAnHourPasses(i) \/ WatcherClose(i)
      PROVE  OwedInv'
  <2>1. UNCHANGED <<pc, id, pool, owed, overtaken, stuck>>
    BY <1>3 DEF KillTask, HalfAnHourPasses, WatcherClose
  <2>2. \A j \in Ids : Known(j) => Known(j)'
    <3>1. CASE HalfAnHourPasses(i)
      <4>1. taskMap[i] \in Entry /\ taskMap' = [taskMap EXCEPT ![i].ts = "old"]
        BY <3>1, <1>p DEF HalfAnHourPasses, Known
      <4>2. QED
        BY <4>1, <1>p, EntrySet DEF Known
    <3>2. CASE KillTask(i) \/ WatcherClose(i)
      BY <3>2, CloseKeepsKnown DEF KillTask, WatcherClose
    <3>3. QED
      BY <1>3, <3>1, <3>2
  <2>3. QED
    BY <2>1, <2>2, <1>p DEF OwedInv, Underway, Known
<1>4. CASE WatcherSnapshot
  BY <1>4 DEF WatcherSnapshot, OwedInv, Underway, Known
<1>5. CASE Restart
  <2>1. PICK senders \in [pool -> Slots] :
          /\ \A j, k \in pool : senders[j] = senders[k] => j = k
          /\ pc' = [s \in Slots |-> IF {j \in pool : senders[j] = s} = {}
                                    THEN "idle" ELSE "send"]
          /\ id' = [s \in Slots |-> IF {j \in pool : senders[j] = s} = {} THEN None
                                    ELSE CHOOSE j \in {k \in pool : senders[k] = s} : TRUE]
    BY <1>5 DEF Restart
  <2>2. pool' = pool /\ owed' = owed /\ overtaken' = {}
    BY <1>5 DEF Restart
  <2>3. ASSUME NEW s \in Slots, Underway(s)'
        PROVE  id'[s] \in pool /\ Known(id[s])'
    <3>1. id'[s] \in pool
      BY <2>1, <2>3 DEF Underway
    <3>2. [close |-> FALSE, ts |-> "zero"] # None
      BY EntrySet DEF Entry
    <3>3. QED
      BY <1>5, <3>1, <3>2, <1>p DEF Restart, Known
  <2>4. ASSUME NEW i \in pool
        PROVE  \E s \in Slots : Underway(s)' /\ pc'[s] # "put" /\ id'[s] = i
    <3> DEFINE s == senders[i]
    <3>1. {j \in pool : senders[j] = s} = {i}
      BY <2>1
    <3>2. s \in Slots /\ pc'[s] = "send" /\ id'[s] = i
      BY <2>1, <3>1
    <3>3. QED
      BY <3>2 DEF Underway
  <2>5. QED
    BY <2>2, <2>3, <2>4 DEF OwedInv
<1>6. CASE UNCHANGED vars
  BY <1>6 DEF vars, OwedInv, Underway, Known
<1>7. QED
  BY <1>1, <1>2, <1>3, <1>4, <1>5, <1>6 DEF Next

\* The task of an accepted registration stays in the pending pool until it is
\* saved, through crashes and failures, unless another goroutine of the same id
\* takes its entry or its pending id away in the meantime; and whatever happens
\* it is pending or was saved once, unless a registration of the id failed.
THEOREM AcceptedNeverForgotten == Spec => []AcceptedTaskKept
<1>1. Init => Kept /\ KeptOnce /\ OwedInv
  BY DEF Init, Kept, KeptOnce, OwedInv, Underway
<1>2. Kept /\ KeptOnce /\ OwedInv => AcceptedTaskKept
  BY DEF KeptOnce, OwedInv, AcceptedTaskKept
<1>3. QED
  BY <1>1, <1>2, KeptStep, OwedStep, TaskTypes, PTL DEF Spec
=============================================================================
