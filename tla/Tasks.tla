------------------------------- MODULE Tasks -------------------------------
(***************************************************************************)
(* The task manager of an arseeding node: task.go, taskmanager.go, the     *)
(* task handlers of api.go and watcherAndCloseTasks of jobs.go.            *)
(*                                                                         *)
(* A task is known in memory (taskMap), pending in the key-value store     *)
(* until it is processed (TaskIdPendingPoolBucket) and kept there with its *)
(* outcome afterwards (TaskBucket).  registerTask hands the id over an     *)
(* unbuffered channel to runTask, which starts a goroutine for it; after a *)
(* restart InitTaskMg hands over every pending id again.  The same id may  *)
(* be registered any number of times, so several goroutines may work on    *)
(* one entry of taskMap.                                                   *)
(***************************************************************************)
EXTENDS Naturals, FiniteSets

CONSTANTS
  Ids,         \* task ids: type and Arweave id
  Slots,       \* goroutines: a registration, then the worker it leads to
  Peers,       \* number of peers a broadcast contacts
  MaxFaults,   \* bound on failing accesses of the key-value store
  MaxCrashes,  \* bound on crashes of the node
  None

Kinds == {"sync", "broadcast", "broadcast_meta", "sync_manifest", "other"}

\* "zero": not begun; "young": begun; "old": begun more than 30 minutes ago.
Entry == [close: BOOLEAN, ts: {"zero", "young", "old"}]

ASSUME SlotAssumption ==
  /\ IsFiniteSet(Slots) /\ IsFiniteSet(Ids)
  /\ Cardinality(Slots) >= Cardinality(Ids)
  /\ None \notin Ids \cup Entry
ASSUME TaskBounds ==
  Peers \in Nat /\ MaxFaults \in Nat /\ MaxCrashes \in Nat

VARIABLES
  kind,       \* the type a task id contains; never changes
  taskMap,    \* None, or the entry: closed flag and timestamp
  pool,       \* persistent: ids in the pending pool
  saved,      \* persistent: ids with a saved task
  pc, id,     \* per goroutine: next step and task
  sent,       \* per goroutine: peers contacted so far
  snap,       \* the watcher's snapshot: ids it is going to close
  \* history
  accepted,   \* ids with a registration answered with ok
  refused,    \* ids with a registration answered with an error
  owed,       \* ids with an accepted registration whose task is not saved yet
  overtaken,  \* goroutines whose entry or pending id another one took away
  stuck,      \* ids whose bookkeeping failed since the last start
  faults, crashes

local == <<pc, id, sent>>
answers == <<accepted, refused, owed, overtaken>>
vars == <<kind, taskMap, pool, saved, local, snap, answers, stuck, faults, crashes>>

Labels == {"idle", "put", "send", "start", "begin", "work", "peers", "close",
           "save", "delTask", "delPool"}

\* The task tables, the goroutines and their counters hold values of their
\* kind; a broadcast never counts more peers than there are.
TypeOK ==
  /\ kind \in [Ids -> Kinds]
  /\ taskMap \in [Ids -> Entry \cup {None}]
  /\ pool \subseteq Ids /\ saved \subseteq Ids
  /\ pc \in [Slots -> Labels] /\ id \in [Slots -> Ids \cup {None}]
  /\ \A s \in Slots : pc[s] # "idle" => id[s] \in Ids
  /\ sent \in [Slots -> 0..Peers]
  /\ snap \subseteq Ids
  /\ accepted \subseteq Ids /\ refused \subseteq Ids /\ stuck \subseteq Ids
  /\ owed \subseteq Ids /\ overtaken \subseteq Slots
  /\ faults \in 0..MaxFaults /\ crashes \in 0..MaxCrashes

Known(i) == taskMap[i] # None
IsClosed(i) == Known(i) /\ taskMap[i].close

\* AddTask leaves an existing entry alone.
AddTask(i) ==
  taskMap' = IF Known(i) THEN taskMap
             ELSE [taskMap EXCEPT ![i] = [close |-> FALSE, ts |-> "zero"]]
DelTask(i) == taskMap' = [taskMap EXCEPT ![i] = None]
CloseTask(i) ==
  taskMap' = IF Known(i) THEN [taskMap EXCEPT ![i].close = TRUE] ELSE taskMap

\* The goroutine registers or processes a task that it has not saved yet.  What
\* another one of the same id takes out of taskMap or the pool is taken from it.
Underway(s) == pc[s] \notin {"idle", "delTask", "delPool"}
Others(s) == {t \in Slots \ {s} : id[t] = id[s] /\ Underway(t)}
Overtake(s) ==
  /\ overtaken' = overtaken \cup Others(s)
  /\ owed' = owed \ {id[t] : t \in Others(s)}

Goto(s, label) == pc' = [pc EXCEPT ![s] = label]
Fault == faults < MaxFaults /\ faults' = faults + 1

\* The goroutine ends.
Exit(s) ==
  /\ Goto(s, "idle")
  /\ id' = [id EXCEPT ![s] = None]
  /\ sent' = [sent EXCEPT ![s] = 0]

Init ==
  /\ kind \in [Ids -> Kinds]
  /\ taskMap = [i \in Ids |-> None]
  /\ pool = {} /\ saved = {} /\ snap = {} /\ stuck = {}
  /\ accepted = {} /\ refused = {} /\ owed = {} /\ overtaken = {}
  /\ pc = [s \in Slots |-> "idle"] /\ id = [s \in Slots |-> None]
  /\ sent = [s \in Slots |-> 0]
  /\ faults = 0 /\ crashes = 0

-----------------------------------------------------------------------------
(***************************************************************************)
(* registerTask.                                                           *)
(***************************************************************************)
Register(s, i) ==
  /\ pc[s] = "idle"
  /\ AddTask(i)
  /\ Goto(s, "put")
  /\ id' = [id EXCEPT ![s] = i]
  /\ overtaken' = overtaken \ {s}
  /\ UNCHANGED <<pool, saved, sent, snap, accepted, refused, owed, stuck, faults,
                 crashes>>

PutTaskPendingPool(s) ==
  /\ pc[s] = "put"
  /\ \/ /\ pool' = pool \cup {id[s]}
        /\ Goto(s, "send")
        /\ UNCHANGED <<taskMap, id, sent, refused, owed, overtaken, faults>>
     \/ /\ Fault
        /\ DelTask(id[s]) /\ Overtake(s)
        /\ refused' = refused \cup {id[s]}
        /\ Exit(s)
        /\ UNCHANGED pool
  /\ UNCHANGED <<saved, snap, accepted, stuck, crashes>>

\* The rendezvous on tkChan: registerTask returns nil and runTask, which is
\* always ready to receive, starts the worker.
Dispatch(s) ==
  /\ pc[s] = "send"
  /\ accepted' = accepted \cup {id[s]}
  /\ owed' = IF s \in overtaken THEN owed ELSE owed \cup {id[s]}
  /\ Goto(s, "start")
  /\ UNCHANGED <<taskMap, pool, saved, id, sent, snap, refused, overtaken, stuck,
                 faults, crashes>>

-----------------------------------------------------------------------------
(***************************************************************************)
(* processTask.                                                            *)
(***************************************************************************)

\* The IsClosed test that opens a task.  A type with no case of its own is
\* only unregistered; broadcastTxMetaTask also gives up on unknown metadata.
Start(s) ==
  /\ pc[s] = "start"
  /\ \/ kind[id[s]] = "other" /\ Goto(s, "save")
     \/ kind[id[s]] = "broadcast_meta" /\ Goto(s, "save")
     \/ IsClosed(id[s]) /\ Goto(s, "save")
     \/ /\ ~IsClosed(id[s]) /\ kind[id[s]] # "other"
        /\ Goto(s, IF kind[id[s]] = "sync_manifest" THEN "work" ELSE "begin")
  /\ UNCHANGED <<taskMap, pool, saved, id, sent, snap, answers, stuck,
                 faults, crashes>>

TaskBeginSet(s) ==
  /\ pc[s] = "begin"
  /\ IF Known(id[s])
     THEN /\ taskMap' = [taskMap EXCEPT ![id[s]].ts = "young"]
          /\ Goto(s, IF kind[id[s]] = "broadcast_meta" THEN "peers" ELSE "work")
     ELSE Goto(s, "save") /\ UNCHANGED taskMap
  /\ UNCHANGED <<pool, saved, id, sent, snap, answers, stuck, faults,
                 crashes>>

\* The work of a task ends, well or not.
Work(s, type, label) ==
  /\ pc[s] = "work"
  /\ kind[id[s]] = type
  /\ Goto(s, label) \/ Goto(s, "save")
  /\ UNCHANGED <<taskMap, pool, saved, id, sent, snap, answers, stuck,
                 faults, crashes>>

\* FetchAndStoreTx, or loading the data to broadcast, or syncManifestData.
SyncTask(s) == Work(s, "sync", "close")
BroadcastTxTask(s) == Work(s, "broadcast", "peers")
SyncManifestTask(s) == Work(s, "sync_manifest", "close")

\* One peer of BroadcastData or BroadcastTxMeta, then the IsClosed test.
BroadcastPeer(s) ==
  /\ pc[s] = "peers"
  /\ sent[s] < Peers
  /\ sent' = [sent EXCEPT ![s] = @ + 1]
  /\ Goto(s, IF IsClosed(id[s]) THEN "save" ELSE "peers")
  /\ UNCHANGED <<taskMap, pool, saved, id, snap, answers, stuck, faults, crashes>>

\* BroadcastData skips a peer, and the test, when no uploader can be made.
SkipPeer(s) ==
  /\ pc[s] = "peers"
  /\ kind[id[s]] = "broadcast"
  /\ sent[s] < Peers
  /\ sent' = [sent EXCEPT ![s] = @ + 1]
  /\ UNCHANGED <<taskMap, pool, saved, pc, id, snap, answers, stuck,
                 faults, crashes>>

AllPeersDone(s) ==
  /\ pc[s] = "peers"
  /\ sent[s] = Peers
  /\ Goto(s, "close")
  /\ UNCHANGED <<taskMap, pool, saved, id, sent, snap, answers, stuck,
                 faults, crashes>>

CloseDone(s) ==
  /\ pc[s] = "close"
  /\ CloseTask(id[s])
  /\ Goto(s, "save")
  /\ UNCHANGED <<pool, saved, id, sent, snap, answers, stuck, faults,
                 crashes>>

\* Mutant: the processed task is not saved.
SaveTask_Skipped(s) ==
  /\ pc[s] = "save"
  /\ Goto(s, "delTask")
  /\ UNCHANGED <<taskMap, pool, saved, id, sent, snap, answers, stuck, faults, crashes>>

\* setProcessedTask: save the entry if there is one, forget it, and remove
\* the id from the pending pool.  A failure ends it there.
SaveTask(s) ==
  /\ pc[s] = "save"
  /\ \/ /\ IF Known(id[s])
           THEN saved' = saved \cup {id[s]} /\ owed' = owed \ {id[s]}
           ELSE UNCHANGED <<saved, owed>>
        /\ Goto(s, "delTask")
        /\ UNCHANGED <<id, sent, stuck, faults>>
     \/ /\ Known(id[s])
        /\ Fault
        /\ stuck' = stuck \cup {id[s]}
        /\ Exit(s)
        /\ UNCHANGED <<saved, owed>>
  /\ UNCHANGED <<taskMap, pool, snap, accepted, refused, overtaken, crashes>>

\* Mutant: the entry stays in taskMap.
Unregister_Forgotten(s) ==
  /\ pc[s] = "delTask"
  /\ Goto(s, "delPool")
  /\ UNCHANGED <<taskMap, pool, saved, id, sent, snap, answers, stuck, faults,
                 crashes>>

Unregister(s) ==
  /\ pc[s] = "delTask"
  /\ DelTask(id[s]) /\ Overtake(s)
  /\ Goto(s, "delPool")
  /\ UNCHANGED <<pool, saved, id, sent, snap, accepted, refused, stuck, faults,
                 crashes>>

\* Mutant: the id stays in the pending pool.
DelPendingPoolTaskId_Forgotten(s) ==
  /\ pc[s] = "delPool"
  /\ Exit(s)
  /\ UNCHANGED <<taskMap, pool, saved, snap, answers, stuck, faults, crashes>>

DelPendingPoolTaskId(s) ==
  /\ pc[s] = "delPool"
  /\ \/ /\ pool' = pool \ {id[s]}
        /\ overtaken' = overtaken \cup Others(s)
        /\ owed' = owed \ ({id[t] : t \in Others(s)} \cup (stuck \cap {id[s]}))
        /\ UNCHANGED <<stuck, faults>>
     \/ Fault /\ stuck' = stuck \cup {id[s]} /\ UNCHANGED <<pool, owed, overtaken>>
  /\ Exit(s)
  /\ UNCHANGED <<taskMap, saved, snap, accepted, refused, crashes>>

-----------------------------------------------------------------------------
(***************************************************************************)
(* killTask and the watcher.                                               *)
(***************************************************************************)
Killable(i) == kind[i] # "sync_manifest"

KillTask(i) ==
  /\ Killable(i)
  /\ Known(i)
  /\ CloseTask(i)
  /\ UNCHANGED <<pool, saved, pc, id, sent, snap, answers, stuck, faults, crashes>>

HalfAnHourPasses(i) ==
  /\ Known(i) /\ taskMap[i].ts = "young"
  /\ taskMap' = [taskMap EXCEPT ![i].ts = "old"]
  /\ UNCHANGED <<pool, saved, local, snap, answers, stuck, faults, crashes>>

\* watcherAndCloseTasks copies the map and decides on the copy ...
WatcherSnapshot ==
  /\ snap = {}
  /\ snap' = {i \in Ids : Known(i) /\ ~taskMap[i].close /\ taskMap[i].ts = "old"}
  /\ snap' # {}
  /\ UNCHANGED <<taskMap, pool, saved, local, answers, stuck, faults, crashes>>

\* ... and closes by id whatever entry the map holds by then.
WatcherClose(i) ==
  /\ i \in snap
  /\ snap' = snap \ {i}
  /\ CloseTask(i)
  /\ UNCHANGED <<pool, saved, local, answers, stuck, faults, crashes>>

-----------------------------------------------------------------------------
(***************************************************************************)
(* The node crashes and restarts: InitTaskMg adds every pending task and   *)
(* starts a goroutine that hands it to runTask.                            *)
(***************************************************************************)
\* Mutant: InitTaskMg fills taskMap but hands no id to runTask.
Restart_WithoutSenders ==
  /\ crashes < MaxCrashes
  /\ crashes' = crashes + 1
  /\ pc' = [s \in Slots |-> "idle"] /\ id' = [s \in Slots |-> None]
  /\ taskMap' = [i \in Ids |-> IF i \in pool THEN [close |-> FALSE, ts |-> "zero"]
                               ELSE None]
  /\ sent' = [s \in Slots |-> 0]
  /\ snap' = {} /\ stuck' = {} /\ overtaken' = {}
  /\ UNCHANGED <<pool, saved, accepted, refused, owed, faults>>

Restart ==
  /\ crashes < MaxCrashes
  /\ crashes' = crashes + 1
  /\ \E senders \in [pool -> Slots] :
       /\ \A i, j \in pool : senders[i] = senders[j] => i = j
       /\ LET task(s) == {i \in pool : senders[i] = s}
          IN  /\ pc' = [s \in Slots |-> IF task(s) = {} THEN "idle" ELSE "send"]
              /\ id' = [s \in Slots |-> IF task(s) = {} THEN None
                                        ELSE CHOOSE i \in task(s) : TRUE]
  /\ taskMap' = [i \in Ids |-> IF i \in pool THEN [close |-> FALSE, ts |-> "zero"]
                               ELSE None]
  /\ sent' = [s \in Slots |-> 0]
  /\ snap' = {} /\ stuck' = {} /\ overtaken' = {}
  /\ UNCHANGED <<pool, saved, accepted, refused, owed, faults>>

Worker(s) ==
  \/ PutTaskPendingPool(s) \/ Dispatch(s) \/ Start(s) \/ TaskBeginSet(s)
  \/ SyncTask(s) \/ BroadcastTxTask(s) \/ SyncManifestTask(s)
  \/ BroadcastPeer(s) \/ SkipPeer(s) \/ AllPeersDone(s)
  \/ CloseDone(s) \/ SaveTask(s) \/ Unregister(s) \/ DelPendingPoolTaskId(s)

Next ==
  /\ \/ \E s \in Slots : Worker(s) \/ \E i \in Ids : Register(s, i)
     \/ \E i \in Ids : KillTask(i) \/ HalfAnHourPasses(i) \/ WatcherClose(i)
     \/ WatcherSnapshot
     \/ Restart
  /\ UNCHANGED kind

Spec == Init /\ [][Next]_vars

\* A goroutine that can run does; fetches and peer calls end (they have
\* timeouts).  Registrations, kills, time and crashes are the environment's.
FairSpec == Spec /\ \A s \in Slots : WF_vars(Worker(s) /\ UNCHANGED kind)

-----------------------------------------------------------------------------
(***************************************************************************)
(* Properties.                                                             *)
(***************************************************************************)
Owns(s, i) == id[s] = i /\ pc[s] \notin {"idle", "put"}

\* No pending task is forgotten: every id of the pending pool has a goroutine
\* that is going to process it, also after any crash, unless saving or
\* removing it failed since the last start.
PendingHasOwner ==
  \A i \in pool : i \in stuck \/ \E s \in Slots : Owns(s, i)

\* What a registration answered with ok can rely on, through crashes and
\* whatever other goroutines of the same task do in between.  Its task stays in
\* the pending pool until it is saved (setProcessedTask saves it before it
\* takes the id out of the pool), with one exception: another goroutine of the
\* same id took the entry out of taskMap or the id out of the pool in the
\* meantime, because it was between its own save and the end, or failed to
\* register, or cleared away what a failing one had left.  Such a registration
\* may be lost by a crash, but even then the task has been processed and saved
\* once, or is pending, unless a registration of it failed.
AcceptedTaskKept ==
  /\ owed \subseteq pool
  /\ accepted \ refused \subseteq saved \cup pool

\* Every pending task is processed, or waits for the next start because
\* setProcessedTask failed.
PendingIsProcessed ==
  \A i \in Ids : i \in pool ~> i \notin pool \/ i \in stuck

\* A closed task (killed, timed out or finished) leaves taskMap, so that it
\* can be registered afresh: re-registration of a closed entry does nothing.
ClosedTaskLeaves ==
  \A i \in Ids : IsClosed(i) ~> ~IsClosed(i) \/ i \in stuck
=============================================================================
