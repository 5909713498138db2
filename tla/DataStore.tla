----------------------------- MODULE DataStore -----------------------------
(***************************************************************************)
(* The chunk store of an arseeding node: submit.go and store.go.           *)
(*                                                                         *)
(* Every transaction payload (a "key": data root and data size) owns a     *)
(* region of one global byte address space.  syncAddTxDataEndOffset        *)
(* allocates the region by advancing allDataEndOffset; storeChunk files a  *)
(* chunk under the address of its first byte; getArTxData walks the region *)
(* chunk by chunk.  HTTP handlers (SaveSubmitChunk, SaveSubmitTx, reads),  *)
(* and task workers (FetchAndStoreTx) run concurrently under two mutexes,  *)
(* submitLocker and endOffsetLocker; the node may crash between any two    *)
(* accesses of the key-value store, and any Put may fail.                  *)
(*                                                                         *)
(* SaveSubmitChunk checks a chunk's merkle path and nothing else of it, so *)
(* "foreign" chunks, with other bytes or for another place than the data   *)
(* root commits to, get into the store as well: the properties say how far *)
(* their effect reaches.                                                   *)
(***************************************************************************)
EXTENDS Integers, FiniteSets

CONSTANTS
  Actors,      \* goroutines serving requests and tasks
  Keys,        \* payload identities: generateOffSetKey(dataRoot, dataSize)
  Size,        \* payload size in bytes, per key
  Chunks,      \* the genuine chunks of a payload: what its data root commits
               \* to, none when the size is not that of the data
  Submitted,   \* chunks that requests bring, with a merkle path that validates
  Word,        \* number of addresses a uint64 can name
  Txs,         \* Arweave transactions
  KeyOf,       \* the payload of a transaction
  Data,        \* the chunks generateChunks splits a transaction's data into
  Inline,      \* transactions submitted with their data in the request
  Bundles,     \* transactions tagged as ANS-104 bundles
  Manifests,   \* transactions tagged as manifests (EnableManifest on)
  MaxFaults,   \* bound on failing Puts
  MaxCrashes,  \* bound on crashes of the node
  None

\* A chunk claims bytes lo..hi of its payload: hi is its Offset field and
\* hi - lo + 1 the number of its bytes.  verifyChunk validates the merkle path
\* and drops what ValidatePath says of the chunk's place and size: the bytes
\* need not be the payload's ("other"), nor as many as the path covers, and
\* neither they nor the Offset need to be readable for storeChunk.
Chunk ==
  {c \in [key: Keys, lo: Int, hi: Nat, bytes: {"own", "other", "unreadable"}] :
     c.lo <= c.hi + 1 /\ c.hi - c.lo < Word}

ASSUME SizeAssumption == Size \in [Keys -> Nat] /\ Word \in Nat

ASSUME ChunksAssumption ==
  /\ Chunks \in [Keys -> SUBSET Chunk]
  /\ \A k \in Keys : \A c \in Chunks[k] :
       /\ c.key = k /\ c.bytes = "own"
       /\ 0 <= c.lo /\ c.lo <= c.hi /\ c.hi < Size[k]
  /\ \A k \in Keys : \A c, d \in Chunks[k] :
       c = d \/ c.hi < d.lo \/ d.hi < c.lo
  /\ Submitted \subseteq Chunk

\* The data of a transaction is checked against its data root: when the
\* transaction states its size rightly, it splits into the payload's chunks.
ASSUME TxAssumption ==
  /\ KeyOf \in [Txs -> Keys]
  /\ Inline \subseteq Txs /\ Bundles \subseteq Txs /\ Manifests \subseteq Txs
  /\ Data \in [Txs -> SUBSET Chunk]
  /\ \A x \in Txs : /\ Chunks[KeyOf[x]] \subseteq Data[x]
                    /\ \A c \in Data[x] : c.key = KeyOf[x]
  /\ \A x \in Inline : Data[x] # {}

ASSUME BoundAssumption == MaxFaults \in Nat /\ MaxCrashes \in Nat

ASSUME NoneAssumption ==
  /\ None \notin Nat /\ None \notin Actors
  /\ None \notin Keys /\ None \notin Txs

-----------------------------------------------------------------------------
VARIABLES
  \* persistent: the key-value store and the manifest table
  allEnd,      \* "allDataEndOffset", 0 when absent
  txEnd,       \* TxDataEndOffSetBucket, None when absent
  txMeta,      \* TxMetaBucket
  chunks,      \* ChunkBucket: a partial function from addresses to chunks
  spoiled,     \* history: the addresses that were given a foreign chunk
  waitParse,   \* BundleWaitParseArIdBucket
  manifest,    \* manifest table
  \* volatile: the two mutexes
  submitLock, endLock,
  \* volatile: one record of locals per goroutine
  pc,          \* next step
  op,          \* the operation: "chunk", "tx", "fetch" or "get"
  tx,          \* its transaction
  key,         \* its payload
  cur,         \* curEndOffset read by syncAddTxDataEndOffset
  todo,        \* chunks still to store
  pos,         \* getArTxData's i
  got,         \* chunks appended to getArTxData's result
  res,         \* the returned error: "ok", "err", "exist", or "none"
  \* bookkeeping of the bounds
  faults, crashes

bucket == <<chunks, spoiled>>
kv     == <<allEnd, txEnd, txMeta, bucket, waitParse, manifest>>
locks  == <<submitLock, endLock>>
call   == <<op, tx, key>>
work   == <<cur, todo, pos, got>>
locals == <<call, work>>
bounds == <<faults, crashes>>
vars   == <<kv, locks, pc, locals, res, bounds>>

Ops == {"chunk", "tx", "fetch", "get"}

Labels ==
  {"done", "checkMeta", "saveMeta", "lockSubmit", "needEnd", "lockEnd",
   "loadEnd", "putAll", "putTx", "rollback", "loadMeta", "keepMeta", "local",
   "read", "network", "store", "getManifest", "insertManifest", "mark"}

\* The store's buckets and every goroutine's locals hold values of their kind,
\* whatever chunks the requests bring: no offset or position a goroutine
\* carries is missing or negative.
TypeOK ==
  /\ allEnd \in Nat
  /\ txEnd \in [Keys -> Nat \cup {None}]
  /\ txMeta \subseteq Txs /\ waitParse \subseteq Txs /\ manifest \subseteq Txs
  /\ DOMAIN chunks \subseteq Nat
  /\ chunks \in [DOMAIN chunks -> Chunk] /\ spoiled \subseteq Nat
  /\ submitLock \in Actors \cup {None} /\ endLock \in Actors \cup {None}
  /\ pc \in [Actors -> Labels]
  /\ op \in [Actors -> Ops]
  /\ tx \in [Actors -> Txs \cup {None}]
  /\ key \in [Actors -> Keys \cup {None}]
  /\ cur \in [Actors -> Nat]
  /\ todo \in [Actors -> SUBSET Chunk]
  /\ pos \in [Actors -> Nat]
  /\ got \in [Actors -> SUBSET Chunk]
  /\ res \in [Actors -> {"ok", "err", "exist", "none"}]
  /\ faults \in 0..MaxFaults /\ crashes \in 0..MaxCrashes

-----------------------------------------------------------------------------
(***************************************************************************)
(* Store accessors.                                                        *)
(***************************************************************************)
IsExistTxDataEndOffset(k) == txEnd[k] # None
StartOffset(k) == txEnd[k] - Size[k] + 1

\* A chunk of its payload's split; any other one that is stored is foreign.
Genuine(c) == c \in Chunks[c.key]

\* Subtraction of uint64 values.
Wrap(n) == IF n < 0 THEN n + Word ELSE n

\* Mutant: the chunk length is subtracted without the 1 added back.
ChunkStartOffset_OffByOne(c) ==
  Wrap(StartOffset(c.key) + c.hi - (c.hi - c.lo + 1))

\* storeChunk's arithmetic, with the chunk's Offset field being c.hi
ChunkStartOffset(c) ==
  LET chunkEndOffset == StartOffset(c.key) + c.hi
      len == c.hi - c.lo + 1
  IN  Wrap(chunkEndOffset - len + 1)

SaveChunk(at, c) ==
  /\ chunks' = [a \in DOMAIN chunks \cup {at} |-> IF a = at THEN c ELSE chunks[a]]
  /\ spoiled' = IF Genuine(c) THEN spoiled ELSE spoiled \cup {at}

\* The addresses of an allocated payload, and whether a foreign chunk was ever
\* filed at one of them.
Region(k) == StartOffset(k) .. txEnd[k]
Touched(k) == IsExistTxDataEndOffset(k) /\ Region(k) \cap spoiled # {}

\* Every chunk of the payload is filed where getArTxData looks for it.
Complete(k) ==
  /\ IsExistTxDataEndOffset(k)
  /\ \A c \in Chunks[k] :
       LET at == StartOffset(k) + c.lo
       IN  at \in DOMAIN chunks /\ chunks[at] = c

-----------------------------------------------------------------------------
(***************************************************************************)
(* Control helpers: move on, return to the caller, fail a Put.             *)
(***************************************************************************)
Goto(a, label) == pc' = [pc EXCEPT ![a] = label]

\* Mutant: an error path leaves without the deferred unlock of submitLocker.
Return_Locked(a, r) ==
  /\ Goto(a, "done")
  /\ res' = [res EXCEPT ![a] = r]
  /\ submitLock' = IF submitLock = a /\ r # "err" THEN None ELSE submitLock
  /\ endLock' = IF endLock = a THEN None ELSE endLock
  /\ cur' = [cur EXCEPT ![a] = 0]
  /\ todo' = [todo EXCEPT ![a] = {}]
  /\ pos' = [pos EXCEPT ![a] = 0]
  /\ got' = [got EXCEPT ![a] = IF op[a] = "get" /\ r = "ok" THEN @ ELSE {}]

\* Returning runs the deferred unlocks and ends the life of the locals; the
\* data read by getArTxData is the result of a "get".
Return(a, r) ==
  /\ Goto(a, "done")
  /\ res' = [res EXCEPT ![a] = r]
  /\ submitLock' = IF submitLock = a THEN None ELSE submitLock
  /\ endLock' = IF endLock = a THEN None ELSE endLock
  /\ cur' = [cur EXCEPT ![a] = 0]
  /\ todo' = [todo EXCEPT ![a] = {}]
  /\ pos' = [pos EXCEPT ![a] = 0]
  /\ got' = [got EXCEPT ![a] = IF op[a] = "get" /\ r = "ok" THEN @ ELSE {}]

\* Go on to the next step with nothing but the program counter changed.
Proceed(a, label) == Goto(a, label) /\ UNCHANGED <<res, locks, work>>

Fault == faults < MaxFaults /\ faults' = faults + 1

Init ==
  /\ allEnd = 0
  /\ txEnd = [k \in Keys |-> None]
  /\ txMeta = {} /\ waitParse = {} /\ manifest = {}
  /\ chunks = [a \in {} |-> None] /\ spoiled = {}
  /\ submitLock = None /\ endLock = None
  /\ pc = [a \in Actors |-> "done"]
  /\ op = [a \in Actors |-> "get"]
  /\ tx = [a \in Actors |-> None]
  /\ key = [a \in Actors |-> None]
  /\ cur = [a \in Actors |-> 0]
  /\ todo = [a \in Actors |-> {}]
  /\ pos = [a \in Actors |-> 0]
  /\ got = [a \in Actors |-> {}]
  /\ res = [a \in Actors |-> "none"]
  /\ faults = 0 /\ crashes = 0

-----------------------------------------------------------------------------
(***************************************************************************)
(* Requests and tasks start.  A transaction's signature and a chunk's      *)
(* merkle path have been validated: what fails that changes nothing.       *)
(***************************************************************************)
Begin(a, o, x, k, todo0, label) ==
  /\ pc[a] = "done"
  /\ Goto(a, label)
  /\ op' = [op EXCEPT ![a] = o]
  /\ tx' = [tx EXCEPT ![a] = x]
  /\ key' = [key EXCEPT ![a] = k]
  /\ todo' = [todo EXCEPT ![a] = todo0]
  /\ got' = [got EXCEPT ![a] = {}]
  /\ res' = [res EXCEPT ![a] = "none"]
  /\ UNCHANGED <<kv, locks, cur, pos, bounds>>

BeginSubmitChunk(a, c) == Begin(a, "chunk", None, c.key, {c}, "lockSubmit")
BeginSubmitTx(a, x) == Begin(a, "tx", x, KeyOf[x], {}, "checkMeta")
BeginFetch(a, x) == Begin(a, "fetch", x, KeyOf[x], {}, "loadMeta")
BeginGet(a, x) == x \in txMeta /\ Begin(a, "get", x, KeyOf[x], {}, "local")

(***************************************************************************)
(* SaveSubmitTx: steps 2 and 3.                                            *)
(***************************************************************************)
CheckMeta(a) ==
  /\ pc[a] = "checkMeta"
  /\ IF tx[a] \in txMeta THEN Return(a, "exist") ELSE Proceed(a, "saveMeta")
  /\ UNCHANGED <<kv, call, bounds>>

SaveMeta(a) ==
  /\ pc[a] = "saveMeta"
  /\ txMeta' = txMeta \cup {tx[a]}
  /\ Proceed(a, "lockSubmit")
  /\ UNCHANGED <<allEnd, txEnd, bucket, waitParse, manifest, call, bounds>>

LockSubmit(a) ==
  /\ pc[a] = "lockSubmit"
  /\ submitLock = None
  /\ submitLock' = a
  /\ Goto(a, "needEnd")
  /\ UNCHANGED <<kv, endLock, locals, res, bounds>>

(***************************************************************************)
(* The caller's own IsExistTxDataEndOffset test, outside endOffsetLocker.  *)
(* SaveSubmitTx returns nil when the offset exists; the others go on.      *)
(***************************************************************************)
NeedEnd(a) ==
  /\ pc[a] = "needEnd"
  /\ \/ ~IsExistTxDataEndOffset(key[a]) /\ Proceed(a, "lockEnd")
     \/ /\ IsExistTxDataEndOffset(key[a])
        /\ \/ op[a] = "tx" /\ Return(a, "ok")
           \/ op[a] = "fetch" /\ Proceed(a, "local")
           \/ op[a] = "chunk" /\ Proceed(a, "store")
  /\ UNCHANGED <<kv, call, bounds>>

-----------------------------------------------------------------------------
(***************************************************************************)
(* syncAddTxDataEndOffset and AtomicSyncDataEndOffset.                     *)
(***************************************************************************)
\* Mutant: endOffsetLocker is not waited for.
LockEnd_Unguarded(a) ==
  /\ pc[a] = "lockEnd"
  /\ endLock' = a
  /\ Goto(a, "loadEnd")
  /\ UNCHANGED <<kv, submitLock, locals, res, bounds>>

LockEnd(a) ==
  /\ pc[a] = "lockEnd"
  /\ endLock = None
  /\ endLock' = a
  /\ Goto(a, "loadEnd")
  /\ UNCHANGED <<kv, submitLock, locals, res, bounds>>

\* syncAddTxDataEndOffset has returned nil: unlock and resume the caller.
\* SaveSubmitTx goes on with the data of the request, if it has some.
Synced(a) ==
  /\ endLock' = None
  /\ cur' = [cur EXCEPT ![a] = 0]
  /\ IF op[a] = "tx"
     THEN IF tx[a] \in Inline
          THEN /\ todo' = [todo EXCEPT ![a] = Data[tx[a]]]
               /\ Goto(a, "store")
          ELSE Goto(a, "mark") /\ UNCHANGED todo
     ELSE /\ Goto(a, IF op[a] = "fetch" THEN "local" ELSE "store")
          /\ UNCHANGED todo
  /\ UNCHANGED <<submitLock, pos, got, res>>

\* Mutant: the offset is not looked up again under the lock.
LoadEnd_Unchecked(a) ==
  /\ pc[a] = "loadEnd"
  /\ cur' = [cur EXCEPT ![a] = allEnd]
  /\ Goto(a, "putAll")
  /\ UNCHANGED <<kv, call, bounds, locks, todo, pos, got, res>>

\* Mutant: the payload's own end offset is read for the global one.
LoadEnd_WrongKey(a) ==
  /\ pc[a] = "loadEnd"
  /\ cur' = [cur EXCEPT ![a] = txEnd[key[a]]]
  /\ Goto(a, "putAll")
  /\ UNCHANGED <<kv, call, bounds, locks, todo, pos, got, res>>

LoadEnd(a) ==
  /\ pc[a] = "loadEnd"
  /\ \/ /\ IsExistTxDataEndOffset(key[a])
        /\ Synced(a)
     \/ /\ ~IsExistTxDataEndOffset(key[a])
        /\ cur' = [cur EXCEPT ![a] = allEnd]
        /\ Goto(a, "putAll")
        /\ UNCHANGED <<locks, todo, pos, got, res>>
  /\ UNCHANGED <<kv, call, bounds>>

PutAll(a) ==
  /\ pc[a] = "putAll"
  /\ allEnd' = cur[a] + Size[key[a]]
  /\ Proceed(a, "putTx")
  /\ UNCHANGED <<txEnd, txMeta, bucket, waitParse, manifest, call, bounds>>

PutTx(a) ==
  /\ pc[a] = "putTx"
  /\ txEnd' = [txEnd EXCEPT ![key[a]] = cur[a] + Size[key[a]]]
  /\ Synced(a)
  /\ UNCHANGED <<allEnd, txMeta, bucket, waitParse, manifest, call, bounds>>

\* The second Put failed; its error is returned whatever the rollback does.
PutTxFails(a) ==
  /\ pc[a] = "putTx"
  /\ Fault
  /\ Proceed(a, "rollback")
  /\ UNCHANGED <<kv, call, crashes>>

Rollback(a) ==
  /\ pc[a] = "rollback"
  /\ \/ allEnd' = cur[a] /\ UNCHANGED faults
     \/ Fault /\ UNCHANGED allEnd
  /\ Return(a, "err")
  /\ UNCHANGED <<txEnd, txMeta, bucket, waitParse, manifest, call, crashes>>

-----------------------------------------------------------------------------
(***************************************************************************)
(* FetchAndStoreTx: meta from the store or the network, then the data.     *)
(***************************************************************************)
LoadMeta(a) ==
  /\ pc[a] = "loadMeta"
  /\ \/ Proceed(a, "keepMeta")
     \/ tx[a] \notin txMeta /\ Return(a, "err")
  /\ UNCHANGED <<kv, call, bounds>>

KeepMeta(a) ==
  /\ pc[a] = "keepMeta"
  /\ txMeta' = txMeta \cup {tx[a]}
  /\ Proceed(a, "needEnd")
  /\ UNCHANGED <<allEnd, txEnd, bucket, waitParse, manifest, call, bounds>>

\* getArTxData before its loop: an empty payload has nothing to read.
Local(a) ==
  /\ pc[a] = "local"
  /\ IF Size[key[a]] = 0 THEN Return(a, "ok")
     ELSE IF IsExistTxDataEndOffset(key[a]) THEN Proceed(a, "read")
     ELSE Return(a, "err")
  /\ UNCHANGED <<kv, call, bounds>>

\* Mutant: the loop stops one byte early.
MoreToRead_StopsEarly(a) == pos[a] + StartOffset(key[a]) < txEnd[key[a]] - 1

\* The condition of getArTxData's loop.
MoreToRead(a) == pos[a] + StartOffset(key[a]) < txEnd[key[a]]

ReadChunk(a) ==
  LET at == StartOffset(key[a]) + pos[a]
  IN  /\ pc[a] = "read"
      /\ MoreToRead(a)
      /\ at \in DOMAIN chunks
      /\ got' = [got EXCEPT ![a] = @ \cup {chunks[at]}]
      /\ pos' = [pos EXCEPT ![a] = @ + chunks[at].hi - chunks[at].lo + 1]
      /\ UNCHANGED <<kv, locks, pc, call, cur, todo, res, bounds>>

ReadMisses(a) ==
  /\ pc[a] = "read"
  /\ MoreToRead(a)
  /\ StartOffset(key[a]) + pos[a] \notin DOMAIN chunks
  /\ IF op[a] = "fetch" THEN Proceed(a, "network") ELSE Return(a, "err")
  /\ UNCHANGED <<kv, call, bounds>>

ReadEnds(a) ==
  /\ pc[a] = "read"
  /\ ~MoreToRead(a)
  /\ Return(a, "ok")
  /\ UNCHANGED <<kv, call, bounds>>

\* Mutant: the error of the last peer is swallowed.
Network_SwallowsError(a) ==
  /\ pc[a] = "network"
  /\ Return(a, "ok")
  /\ UNCHANGED <<kv, call, bounds>>

\* The gateway, then the peers: data with the right data root arrives, or all of
\* them fail.
Network(a) ==
  /\ pc[a] = "network"
  /\ \/ /\ Data[tx[a]] # {}
        /\ todo' = [todo EXCEPT ![a] = Data[tx[a]]]
        /\ pos' = [pos EXCEPT ![a] = 0]
        /\ got' = [got EXCEPT ![a] = {}]
        /\ Goto(a, "store")
        /\ UNCHANGED <<res, locks, cur>>
     \/ Return(a, "err")
  /\ UNCHANGED <<kv, call, bounds>>

\* setTxDataChunks' loop (in payload order) and SaveSubmitChunk's one chunk.
FirstOf(c, S) == c \in S /\ \A d \in S : c.lo <= d.lo

StoreChunk(a) ==
  /\ pc[a] = "store"
  /\ \E c \in todo[a] :
       /\ FirstOf(c, todo[a]) /\ c.bytes # "unreadable"
       /\ SaveChunk(ChunkStartOffset(c), c)
       /\ IF todo[a] = {c} /\ op[a] = "chunk"
          THEN Return(a, "ok")
          ELSE /\ todo' = [todo EXCEPT ![a] = @ \ {c}]
               /\ Goto(a, IF todo[a] # {c} THEN "store"
                          ELSE IF op[a] = "tx" THEN "mark" ELSE "getManifest")
               /\ UNCHANGED <<locks, cur, pos, got, res>>
  /\ UNCHANGED <<allEnd, txEnd, txMeta, waitParse, manifest, call, bounds>>

\* storeChunk finds an Offset below zero, or bytes that do not decode, after the
\* region was allocated.
ChunkUnreadable(a) ==
  /\ pc[a] = "store"
  /\ \E c \in todo[a] : FirstOf(c, todo[a]) /\ c.bytes = "unreadable"
  /\ Return(a, "err")
  /\ UNCHANGED <<kv, call, bounds>>

\* A manifest transaction unknown to the manifest table is to be inserted.
GetManifest(a) ==
  /\ pc[a] = "getManifest"
  /\ Proceed(a, IF tx[a] \in Manifests \ manifest THEN "insertManifest" ELSE "mark")
  /\ UNCHANGED <<kv, call, bounds>>

\* The url is unique in the table: a second insert of it is an error.
InsertManifest(a) ==
  /\ pc[a] = "insertManifest"
  /\ manifest' = manifest \cup {tx[a]}
  /\ IF tx[a] \in manifest THEN Return(a, "err") ELSE Proceed(a, "mark")
  /\ UNCHANGED <<allEnd, txEnd, txMeta, bucket, waitParse, call, bounds>>

\* SaveWaitParseBundleArId, if the transaction is a bundle.
Mark(a) ==
  /\ pc[a] = "mark"
  /\ waitParse' = waitParse \cup ({tx[a]} \cap Bundles)
  /\ Return(a, "ok")
  /\ UNCHANGED <<allEnd, txEnd, txMeta, bucket, manifest, call, bounds>>

-----------------------------------------------------------------------------
(***************************************************************************)
(* Failures: a Put (or the manifest insert) returns an error and changes   *)
(* nothing; the node crashes and restarts with empty memory.               *)
(***************************************************************************)
PutFails(a) ==
  /\ pc[a] \in {"saveMeta", "keepMeta", "putAll", "store", "insertManifest",
                "mark"}
  /\ Fault
  /\ Return(a, "err")
  /\ UNCHANGED <<kv, call, crashes>>

\* Init's values of everything that lives in memory.
Fresh ==
  /\ submitLock' = None /\ endLock' = None
  /\ pc' = [a \in Actors |-> "done"]
  /\ op' = [a \in Actors |-> "get"]
  /\ tx' = [a \in Actors |-> None]
  /\ key' = [a \in Actors |-> None]
  /\ cur' = [a \in Actors |-> 0]
  /\ todo' = [a \in Actors |-> {}]
  /\ pos' = [a \in Actors |-> 0]
  /\ got' = [a \in Actors |-> {}]
  /\ res' = [a \in Actors |-> "none"]

Crash ==
  /\ crashes < MaxCrashes
  /\ crashes' = crashes + 1
  /\ Fresh
  /\ UNCHANGED <<kv, faults>>

Step(a) ==
  \/ CheckMeta(a) \/ SaveMeta(a) \/ LockSubmit(a) \/ NeedEnd(a)
  \/ LockEnd(a) \/ LoadEnd(a) \/ PutAll(a) \/ PutTx(a) \/ Rollback(a)
  \/ LoadMeta(a) \/ KeepMeta(a) \/ Local(a)
  \/ ReadChunk(a) \/ ReadMisses(a) \/ ReadEnds(a)
  \/ Network(a) \/ StoreChunk(a) \/ ChunkUnreadable(a)
  \/ GetManifest(a) \/ InsertManifest(a) \/ Mark(a)

Request(a) ==
  \/ \E c \in Submitted : BeginSubmitChunk(a, c)
  \/ \E x \in Txs : BeginSubmitTx(a, x) \/ BeginFetch(a, x) \/ BeginGet(a, x)

Next ==
  \/ \E a \in Actors : Request(a) \/ Step(a) \/ PutTxFails(a) \/ PutFails(a)
  \/ Crash

Spec == Init /\ [][Next]_vars

-----------------------------------------------------------------------------
(***************************************************************************)
(* Properties.                                                             *)
(***************************************************************************)

\* Two payloads never share an address, and no region reaches beyond
\* allDataEndOffset, where the next one is allocated: whatever the order of
\* concurrent syncAddTxDataEndOffset calls, failed second Puts, rollbacks
\* (failed ones too) and crashes between the two Puts.
RegionsDisjoint ==
  \A k, l \in Keys :
    IsExistTxDataEndOffset(k) =>
      /\ txEnd[k] <= allEnd /\ Size[k] <= txEnd[k]
      /\ k # l /\ IsExistTxDataEndOffset(l) =>
           txEnd[k] < StartOffset(l) \/ txEnd[l] < StartOffset(k)

\* A stored chunk whose first byte is one of its payload, as that of every
\* genuine chunk, lies at that byte's address, in its own payload's region:
\* only a chunk that claims to start outside its payload (verifyChunk compares
\* neither Offset nor length with the path) can reach another's region.  The
\* bucket never holds a foreign chunk at an address not on record as spoiled.
ChunksInPlace ==
  \A at \in DOMAIN chunks :
    LET c == chunks[at]
    IN  /\ IsExistTxDataEndOffset(c.key)
        /\ c.lo \in 0..(Size[c.key] - 1) => at = StartOffset(c.key) + c.lo
        /\ Genuine(c) \/ at \in spoiled

\* getArTxData never returns part of a payload, or another payload's chunks, as
\* if it were the payload: a read that ends without error has collected exactly
\* the payload's chunks, however reads overlap with stores, unless it came upon
\* a foreign chunk, whose bytes nobody has compared with the data root.
ReadsWholePayload ==
  \A a \in Actors :
    pc[a] = "done" /\ op[a] = "get" /\ res[a] = "ok"
      => got[a] = Chunks[key[a]] \/ \E c \in got[a] : ~Genuine(c)

\* No payload ends in a chunk of a single byte.  Arweave's chunking balances
\* the last two chunks, so only a payload of one byte does.
NoOneByteTail == \A k \in Keys : \A c \in Chunks[k] : c.lo # Size[k] - 1

\* FetchAndStoreTx that returns nil leaves the whole payload in the store, for
\* good, unless a foreign chunk was filed in its region: submit.go:145 takes any
\* error-free local read for "local exist data", one over foreign chunks too.
FetchStoresPayload ==
  \A a \in Actors :
    pc[a] = "done" /\ op[a] = "fetch" /\ res[a] = "ok" /\ ~Touched(key[a])
      => Complete(key[a])

\* The region of a payload never moves once allocated: a caller that raced
\* another allocation of the same key adopts it.
RegionStable ==
  [][\A k \in Keys : IsExistTxDataEndOffset(k) => txEnd'[k] = txEnd[k]]_txEnd

\* The parts of a call that the two mutexes protect.
HoldsSubmit(a) ==
  /\ op[a] \in {"chunk", "tx"}
  /\ pc[a] \in {"needEnd", "lockEnd", "loadEnd", "putAll", "putTx", "rollback",
                "store", "mark"}
HoldsEnd(a) == pc[a] \in {"loadEnd", "putAll", "putTx", "rollback"}

\* No submission waits for ever: on every path, the failing ones and the early
\* returns included, a mutex is held by the call that is inside the part it
\* protects and by no other, so a call that returned holds none.  While it
\* holds endOffsetLocker a call never asks for submitLocker: the two are not
\* taken crosswise.
LocksReleased ==
  \A a \in Actors :
    /\ submitLock = a <=> HoldsSubmit(a)
    /\ endLock = a <=> HoldsEnd(a)

(***************************************************************************)
(* The store implements Archive: a payload's region is where its end       *)
(* offset puts it, its chunks are the ones filed where getArTxData looks,  *)
(* and an answer is an error-free read or fetch.                           *)
(***************************************************************************)
HeldChunks(k) ==
  {c \in Chunks[k] :
     /\ IsExistTxDataEndOffset(k)
     /\ StartOffset(k) + c.lo \in DOMAIN chunks
     /\ chunks[StartOffset(k) + c.lo] = c}

Answered(a) == pc[a] = "done" /\ op[a] \in {"get", "fetch"} /\ res[a] = "ok"

Regions ==
  [k \in Keys |-> IF IsExistTxDataEndOffset(k) THEN StartOffset(k) ELSE None]
Held == [k \in Keys |-> HeldChunks(k)]
Replies == [a \in Actors |-> IF Answered(a) THEN key[a] ELSE None]

Meddled == {k \in Keys : Touched(k)}

Abstract == INSTANCE Archive
  WITH region <- Regions, held <- Held, reply <- Replies, spoiled <- Meddled

\* Every step of the store, with its locks, its two Puts per allocation, its
\* roll-backs and crashes, is a step of the archive or none: a region is given
\* once and to one payload, a chunk that could be read is lost only when a
\* foreign chunk is filed at its own address (a region that moved or was shared
\* would lose or overwrite some), and a read or a fetch succeeds only when the
\* whole payload is there or its region holds, or held, a foreign chunk.
ImplementsArchive == Abstract!Spec
=============================================================================
