-------------------------- MODULE DataStoreProofs --------------------------
(***************************************************************************)
(* Theorems about DataStore, for every set of goroutines, payloads, chunk  *)
(* splits, transactions and submitted chunks, foreign ones included, and   *)
(* every number of faults and crashes.                                     *)
(***************************************************************************)
EXTENDS DataStore, TLAPS

-----------------------------------------------------------------------------
(***************************************************************************)
(* Types of everything but the chunk bucket and the reader's locals, and   *)
(* which operations are where: a running call has a payload, and a         *)
(* transaction unless it submits a chunk.                                  *)
(***************************************************************************)
CoreType ==
  /\ allEnd \in Nat
  /\ txEnd \in [Keys -> Nat \cup {None}]
  /\ txMeta \subseteq Txs /\ waitParse \subseteq Txs /\ manifest \subseteq Txs
  /\ submitLock \in Actors \cup {None} /\ endLock \in Actors \cup {None}
  /\ pc \in [Actors -> Labels]
  /\ op \in [Actors -> Ops]
  /\ tx \in [Actors -> Txs \cup {None}]
  /\ key \in [Actors -> Keys \cup {None}]
  /\ cur \in [Actors -> Nat]
  /\ todo \in [Actors -> SUBSET Chunk]
  /\ res \in [Actors -> {"ok", "err", "exist", "none"}]
  /\ faults \in 0..MaxFaults /\ crashes \in 0..MaxCrashes

CallOK ==
  \A a \in Actors :
    /\ pc[a] # "done" => key[a] \in Keys
    /\ pc[a] # "done" /\ op[a] # "chunk" => tx[a] \in Txs /\ key[a] = KeyOf[tx[a]]
    /\ pc[a] \in {"checkMeta", "saveMeta"} => op[a] = "tx"
    /\ pc[a] = "lockSubmit" => op[a] \in {"chunk", "tx"}
    /\ pc[a] \in {"loadMeta", "keepMeta", "network", "getManifest",
                  "insertManifest"} => op[a] = "fetch"
    /\ pc[a] \in {"needEnd", "lockEnd", "loadEnd", "putAll", "putTx",
                  "rollback", "store"} => op[a] \in {"chunk", "tx", "fetch"}
    /\ pc[a] \in {"local", "read"} => op[a] \in {"fetch", "get"}
    /\ pc[a] = "mark" => op[a] \in {"tx", "fetch"}

Core == CoreType /\ CallOK

\* The next-state relation, one disjunct per action.
LEMMA NextCases ==
  ASSUME [Next]_vars
  PROVE  \/ \E a \in Actors : \E c \in Submitted : BeginSubmitChunk(a, c)
         \/ \E a \in Actors : \E x \in Txs :
              \/ BeginSubmitTx(a, x) \/ BeginFetch(a, x) \/ BeginGet(a, x)
         \/ \E a \in Actors : Step(a) \/ PutTxFails(a) \/ PutFails(a)
         \/ Crash
         \/ UNCHANGED vars
  BY DEF Next, Request

\* What the split of a payload or of a transaction's data consists of, and what
\* requests bring, are chunks.
LEMMA ChunksType ==
  /\ \A k \in Keys : Chunks[k] \subseteq Chunk
  /\ \A x \in Txs : Data[x] \subseteq Chunk
  /\ \A c \in Submitted : c \in Chunk /\ c.key \in Keys
  BY ChunksAssumption, TxAssumption DEF Chunk

\* The node starts with everything of its type and nobody running.
LEMMA CoreInit == Init => Core
  BY SizeAssumption, BoundAssumption
  DEF Init, Core, CoreType, CallOK, Labels, Ops

\* No step of submit.go or store.go, no failed Put and no crash breaks the
\* types, or sends an operation to a step that is not its own.
LEMMA CoreStep == Core /\ [Next]_vars => Core'
<1> SUFFICES ASSUME Core, [Next]_vars PROVE Core'
  OBVIOUS
<1> USE DEF Core, CoreType, Labels, Ops, Goto, Return,
            Proceed, kv, bucket, locks, call, work, locals, bounds
<1>1. ASSUME NEW a \in Actors, NEW c \in Submitted, BeginSubmitChunk(a, c)
      PROVE  Core'
  BY <1>1, ChunksAssumption, ChunksType DEF BeginSubmitChunk, Begin, CallOK
<1>2. ASSUME NEW a \in Actors, NEW x \in Txs, 
             \/ BeginSubmitTx(a, x) \/ BeginFetch(a, x) \/ BeginGet(a, x)
      PROVE  Core'
  BY <1>2, TxAssumption
  DEF BeginSubmitTx, BeginFetch, BeginGet, Begin, CallOK
<1>3. ASSUME NEW a \in Actors, PutTxFails(a) \/ PutFails(a) PROVE Core'
  BY <1>3, BoundAssumption DEF PutTxFails, PutFails, Fault, CallOK
<1>4. ASSUME NEW a \in Actors, Step(a) PROVE Core'
  <2>1. CASE CheckMeta(a) BY <2>1 DEF CheckMeta, CallOK
  <2>2. CASE SaveMeta(a) BY <2>2 DEF SaveMeta, CallOK
  <2>3. CASE LockSubmit(a) BY <2>3 DEF LockSubmit, CallOK
  <2>4. CASE NeedEnd(a) BY <2>4 DEF NeedEnd, CallOK
  <2>5. CASE LockEnd(a) BY <2>5 DEF LockEnd, CallOK
  <2>6. CASE LoadEnd(a)
    BY <2>6, ChunksType DEF LoadEnd, Synced, CallOK
  <2>7. CASE PutAll(a) BY <2>7, SizeAssumption DEF PutAll, CallOK
  <2>8. CASE PutTx(a)
    <3>1. /\ key[a] \in Keys /\ op[a] \in {"chunk", "tx", "fetch"}
          /\ op[a] = "tx" => tx[a] \in Txs
      BY <2>8 DEF PutTx, CallOK
    <3>2. cur[a] + Size[key[a]] \in Nat
      BY <3>1, SizeAssumption
    <3>3. txEnd' \in [Keys -> Nat \cup {None}]
      BY <2>8, <3>2 DEF PutTx
    <3>4. CoreType'
      BY <2>8, <3>1, <3>3, ChunksType DEF PutTx, Synced
    <3>5. CallOK'
      BY <2>8, <3>1 DEF PutTx, Synced, CallOK
    <3>6. QED
      BY <3>4, <3>5
  <2>9. CASE Rollback(a)
    BY <2>9, BoundAssumption DEF Rollback, Fault, CallOK
  <2>10. CASE LoadMeta(a) BY <2>10 DEF LoadMeta, CallOK
  <2>11. CASE KeepMeta(a) BY <2>11 DEF KeepMeta, CallOK
  <2>12. CASE Local(a) BY <2>12 DEF Local, CallOK
  <2>13. CASE ReadChunk(a) BY <2>13 DEF ReadChunk, CallOK
  <2>14. CASE ReadMisses(a) BY <2>14 DEF ReadMisses, CallOK
  <2>15. CASE ReadEnds(a) BY <2>15 DEF ReadEnds, CallOK
  <2>16. CASE Network(a) BY <2>16, ChunksType DEF Network, CallOK
  <2>17. CASE StoreChunk(a) BY <2>17 DEF StoreChunk, SaveChunk, CallOK
  <2>u. CASE ChunkUnreadable(a) BY <2>u DEF ChunkUnreadable, CallOK
  <2>18. CASE GetManifest(a) BY <2>18 DEF GetManifest, CallOK
  <2>19. CASE InsertManifest(a) BY <2>19 DEF InsertManifest, CallOK
  <2>20. CASE Mark(a) BY <2>20 DEF Mark, CallOK
  <2>21. QED
    BY <1>4, <2>1, <2>2, <2>3, <2>4, <2>5, <2>6, <2>7, <2>8, <2>9, <2>10,
       <2>11, <2>12, <2>13, <2>14, <2>15, <2>16, <2>17, <2>18, <2>19, <2>20, <2>u
    DEF Step
<1>5. CASE Crash
  BY <1>5, BoundAssumption DEF Crash, Fresh, CallOK
<1>6. CASE UNCHANGED vars
  BY <1>6 DEF vars, CallOK
<1>7. QED
  BY <1>1, <1>2, <1>3, <1>4, <1>5, <1>6, NextCases

-----------------------------------------------------------------------------
(***************************************************************************)
(* Allocation.  Between the two Puts allDataEndOffset has moved and no     *)
(* payload ends beyond the value it had before: that is what makes both a  *)
(* rollback and a missing rollback safe.                                   *)
(***************************************************************************)
EndLockHeld ==
  \A a \in Actors :
    pc[a] \in {"loadEnd", "putAll", "putTx", "rollback"} => endLock = a

Allocating ==
  \A a \in Actors :
    /\ pc[a] \in {"putAll", "putTx", "rollback"} => txEnd[key[a]] = None
    /\ pc[a] = "putAll" => cur[a] = allEnd
    /\ pc[a] \in {"putTx", "rollback"} =>
         /\ allEnd = cur[a] + Size[key[a]]
         /\ \A k \in Keys : txEnd[k] # None => txEnd[k] <= cur[a]

AllocInv == EndLockHeld /\ Allocating /\ RegionsDisjoint

\* No offset is allocated when the node is new.
LEMMA AllocInit == Init => AllocInv
  BY DEF Init, AllocInv, EndLockHeld, Allocating, RegionsDisjoint,
         IsExistTxDataEndOffset, StartOffset

\* A step that leaves the offsets alone and brings no one into the critical
\* section preserves the invariant.
LEMMA AllocFrame ==
  ASSUME AllocInv,
         allEnd' = allEnd, txEnd' = txEnd,
         \A b \in Actors :
           pc'[b] \in {"loadEnd", "putAll", "putTx", "rollback"} =>
             /\ pc'[b] = pc[b] /\ key'[b] = key[b] /\ cur'[b] = cur[b]
             /\ endLock' = endLock
  PROVE  AllocInv'
  BY DEF AllocInv, EndLockHeld, Allocating, RegionsDisjoint,
         IsExistTxDataEndOffset, StartOffset

\* syncAddTxDataEndOffset, AtomicSyncDataEndOffset and its rollback keep the
\* regions apart; nothing else touches an end offset.
LEMMA AllocStep == Core /\ AllocInv /\ [Next]_vars => AllocInv'
<1> SUFFICES ASSUME Core, AllocInv, [Next]_vars PROVE AllocInv'
  OBVIOUS
<1> USE DEF Goto, Return, Proceed, kv, bucket, locks, call, work, locals, bounds
<1>t. /\ pc \in [Actors -> Labels] /\ key \in [Actors -> Keys \cup {None}]
      /\ cur \in [Actors -> Nat] /\ None \notin Actors
      /\ allEnd \in Nat /\ txEnd \in [Keys -> Nat \cup {None}]
      /\ None \notin Nat /\ Size \in [Keys -> Nat]
  BY NoneAssumption, SizeAssumption DEF Core, CoreType
<1>1. ASSUME NEW a \in Actors, NEW c \in Submitted, BeginSubmitChunk(a, c)
      PROVE  AllocInv'
  BY <1>1, <1>t, AllocFrame DEF BeginSubmitChunk, Begin
<1>2. ASSUME NEW a \in Actors, NEW x \in Txs,
             \/ BeginSubmitTx(a, x) \/ BeginFetch(a, x) \/ BeginGet(a, x)
      PROVE  AllocInv'
  BY <1>2, <1>t, AllocFrame
  DEF BeginSubmitTx, BeginFetch, BeginGet, Begin
<1>3. ASSUME NEW a \in Actors, PutTxFails(a) PROVE AllocInv'
  BY <1>3, <1>t DEF PutTxFails, AllocInv, EndLockHeld, Allocating,
     RegionsDisjoint, IsExistTxDataEndOffset, StartOffset
<1>4. ASSUME NEW a \in Actors, PutFails(a) PROVE AllocInv'
  <2>1. \A b \in Actors : pc'[b] \in {"loadEnd", "putAll", "putTx", "rollback"}
          => b # a /\ endLock = b
    BY <1>4, <1>t DEF PutFails, AllocInv, EndLockHeld
  <2>2. QED
    BY <1>4, <1>t, <2>1, AllocFrame DEF PutFails
<1>5. ASSUME NEW a \in Actors, Step(a) PROVE AllocInv'
  \* whoever is in the critical section holds the lock, so it is not released
  \* by another one's return
  <2>h. \A b \in Actors : pc[b] \in {"loadEnd", "putAll", "putTx", "rollback"}
          => endLock = b
    BY DEF AllocInv, EndLockHeld
  <2>1. CASE CheckMeta(a) BY <2>1, <2>h, <1>t, AllocFrame DEF CheckMeta
  <2>2. CASE SaveMeta(a) BY <2>2, <1>t, AllocFrame DEF SaveMeta
  <2>3. CASE LockSubmit(a) BY <2>3, <1>t, AllocFrame DEF LockSubmit
  <2>4. CASE NeedEnd(a) BY <2>4, <2>h, <1>t, AllocFrame DEF NeedEnd
  <2>5. CASE LockEnd(a)
    BY <2>5, <2>h, <1>t DEF LockEnd, AllocInv, EndLockHeld, Allocating,
       RegionsDisjoint, IsExistTxDataEndOffset, StartOffset
  <2>6. CASE LoadEnd(a)
    <3>1. \A b \in Actors \ {a} :
            pc'[b] \notin {"loadEnd", "putAll", "putTx", "rollback"}
      BY <2>6, <2>h, <1>t DEF LoadEnd, Synced
    <3>2. CASE IsExistTxDataEndOffset(key[a])
      BY <2>6, <3>1, <3>2, <1>t, AllocFrame DEF LoadEnd, Synced
    <3>3. CASE ~IsExistTxDataEndOffset(key[a])
      BY <2>6, <2>h, <3>1, <3>3, <1>t DEF LoadEnd, AllocInv, EndLockHeld,
         Allocating, RegionsDisjoint, IsExistTxDataEndOffset, StartOffset
    <3>4. QED
      BY <3>2, <3>3
  <2>7. CASE PutAll(a)
    <3>1. \A b \in Actors \ {a} :
            pc'[b] \notin {"loadEnd", "putAll", "putTx", "rollback"}
      BY <2>7, <2>h, <1>t DEF PutAll
    <3>2. key[a] \in Keys /\ key'[a] = key[a] /\ cur'[a] = cur[a]
      BY <2>7 DEF PutAll, Core, CallOK
    <3>3. cur[a] = allEnd /\ allEnd' = allEnd + Size[key[a]] /\ allEnd <= allEnd'
      BY <2>7, <1>t, <3>2 DEF PutAll, AllocInv, Allocating
    <3>4. RegionsDisjoint'
      BY <2>7, <3>3, <1>t DEF PutAll, AllocInv, RegionsDisjoint,
         IsExistTxDataEndOffset, StartOffset
    <3>5. EndLockHeld'
      BY <2>7, <2>h, <1>t DEF PutAll, EndLockHeld
    <3>6. Allocating'
      BY <2>7, <3>1, <3>2, <3>3, <1>t DEF PutAll, AllocInv, Allocating,
         RegionsDisjoint, IsExistTxDataEndOffset
    <3>7. QED
      BY <3>4, <3>5, <3>6 DEF AllocInv
  <2>8. CASE PutTx(a)
    <3>1. \A b \in Actors :
            pc'[b] \notin {"loadEnd", "putAll", "putTx", "rollback"}
      BY <2>8, <2>h, <1>t DEF PutTx, Synced
    <3>2. key[a] \in Keys
      BY <2>8 DEF PutTx, Core, CallOK
    <3>3. /\ allEnd = cur[a] + Size[key[a]]
          /\ \A k \in Keys : txEnd[k] # None => txEnd[k] <= cur[a]
      BY <2>8 DEF PutTx, AllocInv, Allocating
    <3>4. /\ txEnd'[key[a]] = allEnd /\ allEnd' = allEnd
          /\ \A k \in Keys \ {key[a]} : txEnd'[k] = txEnd[k]
      BY <2>8, <3>2, <3>3, <1>t DEF PutTx
    <3>5. RegionsDisjoint'
      BY <3>2, <3>3, <3>4, <1>t DEF AllocInv, RegionsDisjoint,
         IsExistTxDataEndOffset, StartOffset
    <3>6. QED
      BY <3>1, <3>5 DEF AllocInv, EndLockHeld, Allocating
  <2>9. CASE Rollback(a)
    <3>1. \A b \in Actors :
            pc'[b] \notin {"loadEnd", "putAll", "putTx", "rollback"}
      BY <2>9, <2>h, <1>t DEF Rollback
    <3>2. key[a] \in Keys
      BY <2>9 DEF Rollback, Core, CallOK
    <3>3. /\ txEnd' = txEnd /\ allEnd' \in {cur[a], allEnd}
          /\ \A k \in Keys : txEnd[k] # None => txEnd[k] <= cur[a]
      BY <2>9 DEF Rollback, AllocInv, Allocating
    <3>4. RegionsDisjoint'
      BY <3>2, <3>3, <1>t DEF AllocInv, RegionsDisjoint,
         IsExistTxDataEndOffset, StartOffset
    <3>5. QED
      BY <3>1, <3>4 DEF AllocInv, EndLockHeld, Allocating
  <2>10. CASE LoadMeta(a) BY <2>10, <2>h, <1>t, AllocFrame DEF LoadMeta
  <2>11. CASE KeepMeta(a) BY <2>11, <1>t, AllocFrame DEF KeepMeta
  <2>12. CASE Local(a) BY <2>12, <2>h, <1>t, AllocFrame DEF Local
  <2>13. CASE ReadChunk(a) BY <2>13, <1>t, AllocFrame DEF ReadChunk
  <2>14. CASE ReadMisses(a) BY <2>14, <2>h, <1>t, AllocFrame DEF ReadMisses
  <2>15. CASE ReadEnds(a)
    BY <2>15, <2>h, <1>t, AllocFrame DEF ReadEnds
  <2>16. CASE Network(a) BY <2>16, <2>h, <1>t, AllocFrame DEF Network
  <2>17. CASE StoreChunk(a) BY <2>17, <2>h, <1>t, AllocFrame DEF StoreChunk
  <2>u. CASE ChunkUnreadable(a) BY <2>u, <2>h, <1>t, AllocFrame DEF ChunkUnreadable
  <2>18. CASE GetManifest(a) BY <2>18, <1>t, AllocFrame DEF GetManifest
  <2>19. CASE InsertManifest(a)
    BY <2>19, <2>h, <1>t, AllocFrame DEF InsertManifest
  <2>20. CASE Mark(a) BY <2>20, <2>h, <1>t, AllocFrame DEF Mark
  <2>21. QED
    BY <1>5, <2>1, <2>2, <2>3, <2>4, <2>5, <2>6, <2>7, <2>8, <2>9, <2>10,
       <2>11, <2>12, <2>13, <2>14, <2>15, <2>16, <2>17, <2>18, <2>19, <2>20, <2>u
    DEF Step
<1>6. CASE Crash
  BY <1>6, AllocFrame DEF Crash, Fresh
<1>7. CASE UNCHANGED vars
  BY <1>7, AllocFrame DEF vars
<1>8. QED
  BY <1>1, <1>2, <1>3, <1>4, <1>5, <1>6, <1>7, NextCases

-----------------------------------------------------------------------------
(***************************************************************************)
(* The chunk bucket.                                                       *)
(***************************************************************************)
BucketInv ==
  /\ DOMAIN chunks \subseteq Nat
  /\ chunks \in [DOMAIN chunks -> Chunk]
  /\ spoiled \subseteq Nat
  /\ ChunksInPlace

\* The region of the payload exists wherever a chunk is stored or the local
\* copy is read, and only chunks that name the payload are to be stored.
TodoInv ==
  \A a \in Actors :
    /\ pc[a] = "done" => todo[a] = {}
    /\ pc[a] # "done" => \A c \in todo[a] : c.key = key[a]
    /\ pc[a] \in {"store", "read", "network", "getManifest", "insertManifest"}
         => txEnd[key[a]] # None
    /\ pc[a] \in {"local", "mark"} /\ op[a] = "fetch" => txEnd[key[a]] # None

\* Chunks of two payloads, or two chunks of one, have different addresses.
LEMMA SameAddress ==
  ASSUME RegionsDisjoint, txEnd \in [Keys -> Nat \cup {None}],
         NEW k \in Keys, NEW l \in Keys, txEnd[k] # None, txEnd[l] # None,
         NEW c \in Chunks[k], NEW d \in Chunks[l],
         StartOffset(k) + c.lo = StartOffset(l) + d.lo
  PROVE  c = d
<1>1. /\ c.lo \in Nat /\ c.hi \in Nat /\ c.lo <= c.hi /\ c.hi < Size[k]
      /\ d.lo \in Nat /\ d.hi \in Nat /\ d.lo <= d.hi /\ d.hi < Size[l]
  BY ChunksAssumption, ChunksType DEF Chunk
<1>2. /\ txEnd[k] \in Nat /\ txEnd[l] \in Nat
      /\ Size[k] \in Nat /\ Size[l] \in Nat
  BY SizeAssumption
<1>3. k = l
  BY <1>1, <1>2 DEF RegionsDisjoint, IsExistTxDataEndOffset, StartOffset
<1>4. c.lo = d.lo
  BY <1>1, <1>2, <1>3 DEF StartOffset
<1>5. c = d \/ c.hi < d.lo \/ d.hi < c.lo
  BY <1>3, ChunksAssumption
<1>6. QED
  BY <1>1, <1>4, <1>5

\* What a step does to allocated regions and to the chunk bucket.
LEMMA StepEffects ==
  ASSUME Core, AllocInv, [Next]_vars
  PROVE  /\ \A k \in Keys : txEnd[k] # None => txEnd'[k] = txEnd[k]
         /\ \/ chunks' = chunks /\ spoiled' = spoiled
            \/ /\ txEnd' = txEnd
               /\ \E a \in Actors : \E c \in todo[a] :
                    pc[a] = "store" /\ SaveChunk(ChunkStartOffset(c), c)
<1> USE DEF Goto, Return, Proceed, kv, bucket, locks, call, work, locals, bounds
<1>1. ASSUME NEW a \in Actors, NEW c \in Submitted, BeginSubmitChunk(a, c)
      PROVE  txEnd' = txEnd /\ UNCHANGED bucket
  BY <1>1 DEF BeginSubmitChunk, Begin
<1>2. ASSUME NEW a \in Actors, NEW x \in Txs,
             \/ BeginSubmitTx(a, x) \/ BeginFetch(a, x) \/ BeginGet(a, x)
      PROVE  txEnd' = txEnd /\ UNCHANGED bucket
  BY <1>2 DEF BeginSubmitTx, BeginFetch, BeginGet, Begin
<1>3. ASSUME NEW a \in Actors, PutTxFails(a) \/ PutFails(a)
      PROVE  txEnd' = txEnd /\ UNCHANGED bucket
  BY <1>3 DEF PutTxFails, PutFails
<1>4. ASSUME NEW a \in Actors, PutTx(a)
      PROVE  /\ UNCHANGED bucket
             /\ \A k \in Keys : txEnd[k] # None => txEnd'[k] = txEnd[k]
  BY <1>4 DEF PutTx, AllocInv, Allocating, Core, CoreType
<1>5. ASSUME NEW a \in Actors, StoreChunk(a)
      PROVE  /\ txEnd' = txEnd /\ pc[a] = "store"
             /\ \E c \in todo[a] : SaveChunk(ChunkStartOffset(c), c)
  BY <1>5 DEF StoreChunk
<1>6. ASSUME NEW a \in Actors, Step(a), ~PutTx(a), ~StoreChunk(a)
      PROVE  txEnd' = txEnd /\ UNCHANGED bucket
  BY <1>6 DEF Step, CheckMeta, SaveMeta, LockSubmit, NeedEnd, LockEnd, LoadEnd,
     PutAll, Rollback, LoadMeta, KeepMeta, Local, ReadChunk, ReadMisses,
     ReadEnds, Network, ChunkUnreadable, GetManifest, InsertManifest, Mark
<1>7. ASSUME Crash \/ UNCHANGED vars PROVE txEnd' = txEnd /\ UNCHANGED bucket
  BY <1>7 DEF Crash, vars
<1>8. QED
  BY <1>1, <1>2, <1>3, <1>4, <1>5, <1>6, <1>7, NextCases

\* The places of a payload's chunks are addresses of its region.
LEMMA PlaceInRegion ==
  ASSUME RegionsDisjoint, txEnd \in [Keys -> Nat \cup {None}],
         NEW k \in Keys, txEnd[k] # None, NEW c \in Chunks[k]
  PROVE  /\ StartOffset(k) \in Nat /\ StartOffset(k) # 0 /\ txEnd[k] \in Nat
         /\ StartOffset(k) + c.lo \in Region(k)
         /\ c.key = k /\ c.lo \in 0..(Size[k] - 1) /\ Genuine(c)
<1>1. /\ c.key = k /\ c.lo \in Nat /\ c.hi \in Nat /\ c.lo <= c.hi
      /\ c.hi < Size[k]
  BY ChunksAssumption, ChunksType DEF Chunk
<1>2. txEnd[k] \in Nat /\ Size[k] \in Nat /\ Size[k] <= txEnd[k]
  BY SizeAssumption DEF RegionsDisjoint, IsExistTxDataEndOffset
<1>3. QED
  BY <1>1, <1>2 DEF StartOffset, Region, Genuine

\* The address storeChunk computes is one of the address space, and the place
\* of the chunk's first byte when that is a byte of its payload.
LEMMA StoredAt ==
  ASSUME RegionsDisjoint, txEnd \in [Keys -> Nat \cup {None}],
         NEW c \in Chunk, txEnd[c.key] # None
  PROVE  /\ ChunkStartOffset(c) \in Nat
         /\ c.lo \in 0..(Size[c.key] - 1) =>
              ChunkStartOffset(c) = StartOffset(c.key) + c.lo
<1>1. /\ c.key \in Keys /\ c.lo \in Int /\ c.hi \in Nat /\ c.hi - c.lo < Word
      /\ Word \in Nat
  BY SizeAssumption DEF Chunk
<1>2. /\ txEnd[c.key] \in Nat /\ Size[c.key] \in Nat
      /\ Size[c.key] <= txEnd[c.key]
  BY <1>1, SizeAssumption DEF RegionsDisjoint, IsExistTxDataEndOffset
<1>3. StartOffset(c.key) \in Nat
  BY <1>2 DEF StartOffset
<1>4. StartOffset(c.key) + c.hi - (c.hi - c.lo + 1) + 1 = StartOffset(c.key) + c.lo
  BY <1>1, <1>3
<1>5. ChunkStartOffset(c) = Wrap(StartOffset(c.key) + c.lo)
  BY <1>1, <1>3, <1>4 DEF ChunkStartOffset, Wrap
<1>6. QED
  BY <1>1, <1>3, <1>5 DEF Wrap

\* What storing a chunk does to the bucket, address by address.
LEMMA SaveChunkEffect ==
  ASSUME NEW at, NEW c, SaveChunk(at, c)
  PROVE  /\ DOMAIN chunks' = DOMAIN chunks \cup {at} /\ chunks'[at] = c
         /\ \A x \in DOMAIN chunks : x # at => chunks'[x] = chunks[x]
         /\ chunks' = [x \in DOMAIN chunks' |-> chunks'[x]]
         /\ spoiled' = IF Genuine(c) THEN spoiled ELSE spoiled \cup {at}
  BY DEF SaveChunk

\* A genuine chunk is added to those that can be read; a foreign one takes away
\* the chunk at its address and spoils the payload that owns the address.
LEMMA StoreEffects ==
  ASSUME Core, AllocInv, BucketInv, TodoInv, txEnd' = txEnd,
         NEW a \in Actors, pc[a] = "store", NEW c \in todo[a],
         SaveChunk(ChunkStartOffset(c), c)
  PROVE  /\ c \in Chunk /\ c.key = key[a] /\ c.key \in Keys
         /\ txEnd[c.key] # None
         /\ Genuine(c) =>
              /\ Meddled' = Meddled
              /\ \A l \in Keys : Held'[l] = Held[l] \cup ({c} \cap Chunks[l])
         /\ ~Genuine(c) =>
              \A l \in Keys :
                /\ l \in Meddled' <=> \/ l \in Meddled
                                      \/ /\ txEnd[l] # None
                                         /\ ChunkStartOffset(c) \in Region(l)
                /\ Held'[l] = {d \in Held[l] :
                                 StartOffset(l) + d.lo # ChunkStartOffset(c)}
<1> DEFINE at == ChunkStartOffset(c)
<1>1. /\ txEnd \in [Keys -> Nat \cup {None}] /\ RegionsDisjoint
      /\ None \notin Nat
  BY NoneAssumption DEF Core, CoreType, AllocInv
<1>2. /\ c \in Chunk /\ c.key = key[a] /\ c.key \in Keys
      /\ txEnd[c.key] # None
  BY DEF Core, CoreType, CallOK, TodoInv
<1>3. /\ at \in Nat
      /\ c.lo \in 0..(Size[c.key] - 1) => at = StartOffset(c.key) + c.lo
  BY <1>1, <1>2, StoredAt
<1>4. /\ DOMAIN chunks' = DOMAIN chunks \cup {at} /\ chunks'[at] = c
      /\ \A x \in DOMAIN chunks : x # at => chunks'[x] = chunks[x]
      /\ spoiled' = IF Genuine(c) THEN spoiled ELSE spoiled \cup {at}
  BY SaveChunkEffect
<1> HIDE DEF at
<1>5. ASSUME NEW l \in Keys, NEW d \in Chunks[l]
      PROVE  d \in Held'[l] <=>
               /\ txEnd[l] # None
               /\ IF StartOffset(l) + d.lo = at THEN d = c ELSE d \in Held[l]
  BY <1>4 DEF Held, HeldChunks, IsExistTxDataEndOffset, StartOffset
<1>6. ASSUME NEW l \in Keys
      PROVE  Held[l] \subseteq Chunks[l] /\ Held'[l] \subseteq Chunks[l]
  BY DEF Held, HeldChunks
<1>7. ASSUME NEW l \in Keys, NEW d \in Held[l]
      PROVE  txEnd[l] # None
  BY DEF Held, HeldChunks, IsExistTxDataEndOffset
<1>8. ASSUME Genuine(c)
      PROVE  /\ Meddled' = Meddled
             /\ \A l \in Keys : Held'[l] = Held[l] \cup ({c} \cap Chunks[l])
  <2>1. Meddled' = Meddled
    BY <1>4, <1>8 DEF Meddled, Touched, Region, IsExistTxDataEndOffset,
       StartOffset
  <2>2. c \in Chunks[c.key] /\ at = StartOffset(c.key) + c.lo
    BY <1>1, <1>2, <1>3, <1>8, PlaceInRegion DEF Genuine
  <2>3. ASSUME NEW l \in Keys, NEW d \in Chunks[l]
        PROVE  d \in Held'[l] <=> d \in Held[l] \/ d = c
    <3>1. CASE txEnd[l] # None /\ StartOffset(l) + d.lo = at
      BY <3>1, <2>2, <1>1, <1>2, <1>5, SameAddress
    <3>2. CASE txEnd[l] = None \/ StartOffset(l) + d.lo # at
      <4>1. d # c
        BY <3>2, <2>2, <1>2, ChunksAssumption
      <4>2. QED
        BY <3>2, <4>1, <1>5, <1>7
    <3>3. QED
      BY <3>1, <3>2
  <2>4. ASSUME NEW l \in Keys
        PROVE  Held'[l] = Held[l] \cup ({c} \cap Chunks[l])
    BY <2>3, <1>6
  <2>5. QED
    BY <2>1, <2>4
<1>9. ASSUME ~Genuine(c), NEW l \in Keys
      PROVE  /\ l \in Meddled' <=>
                  l \in Meddled \/ (txEnd[l] # None /\ at \in Region(l))
             /\ Held'[l] = {d \in Held[l] : StartOffset(l) + d.lo # at}
  <2>1. spoiled' = spoiled \cup {at}
    BY <1>4, <1>9
  <2>2. l \in Meddled' <=> l \in Meddled \/ (txEnd[l] # None /\ at \in Region(l))
    BY <2>1 DEF Meddled, Touched, Region, IsExistTxDataEndOffset, StartOffset
  <2>3. \A d \in Chunks[l] : d # c
    BY <1>9, ChunksAssumption DEF Genuine
  <2>4. QED
    BY <2>2, <2>3, <1>5, <1>6, <1>7
<1>10. QED
  BY <1>2, <1>8, <1>9 DEF at

\* A payload once spoiled stays so, and a chunk that can be read stays readable
\* as long as its payload is not spoiled.
KeepsHeld ==
  \A k \in Keys : k \notin Meddled' => k \notin Meddled /\ Held[k] \subseteq Held'[k]

\* No step takes a readable chunk away but the storing of a foreign one.
LEMMA HeldStep ==
  ASSUME Core, AllocInv, BucketInv, TodoInv, [Next]_vars
  PROVE  KeepsHeld
<1>1. \A k \in Keys : txEnd[k] # None => txEnd'[k] = txEnd[k]
  BY StepEffects
<1>2. txEnd \in [Keys -> Nat \cup {None}] /\ RegionsDisjoint
  BY DEF Core, CoreType, AllocInv
<1>3. CASE UNCHANGED <<chunks, spoiled>>
  BY <1>1, <1>3 DEF KeepsHeld, Meddled, Touched, Region, Held, HeldChunks,
     IsExistTxDataEndOffset, StartOffset
<1>4. ASSUME txEnd' = txEnd, NEW a \in Actors, NEW c \in todo[a],
             pc[a] = "store", SaveChunk(ChunkStartOffset(c), c)
      PROVE  KeepsHeld
  <2>1. CASE Genuine(c)
    BY <1>4, <2>1, StoreEffects DEF KeepsHeld
  <2>2. CASE ~Genuine(c)
    <3> SUFFICES ASSUME NEW k \in Keys, k \notin Meddled'
                 PROVE  k \notin Meddled /\ Held[k] \subseteq Held'[k]
      BY DEF KeepsHeld
    <3>1. /\ k \notin Meddled
          /\ ~(txEnd[k] # None /\ ChunkStartOffset(c) \in Region(k))
          /\ Held'[k] = {d \in Held[k] : StartOffset(k) + d.lo # ChunkStartOffset(c)}
      BY <1>4, <2>2, StoreEffects
    <3>2. \A d \in Held[k] : txEnd[k] # None /\ d \in Chunks[k]
      BY DEF Held, HeldChunks, IsExistTxDataEndOffset
    <3>3. \A d \in Held[k] : StartOffset(k) + d.lo \in Region(k)
      BY <3>2, <1>2, PlaceInRegion
    <3>4. QED
      BY <3>1, <3>2, <3>3
  <2>3. QED
    BY <2>1, <2>2
<1>5. QED
  BY <1>3, <1>4, StepEffects

\* Chunks are filed where they belong, and foreign ones are on record.
LEMMA BucketStep ==
  ASSUME Core, AllocInv, BucketInv, TodoInv, [Next]_vars
  PROVE  BucketInv'
<1>1. \A k \in Keys : txEnd[k] # None => txEnd'[k] = txEnd[k]
  BY StepEffects
<1>2. /\ txEnd \in [Keys -> Nat \cup {None}] /\ RegionsDisjoint
  BY DEF Core, CoreType, AllocInv
<1>3. CASE UNCHANGED <<chunks, spoiled>>
  BY <1>1, <1>3 DEF BucketInv, ChunksInPlace, IsExistTxDataEndOffset,
     StartOffset, Chunk
<1>4. ASSUME txEnd' = txEnd, NEW a \in Actors, NEW c \in todo[a],
             pc[a] = "store", SaveChunk(ChunkStartOffset(c), c)
      PROVE  BucketInv'
  <2> DEFINE at == ChunkStartOffset(c)
  <2>1. /\ c \in Chunk /\ c.key = key[a] /\ c.key \in Keys
        /\ txEnd[c.key] # None
    BY <1>4, StoreEffects
  <2>2. /\ at \in Nat
        /\ c.lo \in 0..(Size[c.key] - 1) => at = StartOffset(c.key) + c.lo
    BY <1>2, <2>1, StoredAt
  <2>3. /\ DOMAIN chunks' = DOMAIN chunks \cup {at} /\ chunks'[at] = c
        /\ \A x \in DOMAIN chunks : x # at => chunks'[x] = chunks[x]
        /\ chunks' = [x \in DOMAIN chunks' |-> chunks'[x]]
        /\ spoiled' = IF Genuine(c) THEN spoiled ELSE spoiled \cup {at}
    BY <1>4, SaveChunkEffect
  <2> HIDE DEF at
  <2>4. DOMAIN chunks' \subseteq Nat /\ spoiled' \subseteq Nat
    BY <2>2, <2>3 DEF BucketInv
  <2>5. \A x \in DOMAIN chunks' : chunks'[x] \in Chunk
    BY <2>1, <2>3 DEF BucketInv
  <2>6. chunks' \in [DOMAIN chunks' -> Chunk]
    BY <2>3, <2>5
  <2>7. ASSUME NEW x \in DOMAIN chunks'
        PROVE  /\ txEnd[chunks'[x].key] # None
               /\ chunks'[x].lo \in 0..(Size[chunks'[x].key] - 1) =>
                    x = StartOffset(chunks'[x].key) + chunks'[x].lo
               /\ Genuine(chunks'[x]) \/ x \in spoiled'
    <3>1. CASE x = at
      BY <3>1, <2>1, <2>2, <2>3
    <3>2. CASE x # at
      BY <3>2, <2>3 DEF BucketInv, ChunksInPlace, IsExistTxDataEndOffset
    <3>3. QED
      BY <3>1, <3>2
  <2>8. ChunksInPlace'
    BY <2>7, <1>4 DEF ChunksInPlace, IsExistTxDataEndOffset, StartOffset, Genuine
  <2>9. QED
    BY <2>4, <2>6, <2>8 DEF BucketInv
<1>5. QED
  BY <1>3, <1>4, StepEffects

(***************************************************************************)
(* What a running call still has to store.                                 *)
(***************************************************************************)
LEMMA TodoStep ==
  ASSUME Core, AllocInv, TodoInv, [Next]_vars
  PROVE  TodoInv'
<1> USE DEF Goto, Return, Proceed, kv, bucket, locks, call, work, locals, bounds,
            IsExistTxDataEndOffset
<1>e. \A k \in Keys : txEnd[k] # None => txEnd'[k] = txEnd[k]
  BY StepEffects
<1>t. /\ pc \in [Actors -> Labels] /\ key \in [Actors -> Keys \cup {None}]
      /\ op \in [Actors -> Ops] /\ todo \in [Actors -> SUBSET Chunk]
      /\ txEnd \in [Keys -> Nat \cup {None}] /\ None \notin Nat
      /\ None \notin Keys
  BY NoneAssumption DEF Core, CoreType
<1>c. /\ \A b \in Actors : pc[b] # "done" => key[b] \in Keys
      /\ \A b \in Actors : pc[b] \in {"loadMeta", "keepMeta", "network",
           "getManifest", "insertManifest"} => op[b] = "fetch"
      /\ \A b \in Actors : pc[b] \in {"needEnd", "lockEnd", "loadEnd",
           "putAll", "putTx", "store"} => op[b] \in {"chunk", "tx", "fetch"}
      /\ \A b \in Actors : pc[b] # "done" /\ op[b] # "chunk" =>
           tx[b] \in Txs /\ key[b] = KeyOf[tx[b]]
  BY DEF Core, CallOK
<1>d. \A x \in Txs : \A c \in Data[x] : c.key = KeyOf[x]
  BY TxAssumption
<1>1. ASSUME NEW a \in Actors, NEW c \in Submitted, BeginSubmitChunk(a, c)
      PROVE  TodoInv'
  BY <1>1, <1>e, <1>t, <1>c DEF BeginSubmitChunk, Begin, TodoInv
<1>2. ASSUME NEW a \in Actors, NEW x \in Txs,
             \/ BeginSubmitTx(a, x) \/ BeginFetch(a, x) \/ BeginGet(a, x)
      PROVE  TodoInv'
  BY <1>2, <1>e, <1>t, <1>c
  DEF BeginSubmitTx, BeginFetch, BeginGet, Begin, TodoInv
<1>3. ASSUME NEW a \in Actors, PutTxFails(a) \/ PutFails(a) PROVE TodoInv'
  BY <1>3, <1>e, <1>t, <1>c DEF PutTxFails, PutFails, TodoInv
<1>4. ASSUME NEW a \in Actors, Step(a) PROVE TodoInv'
  <2> USE DEF TodoInv
  <2>1. CASE CheckMeta(a) BY <2>1, <1>e, <1>t, <1>c DEF CheckMeta
  <2>2. CASE SaveMeta(a) BY <2>2, <1>e, <1>t, <1>c DEF SaveMeta
  <2>3. CASE LockSubmit(a) BY <2>3, <1>e, <1>t, <1>c DEF LockSubmit
  <2>4. CASE NeedEnd(a) BY <2>4, <1>e, <1>t, <1>c DEF NeedEnd
  <2>5. CASE LockEnd(a) BY <2>5, <1>e, <1>t, <1>c DEF LockEnd
  <2>6. CASE LoadEnd(a) BY <2>6, <1>e, <1>t, <1>c, <1>d DEF LoadEnd, Synced
  <2>7. CASE PutAll(a) BY <2>7, <1>e, <1>t, <1>c DEF PutAll
  <2>8. CASE PutTx(a)
    <3>1. key[a] \in Keys /\ key' = key
      BY <2>8, <1>c DEF PutTx
    <3>2. txEnd'[key[a]] # None
      BY <2>8, <3>1, <1>t, SizeAssumption DEF PutTx, Core, CoreType
    <3>3. QED
      BY <2>8, <3>1, <3>2, <1>e, <1>t, <1>c, <1>d DEF PutTx, Synced
  <2>9. CASE Rollback(a) BY <2>9, <1>e, <1>t, <1>c DEF Rollback
  <2>10. CASE LoadMeta(a) BY <2>10, <1>e, <1>t, <1>c DEF LoadMeta
  <2>11. CASE KeepMeta(a) BY <2>11, <1>e, <1>t, <1>c DEF KeepMeta
  <2>12. CASE Local(a) BY <2>12, <1>e, <1>t, <1>c DEF Local
  <2>13. CASE ReadChunk(a) BY <2>13, <1>e, <1>t, <1>c DEF ReadChunk
  <2>14. CASE ReadMisses(a) BY <2>14, <1>e, <1>t, <1>c DEF ReadMisses
  <2>15. CASE ReadEnds(a) BY <2>15, <1>e, <1>t, <1>c DEF ReadEnds
  <2>16. CASE Network(a) BY <2>16, <1>e, <1>t, <1>c, <1>d DEF Network
  <2>17. CASE StoreChunk(a) BY <2>17, <1>e, <1>t, <1>c DEF StoreChunk
  <2>u. CASE ChunkUnreadable(a) BY <2>u, <1>e, <1>t, <1>c DEF ChunkUnreadable
  <2>18. CASE GetManifest(a) BY <2>18, <1>e, <1>t, <1>c DEF GetManifest
  <2>19. CASE InsertManifest(a) BY <2>19, <1>e, <1>t, <1>c DEF InsertManifest
  <2>20. CASE Mark(a) BY <2>20, <1>e, <1>t, <1>c DEF Mark
  <2>21. QED
    BY <1>4, <2>1, <2>2, <2>3, <2>4, <2>5, <2>6, <2>7, <2>8, <2>9, <2>10,
       <2>11, <2>12, <2>13, <2>14, <2>15, <2>16, <2>17, <2>18, <2>19, <2>20, <2>u
    DEF Step
<1>5. CASE Crash
  BY <1>5, <1>t DEF Crash, Fresh, TodoInv
<1>6. CASE UNCHANGED vars
  BY <1>6 DEF vars, TodoInv
<1>7. QED
  BY <1>1, <1>2, <1>3, <1>4, <1>5, <1>6, NextCases

(***************************************************************************)
(* The reading loop.  As long as it has met no foreign chunk, its position  *)
(* never lies inside a chunk and it has collected exactly the chunks       *)
(* before it; in a payload that is not spoiled it has met none.            *)
(***************************************************************************)
ReadAt(a) ==
  /\ got[a] = {c \in Chunks[key[a]] : c.hi < pos[a]}
  /\ \A c \in Chunks[key[a]] : c.hi < pos[a] \/ pos[a] <= c.lo

ReadInv ==
  /\ pos \in [Actors -> Nat]
  /\ got \in [Actors -> SUBSET Chunk]
  /\ \A a \in Actors :
       /\ pc[a] \notin {"read", "network"} => pos[a] = 0
       /\ pc[a] \notin {"read", "network", "done"} => got[a] = {}
       /\ pc[a] = "read" =>
            /\ (\A c \in got[a] : Genuine(c)) => ReadAt(a)
            /\ key[a] \notin Meddled => got[a] \subseteq Held[key[a]]

\* The loop steps from chunk boundary to chunk boundary: a genuine chunk it
\* finds is the payload's own chunk that starts at the position.
LEMMA ReadChunkAdvances ==
  ASSUME Core, AllocInv, BucketInv, TodoInv, ReadInv,
         NEW a \in Actors, ReadChunk(a)
  PROVE  /\ got' \in [Actors -> SUBSET Chunk] /\ pos' \in [Actors -> Nat]
         /\ (\A c \in got'[a] : Genuine(c)) =>
              /\ got'[a] = {c \in Chunks[key[a]] : c.hi < pos'[a]}
              /\ \A c \in Chunks[key[a]] : c.hi < pos'[a] \/ pos'[a] <= c.lo
         /\ key[a] \notin Meddled => got'[a] \subseteq Held[key[a]]
<1> DEFINE k == key[a]
           at == StartOffset(k) + pos[a]
           d == chunks[at]
<1>1. /\ k \in Keys /\ txEnd[k] # None /\ txEnd[k] \in Nat /\ Size[k] \in Nat
      /\ pos[a] \in Nat /\ Size[k] <= txEnd[k]
      /\ txEnd \in [Keys -> Nat \cup {None}] /\ RegionsDisjoint
  BY SizeAssumption, NoneAssumption DEF ReadChunk, Core, CoreType, CallOK,
     TodoInv, ReadInv, AllocInv, RegionsDisjoint, IsExistTxDataEndOffset
<1>2. pos[a] + 1 < Size[k]
  BY <1>1 DEF ReadChunk, MoreToRead, StartOffset
<1>3. /\ d \in Chunk /\ d.key \in Keys /\ txEnd[d.key] # None
      /\ d.lo \in 0..(Size[d.key] - 1) => at = StartOffset(d.key) + d.lo
      /\ Genuine(d) \/ at \in spoiled
      /\ d.lo \in Int /\ d.hi \in Nat /\ d.lo <= d.hi + 1
  BY DEF ReadChunk, BucketInv, ChunksInPlace, IsExistTxDataEndOffset, Chunk
<1>4. /\ got'[a] = got[a] \cup {d} /\ pos'[a] = pos[a] + d.hi - d.lo + 1
      /\ pos' \in [Actors -> Nat] /\ got' \in [Actors -> SUBSET Chunk]
  <2>1. /\ got' = [got EXCEPT ![a] = got[a] \cup {d}]
        /\ pos' = [pos EXCEPT ![a] = pos[a] + d.hi - d.lo + 1]
    BY DEF ReadChunk
  <2>2. pos[a] + d.hi - d.lo + 1 \in Nat
    BY <1>1, <1>3
  <2>3. QED
    BY <2>1, <2>2, <1>3 DEF ReadInv
<1>5. at \in DOMAIN chunks /\ pc[a] = "read"
  BY DEF ReadChunk
<1>6. at \in Region(k)
  BY <1>1, <1>2 DEF Region, StartOffset
<1> HIDE DEF d
<1>7. ASSUME Genuine(d)
      PROVE  /\ d.key = k /\ d \in Chunks[k] /\ d.lo = pos[a]
             /\ d.lo <= d.hi /\ pos'[a] = d.hi + 1
  <2>1. /\ d \in Chunks[d.key] /\ d.lo \in Nat /\ d.lo <= d.hi
        /\ d.hi < Size[d.key] /\ txEnd[d.key] \in Nat /\ Size[d.key] \in Nat
    BY <1>1, <1>3, <1>7, ChunksAssumption, SizeAssumption DEF Genuine
  <2>2. at = StartOffset(d.key) + d.lo
    BY <1>3, <2>1
  <2>3. d.key = k
    BY <1>1, <1>2, <1>3, <2>1, <2>2
    DEF RegionsDisjoint, IsExistTxDataEndOffset, StartOffset
  <2>4. d.lo = pos[a]
    BY <1>1, <2>1, <2>2, <2>3 DEF StartOffset
  <2>5. QED
    BY <1>1, <1>3, <1>4, <2>1, <2>3, <2>4
<1> HIDE DEF k
<1>8. ASSUME \A c \in got'[a] : Genuine(c)
      PROVE  /\ got'[a] = {c \in Chunks[k] : c.hi < pos'[a]}
             /\ \A c \in Chunks[k] : c.hi < pos'[a] \/ pos'[a] <= c.lo
  <2>1. Genuine(d) /\ \A c \in got[a] : Genuine(c)
    BY <1>4, <1>8
  <2>2. /\ d.key = k /\ d \in Chunks[k] /\ d.lo = pos[a]
        /\ d.lo <= d.hi /\ pos'[a] = d.hi + 1
    BY <1>7, <2>1
  <2>3. /\ got[a] = {c \in Chunks[k] : c.hi < pos[a]}
        /\ \A c \in Chunks[k] : c.hi < pos[a] \/ pos[a] <= c.lo
    BY <1>5, <2>1 DEF ReadInv, ReadAt, k
  <2>4. \A c \in Chunks[k] : /\ c.lo \in Nat /\ c.hi \in Nat /\ c.lo <= c.hi
                             /\ c = d \/ c.hi < d.lo \/ d.hi < c.lo
    BY <1>1, <2>2, ChunksAssumption, ChunksType DEF Chunk
  <2>5. ASSUME NEW c \in Chunks[k]
        PROVE  c.hi < d.hi + 1 <=> (c.hi < pos[a] \/ c = d)
    BY <1>1, <1>3, <2>2, <2>3, <2>4
  <2>6. got'[a] = {c \in Chunks[k] : c.hi < pos'[a]}
    BY <1>4, <2>2, <2>3, <2>5
  <2>7. \A c \in Chunks[k] : c.hi < pos'[a] \/ pos'[a] <= c.lo
    BY <1>1, <1>3, <2>2, <2>3, <2>4
  <2>8. QED
    BY <2>6, <2>7
<1>9. ASSUME k \notin Meddled
      PROVE  got'[a] \subseteq Held[k]
  <2>1. at \notin spoiled
    BY <1>1, <1>6, <1>9 DEF Meddled, Touched, IsExistTxDataEndOffset
  <2>2. d \in Chunks[k] /\ d.lo = pos[a]
    BY <1>3, <1>7, <2>1
  <2>3. d \in Held[k]
    BY <1>1, <1>5, <2>2 DEF Held, HeldChunks, IsExistTxDataEndOffset, d
  <2>4. got[a] \subseteq Held[k]
    BY <1>5, <1>9 DEF ReadInv, k
  <2>5. QED
    BY <1>4, <2>3, <2>4
<1>10. QED
  BY <1>4, <1>8, <1>9 DEF k

\* getArTxData's loop has always collected exactly the chunks before its
\* position, whatever the other goroutines store meanwhile.
LEMMA ReadStep ==
  ASSUME Core, AllocInv, BucketInv, TodoInv, ReadInv, [Next]_vars
  PROVE  ReadInv'
<1> USE DEF Goto, Return, Proceed, kv, bucket, locks, call, work, locals, bounds,
            ReadAt
<1>t. /\ pc \in [Actors -> Labels] /\ key \in [Actors -> Keys \cup {None}]
      /\ op \in [Actors -> Ops]
  BY DEF Core, CoreType
<1>c. /\ \A k \in Keys : k \notin Meddled' =>
           k \notin Meddled /\ Held[k] \subseteq Held'[k]
      /\ \A b \in Actors : pc[b] # "done" => key[b] \in Keys
  BY HeldStep DEF KeepsHeld, Core, CallOK
<1>p. \A k \in Keys : \A c \in Chunks[k] : c.lo \in Nat /\ c.hi \in Nat
  BY ChunksAssumption, ChunksType DEF Chunk
<1>1. ASSUME NEW a \in Actors, NEW c \in Submitted, BeginSubmitChunk(a, c)
      PROVE  ReadInv'
  BY <1>1, <1>t, <1>c DEF BeginSubmitChunk, Begin, ReadInv
<1>2. ASSUME NEW a \in Actors, NEW x \in Txs,
             \/ BeginSubmitTx(a, x) \/ BeginFetch(a, x) \/ BeginGet(a, x)
      PROVE  ReadInv'
  BY <1>2, <1>t, <1>c
  DEF BeginSubmitTx, BeginFetch, BeginGet, Begin, ReadInv
<1>3. ASSUME NEW a \in Actors, PutTxFails(a) \/ PutFails(a) PROVE ReadInv'
  BY <1>3, <1>t, <1>c DEF PutTxFails, PutFails, ReadInv
<1>4. ASSUME NEW a \in Actors, Step(a) PROVE ReadInv'
  <2> USE DEF ReadInv
  <2>1. CASE CheckMeta(a) BY <2>1, <1>t, <1>c DEF CheckMeta
  <2>2. CASE SaveMeta(a) BY <2>2, <1>t, <1>c DEF SaveMeta
  <2>3. CASE LockSubmit(a) BY <2>3, <1>t, <1>c DEF LockSubmit
  <2>4. CASE NeedEnd(a) BY <2>4, <1>t, <1>c DEF NeedEnd
  <2>5. CASE LockEnd(a) BY <2>5, <1>t, <1>c DEF LockEnd
  <2>6. CASE LoadEnd(a) BY <2>6, <1>t, <1>c DEF LoadEnd, Synced
  <2>7. CASE PutAll(a) BY <2>7, <1>t, <1>c DEF PutAll
  <2>8. CASE PutTx(a) BY <2>8, <1>t, <1>c DEF PutTx, Synced
  <2>9. CASE Rollback(a) BY <2>9, <1>t, <1>c DEF Rollback
  <2>10. CASE LoadMeta(a) BY <2>10, <1>t, <1>c DEF LoadMeta
  <2>11. CASE KeepMeta(a) BY <2>11, <1>t, <1>c DEF KeepMeta
  <2>12. CASE Local(a)
    <3>1. key[a] \in Keys /\ pos[a] = 0 /\ got[a] = {}
      BY <2>12 DEF Local, Core, CallOK
    <3>2. \A c \in Chunks[key[a]] : 0 <= c.lo /\ ~(c.hi < 0)
      BY <3>1, <1>p
    <3>3. QED
      BY <2>12, <3>1, <3>2, <1>t, <1>c DEF Local
  <2>13. CASE ReadChunk(a)
    <3>1. \A b \in Actors \ {a} : got'[b] = got[b] /\ pos'[b] = pos[b]
      BY <2>13 DEF ReadChunk
    <3>2. pc' = pc /\ key' = key /\ pc[a] = "read"
      BY <2>13 DEF ReadChunk
    <3>3. QED
      BY <2>13, <3>1, <3>2, <1>t, <1>c, ReadChunkAdvances
  <2>14. CASE ReadMisses(a) BY <2>14, <1>t, <1>c DEF ReadMisses
  <2>15. CASE ReadEnds(a) BY <2>15, <1>t, <1>c DEF ReadEnds
  <2>16. CASE Network(a) BY <2>16, <1>t, <1>c DEF Network
  <2>17. CASE StoreChunk(a) BY <2>17, <1>t, <1>c DEF StoreChunk
  <2>u. CASE ChunkUnreadable(a) BY <2>u, <1>t, <1>c DEF ChunkUnreadable
  <2>18. CASE GetManifest(a) BY <2>18, <1>t, <1>c DEF GetManifest
  <2>19. CASE InsertManifest(a) BY <2>19, <1>t, <1>c DEF InsertManifest
  <2>20. CASE Mark(a) BY <2>20, <1>t, <1>c DEF Mark
  <2>21. QED
    BY <1>4, <2>1, <2>2, <2>3, <2>4, <2>5, <2>6, <2>7, <2>8, <2>9, <2>10,
       <2>11, <2>12, <2>13, <2>14, <2>15, <2>16, <2>17, <2>18, <2>19, <2>20, <2>u
    DEF Step
<1>5. CASE Crash
  BY <1>5, <1>t DEF Crash, Fresh, ReadInv
<1>6. CASE UNCHANGED vars
  BY <1>6, <1>t, <1>c DEF vars, ReadInv
<1>7. QED
  BY <1>1, <1>2, <1>3, <1>4, <1>5, <1>6, NextCases

\* A loop that has ended without meeting a foreign chunk has collected the whole
\* payload; that of a payload not spoiled finds it all in the bucket.
LEMMA ReadEndsWhole ==
  ASSUME NoOneByteTail, Core, AllocInv, TodoInv, ReadInv,
         NEW a \in Actors, pc[a] = "read", ~MoreToRead(a)
  PROVE  /\ got[a] = Chunks[key[a]] \/ \E c \in got[a] : ~Genuine(c)
         /\ key[a] \notin Meddled => Chunks[key[a]] \subseteq Held[key[a]]
<1>1. /\ key[a] \in Keys /\ txEnd[key[a]] \in Nat /\ Size[key[a]] \in Nat
      /\ pos[a] \in Nat
  BY SizeAssumption, NoneAssumption
  DEF Core, CoreType, CallOK, TodoInv, ReadInv
<1>2. Size[key[a]] - 1 <= pos[a]
  BY <1>1 DEF MoreToRead, StartOffset
<1>3. ASSUME \A c \in got[a] : Genuine(c)
      PROVE  got[a] = Chunks[key[a]]
  <2>1. ReadAt(a)
    BY <1>3 DEF ReadInv
  <2>2. ASSUME NEW c \in Chunks[key[a]] PROVE c.hi < pos[a]
    <3>1. /\ c.lo \in Nat /\ c.hi \in Nat /\ c.lo <= c.hi
          /\ c.hi < Size[key[a]] /\ c.lo # Size[key[a]] - 1
      BY <1>1, ChunksAssumption, ChunksType DEF Chunk, NoOneByteTail
    <3>2. c.hi < pos[a] \/ pos[a] <= c.lo
      BY <2>1 DEF ReadAt
    <3>3. QED
      BY <1>1, <1>2, <3>1, <3>2
  <2>3. QED
    BY <2>1, <2>2 DEF ReadAt
<1>4. ASSUME key[a] \notin Meddled
      PROVE  Chunks[key[a]] \subseteq Held[key[a]]
  <2>1. got[a] \subseteq Held[key[a]]
    BY <1>4 DEF ReadInv
  <2>2. \A c \in Held[key[a]] : c \in Chunks[key[a]]
    BY <1>1 DEF Held, HeldChunks
  <2>3. \A c \in got[a] : Genuine(c)
    BY <1>1, <2>1, <2>2, ChunksAssumption DEF Genuine
  <2>4. QED
    BY <1>3, <2>1, <2>3
<1>5. QED
  BY <1>3, <1>4

\* A payload of no bytes has no chunks: getArTxData's early return is right.
LEMMA EmptyPayload ==
  ASSUME NEW k \in Keys, Size[k] = 0
  PROVE  Chunks[k] = {}
  BY ChunksAssumption, ChunksType DEF Chunk

\* A getArTxData that returns nil has the whole payload or a foreign chunk.
LEMMA WholeStep ==
  ASSUME NoOneByteTail, Core, AllocInv, TodoInv, ReadInv, ReadsWholePayload,
         [Next]_vars
  PROVE  ReadsWholePayload'
<1> USE DEF Goto, Return, Proceed, kv, bucket, locks, call, work, locals, bounds
<1>t. /\ pc \in [Actors -> Labels] /\ key \in [Actors -> Keys \cup {None}]
      /\ op \in [Actors -> Ops] /\ got \in [Actors -> SUBSET Chunk]
      /\ res \in [Actors -> {"ok", "err", "exist", "none"}]
  BY DEF Core, CoreType, ReadInv
<1>c. /\ \A b \in Actors : pc[b] \in {"checkMeta", "saveMeta"} => op[b] = "tx"
      /\ \A b \in Actors : pc[b] \in {"loadMeta", "keepMeta", "network",
           "getManifest", "insertManifest"} => op[b] = "fetch"
      /\ \A b \in Actors : pc[b] \in {"needEnd", "lockEnd", "loadEnd",
           "putAll", "putTx", "rollback", "store"} =>
             op[b] \in {"chunk", "tx", "fetch"}
      /\ \A b \in Actors : pc[b] = "mark" => op[b] \in {"tx", "fetch"}
      /\ \A b \in Actors : pc[b] # "done" => key[b] \in Keys
  BY DEF Core, CallOK
<1>1. ASSUME NEW a \in Actors, NEW c \in Submitted, BeginSubmitChunk(a, c)
      PROVE  ReadsWholePayload'
  BY <1>1, <1>t, <1>c DEF BeginSubmitChunk, Begin, ReadsWholePayload
<1>2. ASSUME NEW a \in Actors, NEW x \in Txs,
             \/ BeginSubmitTx(a, x) \/ BeginFetch(a, x) \/ BeginGet(a, x)
      PROVE  ReadsWholePayload'
  BY <1>2, <1>t, <1>c
  DEF BeginSubmitTx, BeginFetch, BeginGet, Begin, ReadsWholePayload
<1>3. ASSUME NEW a \in Actors, PutTxFails(a) \/ PutFails(a) PROVE ReadsWholePayload'
  BY <1>3, <1>t, <1>c DEF PutTxFails, PutFails, ReadsWholePayload
<1>4. ASSUME NEW a \in Actors, Step(a) PROVE ReadsWholePayload'
  <2> USE DEF ReadsWholePayload
  <2>1. CASE CheckMeta(a) BY <2>1, <1>t, <1>c DEF CheckMeta
  <2>2. CASE SaveMeta(a) BY <2>2, <1>t, <1>c DEF SaveMeta
  <2>3. CASE LockSubmit(a) BY <2>3, <1>t, <1>c DEF LockSubmit
  <2>4. CASE NeedEnd(a) BY <2>4, <1>t, <1>c DEF NeedEnd
  <2>5. CASE LockEnd(a) BY <2>5, <1>t, <1>c DEF LockEnd
  <2>6. CASE LoadEnd(a) BY <2>6, <1>t, <1>c DEF LoadEnd, Synced
  <2>7. CASE PutAll(a) BY <2>7, <1>t, <1>c DEF PutAll
  <2>8. CASE PutTx(a) BY <2>8, <1>t, <1>c DEF PutTx, Synced
  <2>9. CASE Rollback(a) BY <2>9, <1>t, <1>c DEF Rollback
  <2>10. CASE LoadMeta(a) BY <2>10, <1>t, <1>c DEF LoadMeta
  <2>11. CASE KeepMeta(a) BY <2>11, <1>t, <1>c DEF KeepMeta
  <2>12. CASE Local(a)
    <3>1. key[a] \in Keys /\ got[a] = {} /\ pc[a] = "local"
      BY <2>12 DEF Local, Core, CallOK, ReadInv
    <3>2. Size[key[a]] = 0 => got[a] = Chunks[key[a]]
      BY <3>1, EmptyPayload
    <3>3. \A b \in Actors \ {a} : pc'[b] = pc[b] /\ got'[b] = got[b]
                                  /\ res'[b] = res[b]
      BY <2>12, <1>t DEF Local
    <3>4. op' = op /\ key' = key
      BY <2>12, <3>1, <1>t DEF Local
    <3>5. ASSUME pc'[a] = "done", op[a] = "get", res'[a] = "ok"
          PROVE  Size[key[a]] = 0 /\ got'[a] = got[a]
      BY <2>12, <3>1, <3>5, <1>t DEF Local
    <3>6. QED
      BY <3>2, <3>3, <3>4, <3>5
  <2>13. CASE ReadChunk(a) BY <2>13, <1>t, <1>c DEF ReadChunk
  <2>14. CASE ReadMisses(a) BY <2>14, <1>t, <1>c DEF ReadMisses
  <2>15. CASE ReadEnds(a)
    <3>1. got[a] = Chunks[key[a]] \/ \E c \in got[a] : ~Genuine(c)
      BY <2>15, ReadEndsWhole DEF ReadEnds
    <3>2. QED
      BY <2>15, <3>1, <1>t, <1>c DEF ReadEnds
  <2>16. CASE Network(a) BY <2>16, <1>t, <1>c DEF Network
  <2>17. CASE StoreChunk(a) BY <2>17, <1>t, <1>c DEF StoreChunk
  <2>u. CASE ChunkUnreadable(a) BY <2>u, <1>t, <1>c DEF ChunkUnreadable
  <2>18. CASE GetManifest(a) BY <2>18, <1>t, <1>c DEF GetManifest
  <2>19. CASE InsertManifest(a) BY <2>19, <1>t, <1>c DEF InsertManifest
  <2>20. CASE Mark(a) BY <2>20, <1>t, <1>c DEF Mark
  <2>21. QED
    BY <1>4, <2>1, <2>2, <2>3, <2>4, <2>5, <2>6, <2>7, <2>8, <2>9, <2>10,
       <2>11, <2>12, <2>13, <2>14, <2>15, <2>16, <2>17, <2>18, <2>19, <2>20, <2>u
    DEF Step
<1>5. CASE Crash
  BY <1>5, <1>t, <1>c DEF Crash, Fresh, ReadsWholePayload
<1>6. CASE UNCHANGED vars
  BY <1>6, <1>t, <1>c DEF vars, ReadsWholePayload
<1>7. QED
  BY <1>1, <1>2, <1>3, <1>4, <1>5, <1>6, NextCases

(***************************************************************************)
(* What FetchAndStoreTx has stored so far.                                 *)
(***************************************************************************)
FetchInv ==
  \A a \in Actors :
    op[a] = "fetch" =>
      /\ pc[a] = "store" /\ key[a] \notin Meddled =>
           Chunks[key[a]] \ todo[a] \subseteq Held[key[a]]
      /\ \/ pc[a] \in {"getManifest", "insertManifest", "mark"}
         \/ pc[a] = "done" /\ res[a] = "ok"
         => /\ key[a] \in Keys /\ txEnd[key[a]] # None
            /\ key[a] \notin Meddled => Chunks[key[a]] \subseteq Held[key[a]]

\* A FetchAndStoreTx that returns nil, or has stored its last chunk, leaves
\* the whole payload in the store, unless the payload is spoiled.
LEMMA FetchStep ==
  ASSUME NoOneByteTail, Core, AllocInv, BucketInv, TodoInv, ReadInv, FetchInv,
         [Next]_vars
  PROVE  FetchInv'
<1> USE DEF Goto, Return, Proceed, kv, bucket, locks, call, work, locals, bounds,
            IsExistTxDataEndOffset
<1>t. /\ pc \in [Actors -> Labels] /\ key \in [Actors -> Keys \cup {None}]
      /\ op \in [Actors -> Ops] /\ todo \in [Actors -> SUBSET Chunk]
      /\ res \in [Actors -> {"ok", "err", "exist", "none"}]
  BY DEF Core, CoreType
<1>c. /\ \A k \in Keys : k \notin Meddled' =>
           k \notin Meddled /\ Held[k] \subseteq Held'[k]
      /\ \A k \in Keys : txEnd[k] # None => txEnd'[k] # None
      /\ \A b \in Actors : pc[b] # "done" => key[b] \in Keys
      /\ \A b \in Actors : pc[b] \in {"checkMeta", "saveMeta"} => op[b] = "tx"
      /\ \A b \in Actors : pc[b] = "lockSubmit" => op[b] \in {"chunk", "tx"}
      /\ \A b \in Actors : pc[b] \in {"store", "read", "network",
           "getManifest", "insertManifest"} => txEnd[key[b]] # None
      /\ \A b \in Actors : pc[b] = "local" /\ op[b] = "fetch" =>
           txEnd[key[b]] # None
  BY HeldStep, StepEffects DEF KeepsHeld, Core, CallOK, TodoInv
<1>d. \A b \in Actors : pc[b] = "network" => Chunks[key[b]] \subseteq Data[tx[b]]
  BY TxAssumption DEF Core, CallOK
<1>1. ASSUME NEW a \in Actors, NEW c \in Submitted, BeginSubmitChunk(a, c)
      PROVE  FetchInv'
  BY <1>1, <1>t, <1>c DEF BeginSubmitChunk, Begin, FetchInv
<1>2. ASSUME NEW a \in Actors, NEW x \in Txs,
             \/ BeginSubmitTx(a, x) \/ BeginFetch(a, x) \/ BeginGet(a, x)
      PROVE  FetchInv'
  BY <1>2, <1>t, <1>c
  DEF BeginSubmitTx, BeginFetch, BeginGet, Begin, FetchInv
<1>3. ASSUME NEW a \in Actors, PutTxFails(a) \/ PutFails(a) PROVE FetchInv'
  BY <1>3, <1>t, <1>c DEF PutTxFails, PutFails, FetchInv
<1>4. ASSUME NEW a \in Actors, Step(a) PROVE FetchInv'
  <2> USE DEF FetchInv
  <2>1. CASE CheckMeta(a) BY <2>1, <1>t, <1>c DEF CheckMeta
  <2>2. CASE SaveMeta(a) BY <2>2, <1>t, <1>c DEF SaveMeta
  <2>3. CASE LockSubmit(a) BY <2>3, <1>t, <1>c DEF LockSubmit
  <2>4. CASE NeedEnd(a) BY <2>4, <1>t, <1>c DEF NeedEnd
  <2>5. CASE LockEnd(a) BY <2>5, <1>t, <1>c DEF LockEnd
  <2>6. CASE LoadEnd(a) BY <2>6, <1>t, <1>c DEF LoadEnd, Synced
  <2>7. CASE PutAll(a) BY <2>7, <1>t, <1>c DEF PutAll
  <2>8. CASE PutTx(a) BY <2>8, <1>t, <1>c DEF PutTx, Synced
  <2>9. CASE Rollback(a) BY <2>9, <1>t, <1>c DEF Rollback
  <2>10. CASE LoadMeta(a) BY <2>10, <1>t, <1>c DEF LoadMeta
  <2>11. CASE KeepMeta(a) BY <2>11, <1>t, <1>c DEF KeepMeta
  <2>12. CASE Local(a)
    <3>1. key[a] \in Keys /\ pc[a] = "local"
      BY <2>12 DEF Local, Core, CallOK
    <3>2. Size[key[a]] = 0 => Chunks[key[a]] = {}
      BY <3>1, EmptyPayload
    <3>3. QED
      BY <2>12, <3>1, <3>2, <1>t, <1>c DEF Local
  <2>13. CASE ReadChunk(a) BY <2>13, <1>t, <1>c DEF ReadChunk
  <2>14. CASE ReadMisses(a) BY <2>14, <1>t, <1>c DEF ReadMisses
  <2>15. CASE ReadEnds(a)
    <3>1. key[a] \notin Meddled => Chunks[key[a]] \subseteq Held[key[a]]
      BY <2>15, ReadEndsWhole DEF ReadEnds
    <3>2. QED
      BY <2>15, <3>1, <1>t, <1>c DEF ReadEnds
  <2>16. CASE Network(a) BY <2>16, <1>t, <1>c, <1>d DEF Network
  <2>17. CASE StoreChunk(a)
    <3>1. PICK c \in todo[a] :
            /\ SaveChunk(ChunkStartOffset(c), c)
            /\ IF todo[a] = {c} /\ op[a] = "chunk"
               THEN Return(a, "ok")
               ELSE /\ todo' = [todo EXCEPT ![a] = @ \ {c}]
                    /\ Goto(a, IF todo[a] # {c} THEN "store"
                               ELSE IF op[a] = "tx" THEN "mark"
                               ELSE "getManifest")
                    /\ UNCHANGED <<locks, cur, pos, got, res>>
      BY <2>17 DEF StoreChunk
    <3>2. {c} \cap Chunks[key[a]] \subseteq Held'[key[a]]
      <4>1. txEnd' = txEnd /\ pc[a] = "store"
        BY <2>17 DEF StoreChunk
      <4>2. /\ c.key = key[a] /\ c.key \in Keys
            /\ Genuine(c) => Held'[c.key] = Held[c.key] \cup ({c} \cap Chunks[c.key])
        BY <3>1, <4>1, StoreEffects
      <4>3. QED
        BY <4>2 DEF Genuine
    <3>3. /\ op' = op /\ key' = key /\ pc[a] = "store"
          /\ \A b \in Actors \ {a} : /\ pc'[b] = pc[b] /\ todo'[b] = todo[b]
                                     /\ res'[b] = res[b]
      BY <2>17, <1>t DEF StoreChunk
    <3>4. ASSUME op[a] = "fetch"
          PROVE  /\ pc'[a] \in {"store", "getManifest"}
                 /\ key[a] \notin Meddled' =>
                      /\ Chunks[key[a]] \ todo'[a] \subseteq Held'[key[a]]
                      /\ pc'[a] = "getManifest" =>
                           Chunks[key[a]] \subseteq Held'[key[a]]
      <4>1. /\ todo'[a] = todo[a] \ {c}
            /\ pc'[a] = IF todo[a] # {c} THEN "store" ELSE "getManifest"
        BY <3>1, <3>4, <1>t
      <4>2. key[a] \in Keys
        BY <3>3, <1>c
      <4>3. ASSUME key[a] \notin Meddled'
            PROVE  Chunks[key[a]] \ todo[a] \subseteq Held'[key[a]]
        BY <4>2, <4>3, <3>3, <3>4, <1>c
      <4>4. QED
        BY <4>1, <4>3, <3>2
    <3>5. QED
      BY <3>3, <3>4, <1>t, <1>c
  <2>u. CASE ChunkUnreadable(a) BY <2>u, <1>t, <1>c DEF ChunkUnreadable
  <2>18. CASE GetManifest(a) BY <2>18, <1>t, <1>c DEF GetManifest
  <2>19. CASE InsertManifest(a) BY <2>19, <1>t, <1>c DEF InsertManifest
  <2>20. CASE Mark(a) BY <2>20, <1>t, <1>c DEF Mark
  <2>21. QED
    BY <1>4, <2>1, <2>2, <2>3, <2>4, <2>5, <2>6, <2>7, <2>8, <2>9, <2>10,
       <2>11, <2>12, <2>13, <2>14, <2>15, <2>16, <2>17, <2>18, <2>19, <2>20, <2>u
    DEF Step
<1>5. CASE Crash
  BY <1>5, <1>t, <1>c DEF Crash, Fresh, FetchInv
<1>6. CASE UNCHANGED vars
  BY <1>6, <1>t, <1>c DEF vars, FetchInv
<1>7. QED
  BY <1>1, <1>2, <1>3, <1>4, <1>5, <1>6, NextCases

(***************************************************************************)
(* The two mutexes.                                                        *)
(***************************************************************************)
\* Every path through submit.go takes and gives back its mutexes.
LEMMA LocksStep == Core /\ LocksReleased /\ [Next]_vars => LocksReleased'
<1> SUFFICES ASSUME Core, LocksReleased, [Next]_vars PROVE LocksReleased'
  OBVIOUS
<1> USE DEF Goto, Return, Proceed, kv, bucket, locks, call, work, locals, bounds,
            HoldsSubmit, HoldsEnd
<1>t. /\ pc \in [Actors -> Labels] /\ op \in [Actors -> Ops]
      /\ None \notin Actors
  BY NoneAssumption DEF Core, CoreType
<1>c. /\ \A b \in Actors : pc[b] \in {"checkMeta", "saveMeta"} => op[b] = "tx"
      /\ \A b \in Actors : pc[b] = "lockSubmit" => op[b] \in {"chunk", "tx"}
      /\ \A b \in Actors : pc[b] \in {"loadMeta", "keepMeta", "network",
           "getManifest", "insertManifest"} => op[b] = "fetch"
      /\ \A b \in Actors : pc[b] \in {"local", "read"} => op[b] \in {"fetch", "get"}
  BY DEF Core, CallOK
<1>l. /\ \A b \in Actors : submitLock = b <=> HoldsSubmit(b)
      /\ \A b \in Actors : endLock = b <=> HoldsEnd(b)
  BY DEF LocksReleased
<1>1. ASSUME NEW a \in Actors, NEW c \in Submitted, BeginSubmitChunk(a, c)
      PROVE  LocksReleased'
  BY <1>1, <1>t, <1>l DEF BeginSubmitChunk, Begin, LocksReleased
<1>2. ASSUME NEW a \in Actors, NEW x \in Txs,
             \/ BeginSubmitTx(a, x) \/ BeginFetch(a, x) \/ BeginGet(a, x)
      PROVE  LocksReleased'
  BY <1>2, <1>t, <1>l DEF BeginSubmitTx, BeginFetch, BeginGet, Begin, LocksReleased
<1>3. ASSUME NEW a \in Actors, PutTxFails(a) \/ PutFails(a) PROVE LocksReleased'
  BY <1>3, <1>t, <1>l DEF PutTxFails, PutFails, LocksReleased
<1>4. ASSUME NEW a \in Actors, Step(a) PROVE LocksReleased'
  <2> USE DEF LocksReleased
  <2>1. CASE CheckMeta(a) BY <2>1, <1>t, <1>c, <1>l DEF CheckMeta
  <2>2. CASE SaveMeta(a) BY <2>2, <1>t, <1>c, <1>l DEF SaveMeta
  <2>3. CASE LockSubmit(a) BY <2>3, <1>t, <1>c, <1>l DEF LockSubmit
  <2>4. CASE NeedEnd(a) BY <2>4, <1>t, <1>c, <1>l DEF NeedEnd
  <2>5. CASE LockEnd(a) BY <2>5, <1>t, <1>c, <1>l DEF LockEnd
  <2>6. CASE LoadEnd(a) BY <2>6, <1>t, <1>c, <1>l DEF LoadEnd, Synced
  <2>7. CASE PutAll(a) BY <2>7, <1>t, <1>c, <1>l DEF PutAll
  <2>8. CASE PutTx(a) BY <2>8, <1>t, <1>c, <1>l DEF PutTx, Synced
  <2>9. CASE Rollback(a) BY <2>9, <1>t, <1>c, <1>l DEF Rollback
  <2>10. CASE LoadMeta(a) BY <2>10, <1>t, <1>c, <1>l DEF LoadMeta
  <2>11. CASE KeepMeta(a) BY <2>11, <1>t, <1>c, <1>l DEF KeepMeta
  <2>12. CASE Local(a) BY <2>12, <1>t, <1>c, <1>l DEF Local
  <2>13. CASE ReadChunk(a) BY <2>13, <1>t, <1>c, <1>l DEF ReadChunk
  <2>14. CASE ReadMisses(a) BY <2>14, <1>t, <1>c, <1>l DEF ReadMisses
  <2>15. CASE ReadEnds(a) BY <2>15, <1>t, <1>c, <1>l DEF ReadEnds
  <2>16. CASE Network(a) BY <2>16, <1>t, <1>c, <1>l DEF Network
  <2>17. CASE StoreChunk(a) BY <2>17, <1>t, <1>c, <1>l DEF StoreChunk
  <2>u. CASE ChunkUnreadable(a) BY <2>u, <1>t, <1>c, <1>l DEF ChunkUnreadable
  <2>18. CASE GetManifest(a) BY <2>18, <1>t, <1>c, <1>l DEF GetManifest
  <2>19. CASE InsertManifest(a) BY <2>19, <1>t, <1>c, <1>l DEF InsertManifest
  <2>20. CASE Mark(a) BY <2>20, <1>t, <1>c, <1>l DEF Mark
  <2>21. QED
    BY <1>4, <2>1, <2>2, <2>3, <2>4, <2>5, <2>6, <2>7, <2>8, <2>9, <2>10,
       <2>11, <2>12, <2>13, <2>14, <2>15, <2>16, <2>17, <2>18, <2>19, <2>20, <2>u
    DEF Step
<1>5. CASE Crash
  BY <1>5, <1>t DEF Crash, Fresh, LocksReleased
<1>6. CASE UNCHANGED vars
  BY <1>6, <1>l DEF vars, LocksReleased
<1>7. QED
  BY <1>1, <1>2, <1>3, <1>4, <1>5, <1>6, NextCases

-----------------------------------------------------------------------------
(***************************************************************************)
(* The theorems.                                                           *)
(***************************************************************************)
StoreInv == Core /\ AllocInv /\ BucketInv /\ TodoInv /\ ReadInv

\* The inductive invariant holds when the node is new ...
LEMMA StoreInit == Init => StoreInv
<1> SUFFICES ASSUME Init PROVE StoreInv
  OBVIOUS
<1>1. Core /\ AllocInv
  BY CoreInit, AllocInit
<1>2. BucketInv
  BY DEF Init, BucketInv, ChunksInPlace
<1>3. TodoInv /\ ReadInv
  BY DEF Init, TodoInv, ReadInv
<1>4. QED
  BY <1>1, <1>2, <1>3 DEF StoreInv

\* ... every step preserves it ...
LEMMA StoreStep == StoreInv /\ [Next]_vars => StoreInv'
  BY CoreStep, AllocStep, BucketStep, TodoStep, ReadStep DEF StoreInv

\* ... so every reachable state of the chunk store satisfies it.
LEMMA StoreInvariant == Spec => []StoreInv
  BY StoreInit, StoreStep, PTL DEF Spec

\* Every state of the chunk store has its type, whatever chunks the requests
\* bring and whatever address storeChunk's uint64 arithmetic wraps to.
THEOREM TypeCorrect == Spec => []TypeOK
<1>1. StoreInv => TypeOK
  BY DEF StoreInv, Core, CoreType, BucketInv, ReadInv, TypeOK
<1>2. QED
  BY <1>1, StoreInvariant, PTL

\* syncAddTxDataEndOffset gives every payload an address range of its own,
\* for any number of concurrent callers, failed Puts, failed rollbacks and
\* crashes.
THEOREM RegionsNeverOverlap == Spec => []RegionsDisjoint
<1>1. StoreInv => RegionsDisjoint
  BY DEF StoreInv, AllocInv
<1>2. QED
  BY <1>1, StoreInvariant, PTL

\* storeChunk files every genuine chunk, and every other one that claims to
\* start at a byte of its payload, at its place in its own payload's region.
THEOREM ChunksWellPlaced == Spec => []ChunksInPlace
<1>1. StoreInv => ChunksInPlace
  BY DEF StoreInv, BucketInv
<1>2. QED
  BY <1>1, StoreInvariant, PTL

\* The end offset of a payload, once stored, never changes.
THEOREM RegionsNeverMove == Spec => RegionStable
<1>1. StoreInv /\ [Next]_vars =>
        [\A k \in Keys : IsExistTxDataEndOffset(k) => txEnd'[k] = txEnd[k]]_txEnd
  BY StepEffects DEF StoreInv, IsExistTxDataEndOffset
<1>2. QED
  BY <1>1, StoreInvariant, PTL DEF Spec, RegionStable

\* submitLocker and endOffsetLocker are held exactly inside the parts they
\* protect, for any number of goroutines, failing Puts and crashes.
THEOREM LocksAlwaysReleased == Spec => []LocksReleased
<1>1. Init => LocksReleased
  BY NoneAssumption DEF Init, LocksReleased, HoldsSubmit, HoldsEnd
<1>2. Core /\ LocksReleased /\ [Next]_vars => LocksReleased'
  BY LocksStep
<1>3. StoreInv => Core
  BY DEF StoreInv
<1>4. QED
  BY <1>1, <1>2, <1>3, StoreInvariant, PTL DEF Spec

\* getArTxData never returns a part of a payload without an error unless it
\* read a foreign chunk, provided no payload ends in a one-byte chunk.
THEOREM ReadsAreWhole == NoOneByteTail /\ Spec => []ReadsWholePayload
<1> SUFFICES ASSUME NoOneByteTail PROVE Spec => []ReadsWholePayload
  OBVIOUS
<1>1. Init => ReadsWholePayload
  BY DEF Init, ReadsWholePayload
<1>2. StoreInv /\ ReadsWholePayload /\ [Next]_vars => ReadsWholePayload'
  BY WholeStep DEF StoreInv
<1>3. QED
  BY <1>1, <1>2, StoreInvariant, PTL DEF Spec

\* A FetchAndStoreTx that returns nil leaves the whole payload readable, under
\* the same proviso, and nothing that happens later takes it away but a foreign
\* chunk filed among its addresses.
THEOREM FetchIsDurable == NoOneByteTail /\ Spec => []FetchStoresPayload
<1> SUFFICES ASSUME NoOneByteTail PROVE Spec => []FetchStoresPayload
  OBVIOUS
<1>1. Init => FetchInv
  BY DEF Init, FetchInv
<1>2. StoreInv /\ FetchInv /\ [Next]_vars => FetchInv'
  BY FetchStep DEF StoreInv
<1>3. StoreInv /\ FetchInv => FetchStoresPayload
  <2> SUFFICES ASSUME StoreInv, FetchInv, NEW a \in Actors, pc[a] = "done",
                      op[a] = "fetch", res[a] = "ok", ~Touched(key[a])
               PROVE  Complete(key[a])
    BY DEF FetchStoresPayload
  <2>1. key[a] \in Keys /\ txEnd[key[a]] # None
    BY DEF FetchInv
  <2>2. Chunks[key[a]] \subseteq Held[key[a]]
    BY <2>1 DEF FetchInv, Meddled
  <2>3. QED
    BY <2>1, <2>2 DEF Complete, Held, HeldChunks, IsExistTxDataEndOffset
<1>4. QED
  BY <1>1, <1>2, <1>3, StoreInvariant, PTL DEF Spec

-----------------------------------------------------------------------------
(***************************************************************************)
(* The chunk store implements Archive: initial states map to initial       *)
(* states of Archive and every step to a step or a stutter.                *)
(***************************************************************************)
\* A call that is not over has not answered; one that ends without error, by a
\* read or a fetch, finds the whole payload in the bucket or a spoiled one.
LEMMA AnswersAreWhole ==
  ASSUME NoOneByteTail, StoreInv, FetchInv, NEW a \in Actors, Step(a)
  PROVE  /\ ~Answered(a) /\ key' = key
         /\ \A b \in Actors \ {a} : Answered(b)' <=> Answered(b)
         /\ Answered(a)' => /\ key[a] \in Keys
                            /\ \/ key[a] \in Meddled
                               \/ Chunks[key[a]] \subseteq Held[key[a]]
<1> USE DEF Goto, Return, Proceed, kv, bucket, locks, call, work, locals, bounds,
            Answered
<1>t. /\ pc \in [Actors -> Labels] /\ op \in [Actors -> Ops]
      /\ res \in [Actors -> {"ok", "err", "exist", "none"}]
  BY DEF StoreInv, Core, CoreType
<1>c. /\ pc[a] # "done" => key[a] \in Keys
      /\ pc[a] \in {"checkMeta", "saveMeta"} => op[a] = "tx"
      /\ pc[a] = "lockSubmit" => op[a] \in {"chunk", "tx"}
  BY DEF StoreInv, Core, CallOK
<1>1. CASE Local(a)
  <2>1. Size[key[a]] = 0 => Chunks[key[a]] = {}
    BY <1>1, <1>c, EmptyPayload DEF Local
  <2>2. QED
    BY <1>1, <2>1, <1>t, <1>c DEF Local
<1>2. CASE ReadEnds(a)
  <2>1. key[a] \in Meddled \/ Chunks[key[a]] \subseteq Held[key[a]]
    BY <1>2, ReadEndsWhole DEF ReadEnds, StoreInv
  <2>2. QED
    BY <1>2, <2>1, <1>t, <1>c DEF ReadEnds
<1>3. CASE Mark(a)
  <2>1. op[a] = "fetch" =>
          key[a] \in Meddled \/ Chunks[key[a]] \subseteq Held[key[a]]
    BY <1>3 DEF Mark, FetchInv
  <2>2. op[a] \in {"tx", "fetch"}
    BY <1>3 DEF Mark, StoreInv, Core, CallOK
  <2>3. QED
    BY <1>3, <2>1, <2>2, <1>t, <1>c DEF Mark
<1>4. CASE CheckMeta(a) \/ SaveMeta(a) \/ LockSubmit(a) \/ NeedEnd(a)
  BY <1>4, <1>t, <1>c DEF CheckMeta, SaveMeta, LockSubmit, NeedEnd
<1>5. CASE LockEnd(a) \/ LoadEnd(a) \/ PutAll(a) \/ PutTx(a) \/ Rollback(a)
  BY <1>5, <1>t, <1>c DEF LockEnd, LoadEnd, PutAll, PutTx, Rollback, Synced
<1>6. CASE LoadMeta(a) \/ KeepMeta(a) \/ ReadChunk(a) \/ ReadMisses(a)
  BY <1>6, <1>t, <1>c DEF LoadMeta, KeepMeta, ReadChunk, ReadMisses
<1>7. CASE Network(a) \/ GetManifest(a) \/ InsertManifest(a)
  BY <1>7, <1>t, <1>c DEF Network, GetManifest, InsertManifest
<1>8. CASE StoreChunk(a) \/ ChunkUnreadable(a)
  BY <1>8, <1>t, <1>c DEF StoreChunk, ChunkUnreadable
<1>9. QED
  BY <1>1, <1>2, <1>3, <1>4, <1>5, <1>6, <1>7, <1>8 DEF Step

-----------------------------------------------------------------------------
(***************************************************************************)
(* The steps, by what they do to the archive.                              *)
(***************************************************************************)
\* The end offset stored by AtomicSyncDataEndOffset gives a payload addresses
\* that no other payload has.
LEMMA PutTxAllocates ==
  ASSUME NoOneByteTail, StoreInv, FetchInv,
         NEW a \in Actors, PutTx(a)
  PROVE  \E k \in Keys : Abstract!Allocate(k)
<1> DEFINE k == key[a]
           n == cur[a] + 1
<1>1. /\ k \in Keys /\ txEnd[k] = None /\ cur[a] \in Nat
      /\ \A l \in Keys : txEnd[l] # None => txEnd[l] <= cur[a]
      /\ txEnd \in [Keys -> Nat \cup {None}]
      /\ None \notin Nat /\ Size \in [Keys -> Nat]
  BY NoneAssumption, SizeAssumption
  DEF PutTx, StoreInv, Core, CoreType, CallOK, AllocInv, Allocating
<1>2. /\ txEnd'[k] = cur[a] + Size[k] /\ txEnd'[k] # None
      /\ \A l \in Keys \ {k} : txEnd'[l] = txEnd[l]
      /\ chunks' = chunks
  BY <1>1 DEF PutTx, bucket
<1>3. Regions[k] = None /\ Regions'[k] = n /\ n \in Nat
  BY <1>1, <1>2 DEF Regions, IsExistTxDataEndOffset, StartOffset
<1>4. Regions' = [Regions EXCEPT ![k] = Regions'[k]]
  <2>1. \A l \in Keys \ {k} : Regions'[l] = Regions[l]
    BY <1>2 DEF Regions, IsExistTxDataEndOffset, StartOffset
  <2>2. /\ Regions = [l \in Keys |-> Regions[l]]
        /\ Regions' = [l \in Keys |-> Regions'[l]]
    BY DEF Regions
  <2>3. QED
    BY <2>1, <2>2
<1>5. ASSUME NEW l \in Keys \ {k}, Regions[l] # None
      PROVE  Abstract!Addresses(k, n) \cap Abstract!Addresses(l, Regions[l]) = {}
  <2>1. /\ txEnd[l] # None /\ txEnd[l] \in Nat /\ txEnd[l] <= cur[a]
        /\ Regions[l] = txEnd[l] - Size[l] + 1 /\ Size[l] \in Nat
    BY <1>1, <1>5 DEF Regions, IsExistTxDataEndOffset, StartOffset
  <2>2. Regions[l] + Size[l] - 1 < n
    BY <1>1, <2>1
  <2>3. QED
    BY <1>1, <1>3, <2>1, <2>2 DEF Abstract!Addresses
<1>6. Held' = Held
  <2>1. ASSUME NEW l \in Keys PROVE HeldChunks(l)' = HeldChunks(l)
    <3>1. CASE l # k
      BY <1>2, <3>1 DEF HeldChunks, IsExistTxDataEndOffset, StartOffset
    <3>2. CASE l = k
      <4>1. HeldChunks(l) = {}
        BY <1>1, <3>2 DEF HeldChunks, IsExistTxDataEndOffset
      <4>2. \A at \in DOMAIN chunks : chunks[at].key # l
        BY <1>1, <3>2
        DEF StoreInv, BucketInv, ChunksInPlace, IsExistTxDataEndOffset
      <4>3. \A c \in Chunks[l] : c.key = l
        BY ChunksAssumption
      <4>4. HeldChunks(l)' = {}
        BY <1>2, <4>2, <4>3 DEF HeldChunks
      <4>5. QED
        BY <4>1, <4>4
    <3>3. QED
      BY <3>1, <3>2
  <2>2. QED
    BY <2>1 DEF Held
<1>7. Replies' = Replies
  <2>1. Step(a)
    BY DEF Step
  <2>2. ~Answered(a)'
    BY DEF PutTx, Synced, Goto, Answered, StoreInv, Core, CoreType
  <2>3. QED
    BY <2>1, <2>2, AnswersAreWhole DEF Replies
<1>8. Meddled' \in {Meddled, Meddled \cup {k}}
  <2>1. ASSUME NEW l \in Keys \ {k} PROVE l \in Meddled' <=> l \in Meddled
    <3>1. spoiled' = spoiled /\ txEnd'[l] = txEnd[l]
      BY <1>2 DEF PutTx, bucket
    <3>2. QED
      BY <3>1 DEF Meddled, Touched, Region, IsExistTxDataEndOffset, StartOffset
  <2>2. k \notin Meddled
    BY <1>1 DEF Meddled, Touched, IsExistTxDataEndOffset
  <2>3. Meddled \subseteq Keys /\ Meddled' \subseteq Keys
    BY DEF Meddled
  <2>4. QED
    BY <2>1, <2>2, <2>3
<1>9. Abstract!Allocate(k)
  BY <1>3, <1>4, <1>5, <1>6, <1>7, <1>8 DEF Abstract!Allocate
<1>10. QED
  BY <1>1, <1>9

\* storeChunk adds a genuine chunk of an allocated payload, or one that is
\* there; a foreign one spoils the payload that owns its address, if any.
LEMMA StoreChunkDeposits ==
  ASSUME NoOneByteTail, StoreInv, FetchInv, NEW a \in Actors, StoreChunk(a)
  PROVE  \/ \E k \in Keys : \E c \in Chunks[k] : Abstract!Deposit(k, c)
         \/ \E k \in Keys : Abstract!Spoil(k)
         \/ UNCHANGED Abstract!archive
<1>1. PICK c \in todo[a] : SaveChunk(ChunkStartOffset(c), c)
  BY DEF StoreChunk
<1>2. txEnd' = txEnd /\ pc[a] = "store"
  BY DEF StoreChunk
<1>3. /\ c.key \in Keys /\ txEnd[c.key] # None
      /\ Genuine(c) =>
           /\ Meddled' = Meddled
           /\ \A l \in Keys : Held'[l] = Held[l] \cup ({c} \cap Chunks[l])
      /\ ~Genuine(c) =>
           \A l \in Keys :
             /\ l \in Meddled' <=> \/ l \in Meddled
                                   \/ /\ txEnd[l] # None
                                      /\ ChunkStartOffset(c) \in Region(l)
             /\ Held'[l] = {d \in Held[l] :
                              StartOffset(l) + d.lo # ChunkStartOffset(c)}
  BY <1>1, <1>2, StoreEffects DEF StoreInv
<1>4. /\ txEnd \in [Keys -> Nat \cup {None}] /\ RegionsDisjoint
      /\ None \notin Nat
  BY NoneAssumption DEF StoreInv, Core, CoreType, AllocInv
<1>5. /\ Held = [l \in Keys |-> Held[l]] /\ Held' = [l \in Keys |-> Held'[l]]
      /\ \A l \in Keys : Held[l] \subseteq Chunks[l]
      /\ Meddled \subseteq Keys /\ Meddled' \subseteq Keys
  BY DEF Held, HeldChunks, Meddled
<1>6. /\ Regions' = Regions
      /\ \A l \in Keys : txEnd[l] # None => Regions[l] # None
  <2>1. Regions' = Regions
    BY <1>2 DEF Regions, IsExistTxDataEndOffset, StartOffset
  <2>2. ASSUME NEW l \in Keys, txEnd[l] # None PROVE Regions[l] # None
    <3>1. txEnd[l] \in Nat /\ Size[l] \in Nat /\ Size[l] <= txEnd[l]
      BY <1>4, <2>2, SizeAssumption DEF RegionsDisjoint, IsExistTxDataEndOffset
    <3>2. StartOffset(l) \in Nat
      BY <3>1 DEF StartOffset
    <3>3. QED
      BY <1>4, <2>2, <3>2 DEF Regions, IsExistTxDataEndOffset
  <2>3. QED
    BY <2>1, <2>2
<1>7. Replies' = Replies
  <2>1. Step(a)
    BY DEF Step
  <2>2. ~Answered(a)'
    BY DEF StoreChunk, Return, Goto, Answered, call, StoreInv, Core, CoreType
  <2>3. QED
    BY <2>1, <2>2, AnswersAreWhole DEF Replies
<1>8. CASE Genuine(c)
  <2>1. c \in Chunks[c.key] /\ \A l \in Keys \ {c.key} : c \notin Chunks[l]
    BY <1>3, <1>8, ChunksAssumption DEF Genuine
  <2>2. ASSUME NEW l \in Keys
        PROVE  Held'[l] = IF l = c.key THEN Held[l] \cup {c} ELSE Held[l]
    <3>1. CASE l = c.key
      BY <1>3, <1>8, <2>1, <3>1
    <3>2. CASE l # c.key
      <4>1. {c} \cap Chunks[l] = {}
        BY <2>1, <3>2
      <4>2. QED
        BY <1>3, <1>8, <3>2, <4>1
    <3>3. QED
      BY <3>1, <3>2
  <2>3. Held' = [Held EXCEPT ![c.key] = Held[c.key] \cup {c}]
    BY <1>3, <1>5, <2>2
  <2>4. Meddled' = Meddled
    BY <1>3, <1>8
  <2>5. CASE c \in Held[c.key]
    <3>1. Held[c.key] \cup {c} = Held[c.key]
      BY <2>5
    <3>2. Held' = Held
      <4>1. \A l \in Keys : Held'[l] = Held[l]
        BY <2>2, <3>1
      <4>2. QED
        BY <1>5, <4>1
    <3>3. QED
      BY <1>6, <1>7, <2>4, <3>2 DEF Abstract!archive
  <2>6. CASE c \notin Held[c.key]
    <3>1. Abstract!Deposit(c.key, c)
      BY <1>3, <1>6, <1>7, <2>1, <2>3, <2>4, <2>6 DEF Abstract!Deposit
    <3>2. QED
      BY <1>3, <2>1, <3>1
  <2>7. QED
    BY <2>5, <2>6
<1>9. CASE ~Genuine(c)
  <2> DEFINE at == ChunkStartOffset(c)
  <2>1. ASSUME NEW l \in Keys
        PROVE  /\ l \in Meddled' <=>
                    l \in Meddled \/ (txEnd[l] # None /\ at \in Region(l))
               /\ Held'[l] = {d \in Held[l] : StartOffset(l) + d.lo # at}
    BY <1>3, <1>9
  <2> HIDE DEF at
  <2>2. ASSUME NEW l \in Keys, NEW d \in Held[l]
        PROVE  txEnd[l] # None /\ StartOffset(l) + d.lo \in Region(l)
    <3>1. txEnd[l] # None /\ d \in Chunks[l]
      BY DEF Held, HeldChunks, IsExistTxDataEndOffset
    <3>2. QED
      BY <1>4, <3>1, PlaceInRegion
  <2>3. ASSUME NEW l \in Keys, ~(txEnd[l] # None /\ at \in Region(l))
        PROVE  Held'[l] = Held[l]
    BY <2>1, <2>2, <2>3
  <2>4. CASE \A l \in Keys : ~(txEnd[l] # None /\ at \in Region(l))
    <3>1. Held' = Held
      BY <1>5, <2>3, <2>4
    <3>2. Meddled' = Meddled
      BY <1>5, <2>1, <2>4
    <3>3. QED
      BY <1>6, <1>7, <3>1, <3>2 DEF Abstract!archive
  <2>5. ASSUME NEW k \in Keys, txEnd[k] # None, at \in Region(k)
        PROVE  Abstract!Spoil(k)
    <3>1. ASSUME NEW l \in Keys \ {k}
          PROVE  ~(txEnd[l] # None /\ at \in Region(l))
      BY <1>4, <2>5, SizeAssumption
      DEF RegionsDisjoint, IsExistTxDataEndOffset, StartOffset, Region
    <3>2. Meddled' = Meddled \cup {k}
      BY <1>5, <2>1, <2>5, <3>1
    <3>3. \A l \in Keys \ {k} : Held'[l] = Held[l]
      BY <2>3, <3>1
    <3>4. CASE \A d \in Held[k] : StartOffset(k) + d.lo # at
      <4>1. Held'[k] = Held[k]
        BY <2>1, <3>4
      <4>2. Held' = Held
        BY <1>5, <3>3, <4>1
      <4>3. QED
        BY <1>6, <1>7, <2>5, <3>2, <4>2 DEF Abstract!Spoil
    <3>5. ASSUME NEW e \in Held[k], StartOffset(k) + e.lo = at
          PROVE  Abstract!Spoil(k)
      <4>1. ASSUME NEW d \in Held[k], StartOffset(k) + d.lo = at PROVE d = e
        <5>1. d \in Chunks[k] /\ e \in Chunks[k]
          BY <1>5
        <5>2. QED
          BY <1>4, <2>5, <3>5, <4>1, <5>1, SameAddress
      <4>2. Held'[k] = Held[k] \ {e}
        BY <2>1, <3>5, <4>1
      <4>3. Held' = [Held EXCEPT ![k] = Held[k] \ {e}]
        BY <1>5, <3>3, <4>2
      <4>4. QED
        BY <1>6, <1>7, <2>5, <3>2, <4>3 DEF Abstract!Spoil
    <3>6. QED
      BY <3>4, <3>5
  <2>6. QED
    BY <2>4, <2>5
<1>10. QED
  BY <1>8, <1>9

\* A step that touches neither offsets nor chunks answers a whole payload or
\* shows nothing.
LEMMA OtherStepAnswers ==
  ASSUME NoOneByteTail, StoreInv, FetchInv,
         NEW a \in Actors, Step(a), txEnd' = txEnd, UNCHANGED bucket
  PROVE  \/ \E b \in Actors, k \in Keys : Abstract!Answer(b, k)
         \/ UNCHANGED Abstract!archive
<1>1. Regions' = Regions /\ Held' = Held /\ Meddled' = Meddled
  BY DEF Regions, Held, HeldChunks, Meddled, Touched, Region, bucket,
     IsExistTxDataEndOffset, StartOffset
<1>2. /\ ~Answered(a) /\ key' = key
      /\ \A b \in Actors \ {a} : Answered(b)' <=> Answered(b)
      /\ Answered(a)' => /\ key[a] \in Keys
                         /\ \/ key[a] \in Meddled
                            \/ Chunks[key[a]] \subseteq Held[key[a]]
  BY AnswersAreWhole
<1>3. CASE Answered(a)'
  <2>1. /\ key[a] \in Keys
        /\ Held[key[a]] = Chunks[key[a]] \/ key[a] \in Meddled
    <3>1. key[a] \in Keys /\ Held[key[a]] \subseteq Chunks[key[a]]
      BY <1>2, <1>3 DEF Held, HeldChunks
    <3>2. QED
      BY <3>1, <1>2, <1>3
  <2>2. Replies[a] = None
    BY <1>2 DEF Replies
  <2>3. Replies' = [Replies EXCEPT ![a] = key[a]]
    BY <1>2, <1>3 DEF Replies
  <2>4. Abstract!Answer(a, key[a])
    BY <1>1, <2>1, <2>2, <2>3 DEF Abstract!Answer
  <2>5. QED
    BY <2>1, <2>4
<1>4. CASE ~Answered(a)'
  BY <1>1, <1>2, <1>4 DEF Replies, Abstract!archive
<1>5. QED
  BY <1>3, <1>4

\* A call that starts, and a crash, takes answers back and changes nothing in
\* the archive.
LEMMA ArchiveLeft ==
  ASSUME txEnd' = txEnd, UNCHANGED bucket, NEW S \in SUBSET Actors,
         \A b \in S : ~Answered(b)',
         \A b \in Actors \ S : (Answered(b)' <=> Answered(b)) /\ key'[b] = key[b]
  PROVE  \E T \in SUBSET Actors : Abstract!Leave(T)
<1>1. Regions' = Regions /\ Held' = Held /\ Meddled' = Meddled
  BY DEF Regions, Held, HeldChunks, Meddled, Touched, Region, bucket,
     IsExistTxDataEndOffset, StartOffset
<1>2. Replies' = [b \in Actors |-> IF b \in S THEN None ELSE Replies[b]]
  BY DEF Replies
<1>3. QED
  BY <1>1, <1>2 DEF Abstract!Leave

-----------------------------------------------------------------------------
\* Every step of submit.go and store.go, every failing Put and every crash is
\* a step of the archive or none.
LEMMA ArchiveStep ==
  ASSUME NoOneByteTail, StoreInv, FetchInv,
         [Next]_vars
  PROVE  [Abstract!Next]_(Abstract!archive)
<1> USE DEF Goto, Return, Proceed, kv, bucket, locks, call, work, locals, bounds
<1>t. /\ pc \in [Actors -> Labels] /\ op \in [Actors -> Ops]
      /\ res \in [Actors -> {"ok", "err", "exist", "none"}]
      /\ key \in [Actors -> Keys \cup {None}]
  BY DEF StoreInv, Core, CoreType
<1>1. ASSUME NEW a \in Actors, NEW c \in Submitted, BeginSubmitChunk(a, c)
      PROVE  Abstract!Next
  <2>1. /\ txEnd' = txEnd /\ UNCHANGED bucket /\ ~Answered(a)'
        /\ \A b \in Actors \ {a} : (Answered(b)' <=> Answered(b)) /\ key'[b] = key[b]
    BY <1>1, <1>t DEF BeginSubmitChunk, Begin, Answered
  <2>2. {a} \in SUBSET Actors /\ \A b \in {a} : ~Answered(b)'
    BY <2>1
  <2>3. QED
    BY <2>1, <2>2, ArchiveLeft DEF Abstract!Next
<1>2. ASSUME NEW a \in Actors, NEW x \in Txs,
             \/ BeginSubmitTx(a, x) \/ BeginFetch(a, x) \/ BeginGet(a, x)
      PROVE  Abstract!Next
  <2>1. /\ txEnd' = txEnd /\ UNCHANGED bucket /\ ~Answered(a)'
        /\ \A b \in Actors \ {a} : (Answered(b)' <=> Answered(b)) /\ key'[b] = key[b]
    BY <1>2, <1>t DEF BeginSubmitTx, BeginFetch, BeginGet, Begin, Answered
  <2>2. {a} \in SUBSET Actors /\ \A b \in {a} : ~Answered(b)'
    BY <2>1
  <2>3. QED
    BY <2>1, <2>2, ArchiveLeft DEF Abstract!Next
<1>3. ASSUME NEW a \in Actors, PutTxFails(a) \/ PutFails(a) PROVE Abstract!Next
  <2>1. /\ txEnd' = txEnd /\ UNCHANGED bucket /\ ~Answered(a)'
        /\ \A b \in Actors \ {a} : (Answered(b)' <=> Answered(b)) /\ key'[b] = key[b]
    BY <1>3, <1>t DEF PutTxFails, PutFails, Answered
  <2>2. {a} \in SUBSET Actors /\ \A b \in {a} : ~Answered(b)'
    BY <2>1
  <2>3. QED
    BY <2>1, <2>2, ArchiveLeft DEF Abstract!Next
<1>4. ASSUME NEW a \in Actors, Step(a) PROVE [Abstract!Next]_(Abstract!archive)
  <2>1. CASE PutTx(a)
    BY <2>1, PutTxAllocates DEF Abstract!Next
  <2>2. CASE StoreChunk(a)
    BY <2>2, StoreChunkDeposits DEF Abstract!Next
  <2>3. CASE ~PutTx(a) /\ ~StoreChunk(a)
    <3>1. txEnd' = txEnd /\ UNCHANGED bucket
      BY <1>4, <2>3 DEF Step, CheckMeta, SaveMeta, LockSubmit, NeedEnd, LockEnd,
         LoadEnd, PutAll, Rollback, LoadMeta, KeepMeta, Local, ReadChunk,
         ReadMisses, ReadEnds, Network, ChunkUnreadable, GetManifest,
         InsertManifest, Mark
    <3>2. QED
      BY <1>4, <3>1, OtherStepAnswers DEF Abstract!Next
  <2>4. QED
    BY <2>1, <2>2, <2>3
<1>5. CASE Crash
  <2>1. txEnd' = txEnd /\ UNCHANGED bucket /\ \A b \in Actors : ~Answered(b)'
    BY <1>5 DEF Crash, Fresh, Answered
  <2>2. QED
    BY <2>1, ArchiveLeft DEF Abstract!Next
<1>6. CASE UNCHANGED vars
  <2>1. UNCHANGED <<Regions, Held, Replies, Meddled>>
    BY <1>6 DEF vars, Regions, Held, HeldChunks, Replies, Answered, Meddled,
       Touched, Region, IsExistTxDataEndOffset, StartOffset
  <2>2. QED
    BY <2>1 DEF Abstract!archive
<1>7. QED
  BY <1>1, <1>2, <1>3, <1>4, <1>5, <1>6, NextCases

\* The chunk store implements Archive, provided no payload ends in a one-byte
\* chunk: whatever the interleaving of submissions, fetches and reads, failing
\* Puts, failed roll-backs and crashes, a payload is given addresses of its own
\* once, a chunk that could be read is lost only to a foreign one filed at its
\* address, and only whole payloads are answered, or spoiled ones.
THEOREM StoreIsArchive == NoOneByteTail /\ Spec => ImplementsArchive
<1> SUFFICES ASSUME NoOneByteTail PROVE Spec => ImplementsArchive
  OBVIOUS
<1>1. Init => Abstract!Init
  BY DEF Init, Abstract!Init, Regions, Held, HeldChunks, Replies, Answered,
     Meddled, Touched, IsExistTxDataEndOffset
<1>2. Init => FetchInv
  BY DEF Init, FetchInv
<1>3. StoreInv /\ FetchInv /\ [Next]_vars => FetchInv'
  BY FetchStep DEF StoreInv
<1>4. StoreInv /\ FetchInv /\ [Next]_vars => [Abstract!Next]_(Abstract!archive)
  BY ArchiveStep
<1>5. QED
  BY <1>1, <1>2, <1>3, <1>4, StoreInvariant, PTL
  DEF Spec, ImplementsArchive, Abstract!Spec
=============================================================================
