------------------------------ MODULE OnChain -------------------------------
(***************************************************************************)
(* Bringing paid bundle items on chain: the on-chain jobs of jobs.go and   *)
(* the order and arTx tables of wdb.go.                                    *)
(*                                                                         *)
(* onChainBundleItems ("plain") bundles the items of waiting orders into   *)
(* an Arweave transaction and records it; onChainItemsBySeq ("seq") does   *)
(* the same for orders asked to be uploaded in sequence, but waits for     *)
(* confirmations before it records anything; watchArTx turns confirmed     *)
(* transactions into successes and vanished ones into failures;            *)
(* retryOnChainArTx sends a failed one again.  The four jobs are           *)
(* singletons that run concurrently; a step is one access of the database  *)
(* or of the Arweave network, which may confirm or drop what it was sent.  *)
(***************************************************************************)
EXTENDS Integers, Sequences, FiniteSets, FiniteSetsExt, Functions

CONSTANTS
  Items,       \* bundle items, all with a paid order when submitted
  Modes,       \* the values of the Sort header an item is submitted with
  Size,        \* item sizes
  MaxPerOnChainSize,
  Streams,     \* TRUE for the S3 store, which bundles with streams
  Failing,     \* the calls that may fail
  SlowChain,   \* TRUE if blocks take longer than updateOnChainInfo's updates
  MaxOrders, MaxPerItem, MaxSent, MaxDrops, MaxFaults, MaxCrashes,   \* bounds
  None

ASSUME ConstantsAssumption ==
  /\ Modes \in [Items -> SUBSET BOOLEAN]
  /\ Size \in [Items -> Nat]
  /\ Failing \subseteq {"load", "send", "status", "table"}
  /\ Streams \in BOOLEAN /\ SlowChain \in BOOLEAN
  /\ {MaxPerOnChainSize, MaxOrders, MaxPerItem, MaxSent, MaxDrops, MaxFaults,
      MaxCrashes} \subseteq Nat
  /\ None \notin Nat

VARIABLES
  orders,   \* paid orders, a sequence indexed by ID
  rows,     \* the OnChainTx table, a sequence indexed by ID
  net,      \* Arweave: the transactions sent, in the order of sending
  blocks,   \* Arweave: the transactions confirmed, in the order of confirmation
  job,      \* locals of the two bundling jobs
  watch,    \* watchArTx: table rows read as pending and still to look at
  retry,    \* locals of retryOnChainArTx
  drops, faults, crashes

vars == <<orders, rows, net, blocks, job, watch, retry, drops, faults, crashes>>

Jobs == {"plain", "seq"}
Chain == {"waiting", "pending", "success"}

IdleJob == [pc |-> "idle", todo |-> {}, items |-> <<>>, size |-> 0,
            copy |-> None, ar |-> None]
IdleRetry == [pc |-> "idle", todo |-> {}, ar |-> None]

\* The tables, the network and the locals of the jobs hold values of their
\* kind; every row names a transaction.
TypeOK ==
  /\ orders \in Seq([item: Items, sort: BOOLEAN, chain: Chain])
  /\ rows \in Seq([ar: DOMAIN net, items: Seq(Items), late: BOOLEAN,
                   status: {"pending", "success", "failed"}])
  /\ net \in Seq([items: Seq(Items), st: {"sent", "confirmed", "dropped"}])
  /\ blocks \in Seq(DOMAIN net)
  /\ job \in [Jobs -> [pc: {"idle", "collect", "copy", "send", "wait", "insert", "update"},
                       todo: SUBSET DOMAIN orders, items: Seq(Items), size: Nat,
                       copy: Chain \cup {None}, ar: DOMAIN net \cup {None}]]
  /\ watch \subseteq [row: DOMAIN rows, ar: DOMAIN net, items: Seq(Items)]
  /\ retry \in [pc: {"idle", "send", "update"}, todo: SUBSET DOMAIN rows,
                ar: DOMAIN net \cup {None}]
  /\ drops \in 0..MaxDrops /\ faults \in 0..MaxFaults /\ crashes \in 0..MaxCrashes

Fault(call) == call \in Failing /\ faults < MaxFaults /\ faults' = faults + 1

Init ==
  /\ orders = <<>> /\ rows = <<>> /\ net = <<>> /\ blocks = <<>>
  /\ job = [j \in Jobs |-> IdleJob]
  /\ watch = {} /\ retry = IdleRetry
  /\ drops = 0 /\ faults = 0 /\ crashes = 0

-----------------------------------------------------------------------------
(***************************************************************************)
(* Tables.                                                                 *)
(***************************************************************************)
\* Mutant: the query returns the newest waiting order only.
NeedOnChain_Newest(j) ==
  LET all == {o \in DOMAIN orders : orders[o].chain = "waiting" /\ orders[o].sort = (j = "seq")}
  IN  {o \in all : \A p \in all : p <= o}

\* GetNeedOnChainOrders and GetNeedOnChainOrdersSorted.
NeedOnChain(j) ==
  {o \in DOMAIN orders : orders[o].chain = "waiting" /\ orders[o].sort = (j = "seq")}

Processed(i) ==
  {o \in DOMAIN orders : orders[o].item = i /\ orders[o].chain \in {"pending", "success"}}

\* UpdateOrdOnChainStatus asks for the item only: it updates all its orders.
UpdateOrdOnChainStatus(is, st) ==
  orders' = [o \in DOMAIN orders |->
               IF orders[o].item \in is THEN [orders[o] EXCEPT !.chain = st]
               ELSE orders[o]]

\* A paid order is opened (ProcessSubmitItem or a payment).
OpenOrder(i, sort) ==
  /\ Len(orders) < MaxOrders
  /\ Cardinality({o \in DOMAIN orders : orders[o].item = i}) < MaxPerItem
  /\ sort \in Modes[i]
  /\ orders' = Append(orders, [item |-> i, sort |-> sort, chain |-> "waiting"])
  /\ UNCHANGED <<rows, net, blocks, job, watch, retry, drops, faults, crashes>>

-----------------------------------------------------------------------------
(***************************************************************************)
(* onChainBundleTx.  An item that does not load is left out; without any   *)
(* item the streaming variant fails, the other one loses the error and     *)
(* lets NewBundle decide.  Sending may fail before or after the network    *)
(* has the transaction; nobody learns of the latter.  Every item carries   *)
(* data: what getOnChainBundle does about empty ones is left out.          *)
(***************************************************************************)
\* Whether it reports success, the bundle's items, whether the network has it,
\* and how many calls failed.
Outcome(ok, is, arrived, fault) ==
  [ok |-> ok, items |-> is, arrived |-> arrived, fault |-> fault]

Without(is, n) == SubSeq(is, 1, n - 1) \o SubSeq(is, n + 1, Len(is))

\* What may come of bundling and sending the items.
Outcomes(is) ==
  {o \in {Outcome(TRUE, is, TRUE, 0)} \cup
         {Outcome(TRUE, Without(is, n), TRUE, 1) :
            n \in IF "load" \in Failing THEN DOMAIN is ELSE {}} :
     Streams => o.items # <<>>}
  \cup (IF is = <<>> THEN {Outcome(FALSE, is, FALSE, 0)} ELSE {})
  \cup {Outcome(FALSE, is, arrived, 1) :
          arrived \in IF "send" \in Failing THEN BOOLEAN ELSE {}}

onChainBundleTx(o) ==
  /\ o.arrived => Len(net) < MaxSent
  /\ faults + o.fault <= MaxFaults
  /\ faults' = faults + o.fault
  /\ net' = IF o.arrived THEN Append(net, [items |-> o.items, st |-> "sent"]) ELSE net

-----------------------------------------------------------------------------
(***************************************************************************)
(* onChainBundleItems and onChainItemsBySeq.                               *)
(***************************************************************************)
Set(j, l) == job' = [job EXCEPT ![j] = l]
Stop(j) == Set(j, IdleJob)

JobBegin(j) ==
  /\ job[j].pc = "idle"
  /\ NeedOnChain(j) # {}
  /\ Set(j, [IdleJob EXCEPT !.pc = "collect", !.todo = NeedOnChain(j)])
  /\ UNCHANGED <<orders, rows, net, blocks, watch, retry, drops, faults, crashes>>

\* After an order: the next one, or the bundle.
NextOrder(l) ==
  LET rest == l.todo \ {Min(l.todo)}
  IN  [l EXCEPT !.todo = rest, !.copy = None, !.pc = IF rest = {} THEN "send" ELSE "collect"]

\* onChainOrds' loop: an order too large for what is left of the bundle is
\* passed over, an order whose item is already on its way copies the status.
Collect(j) ==
  LET l == job[j]
      i == orders[Min(l.todo)].item
  IN  /\ l.pc = "collect"
      /\ \/ /\ l.size + Size[i] > MaxPerOnChainSize
            /\ Set(j, NextOrder(l))
         \/ /\ l.size + Size[i] <= MaxPerOnChainSize
            /\ Processed(i) # {}
            /\ Set(j, [l EXCEPT !.pc = "copy", !.copy = orders[Min(Processed(i))].chain])
         \/ /\ l.size + Size[i] <= MaxPerOnChainSize
            /\ Processed(i) = {}
            /\ Set(j, NextOrder([l EXCEPT !.items = Append(@, i), !.size = @ + Size[i]]))
      /\ UNCHANGED <<orders, rows, net, blocks, watch, retry, drops, faults, crashes>>

Copy(j) ==
  LET l == job[j]
  IN  /\ l.pc = "copy"
      /\ \/ UpdateOrdOnChainStatus({orders[Min(l.todo)].item}, l.copy) /\ UNCHANGED faults
         \/ Fault("table") /\ UNCHANGED orders
      /\ Set(j, NextOrder(l))
      /\ UNCHANGED <<rows, net, blocks, watch, retry, drops, crashes>>

Send(j) ==
  /\ job[j].pc = "send"
  /\ \E o \in Outcomes(job[j].items) :
       /\ onChainBundleTx(o)
       /\ IF o.ok
          THEN Set(j, [job[j] EXCEPT !.pc = IF j = "plain" THEN "insert" ELSE "wait",
                                     !.items = o.items, !.ar = Len(net) + 1])
          ELSE Stop(j)
  /\ UNCHANGED <<orders, rows, blocks, watch, retry, drops, crashes>>

\* Mutant: the seq job does not wait for confirmations.
Wait_Skipped(j) ==
  /\ job[j].pc = "wait"
  /\ Set(j, [job[j] EXCEPT !.pc = "insert"])
  /\ UNCHANGED <<orders, rows, net, blocks, watch, retry, drops, faults, crashes>>

\* arTxWatcher polls for an hour; after that nothing is recorded.
Wait(j) ==
  /\ job[j].pc = "wait"
  /\ \/ /\ net[job[j].ar].st = "confirmed"
        /\ Set(j, [job[j] EXCEPT !.pc = "insert"])
        /\ UNCHANGED faults
     \/ net[job[j].ar].st # "confirmed" /\ Stop(j) /\ UNCHANGED faults
     \/ net[job[j].ar].st = "confirmed" /\ Fault("status") /\ Stop(j)
  /\ UNCHANGED <<orders, rows, net, blocks, watch, retry, drops, crashes>>

\* Mutant: the orders are updated whether or not the row was inserted.
InsertArTx_Skipped(j) ==
  LET l == job[j]
  IN  /\ l.pc = "insert"
      /\ IF l.items = <<>> THEN Stop(j) ELSE Set(j, [l EXCEPT !.pc = "update"])
      /\ UNCHANGED <<orders, rows, net, blocks, watch, retry, drops, faults, crashes>>

\* updateOnChainInfo: the row, always pending, then the orders.
InsertArTx(j) ==
  LET l == job[j]
  IN  /\ l.pc = "insert"
      /\ \/ /\ rows' = Append(rows, [ar |-> l.ar, items |-> l.items, late |-> FALSE,
                                     status |-> "pending"])
            /\ IF l.items = <<>> THEN Stop(j) ELSE Set(j, [l EXCEPT !.pc = "update"])
            /\ UNCHANGED faults
         \/ Fault("table") /\ Stop(j) /\ UNCHANGED rows
      /\ UNCHANGED <<orders, net, blocks, watch, retry, drops, crashes>>

UpdateOrders(j) ==
  LET l == job[j]
      st == IF j = "plain" THEN "pending" ELSE "success"
  IN  /\ l.pc = "update"
      /\ \/ UpdateOrdOnChainStatus({Head(l.items)}, st) /\ UNCHANGED faults
         \/ Fault("table") /\ UNCHANGED orders
      /\ IF Len(l.items) = 1 THEN Stop(j) ELSE Set(j, [l EXCEPT !.items = Tail(@)])
      /\ UNCHANGED <<rows, net, blocks, watch, retry, drops, crashes>>

-----------------------------------------------------------------------------
(***************************************************************************)
(* watchArTx.                                                              *)
(***************************************************************************)
Pending == {n \in DOMAIN rows : rows[n].status = "pending"}

WatchBegin ==
  /\ watch = {} /\ Pending # {}
  /\ watch' = {[row |-> n, ar |-> rows[n].ar, items |-> rows[n].items] : n \in Pending}
  /\ UNCHANGED <<orders, rows, net, blocks, job, retry, drops, faults, crashes>>

\* UpdateArTxStatus asks for the ar_id read with the row.
UpdateArTxStatus(ar, st) ==
  rows' = [n \in DOMAIN rows |->
             IF rows[n].ar = ar THEN [rows[n] EXCEPT !.status = st] ELSE rows[n]]

\* Mutant: the orders of a failed transaction are put back to waiting.
WatchTx_Reopens(w) ==
  LET st == net[w.ar].st
  IN  /\ w \in watch
      /\ watch' = watch \ {w}
      /\ \/ /\ st = "confirmed"
            /\ UpdateArTxStatus(w.ar, "success")
            /\ UpdateOrdOnChainStatus(Range(w.items), "success")
         \/ st = "sent" /\ UNCHANGED <<rows, orders>>
         \/ /\ st = "dropped"
            /\ IF rows[w.row].late
               THEN /\ UpdateArTxStatus(w.ar, "failed")
                    /\ UpdateOrdOnChainStatus(Range(w.items), "waiting")
               ELSE UNCHANGED <<rows, orders>>
      /\ UNCHANGED <<net, blocks, job, retry, drops, faults, crashes>>

\* An error other than "pending" fails a transaction sent 50 blocks ago.
WatchTx(w) ==
  LET st == net[w.ar].st
      late == rows[w.row].late
  IN  /\ w \in watch
      /\ watch' = watch \ {w}
      /\ \/ /\ st = "confirmed"
            /\ UpdateArTxStatus(w.ar, "success")
            /\ UpdateOrdOnChainStatus(Range(w.items), "success")
            /\ UNCHANGED faults
         \/ st = "sent" /\ UNCHANGED <<rows, orders, faults>>
         \/ /\ st = "dropped"
            /\ IF late THEN UpdateArTxStatus(w.ar, "failed") ELSE UNCHANGED rows
            /\ UNCHANGED <<orders, faults>>
         \/ /\ Fault("status")
            /\ \/ late /\ UpdateArTxStatus(w.ar, "failed")
               \/ UNCHANGED rows
            /\ UNCHANGED orders
      /\ UNCHANGED <<net, blocks, job, retry, drops, crashes>>

-----------------------------------------------------------------------------
(***************************************************************************)
(* retryOnChainArTx.  The row keeps its items, whatever the new bundle     *)
(* holds; a failure to send ends the job.                                  *)
(***************************************************************************)
\* Mutant: failed transactions are not sent again.
RetryBegin_Never ==
  /\ FALSE
  /\ UNCHANGED vars

RetryBegin ==
  /\ retry.pc = "idle"
  /\ \E n \in DOMAIN rows : rows[n].status = "failed"
  /\ retry' = [IdleRetry EXCEPT !.pc = "send",
                 !.todo = {n \in DOMAIN rows : rows[n].status = "failed"}]
  /\ UNCHANGED <<orders, rows, net, blocks, job, watch, drops, faults, crashes>>

RetrySend ==
  /\ retry.pc = "send"
  /\ \E o \in Outcomes(rows[Min(retry.todo)].items) :
       /\ onChainBundleTx(o)
       /\ retry' = IF o.ok THEN [retry EXCEPT !.pc = "update", !.ar = Len(net) + 1]
                   ELSE IdleRetry
  /\ UNCHANGED <<orders, rows, blocks, job, watch, drops, crashes>>

UpdateArTx ==
  LET n == Min(retry.todo)
      rest == retry.todo \ {n}
  IN  /\ retry.pc = "update"
      /\ \/ /\ rows' = [rows EXCEPT ![n].ar = retry.ar, ![n].status = "pending",
                                    ![n].late = FALSE]
            /\ UNCHANGED faults
         \/ Fault("table") /\ UNCHANGED rows
      /\ retry' = IF rest = {} THEN IdleRetry
                  ELSE [IdleRetry EXCEPT !.pc = "send", !.todo = rest]
      /\ UNCHANGED <<orders, net, blocks, job, watch, drops, crashes>>

-----------------------------------------------------------------------------
(***************************************************************************)
(* The network and the passing of time.                                    *)
(***************************************************************************)

\* Transactions just sent, still to be recorded.
Unrecorded ==
  {retry.ar, job["plain"].ar}

Confirm(n) ==
  /\ net[n].st = "sent"
  /\ SlowChain => n \notin Unrecorded
  /\ net' = [net EXCEPT ![n].st = "confirmed"]
  /\ blocks' = Append(blocks, n)
  /\ UNCHANGED <<orders, rows, job, watch, retry, drops, faults, crashes>>

Drop(n) ==
  /\ net[n].st = "sent"
  /\ drops < MaxDrops
  /\ drops' = drops + 1
  /\ net' = [net EXCEPT ![n].st = "dropped"]
  /\ UNCHANGED <<orders, rows, blocks, job, watch, retry, faults, crashes>>

FiftyBlocks(n) ==
  /\ rows[n].status = "pending" /\ ~rows[n].late
  /\ SlowChain => rows[n].ar \notin Unrecorded
  /\ rows' = [rows EXCEPT ![n].late = TRUE]
  /\ UNCHANGED <<orders, net, blocks, job, watch, retry, drops, faults, crashes>>

Restart ==
  /\ crashes < MaxCrashes
  /\ crashes' = crashes + 1
  /\ job' = [j \in Jobs |-> IdleJob]
  /\ watch' = {} /\ retry' = IdleRetry
  /\ UNCHANGED <<orders, rows, net, blocks, drops, faults>>

JobStep(j) ==
  \/ JobBegin(j) \/ Collect(j) \/ Copy(j) \/ Send(j) \/ Wait(j)
  \/ InsertArTx(j) \/ UpdateOrders(j)
WatchStep == WatchBegin \/ \E w \in watch : WatchTx(w)
RetryStep == RetryBegin \/ RetrySend \/ UpdateArTx

Next ==
  \/ \E i \in Items, sort \in BOOLEAN : OpenOrder(i, sort)
  \/ \E j \in Jobs : JobStep(j)
  \/ WatchStep \/ RetryStep
  \/ \E n \in DOMAIN net : Confirm(n) \/ Drop(n)
  \/ \E n \in DOMAIN rows : FiftyBlocks(n)
  \/ Restart

Spec == Init /\ [][Next]_vars

(***************************************************************************)
(* Scheduling: the scheduler starts every job again and again, blocks are  *)
(* mined, and the network confirms a transaction it does not drop.         *)
(***************************************************************************)
FairSpec ==
  /\ Spec
  /\ \A j \in Jobs : WF_vars(JobStep(j))
  /\ WF_vars(WatchStep) /\ WF_vars(RetryStep)
  /\ \A n \in 1..MaxSent : WF_vars(n \in DOMAIN net /\ Confirm(n))
  /\ \A n \in 1..MaxSent : WF_vars(n \in DOMAIN rows /\ FiftyBlocks(n))

-----------------------------------------------------------------------------
(***************************************************************************)
(* Properties.                                                             *)
(***************************************************************************)

\* A transaction, and a confirmed one, that carries the item.
Carries(n, i) == i \in Range(net[n].items)
OnChainItem(i) == \E n \in Range(blocks) : Carries(n, i)

\* An order that says "success" has its item on chain: through overlapping
\* sweeps of the four jobs, retries, crashes and failing updates.
SuccessIsOnChain ==
  \A o \in DOMAIN orders : orders[o].chain = "success" => OnChainItem(orders[o].item)

\* A pending order is never forgotten: its item is on chain or a row that
\* watchArTx or retryOnChainArTx will visit again still lists it.
PendingIsTracked ==
  \A o \in DOMAIN orders : orders[o].chain = "pending" =>
    \/ OnChainItem(orders[o].item)
    \/ \E n \in DOMAIN rows : /\ rows[n].status \in {"pending", "failed"}
                              /\ orders[o].item \in Range(rows[n].items)

\* Items whose orders all ask for the sequence.
Sequenced(i) == \A o \in DOMAIN orders : orders[o].item = i => orders[o].sort

\* jobs.go:58, "by upload order", and schema/db.go:53, "upload items to
\* arweave by sequence": of two items submitted only to be uploaded in
\* sequence the later one is never on chain before the earlier one.
SortedInOrder ==
  \A o, p \in DOMAIN orders :
    o < p /\ Sequenced(orders[o].item) /\ Sequenced(orders[p].item) =>
      \A b \in DOMAIN blocks : Carries(blocks[b], orders[p].item) =>
        \/ \E a \in 1..b : Carries(blocks[a], orders[o].item)
        \/ \E q \in 1..(o - 1) : orders[q].item = orders[p].item

\* What a customer can see: the orders, without the Sort header, the items of
\* all transactions sent and the items of those confirmed.
Accounts == [o \in DOMAIN orders |-> [item |-> orders[o].item, status |-> orders[o].chain]]
SentItems == {i \in Items : \E n \in DOMAIN net : Carries(n, i)}
MinedItems == {i \in Items : OnChainItem(i)}

Promise == INSTANCE Delivery WITH order <- Accounts, sent <- SentItems, mined <- MinedItems

\* Whatever the four jobs read before another one wrote, and however often a
\* bundle is sent again, each step is a step of Delivery or none: nothing is
\* sent that nobody ordered, no order is lost or put back to waiting, and none
\* is called pending or successful before its item has come that far.
ImplementsDelivery == Promise!Spec

\* Every paid order ends, and stays, in "success".
OrderStaysSuccess ==
  \A o \in 1..MaxOrders :
    o \in DOMAIN orders ~> [](o \in DOMAIN orders /\ orders[o].chain = "success")
=============================================================================
