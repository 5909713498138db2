------------------------------ MODULE Payments ------------------------------
(***************************************************************************)
(* Paying for bundle items: bundle.go, the payment jobs of jobs.go, the    *)
(* order, receipt and api key tables of wdb.go.                            *)
(*                                                                         *)
(* HTTP handlers store an item and open an order for it, unpaid or (with   *)
(* an api key) paid from the key's balance.  watchEverReceiptTxs turns the *)
(* everPay transfers to the bundler into receipts; mergeReceiptEverTxs     *)
(* spends a receipt on orders or on an api key's balance, or marks it for  *)
(* refund; refundReceipt sends the money back; processExpiredOrd closes    *)
(* unpaid orders past their deadline and deletes their items.  The jobs    *)
(* are singletons and run concurrently with each other and the handlers;   *)
(* a step below is one access of the database, the store or everPay.       *)
(***************************************************************************)
EXTENDS Integers, Sequences, FiniteSets, FiniteSetsExt, Functions

CONSTANTS
  Subs,          \* goroutines serving submitItem and submitNativeData
  Items,         \* bundle items
  ManifestItems, \* those that are manifests
  Symbols,       \* currencies
  Supported,     \* currencies with a bundle fee (GetPerFee)
  Fees,          \* the fees CalcItemFee may come to, as prices move
  Addrs,         \* owners of api keys
  Pays,          \* the everPay transfers to the bundler, in RawId order
  ExpiredRange,  \* paymentExpiredRange
  MaxOrders, MaxTime, MaxDays, MaxFaults, MaxCrashes,   \* bounds
  None

\* A transfer whose data is not JSON is "garbage"; "bad" data is JSON that
\* parseTxData refuses.
Transfer == [kind: {"items", "apikey", "bad", "garbage"}, items: Seq(Items),
             amount: Nat, symbol: Symbols, from: Addrs]

Statuses == {"unspent", "spent", "unrefund", "refunded", "refundErr"}

ASSUME ConstantsAssumption ==
  /\ Supported \subseteq Symbols /\ ManifestItems \subseteq Items
  /\ Fees \subseteq Nat /\ IsFiniteSet(Fees)
  /\ Pays \in Seq(Transfer)
  /\ \A n \in 1..Len(Pays) : Pays[n].kind = "items" => Pays[n].items # <<>>
  /\ {ExpiredRange, MaxOrders, MaxTime, MaxDays, MaxFaults, MaxCrashes} \subseteq Nat
  /\ None \notin Addrs /\ None \notin Nat /\ None \notin Items /\ None \notin Statuses

Receipts == 1..Len(Pays)

-----------------------------------------------------------------------------
VARIABLES
  \* persistent
  orders,    \* order table: a sequence indexed by ID
  binary,    \* BundleItemBinary bucket
  meta,      \* BundleItemMeta bucket
  manifest,  \* items in the manifest table
  status,    \* receipt table: the status of a receipt, None when absent
  bal,       \* api key table: TokenBalance per address, None when absent
  \* everPay
  sent,      \* transfers made so far
  refunds,   \* refund transfers executed, per receipt
  \* volatile
  cursor,    \* last transfer the subscription delivered
  sub,       \* locals of the handlers
  merge,     \* locals of mergeReceiptEverTxs
  refund,    \* locals of refundReceipt
  expire,    \* locals of processExpiredOrd
  \* time, and what it makes of the receipts' nonces
  now, old,  \* receipts up to old are more than a day old
  \* history: balance credits made for a receipt
  credited,
  days, faults, crashes

db     == <<orders, status, bal>>
store  == <<binary, meta, manifest>>
ever   == <<sent, refunds>>
jobs   == <<merge, refund, expire>>
clock  == <<now, old, days>>
vars   == <<db, store, ever, cursor, sub, jobs, clock, credited, faults, crashes>>

Order == [item: Items, fee: Nat, cur: Symbols, exp: Nat,
          pay: {"unpaid", "paid", "expired"}, chain: {"waiting", "failed"},
          by: Receipts \cup {None}]

Balance == [Symbols -> Nat \cup {None}]

SubPcs == {"idle", "spendRead", "spendWrite", "exist", "saveBinary",
           "saveMeta", "undo", "insert"}
MergePcs == {"idle", "next", "find", "pay", "keyRead", "keyWrite", "keySpent"}
ExpirePcs == {"idle", "next", "paid", "latest", "exist", "delMeta",
              "delBinary", "delManifest"}

IdleSub == [pc |-> "idle", item |-> None, addr |-> None, cur |-> None, left |-> None]
IdleMerge == [pc |-> "idle", todo |-> {}, rpt |-> None, items |-> <<>>,
              ords |-> <<>>, new |-> None]
IdleRefund == [pc |-> "idle", todo |-> {}, rpt |-> None]
IdleExpire == [pc |-> "idle", todo |-> {}, ord |-> None]

TablesType ==
  /\ orders \in Seq(Order)
  /\ binary \subseteq Items /\ meta \subseteq Items /\ manifest \subseteq Items
  /\ status \in [Receipts -> Statuses \cup {None}]
  /\ bal \in [Addrs -> Balance \cup {None}]

EverType ==
  /\ sent \in 0..Len(Pays) /\ cursor \in 0..sent
  /\ refunds \in [Receipts -> Nat] /\ credited \in [Receipts -> Nat]

SubType ==
  sub \in [Subs -> [pc: SubPcs, item: Items \cup {None}, addr: Addrs \cup {None},
                   cur: Symbols \cup {None}, left: Balance \cup {None}]]

MergeType ==
  merge \in [pc: MergePcs, todo: SUBSET Receipts, rpt: Receipts \cup {None},
             items: Seq(Items), ords: Seq(Nat), new: Balance \cup {None}]

RefundType ==
  refund \in [pc: {"idle", "next", "transfer", "err"}, todo: SUBSET Receipts,
              rpt: Receipts \cup {None}]

ExpireType == expire \in [pc: ExpirePcs, todo: SUBSET Nat, ord: Nat \cup {None}]

CountersType ==
  /\ now \in 0..MaxTime /\ old \in 0..Len(Pays) /\ days \in 0..MaxDays
  /\ faults \in 0..MaxFaults /\ crashes \in 0..MaxCrashes

\* The tables and the locals of handlers and jobs hold values of their kind;
\* the subscription never runs ahead of everPay.
TypeOK ==
  /\ TablesType /\ EverType /\ CountersType
  /\ SubType /\ MergeType /\ RefundType /\ ExpireType

Fault == faults < MaxFaults /\ faults' = faults + 1

Init ==
  /\ orders = <<>>
  /\ binary = {} /\ meta = {} /\ manifest = {}
  /\ status = [r \in Receipts |-> None]
  /\ bal = [a \in Addrs |-> None]
  /\ sent = 0 /\ cursor = 0
  /\ refunds = [r \in Receipts |-> 0] /\ credited = [r \in Receipts |-> 0]
  /\ sub = [s \in Subs |-> IdleSub]
  /\ merge = IdleMerge /\ refund = IdleRefund /\ expire = IdleExpire
  /\ now = 0 /\ old = 0 /\ days = 0 /\ faults = 0 /\ crashes = 0

-----------------------------------------------------------------------------
(***************************************************************************)
(* submitItem and submitNativeData: processApikeySpendBal when the request *)
(* carries an api key, then ProcessSubmitItem.                             *)
(***************************************************************************)
SubGoto(s, label) == sub' = [sub EXCEPT ![s].pc = label]
Reply(s) == sub' = [sub EXCEPT ![s] = IdleSub]
Serving == {s \in Subs : sub[s].pc # "idle"}

Submit(s, i, c, a) ==
  /\ sub[s].pc = "idle"
  /\ Len(orders) + Cardinality(Serving) < MaxOrders
  /\ sub' = [sub EXCEPT ![s] =
       [pc |-> IF a = None THEN "exist" ELSE "spendRead",
        item |-> i, addr |-> a, cur |-> c, left |-> None]]
  /\ UNCHANGED <<db, store, ever, cursor, jobs, clock, credited, faults, crashes>>

\* A signed item, with an api key (of the address a) or without.
SubmitItem(s, i, c, a) == Submit(s, i, c, a)

\* Data the bundler signs into an item: the api key is looked up first.
SubmitNativeData(s, i, c, a) == bal[a] # None /\ Submit(s, i, c, a)

\* Mutant: the fee is not compared with the balance.
CanSpend_Unchecked(a, c, fee) ==
  c \in Supported /\ bal[a] # None /\ bal[a][c] # None

CanSpend(a, c, fee) ==
  /\ c \in Supported
  /\ bal[a] # None /\ bal[a][c] # None
  /\ fee <= bal[a][c]

\* The new balance is computed from what was read, to be written later.
SpendRead(s) ==
  LET a == sub[s].addr
      c == sub[s].cur
  IN  /\ sub[s].pc = "spendRead"
      /\ \E fee \in Fees :
           IF CanSpend(a, c, fee)
           THEN sub' = [sub EXCEPT ![s].pc = "spendWrite",
                          ![s].left = [bal[a] EXCEPT ![c] = @ - fee]]
           ELSE Reply(s)
      /\ UNCHANGED <<db, store, ever, cursor, jobs, clock, credited, faults, crashes>>

SpendWrite(s) ==
  /\ sub[s].pc = "spendWrite"
  /\ \/ /\ bal' = [bal EXCEPT ![sub[s].addr] = sub[s].left]
        /\ SubGoto(s, "exist")
        /\ UNCHANGED faults
     \/ Fault /\ Reply(s) /\ UNCHANGED bal
  /\ UNCHANGED <<orders, status, store, ever, cursor, jobs, clock, credited, crashes>>

\* saveItem: an item whose binary is there is not saved again.
Exist(s) ==
  /\ sub[s].pc = "exist"
  /\ SubGoto(s, IF sub[s].item \in binary THEN "insert" ELSE "saveBinary")
  /\ UNCHANGED <<db, store, ever, cursor, jobs, clock, credited, faults, crashes>>

\* AtomicSaveItem: the binary, then the metadata; a failure of the second
\* Put deletes the binary.
SaveItemBinary(s) ==
  /\ sub[s].pc = "saveBinary"
  /\ \/ /\ binary' = binary \cup {sub[s].item}
        /\ SubGoto(s, "saveMeta")
        /\ UNCHANGED faults
     \/ Fault /\ Reply(s) /\ UNCHANGED binary
  /\ UNCHANGED <<db, meta, manifest, ever, cursor, jobs, clock, credited, crashes>>

SaveItemMeta(s) ==
  /\ sub[s].pc = "saveMeta"
  /\ \/ /\ meta' = meta \cup {sub[s].item}
        /\ SubGoto(s, "insert")
        /\ UNCHANGED faults
     \/ Fault /\ SubGoto(s, "undo") /\ UNCHANGED meta
  /\ UNCHANGED <<db, binary, manifest, ever, cursor, jobs, clock, credited, crashes>>

UndoSave(s) ==
  /\ sub[s].pc = "undo"
  /\ binary' = binary \ {sub[s].item}
  /\ Reply(s)
  /\ UNCHANGED <<db, meta, manifest, ever, cursor, jobs, clock, credited, faults, crashes>>

\* CalcItemFee and InsertOrder: an api key has already paid.  An unsupported
\* currency is noticed only here, after the item was saved.
InsertOrder(s) ==
  LET keyed == sub[s].addr # None
      Opened(fee) ==
        [item |-> sub[s].item, fee |-> fee, cur |-> sub[s].cur,
         exp |-> IF keyed THEN 0 ELSE now + ExpiredRange,
         pay |-> IF keyed THEN "paid" ELSE "unpaid",
         chain |-> "waiting", by |-> None]
  IN  /\ sub[s].pc = "insert"
      /\ \/ /\ sub[s].cur \in Supported
            /\ \E fee \in Fees : orders' = Append(orders, Opened(fee))
            /\ UNCHANGED faults
         \/ sub[s].cur \notin Supported /\ UNCHANGED <<orders, faults>>
         \/ Fault /\ UNCHANGED orders
      /\ Reply(s)
      /\ UNCHANGED <<status, bal, store, ever, cursor, jobs, clock, credited, crashes>>

\* setManifestUrl and dataRoute enter an item with metadata in the table.
SetManifest(i) ==
  /\ i \in meta \ manifest /\ i \in ManifestItems
  /\ manifest' = manifest \cup {i}
  /\ UNCHANGED <<db, binary, meta, ever, cursor, sub, jobs, clock, credited,
                 faults, crashes>>

-----------------------------------------------------------------------------
(***************************************************************************)
(* everPay and watchEverReceiptTxs.                                        *)
(***************************************************************************)
UserPays ==
  /\ sent < Len(Pays)
  /\ sent' = sent + 1
  /\ UNCHANGED <<db, store, refunds, cursor, sub, jobs, clock, credited,
                 faults, crashes>>

\* A transfer whose data does not decode is skipped.  InsertReceiptTx does
\* nothing on a known EverHash; its failure is only logged.
WatchReceipt ==
  LET r == cursor + 1
  IN  /\ cursor < sent
      /\ cursor' = r
      /\ \/ /\ status' = IF Pays[r].kind # "garbage" /\ status[r] = None
                         THEN [status EXCEPT ![r] = "unspent"] ELSE status
            /\ UNCHANGED faults
         \/ Pays[r].kind # "garbage" /\ Fault /\ UNCHANGED status
      /\ UNCHANGED <<orders, bal, store, ever, sub, jobs, clock, credited, crashes>>

GetReceiptsByStatus(st) == {r \in Receipts : status[r] = st /\ r > old}

-----------------------------------------------------------------------------
(***************************************************************************)
(* mergeReceiptEverTxs, processPayItems, processPayApikey.                 *)
(***************************************************************************)
MergeBegin ==
  /\ merge.pc = "idle"
  /\ GetReceiptsByStatus("unspent") # {}
  /\ merge' = [IdleMerge EXCEPT !.pc = "next", !.todo = GetReceiptsByStatus("unspent")]
  /\ UNCHANGED <<db, store, ever, cursor, sub, refund, expire, clock, credited,
                 faults, crashes>>

MergeNext(rest) ==
  merge' = IF rest = {} THEN IdleMerge
           ELSE [IdleMerge EXCEPT !.pc = "next", !.todo = rest]

\* UpdateReceiptStatus and on with the next receipt; a failing update leaves
\* the receipt as it was, for the next sweep.
Settle(r, st) ==
  /\ \/ status' = [status EXCEPT ![r] = st] /\ UNCHANGED faults
     \/ Fault /\ UNCHANGED status
  /\ MergeNext(merge.todo \ {r})

\* parseTxData and the switch on its action.
MergePick(r) ==
  LET rest == merge.todo \ {r}
      kind == Pays[r].kind
      credit == Pays[r].symbol \in Supported /\ Pays[r].amount # 0
  IN  /\ merge.pc = "next" /\ r \in merge.todo
      /\ \/ kind = "bad" /\ Settle(r, "unrefund")
         \/ kind = "apikey" /\ ~credit /\ Settle(r, "unrefund")
         \/ /\ kind = "items"
            /\ merge' = [merge EXCEPT !.pc = "find", !.todo = rest, !.rpt = r,
                                      !.items = Pays[r].items]
            /\ UNCHANGED <<status, faults>>
         \/ /\ kind = "apikey" /\ credit
            /\ merge' = [merge EXCEPT !.pc = "keyRead", !.todo = rest, !.rpt = r]
            /\ UNCHANGED <<status, faults>>
      /\ UNCHANGED <<orders, bal, store, ever, cursor, sub, refund, expire, clock,
                     credited, crashes>>

\* Mutant: the query forgets the payment status.
UnPaid_AnyStatus(i) == {o \in DOMAIN orders : orders[o].item = i}

UnPaid(i) == {o \in DOMAIN orders : orders[o].item = i /\ orders[o].pay = "unpaid"}

\* Mutant: a receipt without an order to pay is left alone.
GetUnPaidOrder_NoRefund ==
  LET i == Head(merge.items)
  IN  /\ merge.pc = "find"
      /\ \/ /\ UnPaid(i) # {}
            /\ merge' = [merge EXCEPT !.ords = Append(@, Max(UnPaid(i))),
                           !.items = Tail(@),
                           !.pc = IF Len(merge.items) = 1 THEN "pay" ELSE "find"]
         \/ UnPaid(i) = {} /\ MergeNext(merge.todo)
      /\ UNCHANGED <<db, store, ever, cursor, sub, refund, expire, clock, credited,
                     faults, crashes>>

\* getUnPaidOrdersByItemIds: the last unpaid order of each item, item by item.
GetUnPaidOrder ==
  LET i == Head(merge.items)
  IN  /\ merge.pc = "find"
      /\ \/ /\ UnPaid(i) # {}
            /\ merge' = [merge EXCEPT !.ords = Append(@, Max(UnPaid(i))),
                           !.items = Tail(@),
                           !.pc = IF Len(merge.items) = 1 THEN "pay" ELSE "find"]
            /\ UNCHANGED <<status, faults>>
         \/ UnPaid(i) = {} /\ Settle(merge.rpt, "unrefund")
         \/ Fault /\ MergeNext(merge.todo) /\ UNCHANGED status
      /\ UNCHANGED <<orders, bal, store, ever, cursor, sub, refund, expire, clock,
                     credited, crashes>>

TotalFee(os) == SumFunction([n \in DOMAIN os |-> orders[os[n]].fee])

\* Mutant: the amounts are not added up.
checkOrders_EachAlone(r, os) ==
  \A n \in DOMAIN os : /\ orders[os[n]].cur = Pays[r].symbol
                       /\ orders[os[n]].fee <= Pays[r].amount

checkOrders(r, os) ==
  /\ \A n \in DOMAIN os : orders[os[n]].cur = Pays[r].symbol
  /\ TotalFee(os) <= Pays[r].amount

\* UpdateOrderPay of every order and UpdateReceiptStatus, in one transaction.
\* The orders were read before: the update asks for their id only.
UpdateOrderPay ==
  LET r == merge.rpt
      ids == {merge.ords[n] : n \in DOMAIN merge.ords}
  IN  /\ merge.pc = "pay"
      /\ \/ /\ checkOrders(r, merge.ords)
            /\ orders' = [o \in DOMAIN orders |->
                 IF o \in ids THEN [orders[o] EXCEPT !.pay = "paid", !.by = r]
                 ELSE orders[o]]
            /\ status' = [status EXCEPT ![r] = "spent"]
            /\ MergeNext(merge.todo)
            /\ UNCHANGED faults
         \/ checkOrders(r, merge.ords) /\ Fault /\ MergeNext(merge.todo) /\ UNCHANGED <<orders, status>>
         \/ ~checkOrders(r, merge.ords) /\ Settle(r, "unrefund") /\ UNCHANGED orders
      /\ UNCHANGED <<bal, store, ever, cursor, sub, refund, expire, clock,
                     credited, crashes>>

\* The balance with the receipt added, from what ExistApikey read.
Topped(r) ==
  LET t == Pays[r]
      b == bal[t.from]
  IN  IF b = None THEN [c \in Symbols |-> IF c = t.symbol THEN t.amount ELSE None]
      ELSE [b EXCEPT ![t.symbol] = IF @ = None THEN t.amount ELSE @ + t.amount]

KeyRead ==
  /\ merge.pc = "keyRead"
  /\ merge' = [merge EXCEPT !.pc = "keyWrite", !.new = Topped(merge.rpt)]
  /\ UNCHANGED <<db, store, ever, cursor, sub, refund, expire, clock, credited,
                 faults, crashes>>

\* InsertApiKey or UpdateApikeyTokenBal.
KeyWrite ==
  LET r == merge.rpt
  IN  /\ merge.pc = "keyWrite"
      /\ \/ /\ bal' = [bal EXCEPT ![Pays[r].from] = merge.new]
            /\ credited' = [credited EXCEPT ![r] = @ + 1]
            /\ merge' = [merge EXCEPT !.pc = "keySpent", !.new = None]
            /\ UNCHANGED faults
         \/ Fault /\ MergeNext(merge.todo) /\ UNCHANGED <<bal, credited>>
      /\ UNCHANGED <<orders, status, store, ever, cursor, sub, refund, expire,
                     clock, crashes>>

\* Mutant: the receipt of a deposit is never marked as spent.
KeySpent_Forgotten ==
  /\ merge.pc = "keySpent"
  /\ MergeNext(merge.todo)
  /\ UNCHANGED <<db, store, ever, cursor, sub, refund, expire, clock, credited,
                 faults, crashes>>

KeySpent ==
  /\ merge.pc = "keySpent"
  /\ Settle(merge.rpt, "spent")
  /\ UNCHANGED <<orders, bal, store, ever, cursor, sub, refund, expire, clock,
                 credited, crashes>>

-----------------------------------------------------------------------------
(***************************************************************************)
(* refundReceipt: the status is written before the money is sent.          *)
(***************************************************************************)
RefundBegin ==
  /\ refund.pc = "idle"
  /\ GetReceiptsByStatus("unrefund") # {}
  /\ refund' = [IdleRefund EXCEPT !.pc = "next", !.todo = GetReceiptsByStatus("unrefund")]
  /\ UNCHANGED <<db, store, ever, cursor, sub, merge, expire, clock, credited,
                 faults, crashes>>

RefundNext(rest) ==
  refund' = IF rest = {} THEN IdleRefund
            ELSE [IdleRefund EXCEPT !.pc = "next", !.todo = rest]

\* Mutant: the money is sent before the status is written.
RefundMark_Late(r) ==
  /\ refund.pc = "next" /\ r \in refund.todo
  /\ refund' = [refund EXCEPT !.pc = "transfer", !.todo = @ \ {r}, !.rpt = r]
  /\ UNCHANGED <<db, store, ever, cursor, sub, merge, expire, clock, credited,
                 faults, crashes>>

RefundMark(r) ==
  /\ refund.pc = "next" /\ r \in refund.todo
  /\ \/ /\ status' = [status EXCEPT ![r] = "refunded"]
        /\ refund' = [refund EXCEPT !.pc = "transfer", !.todo = @ \ {r}, !.rpt = r]
        /\ UNCHANGED faults
     \/ Fault /\ RefundNext(refund.todo \ {r}) /\ UNCHANGED status
  /\ UNCHANGED <<orders, bal, store, ever, cursor, sub, merge, expire, clock,
                 credited, crashes>>

\* Transfer succeeds, or fails before or after everPay executed it.
RefundTransfer ==
  LET r == refund.rpt
      executed == [refunds EXCEPT ![r] = @ + 1]
  IN  /\ refund.pc = "transfer"
      /\ \/ refunds' = executed /\ RefundNext(refund.todo) /\ UNCHANGED faults
         \/ /\ Fault
            /\ refunds' \in {refunds, executed}
            /\ refund' = [refund EXCEPT !.pc = "err"]
      /\ UNCHANGED <<db, store, sent, cursor, sub, merge, expire, clock, credited, crashes>>

UpdateRefundErr ==
  /\ refund.pc = "err"
  /\ \/ status' = [status EXCEPT ![refund.rpt] = "refundErr"] /\ UNCHANGED faults
     \/ Fault /\ UNCHANGED status
  /\ RefundNext(refund.todo)
  /\ UNCHANGED <<orders, bal, store, ever, cursor, sub, merge, expire, clock,
                 credited, crashes>>

-----------------------------------------------------------------------------
(***************************************************************************)
(* processExpiredOrd.                                                      *)
(***************************************************************************)
GetExpiredOrders ==
  {o \in DOMAIN orders : orders[o].pay = "unpaid" /\ orders[o].exp < now}

ExpireBegin ==
  /\ expire.pc = "idle"
  /\ GetExpiredOrders # {}
  /\ expire' = [IdleExpire EXCEPT !.pc = "next", !.todo = GetExpiredOrders]
  /\ UNCHANGED <<db, store, ever, cursor, sub, merge, refund, clock, credited,
                 faults, crashes>>

ExpireNext(rest) ==
  expire' = IF rest = {} THEN IdleExpire
            ELSE [IdleExpire EXCEPT !.pc = "next", !.todo = rest]
ExpireGoto(label) == expire' = [expire EXCEPT !.pc = label]

\* Mutant: the order keeps its status.
ExpireMark_Forgotten(o) ==
  /\ expire.pc = "next" /\ o \in expire.todo
  /\ expire' = [expire EXCEPT !.pc = "paid", !.todo = @ \ {o}, !.ord = o]
  /\ UNCHANGED <<db, store, ever, cursor, sub, merge, refund, clock, credited,
                 faults, crashes>>

\* UpdateOrdToExpiredStatus asks for the id only.
ExpireMark(o) ==
  /\ expire.pc = "next" /\ o \in expire.todo
  /\ \/ /\ orders' = [orders EXCEPT ![o].pay = "expired", ![o].chain = "failed"]
        /\ expire' = [expire EXCEPT !.pc = "paid", !.todo = @ \ {o}, !.ord = o]
        /\ UNCHANGED faults
     \/ Fault /\ ExpireNext(expire.todo \ {o}) /\ UNCHANGED orders
  /\ UNCHANGED <<status, bal, store, ever, cursor, sub, merge, refund, clock,
                 credited, crashes>>

\* Mutant: every order that is not unpaid counts as paid.
ExistPaidOrd_NotUnpaid(i) ==
  \E o \in DOMAIN orders : orders[o].item = i /\ orders[o].pay # "unpaid"

ExistPaidOrd(i) == \E o \in DOMAIN orders : orders[o].item = i /\ orders[o].pay = "paid"
IsLatestUnpaidOrd(i, exp) == \A o \in UnPaid(i) : orders[o].exp <= exp

\* The two reasons not to delete the item, then DelItem's own test.
ExpireCheck ==
  LET i == orders[expire.ord].item
  IN  /\ \/ /\ expire.pc = "paid"
            /\ IF ExistPaidOrd(i) THEN ExpireNext(expire.todo) ELSE ExpireGoto("latest")
         \/ /\ expire.pc = "latest"
            /\ IF IsLatestUnpaidOrd(i, orders[expire.ord].exp)
               THEN ExpireGoto("exist") ELSE ExpireNext(expire.todo)
         \/ /\ expire.pc = "exist"
            /\ ExpireGoto(IF i \in binary THEN "delMeta" ELSE "delManifest")
      /\ UNCHANGED <<db, store, ever, cursor, sub, merge, refund, clock, credited,
                     faults, crashes>>

\* Mutant: AtomicDelItem deletes the metadata only.
ExpireDelete_MetaOnly ==
  LET i == orders[expire.ord].item
  IN  /\ expire.pc \in {"delMeta", "delBinary", "delManifest"}
      /\ meta' = meta \ {i}
      /\ manifest' = manifest \ {i}
      /\ ExpireNext(expire.todo)
      /\ UNCHANGED <<db, binary, ever, cursor, sub, merge, refund, clock, credited,
                     faults, crashes>>

\* AtomicDelItem: the metadata, then the binary; DelManifest.
ExpireDelete ==
  LET i == orders[expire.ord].item
  IN  /\ \/ /\ expire.pc = "delMeta"
            /\ meta' = meta \ {i}
            /\ ExpireGoto("delBinary")
            /\ UNCHANGED <<binary, manifest>>
         \/ /\ expire.pc = "delBinary"
            /\ binary' = binary \ {i}
            /\ ExpireGoto("delManifest")
            /\ UNCHANGED <<meta, manifest>>
         \/ /\ expire.pc = "delManifest"
            /\ manifest' = manifest \ {i}
            /\ ExpireNext(expire.todo)
            /\ UNCHANGED <<binary, meta>>
      /\ UNCHANGED <<db, ever, cursor, sub, merge, refund, clock, credited,
                     faults, crashes>>

\* A failing look-up counts as a reason not to delete, a failing delete ends
\* the deletion: the job goes on with the next order.
ExpireFails ==
  /\ expire.pc \in {"paid", "latest", "delMeta", "delBinary", "delManifest"}
  /\ Fault
  /\ ExpireNext(expire.todo)
  /\ UNCHANGED <<db, store, ever, cursor, sub, merge, refund, clock, credited, crashes>>

-----------------------------------------------------------------------------
Tick ==
  /\ now < MaxTime
  /\ now' = now + 1
  /\ UNCHANGED <<db, store, ever, cursor, sub, jobs, old, days, credited, faults, crashes>>

\* A day later no sweep sees today's receipts any more.
DayPasses ==
  /\ days < MaxDays
  /\ days' = days + 1
  /\ old' = sent
  /\ UNCHANGED <<db, store, ever, cursor, sub, jobs, now, credited, faults, crashes>>

\* Mutant: the subscription restarts at the newest transfer.
Restart_AtTheEnd ==
  /\ crashes < MaxCrashes
  /\ crashes' = crashes + 1
  /\ cursor' = sent
  /\ sub' = [s \in Subs |-> IdleSub]
  /\ merge' = IdleMerge /\ refund' = IdleRefund /\ expire' = IdleExpire
  /\ UNCHANGED <<db, store, ever, clock, credited, faults>>

\* The subscription restarts after GetLastEverRawId, the last receipt known.
Restart ==
  /\ crashes < MaxCrashes
  /\ crashes' = crashes + 1
  /\ cursor' = Max({0} \cup {r \in Receipts : status[r] # None})
  /\ sub' = [s \in Subs |-> IdleSub]
  /\ merge' = IdleMerge /\ refund' = IdleRefund /\ expire' = IdleExpire
  /\ UNCHANGED <<db, store, ever, clock, credited, faults>>

Handler(s) ==
  \/ SpendRead(s) \/ SpendWrite(s) \/ Exist(s) \/ SaveItemBinary(s)
  \/ SaveItemMeta(s) \/ UndoSave(s) \/ InsertOrder(s)
Merge ==
  \/ MergeBegin \/ (\E r \in Receipts : MergePick(r)) \/ GetUnPaidOrder
  \/ UpdateOrderPay \/ KeyRead \/ KeyWrite \/ KeySpent
RefundJob ==
  RefundBegin \/ (\E r \in Receipts : RefundMark(r)) \/ RefundTransfer \/ UpdateRefundErr
ExpireJob ==
  \/ ExpireBegin \/ (\E o \in DOMAIN orders : ExpireMark(o)) \/ ExpireCheck
  \/ ExpireDelete \/ ExpireFails

Next ==
  \/ \E s \in Subs : \/ Handler(s)
                     \/ \E i \in Items, c \in Symbols, a \in Addrs \cup {None} :
                          SubmitItem(s, i, c, a)
                     \/ \E i \in Items, c \in Symbols, a \in Addrs :
                          SubmitNativeData(s, i, c, a)
  \/ \E i \in Items : SetManifest(i)
  \/ UserPays \/ WatchReceipt \/ Merge \/ RefundJob \/ ExpireJob
  \/ Tick \/ DayPasses \/ Restart

Spec == Init /\ [][Next]_vars

(***************************************************************************)
(* Scheduling: handlers run to their end, the subscription keeps           *)
(* delivering and the scheduler starts every job again and again.          *)
(***************************************************************************)
FairSpec ==
  /\ Spec
  /\ \A s \in Subs : WF_vars(Handler(s))
  /\ WF_vars(WatchReceipt) /\ WF_vars(Merge) /\ WF_vars(RefundJob)
  /\ WF_vars(ExpireJob)

-----------------------------------------------------------------------------
(***************************************************************************)
(* Properties.                                                             *)
(***************************************************************************)
PaidBy(r) == {o \in DOMAIN orders : orders[o].by = r}

\* A payment is never settled twice: what was sent back is sent back once and
\* has paid for no order, whatever fails and wherever the node crashes
\* (refundReceipt writes its status before it calls Transfer).
SettledOnce ==
  \A r \in Receipts :
    /\ refunds[r] <= 1
    /\ PaidBy(r) # {} => status[r] = "spent"
    /\ refunds[r] = 1 => status[r] \in {"refunded", "refundErr"}

\* The orders a receipt paid for are in its currency and together cost no
\* more than it brought, although prices move and orders of the same item are
\* opened, expire and are paid while processPayItems collects them.
PaymentCovers ==
  \A r \in Receipts :
    /\ \A o \in PaidBy(r) : orders[o].cur = Pays[r].symbol
    /\ SumFunctionOnSet([o \in DOMAIN orders |-> orders[o].fee], PaidBy(r))
         <= Pays[r].amount

\* A receipt never takes over an order another one has paid for: payment_id
\* is written once, although UpdateOrderPay does not look at the status.
PaymentIdStable ==
  [][\A o \in DOMAIN orders : orders[o].by # None => orders'[o].by = orders[o].by]_orders

\* AtomicSaveItem and AtomicDelItem interleave without ever leaving a binary
\* without metadata: saveItem would then never write the metadata again.
BinaryHasMeta ==
  \A i \in binary \ meta :
    \/ \E s \in Subs : sub[s].item = i /\ sub[s].pc \in {"saveMeta", "undo"}
    \/ expire.pc = "delBinary" /\ orders[expire.ord].item = i

\* An item is not kept for ever once all its orders have expired: the last
\* order processExpiredOrd closes takes the item with it, in whatever order
\* orders of equal or different deadlines are opened, paid and closed.
NoOrphanItem ==
  \A i \in binary :
    \/ expire.pc # "idle"
    \/ \E s \in Subs : sub[s].item = i
    \/ \E o \in DOMAIN orders : orders[o].item = i /\ orders[o].pay # "expired"

\* A deposit is credited to the api key's balance once and not sent back too:
\* only a crash or a failing update between UpdateApikeyTokenBal and
\* UpdateReceiptStatus makes the next sweep credit it again, once each.
CreditedOnce ==
  /\ SumFunction([r \in Receipts |-> IF credited[r] > 1 THEN credited[r] - 1 ELSE 0])
       <= faults + crashes
  /\ \A r \in Receipts : credited[r] > 0 => status[r] \in {"unspent", "spent"}

\* What was credited to a key, by deposits in currency c.
Credits(a, c) ==
  SumFunction([r \in Receipts |-> IF Pays[r].from = a /\ Pays[r].symbol = c
                                  THEN credited[r] * Pays[r].amount ELSE 0])

\* The balance of an api key stays between zero and what was credited to it,
\* although handlers and the merge job read it and write it back later,
\* overwriting each other: an update may be lost, but none makes money that
\* no deposit brought or spends what a key never had.
BalanceWithinCredits ==
  \A a \in Addrs, c \in Symbols :
    bal[a] # None /\ bal[a][c] # None =>
      0 <= bal[a][c] /\ bal[a][c] <= Credits(a, c)

\* Every decodable transfer to the bundler becomes a receipt, across restarts
\* of the subscription at GetLastEverRawId, as long as no access failed: an
\* insert that fails is logged and the transfer is not asked for again.
PaymentRecorded ==
  \A r \in Receipts :
    r <= sent /\ Pays[r].kind # "garbage" ~> status[r] # None \/ faults > 0

\* Every receipt is spent or sent back, unless it is a day old before a sweep
\* gets to it.
ReceiptsSettle ==
  \A r \in Receipts :
    status[r] = "unspent" ~> status[r] \in {"spent", "refunded", "refundErr"} \/ r <= old

Overdue(o) == o \in DOMAIN orders /\ orders[o].pay = "unpaid" /\ orders[o].exp < now

\* An unpaid order does not outlive its deadline for ever.
OverdueOrdersClosed == \A o \in 1..MaxOrders : Overdue(o) ~> ~Overdue(o)

\* The receipts processPayApikey credits.
Deposit(r) ==
  Pays[r].kind = "apikey" /\ Pays[r].symbol \in Supported /\ Pays[r].amount # 0

\* The items a transfer names.
Named(r) == Range(Pays[r].items)

\* What customers can see of the tables and of everPay.
Bills == [o \in DOMAIN orders |-> [item |-> orders[o].item, fee |-> orders[o].fee,
                                  cur |-> orders[o].cur]]
Purchases == [r \in Receipts |-> PaidBy(r)]

Ledger == INSTANCE Settlement WITH
  Wanted <- [r \in Receipts |-> Named(r)],
  Amount <- [r \in Receipts |-> Pays[r].amount],
  Currency <- [r \in Receipts |-> Pays[r].symbol],
  Deposits <- {r \in Receipts : Deposit(r)},
  order <- Bills, fate <- status, bought <- Purchases, credit <- credited, back <- refunds

\* However handlers, subscription and jobs interleave, fail and restart, each
\* of their steps is a step of Settlement or none: a payment buys every item
\* it names at once or nothing, never what another one bought, and is spent,
\* credited or sent back but not two of these.
ImplementsSettlement == Ledger!Spec

(***************************************************************************)
(* What comments of the source say.                                        *)
(***************************************************************************)

\* jobs.go:965, "can not delete" and "1. exist paid order": the item of a paid
\* order is in the store.
PaidItemStored ==
  \A o \in DOMAIN orders : orders[o].pay = "paid" => orders[o].item \in binary
=============================================================================
