--------------------------- MODULE PaymentsProofs ---------------------------
(***************************************************************************)
(* Theorems about Payments, for any number of handlers, items, currencies, *)
(* keys and transfers, any fees, failing accesses and crashes.             *)
(***************************************************************************)
EXTENDS Payments, SumTheorems, SequenceTheorems

-----------------------------------------------------------------------------
(***************************************************************************)
(* Types.                                                                  *)
(***************************************************************************)

\* What a handler has in its locals where it uses them.
SubLocals ==
  \A s \in Subs :
    /\ sub[s].pc # "idle" => sub[s].item \in Items /\ sub[s].cur \in Symbols
    /\ sub[s].pc \in {"spendRead", "spendWrite"} => sub[s].addr \in Addrs
    /\ sub[s].pc = "spendWrite" => sub[s].left \in Balance

\* The same for the merge job.
MergeLocals ==
  /\ merge.pc \notin {"idle", "next"} => merge.rpt \in Receipts
  /\ merge.pc = "find" => merge.items # <<>>
  /\ merge.pc = "keyWrite" => merge.new \in Balance
  /\ \A n \in DOMAIN merge.ords : merge.ords[n] \in DOMAIN orders

RefundLocals == refund.pc \in {"transfer", "err"} => refund.rpt \in Receipts

ExpireLocals ==
  /\ expire.todo \subseteq DOMAIN orders
  /\ expire.pc \notin {"idle", "next"} => expire.ord \in DOMAIN orders

TypeInv == TypeOK /\ SubLocals /\ MergeLocals /\ RefundLocals /\ ExpireLocals

\* Where a receipt stands: a receipt is known only of a transfer that was made;
\* what the merge job has before it is unspent, what the refund job has before
\* it waits for its refund; money is sent back after the status says so.
ReceiptInv ==
  /\ \A r \in Receipts : status[r] # None => r <= sent
  /\ \A r \in merge.todo : status[r] = "unspent"
  /\ merge.pc \notin {"idle", "next"} =>
       status[merge.rpt] = "unspent" /\ merge.rpt \notin merge.todo
  /\ \A r \in refund.todo : status[r] = "unrefund"
  /\ refund.pc \in {"transfer", "err"} => status[refund.rpt] = "refunded"
  /\ refund.pc = "transfer" => refunds[refund.rpt] = 0
  /\ \A r \in Receipts :
       /\ refunds[r] <= 1
       /\ refunds[r] # 0 => status[r] \in {"refunded", "refundErr"}

\* What a step leaves alone keeps its type.
LEMMA TypeFrame ==
  ASSUME TypeInv
  PROVE  /\ UNCHANGED <<binary, meta, manifest, status, bal, orders>> => TablesType'
         /\ UNCHANGED <<sent, cursor, refunds, credited>> => EverType'
         /\ UNCHANGED <<now, old, days, faults, crashes>> => CountersType'
         /\ UNCHANGED sub => SubType' /\ SubLocals'
         /\ UNCHANGED refund => RefundType' /\ RefundLocals'
         /\ UNCHANGED merge => MergeType'
         /\ UNCHANGED expire => ExpireType'
         /\ DOMAIN orders \subseteq DOMAIN orders' =>
              /\ UNCHANGED merge => MergeLocals'
              /\ UNCHANGED expire => ExpireLocals'
  BY DEF TypeInv, TypeOK, TablesType, EverType, CountersType, SubType, MergeType,
         RefundType, ExpireType, SubLocals, MergeLocals, RefundLocals, ExpireLocals

\* A fault is counted up to its bound.
LEMMA FaultFrame ==
  ASSUME CountersType, UNCHANGED <<now, old, days, crashes>>, UNCHANGED faults \/ Fault
  PROVE  CountersType'
  BY ConstantsAssumption DEF CountersType, Fault

\* A change of some orders keeps the table and its ids.
LEMMA OrdersUpdate ==
  ASSUME orders \in Seq(Order), NEW f \in [DOMAIN orders -> Order]
  PROVE  f \in Seq(Order) /\ DOMAIN f = DOMAIN orders
  OBVIOUS

\* Max of a bounded set is its greatest element.
LEMMA MaxBounded ==
  ASSUME NEW n \in Nat, NEW S \in SUBSET (0..n), S # {}
  PROVE  Max(S) \in S /\ \A y \in S : y <= Max(S)
<1> DEFINE T == {n - x : x \in S}
<1>1. T \in SUBSET Nat /\ T # {}
  <2>1. \A x \in S : x \in Int /\ 0 <= x /\ x <= n
    OBVIOUS
  <2>2. \A x \in S : n - x \in Nat
    BY <2>1
  <2>3. QED
    BY <2>2
<1>2. PICK t \in T : \A y \in T : t <= y
  BY <1>1, LeastNatural
<1>3. PICK x \in S : t = n - x
  BY <1>2
<1>4. \A y \in S : x >= y
  <2>1. ASSUME NEW y \in S PROVE x >= y
    <3>1. n - y \in T
      OBVIOUS
    <3>2. n - x <= n - y
      BY <1>2, <1>3, <3>1
    <3>3. QED
      BY <3>2
  <2>2. QED
    BY <2>1
<1>5. \E z \in S : \A y \in S : z >= y
  BY <1>4
<1>6. Max(S) \in S /\ \A y \in S : Max(S) >= y
  BY <1>5 DEF Max
<1>7. QED
  BY <1>6

\* The constants as the proofs use them.
LEMMA Constants ==
  /\ MaxFaults \in Nat /\ MaxCrashes \in Nat /\ MaxTime \in Nat /\ MaxDays \in Nat
  /\ ExpiredRange \in Nat /\ Fees \subseteq Nat /\ Len(Pays) \in Nat
  /\ None \notin Addrs /\ None \notin Nat /\ None \notin Items
  /\ None \notin Receipts /\ None \notin Statuses
  /\ IsFiniteSet(Receipts)
  /\ \A r \in Receipts :
       /\ r \in Nat /\ Pays[r] \in Transfer
       /\ Pays[r].kind = "items" => Pays[r].items # <<>>
<1>1. /\ Pays \in Seq(Transfer)
      /\ \A n \in 1..Len(Pays) : Pays[n].kind = "items" => Pays[n].items # <<>>
  BY ConstantsAssumption
<1>2. IsFiniteSet(Receipts)
  BY <1>1, FS_Interval DEF Receipts
<1>3. QED
  BY <1>1, <1>2, ConstantsAssumption DEF Receipts

\* An insertion appends an order of the handler's item that no receipt paid,
\* or leaves the table alone.
LEMMA InsertEffect ==
  ASSUME TypeInv, NEW s \in Subs, InsertOrder(s)
  PROVE  \/ UNCHANGED orders
         \/ \E new \in Order :
              /\ orders' = Append(orders, new) /\ UNCHANGED faults
              /\ new.item = sub[s].item /\ new.by = None
              /\ new.pay \in {"paid", "unpaid"}
<1> DEFINE New(fee) ==
             [item |-> sub[s].item, fee |-> fee, cur |-> sub[s].cur,
              exp |-> IF sub[s].addr # None THEN 0 ELSE now + ExpiredRange,
              pay |-> IF sub[s].addr # None THEN "paid" ELSE "unpaid",
              chain |-> "waiting", by |-> None]
<1>1. sub[s].item \in Items /\ sub[s].cur \in Symbols /\ now \in Nat
  BY DEF InsertOrder, SubLocals, TypeInv, TypeOK, CountersType
<1>2. ASSUME NEW fee \in Fees PROVE New(fee) \in Order
  <2>1. /\ New(fee).exp \in Nat /\ New(fee).fee \in Nat
        /\ New(fee).pay \in {"unpaid", "paid", "expired"}
    BY <1>1, ConstantsAssumption
  <2>2. QED
    BY <1>1, <2>1 DEF Order
<1>3. \A fee \in Fees : /\ New(fee).item = sub[s].item /\ New(fee).by = None
                        /\ New(fee).pay \in {"paid", "unpaid"}
  OBVIOUS
<1>4. UNCHANGED orders \/ \E fee \in Fees : orders' = Append(orders, New(fee)) /\ UNCHANGED faults
  BY DEF InsertOrder
<1> HIDE DEF New
<1>5. QED
  BY <1>2, <1>3, <1>4

\* Ids of orders stay ids: the table only grows.
LEMMA OrdersGrow ==
  ASSUME TypeInv, NEW new \in Order, orders' = Append(orders, new)
  PROVE  /\ orders' \in Seq(Order) /\ DOMAIN orders \subseteq DOMAIN orders'
         /\ DOMAIN orders' = DOMAIN orders \cup {Len(orders) + 1}
         /\ Len(orders) + 1 \notin DOMAIN orders
         /\ orders'[Len(orders) + 1] = new
         /\ \A o \in DOMAIN orders : orders'[o] = orders[o]
  BY DEF TypeInv, TypeOK, TablesType

\* The handlers keep the types.
LEMMA TypeHandler ==
  ASSUME TypeInv, NEW s \in Subs, Handler(s)
  PROVE  TypeInv'
<1> USE DEF TypeInv, TypeOK, db, store, ever, jobs, clock, SubGoto, Reply
<1>u. SubType /\ SubLocals
  OBVIOUS
<1>i. IdleSub \in [pc: SubPcs, item: Items \cup {None}, addr: Addrs \cup {None},
                   cur: Symbols \cup {None}, left: Balance \cup {None}]
  BY DEF IdleSub, SubPcs
<1>r. ASSUME Reply(s) PROVE SubType' /\ SubLocals'
  BY <1>u, <1>r, <1>i DEF SubType, SubLocals, IdleSub
<1>g. ASSUME NEW l \in SubPcs \ {"spendRead", "spendWrite"}, SubGoto(s, l), sub[s].pc # "idle"
      PROVE  SubType' /\ SubLocals'
  BY <1>u, <1>g DEF SubType, SubLocals
<1>1. CASE SpendRead(s)
  <2> DEFINE a == sub[s].addr
             c == sub[s].cur
  <2>1. PICK fee \in Fees :
          IF CanSpend(a, c, fee)
          THEN sub' = [sub EXCEPT ![s].pc = "spendWrite",
                         ![s].left = [bal[a] EXCEPT ![c] = @ - fee]]
          ELSE Reply(s)
    BY <1>1 DEF SpendRead
  <2>2. CASE CanSpend(a, c, fee)
    <3>1. sub[s].pc = "spendRead" /\ a \in Addrs /\ c \in Symbols
      BY <1>1 DEF SpendRead, SubLocals
    <3>2. bal[a] \in Balance /\ bal[a][c] \in Nat /\ fee \in Nat /\ fee <= bal[a][c]
      BY <2>2, <3>1, Constants DEF CanSpend, TablesType, Balance
    <3>3. [bal[a] EXCEPT ![c] = @ - fee] \in Balance
      BY <3>1, <3>2 DEF Balance
    <3>4. SubType' /\ SubLocals'
      BY <2>1, <2>2, <3>1, <3>3, <1>u DEF SubType, SubLocals, SubPcs
    <3>5. QED
      BY <1>1, <3>4, TypeFrame DEF SpendRead
  <2>3. QED
    BY <1>1, <2>1, <2>2, <1>r, TypeFrame DEF SpendRead
<1>2. CASE SpendWrite(s)
  <2>1. SubType' /\ SubLocals'
    BY <1>2, <1>r, <1>g DEF SpendWrite, SubPcs
  <2>2. TablesType'
    BY <1>2 DEF SpendWrite, SubLocals, TablesType
  <2>3. QED
    BY <1>2, <2>1, <2>2, TypeFrame, FaultFrame DEF SpendWrite
<1>3. CASE Exist(s)
  <2>1. SubType' /\ SubLocals'
    BY <1>3, <1>g DEF Exist, SubPcs
  <2>2. QED
    BY <1>3, <2>1, TypeFrame DEF Exist
<1>4. CASE SaveItemBinary(s) \/ SaveItemMeta(s) \/ UndoSave(s)
  <2>1. SubType' /\ SubLocals'
    BY <1>4, <1>r, <1>g DEF SaveItemBinary, SaveItemMeta, UndoSave, SubPcs
  <2>2. TablesType'
    BY <1>4 DEF SaveItemBinary, SaveItemMeta, UndoSave, TablesType, SubLocals
  <2>3. QED
    BY <1>4, <2>1, <2>2, TypeFrame, FaultFrame DEF SaveItemBinary, SaveItemMeta, UndoSave
<1>5. CASE InsertOrder(s)
  <2>1. SubType' /\ SubLocals'
    BY <1>5, <1>r DEF InsertOrder
  <2>2. orders' \in Seq(Order) /\ DOMAIN orders \subseteq DOMAIN orders'
    <3> HIDE DEF TypeInv
    <3>1. CASE UNCHANGED orders
      BY <3>1 DEF TypeInv, TablesType
    <3>2. QED
      BY <1>5, <3>1, InsertEffect, OrdersGrow
  <2>3. TablesType'
    BY <1>5, <2>2 DEF InsertOrder, TablesType
  <2>4. QED
    BY <1>5, <2>1, <2>2, <2>3, TypeFrame, FaultFrame DEF InsertOrder
<1>6. QED
  BY <1>1, <1>2, <1>3, <1>4, <1>5 DEF Handler

\* The merge job keeps the types.
LEMMA TypeMerge ==
  ASSUME TypeInv, ReceiptInv, Merge
  PROVE  TypeInv'
<1> USE DEF TypeInv, TypeOK, db, store, ever, jobs, clock
<1>m. /\ merge.pc \in MergePcs /\ merge.todo \subseteq Receipts
      /\ merge.rpt \in Receipts \cup {None} /\ merge.new \in Balance \cup {None}
      /\ merge.items \in Seq(Items) /\ merge.ords \in Seq(Nat)
      /\ merge = [pc |-> merge.pc, todo |-> merge.todo, rpt |-> merge.rpt,
                  items |-> merge.items, ords |-> merge.ords, new |-> merge.new]
  BY DEF MergeType
<1>e. <<>> \in Seq(Items) /\ <<>> \in Seq(Nat) /\ DOMAIN <<>> = {}
  OBVIOUS
<1>n. ASSUME NEW T \in SUBSET Receipts, MergeNext(T)
      PROVE  MergeType' /\ MergeLocals'
  <2>1. IdleMerge \in [pc: MergePcs, todo: SUBSET Receipts, rpt: Receipts \cup {None},
                       items: Seq(Items), ords: Seq(Nat), new: Balance \cup {None}]
    BY <1>e DEF IdleMerge, MergePcs
  <2>2. MergeType'
    BY <2>1, <1>n DEF MergeNext, MergeType, MergePcs
  <2>3. merge'.pc \in {"idle", "next"} /\ merge'.ords = <<>>
    BY <1>n DEF MergeNext, IdleMerge
  <2>4. QED
    BY <2>2, <2>3, <1>e DEF MergeLocals
<1>s. ASSUME NEW r \in Receipts, NEW st \in Statuses, Settle(r, st),
             UNCHANGED <<binary, meta, manifest, bal, orders>>
      PROVE  MergeType' /\ MergeLocals' /\ TablesType' /\ (UNCHANGED faults \/ Fault)
  BY <1>s, <1>n, <1>m DEF Settle, TablesType
<1>1. CASE MergeBegin
  <2>1. MergeType' /\ MergeLocals'
    BY <1>1, <1>n DEF MergeBegin, MergeNext, GetReceiptsByStatus
  <2>2. QED
    BY <1>1, <2>1, TypeFrame DEF MergeBegin
<1>2. ASSUME NEW r \in Receipts, MergePick(r) PROVE TypeInv'
  <2>1. CASE Settle(r, "unrefund")
    BY <1>2, <2>1, <1>s, TypeFrame, FaultFrame DEF MergePick, Statuses
  <2>2. CASE ~Settle(r, "unrefund")
    <3>1. Pays[r].kind = "items" => Pays[r].items \in Seq(Items) /\ Pays[r].items # <<>>
      BY Constants DEF Transfer
    <3>2. MergeType'
      BY <1>2, <2>2, <3>1, <1>m DEF MergePick, MergeType, MergePcs
    <3>3. MergeLocals'
      BY <1>2, <2>2, <3>1, <1>m DEF MergePick, MergeLocals
    <3>4. QED
      BY <1>2, <2>2, <3>2, <3>3, TypeFrame DEF MergePick
  <2>3. QED
    BY <2>1, <2>2
<1>3. CASE GetUnPaidOrder
  <2> DEFINE i == Head(merge.items)
  <2>p. merge.pc = "find" /\ merge.rpt \in Receipts /\ merge.items # <<>>
    BY <1>3 DEF GetUnPaidOrder, MergeLocals
  <2>1. CASE Settle(merge.rpt, "unrefund")
    BY <1>3, <2>1, <2>p, <1>s, TypeFrame, FaultFrame DEF GetUnPaidOrder, Statuses
  <2>2. CASE Fault /\ MergeNext(merge.todo) /\ UNCHANGED status
    BY <1>3, <2>2, <1>n, <1>m, TypeFrame, FaultFrame DEF GetUnPaidOrder
  <2>3. CASE /\ UnPaid(i) # {} /\ UNCHANGED <<status, faults>>
             /\ merge' = [merge EXCEPT !.ords = Append(@, Max(UnPaid(i))),
                           !.items = Tail(@),
                           !.pc = IF Len(merge.items) = 1 THEN "pay" ELSE "find"]
    <3>1. Max(UnPaid(i)) \in DOMAIN orders /\ Max(UnPaid(i)) \in Nat
      <4>1. Len(orders) \in Nat /\ DOMAIN orders = 1..Len(orders)
        BY DEF TablesType
      <4>2. UnPaid(i) \in SUBSET (0..Len(orders))
        BY <4>1 DEF UnPaid
      <4>3. Max(UnPaid(i)) \in UnPaid(i)
        BY <2>3, <4>1, <4>2, MaxBounded
      <4>4. QED
        BY <4>1, <4>3 DEF UnPaid
    <3>2. Tail(merge.items) \in Seq(Items) /\ (Len(merge.items) # 1 => Tail(merge.items) # <<>>)
      <4>1. /\ Tail(merge.items) \in Seq(Items) /\ Len(merge.items) \in Nat \ {0}
            /\ Len(Tail(merge.items)) = Len(merge.items) - 1
        BY <2>p, <1>m, HeadTailProperties, EmptySeq
      <4>2. Tail(merge.items) = <<>> => Len(Tail(merge.items)) = 0
        BY EmptySeq
      <4>3. QED
        BY <4>1, <4>2
    <3>3. Append(merge.ords, Max(UnPaid(i))) \in Seq(Nat)
      BY <3>1, <1>m
    <3>4. \A n \in DOMAIN Append(merge.ords, Max(UnPaid(i))) :
            Append(merge.ords, Max(UnPaid(i)))[n] \in DOMAIN orders
      BY <3>1, <1>m DEF MergeLocals
    <3> HIDE DEF i
    <3>5. MergeType'
      BY <2>3, <3>2, <3>3, <1>m DEF MergeType, MergePcs
    <3>6. orders' = orders
      BY <1>3 DEF GetUnPaidOrder
    <3>7. MergeLocals'
      BY <2>3, <2>p, <3>2, <3>4, <3>6, <1>m DEF MergeLocals
    <3>8. QED
      BY <1>3, <2>3, <3>5, <3>7, TypeFrame DEF GetUnPaidOrder
  <2>4. QED
    BY <1>3, <2>1, <2>2, <2>3 DEF GetUnPaidOrder
<1>4. CASE UpdateOrderPay
  <2>p. merge.pc = "pay" /\ merge.rpt \in Receipts
    BY <1>4 DEF UpdateOrderPay, MergeLocals
  <2>1. CASE Settle(merge.rpt, "unrefund") /\ UNCHANGED orders
    BY <1>4, <2>1, <2>p, <1>s, TypeFrame, FaultFrame DEF UpdateOrderPay, Statuses
  <2>2. CASE Fault /\ MergeNext(merge.todo) /\ UNCHANGED <<orders, status>>
    BY <1>4, <2>2, <1>n, <1>m, TypeFrame, FaultFrame DEF UpdateOrderPay
  <2>3. CASE /\ orders' = [o \in DOMAIN orders |->
                   IF o \in {merge.ords[n] : n \in DOMAIN merge.ords}
                   THEN [orders[o] EXCEPT !.pay = "paid", !.by = merge.rpt] ELSE orders[o]]
             /\ status' = [status EXCEPT ![merge.rpt] = "spent"]
             /\ MergeNext(merge.todo) /\ UNCHANGED faults
    <3>1. \A o \in DOMAIN orders : orders[o] \in Order
      BY DEF TablesType
    <3>2. \A e \in Order : [e EXCEPT !.pay = "paid", !.by = merge.rpt] \in Order
      BY <2>p DEF Order
    <3>3. orders' \in [DOMAIN orders -> Order]
      BY <2>3, <3>1, <3>2
    <3>4. orders' \in Seq(Order) /\ DOMAIN orders' = DOMAIN orders
      BY <3>3, OrdersUpdate DEF TablesType
    <3>5. TablesType'
      BY <1>4, <2>3, <2>p, <3>4 DEF TablesType, Statuses, UpdateOrderPay
    <3>6. QED
      BY <1>4, <2>3, <3>4, <3>5, <1>n, <1>m, TypeFrame, FaultFrame DEF UpdateOrderPay
  <2>4. QED
    BY <1>4, <2>1, <2>2, <2>3 DEF UpdateOrderPay
<1>5. CASE KeyRead
  <2>p. merge.pc = "keyRead" /\ merge.rpt \in Receipts
    BY <1>5 DEF KeyRead, MergeLocals
  <2> DEFINE t == Pays[merge.rpt]
  <2>1. t.symbol \in Symbols /\ t.amount \in Nat /\ t.from \in Addrs
    BY <2>p, Constants DEF Transfer
  <2>2. Topped(merge.rpt) \in Balance
    <3>1. bal[t.from] \in Balance \cup {None}
      BY <2>1 DEF TablesType
    <3>2. CASE bal[t.from] = None
      BY <2>1, <3>2 DEF Topped, Balance
    <3>3. CASE bal[t.from] \in Balance /\ bal[t.from] # None
      <4>1. bal[t.from][t.symbol] \in Nat \cup {None}
        BY <2>1, <3>3 DEF Balance
      <4>2. (IF bal[t.from][t.symbol] = None THEN t.amount ELSE bal[t.from][t.symbol] + t.amount) \in Nat
        BY <2>1, <4>1
      <4>3. QED
        BY <2>1, <3>3, <4>2 DEF Topped, Balance
    <3>4. QED
      BY <3>1, <3>2, <3>3
  <2>3. MergeType'
    BY <1>5, <2>2, <1>m DEF KeyRead, MergeType, MergePcs
  <2>4. MergeLocals'
    BY <1>5, <2>2, <1>m, <2>p DEF KeyRead, MergeLocals
  <2>5. QED
    BY <1>5, <2>3, <2>4, TypeFrame DEF KeyRead
<1>6. CASE KeyWrite
  <2>p. merge.pc = "keyWrite" /\ merge.rpt \in Receipts /\ merge.new \in Balance
    BY <1>6 DEF KeyWrite, MergeLocals
  <2>1. Pays[merge.rpt].from \in Addrs
    BY <2>p, Constants DEF Transfer
  <2>2. TablesType'
    BY <1>6, <2>p, <2>1 DEF KeyWrite, TablesType
  <2>3. EverType'
    BY <1>6, <2>p DEF KeyWrite, EverType
  <2>4. MergeType' /\ MergeLocals'
    <3>1. CASE MergeNext(merge.todo)
      BY <3>1, <1>n, <1>m
    <3>2. CASE merge' = [merge EXCEPT !.pc = "keySpent", !.new = None]
      BY <1>6, <3>2, <2>p, <1>m DEF KeyWrite, MergeType, MergePcs, MergeLocals
    <3>3. QED
      BY <1>6, <3>1, <3>2 DEF KeyWrite
  <2>5. QED
    BY <1>6, <2>2, <2>3, <2>4, TypeFrame, FaultFrame DEF KeyWrite
<1>7. CASE KeySpent
  <2>1. merge.rpt \in Receipts
    BY <1>7 DEF KeySpent, MergeLocals
  <2>2. QED
    BY <1>7, <2>1, <1>s, TypeFrame, FaultFrame DEF KeySpent, Statuses
<1>8. QED
  BY <1>1, <1>2, <1>3, <1>4, <1>5, <1>6, <1>7 DEF Merge

\* The refund job keeps the types.
LEMMA TypeRefund ==
  ASSUME TypeInv, RefundJob
  PROVE  TypeInv'
<1> USE DEF TypeInv, TypeOK, db, store, ever, jobs, clock
<1>m. /\ refund.pc \in {"idle", "next", "transfer", "err"} /\ refund.todo \subseteq Receipts
      /\ refund.rpt \in Receipts \cup {None}
      /\ refund = [pc |-> refund.pc, todo |-> refund.todo, rpt |-> refund.rpt]
  BY DEF RefundType
<1>n. ASSUME NEW T \in SUBSET Receipts, RefundNext(T)
      PROVE  RefundType' /\ RefundLocals'
  BY <1>n DEF RefundNext, IdleRefund, RefundType, RefundLocals
<1>1. CASE RefundBegin
  <2>1. RefundType' /\ RefundLocals'
    BY <1>1, <1>n DEF RefundBegin, RefundNext, GetReceiptsByStatus
  <2>2. QED
    BY <1>1, <2>1, TypeFrame DEF RefundBegin
<1>2. ASSUME NEW r \in Receipts, RefundMark(r) PROVE TypeInv'
  <2>1. RefundType' /\ RefundLocals'
    <3>1. CASE RefundNext(refund.todo \ {r})
      BY <3>1, <1>n, <1>m
    <3>2. QED
      BY <1>2, <3>1, <1>m DEF RefundMark, RefundType, RefundLocals
  <2>2. TablesType'
    BY <1>2 DEF RefundMark, TablesType, Statuses
  <2>3. QED
    BY <1>2, <2>1, <2>2, TypeFrame, FaultFrame DEF RefundMark
<1>3. CASE RefundTransfer
  <2>p. refund.pc = "transfer" /\ refund.rpt \in Receipts
    BY <1>3 DEF RefundTransfer, RefundLocals
  <2>1. EverType'
    BY <1>3, <2>p DEF RefundTransfer, EverType
  <2>2. RefundType' /\ RefundLocals'
    <3>1. CASE RefundNext(refund.todo)
      BY <3>1, <1>n, <1>m
    <3>2. QED
      BY <1>3, <2>p, <3>1, <1>m DEF RefundTransfer, RefundType, RefundLocals
  <2>3. QED
    BY <1>3, <2>1, <2>2, TypeFrame, FaultFrame DEF RefundTransfer
<1>4. CASE UpdateRefundErr
  <2>1. refund.rpt \in Receipts
    BY <1>4 DEF UpdateRefundErr, RefundLocals
  <2>2. TablesType'
    BY <1>4, <2>1 DEF UpdateRefundErr, TablesType, Statuses
  <2>3. QED
    BY <1>4, <2>2, <1>n, <1>m, TypeFrame, FaultFrame DEF UpdateRefundErr
<1>5. QED
  BY <1>2, <1>1, <1>3, <1>4 DEF RefundJob

\* The job that closes expired orders keeps the types.
LEMMA TypeExpire ==
  ASSUME TypeInv, ExpireJob
  PROVE  TypeInv'
<1> USE DEF TypeInv, TypeOK, db, store, ever, jobs, clock
<1>m. /\ expire.pc \in ExpirePcs /\ expire.todo \subseteq DOMAIN orders
      /\ DOMAIN orders \subseteq Nat /\ expire.ord \in Nat \cup {None}
      /\ expire = [pc |-> expire.pc, todo |-> expire.todo, ord |-> expire.ord]
  BY DEF ExpireType, ExpireLocals, TablesType
<1>n. ASSUME NEW T \in SUBSET DOMAIN orders, ExpireNext(T), DOMAIN orders' = DOMAIN orders
      PROVE  ExpireType' /\ ExpireLocals'
  <2>1. expire'.pc \in {"idle", "next"} /\ expire'.todo = T
    BY <1>n DEF ExpireNext, IdleExpire
  <2>2. ExpireType'
    BY <1>n, <1>m DEF ExpireNext, IdleExpire, ExpireType, ExpirePcs
  <2>3. QED
    BY <2>1, <2>2, <1>n DEF ExpireLocals
<1>g. ASSUME NEW l \in ExpirePcs, ExpireGoto(l), expire.pc \notin {"idle", "next"}, UNCHANGED orders
      PROVE  ExpireType' /\ ExpireLocals'
  BY <1>g, <1>m DEF ExpireGoto, ExpireType, ExpireLocals
<1>1. CASE ExpireBegin
  <2>1. ExpireType' /\ ExpireLocals'
    BY <1>1, <1>n DEF ExpireBegin, ExpireNext, GetExpiredOrders
  <2>2. QED
    BY <1>1, <2>1, TypeFrame DEF ExpireBegin
<1>2. ASSUME NEW o \in DOMAIN orders, ExpireMark(o) PROVE TypeInv'
  <2>1. \A e \in Order : [e EXCEPT !.pay = "expired", !.chain = "failed"] \in Order
    BY DEF Order
  <2>2. orders' \in [DOMAIN orders -> Order]
    <3>1. orders \in [DOMAIN orders -> Order] /\ orders[o] \in Order
      BY DEF TablesType
    <3>2. CASE orders' = [orders EXCEPT ![o].pay = "expired", ![o].chain = "failed"]
      <4>1. orders' = [orders EXCEPT ![o] = [orders[o] EXCEPT !.pay = "expired", !.chain = "failed"]]
        BY <3>2
      <4>2. QED
        BY <4>1, <3>1, <2>1
    <3>3. QED
      BY <1>2, <3>1, <3>2 DEF ExpireMark
  <2>3. orders' \in Seq(Order) /\ DOMAIN orders' = DOMAIN orders
    BY <2>2, OrdersUpdate DEF TablesType
  <2>4. TablesType'
    BY <1>2, <2>3 DEF ExpireMark, TablesType
  <2>5. ExpireType' /\ ExpireLocals'
    <3>1. CASE ExpireNext(expire.todo \ {o})
      BY <3>1, <2>3, <1>n, <1>m
    <3>2. CASE expire' = [expire EXCEPT !.pc = "paid", !.todo = @ \ {o}, !.ord = o]
      BY <3>2, <2>3, <1>m DEF ExpireType, ExpireLocals, ExpirePcs
    <3>3. QED
      BY <1>2, <3>1, <3>2 DEF ExpireMark
  <2>6. QED
    BY <1>2, <2>3, <2>4, <2>5, TypeFrame, FaultFrame DEF ExpireMark
<1>3. CASE ExpireCheck
  <2>1. ExpireType' /\ ExpireLocals'
    <3>1. CASE \E l \in ExpirePcs : ExpireGoto(l)
      BY <1>3, <3>1, <1>g DEF ExpireCheck
    <3>2. CASE ExpireNext(expire.todo)
      BY <1>3, <3>2, <1>n, <1>m DEF ExpireCheck
    <3>3. QED
      BY <1>3, <3>1, <3>2 DEF ExpireCheck, ExpirePcs
  <2>2. QED
    BY <1>3, <2>1, TypeFrame DEF ExpireCheck
<1>4. CASE ExpireDelete
  <2>1. ExpireType' /\ ExpireLocals'
    <3>1. CASE \E l \in ExpirePcs : ExpireGoto(l)
      BY <1>4, <3>1, <1>g DEF ExpireDelete
    <3>2. CASE ExpireNext(expire.todo)
      BY <1>4, <3>2, <1>n, <1>m DEF ExpireDelete
    <3>3. QED
      BY <1>4, <3>1, <3>2 DEF ExpireDelete, ExpirePcs
  <2>2. TablesType'
    BY <1>4 DEF ExpireDelete, TablesType
  <2>3. QED
    BY <1>4, <2>1, <2>2, TypeFrame DEF ExpireDelete
<1>5. CASE ExpireFails
  BY <1>5, <1>n, <1>m, TypeFrame, FaultFrame DEF ExpireFails
<1>6. QED
  BY <1>1, <1>2, <1>3, <1>4, <1>5 DEF ExpireJob

\* So does every step.
LEMMA TypeStep == TypeInv /\ ReceiptInv /\ [Next]_vars => TypeInv'
<1> SUFFICES ASSUME TypeInv, ReceiptInv, [Next]_vars PROVE TypeInv'
  OBVIOUS
<1> USE DEF TypeInv, TypeOK, db, store, ever, jobs, clock
<1>1. ASSUME NEW s \in Subs, NEW i \in Items, NEW c \in Symbols,
             NEW a \in Addrs \cup {None}, Submit(s, i, c, a)
      PROVE  TypeInv'
  <2>1. SubType' /\ SubLocals'
    BY <1>1 DEF Submit, SubType, SubLocals, SubPcs
  <2>2. QED
    BY <1>1, <2>1, TypeFrame DEF Submit
<1>2. ASSUME NEW i \in Items, SetManifest(i) PROVE TypeInv'
  <2>1. TablesType'
    BY <1>2 DEF SetManifest, TablesType
  <2>2. QED
    BY <1>2, <2>1, TypeFrame DEF SetManifest
<1>3. CASE UserPays
  <2>1. EverType'
    BY <1>3, Constants DEF UserPays, EverType
  <2>2. QED
    BY <1>3, <2>1, TypeFrame DEF UserPays
<1>4. CASE WatchReceipt
  <2>1. cursor + 1 \in Receipts
    BY <1>4, Constants DEF WatchReceipt, EverType, Receipts
  <2>2. TablesType'
    BY <1>4, <2>1 DEF WatchReceipt, TablesType, Statuses
  <2>3. EverType'
    BY <1>4, <2>1, Constants DEF WatchReceipt, EverType
  <2>4. QED
    BY <1>4, <2>2, <2>3, TypeFrame, FaultFrame DEF WatchReceipt
<1>5. CASE Tick \/ DayPasses
  <2>1. sent \in 0..Len(Pays)
    BY DEF EverType
  <2>2. CountersType'
    <3>1. CASE Tick
      BY <3>1, Constants DEF Tick, CountersType
    <3>2. CASE DayPasses
      BY <2>1, <3>2, Constants DEF DayPasses, CountersType
    <3>3. QED
      BY <1>5, <3>1, <3>2
  <2>3. QED
    BY <1>5, <2>2, TypeFrame DEF Tick, DayPasses
<1>6. CASE Restart
  <2> DEFINE known == {0} \cup {r \in Receipts : status[r] # None}
  <2>1. sent \in Nat /\ known \in SUBSET (0..sent) /\ known # {}
    BY Constants DEF EverType, ReceiptInv
  <2>2. Max(known) \in 0..sent
    BY <2>1, MaxBounded
  <2>3. EverType'
    BY <1>6, <2>2 DEF Restart, EverType
  <2>4. CountersType'
    BY <1>6, Constants DEF Restart, CountersType
  <2>5. SubType' /\ SubLocals'
    BY <1>6 DEF Restart, IdleSub, SubType, SubLocals, SubPcs
  <2>6. MergeType' /\ MergeLocals'
    <3>1. <<>> \in Seq(Items) /\ <<>> \in Seq(Nat) /\ DOMAIN <<>> = {}
      OBVIOUS
    <3>2. QED
      BY <1>6, <3>1 DEF Restart, IdleMerge, MergeType, MergeLocals, MergePcs
  <2>7. RefundType' /\ RefundLocals' /\ ExpireType' /\ ExpireLocals'
    BY <1>6 DEF Restart, IdleRefund, RefundType, RefundLocals, IdleExpire, ExpireType,
                ExpireLocals, ExpirePcs
  <2>8. QED
    BY <1>6, <2>3, <2>4, <2>5, <2>6, <2>7, TypeFrame DEF Restart
<1>7. CASE UNCHANGED vars
  BY <1>7, TypeFrame DEF vars
<1>8. QED
  <2> HIDE DEF TypeInv
  <2>1. QED
    BY <1>1, <1>2, <1>3, <1>4, <1>5, <1>6, <1>7, TypeHandler, TypeMerge, TypeRefund, TypeExpire
    DEF Next, SubmitItem, SubmitNativeData

-----------------------------------------------------------------------------
(***************************************************************************)
(* Where a receipt stands.                                                 *)
(***************************************************************************)

\* Receipts change hands in one direction: the watcher enters them unspent,
\* only the merge job takes them from there and only the refund job goes on.
LEMMA ReceiptStep == TypeInv /\ ReceiptInv /\ [Next]_vars => ReceiptInv'
<1> SUFFICES ASSUME TypeInv, ReceiptInv, [Next]_vars PROVE ReceiptInv'
  OBVIOUS
<1> USE DEF db, store, ever, jobs, clock
<1>p. /\ status \in [Receipts -> Statuses \cup {None}] /\ refunds \in [Receipts -> Nat]
      /\ merge.todo \subseteq Receipts /\ refund.todo \subseteq Receipts
      /\ merge.pc \notin {"idle", "next"} => merge.rpt \in Receipts
      /\ refund.pc \in {"transfer", "err"} => refund.rpt \in Receipts
      /\ sent \in 0..Len(Pays) /\ cursor \in 0..sent
  BY DEF TypeInv, TypeOK, TablesType, EverType, MergeType, RefundType, MergeLocals, RefundLocals
<1>r. /\ merge = [pc |-> merge.pc, todo |-> merge.todo, rpt |-> merge.rpt,
                  items |-> merge.items, ords |-> merge.ords, new |-> merge.new]
      /\ refund = [pc |-> refund.pc, todo |-> refund.todo, rpt |-> refund.rpt]
  BY DEF TypeInv, TypeOK, MergeType, RefundType
<1>f. UNCHANGED <<status, sent, merge, refund, refunds>> => ReceiptInv'
  BY DEF ReceiptInv
<1>n. ASSUME NEW T, MergeNext(T) PROVE merge'.pc \in {"idle", "next"} /\ merge'.todo = T
  BY <1>n DEF MergeNext, IdleMerge
<1>s. ASSUME NEW r \in Receipts, NEW st \in {"spent", "unrefund"}, Settle(r, st),
             status[r] = "unspent", UNCHANGED <<sent, refund, refunds>>
      PROVE  ReceiptInv'
  <2>1. merge'.pc \in {"idle", "next"} /\ merge'.todo = merge.todo \ {r}
    BY <1>s, <1>n DEF Settle
  <2>2. /\ status' \in [Receipts -> Statuses \cup {None}]
        /\ \A q \in Receipts \ {r} : status'[q] = status[q]
        /\ status'[r] \in {"unspent", "spent", "unrefund"}
    BY <1>s, <1>p DEF Settle, Statuses
  <2>3. \A q \in Receipts : status'[q] # None => q <= sent'
    BY <1>s, <2>2, <1>p, Constants DEF ReceiptInv, Statuses
  <2>4. QED
    BY <1>s, <2>1, <2>2, <2>3, <1>p DEF ReceiptInv
<1>1. CASE Merge
  <2>1. CASE MergeBegin
    <3>1. MergeNext(GetReceiptsByStatus("unspent"))
      BY <2>1 DEF MergeBegin, MergeNext
    <3>2. QED
      BY <2>1, <3>1, <1>n DEF MergeBegin, GetReceiptsByStatus, ReceiptInv
  <2>2. ASSUME NEW r \in Receipts, MergePick(r) PROVE ReceiptInv'
    <3>p. r \in merge.todo /\ status[r] = "unspent"
      BY <2>2 DEF MergePick, ReceiptInv
    <3>1. CASE Settle(r, "unrefund")
      BY <2>2, <3>p, <3>1, <1>s DEF MergePick
    <3>2. CASE ~Settle(r, "unrefund")
      <4>1. merge'.todo = merge.todo \ {r} /\ merge'.rpt = r
        BY <2>2, <3>2, <1>r DEF MergePick
      <4>2. UNCHANGED <<status, sent, refund, refunds>>
        BY <2>2, <3>2 DEF MergePick
      <4>3. QED
        BY <3>p, <4>1, <4>2 DEF ReceiptInv
    <3>3. QED
      BY <3>1, <3>2
  <2>3. CASE GetUnPaidOrder
    <3>p. merge.rpt \in Receipts /\ status[merge.rpt] = "unspent" /\ merge.pc = "find"
      BY <2>3, <1>p DEF GetUnPaidOrder, ReceiptInv
    <3>1. CASE Settle(merge.rpt, "unrefund")
      BY <2>3, <3>p, <3>1, <1>s DEF GetUnPaidOrder
    <3>2. CASE MergeNext(merge.todo) /\ UNCHANGED status
      BY <2>3, <3>2, <1>n DEF GetUnPaidOrder, ReceiptInv
    <3>3. CASE /\ ~(MergeNext(merge.todo) /\ UNCHANGED status)
               /\ ~Settle(merge.rpt, "unrefund")
      <4>1. /\ merge'.todo = merge.todo /\ merge'.rpt = merge.rpt
            /\ UNCHANGED <<status, sent, refund, refunds>>
        BY <2>3, <3>3, <1>r DEF GetUnPaidOrder
      <4>2. QED
        BY <3>p, <4>1 DEF ReceiptInv
    <3>4. QED
      BY <3>1, <3>2, <3>3
  <2>4. CASE UpdateOrderPay
    <3>p. merge.rpt \in Receipts /\ status[merge.rpt] = "unspent" /\ merge.rpt \notin merge.todo
      BY <2>4, <1>p DEF UpdateOrderPay, ReceiptInv
    <3>1. CASE Settle(merge.rpt, "unrefund")
      BY <2>4, <3>p, <3>1, <1>s DEF UpdateOrderPay
    <3>2. CASE MergeNext(merge.todo) /\ UNCHANGED status
      BY <2>4, <3>2, <1>n DEF UpdateOrderPay, ReceiptInv
    <3>3. CASE MergeNext(merge.todo) /\ status' = [status EXCEPT ![merge.rpt] = "spent"]
      <4>1. Settle(merge.rpt, "spent") \/ UNCHANGED <<status, sent, merge, refund, refunds>>
        <5>1. merge.todo \ {merge.rpt} = merge.todo
          BY <3>p
        <5>2. QED
          BY <2>4, <3>3, <5>1, <3>2, <3>p, <1>p DEF UpdateOrderPay, Settle
      <4>2. QED
        BY <2>4, <3>p, <4>1, <1>s, <1>f DEF UpdateOrderPay
    <3>4. QED
      BY <2>4, <3>1, <3>2, <3>3 DEF UpdateOrderPay
  <2>5. CASE KeyRead \/ KeyWrite
    <3>1. UNCHANGED <<status, sent, refund, refunds>>
      BY <2>5 DEF KeyRead, KeyWrite
    <3>2. CASE MergeNext(merge.todo)
      BY <3>1, <3>2, <1>n DEF ReceiptInv
    <3>3. CASE ~MergeNext(merge.todo)
      <4>1. /\ merge'.todo = merge.todo /\ merge'.rpt = merge.rpt
            /\ merge.pc \notin {"idle", "next"}
        BY <2>5, <3>3, <1>r DEF KeyRead, KeyWrite
      <4>2. QED
        BY <3>1, <4>1 DEF ReceiptInv
    <3>4. QED
      BY <3>2, <3>3
  <2>6. CASE KeySpent
    <3>1. merge.rpt \in Receipts /\ status[merge.rpt] = "unspent"
      BY <2>6, <1>p DEF KeySpent, ReceiptInv
    <3>2. QED
      BY <2>6, <3>1, <1>s DEF KeySpent
  <2>7. QED
    BY <1>1, <2>1, <2>2, <2>3, <2>4, <2>5, <2>6 DEF Merge
<1>2. CASE RefundJob
  <2>n. ASSUME NEW T, RefundNext(T) PROVE refund'.pc \in {"idle", "next"} /\ refund'.todo = T
    BY <2>n DEF RefundNext, IdleRefund
  <2>1. CASE RefundBegin
    <3>1. RefundNext(GetReceiptsByStatus("unrefund"))
      BY <2>1 DEF RefundBegin, RefundNext
    <3>2. QED
      BY <2>1, <3>1, <2>n DEF RefundBegin, GetReceiptsByStatus, ReceiptInv
  <2>2. ASSUME NEW r \in Receipts, RefundMark(r) PROVE ReceiptInv'
    <3>1. r \in refund.todo /\ status[r] = "unrefund" /\ refunds[r] = 0
          /\ UNCHANGED <<sent, merge, refunds>>
      BY <2>2, <1>p DEF RefundMark, ReceiptInv
    <3>2. CASE status' = [status EXCEPT ![r] = "refunded"]
               /\ refund' = [refund EXCEPT !.pc = "transfer", !.todo = @ \ {r}, !.rpt = r]
      <4>1. refund'.pc = "transfer" /\ refund'.todo = refund.todo \ {r} /\ refund'.rpt = r
        BY <3>2, <1>r
      <4>2. status'[r] = "refunded" /\ \A q \in Receipts \ {r} : status'[q] = status[q]
        BY <3>2, <1>p
      <4>3. \A q \in Receipts : status'[q] # None => q <= sent'
        BY <3>1, <4>2, Constants DEF ReceiptInv, Statuses
      <4>4. QED
        BY <3>1, <4>1, <4>2, <4>3, <1>p DEF ReceiptInv
    <3>3. CASE RefundNext(refund.todo \ {r}) /\ UNCHANGED status
      BY <3>1, <3>3, <2>n DEF ReceiptInv
    <3>4. QED
      BY <2>2, <3>2, <3>3 DEF RefundMark
  <2>3. CASE RefundTransfer
    <3>1. /\ refund.pc = "transfer" /\ refund.rpt \in Receipts /\ refunds[refund.rpt] = 0
          /\ status[refund.rpt] = "refunded" /\ UNCHANGED <<sent, merge, status>>
      BY <2>3, <1>p DEF RefundTransfer, ReceiptInv
    <3>2. /\ refunds'[refund.rpt] \in {0, 1}
          /\ \A q \in Receipts \ {refund.rpt} : refunds'[q] = refunds[q]
      BY <2>3, <3>1, <1>p DEF RefundTransfer
    <3>3. /\ refund'.todo = refund.todo /\ refund'.pc \in {"idle", "next", "err"}
          /\ refund'.pc = "err" => refund'.rpt = refund.rpt
      BY <2>3, <2>n, <1>r DEF RefundTransfer
    <3>4. QED
      BY <3>1, <3>2, <3>3, <1>p DEF ReceiptInv
  <2>4. CASE UpdateRefundErr
    <3>1. /\ refund.pc = "err" /\ refund.rpt \in Receipts /\ status[refund.rpt] = "refunded"
          /\ UNCHANGED <<sent, merge, refunds>>
      BY <2>4, <1>p DEF UpdateRefundErr, ReceiptInv
    <3>2. /\ status'[refund.rpt] \in {"refunded", "refundErr"}
          /\ \A q \in Receipts \ {refund.rpt} : status'[q] = status[q]
      BY <2>4, <3>1, <1>p DEF UpdateRefundErr
    <3>3. refund'.todo = refund.todo /\ refund'.pc \in {"idle", "next"}
      BY <2>4, <2>n DEF UpdateRefundErr
    <3>4. \A q \in Receipts : status'[q] # None => q <= sent'
      BY <3>1, <3>2, Constants DEF ReceiptInv, Statuses
    <3>5. QED
      BY <3>1, <3>2, <3>3, <3>4, <1>p DEF ReceiptInv
  <2>5. QED
    BY <1>2, <2>1, <2>2, <2>3, <2>4 DEF RefundJob
<1>3. CASE WatchReceipt
  <2>1. cursor + 1 \in Receipts /\ cursor + 1 <= sent
    BY <1>3, <1>p, Constants DEF WatchReceipt, Receipts
  <2>2. \A q \in Receipts : \/ status'[q] = status[q]
                            \/ q = cursor + 1 /\ status[q] = None /\ status'[q] = "unspent"
    BY <1>3, <2>1, <1>p DEF WatchReceipt
  <2>3. UNCHANGED <<sent, merge, refund, refunds>>
    BY <1>3 DEF WatchReceipt
  <2>4. QED
    BY <2>1, <2>2, <2>3, <1>p, Constants DEF ReceiptInv, Statuses
<1>4. CASE UserPays
  BY <1>4, <1>p, Constants DEF UserPays, ReceiptInv
<1>5. CASE Restart
  BY <1>5 DEF Restart, ReceiptInv, IdleMerge, IdleRefund
<1>6. CASE \/ \E s \in Subs : Handler(s)
           \/ \E s \in Subs, i \in Items, c \in Symbols, a \in Addrs \cup {None} : Submit(s, i, c, a)
           \/ \E i \in Items : SetManifest(i)
           \/ ExpireJob \/ Tick \/ DayPasses \/ UNCHANGED vars
  BY <1>6, <1>f DEF Handler, SpendRead, SpendWrite, Exist, SaveItemBinary, SaveItemMeta, UndoSave,
     InsertOrder, Submit, SetManifest, ExpireJob, ExpireBegin, ExpireMark, ExpireCheck,
     ExpireDelete, ExpireFails, Tick, DayPasses, vars
<1>7. QED
  BY <1>1, <1>2, <1>3, <1>4, <1>5, <1>6 DEF Next, SubmitItem, SubmitNativeData

\* Types and the standing of receipts, together.
LEMMA BasicInv == Spec => [](TypeInv /\ ReceiptInv)
<1>1. Init => TypeInv /\ ReceiptInv
  <2> SUFFICES ASSUME Init PROVE TypeInv /\ ReceiptInv
    OBVIOUS
  <2>1. <<>> \in Seq(Order) /\ <<>> \in Seq(Items) /\ <<>> \in Seq(Nat) /\ DOMAIN <<>> = {}
    OBVIOUS
  <2>2. TablesType /\ EverType /\ CountersType
    BY <2>1, Constants DEF Init, TablesType, EverType, CountersType
  <2>3. SubType /\ SubLocals
    BY DEF Init, IdleSub, SubType, SubLocals, SubPcs
  <2>4. MergeType /\ MergeLocals
    BY <2>1 DEF Init, IdleMerge, MergeType, MergeLocals, MergePcs
  <2>5. RefundType /\ RefundLocals /\ ExpireType /\ ExpireLocals
    BY DEF Init, IdleRefund, RefundType, RefundLocals, IdleExpire, ExpireType, ExpireLocals,
           ExpirePcs
  <2>6. ReceiptInv
    BY DEF Init, ReceiptInv, IdleMerge, IdleRefund
  <2>7. QED
    BY <2>2, <2>3, <2>4, <2>5, <2>6 DEF TypeInv, TypeOK
<1>2. QED
  BY <1>1, TypeStep, ReceiptStep, PTL DEF Spec

\* The tables and the locals of handlers and jobs are type correct and the
\* subscription never runs ahead of everPay.
THEOREM PaymentTypes == Spec => []TypeOK
<1>1. TypeInv => TypeOK
  BY DEF TypeInv
<1>2. QED
  BY <1>1, BasicInv, PTL

-----------------------------------------------------------------------------
(***************************************************************************)
(* What receipts paid for.                                                 *)
(***************************************************************************)
Fee == [o \in DOMAIN orders |-> orders[o].fee]

\* Unpaid orders, and those the merge job is about to pay, have no payment id:
\* UpdateOrderPay can rely on it although it asks for the id only.
UnpaidInv ==
  /\ \A o \in DOMAIN orders : orders[o].pay = "unpaid" => orders[o].by = None
  /\ \A n \in DOMAIN merge.ords : orders[merge.ords[n]].by = None

\* The receipt that paid an order is spent, in the currency of the order.
SpentInv ==
  \A o \in DOMAIN orders : orders[o].by # None =>
    /\ status[orders[o].by] = "spent"
    /\ orders[o].cur = Pays[orders[o].by].symbol

FeesInv == \A r \in Receipts : SumFunctionOnSet(Fee, PaidBy(r)) <= Pays[r].amount

OrderInv == UnpaidInv /\ SpentInv /\ FeesInv

\* What is in the order table.
LEMMA OrderTypes ==
  ASSUME TypeInv
  PROVE  /\ IsFiniteSet(DOMAIN orders)
         /\ \A o \in DOMAIN orders :
              /\ orders[o] \in Order /\ o \in Nat
              /\ orders[o].fee \in Nat /\ orders[o].exp \in Nat
              /\ orders[o].item \in Items
              /\ orders[o].by \in Receipts \cup {None}
              /\ orders[o].pay \in {"unpaid", "paid", "expired"}
<1>1. orders \in Seq(Order)
  BY DEF TypeInv, TypeOK, TablesType
<1>2. DOMAIN orders = 1..Len(orders) /\ Len(orders) \in Nat
  BY <1>1
<1>3. 1 \in Int /\ Len(orders) \in Int
  BY <1>2
<1>4. IsFiniteSet(1..Len(orders))
  BY <1>3, FS_Interval
<1>5. \A o \in DOMAIN orders : orders[o] \in Order /\ o \in Nat
  BY <1>1, <1>2
<1>6. QED
  BY <1>2, <1>4, <1>5 DEF Order

\* Which receipt paid for an order, and how much, changes only in UpdateOrderPay.
LEMMA OrderFrame ==
  ASSUME TypeInv, TypeInv', FeesInv, NEW r \in Receipts, PaidBy(r)' = PaidBy(r),
         \A o \in PaidBy(r) : orders'[o].fee = orders[o].fee
  PROVE  SumFunctionOnSet(Fee', PaidBy(r)') <= Pays[r].amount
<1>1. /\ PaidBy(r) \subseteq DOMAIN orders /\ PaidBy(r) \subseteq DOMAIN orders'
      /\ IsFiniteSet(PaidBy(r))
  <2>1. PaidBy(r) \subseteq DOMAIN orders /\ PaidBy(r)' \subseteq DOMAIN orders'
    BY DEF PaidBy
  <2>2. QED
    BY <2>1, OrderTypes, FS_Subset
<1>2. \A o \in PaidBy(r) : Fee[o] \in Nat /\ Fee'[o] = Fee[o]
  BY <1>1, OrderTypes DEF Fee
<1>3. SumFunctionOnSet(Fee', PaidBy(r)) = SumFunctionOnSet(Fee, PaidBy(r))
  BY <1>1, <1>2, SumEqual
<1>4. QED
  BY <1>3 DEF FeesInv

\* Orders opened and orders closed leave the paid ones alone.
LEMMA OrderKept ==
  ASSUME TypeInv, TypeInv', OrderInv, UNCHANGED merge,
         \A r \in Receipts : status[r] = "spent" => status'[r] = "spent",
         DOMAIN orders \subseteq DOMAIN orders',
         \A o \in DOMAIN orders : /\ orders'[o].by = orders[o].by
                                  /\ orders'[o].fee = orders[o].fee
                                  /\ orders'[o].cur = orders[o].cur
                                  /\ orders'[o].pay = "unpaid" => orders[o].pay = "unpaid",
         \A o \in DOMAIN orders' \ DOMAIN orders : orders'[o].by = None
  PROVE  OrderInv'
<1>1. UnpaidInv'
  BY DEF OrderInv, UnpaidInv, TypeInv, MergeLocals
<1>2. SpentInv'
  <2>1. ASSUME NEW o \in DOMAIN orders', orders'[o].by # None
        PROVE  status'[orders'[o].by] = "spent" /\ orders'[o].cur = Pays[orders'[o].by].symbol
    <3>1. o \in DOMAIN orders /\ orders[o].by \in Receipts \cup {None}
      BY <2>1, OrderTypes
    <3>2. QED
      BY <2>1, <3>1 DEF OrderInv, SpentInv
  <2>2. QED
    BY <2>1 DEF SpentInv
<1>3. FeesInv'
  <2>1. ASSUME NEW r \in Receipts PROVE PaidBy(r)' = PaidBy(r)
    BY Constants DEF PaidBy
  <2>2. \A r \in Receipts : SumFunctionOnSet(Fee', PaidBy(r)') <= Pays[r].amount
    BY <2>1, OrderFrame DEF OrderInv, PaidBy
  <2>3. QED
    BY <2>2 DEF FeesInv
<1>4. QED
  BY <1>1, <1>2, <1>3 DEF OrderInv

\* Paying the orders found: they had no payment id, the receipt had paid for
\* nothing, and together they cost what was checked, or less when an item is
\* named twice.
LEMMA OrderPaid ==
  ASSUME TypeInv, TypeInv', ReceiptInv, OrderInv, UpdateOrderPay, orders' # orders
  PROVE  /\ OrderInv'
         /\ \A o \in DOMAIN orders : orders[o].by # None => orders'[o].by = orders[o].by
<1>0. merge.rpt \in Receipts
  BY DEF UpdateOrderPay, TypeInv, MergeLocals
<1>r. PICK r \in Receipts : r = merge.rpt
  BY <1>0
<1> DEFINE ids == {merge.ords[n] : n \in DOMAIN merge.ords}
<1>1. /\ merge.pc = "pay" /\ r \in Receipts /\ status[r] = "unspent"
      /\ checkOrders(r, merge.ords)
      /\ orders' = [o \in DOMAIN orders |->
           IF o \in ids THEN [orders[o] EXCEPT !.pay = "paid", !.by = r] ELSE orders[o]]
      /\ status' = [status EXCEPT ![r] = "spent"]
      /\ MergeNext(merge.todo)
  BY <1>r DEF UpdateOrderPay, ReceiptInv
<1>t. /\ \A o \in DOMAIN orders : orders[o] \in Order
      /\ status \in [Receipts -> Statuses \cup {None}]
      /\ merge.ords \in Seq(Nat)
  BY DEF TypeInv, TypeOK, TablesType, MergeType
<1>2. /\ ids \subseteq DOMAIN orders /\ \A o \in ids : orders[o].by = None
  BY DEF OrderInv, UnpaidInv, TypeInv, MergeLocals
<1>3. /\ DOMAIN orders' = DOMAIN orders
      /\ \A o \in ids : /\ orders'[o].pay = "paid" /\ orders'[o].by = r
                        /\ orders'[o].fee = orders[o].fee /\ orders'[o].cur = orders[o].cur
      /\ \A o \in DOMAIN orders \ ids : orders'[o] = orders[o]
  <2>1. \A o \in ids : orders'[o] = [orders[o] EXCEPT !.pay = "paid", !.by = r]
    BY <1>1, <1>2
  <2>2. \A e \in Order : /\ [e EXCEPT !.pay = "paid", !.by = r].pay = "paid"
                         /\ [e EXCEPT !.pay = "paid", !.by = r].by = r
                         /\ [e EXCEPT !.pay = "paid", !.by = r].fee = e.fee
                         /\ [e EXCEPT !.pay = "paid", !.by = r].cur = e.cur
    BY DEF Order
  <2>3. DOMAIN orders' = DOMAIN orders /\ \A o \in DOMAIN orders \ ids : orders'[o] = orders[o]
    BY <1>1
  <2> HIDE DEF ids
  <2>4. ASSUME NEW o \in ids
        PROVE  /\ orders'[o].pay = "paid" /\ orders'[o].by = r
               /\ orders'[o].fee = orders[o].fee /\ orders'[o].cur = orders[o].cur
    <3>1. orders[o] \in Order
      BY <1>2, <1>t
    <3>2. QED
      BY <3>1, <2>1, <2>2
  <2>5. QED
    BY <2>3, <2>4
<1> HIDE DEF ids
<1>4. merge'.ords = <<>>
  BY <1>1 DEF MergeNext, IdleMerge
<1>5. UnpaidInv'
  BY <1>3, <1>4 DEF OrderInv, UnpaidInv
<1>6. SpentInv'
  <2>1. \A n \in DOMAIN merge.ords : orders[merge.ords[n]].cur = Pays[r].symbol
    BY <1>1 DEF checkOrders
  <2>2. \A o \in ids : orders[o].cur = Pays[r].symbol
    BY <2>1 DEF ids
  <2>3. status'[r] = "spent" /\ \A q \in Receipts \ {r} : status'[q] = status[q]
    BY <1>1, <1>t
  <2>4. \A o \in DOMAIN orders : orders[o].by \in Receipts \cup {None}
    BY <1>t DEF Order
  <2>5. QED
    BY <1>3, <2>2, <2>3, <2>4 DEF OrderInv, SpentInv
<1>7. FeesInv'
  <2>1. ASSUME NEW q \in Receipts, q # r
        PROVE  SumFunctionOnSet(Fee', PaidBy(q)') <= Pays[q].amount
    <3>1. PaidBy(q)' = PaidBy(q)
      BY <1>2, <1>3, <2>1, Constants DEF PaidBy
    <3>2. \A o \in PaidBy(q) : orders'[o].fee = orders[o].fee
      BY <1>3 DEF PaidBy
    <3>3. QED
      BY <3>1, <3>2, OrderFrame DEF OrderInv
  <2>2. SumFunctionOnSet(Fee', PaidBy(r)') <= Pays[r].amount
    <3>1. PaidBy(r)' = ids
      <4>1. \A o \in DOMAIN orders : orders[o].by # r
        BY <1>1, Constants DEF OrderInv, SpentInv
      <4>2. QED
        BY <4>1, <1>2, <1>3 DEF PaidBy
    <3> DEFINE g == [n \in DOMAIN merge.ords |-> orders[merge.ords[n]].fee]
               D == DOMAIN merge.ords
    <3>2. SumFunctionOnSet(g, D) <= Pays[r].amount
      BY <1>1 DEF checkOrders, TotalFee, SumFunction
    <3>3. \A n \in D : merge.ords[n] \in ids /\ g[n] \in Nat /\ Fee'[merge.ords[n]] = g[n]
      BY <1>2, <1>3, <1>t DEF ids, Order, Fee
    <3>4. IsFiniteSet(D)
      <4>1. D = 1..Len(merge.ords) /\ Len(merge.ords) \in Nat
        BY <1>t
      <4>2. QED
        BY <4>1, FS_Interval
    <3> HIDE DEF g, D
    <3>5. SumFunctionOnSet(Fee', {merge.ords[n] : n \in D}) <= SumFunctionOnSet(g, D)
      BY <3>3, <3>4, SumImage
    <3>6. SumFunctionOnSet(g, D) \in Nat /\ SumFunctionOnSet(Fee', {merge.ords[n] : n \in D}) \in Nat
      <4>1. SumFunctionOnSet(g, D) \in Nat
        BY <3>3, <3>4, SumIsNat
      <4>2. ids \subseteq DOMAIN orders /\ IsFiniteSet(ids)
        BY <1>2, OrderTypes, FS_Subset
      <4>3. \A x \in ids : Fee'[x] \in Nat
        BY <1>2, <1>3, <1>t DEF Fee, Order
      <4>4. SumFunctionOnSet(Fee', ids) \in Nat
        BY <4>2, <4>3, SumIsNat
      <4>5. QED
        BY <4>1, <4>4 DEF ids, D
    <3>7. Pays[r].amount \in Nat
      BY <1>1, Constants DEF Transfer
    <3>8. QED
      BY <3>1, <3>2, <3>5, <3>6, <3>7 DEF ids, D
  <2>3. QED
    BY <2>1, <2>2 DEF FeesInv
<1>8. QED
  BY <1>2, <1>3, <1>5, <1>6, <1>7 DEF OrderInv

\* No step takes an order from the receipt that paid for it.
LEMMA OrderStep ==
  TypeInv /\ ReceiptInv /\ OrderInv /\ [Next]_vars =>
    /\ OrderInv'
    /\ \A o \in DOMAIN orders : orders[o].by # None => orders'[o].by = orders[o].by
<1> SUFFICES ASSUME TypeInv, ReceiptInv, OrderInv, [Next]_vars, TypeInv'
             PROVE  /\ OrderInv'
                    /\ \A o \in DOMAIN orders : orders[o].by # None => orders'[o].by = orders[o].by
  BY TypeStep
<1> USE DEF db, store, ever, jobs, clock
<1>p. status \in [Receipts -> Statuses \cup {None}]
  BY DEF TypeInv, TypeOK, TablesType
<1>1. CASE Merge
  <2>m. merge = [pc |-> merge.pc, todo |-> merge.todo, rpt |-> merge.rpt,
                 items |-> merge.items, ords |-> merge.ords, new |-> merge.new]
        /\ merge.ords \in Seq(Nat)
    BY DEF TypeInv, TypeOK, MergeType
  <2>1. CASE orders' # orders
    <3>1. UpdateOrderPay
      BY <1>1, <2>1 DEF Merge, MergeBegin, MergePick, GetUnPaidOrder, KeyRead, KeyWrite, KeySpent
    <3>2. QED
      BY <2>1, <3>1, OrderPaid
  <2>2. CASE orders' = orders
    <3>1. \A r \in Receipts : status[r] = "spent" => status'[r] = "spent"
      <4>1. ASSUME NEW r \in Receipts, NEW st, Settle(r, st), status[r] = "unspent"
            PROVE  \A q \in Receipts : status[q] = "spent" => status'[q] = "spent"
        BY <4>1, <1>p DEF Settle
      <4>2. CASE UNCHANGED status
        BY <4>2
      <4>3. CASE \E r \in Receipts : MergePick(r)
        BY <4>1, <4>2, <4>3 DEF MergePick, ReceiptInv
      <4>4. CASE GetUnPaidOrder \/ UpdateOrderPay \/ KeySpent
        <5>1. merge.rpt \in Receipts /\ status[merge.rpt] = "unspent"
          BY <4>4 DEF GetUnPaidOrder, UpdateOrderPay, KeySpent, ReceiptInv, TypeInv, MergeLocals
        <5>2. CASE status' = [status EXCEPT ![merge.rpt] = "spent"]
          BY <5>1, <5>2, <1>p
        <5>3. QED
          BY <5>1, <5>2, <4>1, <4>2, <4>4 DEF GetUnPaidOrder, UpdateOrderPay, KeySpent
      <4>5. QED
        BY <1>1, <4>2, <4>3, <4>4 DEF Merge, MergeBegin, KeyRead, KeyWrite
    <3>2. \A n \in DOMAIN merge'.ords : orders[merge'.ords[n]].by = None
      <4>1. CASE merge'.ords = <<>> \/ merge'.ords = merge.ords
        BY <4>1 DEF OrderInv, UnpaidInv
      <4>2. CASE \E T : MergeNext(T)
        BY <4>1, <4>2 DEF MergeNext, IdleMerge
      <4>3. CASE GetUnPaidOrder /\ ~(\E T : MergeNext(T))
        <5> DEFINE m == Max(UnPaid(Head(merge.items)))
        <5>1. merge'.ords = Append(merge.ords, m) /\ UnPaid(Head(merge.items)) # {}
          BY <4>3, <2>m DEF GetUnPaidOrder, Settle
        <5>2. m \in UnPaid(Head(merge.items))
          <6>1. Len(orders) \in Nat /\ DOMAIN orders = 1..Len(orders)
            BY DEF TypeInv, TypeOK, TablesType
          <6>2. UnPaid(Head(merge.items)) \in SUBSET (0..Len(orders))
            BY <6>1 DEF UnPaid
          <6>3. QED
            BY <5>1, <6>1, <6>2, MaxBounded
        <5>3. orders[m].by = None
          BY <5>2 DEF UnPaid, OrderInv, UnpaidInv
        <5> HIDE DEF m
        <5>4. \A n \in DOMAIN Append(merge.ords, m) :
                 \/ n \in DOMAIN merge.ords /\ Append(merge.ords, m)[n] = merge.ords[n]
                 \/ Append(merge.ords, m)[n] = m
          BY <2>m
        <5>5. QED
          BY <5>1, <5>3, <5>4 DEF OrderInv, UnpaidInv
      <4>4. QED
        BY <1>1, <2>m, <4>1, <4>2, <4>3
        DEF Merge, MergeBegin, MergePick, UpdateOrderPay, KeyRead, KeyWrite, KeySpent, Settle,
            IdleMerge
    <3>3. UnpaidInv'
      BY <2>2, <3>2 DEF OrderInv, UnpaidInv
    <3>4. SpentInv'
      BY <2>2, <3>1, OrderTypes DEF OrderInv, SpentInv
    <3>5. FeesInv'
      BY <2>2 DEF OrderInv, FeesInv, PaidBy, Fee
    <3>6. QED
      BY <2>2, <3>3, <3>4, <3>5 DEF OrderInv
  <2>3. QED
    BY <2>1, <2>2
<1>2. ASSUME NEW s \in Subs, InsertOrder(s), orders' # orders
      PROVE  /\ OrderInv'
             /\ \A o \in DOMAIN orders : orders[o].by # None => orders'[o].by = orders[o].by
  <2>1. PICK new \in Order : orders' = Append(orders, new) /\ new.by = None
    BY <1>2, InsertEffect
  <2>2. UNCHANGED <<merge, status>>
    BY <1>2 DEF InsertOrder
  <2>3. QED
    BY <2>1, <2>2, OrdersGrow, OrderKept
<1>3. ASSUME NEW o \in DOMAIN orders, ExpireMark(o), orders' # orders
      PROVE  /\ OrderInv'
             /\ \A p \in DOMAIN orders : orders[p].by # None => orders'[p].by = orders[p].by
  <2>1. UNCHANGED <<merge, status>>
    BY <1>3 DEF ExpireMark
  <2>2. orders' = [orders EXCEPT ![o] = [orders[o] EXCEPT !.pay = "expired", !.chain = "failed"]]
    BY <1>3 DEF ExpireMark
  <2>3. orders[o] \in Order /\ orders \in Seq(Order)
    BY OrderTypes DEF TypeInv, TypeOK, TablesType
  <2>4. /\ DOMAIN orders' = DOMAIN orders
        /\ orders'[o].by = orders[o].by /\ orders'[o].fee = orders[o].fee
        /\ orders'[o].cur = orders[o].cur /\ orders'[o].pay = "expired"
        /\ \A p \in DOMAIN orders \ {o} : orders'[p] = orders[p]
    BY <2>2, <2>3 DEF Order
  <2>5. QED
    BY <2>1, <2>4, OrderKept
<1>4. CASE UNCHANGED <<orders, merge>> /\ \A r \in Receipts : status[r] = "spent" => status'[r] = "spent"
  BY <1>4, OrderKept
<1>5. CASE Restart
  <2>1. UNCHANGED <<orders, status>> /\ merge'.ords = <<>>
    BY <1>5 DEF Restart, IdleMerge
  <2>2. QED
    BY <2>1 DEF OrderInv, UnpaidInv, SpentInv, FeesInv, PaidBy, Fee
<1>6. CASE WatchReceipt
  <2>1. UNCHANGED <<orders, merge>>
    BY <1>6 DEF WatchReceipt
  <2>2. \A r \in Receipts : status[r] = "spent" => status'[r] = "spent"
    BY <1>6, <1>p, Constants DEF WatchReceipt, Statuses
  <2>3. QED
    BY <2>1, <2>2, <1>4
<1>7. CASE RefundJob
  <2>1. UNCHANGED <<orders, merge>>
    BY <1>7 DEF RefundJob, RefundBegin, RefundMark, RefundTransfer, UpdateRefundErr
  <2>2. \A r \in Receipts : status[r] = "spent" => status'[r] = "spent"
    <3>1. ASSUME NEW r \in Receipts, RefundMark(r)
          PROVE  \A q \in Receipts : status[q] = "spent" => status'[q] = "spent"
      BY <3>1, <1>p DEF RefundMark, ReceiptInv
    <3>2. CASE UpdateRefundErr
      BY <3>2, <1>p DEF UpdateRefundErr, ReceiptInv
    <3>3. QED
      BY <1>7, <3>1, <3>2 DEF RefundJob, RefundBegin, RefundTransfer
  <2>3. QED
    BY <2>1, <2>2, <1>4
<1>8. CASE \/ \E s \in Subs, i \in Items, c \in Symbols, a \in Addrs \cup {None} : Submit(s, i, c, a)
           \/ \E i \in Items : SetManifest(i)
           \/ UserPays \/ Tick \/ DayPasses \/ UNCHANGED vars
  <2>1. UNCHANGED <<orders, merge, status>>
    BY <1>8 DEF Submit, SetManifest, UserPays, Tick, DayPasses, vars
  <2>2. QED
    BY <2>1, <1>4
<1>9. ASSUME NEW s \in Subs, Handler(s)
      PROVE  /\ OrderInv'
             /\ \A o \in DOMAIN orders : orders[o].by # None => orders'[o].by = orders[o].by
  <2>1. CASE UNCHANGED <<orders, merge, status>>
    BY <2>1, <1>4
  <2>2. QED
    BY <1>9, <2>1, <1>2 DEF Handler, SpendRead, SpendWrite, Exist, SaveItemBinary, SaveItemMeta,
                            UndoSave, InsertOrder
<1>10. CASE ExpireJob
  <2>1. CASE UNCHANGED <<orders, merge, status>>
    BY <2>1, <1>4
  <2>2. QED
    BY <1>10, <2>1, <1>3 DEF ExpireJob, ExpireBegin, ExpireMark, ExpireCheck, ExpireDelete, ExpireFails
<1>11. QED
  BY <1>1, <1>5, <1>6, <1>7, <1>8, <1>9, <1>10 DEF Next, SubmitItem, SubmitNativeData

LEMMA OrderInvariant == Spec => [](TypeInv /\ ReceiptInv /\ OrderInv)
<1>1. Init => OrderInv
  <2> SUFFICES ASSUME Init PROVE OrderInv
    OBVIOUS
  <2>1. DOMAIN orders = {} /\ DOMAIN merge.ords = {}
    BY DEF Init, IdleMerge
  <2>2. \A r \in Receipts : PaidBy(r) = {}
    BY <2>1 DEF PaidBy
  <2>3. \A r \in Receipts : SumFunctionOnSet(Fee, PaidBy(r)) <= Pays[r].amount
    <3>1. ASSUME NEW r \in Receipts PROVE SumFunctionOnSet(Fee, PaidBy(r)) = 0
      BY <2>2, SumEmpty
    <3>2. \A r \in Receipts : Pays[r].amount \in Nat
      BY Constants DEF Transfer
    <3>3. QED
      BY <3>1, <3>2
  <2>4. QED
    BY <2>1, <2>3 DEF OrderInv, UnpaidInv, SpentInv, FeesInv
<1>2. QED
  BY <1>1, BasicInv, OrderStep, PTL DEF Spec

\* A receipt never pays and goes back, and never goes back twice.
THEOREM NothingSettledTwice == Spec => []SettledOnce
<1>1. TypeInv /\ ReceiptInv /\ OrderInv => SettledOnce
  <2> SUFFICES ASSUME TypeInv, ReceiptInv, OrderInv, NEW r \in Receipts
               PROVE  /\ refunds[r] <= 1
                      /\ PaidBy(r) # {} => status[r] = "spent"
                      /\ refunds[r] = 1 => status[r] \in {"refunded", "refundErr"}
    BY DEF SettledOnce
  <2>1. PaidBy(r) # {} => status[r] = "spent"
    BY Constants DEF OrderInv, SpentInv, PaidBy
  <2>2. QED
    BY <2>1 DEF ReceiptInv
<1>2. QED
  BY <1>1, OrderInvariant, PTL

\* No receipt pays for more than it brought, nor in another currency.
THEOREM PaymentsCovered == Spec => []PaymentCovers
<1>1. OrderInv => PaymentCovers
  BY Constants DEF OrderInv, SpentInv, FeesInv, Fee, PaidBy, PaymentCovers
<1>2. QED
  BY <1>1, OrderInvariant, PTL

\* payment_id is written once.
THEOREM PaymentIdWrittenOnce == Spec => PaymentIdStable
<1>1. TypeInv /\ ReceiptInv /\ OrderInv /\ [Next]_vars =>
        [\A o \in DOMAIN orders : orders[o].by # None => orders'[o].by = orders[o].by]_orders
  BY OrderStep
<1>2. QED
  BY <1>1, OrderInvariant, PTL DEF Spec, PaymentIdStable

-----------------------------------------------------------------------------
(***************************************************************************)
(* Deposits to api keys.                                                   *)
(***************************************************************************)

\* The credits of a receipt that a crash or a failure has to account for: all
\* when the next sweep will credit it once more, otherwise all but one.
Again ==
  [r \in Receipts |->
     IF credited[r] = 0 THEN 0
     ELSE IF status[r] # "unspent" \/ (merge.pc = "keySpent" /\ merge.rpt = r)
          THEN credited[r] - 1 ELSE credited[r]]

\* Only deposits are credited, and only these reach the key steps.
DepositInv ==
  /\ merge.pc \in {"find", "pay"} => Pays[merge.rpt].kind = "items"
  /\ merge.pc \in {"keyRead", "keyWrite", "keySpent"} => Deposit(merge.rpt)
  /\ merge.pc = "keySpent" => credited[merge.rpt] > 0
  /\ \A r \in Receipts :
       credited[r] > 0 => Deposit(r) /\ status[r] \in {"unspent", "spent"}

AgainInv == SumFunctionOnSet(Again, Receipts) <= faults + crashes

LEMMA AgainType ==
  ASSUME TypeInv
  PROVE  /\ \A r \in Receipts : credited[r] \in Nat /\ Again[r] \in Nat
         /\ faults \in Nat /\ crashes \in Nat
         /\ SumFunctionOnSet(Again, Receipts) \in Nat
<1>1. /\ credited \in [Receipts -> Nat] /\ faults \in Nat /\ crashes \in Nat
  BY DEF TypeInv, TypeOK, EverType, CountersType
<1>2. \A r \in Receipts : Again[r] \in Nat
  BY <1>1 DEF Again
<1>3. QED
  BY <1>1, <1>2, Constants, SumIsNat

LEMMA AgainTypeNext ==
  ASSUME TypeInv'
  PROVE  /\ \A r \in Receipts : credited'[r] \in Nat /\ Again'[r] \in Nat
         /\ faults' \in Nat /\ crashes' \in Nat
<1>1. /\ credited' \in [Receipts -> Nat] /\ faults' \in Nat /\ crashes' \in Nat
  BY DEF TypeInv, TypeOK, EverType, CountersType
<1>2. \A r \in Receipts : Again'[r] \in Nat
  BY <1>1 DEF Again
<1>3. QED
  BY <1>1, <1>2

\* The term of a receipt.
LEMMA AgainIs ==
  \A r \in Receipts :
    /\ Again[r] = IF credited[r] = 0 THEN 0
                  ELSE IF status[r] # "unspent" \/ (merge.pc = "keySpent" /\ merge.rpt = r)
                       THEN credited[r] - 1 ELSE credited[r]
    /\ Again'[r] = IF credited'[r] = 0 THEN 0
                   ELSE IF status'[r] # "unspent" \/ (merge'.pc = "keySpent" /\ merge'.rpt = r)
                        THEN credited'[r] - 1 ELSE credited'[r]
  BY DEF Again

\* A step that changes one term must be paid for by a failure or a crash.
LEMMA AgainChange ==
  ASSUME TypeInv, TypeInv', AgainInv, NEW x \in Receipts,
         \A r \in Receipts \ {x} : Again'[r] = Again[r],
         Again'[x] + faults + crashes <= Again[x] + faults' + crashes'
  PROVE  AgainInv'
<1>1. /\ \A r \in Receipts : Again[r] \in Nat /\ Again'[r] \in Nat
      /\ faults \in Nat /\ crashes \in Nat /\ faults' \in Nat /\ crashes' \in Nat
      /\ SumFunctionOnSet(Again, Receipts) \in Nat
  BY AgainType, AgainTypeNext
<1>2. SumFunctionOnSet(Again', Receipts) =
        SumFunctionOnSet(Again, Receipts) - Again[x] + Again'[x]
  <2>1. IsFiniteSet(Receipts)
    BY Constants
  <2>2. QED
    BY <1>1, <2>1, SumChange
<1>3. SumFunctionOnSet(Again', Receipts) <= faults' + crashes'
  BY <1>1, <1>2 DEF AgainInv
<1>4. QED
  BY <1>3 DEF AgainInv

LEMMA AgainSame ==
  ASSUME TypeInv, TypeInv', AgainInv, \A r \in Receipts : Again'[r] = Again[r],
         faults <= faults' /\ crashes <= crashes'
  PROVE  AgainInv'
<1>1. /\ \A r \in Receipts : Again[r] \in Nat
      /\ faults \in Nat /\ crashes \in Nat /\ faults' \in Nat /\ crashes' \in Nat
      /\ SumFunctionOnSet(Again, Receipts) \in Nat
  BY AgainType, AgainTypeNext
<1>2. SumFunctionOnSet(Again', Receipts) = SumFunctionOnSet(Again, Receipts)
  BY <1>1, Constants, SumEqual
<1>3. QED
  BY <1>1, <1>2 DEF AgainInv

\* The steps that credit nothing and have nothing to do with the end of a
\* credit: a status changes only where nothing was credited.
LEMMA DepositFrame ==
  ASSUME TypeInv, TypeInv', DepositInv, AgainInv, UNCHANGED credited,
         merge.pc # "keySpent", merge'.pc # "keySpent",
         faults <= faults' /\ crashes <= crashes',
         \A r \in Receipts : credited[r] > 0 => status'[r] = status[r],
         merge'.pc \in {"find", "pay"} => Pays[merge'.rpt].kind = "items",
         merge'.pc \in {"keyRead", "keyWrite"} => Deposit(merge'.rpt)
  PROVE  DepositInv' /\ AgainInv'
<1>1. \A r \in Receipts : credited[r] \in Nat
  BY AgainType
<1>2. DepositInv'
  BY DEF DepositInv, Deposit
<1>3. \A r \in Receipts : Again'[r] = Again[r]
  <2>1. ASSUME NEW r \in Receipts PROVE Again'[r] = Again[r]
    <3>1. CASE credited[r] = 0
      BY <3>1, AgainIs
    <3>2. CASE credited[r] > 0
      BY <1>1, <3>2, AgainIs
    <3>3. QED
      BY <1>1, <3>1, <3>2
  <2>2. QED
    BY <2>1
<1>4. QED
  BY <1>2, <1>3, AgainSame

\* Each credit beyond the first is the work of a crash or a failure.
LEMMA DepositStep ==
  TypeInv /\ ReceiptInv /\ DepositInv /\ AgainInv /\ [Next]_vars => DepositInv' /\ AgainInv'
<1> SUFFICES ASSUME TypeInv, ReceiptInv, DepositInv, AgainInv, [Next]_vars, TypeInv'
             PROVE  DepositInv' /\ AgainInv'
  BY TypeStep
<1> USE DEF db, store, ever, jobs, clock
<1>p. /\ status \in [Receipts -> Statuses \cup {None}] /\ credited \in [Receipts -> Nat]
      /\ faults \in Nat /\ crashes \in Nat
      /\ merge.pc \notin {"idle", "next"} => merge.rpt \in Receipts
  <2>1. TablesType /\ EverType /\ CountersType /\ MergeLocals
    BY DEF TypeInv, TypeOK
  <2>2. status \in [Receipts -> Statuses \cup {None}]
    BY <2>1 DEF TablesType
  <2>3. credited \in [Receipts -> Nat]
    BY <2>1 DEF EverType
  <2>4. faults \in Nat /\ crashes \in Nat
    BY <2>1, Constants DEF CountersType
  <2>5. merge.pc \notin {"idle", "next"} => merge.rpt \in Receipts
    BY <2>1 DEF MergeLocals
  <2>6. QED
    BY <2>2, <2>3, <2>4, <2>5
<1>r. merge = [pc |-> merge.pc, todo |-> merge.todo, rpt |-> merge.rpt,
               items |-> merge.items, ords |-> merge.ords, new |-> merge.new]
  BY DEF TypeInv, TypeOK, MergeType
<1>n. ASSUME NEW T, MergeNext(T) PROVE merge'.pc \in {"idle", "next"}
  BY <1>n DEF MergeNext, IdleMerge
<1>c. UNCHANGED faults \/ Fault => faults <= faults'
  BY <1>p DEF Fault
<1>s. ASSUME NEW r \in Receipts, NEW st, Settle(r, st), UNCHANGED <<credited, crashes>>,
             ~Deposit(r), merge.pc # "keySpent"
      PROVE  DepositInv' /\ AgainInv'
  <2>1. merge'.pc \in {"idle", "next"} /\ faults <= faults' /\ crashes <= crashes'
    BY <1>s, <1>n, <1>c, <1>p DEF Settle
  <2>2. \A q \in Receipts : credited[q] > 0 => status'[q] = status[q]
    BY <1>s, <1>p DEF Settle, DepositInv
  <2>3. QED
    BY <1>s, <2>1, <2>2, DepositFrame
<1>1. CASE Merge
  <2>1. CASE MergeBegin
    <3>1. merge.pc = "idle" /\ merge'.pc = "next" /\ UNCHANGED <<credited, status, faults, crashes>>
      BY <2>1 DEF MergeBegin, IdleMerge
    <3>2. QED
      BY <3>1, <1>p, DepositFrame
  <2>2. ASSUME NEW r \in Receipts, MergePick(r) PROVE DepositInv' /\ AgainInv'
    <3>1. CASE Settle(r, "unrefund") /\ ~Deposit(r)
      BY <2>2, <3>1, <1>s DEF MergePick
    <3>2. CASE ~(Settle(r, "unrefund") /\ ~Deposit(r))
      <4>1. /\ merge.pc = "next" /\ UNCHANGED <<credited, status, faults, crashes>>
            /\ merge'.rpt = r
            /\ \/ merge'.pc = "find" /\ Pays[r].kind = "items"
               \/ merge'.pc = "keyRead" /\ Deposit(r)
        BY <2>2, <3>2, <1>r DEF MergePick, Deposit
      <4>2. QED
        BY <4>1, <1>p, DepositFrame
    <3>3. QED
      BY <3>1, <3>2
  <2>3. CASE GetUnPaidOrder
    <3>1. /\ merge.pc = "find" /\ merge.rpt \in Receipts /\ Pays[merge.rpt].kind = "items"
          /\ UNCHANGED <<credited, crashes>>
      BY <2>3, <1>p DEF GetUnPaidOrder, DepositInv
    <3>2. CASE Settle(merge.rpt, "unrefund")
      BY <3>1, <3>2, <1>s DEF Deposit
    <3>3. CASE ~Settle(merge.rpt, "unrefund")
      <4>1. /\ UNCHANGED status /\ faults <= faults'
            /\ \/ merge'.pc \in {"find", "pay"} /\ merge'.rpt = merge.rpt
               \/ merge'.pc \in {"idle", "next"}
        BY <2>3, <3>3, <1>p, <1>r, <1>n, <1>c DEF GetUnPaidOrder
      <4>2. QED
        BY <3>1, <4>1, <1>p, DepositFrame
    <3>4. QED
      BY <3>2, <3>3
  <2>4. CASE UpdateOrderPay
    <3>1. /\ merge.pc = "pay" /\ merge.rpt \in Receipts /\ Pays[merge.rpt].kind = "items"
          /\ UNCHANGED <<credited, crashes>>
      BY <2>4, <1>p DEF UpdateOrderPay, DepositInv
    <3>2. CASE Settle(merge.rpt, "unrefund")
      BY <3>1, <3>2, <1>s DEF Deposit
    <3>3. CASE ~Settle(merge.rpt, "unrefund")
      <4>1. /\ status' = [status EXCEPT ![merge.rpt] = "spent"] \/ UNCHANGED status
            /\ faults <= faults' /\ merge'.pc \in {"idle", "next"}
        BY <2>4, <3>3, <1>p, <1>n, <1>c DEF UpdateOrderPay
      <4>2. \A q \in Receipts : credited[q] > 0 => status'[q] = status[q]
        BY <3>1, <4>1, <1>p DEF DepositInv, Deposit
      <4>3. QED
        BY <3>1, <4>1, <4>2, <1>p, DepositFrame
    <3>4. QED
      BY <3>2, <3>3
  <2>5. CASE KeyRead
    <3>1. /\ merge.pc = "keyRead" /\ merge'.pc = "keyWrite" /\ merge'.rpt = merge.rpt
          /\ UNCHANGED <<credited, status, faults, crashes>>
      BY <2>5, <1>r DEF KeyRead
    <3>2. QED
      BY <3>1, <1>p, DepositFrame DEF DepositInv
  <2>6. CASE KeyWrite
    <3>1. /\ merge.pc = "keyWrite" /\ merge.rpt \in Receipts /\ Deposit(merge.rpt)
          /\ UNCHANGED <<status, crashes>> /\ status[merge.rpt] = "unspent"
      BY <2>6, <1>p DEF KeyWrite, DepositInv, ReceiptInv
    <3>2. CASE MergeNext(merge.todo) /\ UNCHANGED credited
      BY <2>6, <3>1, <3>2, <1>p, <1>n, <1>c, DepositFrame DEF KeyWrite
    <3>3. CASE /\ credited' = [credited EXCEPT ![merge.rpt] = @ + 1]
               /\ merge' = [merge EXCEPT !.pc = "keySpent", !.new = None]
               /\ UNCHANGED faults
      <4>1. merge'.pc = "keySpent" /\ merge'.rpt = merge.rpt
        BY <3>3, <1>r
      <4>2. /\ credited'[merge.rpt] = credited[merge.rpt] + 1
            /\ \A q \in Receipts \ {merge.rpt} : credited'[q] = credited[q]
        BY <3>1, <3>3, <1>p
      <4>3. DepositInv'
        BY <3>1, <4>1, <4>2, <1>p DEF DepositInv, Deposit
      <4>4. \A q \in Receipts : Again'[q] = Again[q]
        BY <3>1, <4>1, <4>2, <1>p, AgainIs
      <4>5. QED
        BY <3>1, <3>3, <4>3, <4>4, <1>p, AgainSame
    <3>4. QED
      BY <2>6, <3>2, <3>3 DEF KeyWrite
  <2>7. CASE KeySpent
    <3>1. /\ merge.pc = "keySpent" /\ merge.rpt \in Receipts /\ Deposit(merge.rpt)
          /\ UNCHANGED <<credited, crashes>> /\ status[merge.rpt] = "unspent"
          /\ credited[merge.rpt] > 0 /\ merge'.pc \in {"idle", "next"}
      BY <2>7, <1>p, <1>n DEF KeySpent, DepositInv, ReceiptInv, Settle
    <3>2. CASE status' = [status EXCEPT ![merge.rpt] = "spent"] /\ UNCHANGED faults
      <4>1. DepositInv'
        BY <3>1, <3>2, <1>p DEF DepositInv, Deposit
      <4>2. \A q \in Receipts : Again'[q] = Again[q]
        BY <3>1, <3>2, <1>p, AgainIs
      <4>3. QED
        BY <3>1, <3>2, <4>1, <4>2, <1>p, AgainSame
    <3>3. CASE UNCHANGED status /\ faults' = faults + 1
      <4>1. DepositInv'
        BY <3>1, <3>3, <1>p DEF DepositInv, Deposit
      <4>2. /\ \A q \in Receipts \ {merge.rpt} : Again'[q] = Again[q]
            /\ Again'[merge.rpt] = Again[merge.rpt] + 1
        BY <3>1, <3>3, <1>p, AgainIs
      <4>3. Again[merge.rpt] \in Nat
        BY <3>1, AgainType
      <4>4. Again'[merge.rpt] + faults + crashes <= Again[merge.rpt] + faults' + crashes'
        BY <3>1, <3>3, <4>2, <4>3, <1>p
      <4>5. QED
        BY <3>1, <4>1, <4>2, <4>4, AgainChange
    <3>4. QED
      BY <2>7, <3>2, <3>3 DEF KeySpent, Settle, Fault
  <2>8. QED
    BY <1>1, <2>1, <2>2, <2>3, <2>4, <2>5, <2>6, <2>7 DEF Merge
<1>2. CASE Restart
  <2>1. /\ merge'.pc = "idle" /\ UNCHANGED <<status, credited, faults>> /\ crashes' = crashes + 1
    BY <1>2 DEF Restart, IdleMerge
  <2>2. DepositInv'
    BY <2>1, <1>p DEF DepositInv, Deposit
  <2>3. CASE merge.pc # "keySpent"
    BY <2>1, <2>3, <1>p, DepositFrame
  <2>4. CASE merge.pc = "keySpent"
    <3>1. merge.rpt \in Receipts /\ status[merge.rpt] = "unspent" /\ credited[merge.rpt] > 0
      BY <2>4, <1>p DEF DepositInv, ReceiptInv
    <3>2. /\ \A q \in Receipts \ {merge.rpt} : Again'[q] = Again[q]
          /\ Again'[merge.rpt] = Again[merge.rpt] + 1
      BY <2>1, <2>4, <3>1, <1>p, AgainIs
    <3>3. Again[merge.rpt] \in Nat
      BY <3>1, AgainType
    <3>4. Again'[merge.rpt] + faults + crashes <= Again[merge.rpt] + faults' + crashes'
      BY <2>1, <3>2, <3>3, <1>p
    <3>5. QED
      BY <2>2, <3>1, <3>2, <3>4, AgainChange
  <2>5. QED
    BY <2>3, <2>4
<1>3. ASSUME UNCHANGED <<merge, credited, crashes>>, faults <= faults',
             \A r \in Receipts : credited[r] > 0 => status'[r] = status[r]
      PROVE  DepositInv' /\ AgainInv'
  <2>1. DepositInv'
    BY <1>3 DEF DepositInv, Deposit
  <2>2. \A r \in Receipts : Again'[r] = Again[r]
    BY <1>3, <1>p, AgainIs
  <2>3. QED
    BY <1>3, <2>1, <2>2, <1>p, AgainSame
<1>4. CASE WatchReceipt
  <2>1. UNCHANGED <<merge, credited, crashes>> /\ faults <= faults'
    BY <1>4, <1>c DEF WatchReceipt
  <2>2. \A r \in Receipts : credited[r] > 0 => status'[r] = status[r]
    BY <1>4, <1>p, Constants DEF WatchReceipt, DepositInv, Statuses
  <2>3. QED
    BY <2>1, <2>2, <1>3
<1>5. CASE RefundJob
  <2>1. UNCHANGED <<merge, credited, crashes>> /\ faults <= faults'
    BY <1>5, <1>c, <1>p DEF RefundJob, RefundBegin, RefundMark, RefundTransfer, UpdateRefundErr
  <2>2. ASSUME NEW r \in Receipts, RefundMark(r)
        PROVE  \A q \in Receipts : credited[q] > 0 => status'[q] = status[q]
    BY <2>2, <1>p DEF RefundMark, ReceiptInv, DepositInv
  <2>3. ASSUME UpdateRefundErr
        PROVE  \A q \in Receipts : credited[q] > 0 => status'[q] = status[q]
    BY <2>3, <1>p DEF UpdateRefundErr, ReceiptInv, DepositInv
  <2>4. \A q \in Receipts : credited[q] > 0 => status'[q] = status[q]
    BY <1>5, <2>2, <2>3 DEF RefundJob, RefundBegin, RefundTransfer
  <2>5. QED
    BY <2>1, <2>4, <1>3
<1>6. CASE \/ \E s \in Subs : Handler(s)
           \/ \E s \in Subs, i \in Items, c \in Symbols, a \in Addrs \cup {None} : Submit(s, i, c, a)
           \/ \E i \in Items : SetManifest(i)
           \/ UserPays \/ ExpireJob \/ Tick \/ DayPasses \/ UNCHANGED vars
  <2>1. UNCHANGED <<merge, credited, crashes, status>> /\ (UNCHANGED faults \/ Fault)
    BY <1>6 DEF Handler, SpendRead, SpendWrite, Exist, SaveItemBinary, SaveItemMeta, UndoSave,
       InsertOrder, Submit, SetManifest, UserPays, ExpireJob, ExpireBegin, ExpireMark, ExpireCheck,
       ExpireDelete, ExpireFails, Tick, DayPasses, vars
  <2>2. QED
    BY <2>1, <1>3, <1>c
<1>7. QED
  BY <1>1, <1>2, <1>4, <1>5, <1>6 DEF Next, SubmitItem, SubmitNativeData

LEMMA DepositInvariant == Spec => [](TypeInv /\ ReceiptInv /\ DepositInv /\ AgainInv)
<1>1. Init => DepositInv /\ AgainInv
  <2> SUFFICES ASSUME Init PROVE DepositInv /\ AgainInv
    OBVIOUS
  <2>1. DepositInv
    BY DEF Init, DepositInv, IdleMerge
  <2>2. \A r \in Receipts : Again[r] = 0
    BY DEF Init, Again
  <2>3. SumFunctionOnSet(Again, Receipts) = 0
    BY <2>2, Constants, SumZero
  <2>4. QED
    BY <2>1, <2>3 DEF AgainInv, Init
<1>2. QED
  BY <1>1, BasicInv, DepositStep, PTL DEF Spec

\* A deposit is credited again only where a crash or a failing update came
\* between the credit and the status, once for each, and never sent back.
THEOREM DepositsCreditedOnce == Spec => []CreditedOnce
<1>1. TypeInv /\ DepositInv /\ AgainInv => CreditedOnce
  <2> SUFFICES ASSUME TypeInv, DepositInv, AgainInv PROVE CreditedOnce
    OBVIOUS
  <2> DEFINE twice == [r \in Receipts |-> IF credited[r] > 1 THEN credited[r] - 1 ELSE 0]
  <2>1. \A r \in Receipts : twice[r] \in Nat /\ Again[r] \in Nat /\ twice[r] <= Again[r]
    BY AgainType DEF Again
  <2>2. SumFunctionOnSet(twice, Receipts) <= SumFunctionOnSet(Again, Receipts)
    BY <2>1, Constants, SumMonotone
  <2>3. SumFunctionOnSet(twice, Receipts) \in Nat
    BY <2>1, Constants, SumIsNat
  <2>4. SumFunctionOnSet(twice, Receipts) <= faults + crashes
    BY <2>2, <2>3, AgainType DEF AgainInv
  <2>5. SumFunction(twice) = SumFunctionOnSet(twice, Receipts)
    BY DEF SumFunction
  <2>6. QED
    BY <2>4, <2>5 DEF CreditedOnce, DepositInv
<1>2. QED
  BY <1>1, DepositInvariant, PTL

-----------------------------------------------------------------------------
(***************************************************************************)
(* Balances of api keys.                                                   *)
(***************************************************************************)

\* What a balance may still be topped up by: the deposit the merge job adds.
Pending(r, c) == IF Pays[r].symbol = c THEN Pays[r].amount ELSE 0

\* The balances in the table, and those handlers and the merge job are about
\* to write over them, are covered by credits, the deposit in hand included.
BalanceInv ==
  \A a \in Addrs, c \in Symbols :
    /\ bal[a] # None /\ bal[a][c] # None => bal[a][c] <= Credits(a, c)
    /\ \A s \in Subs :
         sub[s].pc = "spendWrite" /\ sub[s].addr = a /\ sub[s].left[c] # None =>
           sub[s].left[c] <= Credits(a, c)
    /\ \A r \in Receipts :
         /\ merge.pc = "keyWrite" /\ merge.rpt = r /\ Pays[r].from = a
         /\ merge.new[c] # None
         => merge.new[c] <= Credits(a, c) + Pending(r, c)

LEMMA CreditsType ==
  ASSUME TypeInv, NEW a, NEW c
  PROVE  Credits(a, c) \in Nat
<1> DEFINE f == [r \in Receipts |-> IF Pays[r].from = a /\ Pays[r].symbol = c
                                    THEN credited[r] * Pays[r].amount ELSE 0]
<1>1. \A r \in Receipts : credited[r] \in Nat /\ Pays[r].amount \in Nat
  BY AgainType, Constants DEF Transfer
<1>2. \A m, n \in Nat : m * n \in Nat
  OBVIOUS
<1>3. \A r \in Receipts : f[r] \in Nat
  BY <1>1, <1>2
<1>4. Credits(a, c) = SumFunctionOnSet(f, Receipts)
  BY DEF Credits, SumFunction
<1> HIDE DEF f
<1>5. QED
  BY <1>3, <1>4, Constants, SumIsNat

\* One more credit of r.
LEMMA CreditsGrow ==
  ASSUME TypeInv, NEW r \in Receipts, credited' = [credited EXCEPT ![r] = @ + 1],
         NEW a, NEW c
  PROVE  Credits(a, c)' = Credits(a, c) + (IF Pays[r].from = a THEN Pending(r, c) ELSE 0)
<1> DEFINE Term(n, q) == IF Pays[q].from = a /\ Pays[q].symbol = c THEN n * Pays[q].amount ELSE 0
           f == [q \in Receipts |-> Term(credited[q], q)]
           g == [q \in Receipts |-> Term(credited'[q], q)]
<1>1. /\ \A q \in Receipts : credited[q] \in Nat /\ Pays[q].amount \in Nat
      /\ credited \in [Receipts -> Nat]
  BY AgainType, Constants DEF Transfer, TypeInv, TypeOK, EverType
<1>2. credited'[r] = credited[r] + 1 /\ \A q \in Receipts \ {r} : credited'[q] = credited[q]
  BY <1>1
<1>3. \A m, n \in Nat : m * n \in Nat /\ (m + 1) * n = m * n + n
  OBVIOUS
<1>4. \A q \in Receipts : f[q] \in Nat /\ g[q] \in Nat
  <2>1. \A q \in Receipts : credited'[q] \in Nat
    BY <1>1, <1>2
  <2>2. QED
    BY <1>1, <1>3, <2>1
<1>5. \A q \in Receipts \ {r} : g[q] = f[q]
  BY <1>2
<1>6. g[r] = f[r] + (IF Pays[r].from = a THEN Pending(r, c) ELSE 0)
  BY <1>1, <1>2, <1>3 DEF Pending
<1>7. Credits(a, c) = SumFunctionOnSet(f, Receipts) /\ Credits(a, c)' = SumFunctionOnSet(g, Receipts)
  BY DEF Credits, SumFunction
<1>8. (IF Pays[r].from = a THEN Pending(r, c) ELSE 0) \in Nat
  BY <1>1 DEF Pending
<1> HIDE DEF f, g
<1>9. SumFunctionOnSet(g, Receipts) = SumFunctionOnSet(f, Receipts) - f[r] + g[r]
  <2>1. IsFiniteSet(Receipts)
    BY Constants
  <2>2. QED
    BY <2>1, <1>4, <1>5, SumChange
<1>10. SumFunctionOnSet(f, Receipts) \in Nat /\ f[r] \in Nat
  BY <1>4, Constants, SumIsNat
<1>11. QED
  BY <1>6, <1>7, <1>8, <1>9, <1>10

\* Balances are read and written back later, but only credits raise them.
LEMMA BalanceStep == TypeInv /\ BalanceInv /\ [Next]_vars => BalanceInv'
<1> SUFFICES ASSUME TypeInv, BalanceInv, [Next]_vars PROVE BalanceInv'
  OBVIOUS
<1> USE DEF db, store, ever, jobs, clock
<1>p. /\ bal \in [Addrs -> Balance \cup {None}]
      /\ sub \in [Subs -> [pc: SubPcs, item: Items \cup {None}, addr: Addrs \cup {None},
                           cur: Symbols \cup {None}, left: Balance \cup {None}]]
      /\ \A s \in Subs : sub[s].pc \in {"spendRead", "spendWrite"} => sub[s].addr \in Addrs
      /\ \A s \in Subs : sub[s].pc = "spendWrite" => sub[s].left \in Balance
      /\ \A s \in Subs : sub[s].pc # "idle" => sub[s].cur \in Symbols
  BY DEF TypeInv, TypeOK, TablesType, SubType, SubLocals
<1>m. /\ merge.pc \in {"find", "pay", "keyRead", "keyWrite", "keySpent"} => merge.rpt \in Receipts
      /\ merge.pc = "keyWrite" => merge.new \in Balance
  BY DEF TypeInv, MergeLocals
<1>r. merge = [pc |-> merge.pc, todo |-> merge.todo, rpt |-> merge.rpt,
               items |-> merge.items, ords |-> merge.ords, new |-> merge.new]
  BY DEF TypeInv, TypeOK, MergeType
<1>n. ASSUME NEW T, MergeNext(T) PROVE merge'.pc \in {"idle", "next"}
  BY <1>n DEF MergeNext, IdleMerge
<1>s. UNCHANGED credited => \A a, c : Credits(a, c)' = Credits(a, c)
  BY DEF Credits
<1>f. ASSUME UNCHANGED <<credited, bal>>,
             merge' = merge \/ merge'.pc # "keyWrite",
             \A s \in Subs : sub'[s] = sub[s] \/ sub'[s].pc # "spendWrite"
      PROVE  BalanceInv'
  BY <1>f, <1>s DEF BalanceInv
<1>1. ASSUME NEW s \in Subs, SpendRead(s) PROVE BalanceInv'
  <2>1. UNCHANGED <<credited, bal, merge>> /\ sub[s].pc = "spendRead"
        /\ sub[s].addr \in Addrs /\ sub[s].cur \in Symbols
    BY <1>1, <1>p DEF SpendRead
  <2>2. PICK fee \in Fees :
          IF CanSpend(sub[s].addr, sub[s].cur, fee)
          THEN sub' = [sub EXCEPT ![s].pc = "spendWrite",
                         ![s].left = [bal[sub[s].addr] EXCEPT ![sub[s].cur] = @ - fee]]
          ELSE Reply(s)
    BY <1>1 DEF SpendRead
  <2>3. CASE ~CanSpend(sub[s].addr, sub[s].cur, fee)
    BY <2>1, <2>2, <2>3, <1>f, <1>p DEF Reply, IdleSub
  <2>4. CASE CanSpend(sub[s].addr, sub[s].cur, fee)
    <3>1. PICK b \in Balance, k \in Addrs, d \in Symbols :
            b = bal[sub[s].addr] /\ k = sub[s].addr /\ d = sub[s].cur
      BY <2>1, <2>4, <1>p DEF CanSpend
    <3>2. /\ sub'[s].addr = k /\ sub'[s].left = [b EXCEPT ![d] = @ - fee]
          /\ \A t \in Subs \ {s} : sub'[t] = sub[t]
      BY <2>2, <2>4, <3>1, <1>p
    <3>3. b[d] \in Nat /\ fee \in Nat /\ fee <= b[d] /\ b # None
      BY <2>1, <2>4, <3>1, <1>p, Constants DEF CanSpend, Balance
    <3>4. ASSUME NEW c \in Symbols, sub'[s].left[c] # None
          PROVE  sub'[s].left[c] <= Credits(k, c)
      <4>1. b[c] # None
        BY <3>2, <3>3, <3>4, Constants DEF Balance
      <4>2. b[c] <= Credits(k, c) /\ b[c] \in Nat /\ Credits(k, c) \in Nat
        BY <3>1, <3>3, <4>1, CreditsType DEF BalanceInv, Balance
      <4>3. sub'[s].left[c] = IF c = d THEN b[c] - fee ELSE b[c]
        BY <3>2 DEF Balance
      <4>4. QED
        BY <3>3, <4>2, <4>3
    <3>5. ASSUME NEW a \in Addrs, NEW c \in Symbols, NEW t \in Subs,
                 sub'[t].pc = "spendWrite", sub'[t].addr = a, sub'[t].left[c] # None
          PROVE  sub'[t].left[c] <= Credits(a, c)
      <4>1. CASE t = s
        BY <3>2, <3>4, <3>5, <4>1
      <4>2. CASE t # s
        BY <3>2, <3>5, <4>2 DEF BalanceInv
      <4>3. QED
        BY <4>1, <4>2
    <3>6. QED
      BY <2>1, <3>5, <1>s DEF BalanceInv
  <2>5. QED
    BY <2>3, <2>4
<1>2. ASSUME NEW s \in Subs, SpendWrite(s) PROVE BalanceInv'
  <2>1. /\ UNCHANGED <<credited, merge>> /\ sub[s].pc = "spendWrite"
        /\ sub[s].addr \in Addrs
        /\ sub'[s].pc # "spendWrite" /\ \A t \in Subs \ {s} : sub'[t] = sub[t]
    BY <1>2, <1>p DEF SpendWrite, SubGoto, Reply, IdleSub
  <2>2. CASE UNCHANGED bal
    BY <2>1, <2>2, <1>f
  <2>3. CASE bal' = [bal EXCEPT ![sub[s].addr] = sub[s].left]
    <3>1. ASSUME NEW a \in Addrs, NEW c \in Symbols, bal'[a] # None, bal'[a][c] # None
          PROVE  bal'[a][c] <= Credits(a, c)
      <4>1. CASE a = sub[s].addr
        BY <2>1, <2>3, <3>1, <4>1, <1>p DEF BalanceInv
      <4>2. CASE a # sub[s].addr
        BY <2>1, <2>3, <3>1, <4>2, <1>p DEF BalanceInv
      <4>3. QED
        BY <4>1, <4>2
    <3>2. QED
      BY <2>1, <3>1, <1>s DEF BalanceInv
  <2>4. QED
    BY <1>2, <2>2, <2>3 DEF SpendWrite
<1>3. CASE KeyRead
  <2>1. /\ UNCHANGED <<credited, bal, sub>> /\ merge.pc = "keyRead" /\ merge.rpt \in Receipts
        /\ merge'.new = Topped(merge.rpt) /\ merge'.rpt = merge.rpt
    BY <1>3, <1>m, <1>r DEF KeyRead
  <2>2. PICK r \in Receipts : r = merge.rpt
    BY <2>1
  <2>3. PICK k \in Addrs, d \in Symbols, n \in Nat :
          k = Pays[r].from /\ d = Pays[r].symbol /\ n = Pays[r].amount
    BY Constants DEF Transfer
  <2>4. ASSUME NEW c \in Symbols, merge'.new[c] # None
        PROVE  merge'.new[c] <= Credits(k, c) + Pending(r, c)
    <3>0. Credits(k, c) \in Nat /\ Pending(r, c) = IF c = d THEN n ELSE 0
      BY <2>3, CreditsType DEF Pending
    <3>1. CASE bal[k] = None
      <4>1. merge'.new[c] = IF c = d THEN n ELSE None
        BY <2>1, <2>2, <2>3, <3>1 DEF Topped
      <4>2. QED
        BY <2>4, <3>0, <4>1
    <3>2. CASE bal[k] # None
      <4>1. bal[k] \in Balance /\ bal[k][c] \in Nat \cup {None}
        BY <3>2, <1>p DEF Balance
      <4>2. merge'.new[c] = IF c = d THEN (IF bal[k][c] = None THEN n ELSE bal[k][c] + n) ELSE bal[k][c]
        BY <2>1, <2>2, <2>3, <3>2, <4>1 DEF Topped, Balance
      <4>3. bal[k][c] # None => bal[k][c] <= Credits(k, c)
        BY <3>2 DEF BalanceInv
      <4>4. QED
        BY <2>4, <3>0, <4>1, <4>2, <4>3
    <3>3. QED
      BY <3>1, <3>2
  <2>5. QED
    BY <2>1, <2>2, <2>3, <2>4, <1>s DEF BalanceInv
<1>4. CASE KeyWrite
  <2>1. UNCHANGED sub /\ merge.pc = "keyWrite" /\ merge.rpt \in Receipts /\ merge'.pc # "keyWrite"
    BY <1>4, <1>m, <1>r, <1>n DEF KeyWrite
  <2>2. CASE UNCHANGED <<bal, credited>>
    BY <2>1, <2>2, <1>f
  <2>3. CASE /\ bal' = [bal EXCEPT ![Pays[merge.rpt].from] = merge.new]
             /\ credited' = [credited EXCEPT ![merge.rpt] = @ + 1]
    <3>1. PICK r \in Receipts : r = merge.rpt
      BY <2>1
    <3>2. Pays[r].from \in Addrs /\ \A c \in Symbols : Pending(r, c) \in Nat
      BY Constants DEF Transfer, Pending
    <3>3. \A a, c : Credits(a, c)' = Credits(a, c) + (IF Pays[r].from = a THEN Pending(r, c) ELSE 0)
      BY <2>3, <3>1, CreditsGrow
    <3>4. \A a, c : Credits(a, c) \in Nat
      BY CreditsType
    <3>5. ASSUME NEW a \in Addrs, NEW c \in Symbols, bal'[a] # None, bal'[a][c] # None
          PROVE  bal'[a][c] <= Credits(a, c)'
      <4>1. CASE a = Pays[r].from
        BY <2>1, <2>3, <3>1, <3>3, <3>5, <4>1, <1>p DEF BalanceInv
      <4>2. CASE a # Pays[r].from
        BY <2>3, <3>1, <3>3, <3>4, <3>5, <4>2, <1>p DEF BalanceInv
      <4>3. QED
        BY <4>1, <4>2
    <3>6. ASSUME NEW a \in Addrs, NEW c \in Symbols, NEW s \in Subs,
                 sub[s].pc = "spendWrite", sub[s].addr = a, sub[s].left[c] # None
          PROVE  sub[s].left[c] <= Credits(a, c)'
      <4>1. sub[s].left[c] <= Credits(a, c) /\ sub[s].left[c] \in Nat
        BY <3>6, <1>p DEF BalanceInv, Balance
      <4>2. Credits(a, c) <= Credits(a, c)' /\ Credits(a, c)' \in Nat
        BY <3>2, <3>3, <3>4
      <4>3. QED
        BY <4>1, <4>2, <3>4
    <3>7. QED
      BY <2>1, <3>5, <3>6 DEF BalanceInv
  <2>4. QED
    BY <1>4, <2>2, <2>3 DEF KeyWrite
<1>5. CASE Merge /\ ~KeyRead /\ ~KeyWrite
  <2>1. UNCHANGED <<credited, bal, sub>> /\ merge'.pc # "keyWrite"
    BY <1>5, <1>r, <1>n DEF Merge, MergeBegin, MergePick, GetUnPaidOrder, UpdateOrderPay, KeySpent,
                            Settle, IdleMerge
  <2>2. QED
    BY <2>1, <1>f
<1>6. ASSUME NEW s \in Subs, Exist(s) \/ SaveItemBinary(s) \/ SaveItemMeta(s) \/ UndoSave(s)
                            \/ InsertOrder(s)
      PROVE  BalanceInv'
  <2>1. UNCHANGED <<credited, bal, merge>>
    BY <1>6 DEF Exist, SaveItemBinary, SaveItemMeta, UndoSave, InsertOrder
  <2>2. \A t \in Subs : sub'[t] = sub[t] \/ sub'[t].pc # "spendWrite"
    BY <1>6, <1>p DEF Exist, SaveItemBinary, SaveItemMeta, UndoSave, InsertOrder, SubGoto, Reply, IdleSub
  <2>3. QED
    BY <2>1, <2>2, <1>f
<1>7. ASSUME NEW s \in Subs, NEW i \in Items, NEW c \in Symbols, NEW a \in Addrs \cup {None},
             Submit(s, i, c, a)
      PROVE  BalanceInv'
  BY <1>7, <1>f, <1>p DEF Submit
<1>8. CASE Restart
  BY <1>8, <1>f DEF Restart, IdleMerge, IdleSub
<1>9. CASE \/ \E i \in Items : SetManifest(i)
           \/ UserPays \/ WatchReceipt \/ RefundJob \/ ExpireJob \/ Tick \/ DayPasses \/ UNCHANGED vars
  <2>1. UNCHANGED <<credited, bal, merge, sub>>
    BY <1>9 DEF SetManifest, UserPays, WatchReceipt, RefundJob, RefundBegin, RefundMark,
       RefundTransfer, UpdateRefundErr, ExpireJob, ExpireBegin, ExpireMark, ExpireCheck,
       ExpireDelete, ExpireFails, Tick, DayPasses, vars
  <2>2. QED
    BY <2>1, <1>f
<1>10. QED
  BY <1>1, <1>2, <1>3, <1>4, <1>5, <1>6, <1>7, <1>8, <1>9
  DEF Next, Handler, SubmitItem, SubmitNativeData

\* No interleaving of reads and writes of a balance makes money: it is never
\* negative and never above what deposits credited to the key.
THEOREM BalancesCovered == Spec => []BalanceWithinCredits
<1>1. Init => BalanceInv
  BY DEF Init, BalanceInv, IdleSub, IdleMerge
<1>2. TypeInv /\ BalanceInv => BalanceWithinCredits
  <2> SUFFICES ASSUME TypeInv, BalanceInv, NEW a \in Addrs, NEW c \in Symbols,
                      bal[a] # None, bal[a][c] # None
               PROVE  0 <= bal[a][c] /\ bal[a][c] <= Credits(a, c)
    BY DEF BalanceWithinCredits
  <2>1. bal[a][c] \in Nat
    BY DEF TypeInv, TypeOK, TablesType, Balance
  <2>2. QED
    BY <2>1 DEF BalanceInv
<1>3. QED
  BY <1>1, <1>2, BasicInv, BalanceStep, PTL DEF Spec

-----------------------------------------------------------------------------
(***************************************************************************)
(* The store, as long as no access fails and the node does not crash.      *)
(***************************************************************************)
Calm == faults = 0 /\ crashes = 0

\* Failures and crashes are counted: a calm state was always calm.
LEMMA CalmBefore ==
  ASSUME TypeInv, [Next]_vars, Calm'
  PROVE  Calm /\ ~Fault /\ ~Restart
<1>1. faults \in Nat /\ crashes \in Nat
  BY DEF TypeInv, TypeOK, CountersType
<1>2. ~Fault /\ ~Restart
  BY <1>1 DEF Fault, Restart, Calm
<1>3. (faults' = faults \/ Fault) /\ (crashes' = crashes \/ Restart)
  BY DEF Next, Handler, SpendRead, SpendWrite, Exist, SaveItemBinary, SaveItemMeta, UndoSave,
     InsertOrder, SubmitItem, SubmitNativeData, Submit, SetManifest, UserPays, WatchReceipt,
     Merge, MergeBegin, MergePick, GetUnPaidOrder, UpdateOrderPay, KeyRead, KeyWrite, KeySpent,
     Settle, RefundJob, RefundBegin, RefundMark, RefundTransfer, UpdateRefundErr,
     ExpireJob, ExpireBegin, ExpireMark, ExpireCheck, ExpireDelete, ExpireFails, Tick, DayPasses,
     Restart, vars
<1>4. QED
  BY <1>2, <1>3 DEF Calm

\* An order is of one item for ever.
LEMMA ItemsStay ==
  ASSUME TypeInv, [Next]_vars
  PROVE  /\ DOMAIN orders \subseteq DOMAIN orders'
         /\ \A o \in DOMAIN orders : orders'[o].item = orders[o].item
<1> USE DEF db, store, ever, jobs, clock
<1>1. ASSUME NEW s \in Subs, InsertOrder(s)
      PROVE  /\ DOMAIN orders \subseteq DOMAIN orders'
             /\ \A o \in DOMAIN orders : orders'[o].item = orders[o].item
  BY <1>1, InsertEffect, OrdersGrow
<1>2. ASSUME NEW p \in DOMAIN orders, ExpireMark(p)
      PROVE  /\ DOMAIN orders \subseteq DOMAIN orders'
             /\ \A o \in DOMAIN orders : orders'[o].item = orders[o].item
  BY <1>2, OrderTypes DEF ExpireMark, Order
<1>3. CASE UpdateOrderPay
  <2>1. CASE orders' = orders
    BY <2>1
  <2>2. CASE orders' # orders
    <3>1. orders' = [o \in DOMAIN orders |->
            IF o \in {merge.ords[n] : n \in DOMAIN merge.ords}
            THEN [orders[o] EXCEPT !.pay = "paid", !.by = merge.rpt] ELSE orders[o]]
      BY <1>3, <2>2 DEF UpdateOrderPay
    <3>2. \A e \in Order : [e EXCEPT !.pay = "paid", !.by = merge.rpt].item = e.item
      BY DEF Order
    <3>3. QED
      BY <3>1, <3>2, OrderTypes
  <2>3. QED
    BY <2>1, <2>2
<1>4. CASE UNCHANGED orders
  BY <1>4
<1>5. QED
  BY <1>1, <1>2, <1>3, <1>4 DEF Next, Handler, SpendRead, SpendWrite, Exist, SaveItemBinary,
     SaveItemMeta, UndoSave, SubmitItem, SubmitNativeData, Submit, SetManifest, UserPays, WatchReceipt,
     Merge, MergeBegin, MergePick, GetUnPaidOrder, KeyRead, KeyWrite, KeySpent,
     RefundJob, RefundBegin, RefundMark, RefundTransfer, UpdateRefundErr,
     ExpireJob, ExpireBegin, ExpireCheck, ExpireDelete, ExpireFails, Tick, DayPasses,
     Restart, vars

\* Whoever is going to complete or to take away a half-saved item stays at it.
LEMMA BinaryStep ==
  TypeInv /\ (Calm => BinaryHasMeta) /\ [Next]_vars => (Calm => BinaryHasMeta)'
<1> SUFFICES ASSUME TypeInv, BinaryHasMeta, [Next]_vars, ~Fault, ~Restart,
                    NEW i \in binary', i \notin meta'
             PROVE  \/ \E s \in Subs : sub'[s].item = i /\ sub'[s].pc \in {"saveMeta", "undo"}
                    \/ expire'.pc = "delBinary" /\ orders'[expire'.ord].item = i
  BY CalmBefore DEF BinaryHasMeta
<1> USE DEF db, store, ever, jobs, clock
<1>p. /\ \A s \in Subs : sub[s] = [pc |-> sub[s].pc, item |-> sub[s].item, addr |-> sub[s].addr,
                                   cur |-> sub[s].cur, left |-> sub[s].left]
      /\ DOMAIN sub = Subs
  BY DEF TypeInv, TypeOK, SubType
<1>e. /\ expire = [pc |-> expire.pc, todo |-> expire.todo, ord |-> expire.ord]
      /\ expire.pc \notin {"idle", "next"} => expire.ord \in DOMAIN orders
  BY DEF TypeInv, TypeOK, ExpireType, ExpireLocals
<1>o. \A o \in DOMAIN orders : orders'[o].item = orders[o].item
  BY ItemsStay
\* The guard of the old state, where it has not moved.
<1>k. ASSUME i \in binary \ meta,
             \A s \in Subs : sub[s].item = i /\ sub[s].pc \in {"saveMeta", "undo"} => sub'[s] = sub[s],
             expire.pc = "delBinary" => expire' = expire
      PROVE  \/ \E s \in Subs : sub'[s].item = i /\ sub'[s].pc \in {"saveMeta", "undo"}
             \/ expire'.pc = "delBinary" /\ orders'[expire'.ord].item = i
  BY <1>k, <1>e, <1>o DEF BinaryHasMeta
<1>1. ASSUME NEW s \in Subs, Handler(s)
      PROVE  \/ \E t \in Subs : sub'[t].item = i /\ sub'[t].pc \in {"saveMeta", "undo"}
             \/ expire'.pc = "delBinary" /\ orders'[expire'.ord].item = i
  <2>0. expire' = expire /\ \A t \in Subs \ {s} : sub'[t] = sub[t]
    BY <1>1, <1>p DEF Handler, SpendRead, SpendWrite, Exist, SaveItemBinary, SaveItemMeta, UndoSave,
       InsertOrder, SubGoto, Reply
  <2>1. CASE SaveItemBinary(s)
    <3>1. binary' = binary \cup {sub[s].item} /\ meta' = meta /\ sub[s].pc = "saveBinary"
          /\ sub'[s].pc = "saveMeta" /\ sub'[s].item = sub[s].item
      BY <2>1, <1>p DEF SaveItemBinary, SubGoto
    <3>2. QED
      BY <2>0, <3>1, <1>k
  <2>2. CASE SaveItemMeta(s)
    <3>1. binary' = binary /\ meta' = meta \cup {sub[s].item}
      BY <2>2 DEF SaveItemMeta
    <3>2. QED
      BY <2>0, <3>1, <1>k
  <2>3. CASE UndoSave(s)
    <3>1. binary' = binary \ {sub[s].item} /\ meta' = meta
      BY <2>3 DEF UndoSave
    <3>2. QED
      BY <2>0, <3>1, <1>k
  <2>4. CASE SpendRead(s) \/ SpendWrite(s) \/ Exist(s) \/ InsertOrder(s)
    <3>1. binary' = binary /\ meta' = meta /\ sub[s].pc \notin {"saveMeta", "undo"}
      BY <2>4 DEF SpendRead, SpendWrite, Exist, InsertOrder
    <3>2. QED
      BY <2>0, <3>1, <1>k
  <2>5. QED
    BY <1>1, <2>1, <2>2, <2>3, <2>4 DEF Handler
<1>2. CASE ExpireJob
  <2>0. sub' = sub
    BY <1>2 DEF ExpireJob, ExpireBegin, ExpireMark, ExpireCheck, ExpireDelete, ExpireFails
  <2>1. CASE ExpireDelete
    <3>1. CASE expire.pc = "delMeta"
      <4>1. /\ meta' = meta \ {orders[expire.ord].item} /\ binary' = binary
            /\ expire'.pc = "delBinary" /\ expire'.ord = expire.ord /\ orders' = orders
        BY <2>1, <3>1, <1>e DEF ExpireDelete, ExpireGoto
      <4>2. QED
        BY <2>0, <3>1, <4>1, <1>k
    <3>2. CASE expire.pc = "delBinary"
      <4>1. binary' = binary \ {orders[expire.ord].item} /\ meta' = meta
        BY <2>1, <3>2 DEF ExpireDelete
      <4>2. QED
        BY <2>0, <3>2, <4>1, <1>e, <1>o DEF BinaryHasMeta
    <3>3. CASE expire.pc = "delManifest"
      <4>1. binary' = binary /\ meta' = meta
        BY <2>1, <3>3 DEF ExpireDelete
      <4>2. QED
        BY <2>0, <3>3, <4>1, <1>k
    <3>4. QED
      BY <2>1, <3>1, <3>2, <3>3 DEF ExpireDelete
  <2>2. CASE ~ExpireDelete
    <3>1. binary' = binary /\ meta' = meta /\ expire.pc # "delBinary"
      BY <1>2, <2>2 DEF ExpireJob, ExpireBegin, ExpireMark, ExpireCheck, ExpireFails
    <3>2. QED
      BY <2>0, <3>1, <1>k
  <2>3. QED
    BY <2>1, <2>2
<1>3. ASSUME NEW s \in Subs, NEW j \in Items, NEW c \in Symbols, NEW a \in Addrs \cup {None},
             Submit(s, j, c, a)
      PROVE  \/ \E t \in Subs : sub'[t].item = i /\ sub'[t].pc \in {"saveMeta", "undo"}
             \/ expire'.pc = "delBinary" /\ orders'[expire'.ord].item = i
  <2>1. /\ binary' = binary /\ meta' = meta /\ expire' = expire
        /\ sub[s].pc = "idle" /\ \A t \in Subs \ {s} : sub'[t] = sub[t]
    BY <1>3, <1>p DEF Submit
  <2>2. QED
    BY <2>1, <1>k
<1>4. CASE \/ \E j \in Items : SetManifest(j)
           \/ UserPays \/ WatchReceipt \/ Merge \/ RefundJob \/ Tick \/ DayPasses \/ UNCHANGED vars
  <2>1. UNCHANGED <<binary, meta, sub, expire>>
    BY <1>4 DEF SetManifest, UserPays, WatchReceipt, RefundJob, RefundBegin, RefundMark,
       RefundTransfer, UpdateRefundErr, Merge, MergeBegin, MergePick, GetUnPaidOrder,
       UpdateOrderPay, KeyRead, KeyWrite, KeySpent, Tick, DayPasses, vars
  <2>2. QED
    BY <2>1, <1>k
<1>5. QED
  BY <1>1, <1>2, <1>3, <1>4 DEF Next, SubmitItem, SubmitNativeData

\* Handlers saving items and the job deleting them never leave a binary without
\* metadata, in any interleaving, until an access fails or the node crashes.
THEOREM NoBinaryWithoutMeta == Spec => [](faults = 0 /\ crashes = 0 => BinaryHasMeta)
<1>1. Init => (Calm => BinaryHasMeta)
  BY DEF Init, BinaryHasMeta
<1>2. (Calm => BinaryHasMeta) => (faults = 0 /\ crashes = 0 => BinaryHasMeta)
  BY DEF Calm
<1>3. QED
  BY <1>1, <1>2, BasicInv, BinaryStep, PTL DEF Spec

\* Why a stored item is not forgotten: an order of it is open or paid, a
\* handler is about to open one, or the job is just closing one.
Open(i) == \E o \in DOMAIN orders : orders[o].item = i /\ orders[o].pay # "expired"
Opening(i) == \E s \in Subs : sub[s].item = i /\ sub[s].pc \in {"saveMeta", "insert"}
Closing(i) ==
  /\ expire.pc \in {"paid", "latest", "exist", "delMeta", "delBinary"}
  /\ orders[expire.ord].item = i

ItemKept == \A i \in binary : Open(i) \/ Opening(i) \/ Closing(i)

\* An open order stays open until the job closes it.
LEMMA OpenStays ==
  ASSUME TypeInv, [Next]_vars, NEW i, Open(i)
  PROVE  \/ Open(i)'
         \/ \E o \in DOMAIN orders : orders[o].item = i /\ ExpireMark(o)
<1> USE DEF db, store, ever, jobs, clock
<1>1. PICK o \in DOMAIN orders : orders[o].item = i /\ orders[o].pay # "expired"
  BY DEF Open
<1>2. o \in DOMAIN orders' /\ orders'[o].item = i
  BY <1>1, ItemsStay
<1>3. ASSUME NEW s \in Subs, InsertOrder(s) PROVE orders'[o].pay = orders[o].pay
  BY <1>3, InsertEffect, OrdersGrow
<1>4. ASSUME NEW p \in DOMAIN orders, ExpireMark(p), p # o PROVE orders'[o].pay = orders[o].pay
  BY <1>4 DEF ExpireMark, TypeInv, TypeOK, TablesType
<1>5. CASE UpdateOrderPay
  <2>1. CASE orders' = orders
    BY <1>1, <2>1 DEF Open
  <2>2. CASE orders' # orders
    <3>1. orders' = [q \in DOMAIN orders |->
            IF q \in {merge.ords[n] : n \in DOMAIN merge.ords}
            THEN [orders[q] EXCEPT !.pay = "paid", !.by = merge.rpt] ELSE orders[q]]
      BY <1>5, <2>2 DEF UpdateOrderPay
    <3>2. \A e \in Order : [e EXCEPT !.pay = "paid", !.by = merge.rpt].pay = "paid"
      BY DEF Order
    <3>3. orders'[o].pay # "expired"
      BY <1>1, <3>1, <3>2, OrderTypes
    <3>4. QED
      BY <1>2, <3>3 DEF Open
  <2>3. QED
    BY <2>1, <2>2
<1>6. CASE orders'[o].pay = orders[o].pay
  BY <1>1, <1>2, <1>6 DEF Open
<1>7. QED
  BY <1>1, <1>3, <1>4, <1>5, <1>6 DEF Next, Handler, SpendRead, SpendWrite, Exist, SaveItemBinary,
     SaveItemMeta, UndoSave, SubmitItem, SubmitNativeData, Submit, SetManifest, UserPays, WatchReceipt,
     Merge, MergeBegin, MergePick, GetUnPaidOrder, KeyRead, KeyWrite, KeySpent,
     RefundJob, RefundBegin, RefundMark, RefundTransfer, UpdateRefundErr,
     ExpireJob, ExpireBegin, ExpireCheck, ExpireDelete, ExpireFails, Tick, DayPasses,
     Restart, vars

\* The last order of an item to be closed takes the item with it.
LEMMA ItemKeptStep ==
  ASSUME Symbols \subseteq Supported
  PROVE  TypeInv /\ (Calm => ItemKept) /\ [Next]_vars => (Calm => ItemKept)'
<1> SUFFICES ASSUME TypeInv, ItemKept, [Next]_vars, ~Fault, ~Restart, NEW i \in binary'
             PROVE  Open(i)' \/ Opening(i)' \/ Closing(i)'
  BY CalmBefore DEF ItemKept
<1> USE DEF db, store, ever, jobs, clock
<1>p. /\ \A s \in Subs : sub[s] = [pc |-> sub[s].pc, item |-> sub[s].item, addr |-> sub[s].addr,
                                   cur |-> sub[s].cur, left |-> sub[s].left]
      /\ DOMAIN sub = Subs
      /\ \A s \in Subs : sub[s].pc # "idle" => sub[s].cur \in Symbols
  BY DEF TypeInv, TypeOK, SubType, SubLocals
<1>e. /\ expire = [pc |-> expire.pc, todo |-> expire.todo, ord |-> expire.ord]
      /\ expire.pc \notin {"idle", "next"} => expire.ord \in DOMAIN orders
  BY DEF TypeInv, TypeOK, ExpireType, ExpireLocals
<1>o. \A o \in DOMAIN orders : orders'[o].item = orders[o].item
  BY ItemsStay
<1>m. ASSUME NEW o \in DOMAIN orders, ExpireMark(o), orders[o].item = i
      PROVE  Closing(i)'
  <2>1. expire'.pc = "paid" /\ expire'.ord = o
    BY <1>m, <1>e DEF ExpireMark
  <2>2. QED
    BY <1>m, <2>1, <1>o DEF Closing
<1>w. ASSUME Open(i) PROVE Open(i)' \/ Closing(i)'
  BY <1>w, <1>m, OpenStays
\* What holds where the handlers and the job stand still.
<1>k. ASSUME i \in binary, expire' = expire,
             \A s \in Subs : sub[s].item = i /\ sub[s].pc \in {"saveMeta", "insert"} => sub'[s] = sub[s]
      PROVE  Open(i)' \/ Opening(i)' \/ Closing(i)'
  <2>1. Opening(i) => Opening(i)'
    BY <1>k DEF Opening
  <2>2. Closing(i) => Closing(i)'
    BY <1>k, <1>e, <1>o DEF Closing
  <2>3. QED
    BY <1>k, <2>1, <2>2, <1>w DEF ItemKept
<1>1. ASSUME NEW s \in Subs, Handler(s)
      PROVE  Open(i)' \/ Opening(i)' \/ Closing(i)'
  <2>0. expire' = expire /\ \A t \in Subs \ {s} : sub'[t] = sub[t]
    BY <1>1, <1>p DEF Handler, SpendRead, SpendWrite, Exist, SaveItemBinary, SaveItemMeta, UndoSave,
       InsertOrder, SubGoto, Reply
  <2>1. CASE SaveItemBinary(s)
    <3>1. /\ binary' = binary \cup {sub[s].item} /\ sub[s].pc = "saveBinary"
          /\ sub'[s].pc = "saveMeta" /\ sub'[s].item = sub[s].item
      BY <2>1, <1>p DEF SaveItemBinary, SubGoto
    <3>2. i = sub[s].item => Opening(i)'
      BY <3>1 DEF Opening
    <3>3. QED
      BY <2>0, <3>1, <3>2, <1>k
  <2>2. CASE SaveItemMeta(s)
    <3>1. /\ binary' = binary /\ sub'[s].pc = "insert" /\ sub'[s].item = sub[s].item
      BY <2>2, <1>p DEF SaveItemMeta, SubGoto
    <3>2. i = sub[s].item => Opening(i)'
      BY <3>1 DEF Opening
    <3>3. QED
      BY <2>0, <3>1, <3>2, <1>k
  <2>3. CASE InsertOrder(s)
    <3>1. binary' = binary /\ sub[s].pc = "insert" /\ sub[s].cur \in Supported
      BY <2>3, <1>p DEF InsertOrder
    <3>2. orders' # orders
      <4>1. PICK new : orders' = Append(orders, new)
        BY <2>3, <3>1 DEF InsertOrder
      <4>2. Len(orders') = Len(orders) + 1 /\ Len(orders) \in Nat
        BY <4>1 DEF TypeInv, TypeOK, TablesType
      <4>3. QED
        BY <4>2
    <3>3. PICK new \in Order : /\ orders' = Append(orders, new)
                               /\ new.item = sub[s].item /\ new.pay \in {"paid", "unpaid"}
      BY <2>3, <3>2, InsertEffect
    <3>4. i = sub[s].item => Open(i)'
      BY <3>3, OrdersGrow DEF Open
    <3>5. QED
      BY <2>0, <3>1, <3>4, <1>k
  <2>4. CASE UndoSave(s) \/ SpendRead(s) \/ SpendWrite(s) \/ Exist(s)
    <3>1. i \in binary /\ sub[s].pc \notin {"saveMeta", "insert"}
      BY <2>4 DEF UndoSave, SpendRead, SpendWrite, Exist
    <3>2. QED
      BY <2>0, <3>1, <1>k
  <2>5. QED
    BY <1>1, <2>1, <2>2, <2>3, <2>4 DEF Handler
<1>2. CASE ExpireJob
  <2>0. sub' = sub /\ i \in binary
    BY <1>2 DEF ExpireJob, ExpireBegin, ExpireMark, ExpireCheck, ExpireDelete, ExpireFails
  <2>1. CASE Open(i) \/ Opening(i)
    BY <2>0, <2>1, <1>w DEF Opening
  <2>2. CASE Closing(i) /\ ~Open(i)
    <3>0. expire.ord \in DOMAIN orders /\ orders[expire.ord].item = i
      BY <2>2, <1>e DEF Closing
    <3>1. CASE ExpireCheck
      <4>1. ~ExistPaidOrd(i) /\ UnPaid(i) = {}
        BY <2>2 DEF Open, ExistPaidOrd, UnPaid
      <4>2. expire'.pc \in {"latest", "exist", "delMeta"} /\ expire'.ord = expire.ord /\ orders' = orders
        BY <2>0, <3>0, <3>1, <4>1, <1>e DEF ExpireCheck, ExpireGoto, IsLatestUnpaidOrd
      <4>3. QED
        BY <3>0, <4>2 DEF Closing
    <3>2. CASE ExpireDelete
      <4>1. expire.pc = "delMeta"
        BY <2>2, <3>0, <3>2 DEF ExpireDelete, Closing
      <4>2. expire'.pc = "delBinary" /\ expire'.ord = expire.ord /\ orders' = orders
        BY <3>2, <4>1, <1>e DEF ExpireDelete, ExpireGoto
      <4>3. QED
        BY <3>0, <4>2 DEF Closing
    <3>3. QED
      BY <1>2, <2>2, <3>1, <3>2 DEF ExpireJob, ExpireBegin, ExpireMark, ExpireFails, Closing
  <2>3. QED
    BY <2>0, <2>1, <2>2 DEF ItemKept
<1>3. ASSUME NEW s \in Subs, NEW j \in Items, NEW c \in Symbols, NEW a \in Addrs \cup {None},
             Submit(s, j, c, a)
      PROVE  Open(i)' \/ Opening(i)' \/ Closing(i)'
  <2>1. /\ binary' = binary /\ expire' = expire
        /\ sub[s].pc = "idle" /\ \A t \in Subs \ {s} : sub'[t] = sub[t]
    BY <1>3, <1>p DEF Submit
  <2>2. QED
    BY <2>1, <1>k
<1>4. CASE \/ \E j \in Items : SetManifest(j)
           \/ UserPays \/ WatchReceipt \/ Merge \/ RefundJob \/ Tick \/ DayPasses \/ UNCHANGED vars
  <2>1. UNCHANGED <<binary, sub, expire>>
    BY <1>4 DEF SetManifest, UserPays, WatchReceipt, RefundJob, RefundBegin, RefundMark,
       RefundTransfer, UpdateRefundErr, Merge, MergeBegin, MergePick, GetUnPaidOrder,
       UpdateOrderPay, KeyRead, KeyWrite, KeySpent, Tick, DayPasses, vars
  <2>2. QED
    BY <2>1, <1>k
<1>5. QED
  BY <1>1, <1>2, <1>3, <1>4 DEF Next, SubmitItem, SubmitNativeData

\* When every currency has a fee, no item outlives its last order, in whatever
\* order orders of the item are opened, paid and closed, until an access fails
\* or the node crashes.
THEOREM NoItemOrphaned ==
  ASSUME Symbols \subseteq Supported
  PROVE  Spec => [](faults = 0 /\ crashes = 0 => NoOrphanItem)
<1>1. Init => (Calm => ItemKept)
  BY DEF Init, ItemKept
<1>2. TypeInv /\ (Calm => ItemKept) => (faults = 0 /\ crashes = 0 => NoOrphanItem)
  BY DEF Calm, ItemKept, Open, Opening, Closing, NoOrphanItem
<1>3. TypeInv /\ (Calm => ItemKept) /\ [Next]_vars => (Calm => ItemKept)'
  BY ItemKeptStep
<1>4. QED
  BY <1>1, <1>2, <1>3, BasicInv, PTL DEF Spec

-----------------------------------------------------------------------------
(***************************************************************************)
(* Payments implements Settlement.                                         *)
(***************************************************************************)

\* What processPayItems has found an order for, and what it still looks for,
\* are the items the transfer names, each of them.
WantInv ==
  /\ merge.pc = "next" => merge.ords = <<>>
  /\ merge.pc \in {"find", "pay"} =>
       Named(merge.rpt) = {orders[merge.ords[n]].item : n \in DOMAIN merge.ords}
                            \cup Range(merge.items)
  /\ merge.pc = "pay" => merge.items = <<>> /\ DOMAIN merge.ords # {}

\* The elements of a sequence are its first and the others.
LEMMA HeadAndTail ==
  ASSUME NEW S, NEW s \in Seq(S), s # <<>>
  PROVE  /\ Range(s) = {Head(s)} \cup Range(Tail(s))
         /\ Len(s) = 1 => Tail(s) = <<>>
<1>1. /\ Len(s) \in Nat \ {0} /\ DOMAIN s = 1..Len(s) /\ Head(s) = s[1]
      /\ Tail(s) \in Seq(S) /\ Len(Tail(s)) = Len(s) - 1
      /\ DOMAIN Tail(s) = 1..(Len(s) - 1)
      /\ \A n \in 1..(Len(s) - 1) : Tail(s)[n] = s[n + 1]
  OBVIOUS
<1>2. \A n \in DOMAIN s : n = 1 \/ (n - 1 \in DOMAIN Tail(s) /\ Tail(s)[n - 1] = s[n])
  BY <1>1
<1>3. \A n \in DOMAIN Tail(s) : n + 1 \in DOMAIN s /\ Tail(s)[n] = s[n + 1]
  BY <1>1
<1>4. 1 \in DOMAIN s
  BY <1>1
<1>5. Len(s) = 1 => Tail(s) = <<>>
  BY <1>1, EmptySeq
<1>6. Range(s) = {Head(s)} \cup Range(Tail(s))
  <2>1. PICK t, h : t = Tail(s) /\ h = Head(s)
    OBVIOUS
  <2>2. /\ \A n \in DOMAIN s : s[n] = h \/ \E k \in DOMAIN t : t[k] = s[n]
        /\ \A n \in DOMAIN t : \E k \in DOMAIN s : s[k] = t[n]
        /\ \E k \in DOMAIN s : s[k] = h
    BY <1>1, <1>2, <1>3, <1>4, <2>1
  <2>3. Range(s) = {h} \cup Range(t)
    BY <2>2 DEF Range
  <2>4. QED
    BY <2>1, <2>3
<1>7. QED
  BY <1>5, <1>6

LEMMA NoElements == Range(<<>>) = {}
  BY DEF Range

\* The elements of a sequence with one more at the end.
LEMMA AppendElements ==
  ASSUME NEW S, NEW s \in Seq(S), NEW e
  PROVE  /\ DOMAIN Append(s, e) = DOMAIN s \cup {Len(s) + 1}
         /\ Append(s, e)[Len(s) + 1] = e
         /\ \A n \in DOMAIN s : Append(s, e)[n] = s[n]
         /\ Len(s) + 1 \notin DOMAIN s
  OBVIOUS

\* An order found for the head of the list moves it from one side to the other.
LEMMA WantFound ==
  ASSUME TypeInv, WantInv, UNCHANGED orders, merge.pc = "find", UnPaid(Head(merge.items)) # {},
         merge' = [merge EXCEPT !.ords = Append(@, Max(UnPaid(Head(merge.items)))),
                     !.items = Tail(@),
                     !.pc = IF Len(merge.items) = 1 THEN "pay" ELSE "find"]
  PROVE  WantInv'
<1> DEFINE m == Max(UnPaid(Head(merge.items)))
<1>1. /\ merge.items \in Seq(Items) /\ merge.items # <<>> /\ merge.ords \in Seq(Nat)
      /\ merge = [pc |-> merge.pc, todo |-> merge.todo, rpt |-> merge.rpt,
                  items |-> merge.items, ords |-> merge.ords, new |-> merge.new]
  BY DEF TypeInv, TypeOK, MergeType, MergeLocals
<1>2. m \in UnPaid(Head(merge.items))
  <2>1. Len(orders) \in Nat /\ DOMAIN orders = 1..Len(orders)
    BY DEF TypeInv, TypeOK, TablesType
  <2>2. UnPaid(Head(merge.items)) \in SUBSET (0..Len(orders))
    BY <2>1 DEF UnPaid
  <2>3. QED
    BY <2>1, <2>2, MaxBounded
<1>3. orders[m].item = Head(merge.items)
  BY <1>2 DEF UnPaid
<1>4. /\ merge'.ords = Append(merge.ords, m) /\ merge'.items = Tail(merge.items)
      /\ merge'.rpt = merge.rpt
      /\ merge'.pc = IF Len(merge.items) = 1 THEN "pay" ELSE "find"
  BY <1>1
<1> HIDE DEF m
<1>5. /\ DOMAIN merge'.ords = DOMAIN merge.ords \cup {Len(merge.ords) + 1}
      /\ merge'.ords[Len(merge.ords) + 1] = m
      /\ \A n \in DOMAIN merge.ords : merge'.ords[n] = merge.ords[n]
  BY <1>1, <1>4, AppendElements
<1>6. {orders'[merge'.ords[n]].item : n \in DOMAIN merge'.ords}
        = {orders[merge.ords[n]].item : n \in DOMAIN merge.ords} \cup {Head(merge.items)}
  BY <1>3, <1>5
<1>7. /\ Range(merge.items)
           = {Head(merge.items)} \cup Range(merge'.items)
      /\ Len(merge.items) = 1 => merge'.items = <<>>
  BY <1>1, <1>4, HeadAndTail
<1>8. Named(merge.rpt) = {orders[merge.ords[n]].item : n \in DOMAIN merge.ords}
                            \cup Range(merge.items)
  BY DEF WantInv
<1>9. Named(merge'.rpt) = {orders'[merge'.ords[n]].item : n \in DOMAIN merge'.ords}
                            \cup Range(merge'.items)
  BY <1>4, <1>6, <1>7, <1>8
<1>10. Named(merge.rpt)' = Named(merge'.rpt)
  BY DEF Named
<1>11. QED
  BY <1>4, <1>5, <1>7, <1>9, <1>10 DEF WantInv

LEMMA WantStep == TypeInv /\ WantInv /\ [Next]_vars => WantInv'
<1> SUFFICES ASSUME TypeInv, WantInv, [Next]_vars PROVE WantInv'
  OBVIOUS
<1> USE DEF db, store, ever, jobs, clock
<1>m. /\ merge = [pc |-> merge.pc, todo |-> merge.todo, rpt |-> merge.rpt,
                  items |-> merge.items, ords |-> merge.ords, new |-> merge.new]
      /\ \A n \in DOMAIN merge.ords : merge.ords[n] \in DOMAIN orders
  BY DEF TypeInv, TypeOK, MergeType, MergeLocals
<1>1. CASE UNCHANGED merge
  <2>1. \A n \in DOMAIN merge.ords : orders'[merge.ords[n]].item = orders[merge.ords[n]].item
    BY <1>m, ItemsStay
  <2>2. {orders'[merge.ords[n]].item : n \in DOMAIN merge.ords}
          = {orders[merge.ords[n]].item : n \in DOMAIN merge.ords}
    BY <2>1
  <2>3. Named(merge.rpt)' = Named(merge.rpt)
    BY <1>1 DEF Named
  <2>4. QED
    BY <1>1, <2>2, <2>3 DEF WantInv
<1>2. ASSUME merge'.pc \notin {"find", "pay"}, merge'.pc = "next" => merge'.ords = <<>>
      PROVE  WantInv'
  BY <1>2 DEF WantInv
<1>3. ASSUME NEW T, MergeNext(T) PROVE WantInv'
  BY <1>2, <1>3 DEF MergeNext, IdleMerge
<1>4. ASSUME NEW r \in Receipts, MergePick(r) PROVE WantInv'
  <2>1. CASE merge' = [merge EXCEPT !.pc = "find", !.todo = merge.todo \ {r}, !.rpt = r,
                                    !.items = Pays[r].items]
    <3>1. /\ merge'.pc = "find" /\ merge'.rpt = r /\ merge'.items = Pays[r].items
          /\ merge'.ords = <<>>
      BY <1>m, <1>4, <2>1 DEF MergePick, WantInv
    <3>2. DOMAIN merge'.ords = {}
      BY <3>1
    <3>3. Named(merge.rpt)' = Range(merge'.items)
      BY <3>1 DEF Named
    <3>4. {orders'[merge'.ords[n]].item : n \in DOMAIN merge'.ords} = {}
      BY <3>2
    <3>5. QED
      BY <3>1, <3>3, <3>4 DEF WantInv
  <2>2. QED
    BY <1>2, <1>3, <1>4, <1>m, <2>1 DEF MergePick, Settle
<1>5. CASE GetUnPaidOrder
  BY <1>3, <1>5, WantFound DEF GetUnPaidOrder, Settle
<1>6. CASE MergeBegin \/ KeyRead \/ KeyWrite
  BY <1>2, <1>3, <1>6, <1>m DEF MergeBegin, KeyRead, KeyWrite, IdleMerge
<1>7. CASE UpdateOrderPay \/ KeySpent
  BY <1>3, <1>7 DEF UpdateOrderPay, KeySpent, Settle
<1>8. CASE Restart
  BY <1>2, <1>8 DEF Restart, IdleMerge
<1>9. QED
  BY <1>1, <1>4, <1>5, <1>6, <1>7, <1>8
  DEF Next, Handler, SpendRead, SpendWrite, Exist, SaveItemBinary, SaveItemMeta, UndoSave,
     InsertOrder, SubmitItem, SubmitNativeData, Submit, SetManifest, UserPays, WatchReceipt,
     Merge, RefundJob, RefundBegin, RefundMark, RefundTransfer, UpdateRefundErr, ExpireJob,
     ExpireBegin, ExpireMark, ExpireCheck, ExpireDelete, ExpireFails, Tick, DayPasses, vars

Bill == [item: Items, fee: Nat, cur: Symbols]

\* The orders as Settlement sees them.
LEMMA BillsFacts ==
  ASSUME TypeInv
  PROVE  /\ Bills \in Seq(Bill) /\ Len(Bills) = Len(orders) /\ DOMAIN Bills = DOMAIN orders
         /\ \A o \in DOMAIN orders : /\ Bills[o] \in Bill /\ Bills[o].item = orders[o].item
                                     /\ Bills[o].fee = orders[o].fee
                                     /\ Bills[o].cur = orders[o].cur
<1>1. DOMAIN orders = 1..Len(orders) /\ Len(orders) \in Nat
  BY DEF TypeInv, TypeOK, TablesType
<1>2. \A o \in DOMAIN orders : /\ orders[o].item \in Items /\ orders[o].fee \in Nat
                               /\ orders[o].cur \in Symbols
  BY OrderTypes DEF Order
<1>3. Bills \in [1..Len(orders) -> Bill]
  BY <1>1, <1>2 DEF Bills, Bill
<1>4. Bills \in Seq(Bill)
  BY <1>1, <1>3, SeqDef
<1>5. Len(Bills) = Len(orders)
  <2>1. DOMAIN Bills = 1..Len(Bills) /\ Len(Bills) \in Nat
    BY <1>4
  <2>2. QED
    BY <1>1, <1>3, <2>1
<1>6. QED
  BY <1>1, <1>2, <1>3, <1>4, <1>5 DEF Bills, Bill

\* A change of the payment status only is invisible.
LEMMA BillsFrame ==
  ASSUME DOMAIN orders' = DOMAIN orders,
         \A o \in DOMAIN orders : /\ orders'[o].item = orders[o].item
                                  /\ orders'[o].fee = orders[o].fee
                                  /\ orders'[o].cur = orders[o].cur
  PROVE  /\ UNCHANGED Bills
         /\ (\A o \in DOMAIN orders : orders'[o].by = orders[o].by) => UNCHANGED Purchases
<1>1. UNCHANGED Bills
  BY DEF Bills
<1>2. ASSUME \A o \in DOMAIN orders : orders'[o].by = orders[o].by PROVE UNCHANGED Purchases
  <2>1. \A r : PaidBy(r)' = PaidBy(r)
    BY <1>2 DEF PaidBy
  <2>2. QED
    BY <2>1 DEF Purchases
<1>3. QED
  BY <1>1, <1>2

LEMMA OrderOpened ==
  ASSUME TypeInv, NEW s \in Subs, InsertOrder(s), orders' # orders
  PROVE  \E i \in Items, n \in Fees, c \in Symbols : Ledger!Open(i, n, c)
<1>1. PICK i \in Items, c \in Symbols : i = sub[s].item /\ c = sub[s].cur
  BY DEF InsertOrder, SubLocals, TypeInv
<1>2. PICK n \in Fees :
        orders' = Append(orders,
          [item |-> sub[s].item, fee |-> n, cur |-> sub[s].cur,
           exp |-> IF sub[s].addr # None THEN 0 ELSE now + ExpiredRange,
           pay |-> IF sub[s].addr # None THEN "paid" ELSE "unpaid",
           chain |-> "waiting", by |-> None])
  BY DEF InsertOrder
<1>3. PICK new : /\ orders' = Append(orders, new) /\ new.item = i /\ new.fee = n
                 /\ new.cur = c /\ new.by = None
  BY <1>1, <1>2
<1>4. /\ DOMAIN orders' = DOMAIN orders \cup {Len(orders) + 1}
      /\ orders'[Len(orders) + 1] = new
      /\ \A o \in DOMAIN orders : orders'[o] = orders[o]
  BY <1>3, AppendElements DEF TypeInv, TypeOK, TablesType
<1>5. PICK e \in Bill : e = [item |-> i, fee |-> n, cur |-> c]
  BY Constants DEF Bill
<1>6. PICK t : t = Append(Bills, e)
  OBVIOUS
<1>7. /\ t \in Seq(Bill) /\ DOMAIN t = DOMAIN orders \cup {Len(orders) + 1}
      /\ t[Len(orders) + 1] = e /\ \A o \in DOMAIN orders : t[o] = Bills[o]
  BY <1>5, <1>6, BillsFacts, AppendElements
<1>8. Bills' = t
  <2>1. \A o \in DOMAIN orders' :
          Bills'[o] = [item |-> orders'[o].item, fee |-> orders'[o].fee, cur |-> orders'[o].cur]
    BY DEF Bills
  <2>2. Bills'[Len(orders) + 1] = e
    BY <1>3, <1>4, <1>5, <2>1
  <2>3. \A o \in DOMAIN orders : Bills'[o] = Bills[o]
    BY <1>4, <2>1 DEF Bills
  <2>4. \A o \in DOMAIN orders' : Bills'[o] = t[o]
    BY <1>4, <1>7, <2>2, <2>3
  <2>5. t = [o \in DOMAIN t |-> t[o]]
    BY <1>7
  <2>6. Bills' = [o \in DOMAIN orders' |-> Bills'[o]]
    BY DEF Bills
  <2>7. QED
    BY <1>4, <1>7, <2>4, <2>5, <2>6
<1>9. UNCHANGED Purchases
  <2>1. ASSUME NEW r \in Receipts PROVE PaidBy(r)' = PaidBy(r)
    BY <1>3, <1>4, Constants DEF PaidBy
  <2>2. QED
    BY <2>1 DEF Purchases
<1>10. UNCHANGED <<status, credited, refunds>>
  BY DEF InsertOrder, ever
<1>11. Ledger!Open(i, n, c)
  BY <1>5, <1>6, <1>8, <1>9, <1>10 DEF Ledger!Open
<1>12. QED
  BY <1>11

\* The transaction of processPayItems buys an order of every item named.
LEMMA OrdersBought ==
  ASSUME TypeInv, TypeInv', ReceiptInv, OrderInv, WantInv, UpdateOrderPay,
         checkOrders(merge.rpt, merge.ords),
         orders' = [o \in DOMAIN orders |->
           IF o \in {merge.ords[n] : n \in DOMAIN merge.ords}
           THEN [orders[o] EXCEPT !.pay = "paid", !.by = merge.rpt] ELSE orders[o]],
         status' = [status EXCEPT ![merge.rpt] = "spent"]
  PROVE  \E S \in SUBSET (DOMAIN Bills) : Ledger!Buy(merge.rpt, S)
<1> DEFINE ids == {merge.ords[n] : n \in DOMAIN merge.ords}
<1>0. PICK r \in Receipts : r = merge.rpt /\ status[r] = "unspent" /\ merge.pc = "pay"
  BY DEF UpdateOrderPay, TypeInv, MergeLocals, ReceiptInv
<1>1. /\ ids \subseteq DOMAIN orders /\ ids # {}
      /\ \A o \in ids : orders[o].by = None
  BY <1>0 DEF OrderInv, UnpaidInv, TypeInv, MergeLocals, WantInv
<1>2. /\ DOMAIN orders' = DOMAIN orders
      /\ \A o \in DOMAIN orders \ ids : orders'[o] = orders[o]
      /\ \A o \in ids : orders'[o] = [orders[o] EXCEPT !.pay = "paid", !.by = r]
  BY <1>0, <1>1
<1>3. Named(r) = {orders[o].item : o \in ids}
  <2>1. Named(r) = {orders[merge.ords[n]].item : n \in DOMAIN merge.ords} \cup Range(merge.items)
        /\ merge.items = <<>>
    BY <1>0 DEF WantInv
  <2>3. Range(merge.items) = {}
    BY <2>1, NoElements
  <2>4. {orders[merge.ords[n]].item : n \in DOMAIN merge.ords} = {orders[o].item : o \in ids}
    OBVIOUS
  <2>5. QED
    BY <2>1, <2>3, <2>4
<1>4. \A o \in ids : orders[o].cur = Pays[r].symbol
  <2>1. \A n \in DOMAIN merge.ords : orders[merge.ords[n]].cur = Pays[r].symbol
    BY <1>0 DEF checkOrders
  <2>2. ASSUME NEW o \in ids PROVE orders[o].cur = Pays[r].symbol
    <3>1. PICK n \in DOMAIN merge.ords : o = merge.ords[n]
      OBVIOUS
    <3>2. QED
      BY <2>1, <3>1
  <2>3. QED
    BY <2>2
<1> HIDE DEF ids
<1>5. ASSUME NEW o \in DOMAIN orders
      PROVE  /\ orders'[o].item = orders[o].item /\ orders'[o].fee = orders[o].fee
             /\ orders'[o].cur = orders[o].cur
             /\ o \in ids => orders'[o].by = r
             /\ o \notin ids => orders'[o].by = orders[o].by
  <2>1. orders[o] \in Order
    BY OrderTypes
  <2>2. CASE o \in ids
    <3>1. PICK x \in Order : x = orders[o]
      BY <2>1
    <3>2. orders'[o] = [x EXCEPT !.pay = "paid", !.by = r]
      BY <1>2, <2>2, <3>1
    <3>3. /\ orders'[o].item = x.item /\ orders'[o].fee = x.fee
          /\ orders'[o].cur = x.cur /\ orders'[o].by = r
      BY <3>2 DEF Order
    <3>4. QED
      BY <2>2, <3>1, <3>3
  <2>3. CASE o \notin ids
    BY <1>2, <2>3
  <2>4. QED
    BY <2>2, <2>3
<1>6. UNCHANGED Bills /\ DOMAIN Bills = DOMAIN orders
  BY <1>2, <1>5, BillsFrame, BillsFacts
<1>7. \A q \in Receipts : PaidBy(q) \cap ids = {}
  BY <1>1, Constants DEF PaidBy
<1>8. /\ \A q \in Receipts \ {r} : PaidBy(q)' = PaidBy(q)
      /\ PaidBy(r)' = ids
  <2>1. \A o \in DOMAIN orders : orders[o].by # r
    BY <1>0, Constants DEF OrderInv, SpentInv
  <2>2. PaidBy(r)' = ids
    <3>1. \A o \in DOMAIN orders : orders'[o].by = r <=> o \in ids
      BY <1>5, <2>1
    <3>2. QED
      BY <1>1, <1>2, <3>1 DEF PaidBy
  <2>3. ASSUME NEW q \in Receipts \ {r} PROVE PaidBy(q)' = PaidBy(q)
    BY <1>2, <1>5, <1>7 DEF PaidBy
  <2>4. QED
    BY <2>2, <2>3
<1>9. Purchases' = [Purchases EXCEPT ![r] = ids]
  BY <1>8 DEF Purchases
<1>10. SumFunctionOnSet(Ledger!Fee, ids) <= Pays[r].amount
  <2>1. orders' # orders
    <3>1. PICK o \in ids : TRUE
      BY <1>1
    <3>2. orders'[o].by = r /\ orders[o].by = None
      BY <1>1, <1>5
    <3>3. QED
      BY <3>2, Constants
  <2>2. SumFunctionOnSet(Fee', PaidBy(r)') <= Pays[r].amount
    BY <2>1, OrderPaid DEF OrderInv, FeesInv
  <2>3. Fee' = Ledger!Fee
    BY <1>2, <1>5, <1>6, BillsFacts DEF Fee, Ledger!Fee
  <2>4. QED
    BY <1>8, <2>2, <2>3
<1>11. UNCHANGED <<credited, refunds>>
  BY DEF UpdateOrderPay, ever
<1>12. {Bills[o].item : o \in ids} = Named(r) /\ \A o \in ids : Bills[o].cur = Pays[r].symbol
  <2>1. \A o \in ids : Bills[o].item = orders[o].item /\ Bills[o].cur = orders[o].cur
    BY <1>1, BillsFacts
  <2>2. QED
    BY <1>3, <1>4, <2>1
<1>13. Ledger!Buy(r, ids)
  <2>1. Ledger!Incoming = Receipts
    BY DEF Ledger!Incoming
  <2>2. Ledger!Decide(r, "unspent", "spent")
    BY <1>0 DEF Ledger!Decide
  <2>3. \A q \in Receipts : Purchases[q] \cap ids = {}
    BY <1>7 DEF Purchases
  <2>4. QED
    BY <1>1, <1>6, <1>9, <1>10, <1>11, <1>12, <2>1, <2>2, <2>3
    DEF Ledger!Buy, SumFunctionOnSet, Ledger!SumFunctionOnSet, FoldFunctionOnSet,
        Ledger!FoldFunctionOnSet, MapThenFoldSet, Ledger!MapThenFoldSet
<1>14. QED
  BY <1>0, <1>1, <1>6, <1>13

\* Every step of the handlers, the subscription and the jobs is a step of
\* Settlement or none.
LEMMA SettlementStep ==
  ASSUME TypeInv, TypeInv', ReceiptInv, OrderInv, DepositInv, WantInv, [Next]_vars
  PROVE  [Ledger!Next]_(Ledger!settlement)
<1> USE DEF db, store, ever, jobs, clock
<1>t. /\ status \in [Receipts -> Statuses \cup {None}] /\ credited \in [Receipts -> Nat]
      /\ refunds \in [Receipts -> Nat]
      /\ merge.pc \notin {"idle", "next"} => merge.rpt \in Receipts
      /\ refund.pc \in {"transfer", "err"} => refund.rpt \in Receipts
  BY DEF TypeInv, TypeOK, TablesType, EverType, MergeLocals, RefundLocals
<1>i. Ledger!Incoming = Receipts
  BY DEF Ledger!Incoming
<1>u. UNCHANGED orders => UNCHANGED <<Bills, Purchases>>
  BY DEF Bills, Purchases, PaidBy
<1>0. ASSUME UNCHANGED <<Bills, Purchases, status, credited, refunds>>
      PROVE  UNCHANGED Ledger!settlement
  BY <1>0 DEF Ledger!settlement
<1>d. ASSUME NEW r \in Receipts, NEW to, status' = [status EXCEPT ![r] = to],
             UNCHANGED <<orders, credited, refunds>>,
             \/ status[r] = None /\ to = "unspent"
             \/ status[r] = "unspent" /\ to = "spent" /\ credited[r] > 0
             \/ status[r] = "unspent" /\ to = "unrefund" /\ credited[r] = 0
             \/ status[r] = "unrefund" /\ to = "refunded"
             \/ status[r] = "refunded" /\ to = "refundErr"
      PROVE  Ledger!Next
  <2>1. UNCHANGED <<Bills, Purchases>>
    BY <1>d, <1>u
  <2>2. Ledger!Receive(r) \/ Ledger!Close(r) \/ Ledger!Reject(r) \/ Ledger!Announce(r) \/ Ledger!Doubt(r)
    BY <1>d, <2>1
    DEF Ledger!Receive, Ledger!Close, Ledger!Reject, Ledger!Announce, Ledger!Doubt, Ledger!Decide
  <2>3. QED
    BY <1>i, <2>2 DEF Ledger!Next
<1>s. ASSUME NEW r \in Receipts, NEW to, Settle(r, to), status[r] = "unspent",
             UNCHANGED <<orders, credited, refunds>>,
             \/ to = "spent" /\ credited[r] > 0
             \/ to = "unrefund" /\ ~Deposit(r)
      PROVE  [Ledger!Next]_(Ledger!settlement)
  <2>1. ~Deposit(r) => credited[r] = 0
    BY <1>t DEF DepositInv
  <2>2. QED
    BY <1>0, <1>d, <1>s, <1>u, <2>1 DEF Settle
<1>1. ASSUME NEW r \in Receipts, MergePick(r) PROVE [Ledger!Next]_(Ledger!settlement)
  <2>1. CASE UNCHANGED status
    BY <1>0, <1>1, <1>u, <2>1 DEF MergePick
  <2>2. CASE status' # status
    <3>1. /\ Settle(r, "unrefund") /\ ~Deposit(r) /\ r \in merge.todo
          /\ UNCHANGED <<orders, credited, refunds>>
      BY <1>1, <2>2 DEF MergePick, Deposit
    <3>2. QED
      BY <1>s, <3>1 DEF ReceiptInv
  <2>3. QED
    BY <2>1, <2>2
<1>2. CASE GetUnPaidOrder
  <2>1. /\ merge.rpt \in Receipts /\ status[merge.rpt] = "unspent" /\ ~Deposit(merge.rpt)
        /\ UNCHANGED <<orders, credited, refunds>>
    BY <1>2, <1>t DEF GetUnPaidOrder, ReceiptInv, DepositInv, Deposit
  <2>2. UNCHANGED status \/ Settle(merge.rpt, "unrefund")
    BY <1>2 DEF GetUnPaidOrder
  <2>3. QED
    BY <1>0, <1>s, <1>u, <2>1, <2>2
<1>3. CASE UpdateOrderPay
  <2>1. /\ merge.rpt \in Receipts /\ status[merge.rpt] = "unspent" /\ ~Deposit(merge.rpt)
        /\ UNCHANGED <<credited, refunds>>
    BY <1>3, <1>t DEF UpdateOrderPay, ReceiptInv, DepositInv, Deposit
  <2>2. CASE UNCHANGED orders /\ (UNCHANGED status \/ Settle(merge.rpt, "unrefund"))
    BY <1>0, <1>s, <1>u, <2>1, <2>2
  <2>3. CASE ~(UNCHANGED orders /\ (UNCHANGED status \/ Settle(merge.rpt, "unrefund")))
    <3>1. \E S \in SUBSET (DOMAIN Bills) : Ledger!Buy(merge.rpt, S)
      BY <1>3, <2>3, OrdersBought DEF UpdateOrderPay
    <3>2. QED
      BY <1>i, <2>1, <3>1 DEF Ledger!Next
  <2>4. QED
    BY <2>2, <2>3
<1>4. CASE KeyWrite
  <2>1. CASE UNCHANGED credited
    BY <1>0, <1>4, <1>u, <2>1 DEF KeyWrite
  <2>2. CASE credited' # credited
    <3>1. PICK r \in Receipts : r = merge.rpt
      BY <1>4, <1>t DEF KeyWrite
    <3>2. /\ Deposit(r) /\ status[r] = "unspent" /\ credited' = [credited EXCEPT ![r] = @ + 1]
          /\ UNCHANGED <<orders, status, refunds>>
      BY <1>4, <2>2, <3>1 DEF KeyWrite, ReceiptInv, DepositInv
    <3>3. Ledger!Credit(r)
      BY <1>u, <3>2 DEF Ledger!Credit
    <3>4. QED
      BY <1>i, <3>3 DEF Ledger!Next
  <2>3. QED
    BY <2>1, <2>2
<1>5. CASE KeySpent
  <2>1. /\ merge.rpt \in Receipts /\ status[merge.rpt] = "unspent" /\ credited[merge.rpt] > 0
        /\ Settle(merge.rpt, "spent") /\ UNCHANGED <<orders, credited, refunds>>
    BY <1>5, <1>t DEF KeySpent, ReceiptInv, DepositInv
  <2>2. QED
    BY <1>s, <2>1
<1>6. CASE WatchReceipt
  <2>1. CASE UNCHANGED status
    BY <1>0, <1>6, <1>u, <2>1 DEF WatchReceipt
  <2>2. CASE status' # status
    <3>1. /\ status[cursor + 1] = None /\ status' = [status EXCEPT ![cursor + 1] = "unspent"]
          /\ UNCHANGED <<orders, credited, refunds>>
      BY <1>6, <2>2 DEF WatchReceipt
    <3>2. cursor + 1 \in Receipts
      BY <1>6 DEF WatchReceipt, TypeInv, TypeOK, EverType, Receipts
    <3>3. QED
      BY <1>d, <3>1, <3>2
  <2>3. QED
    BY <2>1, <2>2
<1>7. ASSUME NEW r \in Receipts, RefundMark(r) PROVE [Ledger!Next]_(Ledger!settlement)
  BY <1>0, <1>d, <1>u, <1>7 DEF RefundMark, ReceiptInv
<1>8. CASE RefundTransfer
  <2>1. CASE UNCHANGED refunds
    BY <1>0, <1>8, <1>u, <2>1 DEF RefundTransfer
  <2>2. CASE refunds' # refunds
    <3>1. PICK r \in Receipts : r = refund.rpt
      BY <1>8, <1>t DEF RefundTransfer
    <3>2. /\ refunds' = [refunds EXCEPT ![r] = @ + 1] /\ UNCHANGED <<orders, status, credited>>
          /\ status[r] = "refunded" /\ refunds[r] = 0
      BY <1>8, <2>2, <3>1 DEF RefundTransfer, ReceiptInv
    <3>3. refunds' = [refunds EXCEPT ![r] = 1]
      BY <1>t, <3>2
    <3>4. Ledger!SendBack(r)
      BY <1>u, <3>2, <3>3 DEF Ledger!SendBack
    <3>5. QED
      BY <1>i, <3>4 DEF Ledger!Next
  <2>3. QED
    BY <2>1, <2>2
<1>9. CASE UpdateRefundErr
  <2>1. refund.rpt \in Receipts /\ status[refund.rpt] = "refunded"
    BY <1>9, <1>t DEF UpdateRefundErr, ReceiptInv
  <2>2. QED
    BY <1>0, <1>d, <1>u, <1>9, <2>1 DEF UpdateRefundErr
<1>10. ASSUME NEW s \in Subs, InsertOrder(s) PROVE [Ledger!Next]_(Ledger!settlement)
  <2>1. CASE UNCHANGED orders
    BY <1>0, <1>10, <1>u, <2>1 DEF InsertOrder
  <2>2. CASE orders' # orders
    BY <1>10, <2>2, OrderOpened DEF Ledger!Next
  <2>3. QED
    BY <2>1, <2>2
<1>11. ASSUME NEW o \in DOMAIN orders, ExpireMark(o) PROVE UNCHANGED Ledger!settlement
  <2>1. CASE UNCHANGED orders
    BY <1>0, <1>11, <1>u, <2>1 DEF ExpireMark
  <2>2. CASE orders' # orders
    <3>1. orders' = [orders EXCEPT ![o] = [orders[o] EXCEPT !.pay = "expired", !.chain = "failed"]]
      BY <1>11, <2>2 DEF ExpireMark
    <3>2. orders[o] \in Order /\ orders \in Seq(Order)
      BY OrderTypes DEF TypeInv, TypeOK, TablesType
    <3>3. /\ DOMAIN orders' = DOMAIN orders
          /\ orders'[o].item = orders[o].item /\ orders'[o].fee = orders[o].fee
          /\ orders'[o].cur = orders[o].cur /\ orders'[o].by = orders[o].by
          /\ \A p \in DOMAIN orders \ {o} : orders'[p] = orders[p]
      BY <3>1, <3>2 DEF Order
    <3>4. UNCHANGED <<Bills, Purchases>>
      BY <3>3, BillsFrame
    <3>5. QED
      BY <1>0, <1>11, <3>4 DEF ExpireMark
  <2>3. QED
    BY <2>1, <2>2
<1>12. CASE UNCHANGED <<orders, status, credited, refunds>>
  BY <1>0, <1>12, <1>u
<1>13. QED
  <2>1. ASSUME NEW s \in Subs, Handler(s) PROVE [Ledger!Next]_(Ledger!settlement)
    BY <1>10, <1>12, <2>1
    DEF Handler, SpendRead, SpendWrite, Exist, SaveItemBinary, SaveItemMeta, UndoSave
  <2>2. CASE \/ \E s \in Subs, i \in Items, c \in Symbols, a \in Addrs \cup {None} : Submit(s, i, c, a)
             \/ \E i \in Items : SetManifest(i)
             \/ UserPays \/ Tick \/ DayPasses \/ Restart \/ UNCHANGED vars
    BY <1>12, <2>2 DEF Submit, SetManifest, UserPays, Tick, DayPasses, Restart, vars
  <2>3. CASE Merge
    BY <1>1, <1>2, <1>3, <1>4, <1>5, <1>12, <2>3 DEF Merge, MergeBegin, KeyRead
  <2>4. CASE RefundJob
    BY <1>7, <1>8, <1>9, <1>12, <2>4 DEF RefundJob, RefundBegin
  <2>5. CASE ExpireJob
    BY <1>11, <1>12, <2>5 DEF ExpireJob, ExpireBegin, ExpireCheck, ExpireDelete, ExpireFails
  <2>6. QED
    BY <1>6, <2>1, <2>2, <2>3, <2>4, <2>5 DEF Next, SubmitItem, SubmitNativeData

\* The handlers, the subscription and the jobs implement Settlement: a payment
\* buys an order of every item it names, at once, for no more than it brought
\* and none that another payment bought, or is credited, or is sent back once.
THEOREM PaymentsSettle == Spec => ImplementsSettlement
<1>1. Init => WantInv /\ Ledger!Init
  <2> SUFFICES ASSUME Init PROVE WantInv /\ Ledger!Init
    OBVIOUS
  <2>1. WantInv
    BY DEF Init, WantInv, IdleMerge
  <2>2. DOMAIN orders = {} /\ Bills = <<>>
    BY DEF Init, Bills
  <2>3. Purchases = [r \in Receipts |-> {}]
    BY <2>2 DEF Purchases, PaidBy
  <2>4. QED
    BY <2>1, <2>2, <2>3 DEF Init, Ledger!Init, Ledger!Incoming
<1>2. TypeInv /\ TypeInv' /\ ReceiptInv /\ OrderInv /\ DepositInv /\ WantInv /\ [Next]_vars
        => [Ledger!Next]_(Ledger!settlement)
  BY SettlementStep
<1>3. QED
  BY <1>1, <1>2, WantStep, OrderInvariant, DepositInvariant, PTL
  DEF Spec, ImplementsSettlement, Ledger!Spec
=============================================================================
