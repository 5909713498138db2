---------------------------- MODULE OnChainProofs ---------------------------
(***************************************************************************)
(* Theorems about OnChain, for every set of items, every bundle size, any  *)
(* number of orders, transactions, drops, failures and crashes.            *)
(***************************************************************************)
EXTENDS OnChain, SumTheorems, SequenceTheorems

-----------------------------------------------------------------------------
(***************************************************************************)
(* Sequences and least elements.                                           *)
(***************************************************************************)
LEMMA MinOfIds ==
  ASSUME NEW T \in SUBSET Nat, T # {}
  PROVE  Min(T) \in T /\ \A y \in T : Min(T) <= y
<1>1. \E x \in T : \A y \in T : x <= y
  BY LeastNatural
<1>2. QED
  BY <1>1 DEF Min

LEMMA NumberFacts ==
  MaxPerOnChainSize \in Nat /\ MaxFaults \in Nat /\ \A i \in Items : Size[i] \in Nat
<1>1. MaxPerOnChainSize \in Nat /\ MaxFaults \in Nat
  BY ConstantsAssumption
<1>2. Size \in [Items -> Nat]
  BY ConstantsAssumption
<1>3. QED
  BY <1>1, <1>2

LEMMA SeqFacts ==
  ASSUME NEW S, NEW s \in Seq(S)
  PROVE  /\ Len(s) \in Nat /\ DOMAIN s \subseteq Nat
         /\ Len(s) + 1 \in Nat /\ Len(s) + 1 \notin DOMAIN s
         /\ \A n \in DOMAIN s : s[n] \in S /\ n <= Len(s)
         /\ Range(s) \subseteq S
<1>1. \A n \in DOMAIN s : s[n] \in S /\ n <= Len(s)
  OBVIOUS
<1>2. QED
  BY <1>1 DEF Range

LEMMA AppendFacts ==
  ASSUME NEW S, NEW s \in Seq(S), NEW e \in S
  PROVE  /\ Append(s, e) \in Seq(S)
         /\ DOMAIN Append(s, e) = DOMAIN s \cup {Len(s) + 1}
         /\ Append(s, e)[Len(s) + 1] = e
         /\ \A n \in DOMAIN s : Append(s, e)[n] = s[n]
         /\ Range(Append(s, e)) = Range(s) \cup {e}
<1>1. /\ Append(s, e) \in Seq(S)
      /\ DOMAIN Append(s, e) = DOMAIN s \cup {Len(s) + 1}
      /\ Append(s, e)[Len(s) + 1] = e
      /\ \A n \in DOMAIN s : Append(s, e)[n] = s[n]
  OBVIOUS
<1>2. QED
  BY <1>1 DEF Range

\* A function on the positions of a sequence is one.
LEMMA SameShape ==
  ASSUME NEW S, NEW s \in Seq(S), NEW t \in [DOMAIN s -> S]
  PROVE  t \in Seq(S) /\ Len(t) = Len(s)
<1>1. DOMAIN s = 1..Len(s) /\ Len(s) \in Nat
  BY LenProperties
<1>2. t \in Seq(S)
  BY <1>1, SeqDef
<1>3. DOMAIN t = 1..Len(t) /\ Len(t) \in Nat
  BY <1>2, LenProperties
<1>4. QED
  BY <1>1, <1>2, <1>3

LEMMA TailFacts ==
  ASSUME NEW S, NEW s \in Seq(S), s # <<>>
  PROVE  /\ Head(s) \in Range(s) /\ Tail(s) \in Seq(S)
         /\ Range(Tail(s)) \subseteq Range(s)
         /\ (Len(s) # 1 => Tail(s) # <<>>)
<1>1. Tail(s) \in Seq(S) /\ Len(Tail(s)) = Len(s) - 1
      /\ \A n \in 1..Len(Tail(s)) : Tail(s)[n] = s[n + 1]
  BY HeadTailProperties
<1>2. Len(s) \in Nat /\ Len(s) # 0
  BY EmptySeq
<1>3. Head(s) \in Range(s)
  <2>1. 1 \in DOMAIN s /\ Head(s) = s[1]
    BY <1>2
  <2>2. QED
    BY <2>1 DEF Range
<1>4. Range(Tail(s)) \subseteq Range(s)
  <2> SUFFICES ASSUME NEW n \in DOMAIN Tail(s) PROVE Tail(s)[n] \in Range(s)
    BY DEF Range
  <2>1. n \in 1..Len(Tail(s)) /\ n + 1 \in DOMAIN s
    BY <1>1, <1>2
  <2>2. QED
    BY <1>1, <2>1 DEF Range
<1>5. QED
  BY <1>1, <1>2, <1>3, <1>4

-----------------------------------------------------------------------------
(***************************************************************************)
(* Types.  Identifiers are references: to orders, rows and transactions    *)
(* that exist.                                                             *)
(***************************************************************************)
Order == [item: Items, sort: BOOLEAN, chain: Chain]
ArTx == [ar: Nat, items: Seq(Items), late: BOOLEAN, status: {"pending", "success", "failed"}]
Sent == [items: Seq(Items), st: {"sent", "confirmed", "dropped"}]
Local == [pc: {"idle", "collect", "copy", "send", "wait", "insert", "update"},
          todo: SUBSET Nat, items: Seq(Items), size: Nat, copy: Chain \cup {None},
          ar: Nat \cup {None}]
Seen == [row: Nat, ar: Nat, items: Seq(Items)]
RetryLocal == [pc: {"idle", "send", "update"}, todo: SUBSET Nat, ar: Nat \cup {None}]

TablesInv ==
  /\ orders \in Seq(Order) /\ rows \in Seq(ArTx) /\ net \in Seq(Sent) /\ blocks \in Seq(Nat)
  /\ \A n \in DOMAIN rows : rows[n].ar \in DOMAIN net
  /\ \A b \in DOMAIN blocks : blocks[b] \in DOMAIN net

CountersInv ==
  /\ drops \in 0..MaxDrops /\ faults \in 0..MaxFaults /\ crashes \in 0..MaxCrashes

\* The locals of a bundling job, in a state with the orders D and the
\* transactions N.
LocalOK(l, D, N) ==
  /\ l \in Local
  /\ l.todo \subseteq D /\ l.ar \in N \cup {None}
  /\ l.pc \in {"collect", "copy"} => l.todo # {}
  /\ l.pc = "copy" => l.copy \in Chain
  /\ l.pc \in {"wait", "insert", "update"} => l.ar \in N
  /\ l.pc = "update" => l.items # <<>>

JobsInv ==
  /\ job = [j \in Jobs |-> job[j]]
  /\ \A j \in Jobs : LocalOK(job[j], DOMAIN orders, DOMAIN net)

WatchInv ==
  /\ watch \subseteq Seen
  /\ \A w \in watch : w.row \in DOMAIN rows /\ w.ar \in DOMAIN net

RetryInv ==
  /\ retry \in RetryLocal
  /\ retry.todo \subseteq DOMAIN rows /\ retry.ar \in DOMAIN net \cup {None}
  /\ retry.pc # "idle" => retry.todo # {}
  /\ retry.pc = "update" => retry.ar \in DOMAIN net

TypeInv == TablesInv /\ CountersInv /\ JobsInv /\ WatchInv /\ RetryInv

LEMMA TableFacts ==
  ASSUME TablesInv
  PROVE  /\ \A o \in DOMAIN orders : o \in Nat /\ orders[o] \in Order
         /\ \A n \in DOMAIN rows : n \in Nat /\ rows[n] \in ArTx
         /\ \A n \in DOMAIN net : n \in Nat /\ net[n] \in Sent
         /\ \A b \in DOMAIN blocks : b \in Nat /\ blocks[b] \in Nat
         /\ Len(net) + 1 \in Nat /\ Len(net) + 1 \notin DOMAIN net
  BY SeqFacts DEF TablesInv

\* Nothing is deleted, and an order, a row or a transaction keeps its items.
OrdersGrow ==
  /\ DOMAIN orders \subseteq DOMAIN orders'
  /\ \A o \in DOMAIN orders :
       orders'[o].item = orders[o].item /\ orders'[o].sort = orders[o].sort

RowsGrow ==
  /\ DOMAIN rows \subseteq DOMAIN rows'
  /\ \A n \in DOMAIN rows : rows'[n].items = rows[n].items

NetGrows ==
  /\ DOMAIN net \subseteq DOMAIN net'
  /\ \A n \in DOMAIN net :
       /\ net'[n].items = net[n].items
       /\ net[n].st = "confirmed" => net'[n].st = "confirmed"

BlocksGrow ==
  /\ DOMAIN blocks \subseteq DOMAIN blocks'
  /\ \A b \in DOMAIN blocks : blocks'[b] = blocks[b]

Grow == OrdersGrow /\ RowsGrow /\ NetGrows /\ BlocksGrow

-----------------------------------------------------------------------------
(***************************************************************************)
(* What the helpers do to the tables.                                      *)
(***************************************************************************)
LEMMA OrdersUpdated ==
  ASSUME TablesInv, NEW is, NEW st \in Chain, UpdateOrdOnChainStatus(is, st)
  PROVE  /\ orders' \in Seq(Order) /\ DOMAIN orders' = DOMAIN orders /\ OrdersGrow
         /\ \A o \in DOMAIN orders :
              orders'[o].chain = IF orders[o].item \in is THEN st ELSE orders[o].chain
<1>1. \A o \in DOMAIN orders : orders[o] \in Order
  BY TableFacts
<1>2. \A o \in DOMAIN orders :
        orders'[o] = IF orders[o].item \in is THEN [orders[o] EXCEPT !.chain = st] ELSE orders[o]
  BY DEF UpdateOrdOnChainStatus
<1>3. \A o \in DOMAIN orders :
        /\ orders'[o] \in Order
        /\ orders'[o].item = orders[o].item /\ orders'[o].sort = orders[o].sort
        /\ orders'[o].chain = IF orders[o].item \in is THEN st ELSE orders[o].chain
  BY <1>1, <1>2 DEF Order
<1>4. orders' \in [DOMAIN orders -> Order]
  BY <1>3 DEF UpdateOrdOnChainStatus
<1>5. orders' \in Seq(Order)
  BY <1>4, SameShape DEF TablesInv
<1>6. QED
  BY <1>3, <1>4, <1>5 DEF OrdersGrow

LEMMA RowsUpdated ==
  ASSUME TablesInv, NEW ar, NEW st \in {"success", "failed"}, UpdateArTxStatus(ar, st)
  PROVE  /\ rows' \in Seq(ArTx) /\ DOMAIN rows' = DOMAIN rows /\ RowsGrow
         /\ \A n \in DOMAIN rows :
              /\ rows'[n].ar = rows[n].ar
              /\ rows'[n].status = IF rows[n].ar = ar THEN st ELSE rows[n].status
<1>1. \A n \in DOMAIN rows : rows[n] \in ArTx
  BY TableFacts
<1>2. \A n \in DOMAIN rows :
        rows'[n] = IF rows[n].ar = ar THEN [rows[n] EXCEPT !.status = st] ELSE rows[n]
  BY DEF UpdateArTxStatus
<1>3. \A n \in DOMAIN rows :
        /\ rows'[n] \in ArTx /\ rows'[n].items = rows[n].items /\ rows'[n].ar = rows[n].ar
        /\ rows'[n].status = IF rows[n].ar = ar THEN st ELSE rows[n].status
  BY <1>1, <1>2 DEF ArTx
<1>4. rows' \in [DOMAIN rows -> ArTx]
  BY <1>3 DEF UpdateArTxStatus
<1>5. rows' \in Seq(ArTx)
  BY <1>4, SameShape DEF TablesInv
<1>6. QED
  BY <1>3, <1>4, <1>5 DEF RowsGrow

\* One row or transaction is replaced.
LEMMA RowReplaced ==
  ASSUME TablesInv, NEW n \in DOMAIN rows, NEW r \in ArTx, r.items = rows[n].items,
         rows' = [rows EXCEPT ![n] = r]
  PROVE  /\ rows' \in Seq(ArTx) /\ DOMAIN rows' = DOMAIN rows /\ RowsGrow
         /\ rows'[n] = r /\ \A m \in DOMAIN rows \ {n} : rows'[m] = rows[m]
<1>1. /\ rows' \in [DOMAIN rows -> ArTx]
      /\ rows'[n] = r /\ \A m \in DOMAIN rows \ {n} : rows'[m] = rows[m]
  BY TableFacts
<1>2. rows' \in Seq(ArTx)
  BY <1>1, SameShape DEF TablesInv
<1>3. QED
  BY <1>1, <1>2 DEF RowsGrow

LEMMA TxReplaced ==
  ASSUME TablesInv, NEW n \in DOMAIN net, NEW st \in {"confirmed", "dropped"},
         net[n].st = "sent", net' = [net EXCEPT ![n].st = st]
  PROVE  /\ net' \in Seq(Sent) /\ DOMAIN net' = DOMAIN net /\ NetGrows
         /\ net'[n].st = st /\ \A m \in DOMAIN net \ {n} : net'[m] = net[m]
<1>0. net[n] \in Sent
  BY TableFacts
<1>1. PICK x : x = [net[n] EXCEPT !.st = st]
  OBVIOUS
<1>2. x \in Sent /\ x.items = net[n].items /\ x.st = st
  BY <1>0, <1>1 DEF Sent
<1>3. /\ net' \in [DOMAIN net -> Sent]
      /\ net'[n] = x /\ \A m \in DOMAIN net \ {n} : net'[m] = net[m]
  BY <1>1, <1>2, TableFacts
<1>4. net' \in Seq(Sent)
  BY <1>3, SameShape DEF TablesInv
<1>5. QED
  BY <1>2, <1>3, <1>4 DEF NetGrows

LEMMA WithoutType ==
  ASSUME NEW is \in Seq(Items), NEW n \in DOMAIN is
  PROVE  Without(is, n) \in Seq(Items)
<1>1. Len(is) \in Nat /\ n \in Nat /\ n <= Len(is) /\ n >= 1
  OBVIOUS
<1>2. SubSeq(is, 1, n - 1) \in Seq(Items) /\ SubSeq(is, n + 1, Len(is)) \in Seq(Items)
  <2>1. \A i \in 1..(n - 1) : is[i] \in Items
    BY <1>1
  <2>2. \A i \in (n + 1)..Len(is) : is[i] \in Items
    BY <1>1
  <2>3. n - 1 \in Int /\ n + 1 \in Int /\ 1 \in Int /\ Len(is) \in Int
    BY <1>1
  <2>4. QED
    BY <2>1, <2>2, <2>3, SubSeqProperties
<1>3. QED
  BY <1>2, ConcatProperties DEF Without

\* A bundle holds the items it was asked for, but for one that did not load.
LEMMA OutcomeType ==
  ASSUME NEW is \in Seq(Items), NEW o \in Outcomes(is)
  PROVE  /\ o.items \in Seq(Items) /\ o.ok \in BOOLEAN /\ o.arrived \in BOOLEAN
         /\ o.fault \in {0, 1}
         /\ o.ok => o.arrived
         /\ "load" \notin Failing => o.items = is
<1>1. CASE o = Outcome(TRUE, is, TRUE, 0)
  BY <1>1 DEF Outcome
<1>2. CASE "load" \in Failing /\ \E n \in DOMAIN is : o = Outcome(TRUE, Without(is, n), TRUE, 1)
  BY <1>2, WithoutType DEF Outcome
<1>3. CASE o = Outcome(FALSE, is, FALSE, 0)
  BY <1>3 DEF Outcome
<1>4. CASE \E a \in BOOLEAN : o = Outcome(FALSE, is, a, 1)
  BY <1>4 DEF Outcome
<1>5. QED
  BY <1>1, <1>2, <1>3, <1>4 DEF Outcomes

LEMMA TxSent ==
  ASSUME TablesInv, CountersInv, NEW is \in Seq(Items), NEW o \in Outcomes(is),
         onChainBundleTx(o)
  PROVE  /\ net' \in Seq(Sent) /\ NetGrows /\ faults' \in 0..MaxFaults
         /\ \A n \in DOMAIN net' : n \in DOMAIN net \/ net'[n].items = o.items
         /\ \A n \in DOMAIN net' : net'[n].st = "confirmed" => n \in DOMAIN net /\ net'[n] = net[n]
         /\ o.ok => Len(net) + 1 \in DOMAIN net' /\ net'[Len(net) + 1].items = o.items
<1>0. /\ o.items \in Seq(Items) /\ o.ok \in BOOLEAN /\ o.arrived \in BOOLEAN
      /\ o.fault \in {0, 1} /\ (o.ok => o.arrived)
  BY OutcomeType
<1>1. faults' \in 0..MaxFaults
  <2>1. faults \in Nat
    BY NumberFacts DEF CountersInv
  <2>2. faults' = faults + o.fault /\ faults + o.fault <= MaxFaults
    BY DEF onChainBundleTx
  <2>3. QED
    BY <1>0, <2>1, <2>2, NumberFacts
<1>2. CASE ~o.arrived
  BY <1>0, <1>1, <1>2 DEF onChainBundleTx, TablesInv, NetGrows
<1>3. CASE o.arrived
  <2>1. PICK x : x = [items |-> o.items, st |-> "sent"]
    OBVIOUS
  <2>2. x \in Sent /\ x.items = o.items /\ x.st = "sent" /\ net' = Append(net, x)
    BY <1>0, <1>3, <2>1 DEF Sent, onChainBundleTx
  <2>3. /\ net' \in Seq(Sent) /\ DOMAIN net' = DOMAIN net \cup {Len(net) + 1}
        /\ net'[Len(net) + 1] = x /\ \A n \in DOMAIN net : net'[n] = net[n]
    BY <2>2, AppendFacts DEF TablesInv
  <2>4. QED
    BY <1>1, <2>2, <2>3 DEF NetGrows
<1>4. QED
  BY <1>0, <1>2, <1>3

LEMMA FaultCounted ==
  ASSUME CountersInv, NEW call, Fault(call)
  PROVE  faults' \in 0..MaxFaults
  BY ConstantsAssumption DEF CountersInv, Fault

-----------------------------------------------------------------------------
(***************************************************************************)
(* What each step does to the tables.                                      *)
(***************************************************************************)

\* The order, and the failed row, a job is about.
LEMMA CurrentOrder ==
  ASSUME TypeInv, NEW j \in Jobs, job[j].todo # {}
  PROVE  /\ Min(job[j].todo) \in job[j].todo /\ Min(job[j].todo) \in DOMAIN orders
         /\ \A o \in job[j].todo : Min(job[j].todo) <= o
         /\ orders[Min(job[j].todo)].item \in Items
<1>1. job[j].todo \in SUBSET Nat /\ job[j].todo \subseteq DOMAIN orders
  BY DEF TypeInv, JobsInv, LocalOK, Local
<1>2. Min(job[j].todo) \in job[j].todo /\ \A o \in job[j].todo : Min(job[j].todo) <= o
  BY <1>1, MinOfIds
<1>3. orders[Min(job[j].todo)] \in Order
  BY <1>1, <1>2, TableFacts DEF TypeInv
<1>4. QED
  BY <1>1, <1>2, <1>3 DEF Order

LEMMA CurrentRow ==
  ASSUME TypeInv, retry.todo # {}
  PROVE  /\ Min(retry.todo) \in retry.todo /\ Min(retry.todo) \in DOMAIN rows
         /\ rows[Min(retry.todo)] \in ArTx /\ rows[Min(retry.todo)].items \in Seq(Items)
<1>1. retry.todo \in SUBSET Nat /\ retry.todo \subseteq DOMAIN rows
  BY DEF TypeInv, RetryInv, RetryLocal
<1>2. Min(retry.todo) \in retry.todo
  BY <1>1, MinOfIds
<1>3. rows[Min(retry.todo)] \in ArTx
  BY <1>1, <1>2, TableFacts DEF TypeInv
<1>4. QED
  BY <1>1, <1>2, <1>3 DEF ArTx

LEMMA TablesStep ==
  ASSUME TypeInv, [Next]_vars
  PROVE  TablesInv' /\ CountersInv' /\ Grow
<1> USE DEF Grow
<1>0. TablesInv /\ CountersInv
  BY DEF TypeInv
<1>f. ASSUME orders' = orders PROVE OrdersGrow
  BY <1>f DEF OrdersGrow
<1>g. ASSUME rows' = rows PROVE RowsGrow
  BY <1>g DEF RowsGrow
<1>h. ASSUME net' = net PROVE NetGrows
  BY <1>h DEF NetGrows
<1>i. ASSUME blocks' = blocks PROVE BlocksGrow
  BY <1>i DEF BlocksGrow
<1>1. ASSUME NEW i \in Items, NEW sort \in BOOLEAN, OpenOrder(i, sort)
      PROVE  TablesInv' /\ CountersInv' /\ Grow
  <2>1. PICK x : x = [item |-> i, sort |-> sort, chain |-> "waiting"]
    OBVIOUS
  <2>2. x \in Order
    BY <2>1 DEF Order, Chain
  <2>3. orders' = Append(orders, x) /\ UNCHANGED <<rows, net, blocks, drops, faults, crashes>>
    BY <1>1, <2>1 DEF OpenOrder
  <2>4. /\ orders' \in Seq(Order) /\ DOMAIN orders' = DOMAIN orders \cup {Len(orders) + 1}
        /\ \A o \in DOMAIN orders : orders'[o] = orders[o]
    BY <1>0, <2>2, <2>3, AppendFacts DEF TablesInv
  <2>5. OrdersGrow
    BY <2>4 DEF OrdersGrow
  <2>6. QED
    BY <1>0, <1>g, <1>h, <1>i, <2>3, <2>4, <2>5 DEF TablesInv, CountersInv
<1>2. ASSUME NEW j \in Jobs, JobBegin(j) \/ Collect(j) PROVE TablesInv' /\ CountersInv' /\ Grow
  <2>1. UNCHANGED <<orders, rows, net, blocks, drops, faults, crashes>>
    BY <1>2 DEF JobBegin, Collect
  <2>2. QED
    BY <1>0, <1>f, <1>g, <1>h, <1>i, <2>1 DEF TablesInv, CountersInv
<1>3. ASSUME NEW j \in Jobs, NEW is, NEW st \in Chain,
             \/ UpdateOrdOnChainStatus(is, st) /\ UNCHANGED faults
             \/ Fault("table") /\ UNCHANGED orders,
             UNCHANGED <<rows, net, blocks, drops, crashes>>
      PROVE  TablesInv' /\ CountersInv' /\ Grow
  <2>1. orders' \in Seq(Order) /\ OrdersGrow
    BY <1>0, <1>3, <1>f, OrdersUpdated DEF TablesInv
  <2>2. CountersInv'
    BY <1>0, <1>3, FaultCounted DEF CountersInv
  <2>3. QED
    BY <1>0, <1>3, <1>g, <1>h, <1>i, <2>1, <2>2 DEF TablesInv
<1>4. ASSUME NEW j \in Jobs, Copy(j) PROVE TablesInv' /\ CountersInv' /\ Grow
  <2>1. job[j].copy \in Chain
    BY <1>4 DEF Copy, TypeInv, JobsInv, LocalOK
  <2>2. QED
    BY <1>3, <1>4, <2>1 DEF Copy
<1>5. ASSUME NEW j \in Jobs, Send(j) PROVE TablesInv' /\ CountersInv' /\ Grow
  <2>1. job[j].items \in Seq(Items)
    BY DEF TypeInv, JobsInv, LocalOK, Local
  <2>2. PICK o \in Outcomes(job[j].items) : onChainBundleTx(o)
    BY <1>5 DEF Send
  <2>3. UNCHANGED <<orders, rows, blocks, drops, crashes>>
    BY <1>5 DEF Send
  <2>4. net' \in Seq(Sent) /\ NetGrows /\ faults' \in 0..MaxFaults
    BY <1>0, <2>1, <2>2, TxSent
  <2>5. QED
    BY <1>0, <1>f, <1>g, <1>i, <2>3, <2>4 DEF TablesInv, CountersInv, NetGrows
<1>6. ASSUME NEW j \in Jobs, Wait(j) PROVE TablesInv' /\ CountersInv' /\ Grow
  <2>1. UNCHANGED <<orders, rows, net, blocks, drops, crashes>> /\ faults' \in 0..MaxFaults
    BY <1>0, <1>6, FaultCounted DEF Wait, CountersInv
  <2>2. QED
    BY <1>0, <1>f, <1>g, <1>h, <1>i, <2>1 DEF TablesInv, CountersInv
<1>7. ASSUME NEW j \in Jobs, InsertArTx(j) PROVE TablesInv' /\ CountersInv' /\ Grow
  <2>1. UNCHANGED <<orders, net, blocks, drops, crashes>> /\ faults' \in 0..MaxFaults
    BY <1>0, <1>7, FaultCounted DEF InsertArTx, CountersInv
  <2>2. job[j].items \in Seq(Items) /\ job[j].ar \in DOMAIN net /\ job[j].ar \in Nat
    BY <1>0, <1>7, TableFacts DEF InsertArTx, TypeInv, JobsInv, LocalOK, Local
  <2>3. PICK x : x = [ar |-> job[j].ar, items |-> job[j].items, late |-> FALSE,
                      status |-> "pending"]
    OBVIOUS
  <2>4. x \in ArTx /\ x.ar = job[j].ar
    BY <2>2, <2>3 DEF ArTx
  <2>5. rows' = rows \/ rows' = Append(rows, x)
    BY <1>7, <2>3 DEF InsertArTx
  <2>6. /\ rows' \in Seq(ArTx) /\ DOMAIN rows \subseteq DOMAIN rows'
        /\ \A n \in DOMAIN rows : rows'[n] = rows[n]
        /\ \A n \in DOMAIN rows' : n \in DOMAIN rows \/ rows'[n] = x
    <3>1. CASE rows' = rows
      BY <1>0, <3>1 DEF TablesInv
    <3>2. CASE rows' = Append(rows, x)
      <4>1. /\ rows' \in Seq(ArTx) /\ DOMAIN rows' = DOMAIN rows \cup {Len(rows) + 1}
            /\ rows'[Len(rows) + 1] = x /\ \A n \in DOMAIN rows : rows'[n] = rows[n]
        BY <1>0, <2>4, <3>2, AppendFacts DEF TablesInv
      <4>2. QED
        BY <4>1
    <3>3. QED
      BY <2>5, <3>1, <3>2
  <2>7. \A n \in DOMAIN rows' : rows'[n].ar \in DOMAIN net
    BY <1>0, <2>2, <2>4, <2>6 DEF TablesInv
  <2>8. QED
    BY <1>0, <1>f, <1>h, <1>i, <2>1, <2>6, <2>7 DEF TablesInv, CountersInv, RowsGrow
<1>8. ASSUME NEW j \in Jobs, UpdateOrders(j) PROVE TablesInv' /\ CountersInv' /\ Grow
  <2>1. (IF j = "plain" THEN "pending" ELSE "success") \in Chain
    BY DEF Chain
  <2>2. QED
    BY <1>3, <1>8, <2>1 DEF UpdateOrders
<1>9. CASE WatchBegin \/ RetryBegin \/ Restart
  <2>1. UNCHANGED <<orders, rows, net, blocks, drops, faults>>
        /\ crashes' \in 0..MaxCrashes
    BY <1>0, <1>9, ConstantsAssumption DEF WatchBegin, RetryBegin, Restart, CountersInv
  <2>2. QED
    BY <1>0, <1>f, <1>g, <1>h, <1>i, <2>1 DEF TablesInv, CountersInv
<1>10. ASSUME NEW w \in watch, WatchTx(w) PROVE TablesInv' /\ CountersInv' /\ Grow
  <2>1. UNCHANGED <<net, blocks, drops, crashes>> /\ faults' \in 0..MaxFaults
    BY <1>0, <1>10, FaultCounted DEF WatchTx, CountersInv
  <2>2. \/ orders' = orders
        \/ UpdateOrdOnChainStatus(Range(w.items), "success")
    BY <1>10 DEF WatchTx
  <2>3. \/ rows' = rows
        \/ \E st \in {"success", "failed"} : UpdateArTxStatus(w.ar, st)
    BY <1>10 DEF WatchTx
  <2>4. orders' \in Seq(Order) /\ OrdersGrow
    BY <1>0, <1>f, <2>2, OrdersUpdated DEF TablesInv, Chain
  <2>5. /\ rows' \in Seq(ArTx) /\ RowsGrow /\ DOMAIN rows' = DOMAIN rows
        /\ \A n \in DOMAIN rows : rows'[n].ar = rows[n].ar
    BY <1>0, <1>g, <2>3, RowsUpdated DEF TablesInv
  <2>6. QED
    BY <1>0, <1>h, <1>i, <2>1, <2>4, <2>5 DEF TablesInv, CountersInv
<1>11. CASE RetrySend
  <2>1. rows[Min(retry.todo)].items \in Seq(Items)
    BY <1>11, CurrentRow DEF RetrySend, TypeInv, RetryInv
  <2>2. PICK o \in Outcomes(rows[Min(retry.todo)].items) : onChainBundleTx(o)
    BY <1>11 DEF RetrySend
  <2>3. UNCHANGED <<orders, rows, blocks, drops, crashes>>
    BY <1>11 DEF RetrySend
  <2>4. net' \in Seq(Sent) /\ NetGrows /\ faults' \in 0..MaxFaults
    BY <1>0, <2>1, <2>2, TxSent
  <2>5. QED
    BY <1>0, <1>f, <1>g, <1>i, <2>3, <2>4 DEF TablesInv, CountersInv, NetGrows
<1>12. CASE UpdateArTx
  <2>0. UNCHANGED <<orders, net, blocks, drops, crashes>> /\ faults' \in 0..MaxFaults
    BY <1>0, <1>12, FaultCounted DEF UpdateArTx, CountersInv
  <2>1. PICK n : n = Min(retry.todo)
    OBVIOUS
  <2>2. n \in DOMAIN rows /\ rows[n] \in ArTx /\ retry.ar \in DOMAIN net
    BY <1>12, <2>1, CurrentRow DEF UpdateArTx, TypeInv, RetryInv
  <2>3. retry.ar \in Nat
    BY <1>0, <2>2, TableFacts
  <2>4. CASE rows' = rows
    BY <1>0, <1>f, <1>g, <1>h, <1>i, <2>0, <2>4 DEF TablesInv, CountersInv
  <2>5. CASE rows' = [rows EXCEPT ![n].ar = retry.ar, ![n].status = "pending", ![n].late = FALSE]
    <3>1. PICK r : r = [rows[n] EXCEPT !.ar = retry.ar, !.status = "pending", !.late = FALSE]
      OBVIOUS
    <3>2. r \in ArTx /\ r.items = rows[n].items /\ r.ar = retry.ar
      BY <2>2, <2>3, <3>1 DEF ArTx
    <3>3. rows' = [rows EXCEPT ![n] = r]
      BY <2>2, <2>5, <3>1 DEF ArTx
    <3>4. /\ rows' \in Seq(ArTx) /\ DOMAIN rows' = DOMAIN rows /\ RowsGrow
          /\ rows'[n] = r /\ \A m \in DOMAIN rows \ {n} : rows'[m] = rows[m]
      BY <1>0, <2>2, <3>2, <3>3, RowReplaced
    <3>5. QED
      BY <1>0, <1>f, <1>h, <1>i, <2>0, <2>2, <3>2, <3>4 DEF TablesInv, CountersInv
  <2>6. QED
    BY <1>12, <2>1, <2>4, <2>5 DEF UpdateArTx
<1>13. ASSUME NEW n \in DOMAIN net, Confirm(n) PROVE TablesInv' /\ CountersInv' /\ Grow
  <2>1. net[n].st = "sent" /\ net' = [net EXCEPT ![n].st = "confirmed"]
        /\ blocks' = Append(blocks, n) /\ UNCHANGED <<orders, rows, drops, faults, crashes>>
    BY <1>13 DEF Confirm
  <2>2. net' \in Seq(Sent) /\ DOMAIN net' = DOMAIN net /\ NetGrows
    BY <1>0, <2>1, TxReplaced
  <2>3. n \in Nat
    BY <1>0, TableFacts
  <2>4. /\ blocks' \in Seq(Nat) /\ DOMAIN blocks' = DOMAIN blocks \cup {Len(blocks) + 1}
        /\ blocks'[Len(blocks) + 1] = n /\ \A b \in DOMAIN blocks : blocks'[b] = blocks[b]
    <3>1. blocks \in Seq(Nat)
      BY <1>0 DEF TablesInv
    <3>2. PICK s : s = blocks /\ s \in Seq(Nat)
      BY <3>1
    <3>3. /\ Append(s, n) \in Seq(Nat) /\ DOMAIN Append(s, n) = DOMAIN s \cup {Len(s) + 1}
          /\ Append(s, n)[Len(s) + 1] = n /\ \A b \in DOMAIN s : Append(s, n)[b] = s[b]
      BY <2>3, <3>2, AppendFacts
    <3>4. QED
      BY <2>1, <3>2, <3>3
  <2>5. QED
    BY <1>0, <1>f, <1>g, <2>1, <2>2, <2>4 DEF TablesInv, CountersInv, BlocksGrow
<1>14. ASSUME NEW n \in DOMAIN net, Drop(n) PROVE TablesInv' /\ CountersInv' /\ Grow
  <2>1. net[n].st = "sent" /\ net' = [net EXCEPT ![n].st = "dropped"]
        /\ UNCHANGED <<orders, rows, blocks, faults, crashes>> /\ drops' \in 0..MaxDrops
    BY <1>0, <1>14, ConstantsAssumption DEF Drop, CountersInv
  <2>2. net' \in Seq(Sent) /\ DOMAIN net' = DOMAIN net /\ NetGrows
    BY <1>0, <2>1, TxReplaced
  <2>3. QED
    BY <1>0, <1>f, <1>g, <1>i, <2>1, <2>2 DEF TablesInv, CountersInv
<1>15. ASSUME NEW n \in DOMAIN rows, FiftyBlocks(n) PROVE TablesInv' /\ CountersInv' /\ Grow
  <2>1. rows[n] \in ArTx
    BY <1>0, TableFacts
  <2>2. PICK r : r = [rows[n] EXCEPT !.late = TRUE]
    OBVIOUS
  <2>3. r \in ArTx /\ r.items = rows[n].items /\ r.ar = rows[n].ar
    BY <2>1, <2>2 DEF ArTx
  <2>4. rows' = [rows EXCEPT ![n] = r] /\ UNCHANGED <<orders, net, blocks, drops, faults, crashes>>
    BY <1>15, <2>2 DEF FiftyBlocks
  <2>5. /\ rows' \in Seq(ArTx) /\ DOMAIN rows' = DOMAIN rows /\ RowsGrow
        /\ rows'[n] = r /\ \A m \in DOMAIN rows \ {n} : rows'[m] = rows[m]
    BY <1>0, <2>3, <2>4, RowReplaced
  <2>6. QED
    BY <1>0, <1>f, <1>h, <1>i, <2>3, <2>4, <2>5 DEF TablesInv, CountersInv
<1>16. CASE UNCHANGED vars
  BY <1>0, <1>f, <1>g, <1>h, <1>i, <1>16 DEF vars, TablesInv, CountersInv
<1>17. QED
  BY <1>1, <1>2, <1>4, <1>5, <1>6, <1>7, <1>8, <1>9, <1>10, <1>11, <1>12, <1>13, <1>14, <1>15,
     <1>16 DEF Next, JobStep, WatchStep, RetryStep

-----------------------------------------------------------------------------
(***************************************************************************)
(* What each step does to the locals.                                      *)
(***************************************************************************)
LEMMA IdleOK ==
  ASSUME NEW D, NEW N
  PROVE  LocalOK(IdleJob, D, N)
<1>1. <<>> \in Seq(Items) /\ 0 \in Nat /\ {} \in SUBSET Nat
  OBVIOUS
<1>2. QED
  BY <1>1 DEF LocalOK, Local, IdleJob

LEMMA JobsKept ==
  ASSUME JobsInv, Grow, UNCHANGED job
  PROVE  JobsInv'
  BY DEF JobsInv, Grow, OrdersGrow, NetGrows, LocalOK

LEMMA WatchKept ==
  ASSUME WatchInv, Grow, watch' \subseteq watch
  PROVE  WatchInv'
  BY DEF WatchInv, Grow, RowsGrow, NetGrows

LEMMA RetryKept ==
  ASSUME RetryInv, Grow, UNCHANGED retry
  PROVE  RetryInv'
  BY DEF RetryInv, Grow, RowsGrow, NetGrows

LEMMA JobSet ==
  ASSUME JobsInv, Grow, NEW j \in Jobs, NEW l, Set(j, l),
         LocalOK(l, DOMAIN orders', DOMAIN net')
  PROVE  /\ JobsInv' /\ job'[j] = l
         /\ \A k \in Jobs \ {j} : job'[k] = job[k]
<1>1. job'[j] = l /\ (\A k \in Jobs \ {j} : job'[k] = job[k]) /\ job' = [k \in Jobs |-> job'[k]]
  BY DEF Set, JobsInv
<1>2. \A k \in Jobs \ {j} : LocalOK(job'[k], DOMAIN orders', DOMAIN net')
  BY <1>1 DEF JobsInv, Grow, OrdersGrow, NetGrows, LocalOK
<1>3. QED
  BY <1>1, <1>2 DEF JobsInv

\* The fields NextOrder leaves alone and those it sets.
LEMMA NextOrderFacts ==
  ASSUME NEW l \in Local, l.todo # {}
  PROVE  /\ NextOrder(l) \in Local
         /\ NextOrder(l).todo = l.todo \ {Min(l.todo)} /\ NextOrder(l).copy = None
         /\ NextOrder(l).items = l.items /\ NextOrder(l).size = l.size /\ NextOrder(l).ar = l.ar
         /\ NextOrder(l).pc \in {"collect", "send"}
         /\ NextOrder(l).pc = "collect" => NextOrder(l).todo # {}
<1>1. PICK x : x = [l EXCEPT !.todo = l.todo \ {Min(l.todo)}, !.copy = None,
                             !.pc = IF l.todo \ {Min(l.todo)} = {} THEN "send" ELSE "collect"]
  OBVIOUS
<1>2. NextOrder(l) = x
  BY <1>1 DEF NextOrder
<1>3. l.todo \ {Min(l.todo)} \in SUBSET Nat
  BY DEF Local
<1>4. /\ x \in Local /\ x.todo = l.todo \ {Min(l.todo)} /\ x.copy = None
      /\ x.items = l.items /\ x.size = l.size /\ x.ar = l.ar
      /\ x.pc = IF l.todo \ {Min(l.todo)} = {} THEN "send" ELSE "collect"
  BY <1>1, <1>3 DEF Local
<1>5. QED
  BY <1>2, <1>4

LEMMA NextOrderOK ==
  ASSUME NEW l, NEW D, NEW N, LocalOK(l, D, N), l.todo # {}
  PROVE  LocalOK(NextOrder(l), D, N)
<1>1. l \in Local
  BY DEF LocalOK
<1>2. QED
  BY <1>1, NextOrderFacts DEF LocalOK

\* One lemma for each step of a bundling job: the locals it leaves.
LEMMA JobBeginStep ==
  ASSUME TypeInv, Grow, NEW j \in Jobs, JobBegin(j)
  PROVE  \E l : /\ Set(j, l) /\ LocalOK(l, DOMAIN orders', DOMAIN net')
                /\ l.pc = "collect" /\ l.todo = NeedOnChain(j) /\ l.items = <<>> /\ l.size = 0
<1>1. PICK l : l = [IdleJob EXCEPT !.pc = "collect", !.todo = NeedOnChain(j)]
  OBVIOUS
<1>2. NeedOnChain(j) \subseteq DOMAIN orders /\ NeedOnChain(j) \subseteq Nat /\ NeedOnChain(j) # {}
  BY TableFacts DEF JobBegin, NeedOnChain, TypeInv
<1>3. /\ l \in Local /\ l.pc = "collect" /\ l.todo = NeedOnChain(j) /\ l.items = <<>> /\ l.size = 0
      /\ l.ar = None
  <2>1. <<>> \in Seq(Items) /\ 0 \in Nat
    OBVIOUS
  <2>2. QED
    BY <1>1, <1>2, <2>1 DEF IdleJob, Local
<1>4. LocalOK(l, DOMAIN orders', DOMAIN net')
  BY <1>2, <1>3 DEF LocalOK, Grow, OrdersGrow
<1>5. QED
  BY <1>1, <1>3, <1>4 DEF JobBegin

LEMMA CollectStep ==
  ASSUME TypeInv, Grow, NEW j \in Jobs, Collect(j), NEW i, i = orders[Min(job[j].todo)].item
  PROVE  \E l : /\ Set(j, l) /\ LocalOK(l, DOMAIN orders', DOMAIN net')
                /\ \/ /\ l = NextOrder(job[j])
                      /\ job[j].size + Size[i] > MaxPerOnChainSize
                   \/ /\ Processed(i) # {} /\ l.pc = "copy" /\ l.copy = orders[Min(Processed(i))].chain
                      /\ l.todo = job[j].todo /\ l.items = job[j].items /\ l.size = job[j].size
                   \/ /\ job[j].size + Size[i] <= MaxPerOnChainSize
                      /\ Processed(i) = {} /\ l.pc \in {"collect", "send"}
                      /\ l.todo = job[j].todo \ {Min(job[j].todo)}
                      /\ l.items = Append(job[j].items, i) /\ l.size = job[j].size + Size[i]
<1>1. /\ LocalOK(job[j], DOMAIN orders', DOMAIN net') /\ job[j] \in Local /\ job[j].todo # {}
      /\ job[j].pc = "collect"
  BY DEF Collect, TypeInv, JobsInv, LocalOK, Grow, OrdersGrow, NetGrows
<1>2. i \in Items
  BY <1>1, CurrentOrder
<1>3. CASE job[j].size + Size[i] > MaxPerOnChainSize /\ Set(j, NextOrder(job[j]))
  BY <1>1, <1>3, NextOrderOK
<1>4. CASE /\ Processed(i) # {}
           /\ Set(j, [job[j] EXCEPT !.pc = "copy", !.copy = orders[Min(Processed(i))].chain])
  <2>1. PICK l : l = [job[j] EXCEPT !.pc = "copy", !.copy = orders[Min(Processed(i))].chain]
    OBVIOUS
  <2>2. orders[Min(Processed(i))].chain \in Chain
    <3>1. Processed(i) \in SUBSET Nat /\ Processed(i) \subseteq DOMAIN orders
      BY TableFacts DEF TypeInv, Processed
    <3>2. orders[Min(Processed(i))] \in Order
      BY <1>4, <3>1, MinOfIds, TableFacts DEF TypeInv
    <3>3. QED
      BY <3>2 DEF Order
  <2>3. /\ l \in Local /\ l.pc = "copy" /\ l.copy = orders[Min(Processed(i))].chain
        /\ l.todo = job[j].todo /\ l.items = job[j].items /\ l.size = job[j].size
        /\ l.ar = job[j].ar
    BY <1>1, <2>1, <2>2 DEF Local
  <2>4. LocalOK(l, DOMAIN orders', DOMAIN net')
    BY <1>1, <2>2, <2>3 DEF LocalOK
  <2>5. QED
    BY <1>4, <2>1, <2>3, <2>4
<1>5. CASE /\ job[j].size + Size[i] <= MaxPerOnChainSize /\ Processed(i) = {}
           /\ Set(j, NextOrder([job[j] EXCEPT !.items = Append(@, i), !.size = @ + Size[i]]))
  <2>1. PICK m : m = [job[j] EXCEPT !.items = Append(@, i), !.size = @ + Size[i]]
    OBVIOUS
  <2>2. job[j].items \in Seq(Items) /\ job[j].size + Size[i] \in Nat
    <3>1. job[j].items \in Seq(Items) /\ job[j].size \in Nat
      BY <1>1 DEF Local
    <3>2. PICK a \in Nat, b \in Nat : a = job[j].size /\ b = Size[i]
      BY <1>2, <3>1, NumberFacts
    <3>3. a + b \in Nat
      OBVIOUS
    <3>4. QED
      BY <3>1, <3>2, <3>3
  <2>3. Append(job[j].items, i) \in Seq(Items)
    BY <1>2, <2>2, AppendFacts
  <2>4. /\ m \in Local /\ m.pc = "collect" /\ m.todo = job[j].todo /\ m.ar = job[j].ar
        /\ m.items = Append(job[j].items, i) /\ m.size = job[j].size + Size[i]
    BY <1>1, <2>1, <2>2, <2>3 DEF Local
  <2>5. LocalOK(m, DOMAIN orders', DOMAIN net')
    BY <1>1, <2>4 DEF LocalOK
  <2>6. LocalOK(NextOrder(m), DOMAIN orders', DOMAIN net')
    BY <1>1, <2>4, <2>5, NextOrderOK
  <2>7. /\ NextOrder(m).pc \in {"collect", "send"}
        /\ NextOrder(m).todo = job[j].todo \ {Min(job[j].todo)}
        /\ NextOrder(m).items = Append(job[j].items, i)
        /\ NextOrder(m).size = job[j].size + Size[i]
    BY <1>1, <2>4, NextOrderFacts
  <2>8. QED
    BY <1>5, <2>1, <2>6, <2>7
<1>6. QED
  BY <1>3, <1>4, <1>5 DEF Collect

LEMMA CopyStep ==
  ASSUME TypeInv, Grow, NEW j \in Jobs, Copy(j)
  PROVE  /\ Set(j, NextOrder(job[j])) /\ LocalOK(NextOrder(job[j]), DOMAIN orders', DOMAIN net')
         /\ job[j].todo # {}
<1>1. LocalOK(job[j], DOMAIN orders', DOMAIN net') /\ job[j].todo # {}
  BY DEF Copy, TypeInv, JobsInv, LocalOK, Grow, OrdersGrow, NetGrows
<1>2. QED
  BY <1>1, NextOrderOK DEF Copy

LEMMA SendStep ==
  ASSUME TypeInv, Grow, NEW j \in Jobs, Send(j)
  PROVE  \E o \in Outcomes(job[j].items), l \in Local :
            /\ onChainBundleTx(o)
            /\ Set(j, l) /\ LocalOK(l, DOMAIN orders', DOMAIN net')
            /\ \/ l = IdleJob
               \/ /\ o.ok /\ l.pc = (IF j = "plain" THEN "insert" ELSE "wait")
                  /\ l.items = o.items /\ l.ar = Len(net) + 1
                  /\ l.todo = job[j].todo /\ l.size = job[j].size
<1>1. /\ LocalOK(job[j], DOMAIN orders', DOMAIN net') /\ job[j] \in Local
      /\ job[j].items \in Seq(Items)
  BY DEF TypeInv, JobsInv, LocalOK, Local, Grow, OrdersGrow, NetGrows
<1>2. PICK o \in Outcomes(job[j].items) :
        /\ onChainBundleTx(o)
        /\ IF o.ok
           THEN Set(j, [job[j] EXCEPT !.pc = IF j = "plain" THEN "insert" ELSE "wait",
                                      !.items = o.items, !.ar = Len(net) + 1])
           ELSE Stop(j)
  BY DEF Send
<1>3. CASE ~o.ok
  <2>1. LocalOK(IdleJob, DOMAIN orders', DOMAIN net')
    BY IdleOK
  <2>2. IdleJob \in Local
    BY <2>1 DEF LocalOK
  <2>3. QED
    BY <1>2, <1>3, <2>1, <2>2 DEF Stop
<1>4. CASE o.ok
  <2>1. PICK l : l = [job[j] EXCEPT !.pc = IF j = "plain" THEN "insert" ELSE "wait",
                                    !.items = o.items, !.ar = Len(net) + 1]
    OBVIOUS
  <2>2. Len(net) + 1 \in DOMAIN net' /\ Len(net) + 1 \in Nat
    BY <1>1, <1>2, <1>4, TxSent, TableFacts DEF TypeInv
  <2>3. o.items \in Seq(Items)
    BY <1>1, OutcomeType
  <2>4. /\ l \in Local /\ l.pc = (IF j = "plain" THEN "insert" ELSE "wait")
        /\ l.items = o.items /\ l.ar = Len(net) + 1
        /\ l.todo = job[j].todo /\ l.size = job[j].size
    BY <1>1, <2>1, <2>2, <2>3 DEF Local
  <2>5. LocalOK(l, DOMAIN orders', DOMAIN net')
    BY <1>1, <2>2, <2>4 DEF LocalOK
  <2>6. QED
    BY <1>2, <1>4, <2>1, <2>4, <2>5
<1>5. QED
  BY <1>1, <1>3, <1>4, OutcomeType

\* The locals with another pc or fewer items.
LEMMA LocalChanged ==
  ASSUME TypeInv, Grow, NEW j \in Jobs, job[j].ar \in DOMAIN net,
         NEW l \in Local, l.pc \in {"insert", "update"}, l.pc = "update" => l.items # <<>>,
         l.ar = job[j].ar, l.todo = job[j].todo
  PROVE  LocalOK(l, DOMAIN orders', DOMAIN net')
<1>1. job[j].todo \subseteq DOMAIN orders' /\ job[j].ar \in DOMAIN net'
  BY DEF TypeInv, JobsInv, LocalOK, Grow, OrdersGrow, NetGrows
<1>2. QED
  BY <1>1 DEF LocalOK

LEMMA WaitStep ==
  ASSUME TypeInv, Grow, NEW j \in Jobs, Wait(j)
  PROVE  \E l : /\ Set(j, l) /\ LocalOK(l, DOMAIN orders', DOMAIN net')
                /\ \/ l = IdleJob
                   \/ /\ net[job[j].ar].st = "confirmed" /\ l.pc = "insert"
                      /\ l.items = job[j].items /\ l.ar = job[j].ar
                      /\ l.todo = job[j].todo /\ l.size = job[j].size
<1>1. job[j] \in Local /\ job[j].items \in Seq(Items) /\ job[j].ar \in DOMAIN net
  BY DEF Wait, TypeInv, JobsInv, LocalOK, Local
<1>2. CASE Stop(j)
  BY <1>2, IdleOK DEF Stop
<1>3. CASE net[job[j].ar].st = "confirmed" /\ Set(j, [job[j] EXCEPT !.pc = "insert"])
  <2>1. PICK l : l = [job[j] EXCEPT !.pc = "insert"]
    OBVIOUS
  <2>2. /\ l \in Local /\ l.pc = "insert" /\ l.items = job[j].items /\ l.ar = job[j].ar
        /\ l.todo = job[j].todo /\ l.size = job[j].size
    BY <1>1, <2>1 DEF Local
  <2>3. LocalOK(l, DOMAIN orders', DOMAIN net')
    BY <1>1, <2>2, LocalChanged
  <2>4. QED
    BY <1>3, <2>1, <2>2, <2>3
<1>4. QED
  BY <1>2, <1>3 DEF Wait

LEMMA InsertStep ==
  ASSUME TypeInv, Grow, NEW j \in Jobs, InsertArTx(j)
  PROVE  \E l : /\ Set(j, l) /\ LocalOK(l, DOMAIN orders', DOMAIN net')
                /\ \/ l = IdleJob
                   \/ /\ rows' = Append(rows, [ar |-> job[j].ar, items |-> job[j].items,
                                               late |-> FALSE, status |-> "pending"])
                      /\ l.pc = "update" /\ l.items = job[j].items /\ l.ar = job[j].ar
                      /\ l.todo = job[j].todo /\ l.size = job[j].size
<1>1. job[j] \in Local /\ job[j].items \in Seq(Items) /\ job[j].ar \in DOMAIN net
  BY DEF InsertArTx, TypeInv, JobsInv, LocalOK, Local
<1>2. CASE Stop(j)
  BY <1>2, IdleOK DEF Stop
<1>3. CASE /\ job[j].items # <<>> /\ Set(j, [job[j] EXCEPT !.pc = "update"])
           /\ rows' = Append(rows, [ar |-> job[j].ar, items |-> job[j].items,
                                    late |-> FALSE, status |-> "pending"])
  <2>1. PICK l : l = [job[j] EXCEPT !.pc = "update"]
    OBVIOUS
  <2>2. /\ l \in Local /\ l.pc = "update" /\ l.items = job[j].items /\ l.ar = job[j].ar
        /\ l.todo = job[j].todo /\ l.size = job[j].size
    BY <1>1, <2>1 DEF Local
  <2>3. LocalOK(l, DOMAIN orders', DOMAIN net')
    BY <1>1, <1>3, <2>2, LocalChanged
  <2>4. QED
    BY <1>3, <2>1, <2>2, <2>3
<1>4. QED
  BY <1>2, <1>3 DEF InsertArTx

LEMMA UpdateStep ==
  ASSUME TypeInv, Grow, NEW j \in Jobs, UpdateOrders(j)
  PROVE  \E l : /\ Set(j, l) /\ LocalOK(l, DOMAIN orders', DOMAIN net')
                /\ \/ l = IdleJob
                   \/ /\ l.pc = "update" /\ Range(l.items) \subseteq Range(job[j].items)
                      /\ l.ar = job[j].ar /\ l.todo = job[j].todo /\ l.size = job[j].size
<1>1. /\ job[j] \in Local /\ job[j].items \in Seq(Items) /\ job[j].ar \in DOMAIN net
      /\ job[j].items # <<>> /\ job[j].pc = "update"
  BY DEF UpdateOrders, TypeInv, JobsInv, LocalOK, Local
<1>2. CASE Stop(j)
  BY <1>2, IdleOK DEF Stop
<1>3. CASE Len(job[j].items) # 1 /\ Set(j, [job[j] EXCEPT !.items = Tail(@)])
  <2>t. PICK is : is = Tail(job[j].items)
    OBVIOUS
  <2>0. /\ Tail(job[j].items) \in Seq(Items) /\ Tail(job[j].items) # <<>>
        /\ Range(Tail(job[j].items)) \subseteq Range(job[j].items)
    BY <1>1, <1>3, TailFacts
  <2>1. PICK l : l = [job[j] EXCEPT !.items = Tail(@)]
    OBVIOUS
  <2>2. /\ l \in Local /\ l.pc = "update" /\ l.items = is /\ l.ar = job[j].ar
        /\ l.todo = job[j].todo /\ l.size = job[j].size
    BY <1>1, <2>t, <2>0, <2>1 DEF Local
  <2>3. LocalOK(l, DOMAIN orders', DOMAIN net')
    BY <1>1, <1>3, <2>t, <2>0, <2>2, LocalChanged
  <2>4. QED
    BY <1>3, <2>t, <2>0, <2>1, <2>2, <2>3
<1>4. QED
  BY <1>2, <1>3 DEF UpdateOrders

LEMMA LocalsStep ==
  ASSUME TypeInv, [Next]_vars
  PROVE  JobsInv' /\ WatchInv' /\ RetryInv'
<1>0. TablesInv /\ JobsInv /\ WatchInv /\ RetryInv
  BY DEF TypeInv
<1>g. Grow
  BY TablesStep
<1>1. ASSUME NEW j \in Jobs, JobStep(j) PROVE JobsInv' /\ WatchInv' /\ RetryInv'
  <2>1. WatchInv' /\ RetryInv'
    <3>1. UNCHANGED <<watch, retry>>
      BY <1>1 DEF JobStep, JobBegin, Collect, Copy, Send, Wait, InsertArTx, UpdateOrders
    <3>2. QED
      BY <1>0, <1>g, <3>1, WatchKept, RetryKept
  <2>2. \E l : Set(j, l) /\ LocalOK(l, DOMAIN orders', DOMAIN net')
    <3>1. CASE JobBegin(j)
      BY <1>g, <3>1, JobBeginStep
    <3>2. CASE Collect(j)
      BY <1>g, <3>2, CollectStep
    <3>3. CASE Copy(j)
      BY <1>g, <3>3, CopyStep
    <3>4. CASE Send(j)
      BY <1>g, <3>4, SendStep
    <3>5. CASE Wait(j)
      BY <1>g, <3>5, WaitStep
    <3>6. CASE InsertArTx(j)
      BY <1>g, <3>6, InsertStep
    <3>7. CASE UpdateOrders(j)
      BY <1>g, <3>7, UpdateStep
    <3>8. QED
      BY <1>1, <3>1, <3>2, <3>3, <3>4, <3>5, <3>6, <3>7 DEF JobStep
  <2>3. QED
    BY <1>0, <1>g, <2>1, <2>2, JobSet
<1>2. CASE WatchStep
  <2>1. UNCHANGED <<job, retry>>
    BY <1>2 DEF WatchStep, WatchBegin, WatchTx
  <2>2. CASE WatchBegin
    <3>1. watch' = {[row |-> n, ar |-> rows[n].ar, items |-> rows[n].items] : n \in Pending}
      BY <2>2 DEF WatchBegin
    <3>2. \A n \in Pending : /\ n \in DOMAIN rows /\ n \in Nat /\ rows[n].ar \in DOMAIN net
                             /\ rows[n].ar \in Nat /\ rows[n].items \in Seq(Items)
      BY <1>0, TableFacts DEF Pending, ArTx, TablesInv
    <3>3. QED
      BY <1>0, <1>g, <2>1, <3>1, <3>2, JobsKept, RetryKept
         DEF WatchInv, Seen, Grow, RowsGrow, NetGrows
  <2>3. CASE \E w \in watch : WatchTx(w)
    <3>1. watch' \subseteq watch
      BY <2>3 DEF WatchTx
    <3>2. QED
      BY <1>0, <1>g, <2>1, <3>1, JobsKept, WatchKept, RetryKept
  <2>4. QED
    BY <1>2, <2>2, <2>3 DEF WatchStep
<1>3. CASE RetryStep
  <2>1. UNCHANGED <<job, watch>>
    BY <1>3 DEF RetryStep, RetryBegin, RetrySend, UpdateArTx
  <2>2. JobsInv' /\ WatchInv'
    BY <1>0, <1>g, <2>1, JobsKept, WatchKept
  <2>3. \A n \in DOMAIN rows : n \in Nat
    BY <1>0, TableFacts
  <2>i. retry' = IdleRetry => RetryInv'
    BY DEF IdleRetry, RetryInv, RetryLocal
  <2>4. ASSUME NEW T, T \subseteq DOMAIN rows, T # {},
               retry' = [IdleRetry EXCEPT !.pc = "send", !.todo = T]
        PROVE  RetryInv'
    <3>1. retry' \in RetryLocal /\ retry'.pc = "send" /\ retry'.todo = T /\ retry'.ar = None
      BY <2>3, <2>4 DEF IdleRetry, RetryLocal
    <3>2. QED
      BY <1>g, <2>4, <3>1 DEF RetryInv, Grow, RowsGrow
  <2>5. CASE RetryBegin
    <3>1. PICK T : T = {n \in DOMAIN rows : rows[n].status = "failed"}
      OBVIOUS
    <3>2. T \subseteq DOMAIN rows /\ T # {} /\ retry' = [IdleRetry EXCEPT !.pc = "send", !.todo = T]
      BY <2>5, <3>1 DEF RetryBegin
    <3>3. QED
      BY <2>2, <2>4, <3>2
  <2>6. CASE RetrySend
    <3>1. PICK o \in Outcomes(rows[Min(retry.todo)].items) :
            /\ onChainBundleTx(o)
            /\ retry' = IF o.ok THEN [retry EXCEPT !.pc = "update", !.ar = Len(net) + 1]
                        ELSE IdleRetry
      BY <2>6 DEF RetrySend
    <3>2. retry.todo # {} /\ retry.todo \subseteq DOMAIN rows /\ retry \in RetryLocal
      BY <1>0, <2>6 DEF RetrySend, RetryInv
    <3>3. CASE o.ok
      <4>1. rows[Min(retry.todo)].items \in Seq(Items)
        BY <3>2, CurrentRow
      <4>2. Len(net) + 1 \in DOMAIN net' /\ Len(net) + 1 \in Nat
        BY <1>0, <3>1, <3>3, <4>1, TxSent, TableFacts DEF TypeInv
      <4>3. /\ retry' \in RetryLocal /\ retry'.pc = "update" /\ retry'.todo = retry.todo
            /\ retry'.ar = Len(net) + 1
        BY <3>1, <3>2, <3>3, <4>2 DEF RetryLocal
      <4>4. QED
        BY <1>g, <2>2, <3>2, <4>2, <4>3 DEF RetryInv, Grow, RowsGrow
    <3>4. QED
      BY <2>2, <2>i, <3>1, <3>3
  <2>7. CASE UpdateArTx
    <3>1. PICK T : T = retry.todo \ {Min(retry.todo)}
      OBVIOUS
    <3>2. T \subseteq DOMAIN rows
      BY <1>0, <3>1 DEF RetryInv
    <3>3. retry' = IF T = {} THEN IdleRetry ELSE [IdleRetry EXCEPT !.pc = "send", !.todo = T]
      BY <2>7, <3>1 DEF UpdateArTx
    <3>4. QED
      BY <2>2, <2>i, <2>4, <3>2, <3>3
  <2>8. QED
    BY <1>3, <2>5, <2>6, <2>7 DEF RetryStep
<1>4. CASE Restart
  <2>1. JobsInv'
    BY <1>4, IdleOK DEF Restart, JobsInv
  <2>2. watch' = {} /\ retry' = IdleRetry
    BY <1>4 DEF Restart
  <2>3. QED
    BY <2>1, <2>2 DEF WatchInv, IdleRetry, RetryInv, RetryLocal
<1>5. CASE UNCHANGED <<job, watch, retry>>
  BY <1>0, <1>g, <1>5, JobsKept, WatchKept, RetryKept
<1>6. QED
  <2>1. ASSUME \/ \E i \in Items, sort \in BOOLEAN : OpenOrder(i, sort)
               \/ \E n \in DOMAIN net : Confirm(n) \/ Drop(n)
               \/ \E n \in DOMAIN rows : FiftyBlocks(n)
               \/ UNCHANGED vars
        PROVE  UNCHANGED <<job, watch, retry>>
    BY <2>1 DEF OpenOrder, Confirm, Drop, FiftyBlocks, vars
  <2>2. QED
    BY <1>1, <1>2, <1>3, <1>4, <1>5, <2>1 DEF Next

LEMMA TypeInvInit ==
  ASSUME Init
  PROVE  TypeInv
<1>1. orders = <<>> /\ rows = <<>> /\ net = <<>> /\ blocks = <<>>
  BY DEF Init
<1>2. TablesInv
  BY <1>1 DEF TablesInv
<1>3. CountersInv
  BY ConstantsAssumption DEF Init, CountersInv
<1>4. JobsInv
  <2>1. job = [j \in Jobs |-> IdleJob]
    BY DEF Init
  <2>2. QED
    BY <2>1, IdleOK DEF JobsInv
<1>5. WatchInv /\ RetryInv
  BY DEF Init, WatchInv, RetryInv, IdleRetry, RetryLocal
<1>6. QED
  BY <1>2, <1>3, <1>4, <1>5 DEF TypeInv

LEMMA TypeInvStep ==
  ASSUME TypeInv, [Next]_vars
  PROVE  TypeInv' /\ Grow
  BY TablesStep, LocalsStep DEF TypeInv

LEMMA TypeInvHolds == Spec => []TypeInv
  BY TypeInvInit, TypeInvStep, PTL DEF Spec

\* The tables, the network and the locals hold values of their kind, and every
\* reference of a row, a block or a job is to an order, a row or a transaction
\* that exists: TypeOK, on every execution.
THEOREM OnChainTypes == Spec => []TypeOK
<1>1. TypeInv => TypeOK
  <2> SUFFICES ASSUME TypeInv PROVE TypeOK
    OBVIOUS
  <2>1. rows \in Seq([ar: DOMAIN net, items: Seq(Items), late: BOOLEAN,
                      status: {"pending", "success", "failed"}])
    <3>1. PICK R : R = [ar: DOMAIN net, items: Seq(Items), late: BOOLEAN,
                        status: {"pending", "success", "failed"}]
      OBVIOUS
    <3>2. \A n \in DOMAIN rows : rows[n] \in ArTx /\ rows[n].ar \in DOMAIN net
      BY TableFacts DEF TypeInv, TablesInv
    <3>3. \A n \in DOMAIN rows : rows[n] \in R
      BY <3>1, <3>2 DEF ArTx
    <3>4. rows \in Seq(R)
      <4>1. DOMAIN rows = 1..Len(rows) /\ Len(rows) \in Nat
            /\ rows = [n \in 1..Len(rows) |-> rows[n]]
        BY LenProperties DEF TypeInv, TablesInv
      <4>2. rows \in [1..Len(rows) -> R]
        BY <3>3, <4>1
      <4>3. QED
        BY <4>1, <4>2, SeqDef
    <3>5. QED
      BY <3>1, <3>4
  <2>2. blocks \in Seq(DOMAIN net)
    <3>1. PICK R : R = DOMAIN net
      OBVIOUS
    <3>2. DOMAIN blocks = 1..Len(blocks) /\ Len(blocks) \in Nat
          /\ blocks = [n \in 1..Len(blocks) |-> blocks[n]]
      BY LenProperties DEF TypeInv, TablesInv
    <3>3. blocks \in [1..Len(blocks) -> R]
      BY <3>1, <3>2 DEF TypeInv, TablesInv
    <3>4. blocks \in Seq(R)
      BY <3>2, <3>3, SeqDef
    <3>5. QED
      BY <3>1, <3>4
  <2>3. job \in [Jobs -> [pc: {"idle", "collect", "copy", "send", "wait", "insert", "update"},
                          todo: SUBSET DOMAIN orders, items: Seq(Items), size: Nat,
                          copy: Chain \cup {None}, ar: DOMAIN net \cup {None}]]
    <3>1. \A j \in Jobs :
            job[j] \in [pc: {"idle", "collect", "copy", "send", "wait", "insert", "update"},
                        todo: SUBSET DOMAIN orders, items: Seq(Items), size: Nat,
                        copy: Chain \cup {None}, ar: DOMAIN net \cup {None}]
      BY DEF TypeInv, JobsInv, LocalOK, Local
    <3>2. QED
      BY <3>1 DEF TypeInv, JobsInv
  <2>4. watch \subseteq [row: DOMAIN rows, ar: DOMAIN net, items: Seq(Items)]
    BY DEF TypeInv, WatchInv, Seen
  <2>5. retry \in [pc: {"idle", "send", "update"}, todo: SUBSET DOMAIN rows,
                   ar: DOMAIN net \cup {None}]
    BY DEF TypeInv, RetryInv, RetryLocal
  <2>6. QED
    BY <2>1, <2>2, <2>3, <2>4, <2>5
       DEF TypeOK, TypeInv, TablesInv, CountersInv, Order, Sent
<1>2. QED
  BY <1>1, TypeInvHolds, PTL

-----------------------------------------------------------------------------
(***************************************************************************)
(* Orders and transactions.  The parts of the invariant say of the status  *)
(* of an order, wherever a job carries it, what it means: a "success" is   *)
(* on chain, a "pending" is listed by a row.  Both stay true.              *)
(***************************************************************************)
Listed(i) == \E n \in DOMAIN rows : i \in Range(rows[n].items)
Known(st, i) == (st = "success" => OnChainItem(i)) /\ (st = "pending" => Listed(i))

NetTrack == \A n \in DOMAIN net : net[n].st = "confirmed" => n \in Range(blocks)

OrdersTrack == \A o \in DOMAIN orders : Known(orders[o].chain, orders[o].item)

\* A row's transaction carries its items.
RowsTrack ==
  \A n \in DOMAIN rows :
    /\ Range(rows[n].items) \subseteq Range(net[rows[n].ar].items)
    /\ rows[n].status = "success" => \A i \in Range(rows[n].items) : OnChainItem(i)

JobTrack(j) ==
  /\ job[j].pc \in {"wait", "insert", "update"} =>
       Range(job[j].items) \subseteq Range(net[job[j].ar].items)
  /\ job[j].pc = "update" => \A i \in Range(job[j].items) : Listed(i)
  /\ j = "seq" /\ job[j].pc \in {"insert", "update"} => net[job[j].ar].st = "confirmed"
  /\ job[j].pc = "copy" => Known(job[j].copy, orders[Min(job[j].todo)].item)

WatchTrack == \A w \in watch : Range(w.items) \subseteq Range(net[w.ar].items)

RetryTrack ==
  retry.pc = "update" =>
    Range(rows[Min(retry.todo)].items) \subseteq Range(net[retry.ar].items)

TrackInv ==
  /\ NetTrack /\ OrdersTrack /\ RowsTrack /\ (\A j \in Jobs : JobTrack(j))
  /\ WatchTrack /\ RetryTrack

LEMMA Stable ==
  ASSUME TypeInv, Grow
  PROVE  /\ Range(blocks) \subseteq Range(blocks')
         /\ \A i : (OnChainItem(i) => OnChainItem(i)') /\ (Listed(i) => Listed(i)')
         /\ \A i, st : Known(st, i) => Known(st, i)'
<1>1. Range(blocks) \subseteq Range(blocks')
  BY DEF Range, Grow, BlocksGrow
<1>2. \A n \in Range(blocks) : n \in DOMAIN net
  BY DEF Range, TypeInv, TablesInv
<1>3. ASSUME NEW i, OnChainItem(i) PROVE OnChainItem(i)'
  BY <1>1, <1>2, <1>3 DEF OnChainItem, Carries, Grow, NetGrows
<1>4. ASSUME NEW i, Listed(i) PROVE Listed(i)'
  BY <1>4 DEF Listed, Grow, RowsGrow
<1>5. QED
  BY <1>1, <1>3, <1>4 DEF Known

\* A confirmed transaction's items are on chain.
LEMMA ConfirmedIsOnChain ==
  ASSUME NetTrack, NEW n \in DOMAIN net, net[n].st = "confirmed", NEW i \in Range(net[n].items)
  PROVE  OnChainItem(i)
  BY DEF NetTrack, OnChainItem, Carries

LEMMA NetTrackStep ==
  ASSUME TypeInv, NetTrack, [Next]_vars
  PROVE  NetTrack'
<1>0. Grow /\ TablesInv /\ CountersInv /\ Range(blocks) \subseteq Range(blocks')
  BY TypeInvStep, Stable DEF TypeInv
<1>1. SUFFICES \A n \in DOMAIN net' : net'[n].st = "confirmed" =>
                 (n \in DOMAIN net /\ net[n].st = "confirmed") \/ n \in Range(blocks')
  BY <1>0 DEF NetTrack
<1>2. CASE UNCHANGED net
  BY <1>2
<1>3. ASSUME NEW is \in Seq(Items), \E o \in Outcomes(is) : onChainBundleTx(o)
      PROVE  \A n \in DOMAIN net' : net'[n].st = "confirmed" =>
               n \in DOMAIN net /\ net[n].st = "confirmed"
  <2>1. PICK o \in Outcomes(is) : onChainBundleTx(o)
    BY <1>3
  <2>2. \A n \in DOMAIN net' : net'[n].st = "confirmed" => n \in DOMAIN net /\ net'[n] = net[n]
    BY <1>0, <1>3, <2>1, TxSent
  <2>3. QED
    BY <2>2
<1>4. ASSUME NEW j \in Jobs, Send(j)
      PROVE  \E is \in Seq(Items) : \E o \in Outcomes(is) : onChainBundleTx(o)
  <2>1. job[j].items \in Seq(Items)
    BY DEF TypeInv, JobsInv, LocalOK, Local
  <2>2. QED
    BY <1>4, <2>1 DEF Send
<1>5. ASSUME RetrySend
      PROVE  \E is \in Seq(Items) : \E o \in Outcomes(is) : onChainBundleTx(o)
  <2>1. rows[Min(retry.todo)].items \in Seq(Items)
    BY <1>5, CurrentRow DEF RetrySend, TypeInv, RetryInv
  <2>2. QED
    BY <1>5, <2>1 DEF RetrySend
<1>6. ASSUME NEW n \in DOMAIN net, Confirm(n) \/ Drop(n)
      PROVE  \A m \in DOMAIN net' : net'[m].st = "confirmed" =>
               (m \in DOMAIN net /\ net[m].st = "confirmed") \/ m \in Range(blocks')
  <2>1. CASE Confirm(n)
    <3>1. /\ DOMAIN net' = DOMAIN net
          /\ \A m \in DOMAIN net \ {n} : net'[m] = net[m]
      BY <1>0, <2>1, TxReplaced DEF Confirm
    <3>2. n \in Range(blocks')
      <4>1. n \in Nat /\ blocks \in Seq(Nat) /\ blocks' = Append(blocks, n)
        BY <1>0, <2>1, TableFacts DEF Confirm, TablesInv
      <4>2. QED
        BY <4>1, AppendFacts
    <3>3. QED
      BY <3>1, <3>2
  <2>2. CASE Drop(n)
    <3>1. /\ DOMAIN net' = DOMAIN net /\ net'[n].st = "dropped"
          /\ \A m \in DOMAIN net \ {n} : net'[m] = net[m]
      BY <1>0, <2>2, TxReplaced DEF Drop
    <3>2. QED
      BY <3>1
  <2>3. QED
    BY <1>6, <2>1, <2>2
<1>7. QED
  <2>1. \/ UNCHANGED net \/ (\E j \in Jobs : Send(j)) \/ RetrySend
        \/ \E n \in DOMAIN net : Confirm(n) \/ Drop(n)
    BY DEF Next, OpenOrder, JobStep, JobBegin, Collect, Copy, Wait, InsertArTx, UpdateOrders,
           WatchStep, WatchBegin, WatchTx, RetryStep, RetryBegin, UpdateArTx, FiftyBlocks,
           Restart, vars
  <2>2. QED
    BY <1>2, <1>3, <1>4, <1>5, <1>6, <2>1

LEMMA OrdersTrackStep ==
  ASSUME TypeInv, TrackInv, [Next]_vars
  PROVE  OrdersTrack'
<1>0. Grow /\ TablesInv /\ \A i, st : Known(st, i) => Known(st, i)'
  BY TypeInvStep, Stable DEF TypeInv
<1>1. ASSUME NEW is, NEW st \in Chain, UpdateOrdOnChainStatus(is, st), \A i \in is : Known(st, i)
      PROVE  OrdersTrack'
  <2>1. /\ DOMAIN orders' = DOMAIN orders
        /\ \A o \in DOMAIN orders :
             /\ orders'[o].item = orders[o].item
             /\ orders'[o].chain = IF orders[o].item \in is THEN st ELSE orders[o].chain
    BY <1>0, <1>1, OrdersUpdated DEF OrdersGrow
  <2>2. \A o \in DOMAIN orders : Known(orders'[o].chain, orders'[o].item)
    BY <1>1, <2>1 DEF TrackInv, OrdersTrack
  <2>3. QED
    BY <1>0, <2>1, <2>2 DEF OrdersTrack
<1>2. CASE UNCHANGED orders
  BY <1>0, <1>2 DEF TrackInv, OrdersTrack
<1>3. ASSUME NEW i \in Items, NEW sort \in BOOLEAN, OpenOrder(i, sort) PROVE OrdersTrack'
  <2>1. PICK x : x = [item |-> i, sort |-> sort, chain |-> "waiting"]
    OBVIOUS
  <2>2. x \in Order /\ x.chain = "waiting" /\ orders' = Append(orders, x)
    BY <1>3, <2>1 DEF Order, Chain, OpenOrder
  <2>3. /\ DOMAIN orders' = DOMAIN orders \cup {Len(orders) + 1}
        /\ orders'[Len(orders) + 1] = x
        /\ \A o \in DOMAIN orders : orders'[o] = orders[o]
    BY <1>0, <2>2, AppendFacts DEF TablesInv
  <2>4. \A o \in DOMAIN orders' : Known(orders'[o].chain, orders'[o].item)
    BY <2>2, <2>3 DEF TrackInv, OrdersTrack, Known
  <2>5. QED
    BY <1>0, <2>4 DEF OrdersTrack
<1>4. ASSUME NEW j \in Jobs, Copy(j) PROVE OrdersTrack'
  <2>1. job[j].copy \in Chain /\ Known(job[j].copy, orders[Min(job[j].todo)].item)
    BY <1>4 DEF Copy, TypeInv, JobsInv, LocalOK, TrackInv, JobTrack
  <2>2. QED
    BY <1>1, <1>2, <1>4, <2>1 DEF Copy
<1>5. ASSUME NEW j \in Jobs, UpdateOrders(j) PROVE OrdersTrack'
  <2>1. PICK st : st = IF j = "plain" THEN "pending" ELSE "success"
    OBVIOUS
  <2>2. job[j].items \in Seq(Items) /\ job[j].items # <<>> /\ job[j].ar \in DOMAIN net
    BY <1>5 DEF UpdateOrders, TypeInv, JobsInv, LocalOK, Local
  <2>3. Head(job[j].items) \in Range(job[j].items)
    BY <2>2, TailFacts
  <2>4. st \in Chain /\ Known(st, Head(job[j].items))
    <3>1. CASE j = "plain"
      BY <1>5, <2>1, <2>3, <3>1 DEF UpdateOrders, TrackInv, JobTrack, Known, Chain
    <3>2. CASE j = "seq"
      <4>1. /\ net[job[j].ar].st = "confirmed"
            /\ Head(job[j].items) \in Range(net[job[j].ar].items)
        BY <1>5, <2>3, <3>2 DEF UpdateOrders, TrackInv, JobTrack
      <4>2. OnChainItem(Head(job[j].items))
        BY <2>2, <4>1, ConfirmedIsOnChain DEF TrackInv
      <4>3. QED
        BY <2>1, <3>2, <4>2 DEF Known, Chain
    <3>3. QED
      BY <3>1, <3>2 DEF Jobs
  <2>5. \/ UNCHANGED orders \/ UpdateOrdOnChainStatus({Head(job[j].items)}, st)
    BY <1>5, <2>1 DEF UpdateOrders
  <2>6. QED
    BY <1>1, <1>2, <2>4, <2>5
<1>6. ASSUME NEW w \in watch, WatchTx(w) PROVE OrdersTrack'
  <2>1. \/ UNCHANGED orders
        \/ /\ net[w.ar].st = "confirmed"
           /\ UpdateOrdOnChainStatus(Range(w.items), "success")
    BY <1>6 DEF WatchTx
  <2>2. CASE net[w.ar].st = "confirmed" /\ UpdateOrdOnChainStatus(Range(w.items), "success")
    <3>1. w.ar \in DOMAIN net /\ Range(w.items) \subseteq Range(net[w.ar].items)
      BY DEF TypeInv, WatchInv, TrackInv, WatchTrack
    <3>2. \A i \in Range(w.items) : Known("success", i)
      BY <2>2, <3>1, ConfirmedIsOnChain DEF TrackInv, Known
    <3>3. "success" \in Chain
      BY DEF Chain
    <3>4. QED
      BY <1>1, <2>2, <3>2, <3>3
  <2>3. QED
    BY <1>2, <2>1, <2>2
<1>7. QED
  <2>1. \/ UNCHANGED orders \/ (\E i \in Items, sort \in BOOLEAN : OpenOrder(i, sort))
        \/ (\E j \in Jobs : Copy(j) \/ UpdateOrders(j))
        \/ \E w \in watch : WatchTx(w)
    BY DEF Next, JobStep, JobBegin, Collect, Send, Wait, InsertArTx, WatchStep, WatchBegin,
           RetryStep, RetryBegin, RetrySend, UpdateArTx, Confirm, Drop, FiftyBlocks, Restart, vars
  <2>2. QED
    BY <1>2, <1>3, <1>4, <1>5, <1>6, <2>1

LEMMA RowsTrackStep ==
  ASSUME TypeInv, TrackInv, [Next]_vars
  PROVE  RowsTrack'
<1>0. Grow /\ TablesInv /\ \A i : OnChainItem(i) => OnChainItem(i)'
  BY TypeInvStep, Stable DEF TypeInv
<1>1. \A n \in DOMAIN rows : rows[n] \in ArTx /\ rows[n].ar \in DOMAIN net
  BY <1>0, TableFacts DEF TablesInv
<1>2. SUFFICES \A n \in DOMAIN rows' :
                 /\ rows'[n].ar \in DOMAIN net
                 /\ Range(rows'[n].items) \subseteq Range(net[rows'[n].ar].items)
                 /\ rows'[n].status = "success" => \A i \in Range(rows'[n].items) : OnChainItem(i)
  BY <1>0 DEF RowsTrack, Grow, NetGrows
<1> DEFINE Goal == \A n \in DOMAIN rows' :
                 /\ rows'[n].ar \in DOMAIN net
                 /\ Range(rows'[n].items) \subseteq Range(net[rows'[n].ar].items)
                 /\ rows'[n].status = "success" => \A i \in Range(rows'[n].items) : OnChainItem(i)
<1>3. CASE UNCHANGED rows
  BY <1>1, <1>3 DEF TrackInv, RowsTrack
<1>4. ASSUME NEW j \in Jobs, InsertArTx(j) PROVE Goal
  <2>1. /\ job[j].items \in Seq(Items) /\ job[j].ar \in DOMAIN net
        /\ Range(job[j].items) \subseteq Range(net[job[j].ar].items)
    BY <1>4 DEF InsertArTx, TypeInv, JobsInv, LocalOK, Local, TrackInv, JobTrack
  <2>2. PICK x : x = [ar |-> job[j].ar, items |-> job[j].items, late |-> FALSE,
                      status |-> "pending"]
    OBVIOUS
  <2>3. x \in ArTx /\ x.ar = job[j].ar /\ x.items = job[j].items /\ x.status = "pending"
    BY <1>0, <2>1, <2>2, TableFacts DEF ArTx
  <2>4. UNCHANGED rows \/ rows' = Append(rows, x)
    BY <1>4, <2>2 DEF InsertArTx
  <2>5. CASE rows' = Append(rows, x)
    <3>1. /\ DOMAIN rows' = DOMAIN rows \cup {Len(rows) + 1}
          /\ rows'[Len(rows) + 1] = x /\ \A n \in DOMAIN rows : rows'[n] = rows[n]
      BY <1>0, <2>3, <2>5, AppendFacts DEF TablesInv
    <3>2. QED
      BY <1>1, <2>1, <2>3, <3>1 DEF TrackInv, RowsTrack
  <2>6. QED
    BY <1>3, <2>4, <2>5
<1>5. ASSUME NEW w \in watch, WatchTx(w) PROVE Goal
  <2>1. \/ UNCHANGED rows
        \/ \E st \in {"success", "failed"} :
             /\ UpdateArTxStatus(w.ar, st)
             /\ st = "success" => net[w.ar].st = "confirmed"
    BY <1>5 DEF WatchTx
  <2>2. ASSUME NEW st \in {"success", "failed"}, UpdateArTxStatus(w.ar, st),
               st = "success" => net[w.ar].st = "confirmed"
        PROVE  Goal
    <3>1. /\ DOMAIN rows' = DOMAIN rows
          /\ \A n \in DOMAIN rows :
               /\ rows'[n].items = rows[n].items /\ rows'[n].ar = rows[n].ar
               /\ rows'[n].status = IF rows[n].ar = w.ar THEN st ELSE rows[n].status
      BY <1>0, <2>2, RowsUpdated DEF RowsGrow
    <3>2. \A n \in DOMAIN rows : rows[n].ar = w.ar /\ st = "success" =>
            \A i \in Range(rows[n].items) : OnChainItem(i)
      BY <1>1, <2>2, ConfirmedIsOnChain DEF TrackInv, RowsTrack
    <3>3. QED
      BY <1>1, <3>1, <3>2 DEF TrackInv, RowsTrack
  <2>3. QED
    BY <1>3, <2>1, <2>2
<1>6. ASSUME UpdateArTx PROVE Goal
  <2>1. PICK n : n = Min(retry.todo)
    OBVIOUS
  <2>2. /\ n \in DOMAIN rows /\ retry.ar \in DOMAIN net
        /\ Range(rows[n].items) \subseteq Range(net[retry.ar].items)
    BY <1>6, <2>1, CurrentRow DEF UpdateArTx, TypeInv, RetryInv, TrackInv, RetryTrack
  <2>3. CASE rows' = [rows EXCEPT ![n].ar = retry.ar, ![n].status = "pending", ![n].late = FALSE]
    <3>1. PICK r : r = [rows[n] EXCEPT !.ar = retry.ar, !.status = "pending", !.late = FALSE]
      OBVIOUS
    <3>2. r.items = rows[n].items /\ r.ar = retry.ar /\ r.status = "pending"
      BY <1>1, <2>2, <3>1 DEF ArTx
    <3>3. rows' = [rows EXCEPT ![n] = r]
      BY <1>1, <2>2, <2>3, <3>1 DEF ArTx
    <3>4. DOMAIN rows' = DOMAIN rows /\ rows'[n] = r /\ \A m \in DOMAIN rows \ {n} : rows'[m] = rows[m]
      BY <2>2, <3>3
    <3>5. QED
      BY <1>1, <2>2, <3>2, <3>4 DEF TrackInv, RowsTrack
  <2>4. QED
    BY <1>3, <1>6, <2>1, <2>3 DEF UpdateArTx
<1>7. ASSUME NEW n \in DOMAIN rows, FiftyBlocks(n) PROVE Goal
  <2>1. PICK r : r = [rows[n] EXCEPT !.late = TRUE]
    OBVIOUS
  <2>2. r.items = rows[n].items /\ r.ar = rows[n].ar /\ r.status = rows[n].status
    BY <1>1, <2>1 DEF ArTx
  <2>3. DOMAIN rows' = DOMAIN rows /\ rows'[n] = r /\ \A m \in DOMAIN rows \ {n} : rows'[m] = rows[m]
    BY <1>7, <2>1 DEF FiftyBlocks
  <2>4. QED
    BY <1>1, <2>2, <2>3 DEF TrackInv, RowsTrack
<1>8. QED
  <2>1. \/ UNCHANGED rows \/ (\E j \in Jobs : InsertArTx(j)) \/ (\E w \in watch : WatchTx(w))
        \/ UpdateArTx \/ (\E n \in DOMAIN rows : FiftyBlocks(n))
    BY DEF Next, OpenOrder, JobStep, JobBegin, Collect, Copy, Send, Wait, UpdateOrders, WatchStep,
           WatchBegin, RetryStep, RetryBegin, RetrySend, Confirm, Drop, Restart, vars
  <2>2. QED
    BY <1>3, <1>4, <1>5, <1>6, <1>7, <2>1

LEMMA JobTrackKept ==
  ASSUME TypeInv, Grow, NEW j \in Jobs, JobTrack(j), job'[j] = job[j]
  PROVE  JobTrack(j)'
<1>0. (\A i : Listed(i) => Listed(i)') /\ \A i, st : Known(st, i) => Known(st, i)'
  BY Stable
<1>1. job[j].pc \in {"wait", "insert", "update"} => job[j].ar \in DOMAIN net
  BY DEF TypeInv, JobsInv, LocalOK
<1>2. job[j].pc = "copy" => Min(job[j].todo) \in DOMAIN orders
  BY CurrentOrder DEF TypeInv, JobsInv, LocalOK
<1>3. QED
  BY <1>0, <1>1, <1>2 DEF JobTrack, Grow, NetGrows, OrdersGrow

LEMMA JobsTrackStep ==
  ASSUME TypeInv, TrackInv, [Next]_vars, NEW k \in Jobs
  PROVE  JobTrack(k)'
<1>0. /\ Grow /\ TypeInv' /\ TablesInv /\ CountersInv /\ JobsInv
      /\ (\A i : Listed(i) => Listed(i)') /\ \A i, st : Known(st, i) => Known(st, i)'
  BY TypeInvStep, Stable DEF TypeInv
<1>1. JobTrack(k)
  BY DEF TrackInv
<1>k. CASE job'[k] = job[k]
  BY <1>0, <1>1, <1>k, JobTrackKept
<1>i. CASE job'[k] = IdleJob
  BY <1>i DEF JobTrack, IdleJob
<1>n. CASE job'[k].pc \in {"collect", "send"}
  BY <1>n DEF JobTrack
<1>2. ASSUME NEW j \in Jobs, JobStep(j) PROVE JobTrack(k)'
  <2>1. ASSUME NEW l, Set(j, l), LocalOK(l, DOMAIN orders', DOMAIN net')
        PROVE  job'[j] = l /\ (k # j => job'[k] = job[k])
    BY <1>0, <2>1, JobSet
  <2>2. CASE JobBegin(j)
    <3>1. PICK l : Set(j, l) /\ LocalOK(l, DOMAIN orders', DOMAIN net') /\ l.pc = "collect"
      BY <1>0, <2>2, JobBeginStep
    <3>2. QED
      BY <1>k, <1>n, <2>1, <3>1
  <2>3. CASE Collect(j)
    <3>1. PICK i : i = orders[Min(job[j].todo)].item
      OBVIOUS
    <3>2. job[j].todo # {} /\ job[j] \in Local
      BY <2>3 DEF Collect, TypeInv, JobsInv, LocalOK
    <3>3. PICK l : /\ Set(j, l) /\ LocalOK(l, DOMAIN orders', DOMAIN net')
                   /\ \/ l.pc \in {"collect", "send"}
                      \/ /\ Processed(i) # {} /\ l.pc = "copy"
                         /\ l.copy = orders[Min(Processed(i))].chain /\ l.todo = job[j].todo
      BY <1>0, <2>3, <3>1, <3>2, CollectStep, NextOrderFacts
    <3>4. job'[j] = l /\ (k # j => job'[k] = job[k])
      BY <2>1, <3>3
    <3>5. CASE l.pc = "copy" /\ k = j
      <4>1. /\ Processed(i) # {} /\ l.copy = orders[Min(Processed(i))].chain
            /\ l.todo = job[j].todo
        BY <3>3, <3>5
      <4>2. Processed(i) \in SUBSET Nat
        BY <1>0, TableFacts DEF Processed
      <4>3. Min(Processed(i)) \in DOMAIN orders /\ orders[Min(Processed(i))].item = i
        BY <4>1, <4>2, MinOfIds DEF Processed
      <4>4. Known(l.copy, i)
        BY <4>1, <4>3 DEF TrackInv, OrdersTrack
      <4>5. orders'[Min(l.todo)].item = i
        BY <2>3, <3>1, <4>1 DEF Collect
      <4>6. Known(l.copy, i)'
        BY <1>0, <4>4
      <4>7. QED
        BY <3>4, <3>5, <4>5, <4>6 DEF JobTrack
    <3>6. QED
      BY <1>k, <1>n, <3>3, <3>4, <3>5
  <2>4. CASE Copy(j)
    <3>1. /\ Set(j, NextOrder(job[j])) /\ LocalOK(NextOrder(job[j]), DOMAIN orders', DOMAIN net')
          /\ job[j].todo # {} /\ job[j] \in Local
      BY <1>0, <2>4, CopyStep DEF JobsInv, LocalOK
    <3>2. NextOrder(job[j]).pc \in {"collect", "send"}
      BY <3>1, NextOrderFacts
    <3>3. QED
      BY <1>k, <1>n, <2>1, <3>1, <3>2
  <2>5. CASE Send(j)
    <3>0. job[j].items \in Seq(Items)
      BY DEF TypeInv, JobsInv, LocalOK, Local
    <3>1. PICK o \in Outcomes(job[j].items), l \in Local :
            /\ onChainBundleTx(o)
            /\ Set(j, l) /\ LocalOK(l, DOMAIN orders', DOMAIN net')
            /\ \/ l = IdleJob
               \/ /\ o.ok /\ l.pc = (IF j = "plain" THEN "insert" ELSE "wait")
                  /\ l.items = o.items /\ l.ar = Len(net) + 1
      BY <1>0, <2>5, SendStep
    <3>2. job'[j] = l /\ (k # j => job'[k] = job[k])
      BY <2>1, <3>1
    <3>3. CASE l # IdleJob /\ k = j
      <4>1. net'[Len(net) + 1].items = o.items
        BY <1>0, <3>0, <3>1, <3>3, TxSent
      <4>2. QED
        BY <3>1, <3>2, <3>3, <4>1 DEF JobTrack
    <3>4. QED
      BY <1>k, <1>i, <3>2, <3>3
  <2>6. CASE Wait(j)
    <3>1. PICK l : /\ Set(j, l) /\ LocalOK(l, DOMAIN orders', DOMAIN net')
                   /\ \/ l = IdleJob
                      \/ /\ net[job[j].ar].st = "confirmed" /\ l.pc = "insert"
                         /\ l.items = job[j].items /\ l.ar = job[j].ar
      BY <1>0, <2>6, WaitStep
    <3>2. job'[j] = l /\ (k # j => job'[k] = job[k])
      BY <2>1, <3>1
    <3>3. CASE l # IdleJob /\ k = j
      <4>1. UNCHANGED net /\ job[j].pc = "wait"
        BY <2>6 DEF Wait
      <4>2. QED
        BY <1>1, <3>1, <3>2, <3>3, <4>1 DEF JobTrack
    <3>4. QED
      BY <1>k, <1>i, <3>2, <3>3
  <2>7. CASE InsertArTx(j)
    <3>1. PICK l : /\ Set(j, l) /\ LocalOK(l, DOMAIN orders', DOMAIN net')
                   /\ \/ l = IdleJob
                      \/ /\ rows' = Append(rows, [ar |-> job[j].ar, items |-> job[j].items,
                                                  late |-> FALSE, status |-> "pending"])
                         /\ l.pc = "update" /\ l.items = job[j].items /\ l.ar = job[j].ar
      BY <1>0, <2>7, InsertStep
    <3>2. job'[j] = l /\ (k # j => job'[k] = job[k])
      BY <2>1, <3>1
    <3>3. CASE l # IdleJob /\ k = j
      <4>1. UNCHANGED net /\ job[j].pc = "insert"
        BY <2>7 DEF InsertArTx
      <4>2. job[j].items \in Seq(Items) /\ job[j].ar \in Nat
        BY <4>1, <1>0, TableFacts DEF JobsInv, LocalOK, Local
      <4>3. PICK x : x = [ar |-> job[j].ar, items |-> job[j].items, late |-> FALSE,
                          status |-> "pending"]
        OBVIOUS
      <4>4. x \in ArTx /\ x.items = job[j].items
        BY <4>2, <4>3 DEF ArTx
      <4>5. Len(rows) + 1 \in DOMAIN rows' /\ rows'[Len(rows) + 1] = x
        BY <1>0, <3>1, <3>3, <4>3, <4>4, AppendFacts DEF TablesInv
      <4>6. \A i \in Range(job[j].items) : Listed(i)'
        BY <4>4, <4>5 DEF Listed
      <4>7. QED
        BY <1>1, <3>1, <3>2, <3>3, <4>1, <4>6 DEF JobTrack
    <3>4. QED
      BY <1>k, <1>i, <3>2, <3>3
  <2>8. CASE UpdateOrders(j)
    <3>1. PICK l : /\ Set(j, l) /\ LocalOK(l, DOMAIN orders', DOMAIN net')
                   /\ \/ l = IdleJob
                      \/ /\ l.pc = "update" /\ Range(l.items) \subseteq Range(job[j].items)
                         /\ l.ar = job[j].ar
      BY <1>0, <2>8, UpdateStep
    <3>2. job'[j] = l /\ (k # j => job'[k] = job[k])
      BY <2>1, <3>1
    <3>3. CASE l # IdleJob /\ k = j
      <4>1. UNCHANGED net /\ job[j].pc = "update"
        BY <2>8 DEF UpdateOrders
      <4>2. QED
        BY <1>0, <1>1, <3>1, <3>2, <3>3, <4>1 DEF JobTrack
    <3>4. QED
      BY <1>k, <1>i, <3>2, <3>3
  <2>9. QED
    BY <1>2, <2>2, <2>3, <2>4, <2>5, <2>6, <2>7, <2>8 DEF JobStep
<1>3. CASE Restart
  BY <1>3, <1>i DEF Restart
<1>4. QED
  <2>1. UNCHANGED job \/ (\E j \in Jobs : JobStep(j)) \/ Restart
    BY DEF Next, OpenOrder, WatchStep, WatchBegin, WatchTx, RetryStep, RetryBegin, RetrySend,
           UpdateArTx, Confirm, Drop, FiftyBlocks, vars
  <2>2. QED
    BY <1>k, <1>2, <1>3, <2>1

LEMMA WatchTrackStep ==
  ASSUME TypeInv, TrackInv, [Next]_vars
  PROVE  WatchTrack'
<1>0. Grow /\ TablesInv /\ WatchInv
  BY TypeInvStep DEF TypeInv
<1>1. CASE watch' \subseteq watch
  BY <1>0, <1>1 DEF TrackInv, WatchTrack, WatchInv, Grow, NetGrows
<1>2. CASE WatchBegin
  <2>1. \A w \in watch' : \E n \in DOMAIN rows : w.ar = rows[n].ar /\ w.items = rows[n].items
    BY <1>2 DEF WatchBegin, Pending
  <2>2. \A n \in DOMAIN rows : rows[n].ar \in DOMAIN net
    BY <1>0 DEF TablesInv
  <2>3. QED
    BY <1>0, <2>1, <2>2 DEF TrackInv, RowsTrack, WatchTrack, Grow, NetGrows
<1>3. QED
  <2>1. watch' \subseteq watch \/ WatchBegin
    BY DEF Next, OpenOrder, JobStep, JobBegin, Collect, Copy, Send, Wait, InsertArTx, UpdateOrders,
           WatchStep, WatchTx, RetryStep, RetryBegin, RetrySend, UpdateArTx, Confirm, Drop,
           FiftyBlocks, Restart, vars
  <2>2. QED
    BY <1>1, <1>2, <2>1

\* The new transaction of a row carries the row's items only if all of them
\* were loaded.
LEMMA RetryTrackStep ==
  ASSUME "load" \notin Failing, TypeInv, TrackInv, [Next]_vars
  PROVE  RetryTrack'
<1>0. Grow /\ TablesInv /\ CountersInv /\ RetryInv
  BY TypeInvStep DEF TypeInv
<1>1. CASE UNCHANGED retry
  <2>1. retry.pc = "update" => retry.ar \in DOMAIN net /\ Min(retry.todo) \in DOMAIN rows
    BY <1>0, CurrentRow DEF RetryInv
  <2>2. QED
    BY <1>0, <1>1, <2>1 DEF TrackInv, RetryTrack, Grow, RowsGrow, NetGrows
<1>2. CASE retry'.pc # "update"
  BY <1>2 DEF RetryTrack
<1>3. CASE RetrySend
  <2>1. /\ rows[Min(retry.todo)].items \in Seq(Items) /\ retry \in RetryLocal
    BY <1>0, <1>3, CurrentRow DEF RetrySend, RetryInv
  <2>2. PICK o \in Outcomes(rows[Min(retry.todo)].items) :
          /\ onChainBundleTx(o)
          /\ retry' = IF o.ok THEN [retry EXCEPT !.pc = "update", !.ar = Len(net) + 1]
                      ELSE IdleRetry
    BY <1>3 DEF RetrySend
  <2>3. CASE o.ok
    <3>1. net'[Len(net) + 1].items = rows[Min(retry.todo)].items
      BY <1>0, <2>1, <2>2, <2>3, TxSent, OutcomeType
    <3>2. retry'.todo = retry.todo /\ retry'.ar = Len(net) + 1 /\ UNCHANGED rows
      BY <1>3, <2>1, <2>2, <2>3 DEF RetryLocal, RetrySend
    <3>3. QED
      BY <3>1, <3>2 DEF RetryTrack
  <2>4. QED
    BY <1>2, <2>2, <2>3 DEF IdleRetry
<1>4. QED
  <2>1. UNCHANGED retry \/ RetryBegin \/ RetrySend \/ UpdateArTx \/ Restart
    BY DEF Next, OpenOrder, JobStep, JobBegin, Collect, Copy, Send, Wait, InsertArTx, UpdateOrders,
           WatchStep, WatchBegin, WatchTx, RetryStep, Confirm, Drop, FiftyBlocks, vars
  <2>2. RetryBegin \/ UpdateArTx \/ Restart => retry'.pc # "update"
    <3>1. \A T : [IdleRetry EXCEPT !.pc = "send", !.todo = T].pc # "update"
      BY DEF IdleRetry
    <3>2. IdleRetry.pc # "update"
      BY DEF IdleRetry
    <3>3. QED
      BY <3>1, <3>2 DEF RetryBegin, UpdateArTx, Restart
  <2>3. QED
    BY <1>1, <1>2, <1>3, <2>1, <2>2

LEMMA TrackInvInit ==
  ASSUME Init
  PROVE  TrackInv
<1>1. orders = <<>> /\ rows = <<>> /\ net = <<>> /\ watch = {} /\ retry = IdleRetry
  BY DEF Init
<1>2. \A j \in Jobs : job[j] = IdleJob
  BY DEF Init
<1>3. \A j \in Jobs : JobTrack(j)
  BY <1>2 DEF JobTrack, IdleJob
<1>4. QED
  BY <1>1, <1>3 DEF TrackInv, NetTrack, OrdersTrack, RowsTrack, WatchTrack, RetryTrack, IdleRetry

LEMMA TrackInvStep ==
  ASSUME "load" \notin Failing, TypeInv, TrackInv, [Next]_vars
  PROVE  TrackInv'
<1>1. NetTrack'
  BY NetTrackStep DEF TrackInv
<1>2. \A j \in Jobs : JobTrack(j)'
  BY JobsTrackStep
<1>3. QED
  BY <1>1, <1>2, OrdersTrackStep, RowsTrackStep, WatchTrackStep, RetryTrackStep DEF TrackInv

LEMMA TrackInvHolds ==
  ASSUME "load" \notin Failing
  PROVE  Spec => []TrackInv
<1>1. TypeInv /\ TrackInv /\ [Next]_vars => TrackInv'
  BY TrackInvStep
<1>2. QED
  BY <1>1, TrackInvInit, TypeInvHolds, PTL DEF Spec

\* An order that says "success" has its item on chain (SuccessIsOnChain), as
\* long as retryOnChainArTx loads every item of the bundle it sends again; the
\* run OnChainRetry shows what happens when one does not load.
THEOREM SuccessesAreOnChain ==
  ASSUME "load" \notin Failing
  PROVE  Spec => []SuccessIsOnChain
<1>1. TrackInv => SuccessIsOnChain
  BY DEF TrackInv, OrdersTrack, Known, SuccessIsOnChain
<1>2. QED
  BY <1>1, TrackInvHolds, PTL

\* A pending order is on chain or listed by a row that watchArTx or
\* retryOnChainArTx will visit again (PendingIsTracked).
THEOREM PendingNeverForgotten ==
  ASSUME "load" \notin Failing
  PROVE  Spec => []PendingIsTracked
<1>1. TypeInv /\ TrackInv => PendingIsTracked
  <2> SUFFICES ASSUME TypeInv, TrackInv, NEW o \in DOMAIN orders, orders[o].chain = "pending"
               PROVE  \/ OnChainItem(orders[o].item)
                      \/ \E n \in DOMAIN rows : /\ rows[n].status \in {"pending", "failed"}
                                                /\ orders[o].item \in Range(rows[n].items)
    BY DEF PendingIsTracked
  <2>1. PICK n \in DOMAIN rows : orders[o].item \in Range(rows[n].items)
    BY DEF TrackInv, OrdersTrack, Known, Listed
  <2>2. rows[n].status \in {"pending", "success", "failed"}
    BY TableFacts DEF TypeInv, ArTx
  <2>3. QED
    BY <2>1, <2>2 DEF TrackInv, RowsTrack
<1>2. QED
  BY <1>1, TypeInvHolds, TrackInvHolds, PTL

-----------------------------------------------------------------------------
(***************************************************************************)
(* Uploading in sequence.  h comes before i if both are only ever asked    *)
(* for in sequence and h was asked for first.  A bundle is sound if what   *)
(* comes before one of its items is in it or on chain already: bundles are *)
(* collected so, and stay so while they are on their way.                  *)
(***************************************************************************)
Ordered(i) == \E o \in DOMAIN orders : orders[o].item = i

Before(h, i) ==
  /\ Sequenced(h) /\ Sequenced(i)
  /\ \E o \in DOMAIN orders :
       orders[o].item = h /\ \A p \in DOMAIN orders : orders[p].item = i => o < p

Sound(is) ==
  \A i \in is : Ordered(i) /\ \A h \in Items : Before(h, i) => h \in is \/ OnChainItem(h)

\* No further item fits into the bundle.
Full(l) == \A i \in Items : l.size + Size[i] > MaxPerOnChainSize

\* An order before one that is still to be collected is still to be collected
\* itself, or its item is in the bundle or on chain.
InTurn(l) ==
  \A t \in l.todo, o \in DOMAIN orders :
    o < t /\ Sequenced(orders[o].item) =>
      o \in l.todo \/ orders[o].item \in Range(l.items) \/ OnChainItem(orders[o].item)

LocalSound(j, l) ==
  /\ l.pc # "update" => Sound(Range(l.items))
  /\ l.pc = "copy" => /\ l.copy # "waiting"
                      /\ l.copy = "pending" => ~Sequenced(orders[Min(l.todo)].item)
  /\ j = "plain" => /\ \A t \in l.todo : ~orders[t].sort
                    /\ \A i \in Range(l.items) : ~Sequenced(i)
  /\ j = "seq" /\ l.pc # "update" => Full(l) \/ InTurn(l)

\* Only the plain job makes an order pending.
OrdersSound ==
  \A o \in DOMAIN orders : Sequenced(orders[o].item) => orders[o].chain # "pending"

NetSound == \A n \in DOMAIN net : Sound(Range(net[n].items))
RowsSound == \A n \in DOMAIN rows : Sound(Range(rows[n].items))
JobsSound == \A j \in Jobs : LocalSound(j, job[j])

BlocksInOrder ==
  \A b \in DOMAIN blocks : \A i \in Range(net[blocks[b]].items), h \in Items :
    Before(h, i) => \E a \in 1..b : Carries(blocks[a], h)

SortInv == OrdersSound /\ NetSound /\ RowsSound /\ JobsSound /\ BlocksInOrder

\* An order before one of the old state's is one of the old state's.
LEMMA OldOrders ==
  ASSUME TypeInv, TypeInv', Grow, NEW p \in DOMAIN orders, NEW o \in DOMAIN orders', o < p
  PROVE  o \in DOMAIN orders
<1>1. orders \in Seq(Order) /\ orders' \in Seq(Order)
  BY DEF TypeInv, TablesInv
<1>2. QED
  BY <1>1

LEMMA SortStable ==
  ASSUME TypeInv, TypeInv', Grow
  PROVE  /\ \A i : Sequenced(i)' => Sequenced(i)
         /\ \A h, i : Ordered(i) /\ Before(h, i)' => Before(h, i)
         /\ \A is : Sound(is) => Sound(is)'
<1>1. ASSUME NEW i, Sequenced(i)' PROVE Sequenced(i)
  BY <1>1 DEF Sequenced, Grow, OrdersGrow
<1>2. ASSUME NEW h, NEW i, Ordered(i), Before(h, i)' PROVE Before(h, i)
  <2>1. PICK o \in DOMAIN orders' : /\ orders'[o].item = h
                                    /\ \A p \in DOMAIN orders' : orders'[p].item = i => o < p
    BY <1>2 DEF Before
  <2>2. \A p \in DOMAIN orders : orders[p].item = i => o < p
    BY <2>1 DEF Grow, OrdersGrow
  <2>3. PICK p \in DOMAIN orders : orders[p].item = i
    BY <1>2 DEF Ordered
  <2>4. o \in DOMAIN orders
    BY <2>2, <2>3, OldOrders
  <2>5. orders[o].item = h
    BY <2>1, <2>4 DEF Grow, OrdersGrow
  <2>6. Sequenced(h) /\ Sequenced(i)
    BY <1>1, <1>2 DEF Before
  <2>7. QED
    BY <2>2, <2>4, <2>5, <2>6 DEF Before
<1>3. ASSUME NEW i, Ordered(i) PROVE Ordered(i)'
  BY <1>3 DEF Ordered, Grow, OrdersGrow
<1>4. ASSUME NEW is, Sound(is) PROVE Sound(is)'
  <2>1. \A i : OnChainItem(i) => OnChainItem(i)'
    BY Stable
  <2>2. QED
    BY <1>2, <1>3, <1>4, <2>1 DEF Sound
<1>5. QED
  BY <1>1, <1>2, <1>4

LEMMA LocalSoundKept ==
  ASSUME TypeInv, TypeInv', Grow, NEW j, NEW l \in Local, l.todo \subseteq DOMAIN orders,
         l.pc = "copy" => l.todo # {}, LocalSound(j, l)
  PROVE  LocalSound(j, l)'
<1>0. /\ \A i : Sequenced(i)' => Sequenced(i)
      /\ \A is : Sound(is) => Sound(is)'
      /\ \A i : OnChainItem(i) => OnChainItem(i)'
  BY SortStable, Stable
<1>1. l.pc # "update" => Sound(Range(l.items))'
  BY <1>0 DEF LocalSound
<1>2. l.pc = "copy" => /\ l.copy # "waiting"
                       /\ l.copy = "pending" => ~Sequenced(orders[Min(l.todo)].item)'
  <2>1. l.pc = "copy" => Min(l.todo) \in DOMAIN orders
    <3>1. l.todo \in SUBSET Nat
      BY DEF Local
    <3>2. QED
      BY <3>1, MinOfIds
  <2>2. l.pc = "copy" => orders'[Min(l.todo)].item = orders[Min(l.todo)].item
    BY <2>1 DEF Grow, OrdersGrow
  <2>3. QED
    BY <1>0, <2>2 DEF LocalSound
<1>3. j = "plain" => /\ \A t \in l.todo : ~orders'[t].sort
                     /\ \A i \in Range(l.items) : ~Sequenced(i)'
  BY <1>0 DEF LocalSound, Grow, OrdersGrow
<1>4. j = "seq" /\ l.pc # "update" => Full(l)' \/ InTurn(l)'
  <2>1. ASSUME InTurn(l) PROVE InTurn(l)'
    <3> SUFFICES ASSUME NEW t \in l.todo, NEW o \in DOMAIN orders', o < t,
                        Sequenced(orders[o].item)'
                 PROVE  o \in l.todo \/ orders'[o].item \in Range(l.items)
                        \/ OnChainItem(orders[o].item)'
      BY DEF InTurn
    <3>1. o \in DOMAIN orders
      BY OldOrders
    <3>2. orders'[o].item = orders[o].item
      BY <3>1 DEF Grow, OrdersGrow
    <3>3. Sequenced(orders[o].item)
      BY <1>0, <3>2
    <3>4. o \in l.todo \/ orders[o].item \in Range(l.items) \/ OnChainItem(orders[o].item)
      BY <2>1, <3>1, <3>3 DEF InTurn
    <3>5. QED
      BY <1>0, <3>2, <3>4
  <2>2. Full(l) => Full(l)'
    BY DEF Full
  <2>3. QED
    BY <2>1, <2>2 DEF LocalSound
<1>5. QED
  BY <1>1, <1>2, <1>3, <1>4 DEF LocalSound

LEMMA OrdersSoundStep ==
  ASSUME TypeInv, SortInv, [Next]_vars
  PROVE  OrdersSound'
<1>0. TypeInv' /\ Grow /\ TablesInv
  BY TypeInvStep DEF TypeInv
<1>1. \A i : Sequenced(i)' => Sequenced(i)
  BY <1>0, SortStable
<1>2. SUFFICES \A o \in DOMAIN orders' : orders'[o].chain = "pending" => ~Sequenced(orders'[o].item)
  BY <1>1 DEF OrdersSound
<1> DEFINE Goal == \A o \in DOMAIN orders' :
                     orders'[o].chain = "pending" => ~Sequenced(orders'[o].item)
<1>3. CASE UNCHANGED orders
  BY <1>3 DEF SortInv, OrdersSound
<1>4. ASSUME NEW is, NEW st \in Chain, UpdateOrdOnChainStatus(is, st),
             st = "pending" => \A i \in is : ~Sequenced(i)
      PROVE  Goal
  <2>1. /\ DOMAIN orders' = DOMAIN orders
        /\ \A o \in DOMAIN orders :
             /\ orders'[o].item = orders[o].item
             /\ orders'[o].chain = IF orders[o].item \in is THEN st ELSE orders[o].chain
    BY <1>0, <1>4, OrdersUpdated DEF OrdersGrow
  <2>2. QED
    BY <1>4, <2>1 DEF SortInv, OrdersSound
<1>5. ASSUME NEW i \in Items, NEW sort \in BOOLEAN, OpenOrder(i, sort) PROVE Goal
  <2>1. PICK x : x = [item |-> i, sort |-> sort, chain |-> "waiting"]
    OBVIOUS
  <2>2. x \in Order /\ x.chain = "waiting" /\ orders' = Append(orders, x)
    BY <1>5, <2>1 DEF Order, Chain, OpenOrder
  <2>3. /\ DOMAIN orders' = DOMAIN orders \cup {Len(orders) + 1}
        /\ orders'[Len(orders) + 1] = x
        /\ \A o \in DOMAIN orders : orders'[o] = orders[o]
    BY <1>0, <2>2, AppendFacts DEF TablesInv
  <2>4. QED
    BY <2>2, <2>3 DEF SortInv, OrdersSound
<1>6. ASSUME NEW j \in Jobs, Copy(j) PROVE Goal
  <2>1. job[j].copy \in Chain
        /\ (job[j].copy = "pending" => ~Sequenced(orders[Min(job[j].todo)].item))
    BY <1>6 DEF Copy, TypeInv, JobsInv, LocalOK, SortInv, JobsSound, LocalSound
  <2>2. QED
    BY <1>3, <1>4, <1>6, <2>1 DEF Copy
<1>7. ASSUME NEW j \in Jobs, UpdateOrders(j) PROVE Goal
  <2>1. PICK st : st = IF j = "plain" THEN "pending" ELSE "success"
    OBVIOUS
  <2>2. job[j].items \in Seq(Items) /\ job[j].items # <<>>
    BY <1>7 DEF UpdateOrders, TypeInv, JobsInv, LocalOK, Local
  <2>3. Head(job[j].items) \in Range(job[j].items)
    BY <2>2, TailFacts
  <2>4. st \in Chain /\ (st = "pending" => ~Sequenced(Head(job[j].items)))
    BY <2>1, <2>3 DEF Chain, SortInv, JobsSound, LocalSound
  <2>5. UNCHANGED orders \/ UpdateOrdOnChainStatus({Head(job[j].items)}, st)
    BY <1>7, <2>1 DEF UpdateOrders
  <2>6. QED
    BY <1>3, <1>4, <2>4, <2>5
<1>8. ASSUME NEW w \in watch, WatchTx(w) PROVE Goal
  <2>1. UNCHANGED orders \/ UpdateOrdOnChainStatus(Range(w.items), "success")
    BY <1>8 DEF WatchTx
  <2>2. "success" \in Chain /\ "success" # "pending"
    BY DEF Chain
  <2>3. QED
    BY <1>3, <1>4, <2>1, <2>2
<1>9. QED
  <2>1. \/ UNCHANGED orders \/ (\E i \in Items, sort \in BOOLEAN : OpenOrder(i, sort))
        \/ (\E j \in Jobs : Copy(j) \/ UpdateOrders(j))
        \/ \E w \in watch : WatchTx(w)
    BY DEF Next, JobStep, JobBegin, Collect, Send, Wait, InsertArTx, WatchStep, WatchBegin,
           RetryStep, RetryBegin, RetrySend, UpdateArTx, Confirm, Drop, FiftyBlocks, Restart, vars
  <2>2. QED
    BY <1>3, <1>5, <1>6, <1>7, <1>8, <2>1

\* What is sent is a bundle as it was collected, or a row's.
LEMMA NetSoundStep ==
  ASSUME "load" \notin Failing, TypeInv, SortInv, [Next]_vars
  PROVE  NetSound'
<1>0. TypeInv' /\ Grow /\ TablesInv /\ CountersInv
  BY TypeInvStep DEF TypeInv
<1>1. \A is : Sound(is) => Sound(is)'
  BY <1>0, SortStable
<1>2. SUFFICES \A n \in DOMAIN net' : n \in DOMAIN net \/ Sound(Range(net'[n].items))
  BY <1>0, <1>1 DEF SortInv, NetSound, Grow, NetGrows
<1>3. ASSUME NEW is \in Seq(Items), Sound(Range(is)),
             \E o \in Outcomes(is) : onChainBundleTx(o)
      PROVE  \A n \in DOMAIN net' : n \in DOMAIN net \/ Sound(Range(net'[n].items))
  <2>1. PICK o \in Outcomes(is) : onChainBundleTx(o)
    BY <1>3
  <2>2. o.items = is
    BY <1>3, OutcomeType
  <2>3. \A n \in DOMAIN net' : n \in DOMAIN net \/ net'[n].items = o.items
    BY <1>0, <1>3, <2>1, TxSent
  <2>4. QED
    BY <1>3, <2>2, <2>3
<1>4. ASSUME NEW j \in Jobs, Send(j)
      PROVE  \E is \in Seq(Items) : /\ Sound(Range(is))
                                    /\ \E o \in Outcomes(is) : onChainBundleTx(o)
  <2>1. job[j].items \in Seq(Items)
    BY DEF TypeInv, JobsInv, LocalOK, Local
  <2>2. job[j].pc = "send" /\ Sound(Range(job[j].items))
    BY <1>4 DEF Send, SortInv, JobsSound, LocalSound
  <2>3. QED
    BY <1>4, <2>1, <2>2 DEF Send
<1>5. ASSUME RetrySend
      PROVE  \E is \in Seq(Items) : /\ Sound(Range(is))
                                    /\ \E o \in Outcomes(is) : onChainBundleTx(o)
  <2>1. Min(retry.todo) \in DOMAIN rows /\ rows[Min(retry.todo)].items \in Seq(Items)
    BY <1>5, CurrentRow DEF RetrySend, TypeInv, RetryInv
  <2>2. Sound(Range(rows[Min(retry.todo)].items))
    BY <2>1 DEF SortInv, RowsSound
  <2>3. QED
    BY <1>5, <2>1, <2>2 DEF RetrySend
<1>6. QED
  <2>1. \/ DOMAIN net' = DOMAIN net \/ (\E j \in Jobs : Send(j)) \/ RetrySend
    BY DEF Next, OpenOrder, JobStep, JobBegin, Collect, Copy, Wait, InsertArTx, UpdateOrders,
           WatchStep, WatchBegin, WatchTx, RetryStep, RetryBegin, UpdateArTx, Confirm, Drop,
           FiftyBlocks, Restart, vars
  <2>2. QED
    BY <1>3, <1>4, <1>5, <2>1

LEMMA RowsSoundStep ==
  ASSUME TypeInv, SortInv, [Next]_vars
  PROVE  RowsSound'
<1>0. TypeInv' /\ Grow /\ TablesInv
  BY TypeInvStep DEF TypeInv
<1>1. \A is : Sound(is) => Sound(is)'
  BY <1>0, SortStable
<1>2. SUFFICES \A n \in DOMAIN rows' : n \in DOMAIN rows \/ Sound(Range(rows'[n].items))
  BY <1>0, <1>1 DEF SortInv, RowsSound, Grow, RowsGrow
<1>3. CASE DOMAIN rows' = DOMAIN rows
  BY <1>3
<1>4. ASSUME NEW j \in Jobs, InsertArTx(j)
      PROVE  \A n \in DOMAIN rows' : n \in DOMAIN rows \/ Sound(Range(rows'[n].items))
  <2>1. /\ job[j].items \in Seq(Items) /\ job[j].ar \in DOMAIN net /\ Sound(Range(job[j].items))
    BY <1>4 DEF InsertArTx, TypeInv, JobsInv, LocalOK, Local, SortInv, JobsSound, LocalSound
  <2>2. PICK x : x = [ar |-> job[j].ar, items |-> job[j].items, late |-> FALSE,
                      status |-> "pending"]
    OBVIOUS
  <2>3. x \in ArTx /\ x.items = job[j].items
    BY <1>0, <2>1, <2>2, TableFacts DEF ArTx
  <2>4. UNCHANGED rows \/ rows' = Append(rows, x)
    BY <1>4, <2>2 DEF InsertArTx
  <2>5. CASE rows' = Append(rows, x)
    <3>1. DOMAIN rows' = DOMAIN rows \cup {Len(rows) + 1} /\ rows'[Len(rows) + 1] = x
      BY <1>0, <2>3, <2>5, AppendFacts DEF TablesInv
    <3>2. QED
      BY <2>1, <2>3, <3>1
  <2>6. QED
    BY <2>4, <2>5
<1>5. QED
  <2>1. DOMAIN rows' = DOMAIN rows \/ \E j \in Jobs : InsertArTx(j)
    <3>1. CASE \E w \in watch : WatchTx(w)
      BY <3>1 DEF WatchTx, UpdateArTxStatus
    <3>2. CASE UpdateArTx \/ \E n \in DOMAIN rows : FiftyBlocks(n)
      BY <3>2 DEF UpdateArTx, FiftyBlocks
    <3>3. QED
      BY <3>1, <3>2 DEF Next, OpenOrder, JobStep, JobBegin, Collect, Copy, Send, Wait, UpdateOrders,
           WatchStep, WatchBegin, RetryStep, RetryBegin, RetrySend, Confirm, Drop, Restart, vars
  <2>2. QED
    BY <1>3, <1>4, <2>1

LEMMA BlocksInOrderStep ==
  ASSUME TypeInv, SortInv, [Next]_vars
  PROVE  BlocksInOrder'
<1>0. TypeInv' /\ Grow /\ TablesInv
  BY TypeInvStep DEF TypeInv
<1>1. /\ blocks \in Seq(Nat) /\ \A b \in DOMAIN blocks : blocks[b] \in DOMAIN net
      /\ \A n \in DOMAIN net : net'[n].items = net[n].items
      /\ \A b \in DOMAIN blocks : blocks'[b] = blocks[b]
  BY <1>0 DEF TablesInv, Grow, NetGrows, BlocksGrow
<1>2. \A n \in DOMAIN net : \A i \in Range(net[n].items), h \in Items : Before(h, i)' => Before(h, i)
  BY <1>0, SortStable DEF SortInv, NetSound, Sound
<1>3. ASSUME NEW b \in DOMAIN blocks, NEW i \in Range(net'[blocks'[b]].items), NEW h \in Items,
             Before(h, i)'
      PROVE  \E a \in 1..b : h \in Range(net'[blocks'[a]].items)
  <2>1. i \in Range(net[blocks[b]].items)
    BY <1>1
  <2>2. Before(h, i)
    BY <1>1, <1>2, <1>3, <2>1
  <2>3. PICK a \in 1..b : h \in Range(net[blocks[a]].items)
    BY <2>1, <2>2 DEF SortInv, BlocksInOrder, Carries
  <2>4. a \in DOMAIN blocks
    BY <1>1
  <2>5. QED
    BY <1>1, <2>3, <2>4
<1>4. ASSUME NEW n \in DOMAIN net, Confirm(n), NEW i \in Range(net'[n].items), NEW h \in Items,
             Before(h, i)', blocks'[Len(blocks) + 1] = n
      PROVE  \E a \in 1..(Len(blocks) + 1) : h \in Range(net'[blocks'[a]].items)
  <2>1. i \in Range(net[n].items) /\ Before(h, i)
    BY <1>1, <1>2, <1>4
  <2>2. h \in Range(net[n].items) \/ OnChainItem(h)
    BY <2>1 DEF SortInv, NetSound, Sound
  <2>3. CASE h \in Range(net[n].items)
    <3>1. Len(blocks) + 1 \in 1..(Len(blocks) + 1)
      BY <1>1
    <3>2. QED
      BY <1>1, <1>4, <2>3, <3>1
  <2>4. CASE OnChainItem(h)
    <3>1. PICK a \in DOMAIN blocks : h \in Range(net[blocks[a]].items)
      BY <2>4 DEF OnChainItem, Carries, Range
    <3>2. a \in 1..(Len(blocks) + 1)
      BY <1>1
    <3>3. QED
      BY <1>1, <3>1, <3>2
  <2>5. QED
    BY <2>2, <2>3, <2>4
<1>5. CASE UNCHANGED blocks
  <2>1. DOMAIN blocks' = DOMAIN blocks
    BY <1>5
  <2>2. QED
    BY <1>3, <2>1 DEF BlocksInOrder, Carries
<1>6. ASSUME NEW n \in DOMAIN net, Confirm(n) PROVE BlocksInOrder'
  <2>1. n \in Nat /\ blocks' = Append(blocks, n)
    BY <1>0, <1>6, TableFacts DEF Confirm
  <2>2. DOMAIN blocks' = DOMAIN blocks \cup {Len(blocks) + 1} /\ blocks'[Len(blocks) + 1] = n
    BY <1>1, <2>1, AppendFacts
  <2>3. QED
    BY <1>3, <1>4, <1>6, <2>2 DEF BlocksInOrder, Carries
<1>7. QED
  <2>1. UNCHANGED blocks \/ \E n \in DOMAIN net : Confirm(n)
    BY DEF Next, OpenOrder, JobStep, JobBegin, Collect, Copy, Send, Wait, InsertArTx, UpdateOrders,
           WatchStep, WatchBegin, WatchTx, RetryStep, RetryBegin, RetrySend, UpdateArTx, Drop,
           FiftyBlocks, Restart, vars
  <2>2. QED
    BY <1>5, <1>6, <2>1

\* The steps of a bundling job, one lemma each where it takes an argument: the
\* locals they leave are sound in the tables they found.
LEMMA IdleSound ==
  ASSUME NEW j
  PROVE  LocalSound(j, IdleJob)
<1>1. IdleJob.pc = "idle" /\ IdleJob.todo = {} /\ Range(IdleJob.items) = {}
  BY DEF IdleJob, Range
<1>2. QED
  BY <1>1 DEF LocalSound, Sound, InTurn

LEMMA BeginSound ==
  ASSUME TypeInv, TrackInv, SortInv, NEW j \in Jobs, NEW l,
         l.pc = "collect", l.todo = NeedOnChain(j), l.items = <<>>
  PROVE  LocalSound(j, l)
<1>1. Range(l.items) = {}
  BY DEF Range
<1>2. j = "plain" => \A t \in l.todo : ~orders[t].sort
  BY DEF NeedOnChain
<1>3. j = "seq" => InTurn(l)
  <2> SUFFICES ASSUME j = "seq", NEW o \in DOMAIN orders, Sequenced(orders[o].item)
               PROVE  o \in l.todo \/ OnChainItem(orders[o].item)
    BY DEF InTurn
  <2>1. orders[o].chain \in {"waiting", "success"}
    <3>1. orders[o].chain \in Chain
      BY TableFacts DEF TypeInv, Order
    <3>2. QED
      BY <3>1 DEF Chain, SortInv, OrdersSound
  <2>2. orders[o].sort
    BY DEF Sequenced
  <2>3. orders[o].sort = (j = "seq")
    BY <2>2, TableFacts DEF TypeInv, Order
  <2>4. QED
    BY <2>1, <2>3 DEF NeedOnChain, TrackInv, OrdersTrack, Known
<1>4. QED
  BY <1>1, <1>2, <1>3 DEF LocalSound, Sound

\* The next order of a job is done with: it was passed over because the bundle
\* is full, or its item is on its way.
LEMMA NextSound ==
  ASSUME TypeInv, SortInv, NEW j \in Jobs, job[j].todo # {}, job[j].pc # "update",
         j = "seq" => \/ Full(job[j])
                      \/ ~Sequenced(orders[Min(job[j].todo)].item)
                      \/ OnChainItem(orders[Min(job[j].todo)].item)
  PROVE  LocalSound(j, NextOrder(job[j]))
<1>1. PICK l : l = NextOrder(job[j])
  OBVIOUS
<1>2. job[j] \in Local
  BY DEF TypeInv, JobsInv, LocalOK
<1>3. /\ l.todo = job[j].todo \ {Min(job[j].todo)} /\ l.items = job[j].items
      /\ l.size = job[j].size /\ l.pc \in {"collect", "send"}
  BY <1>1, <1>2, NextOrderFacts
<1>4. LocalSound(j, job[j])
  BY DEF SortInv, JobsSound
<1>5. j = "seq" => Full(l) \/ InTurn(l)
  BY <1>3, <1>4 DEF LocalSound, Full, InTurn
<1>6. LocalSound(j, l)
  BY <1>3, <1>4, <1>5 DEF LocalSound
<1>7. QED
  BY <1>1, <1>6

\* The item of the next order is put into the bundle.
LEMMA AppendSound ==
  ASSUME TypeInv, SortInv, NEW j \in Jobs, job[j].todo # {}, job[j].pc = "collect",
         NEW i, i = orders[Min(job[j].todo)].item,
         job[j].size + Size[i] <= MaxPerOnChainSize,
         NEW l, l.pc \in {"collect", "send"}, l.todo = job[j].todo \ {Min(job[j].todo)},
         l.items = Append(job[j].items, i)
  PROVE  LocalSound(j, l)
<1>1. /\ LocalSound(j, job[j]) /\ job[j].items \in Seq(Items) /\ job[j].size \in Nat
      /\ job[j].todo \in SUBSET Nat
  BY DEF SortInv, JobsSound, TypeInv, JobsInv, LocalOK, Local
<1>2. PICK t : t = Min(job[j].todo)
  OBVIOUS
<1>3. t \in job[j].todo /\ t \in DOMAIN orders /\ i \in Items /\ t \in Nat
      /\ \A o \in job[j].todo : t <= o
  BY <1>1, <1>2, CurrentOrder
<1>4. Range(l.items) = Range(job[j].items) \cup {i}
  BY <1>1, <1>3, AppendFacts
<1>5. j = "plain" => ~Sequenced(i)
  BY <1>1, <1>2, <1>3 DEF LocalSound, Sequenced
<1>6. j = "seq" => InTurn(job[j])
  <2>1. ~(job[j].size + Size[i] > MaxPerOnChainSize)
    <3>1. PICK a \in Nat, b \in Nat : a = job[j].size /\ b = Size[i]
      BY <1>1, <1>3, NumberFacts
    <3>2. QED
      BY <3>1, NumberFacts
  <2>2. QED
    BY <1>1, <1>3, <2>1 DEF LocalSound, Full
<1>7. Sound(Range(l.items))
  <2>1. Sound(Range(job[j].items))
    BY <1>1 DEF LocalSound
  <2>2. Ordered(i)
    BY <1>2, <1>3 DEF Ordered
  <2>3. ASSUME NEW h \in Items, Before(h, i) PROVE h \in Range(job[j].items) \/ OnChainItem(h)
    <3>1. j = "seq"
      BY <1>5, <2>3 DEF Before, Jobs
    <3>2. PICK o \in DOMAIN orders : /\ orders[o].item = h
                                     /\ \A p \in DOMAIN orders : orders[p].item = i => o < p
      BY <2>3 DEF Before
    <3>3. o < t /\ o \in Nat
      BY <1>2, <1>3, <3>2, TableFacts DEF TypeInv
    <3>4. o \notin job[j].todo
      BY <1>3, <3>3
    <3>5. Sequenced(orders[o].item)
      BY <2>3, <3>2 DEF Before
    <3>6. QED
      BY <1>3, <1>6, <3>1, <3>2, <3>3, <3>4, <3>5 DEF InTurn
  <2>4. QED
    BY <1>4, <2>1, <2>2, <2>3 DEF Sound
<1>8. j = "seq" => InTurn(l)
  BY <1>2, <1>4, <1>6 DEF InTurn
<1>9. j = "plain" => /\ \A u \in l.todo : ~orders[u].sort
                     /\ \A h \in Range(l.items) : ~Sequenced(h)
  BY <1>1, <1>4, <1>5 DEF LocalSound
<1>10. QED
  BY <1>7, <1>8, <1>9 DEF LocalSound

LEMMA JobsSoundStep ==
  ASSUME "load" \notin Failing, \A h, i \in Items : Size[h] = Size[i],
         TypeInv, TrackInv, SortInv, [Next]_vars
  PROVE  JobsSound'
<1>0. TypeInv' /\ Grow /\ TablesInv /\ CountersInv /\ JobsInv
  BY TypeInvStep DEF TypeInv
<1>1. \A j \in Jobs : /\ LocalSound(j, job[j]) /\ job[j] \in Local
                      /\ job[j].todo \subseteq DOMAIN orders
                      /\ job[j].pc = "copy" => job[j].todo # {}
  BY <1>0 DEF SortInv, JobsSound, JobsInv, LocalOK
<1>2. ASSUME NEW k \in Jobs, NEW l, job'[k] = l, LocalSound(k, l)' PROVE LocalSound(k, job[k])'
  BY <1>2
<1>k. ASSUME NEW k \in Jobs, job'[k] = job[k] PROVE LocalSound(k, job[k])'
  <2>1. PICK l : l = job[k]
    OBVIOUS
  <2>2. LocalSound(k, l)'
    BY <1>0, <1>1, <2>1, LocalSoundKept
  <2>3. QED
    BY <1>2, <1>k, <2>1, <2>2
<1>i. ASSUME NEW k \in Jobs, job'[k] = IdleJob PROVE LocalSound(k, job[k])'
  <2>1. LocalSound(k, IdleJob)'
    <3>1. IdleJob.pc = "idle" /\ IdleJob.todo = {} /\ Range(IdleJob.items) = {}
      BY DEF IdleJob, Range
    <3>2. QED
      BY <3>1 DEF LocalSound, Sound, InTurn
  <2>2. QED
    BY <1>2, <1>i, <2>1
<1>3. ASSUME NEW j \in Jobs, JobStep(j), NEW k \in Jobs PROVE LocalSound(k, job[k])'
  <2>d. DOMAIN orders' = DOMAIN orders
    BY <1>3 DEF JobStep, JobBegin, Collect, Copy, Send, Wait, InsertArTx, UpdateOrders,
               UpdateOrdOnChainStatus
  <2>s. ASSUME NEW l, Set(j, l), LocalOK(l, DOMAIN orders', DOMAIN net'), LocalSound(j, l)
        PROVE  LocalSound(k, job[k])'
    <3>1. job'[j] = l /\ (k # j => job'[k] = job[k])
      BY <1>0, <2>s, JobSet
    <3>2. l \in Local /\ l.todo \subseteq DOMAIN orders /\ (l.pc = "copy" => l.todo # {})
      BY <2>s, <2>d DEF LocalOK
    <3>3. LocalSound(j, l)'
      BY <1>0, <2>s, <3>2, LocalSoundKept
    <3>4. QED
      BY <1>2, <1>k, <3>1, <3>3
  <2>1. CASE JobBegin(j)
    <3>1. PICK l : /\ Set(j, l) /\ LocalOK(l, DOMAIN orders', DOMAIN net')
                   /\ l.pc = "collect" /\ l.todo = NeedOnChain(j) /\ l.items = <<>>
      BY <1>0, <2>1, JobBeginStep
    <3>2. QED
      BY <2>s, <3>1, BeginSound
  <2>2. CASE Collect(j)
    <3>1. PICK i : i = orders[Min(job[j].todo)].item
      OBVIOUS
    <3>2. job[j].todo # {} /\ job[j].pc = "collect" /\ job[j].size \in Nat
      BY <2>2 DEF Collect, TypeInv, JobsInv, LocalOK, Local
    <3>3. i \in Items
      BY <3>1, <3>2, CurrentOrder
    <3>4. PICK l : /\ Set(j, l) /\ LocalOK(l, DOMAIN orders', DOMAIN net')
                   /\ \/ /\ l = NextOrder(job[j])
                         /\ job[j].size + Size[i] > MaxPerOnChainSize
                      \/ /\ Processed(i) # {} /\ l.pc = "copy"
                         /\ l.copy = orders[Min(Processed(i))].chain
                         /\ l.todo = job[j].todo /\ l.items = job[j].items /\ l.size = job[j].size
                      \/ /\ job[j].size + Size[i] <= MaxPerOnChainSize
                         /\ l.pc \in {"collect", "send"}
                         /\ l.todo = job[j].todo \ {Min(job[j].todo)}
                         /\ l.items = Append(job[j].items, i)
      BY <1>0, <2>2, <3>1, CollectStep
    <3>5. CASE l = NextOrder(job[j]) /\ job[j].size + Size[i] > MaxPerOnChainSize
      <4>1. Full(job[j])
        BY <3>3, <3>5 DEF Full
      <4>2. LocalSound(j, l)
        BY <3>2, <3>5, <4>1, NextSound
      <4>3. QED
        BY <2>s, <3>4, <4>2
    <3>6. CASE /\ Processed(i) # {} /\ l.pc = "copy" /\ l.copy = orders[Min(Processed(i))].chain
               /\ l.todo = job[j].todo /\ l.items = job[j].items /\ l.size = job[j].size
      <4>1. Processed(i) \in SUBSET Nat
        BY <1>0, TableFacts DEF Processed
      <4>2. Min(Processed(i)) \in Processed(i)
        BY <3>6, <4>1, MinOfIds
      <4>3. l.copy \in {"pending", "success"} /\ (l.copy = "pending" => ~Sequenced(i))
        BY <3>6, <4>2 DEF Processed, SortInv, OrdersSound
      <4>4. LocalSound(j, job[j])
        BY <1>1
      <4>5. LocalSound(j, l)
        BY <3>1, <3>2, <3>6, <4>3, <4>4 DEF LocalSound, Full, InTurn
      <4>6. QED
        BY <2>s, <3>4, <4>5
    <3>7. CASE /\ job[j].size + Size[i] <= MaxPerOnChainSize
               /\ l.pc \in {"collect", "send"}
               /\ l.todo = job[j].todo \ {Min(job[j].todo)}
               /\ l.items = Append(job[j].items, i)
      <4>1. LocalSound(j, l)
        BY <3>1, <3>2, <3>7, AppendSound
      <4>2. QED
        BY <2>s, <3>4, <4>1
    <3>8. QED
      BY <3>4, <3>5, <3>6, <3>7
  <2>3. CASE Copy(j)
    <3>1. /\ Set(j, NextOrder(job[j])) /\ LocalOK(NextOrder(job[j]), DOMAIN orders', DOMAIN net')
          /\ job[j].todo # {} /\ job[j].pc = "copy" /\ job[j].copy \in Chain
      BY <1>0, <2>3, CopyStep DEF Copy, JobsInv, LocalOK
    <3>2. /\ Known(job[j].copy, orders[Min(job[j].todo)].item) /\ job[j].copy # "waiting"
          /\ job[j].copy = "pending" => ~Sequenced(orders[Min(job[j].todo)].item)
      BY <1>1, <3>1 DEF TrackInv, JobTrack, LocalSound
    <3>3. \/ ~Sequenced(orders[Min(job[j].todo)].item)
          \/ OnChainItem(orders[Min(job[j].todo)].item)
      BY <3>1, <3>2 DEF Known, Chain
    <3>4. LocalSound(j, NextOrder(job[j]))
      BY <3>1, <3>3, NextSound
    <3>5. QED
      BY <2>s, <3>1, <3>4
  <2>4. CASE Send(j)
    <3>0. job[j].items \in Seq(Items) /\ job[j].pc = "send"
      BY <2>4 DEF Send, TypeInv, JobsInv, LocalOK, Local
    <3>1. PICK o \in Outcomes(job[j].items), l \in Local :
            /\ Set(j, l) /\ LocalOK(l, DOMAIN orders', DOMAIN net')
            /\ \/ l = IdleJob
               \/ /\ l.pc = (IF j = "plain" THEN "insert" ELSE "wait") /\ l.items = o.items
                  /\ l.todo = job[j].todo /\ l.size = job[j].size
      BY <1>0, <2>4, SendStep
    <3>2. o.items = job[j].items
      BY <3>0, OutcomeType
    <3>3. CASE l # IdleJob
      BY <1>1, <2>s, <3>0, <3>1, <3>2, <3>3 DEF LocalSound, Full, InTurn
    <3>4. CASE l = IdleJob
      BY <2>s, <3>1, <3>4, IdleSound
    <3>5. QED
      BY <3>3, <3>4
  <2>5. CASE Wait(j)
    <3>1. PICK l : /\ Set(j, l) /\ LocalOK(l, DOMAIN orders', DOMAIN net')
                   /\ \/ l = IdleJob
                      \/ /\ l.pc = "insert" /\ l.items = job[j].items
                         /\ l.todo = job[j].todo /\ l.size = job[j].size
      BY <1>0, <2>5, WaitStep
    <3>2. job[j].pc = "wait"
      BY <2>5 DEF Wait
    <3>3. LocalSound(j, l)
      BY <1>1, <3>1, <3>2, IdleSound DEF LocalSound, Full, InTurn
    <3>4. QED
      BY <2>s, <3>1, <3>3
  <2>6. CASE InsertArTx(j)
    <3>1. PICK l : /\ Set(j, l) /\ LocalOK(l, DOMAIN orders', DOMAIN net')
                   /\ \/ l = IdleJob
                      \/ /\ l.pc = "update" /\ l.items = job[j].items
                         /\ l.todo = job[j].todo /\ l.size = job[j].size
      BY <1>0, <2>6, InsertStep
    <3>2. LocalSound(j, l)
      BY <1>1, <3>1, IdleSound DEF LocalSound, Full, InTurn
    <3>3. QED
      BY <2>s, <3>1, <3>2
  <2>7. CASE UpdateOrders(j)
    <3>1. PICK l : /\ Set(j, l) /\ LocalOK(l, DOMAIN orders', DOMAIN net')
                   /\ \/ l = IdleJob
                      \/ /\ l.pc = "update" /\ Range(l.items) \subseteq Range(job[j].items)
                         /\ l.todo = job[j].todo /\ l.size = job[j].size
      BY <1>0, <2>7, UpdateStep
    <3>2. LocalSound(j, l)
      BY <1>1, <3>1, IdleSound DEF LocalSound
    <3>3. QED
      BY <2>s, <3>1, <3>2
  <2>8. QED
    BY <1>3, <2>1, <2>2, <2>3, <2>4, <2>5, <2>6, <2>7 DEF JobStep
<1>4. QED
  <2>1. UNCHANGED job \/ (\E j \in Jobs : JobStep(j)) \/ \A j \in Jobs : job'[j] = IdleJob
    BY DEF Next, OpenOrder, WatchStep, WatchBegin, WatchTx, RetryStep, RetryBegin, RetrySend,
           UpdateArTx, Confirm, Drop, FiftyBlocks, Restart, vars
  <2>2. \A k \in Jobs : LocalSound(k, job[k])'
    BY <1>k, <1>i, <1>3, <2>1
  <2>3. QED
    BY <2>2 DEF JobsSound

LEMMA SortInvInit ==
  ASSUME Init
  PROVE  SortInv
<1>1. orders = <<>> /\ rows = <<>> /\ net = <<>> /\ blocks = <<>>
  BY DEF Init
<1>2. \A j \in Jobs : job[j] = IdleJob
  BY DEF Init
<1>3. JobsSound
  BY <1>2, IdleSound DEF JobsSound
<1>4. QED
  BY <1>1, <1>3 DEF SortInv, OrdersSound, NetSound, RowsSound, BlocksInOrder

\* Of two items submitted only to be uploaded in sequence the later one is
\* never on chain before the earlier one (SortedInOrder): if every item loads,
\* and if an item that does not fit into the bundle means that no later one
\* does, as with items of one size.  onChainOrds passes over an order that is
\* too large and goes on with the smaller ones behind it.
THEOREM SequenceIsKept ==
  ASSUME "load" \notin Failing, \A h, i \in Items : Size[h] = Size[i]
  PROVE  Spec => []SortedInOrder
<1>1. TypeInv /\ TrackInv /\ SortInv /\ [Next]_vars => SortInv'
  BY OrdersSoundStep, NetSoundStep, RowsSoundStep, JobsSoundStep, BlocksInOrderStep DEF SortInv
<1>2. TypeInv /\ SortInv => SortedInOrder
  <2> SUFFICES ASSUME TypeInv, SortInv, NEW o \in DOMAIN orders, NEW p \in DOMAIN orders, o < p,
                      Sequenced(orders[o].item), Sequenced(orders[p].item),
                      NEW b \in DOMAIN blocks, Carries(blocks[b], orders[p].item),
                      \A q \in 1..(o - 1) : orders[q].item # orders[p].item
               PROVE  \E a \in 1..b : Carries(blocks[a], orders[o].item)
    BY DEF SortedInOrder
  <2>1. /\ \A q \in DOMAIN orders : q \in Nat /\ q >= 1
        /\ b \in Nat /\ b >= 1
    <3>1. orders \in Seq(Order) /\ blocks \in Seq(Nat)
      BY DEF TypeInv, TablesInv
    <3>2. QED
      BY <3>1
  <2>2. CASE orders[o].item = orders[p].item
    <3>1. b \in 1..b
      BY <2>1
    <3>2. QED
      BY <2>2, <3>1
  <2>3. CASE orders[o].item # orders[p].item
    <3>1. \A q \in DOMAIN orders : orders[q].item = orders[p].item => o < q
      <4> SUFFICES ASSUME NEW q \in DOMAIN orders, orders[q].item = orders[p].item, ~(o < q)
                   PROVE  FALSE
        OBVIOUS
      <4>1. q # o
        BY <2>3
      <4>2. q \in 1..(o - 1)
        BY <2>1, <4>1
      <4>3. QED
        BY <4>2
    <3>2. Before(orders[o].item, orders[p].item)
      BY <3>1 DEF Before
    <3>3. orders[o].item \in Items
      BY TableFacts DEF TypeInv, Order
    <3>4. QED
      BY <3>2, <3>3 DEF SortInv, BlocksInOrder, Carries
  <2>4. QED
    BY <2>2, <2>3
<1>3. QED
  BY <1>1, <1>2, SortInvInit, TypeInvHolds, TrackInvHolds, PTL DEF Spec

-----------------------------------------------------------------------------
(***************************************************************************)
(* The jobs implement Delivery.  Beyond TrackInv this takes that whatever  *)
(* is on its way was ordered, and that a job copies no status "waiting".   *)
(***************************************************************************)
Wanted(l) ==
  /\ \A i \in Range(l.items) : Ordered(i)
  /\ l.pc = "copy" => l.copy # "waiting"

WantedInv ==
  /\ \A j \in Jobs : Wanted(job[j])
  /\ \A n \in DOMAIN rows : \A i \in Range(rows[n].items) : Ordered(i)

LEMMA OrderedStays ==
  ASSUME Grow
  PROVE  \A i : Ordered(i) => Ordered(i)'
  BY DEF Grow, OrdersGrow, Ordered

\* A bundling job takes its items from orders, and copies the status of an
\* order that is not waiting.
LEMMA JobsWantedStep ==
  ASSUME "load" \notin Failing, TypeInv, WantedInv, [Next]_vars, NEW k \in Jobs
  PROVE  Wanted(job[k])'
<1>0. /\ Grow /\ JobsInv /\ TablesInv /\ (\A i : Ordered(i) => Ordered(i)')
      /\ \A j \in Jobs : \A i \in Range(job[j].items) : Ordered(i)'
  BY TypeInvStep, OrderedStays DEF TypeInv, WantedInv, Wanted
<1>1. CASE job'[k] = job[k]
  BY <1>0, <1>1 DEF WantedInv, Wanted
<1>2. CASE job'[k].pc # "copy" /\ \A i \in Range(job'[k].items) : Ordered(i)'
  BY <1>2 DEF Wanted
<1>3. CASE job'[k] = IdleJob
  BY <1>2, <1>3 DEF IdleJob, Range
<1>4. ASSUME NEW j \in Jobs, JobStep(j) PROVE Wanted(job[k])'
  <2>0. /\ job[j] \in Local /\ job[j].items \in Seq(Items)
        /\ (\A i \in Range(job[j].items) : Ordered(i)')
    BY <1>0 DEF JobsInv, LocalOK, Local
  <2>1. ASSUME NEW l, Set(j, l), LocalOK(l, DOMAIN orders', DOMAIN net'),
               l = IdleJob \/ (l.pc # "copy" /\ \A i \in Range(l.items) : Ordered(i)')
        PROVE  Wanted(job[k])'
    <3>1. job'[j] = l /\ (k # j => job'[k] = job[k])
      BY <1>0, <2>1, JobSet
    <3>2. QED
      BY <1>1, <1>2, <1>3, <2>1, <3>1
  <2>2. CASE JobBegin(j)
    <3>1. PICK l : /\ Set(j, l) /\ LocalOK(l, DOMAIN orders', DOMAIN net') /\ l.pc = "collect"
                   /\ l.items = <<>>
      BY <1>0, <2>2, JobBeginStep
    <3>2. Range(l.items) = {}
      BY <3>1 DEF Range
    <3>3. QED
      BY <2>1, <3>1, <3>2
  <2>3. CASE Collect(j)
    <3>1. PICK i : i = orders[Min(job[j].todo)].item
      OBVIOUS
    <3>2. job[j].todo # {}
      BY <2>3 DEF Collect, TypeInv, JobsInv, LocalOK
    <3>3. i \in Items /\ Ordered(i)
      BY <3>1, <3>2, CurrentOrder DEF Ordered
    <3>4. PICK l : /\ Set(j, l) /\ LocalOK(l, DOMAIN orders', DOMAIN net')
                   /\ \/ l = NextOrder(job[j])
                      \/ /\ Processed(i) # {} /\ l.pc = "copy"
                         /\ l.copy = orders[Min(Processed(i))].chain /\ l.items = job[j].items
                      \/ /\ l.pc \in {"collect", "send"} /\ l.items = Append(job[j].items, i)
      BY <1>0, <2>3, <3>1, CollectStep
    <3>5. CASE l = NextOrder(job[j])
      BY <2>0, <2>1, <3>2, <3>4, <3>5, NextOrderFacts
    <3>6. CASE l.pc \in {"collect", "send"} /\ l.items = Append(job[j].items, i)
      <4>1. Range(l.items) = Range(job[j].items) \cup {i}
        BY <2>0, <3>3, <3>6, AppendFacts
      <4>2. QED
        BY <1>0, <2>0, <2>1, <3>3, <3>4, <3>6, <4>1
    <3>7. CASE /\ Processed(i) # {} /\ l.pc = "copy"
               /\ l.copy = orders[Min(Processed(i))].chain /\ l.items = job[j].items
      <4>1. Processed(i) \in SUBSET Nat
        BY <1>0, TableFacts DEF Processed
      <4>2. l.copy # "waiting"
        BY <3>7, <4>1, MinOfIds DEF Processed
      <4>3. job'[j] = l /\ (k # j => job'[k] = job[k])
        BY <1>0, <3>4, JobSet
      <4>4. CASE k = j
        BY <2>0, <3>7, <4>2, <4>3, <4>4 DEF Wanted
      <4>5. QED
        BY <1>1, <4>3, <4>4
    <3>8. QED
      BY <3>4, <3>5, <3>6, <3>7
  <2>4. CASE Copy(j)
    <3>1. /\ Set(j, NextOrder(job[j])) /\ LocalOK(NextOrder(job[j]), DOMAIN orders', DOMAIN net')
          /\ job[j].todo # {}
      BY <1>0, <2>4, CopyStep
    <3>2. QED
      BY <2>0, <2>1, <3>1, NextOrderFacts
  <2>5. CASE Send(j)
    <3>1. PICK o \in Outcomes(job[j].items), l \in Local :
            /\ Set(j, l) /\ LocalOK(l, DOMAIN orders', DOMAIN net')
            /\ \/ l = IdleJob
               \/ l.pc = (IF j = "plain" THEN "insert" ELSE "wait") /\ l.items = o.items
      BY <1>0, <2>5, SendStep
    <3>2. o.items = job[j].items
      BY <2>0, OutcomeType
    <3>3. QED
      BY <2>0, <2>1, <3>1, <3>2
  <2>6. CASE Wait(j)
    <3>1. PICK l : /\ Set(j, l) /\ LocalOK(l, DOMAIN orders', DOMAIN net')
                   /\ l = IdleJob \/ (l.pc = "insert" /\ l.items = job[j].items)
      BY <1>0, <2>6, WaitStep
    <3>2. QED
      BY <2>0, <2>1, <3>1
  <2>7. CASE InsertArTx(j)
    <3>1. PICK l : /\ Set(j, l) /\ LocalOK(l, DOMAIN orders', DOMAIN net')
                   /\ l = IdleJob \/ (l.pc = "update" /\ l.items = job[j].items)
      BY <1>0, <2>7, InsertStep
    <3>2. QED
      BY <2>0, <2>1, <3>1
  <2>8. CASE UpdateOrders(j)
    <3>1. PICK l : /\ Set(j, l) /\ LocalOK(l, DOMAIN orders', DOMAIN net')
                   /\ \/ l = IdleJob
                      \/ l.pc = "update" /\ Range(l.items) \subseteq Range(job[j].items)
      BY <1>0, <2>8, UpdateStep
    <3>2. QED
      BY <2>0, <2>1, <3>1
  <2>9. QED
    BY <1>4, <2>2, <2>3, <2>4, <2>5, <2>6, <2>7, <2>8 DEF JobStep
<1>5. CASE Restart
  BY <1>3, <1>5 DEF Restart
<1>6. QED
  <2>1. UNCHANGED job \/ (\E j \in Jobs : JobStep(j)) \/ Restart
    BY DEF Next, OpenOrder, WatchStep, WatchBegin, WatchTx, RetryStep, RetryBegin, RetrySend,
           UpdateArTx, Confirm, Drop, FiftyBlocks, vars
  <2>2. QED
    BY <1>1, <1>4, <1>5, <2>1

\* A row is inserted with the items of its job, and keeps them.
LEMMA RowsWantedStep ==
  ASSUME TypeInv, WantedInv, [Next]_vars
  PROVE  \A n \in DOMAIN rows' : \A i \in Range(rows'[n].items) : Ordered(i)'
<1>0. Grow /\ TypeInv' /\ TablesInv /\ (\A i : Ordered(i) => Ordered(i)')
  BY TypeInvStep, OrderedStays DEF TypeInv
<1>1. CASE DOMAIN rows' = DOMAIN rows
  BY <1>0, <1>1 DEF WantedInv, Grow, RowsGrow
<1>2. ASSUME NEW j \in Jobs, InsertArTx(j), rows' # rows
      PROVE  \A n \in DOMAIN rows' : \A i \in Range(rows'[n].items) : Ordered(i)'
  <2>1. job[j].items \in Seq(Items) /\ job[j].ar \in Nat
    <3>1. job[j].ar \in DOMAIN net /\ job[j].items \in Seq(Items)
      BY <1>2 DEF InsertArTx, TypeInv, JobsInv, LocalOK, Local
    <3>2. QED
      BY <1>0, <3>1, TableFacts
  <2>2. PICK x : x = [ar |-> job[j].ar, items |-> job[j].items, late |-> FALSE,
                      status |-> "pending"]
    OBVIOUS
  <2>3. x \in ArTx /\ x.items = job[j].items
    BY <2>1, <2>2 DEF ArTx
  <2>4. rows' = Append(rows, x)
    BY <1>2, <2>2 DEF InsertArTx
  <2>5. /\ DOMAIN rows' = DOMAIN rows \cup {Len(rows) + 1}
        /\ rows'[Len(rows) + 1] = x /\ \A n \in DOMAIN rows : rows'[n] = rows[n]
    BY <1>0, <2>3, <2>4, AppendFacts DEF TablesInv
  <2>6. QED
    BY <1>0, <2>3, <2>5 DEF WantedInv, Wanted
<1>3. DOMAIN rows' = DOMAIN rows \/ (\E j \in Jobs : InsertArTx(j) /\ rows' # rows)
  BY DEF Next, OpenOrder, JobStep, JobBegin, Collect, Copy, Send, Wait, InsertArTx, UpdateOrders,
         WatchStep, WatchBegin, WatchTx, UpdateArTxStatus, RetryStep, RetryBegin, RetrySend,
         UpdateArTx, Confirm, Drop, FiftyBlocks, Restart, vars
<1>4. QED
  BY <1>1, <1>2, <1>3

LEMMA WantedHolds ==
  ASSUME "load" \notin Failing
  PROVE  Spec => []WantedInv
<1>1. Init => WantedInv
  <2> SUFFICES ASSUME Init PROVE WantedInv
    OBVIOUS
  <2>1. rows = <<>> /\ \A j \in Jobs : job[j] = IdleJob
    BY DEF Init
  <2>2. IdleJob.items = <<>> /\ IdleJob.pc = "idle"
    BY DEF IdleJob
  <2>3. QED
    BY <2>1, <2>2 DEF WantedInv, Wanted, Range
<1>2. TypeInv /\ WantedInv /\ [Next]_vars => WantedInv'
  BY JobsWantedStep, RowsWantedStep DEF WantedInv
<1>3. QED
  BY <1>1, <1>2, TypeInvHolds, PTL DEF Spec

\* The orders as Delivery sees them.
Account == [item: Items, status: Chain]

LEMMA AccountsFacts ==
  ASSUME TablesInv
  PROVE  /\ Accounts \in Seq(Account) /\ Len(Accounts) = Len(orders)
         /\ DOMAIN Accounts = DOMAIN orders
         /\ \A o \in DOMAIN orders : /\ Accounts[o] \in Account
                                     /\ Accounts[o].item = orders[o].item
                                     /\ Accounts[o].status = orders[o].chain
<1>1. DOMAIN orders = 1..Len(orders) /\ Len(orders) \in Nat
  BY LenProperties DEF TablesInv
<1>2. \A o \in DOMAIN orders : orders[o].item \in Items /\ orders[o].chain \in Chain
  BY TableFacts DEF Order
<1>3. Accounts \in [1..Len(orders) -> Account]
  BY <1>1, <1>2 DEF Accounts, Account
<1>4. Accounts \in Seq(Account)
  BY <1>1, <1>3, SeqDef
<1>5. Len(Accounts) = Len(orders)
  <2>1. DOMAIN Accounts = 1..Len(Accounts) /\ Len(Accounts) \in Nat
    BY <1>4, LenProperties
  <2>2. QED
    BY <1>1, <1>3, <2>1
<1>6. QED
  BY <1>1, <1>2, <1>3, <1>4, <1>5 DEF Accounts

\* Sent and mined items stay so, and a step that adds no transaction or block
\* adds none.
LEMMA ItemsFrame ==
  ASSUME TypeInv, Grow
  PROVE  /\ UNCHANGED blocks => MinedItems' = MinedItems
         /\ DOMAIN net' = DOMAIN net => SentItems' = SentItems
         /\ \A n \in DOMAIN net : Range(net'[n].items) = Range(net[n].items)
<1>1. \A n \in DOMAIN net : net'[n].items = net[n].items
  BY DEF Grow, NetGrows
<1>2. \A n \in Range(blocks) : n \in DOMAIN net
  BY DEF Range, TypeInv, TablesInv
<1>3. \A n \in DOMAIN net : Range(net'[n].items) = Range(net[n].items)
  BY <1>1
<1>4. \A n \in DOMAIN net : \A i : Carries(n, i)' <=> Carries(n, i)
  BY <1>3 DEF Carries
<1>5. ASSUME UNCHANGED blocks PROVE MinedItems' = MinedItems
  <2>1. \A i : OnChainItem(i)' <=> OnChainItem(i)
    BY <1>2, <1>4, <1>5 DEF OnChainItem
  <2>2. QED
    BY <2>1 DEF MinedItems
<1>6. ASSUME DOMAIN net' = DOMAIN net PROVE SentItems' = SentItems
  BY <1>4, <1>6 DEF SentItems
<1>7. QED
  BY <1>3, <1>5, <1>6

LEMMA OrderPlaced ==
  ASSUME TypeInv, Grow, NEW i \in Items, NEW sort \in BOOLEAN, OpenOrder(i, sort)
  PROVE  Promise!Place(i)
<1>0. TablesInv
  BY DEF TypeInv
<1>1. PICK x : x = [item |-> i, sort |-> sort, chain |-> "waiting"]
  OBVIOUS
<1>2. x \in Order /\ x.item = i /\ x.chain = "waiting" /\ orders' = Append(orders, x)
  BY <1>1 DEF Order, Chain, OpenOrder
<1>3. /\ orders' \in Seq(Order) /\ DOMAIN orders' = DOMAIN orders \cup {Len(orders) + 1}
      /\ orders'[Len(orders) + 1] = x /\ \A o \in DOMAIN orders : orders'[o] = orders[o]
  BY <1>0, <1>2, AppendFacts DEF TablesInv
<1>4. PICK e \in Account : e = [item |-> i, status |-> "waiting"]
  BY DEF Account, Chain
<1>5. PICK t : t = Append(Accounts, e)
  OBVIOUS
<1>6. /\ t \in Seq(Account) /\ DOMAIN t = DOMAIN orders \cup {Len(orders) + 1}
      /\ t[Len(orders) + 1] = e /\ \A o \in DOMAIN orders : t[o] = Accounts[o]
  BY <1>0, <1>5, AccountsFacts, AppendFacts
<1>7. DOMAIN Accounts' = DOMAIN orders'
      /\ \A o \in DOMAIN orders' :
           Accounts'[o] = [item |-> orders'[o].item, status |-> orders'[o].chain]
  BY DEF Accounts
<1>8. \A o \in DOMAIN orders' : Accounts'[o] = t[o]
  <2>1. Accounts'[Len(orders) + 1] = e
    BY <1>2, <1>3, <1>4, <1>7
  <2>2. \A o \in DOMAIN orders : Accounts'[o] = Accounts[o]
    BY <1>3, <1>7 DEF Accounts
  <2>3. QED
    BY <1>3, <1>6, <2>1, <2>2
<1>9. Accounts' = t
  <2>1. t = [o \in DOMAIN t |-> t[o]]
    BY <1>6
  <2>2. Accounts' = [o \in DOMAIN orders' |-> Accounts'[o]]
    BY DEF Accounts
  <2>3. QED
    BY <1>3, <1>6, <1>8, <2>1, <2>2
<1>10. UNCHANGED <<SentItems, MinedItems>>
  BY ItemsFrame DEF OpenOrder
<1>11. QED
  BY <1>4, <1>5, <1>9, <1>10 DEF Promise!Place

\* An update of orders reports what their items have reached.
LEMMA StatusReported ==
  ASSUME TypeInv, TrackInv, Grow, UNCHANGED <<net, blocks>>, NEW is \in SUBSET Items,
         NEW st \in {"pending", "success"}, UpdateOrdOnChainStatus(is, st),
         \A i \in is : Known(st, i)
  PROVE  Promise!Report(is, st)
<1>0. TablesInv /\ st \in Chain
  BY DEF TypeInv, Chain
<1>1. /\ DOMAIN orders' = DOMAIN orders
      /\ \A o \in DOMAIN orders :
           /\ orders'[o].item = orders[o].item
           /\ orders'[o].chain = IF orders[o].item \in is THEN st ELSE orders[o].chain
  BY <1>0, OrdersUpdated DEF OrdersGrow
<1>2. is \subseteq IF st = "success" THEN MinedItems ELSE SentItems
  <2>1. CASE st = "success"
    BY <2>1 DEF Known, MinedItems
  <2>2. CASE st = "pending"
    <3> SUFFICES ASSUME NEW i \in is PROVE i \in SentItems
      BY <2>2
    <3>1. PICK n \in DOMAIN rows : i \in Range(rows[n].items)
      BY <2>2 DEF Known, Listed
    <3>2. rows[n].ar \in DOMAIN net /\ i \in Range(net[rows[n].ar].items)
      BY <1>0, <3>1 DEF TablesInv, TrackInv, RowsTrack
    <3>3. QED
      BY <3>2 DEF SentItems, Carries
  <2>3. QED
    BY <2>1, <2>2
<1>3. Accounts' = [o \in DOMAIN Accounts |->
                     IF Accounts[o].item \in is THEN [Accounts[o] EXCEPT !.status = st]
                     ELSE Accounts[o]]
  <2>1. ASSUME NEW o \in DOMAIN orders
        PROVE  [item |-> orders'[o].item, status |-> orders'[o].chain]
                 = IF Accounts[o].item \in is THEN [Accounts[o] EXCEPT !.status = st]
                   ELSE Accounts[o]
    <3>1. Accounts[o] = [item |-> orders[o].item, status |-> orders[o].chain]
      BY DEF Accounts
    <3>2. QED
      BY <1>1, <3>1
  <2>2. DOMAIN Accounts = DOMAIN orders
    BY DEF Accounts
  <2>3. Accounts' = [o \in DOMAIN orders |->
                       [item |-> orders'[o].item, status |-> orders'[o].chain]]
    BY <1>1 DEF Accounts
  <2>4. QED
    BY <2>1, <2>2, <2>3
<1>4. UNCHANGED <<SentItems, MinedItems>>
  BY ItemsFrame
<1>5. QED
  BY <1>2, <1>3, <1>4 DEF Promise!Report

\* A bundle that reaches the network holds items that were ordered.
LEMMA BundleSent ==
  ASSUME TypeInv, Grow, UNCHANGED <<orders, blocks>>, NEW is \in Seq(Items),
         \A i \in Range(is) : Ordered(i), "load" \notin Failing,
         NEW o \in Outcomes(is), onChainBundleTx(o)
  PROVE  \E S \in SUBSET Items : Promise!Send(S)
<1>0. o.items = is /\ o.arrived \in BOOLEAN /\ TablesInv /\ Range(is) \subseteq Items
  BY OutcomeType, SeqFacts DEF TypeInv
<1>1. Accounts' = Accounts /\ MinedItems' = MinedItems
  BY ItemsFrame DEF Accounts
<1>2. \A i \in Range(is) : \E p \in DOMAIN Accounts : Accounts[p].item = i
  BY <1>0, AccountsFacts DEF Ordered
<1>3. CASE ~o.arrived
  <2>1. SentItems' = SentItems
    BY <1>3, ItemsFrame DEF onChainBundleTx
  <2>2. Promise!Send({})
    BY <1>1, <2>1 DEF Promise!Send
  <2>3. QED
    BY <2>2
<1>4. CASE o.arrived
  <2>1. PICK x : x = [items |-> is, st |-> "sent"]
    OBVIOUS
  <2>2. x \in Sent /\ x.items = is /\ net' = Append(net, x)
    BY <1>0, <1>4, <2>1 DEF Sent, onChainBundleTx
  <2>3. /\ DOMAIN net' = DOMAIN net \cup {Len(net) + 1}
        /\ net'[Len(net) + 1] = x /\ \A n \in DOMAIN net : net'[n] = net[n]
    BY <1>0, <2>2, AppendFacts DEF TablesInv
  <2>4. SentItems' = SentItems \cup Range(is)
    BY <1>0, <2>2, <2>3 DEF SentItems, Carries
  <2>5. Promise!Send(Range(is))
    BY <1>1, <1>2, <2>4 DEF Promise!Send
  <2>6. QED
    BY <1>0, <2>5
<1>5. QED
  BY <1>0, <1>3, <1>4

\* A confirmed transaction mines items that were sent.
LEMMA ItemsMined ==
  ASSUME TypeInv, Grow, NEW n \in DOMAIN net, Confirm(n)
  PROVE  \E S \in SUBSET Items : Promise!Mine(S)
<1>0. TablesInv /\ net[n] \in Sent /\ n \in Nat
  BY TableFacts DEF TypeInv
<1>1. net[n].items \in Seq(Items)
  BY <1>0 DEF Sent
<1>2. Range(net[n].items) \subseteq Items
  BY <1>1, SeqFacts
<1>3. Range(net[n].items) \subseteq SentItems
  BY <1>2 DEF SentItems, Carries
<1>4. DOMAIN net' = DOMAIN net
  BY DEF Confirm
<1>5. SentItems' = SentItems /\ \A m \in DOMAIN net : Range(net'[m].items) = Range(net[m].items)
  BY <1>4, ItemsFrame
<1>6. Range(blocks') = Range(blocks) \cup {n}
  <2>1. blocks \in Seq(Nat) /\ blocks' = Append(blocks, n)
    BY <1>0 DEF Confirm, TablesInv
  <2>2. QED
    BY <1>0, <2>1, AppendFacts
<1>7. \A m \in Range(blocks) : m \in DOMAIN net
  BY <1>0 DEF Range, TablesInv
<1>8. MinedItems' = MinedItems \cup Range(net[n].items)
  BY <1>2, <1>5, <1>6, <1>7 DEF MinedItems, OnChainItem, Carries
<1>9. Accounts' = Accounts
  BY DEF Confirm, Accounts
<1>10. Promise!Mine(Range(net[n].items))
  BY <1>3, <1>5, <1>8, <1>9 DEF Promise!Mine
<1>11. QED
  BY <1>2, <1>10

\* Every step of the jobs and of the network is a step of Delivery or none.
LEMMA DeliveryStep ==
  ASSUME "load" \notin Failing, TypeInv, TrackInv, WantedInv, [Next]_vars
  PROVE  [Promise!Next]_(Promise!delivery)
<1>0. Grow /\ TablesInv
  BY TypeInvStep DEF TypeInv
<1>1. CASE UNCHANGED <<orders, net, blocks>>
  BY <1>1 DEF Promise!delivery, Accounts, SentItems, MinedItems, OnChainItem, Carries
<1>2. ASSUME NEW i \in Items, NEW sort \in BOOLEAN, OpenOrder(i, sort) PROVE Promise!Next
  BY <1>0, <1>2, OrderPlaced DEF Promise!Next
<1>3. ASSUME NEW is \in SUBSET Items, NEW st \in {"pending", "success"},
             UpdateOrdOnChainStatus(is, st), \A i \in is : Known(st, i), UNCHANGED <<net, blocks>>
      PROVE  Promise!Next
  BY <1>0, <1>3, StatusReported DEF Promise!Next
<1>4. ASSUME NEW j \in Jobs, Copy(j) PROVE [Promise!Next]_(Promise!delivery)
  <2>1. /\ job[j].copy \in Chain /\ job[j].copy # "waiting" /\ job[j].todo # {}
        /\ Known(job[j].copy, orders[Min(job[j].todo)].item)
    BY <1>4 DEF Copy, TypeInv, JobsInv, LocalOK, TrackInv, JobTrack, WantedInv, Wanted
  <2>2. orders[Min(job[j].todo)].item \in Items /\ job[j].copy \in {"pending", "success"}
    BY <2>1, CurrentOrder DEF Chain
  <2>3. UNCHANGED <<net, blocks>>
        /\ (UNCHANGED orders
            \/ UpdateOrdOnChainStatus({orders[Min(job[j].todo)].item}, job[j].copy))
    BY <1>4 DEF Copy
  <2>4. QED
    BY <1>1, <1>3, <2>1, <2>2, <2>3
<1>5. ASSUME NEW j \in Jobs, UpdateOrders(j) PROVE [Promise!Next]_(Promise!delivery)
  <2>1. PICK st \in {"pending", "success"} : st = IF j = "plain" THEN "pending" ELSE "success"
    OBVIOUS
  <2>2. job[j].items \in Seq(Items) /\ job[j].items # <<>> /\ job[j].ar \in DOMAIN net
    BY <1>5 DEF UpdateOrders, TypeInv, JobsInv, LocalOK, Local
  <2>3. Head(job[j].items) \in Range(job[j].items) /\ Head(job[j].items) \in Items
    BY <2>2, TailFacts, SeqFacts
  <2>4. Known(st, Head(job[j].items))
    <3>1. CASE j = "plain"
      BY <1>5, <2>1, <2>3, <3>1 DEF UpdateOrders, TrackInv, JobTrack, Known
    <3>2. CASE j = "seq"
      <4>1. /\ net[job[j].ar].st = "confirmed"
            /\ Head(job[j].items) \in Range(net[job[j].ar].items)
        BY <1>5, <2>3, <3>2 DEF UpdateOrders, TrackInv, JobTrack
      <4>2. OnChainItem(Head(job[j].items))
        BY <2>2, <4>1, ConfirmedIsOnChain DEF TrackInv
      <4>3. QED
        BY <2>1, <3>2, <4>2 DEF Known
    <3>3. QED
      BY <3>1, <3>2 DEF Jobs
  <2>5. UNCHANGED <<net, blocks>>
        /\ (UNCHANGED orders \/ UpdateOrdOnChainStatus({Head(job[j].items)}, st))
    BY <1>5, <2>1 DEF UpdateOrders
  <2>6. QED
    BY <1>1, <1>3, <2>3, <2>4, <2>5
<1>6. ASSUME NEW w \in watch, WatchTx(w) PROVE [Promise!Next]_(Promise!delivery)
  <2>1. /\ UNCHANGED <<net, blocks>>
        /\ \/ UNCHANGED orders
           \/ /\ net[w.ar].st = "confirmed"
              /\ UpdateOrdOnChainStatus(Range(w.items), "success")
    BY <1>6 DEF WatchTx
  <2>2. /\ w.ar \in DOMAIN net /\ Range(w.items) \subseteq Range(net[w.ar].items)
        /\ Range(w.items) \subseteq Items
    <3>1. w.items \in Seq(Items) /\ w.ar \in DOMAIN net
      BY DEF TypeInv, WatchInv, Seen
    <3>2. QED
      BY <3>1, SeqFacts DEF TrackInv, WatchTrack
  <2>3. net[w.ar].st = "confirmed" => \A i \in Range(w.items) : Known("success", i)
    BY <2>2, ConfirmedIsOnChain DEF TrackInv, Known
  <2>4. QED
    BY <1>1, <1>3, <2>1, <2>2, <2>3
<1>7. ASSUME NEW j \in Jobs, Send(j) PROVE Promise!Next
  <2>1. job[j].items \in Seq(Items) /\ \A i \in Range(job[j].items) : Ordered(i)
    BY DEF TypeInv, JobsInv, LocalOK, Local, WantedInv, Wanted
  <2>2. PICK o \in Outcomes(job[j].items) : onChainBundleTx(o)
    BY <1>7 DEF Send
  <2>3. UNCHANGED <<orders, blocks>>
    BY <1>7 DEF Send
  <2>4. QED
    BY <1>0, <2>1, <2>2, <2>3, BundleSent DEF Promise!Next
<1>8. CASE RetrySend
  <2>1. Min(retry.todo) \in DOMAIN rows /\ rows[Min(retry.todo)].items \in Seq(Items)
    BY <1>8, CurrentRow DEF RetrySend, TypeInv, RetryInv
  <2>2. \A i \in Range(rows[Min(retry.todo)].items) : Ordered(i)
    BY <2>1 DEF WantedInv
  <2>3. PICK o \in Outcomes(rows[Min(retry.todo)].items) : onChainBundleTx(o)
    BY <1>8 DEF RetrySend
  <2>4. UNCHANGED <<orders, blocks>>
    BY <1>8 DEF RetrySend
  <2>5. QED
    BY <1>0, <2>1, <2>2, <2>3, <2>4, BundleSent DEF Promise!Next
<1>9. ASSUME NEW n \in DOMAIN net, Confirm(n) PROVE Promise!Next
  BY <1>0, <1>9, ItemsMined DEF Promise!Next
<1>10. ASSUME NEW n \in DOMAIN net, Drop(n) PROVE UNCHANGED Promise!delivery
  <2>1. DOMAIN net' = DOMAIN net /\ UNCHANGED <<orders, blocks>>
    BY <1>10 DEF Drop
  <2>2. SentItems' = SentItems /\ MinedItems' = MinedItems
    BY <1>0, <2>1, ItemsFrame
  <2>3. QED
    BY <2>1, <2>2 DEF Promise!delivery, Accounts
<1>11. QED
  <2>1. \/ UNCHANGED <<orders, net, blocks>>
        \/ (\E i \in Items, sort \in BOOLEAN : OpenOrder(i, sort))
        \/ (\E j \in Jobs : Copy(j) \/ UpdateOrders(j) \/ Send(j))
        \/ (\E w \in watch : WatchTx(w)) \/ RetrySend
        \/ (\E n \in DOMAIN net : Confirm(n) \/ Drop(n))
    BY DEF Next, JobStep, JobBegin, Collect, Wait, InsertArTx, WatchStep, WatchBegin,
           RetryStep, RetryBegin, UpdateArTx, FiftyBlocks, Restart, vars
  <2>2. QED
    BY <1>1, <1>2, <1>4, <1>5, <1>6, <1>7, <1>8, <1>9, <1>10, <2>1

\* The four jobs, the tables and the network implement Delivery: nothing is
\* sent that nobody ordered, no order is lost or put back to waiting, and none
\* is called pending or successful before its item was sent or mined; as long
\* as every item of a bundle loads when it is sent again.
THEOREM JobsDeliver ==
  ASSUME "load" \notin Failing
  PROVE  Spec => ImplementsDelivery
<1>1. Init => Promise!Init
  <2> SUFFICES ASSUME Init PROVE Promise!Init
    OBVIOUS
  <2>1. orders = <<>> /\ net = <<>> /\ blocks = <<>>
    BY DEF Init
  <2>2. DOMAIN orders = {} /\ DOMAIN net = {} /\ DOMAIN blocks = {}
    BY <2>1
  <2>3. SentItems = {} /\ MinedItems = {}
    BY <2>2 DEF SentItems, MinedItems, OnChainItem, Range
  <2>4. Accounts = <<>>
    <3>1. TablesInv
      BY TypeInvInit DEF TypeInv
    <3>2. Accounts \in Seq(Account) /\ Len(Accounts) = Len(orders)
      BY <3>1, AccountsFacts
    <3>3. Len(orders) = 0
      BY <2>1
    <3>4. QED
      BY <3>2, <3>3, EmptySeq
  <2>5. QED
    BY <2>3, <2>4 DEF Promise!Init
<1>2. TypeInv /\ TrackInv /\ WantedInv /\ [Next]_vars => [Promise!Next]_(Promise!delivery)
  BY DeliveryStep
<1>3. QED
  BY <1>1, <1>2, TypeInvHolds, TrackInvHolds, WantedHolds, PTL
  DEF Spec, ImplementsDelivery, Promise!Spec
=============================================================================
