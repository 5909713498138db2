---------------------------- MODULE WebsiteProofs ---------------------------
(***************************************************************************)
(* Theorems about the publisher's part of Website, for every folder, pool  *)
(* size, payment limit and number of failing calls, whatever nodes and     *)
(* readers do meanwhile.                                                   *)
(***************************************************************************)
EXTENDS Website, FiniteSetTheorems, TLAPS

-----------------------------------------------------------------------------
(***************************************************************************)
(* The files of the folder.                                                *)
(***************************************************************************)

\* How far each file is decides whether the node has it, whether the manifest
\* names it and whether an order of it was noted; past wg.Wait every file is
\* through.
Through == {f \in Up!Files : file[f] = "listed"}

FilesInv ==
  /\ file \in [Up!Files -> {"waiting", "sending", "sent", "listed"}]
  /\ invoked \in Nat /\ invoked <= Len(Folder)
  /\ \A n \in DOMAIN Folder : n > invoked => file[Folder[n]] = "waiting"
  /\ paths = Through
  /\ \A f \in Up!Files : file[f] \in {"sent", "listed"} => f \in stored
  /\ up \notin {"invoke", "wait", "panic"} => Through = Up!Files
  /\ Manifest \in stored => Through = Up!Files /\ up \notin {"invoke", "wait"}

LEMMA FolderFiles ==
  /\ Folder \in Seq(Items) /\ Len(Folder) \in Nat /\ DOMAIN Folder = 1..Len(Folder)
  /\ Manifest \notin Up!Files
  /\ \A n \in DOMAIN Folder : Folder[n] \in Up!Files
  /\ \A m, n \in DOMAIN Folder : Folder[m] = Folder[n] => m = n
<1>1. Folder \in Seq(Items)
  BY WebsiteAssumption
<1>2. QED
  BY <1>1, WebsiteAssumption DEF Up!Files

\* No step of the pool's goroutines or of the caller loses a file, lists one
\* the node does not have, or sends the manifest before the last is listed.
LEMMA FilesStep ==
  ASSUME FilesInv, Up!Next
  PROVE  FilesInv'
<1> USE DEF FilesInv, Through
<1>1. CASE Up!Invoke
  <2>1. CASE invoked = Len(Folder)
    BY <1>1, <2>1 DEF Up!Invoke
  <2>2. CASE invoked # Len(Folder)
    <3>1. invoked + 1 \in DOMAIN Folder /\ invoked + 1 <= Len(Folder)
      <4>1. Folder \in Seq(Items)
        BY FolderFiles
      <4>2. QED
        BY <2>2, <4>1
    <3>2. Folder[invoked + 1] \in Up!Files
      BY <3>1, FolderFiles
    <3>3. up = "invoke" /\ up' = up /\ paths' = paths /\ stored' = stored
          /\ invoked' = invoked + 1
          /\ file' = [file EXCEPT ![Folder[invoked + 1]] = "sending"]
      BY <1>1, <2>2 DEF Up!Invoke
    <3>4. \A n \in DOMAIN Folder :
            n > invoked + 1 => Folder[n] # Folder[invoked + 1]
      BY <3>1, FolderFiles
    <3>5. file[Folder[invoked + 1]] = "waiting"
      BY <3>1
    <3>6. QED
      BY <3>1, <3>2, <3>3, <3>4, <3>5, FolderFiles
  <2>3. QED
    BY <2>1, <2>2
<1>2. ASSUME NEW f \in Up!Files, Up!SendData(f) PROVE FilesInv'
  BY <1>2, FolderFiles DEF Up!SendData
<1>3. ASSUME NEW f \in Up!Files, Up!List(f) PROVE FilesInv'
  BY <1>3 DEF Up!List
<1>4. CASE Up!Wait
  BY <1>4 DEF Up!Wait
<1>5. CASE Up!SubmitManifest
  BY <1>5, FolderFiles DEF Up!SubmitManifest
<1>6. CASE Up!PayOrders
  BY <1>6 DEF Up!PayOrders, Up!NextWindow
<1>7. CASE Up!PayAgain
  BY <1>7 DEF Up!PayAgain
<1>8. QED
  BY <1>1, <1>2, <1>3, <1>4, <1>5, <1>6, <1>7 DEF Up!Next

\* Nobody but the publisher touches the upload.
LEMMA OthersLeaveUpload ==
  ASSUME [Next]_website
  PROVE  Up!Next \/ UNCHANGED upload
  BY DEF Next, Publisher, OnChain, PointTo, Expire, Request, Serving, Syncing, Crash, website

\* uploadFolder sends the manifest after every file, whatever the order in
\* which the pool's goroutines end and whichever call fails: a node that has
\* the manifest has every file, and the manifest names them all.
THEOREM ManifestComesLast == Spec => []ManifestLast
<1>1. Init => FilesInv
  BY FolderFiles DEF Init, Up!Init, FilesInv, Through
<1>2. FilesInv /\ [Next]_website => FilesInv'
  <2> SUFFICES ASSUME FilesInv, [Next]_website PROVE FilesInv'
    OBVIOUS
  <2>1. CASE UNCHANGED upload
    BY <2>1 DEF upload, FilesInv, Through
  <2>2. QED
    BY <2>1, FilesStep, OthersLeaveUpload
<1>3. FilesInv => ManifestLast
  BY DEF FilesInv, ManifestLast, Up!ManifestLast, Through
<1>4. QED
  BY <1>1, <1>2, <1>3, PTL DEF Spec

-----------------------------------------------------------------------------
(***************************************************************************)
(* The payment of the orders.                                              *)
(***************************************************************************)
Every == Up!Files \cup {Manifest}

PayStates == {"pay", "payErr", "done"}

\* The orders noted: one per file that is through, and the manifest's, last.
OrdersInv ==
  /\ orders \in Seq(Every)
  /\ \A m, n \in DOMAIN orders : orders[m] = orders[n] => m = n
  /\ \A n \in DOMAIN orders : orders[n] \in Through \/ (orders[n] = Manifest /\ up \in PayStates)
  /\ \A f \in Through : \E n \in DOMAIN orders : orders[n] = f
  /\ up \in PayStates => \E n \in DOMAIN orders : orders[n] = Manifest

\* Before this attempt an order was paid for at most once per attempt; in this
\* attempt, those up to the window were paid for and no other.
WindowInv ==
  /\ transfers \in Seq(SUBSET Every) /\ retries \in Nat
  /\ up \notin PayStates => transfers = <<>>
  /\ up \in PayStates => start \in Nat /\ end \in Nat /\ start <= end /\ end <= Len(orders)
  /\ \A n \in DOMAIN orders :
       /\ Cardinality(Up!Paying(orders[n])) <=
            retries + (IF up = "pay" /\ n > start THEN 0 ELSE 1)
       /\ up = "done" \/ (up = "pay" /\ n <= start) => orders[n] \in Up!Paid

LEMMA MinOfTwo ==
  ASSUME NEW a \in Nat, NEW b \in Nat
  PROVE  Up!Min({a, b}) = IF a <= b THEN a ELSE b
<1>1. \E x \in {a, b} : \A y \in {a, b} : x <= y
  OBVIOUS
<1>2. Up!Min({a, b}) \in {a, b} /\ \A y \in {a, b} : Up!Min({a, b}) <= y
  BY <1>1 DEF Up!Min
<1>3. QED
  BY <1>2

\* Of the transfers, a new one counts where it pays for the item.
LEMMA PayingAppend ==
  ASSUME transfers \in Seq(SUBSET Every), NEW S \in SUBSET Every, NEW i,
         transfers' = Append(transfers, S)
  PROVE  /\ Cardinality(Up!Paying(i)) \in Nat
         /\ Cardinality(Up!Paying(i))' = Cardinality(Up!Paying(i)) + (IF i \in S THEN 1 ELSE 0)
         /\ Up!Paid' = Up!Paid \cup S
<1> DEFINE k == Len(transfers) + 1
<1>1. /\ DOMAIN transfers = 1..Len(transfers) /\ Len(transfers) \in Nat
      /\ DOMAIN transfers' = DOMAIN transfers \cup {k} /\ k \notin DOMAIN transfers
      /\ transfers'[k] = S /\ \A n \in DOMAIN transfers : transfers'[n] = transfers[n]
  OBVIOUS
<1> HIDE DEF k
<1>2. IsFiniteSet(DOMAIN transfers)
  BY <1>1, FS_Interval
<1>3. IsFiniteSet(Up!Paying(i)) /\ k \notin Up!Paying(i)
  BY <1>1, <1>2, FS_Subset DEF Up!Paying
<1>4. Up!Paying(i)' = Up!Paying(i) \cup (IF i \in S THEN {k} ELSE {})
  BY <1>1 DEF Up!Paying
<1>5. Cardinality(Up!Paying(i)) \in Nat
  BY <1>3, FS_CardinalityType
<1>6. Cardinality(Up!Paying(i) \cup {k}) = Cardinality(Up!Paying(i)) + 1
  BY <1>3, FS_AddElement
<1>7. Up!Paid' = Up!Paid \cup S
  BY <1>1 DEF Up!Paid
<1>8. Cardinality(Up!Paying(i))' = Cardinality(Up!Paying(i)) + (IF i \in S THEN 1 ELSE 0)
  <2>1. CASE i \in S
    BY <1>4, <1>6, <2>1
  <2>2. CASE i \notin S
    <3>1. Up!Paying(i)' = Up!Paying(i)
      BY <1>4, <2>2
    <3>2. QED
      BY <1>5, <2>2, <3>1
  <2>3. QED
    BY <2>1, <2>2
<1>9. QED
  BY <1>5, <1>7, <1>8

\* Orders are noted once each, and the windows of a payment follow each other
\* without gap and without overlap until the last order.
LEMMA OrdersStep ==
  ASSUME FilesInv, FilesInv', OrdersInv, Up!Next
  PROVE  OrdersInv'
<1> USE DEF OrdersInv, PayStates, Every, Through
<1>0. orders \in Seq(Every) /\ Len(orders) \in Nat /\ DOMAIN orders = 1..Len(orders)
  OBVIOUS
<1>1. CASE Up!Invoke
  <2>1. up = "invoke" /\ up' \in {"invoke", "wait"} /\ orders' = orders
    BY <1>1 DEF Up!Invoke
  <2>2. Through' = Through
    BY <1>1 DEF Up!Invoke, FilesInv
  <2>3. QED
    BY <2>1, <2>2
<1>2. ASSUME NEW f \in Up!Files, Up!SendData(f) PROVE OrdersInv'
  <2>1. orders' = orders /\ up \notin PayStates /\ up' \notin PayStates
    BY <1>2 DEF Up!SendData, FilesInv
  <2>2. Through' = Through
    BY <1>2 DEF Up!SendData, FilesInv
  <2>3. QED
    BY <2>1, <2>2
<1>3. ASSUME NEW f \in Up!Files, Up!List(f) PROVE OrdersInv'
  <2>1. orders' = Append(orders, f) /\ up' = up /\ up \notin PayStates
    BY <1>3 DEF Up!List, FilesInv
  <2>2. Through' = Through \cup {f} /\ f \notin Through
    BY <1>3 DEF Up!List, FilesInv
  <2>3. /\ orders' \in Seq(Every) /\ DOMAIN orders' = DOMAIN orders \cup {Len(orders) + 1}
        /\ Len(orders) + 1 \notin DOMAIN orders
        /\ orders'[Len(orders) + 1] = f /\ \A n \in DOMAIN orders : orders'[n] = orders[n]
    BY <1>0, <2>1
  <2>4. QED
    BY <2>1, <2>2, <2>3
<1>4. CASE Up!Wait
  BY <1>4 DEF Up!Wait
<1>5. CASE Up!SubmitManifest
  <2>0. up = "manifest" /\ Through' = Through
    BY <1>5 DEF Up!SubmitManifest
  <2>1. CASE orders' = Append(orders, Manifest) /\ up' = "pay"
    <3>1. /\ orders' \in Seq(Every) /\ DOMAIN orders' = DOMAIN orders \cup {Len(orders) + 1}
          /\ Len(orders) + 1 \notin DOMAIN orders
          /\ orders'[Len(orders) + 1] = Manifest
          /\ \A n \in DOMAIN orders : orders'[n] = orders[n]
      BY <1>0, <2>1
    <3>2. \A n \in DOMAIN orders : orders[n] # Manifest
      BY <2>0, FolderFiles
    <3>3. QED
      BY <2>0, <2>1, <3>1, <3>2
  <2>2. CASE orders' = orders /\ up' = "failed"
    BY <2>0, <2>2
  <2>3. QED
    BY <1>5, <2>1, <2>2 DEF Up!SubmitManifest
<1>6. CASE Up!PayOrders
  <2>1. orders' = orders /\ Through' = Through /\ up = "pay" /\ up' \in PayStates
    BY <1>6 DEF Up!PayOrders, Up!NextWindow
  <2>2. QED
    BY <2>1
<1>7. CASE Up!PayAgain
  <2>1. orders' = orders /\ Through' = Through /\ up = "payErr" /\ up' = "pay"
    BY <1>7 DEF Up!PayAgain
  <2>2. QED
    BY <2>1
<1>8. QED
  BY <1>1, <1>2, <1>3, <1>4, <1>5, <1>6, <1>7 DEF Up!Next

LEMMA WindowStep ==
  ASSUME FilesInv, OrdersInv, WindowInv, Up!Next
  PROVE  WindowInv'
<1> USE DEF WindowInv, PayStates
<1>0. /\ orders \in Seq(Every) /\ Len(orders) \in Nat
      /\ Limit \in Nat /\ Limit > 0
  BY WebsiteAssumption DEF OrdersInv
\* Nothing is paid before the payment begins.
<1>a. ASSUME transfers' = <<>>, retries' = retries, up' \notin PayStates
      PROVE  WindowInv'
  <2>1. \A i : Cardinality({n \in DOMAIN transfers' : i \in transfers'[n]}) = 0
    BY <1>a, FS_EmptySet
  <2>2. QED
    BY <1>a, <2>1 DEF Up!Paying
<1>b. ASSUME transfers' = <<>>, retries' = retries, up' = "pay", start' = 0,
             end' = Up!FirstEnd(Len(orders) + 1), orders' = Append(orders, Manifest)
      PROVE  WindowInv'
  <2>1. \A i : Cardinality({n \in DOMAIN transfers' : i \in transfers'[n]}) = 0
    BY <1>b, FS_EmptySet
  <2>2. Len(orders') = Len(orders) + 1 /\ orders' \in Seq(Every)
    BY <1>b, <1>0 DEF Every
  <2>3. end' \in Nat /\ end' <= Len(orders')
    BY <1>0, <1>b, <2>2 DEF Up!FirstEnd
  <2>4. QED
    BY <1>b, <2>1, <2>2, <2>3 DEF Up!Paying
<1>1. CASE Up!Invoke
  BY <1>1, <1>a DEF Up!Invoke
<1>2. ASSUME NEW f \in Up!Files, Up!SendData(f) PROVE WindowInv'
  BY <1>2, <1>a DEF Up!SendData, FilesInv, Through
<1>3. ASSUME NEW f \in Up!Files, Up!List(f) PROVE WindowInv'
  BY <1>3, <1>a DEF Up!List, FilesInv, Through
<1>4. CASE Up!Wait
  BY <1>4, <1>a DEF Up!Wait
<1>5. CASE Up!SubmitManifest
  BY <1>5, <1>a, <1>b DEF Up!SubmitManifest
<1>6. CASE Up!PayOrders
  <2> DEFINE S == {orders[n] : n \in (start + 1)..end}
  <2>0. up = "pay" /\ orders' = orders /\ retries' = retries /\ start \in Nat
        /\ end \in Nat /\ start <= end /\ end <= Len(orders)
    BY <1>6 DEF Up!PayOrders
  <2>1. S \in SUBSET Every
    BY <1>0, <2>0
  <2>2. \A n \in DOMAIN orders : orders[n] \in S <=> n > start /\ n <= end
    BY <1>0, <2>0 DEF OrdersInv
  <2> HIDE DEF S
  <2>3. CASE transfers' = Append(transfers, S)
    <3>1. \A n \in DOMAIN orders :
            /\ Cardinality(Up!Paying(orders[n])) \in Nat
            /\ Cardinality(Up!Paying(orders[n]))' = Cardinality(Up!Paying(orders[n]))
                 + (IF n > start /\ n <= end THEN 1 ELSE 0)
      BY <2>0, <2>1, <2>2, <2>3, PayingAppend
    <3>2. Up!Paid' = Up!Paid \cup S
      BY <2>1, <2>3, PayingAppend
    <3>3. transfers' \in Seq(SUBSET Every)
      BY <2>1, <2>3
    <3>4. CASE Up!NextWindow
      <4> DEFINE e == Up!Min({end + Limit, Len(orders)})
      <4>1. e = IF end + Limit <= Len(orders) THEN end + Limit ELSE Len(orders)
        BY <1>0, <2>0, MinOfTwo
      <4>2. start' = end /\ end' = e /\ up' = (IF end = e THEN "done" ELSE "pay")
        BY <3>4 DEF Up!NextWindow
      <4> HIDE DEF e
      <4>3. e \in Nat /\ end <= e /\ e <= Len(orders) /\ (end = e => end = Len(orders))
        BY <1>0, <2>0, <4>1
      <4>4. ASSUME NEW n \in DOMAIN orders
            PROVE  Cardinality(Up!Paying(orders[n]))' <=
                     retries + (IF up' = "pay" /\ n > end THEN 0 ELSE 1)
        <5>1. n \in Nat /\ n <= Len(orders)
          BY <1>0
        <5>2. Cardinality(Up!Paying(orders[n])) <= retries + (IF n > start THEN 0 ELSE 1)
          BY <2>0
        <5>3. up' = "pay" \/ end = Len(orders)
          BY <4>2, <4>3
        <5>4. PICK c \in Nat : c = Cardinality(Up!Paying(orders[n]))
          BY <3>1
        <5>5. Cardinality(Up!Paying(orders[n]))' = c + (IF n > start /\ n <= end THEN 1 ELSE 0)
          BY <3>1, <5>4
        <5>6. c + (IF n > start /\ n <= end THEN 1 ELSE 0)
                <= retries + (IF up' = "pay" /\ n > end THEN 0 ELSE 1)
          BY <2>0, <5>1, <5>2, <5>3, <5>4
        <5>7. QED
          BY <5>5, <5>6
      <4>5. ASSUME NEW n \in DOMAIN orders, up' = "done" \/ n <= end
            PROVE  orders[n] \in Up!Paid'
        <5>1. n \in Nat /\ n <= end
          BY <1>0, <4>2, <4>3, <4>5
        <5>2. CASE n <= start
          BY <2>0, <3>2, <5>2
        <5>3. CASE n > start
          BY <2>2, <3>2, <5>1, <5>3
        <5>4. QED
          BY <2>0, <5>1, <5>2, <5>3
      <4>6. QED
        BY <2>0, <3>3, <4>2, <4>3, <4>4, <4>5
    <3>5. CASE up' = "payErr" /\ start' = start /\ end' = end
      <4>1. ASSUME NEW n \in DOMAIN orders
            PROVE  Cardinality(Up!Paying(orders[n]))' <= retries + 1
        <5>1. n \in Nat
          BY <1>0
        <5>2. Cardinality(Up!Paying(orders[n])) <= retries + (IF n > start THEN 0 ELSE 1)
          BY <2>0
        <5>3. QED
          BY <2>0, <3>1, <5>1, <5>2
      <4>2. QED
        BY <2>0, <3>3, <3>5, <4>1
    <3>6. QED
      BY <1>6, <2>3, <3>4, <3>5 DEF Up!PayOrders
  <2>4. CASE transfers' = transfers /\ up' = "payErr" /\ start' = start /\ end' = end
    <3>1. \A i : Up!Paying(i)' = Up!Paying(i)
      BY <2>4 DEF Up!Paying
    <3>2. ASSUME NEW n \in DOMAIN orders
          PROVE  Cardinality(Up!Paying(orders[n])) <= retries + 1
      <4>1. Cardinality(Up!Paying(orders[n])) <= retries + (IF n > start THEN 0 ELSE 1)
        BY <2>0
      <4>2. IsFiniteSet(DOMAIN transfers)
        <5>1. DOMAIN transfers = 1..Len(transfers) /\ Len(transfers) \in Nat
          OBVIOUS
        <5>2. QED
          BY <5>1, FS_Interval
      <4>3. Cardinality(Up!Paying(orders[n])) \in Nat
        BY <4>2, FS_Subset, FS_CardinalityType DEF Up!Paying
      <4>4. QED
        BY <4>1, <4>3
    <3>3. QED
      BY <2>0, <2>4, <3>1, <3>2
  <2>5. QED
    BY <1>6, <2>3, <2>4 DEF Up!PayOrders, S
<1>7. CASE Up!PayAgain
  <2>1. /\ up = "payErr" /\ up' = "pay" /\ transfers' = transfers /\ orders' = orders
        /\ retries' = retries + 1 /\ start' = 0 /\ end' = Up!FirstEnd(Len(orders))
    BY <1>7 DEF Up!PayAgain
  <2>2. \A i : Up!Paying(i)' = Up!Paying(i)
    BY <2>1 DEF Up!Paying
  <2>3. end' \in Nat /\ end' <= Len(orders)
    BY <1>0, <2>1 DEF Up!FirstEnd
  <2>4. QED
    BY <1>0, <2>1, <2>2, <2>3
<1>8. QED
  BY <1>1, <1>2, <1>3, <1>4, <1>5, <1>6, <1>7 DEF Up!Next

\* BatchPayOrders pays for every order, and for none more often than the
\* caller asked for payment, for every number of orders and every Limit.
THEOREM EveryOrderPaidOnce == Spec => []OrdersPaidOnce
<1> DEFINE Inv == FilesInv /\ OrdersInv /\ WindowInv
<1>1. Init => Inv
  <2> SUFFICES ASSUME Init PROVE Inv
    OBVIOUS
  <2>1. FilesInv /\ Through = {}
    BY FolderFiles DEF Init, Up!Init, FilesInv, Through
  <2>2. OrdersInv /\ WindowInv
    BY <2>1 DEF Init, Up!Init, OrdersInv, WindowInv, PayStates
  <2>3. QED
    BY <2>1, <2>2
<1>2. Inv /\ [Next]_website => Inv'
  <2> SUFFICES ASSUME Inv, [Next]_website PROVE Inv'
    OBVIOUS
  <2>1. CASE UNCHANGED upload
    <3>1. /\ up' = up /\ invoked' = invoked /\ file' = file /\ paths' = paths
          /\ orders' = orders /\ start' = start /\ end' = end /\ stored' = stored
          /\ transfers' = transfers /\ retries' = retries
      BY <2>1 DEF upload
    <3>2. FilesInv' /\ OrdersInv'
      BY <3>1 DEF FilesInv, OrdersInv, Through
    <3>3. WindowInv'
      BY <3>1 DEF WindowInv, Up!Paying, Up!Paid
    <3>4. QED
      BY <3>2, <3>3
  <2>2. QED
    BY <2>1, FilesStep, OrdersStep, WindowStep, OthersLeaveUpload
<1>3. Inv => OrdersPaidOnce
  <2> SUFFICES ASSUME Inv PROVE OrdersPaidOnce
    OBVIOUS
  <2>1. ASSUME NEW i \in Every
        PROVE  Cardinality(Up!Paying(i)) <= 1 + retries
    <3>1. CASE up \in PayStates
      <4>1. PICK n \in DOMAIN orders : orders[n] = i
        BY <3>1 DEF FilesInv, OrdersInv, Every, PayStates
      <4>2. IsFiniteSet(DOMAIN transfers)
        <5>1. DOMAIN transfers = 1..Len(transfers) /\ Len(transfers) \in Nat
          BY DEF WindowInv
        <5>2. QED
          BY <5>1, FS_Interval
      <4>3. Cardinality(Up!Paying(i)) \in Nat
        BY <4>2, FS_Subset, FS_CardinalityType DEF Up!Paying
      <4>4. Cardinality(Up!Paying(i)) <=
              retries + (IF up = "pay" /\ n > start THEN 0 ELSE 1) /\ retries \in Nat
        BY <4>1 DEF WindowInv
      <4>5. QED
        BY <4>3, <4>4
    <3>2. CASE up \notin PayStates
      <4>1. Up!Paying(i) = {} /\ retries \in Nat
        BY <3>2 DEF WindowInv, Up!Paying
      <4>2. QED
        BY <4>1, FS_EmptySet
    <3>3. QED
      BY <3>1, <3>2
  <2>2. ASSUME up = "done", NEW i \in Every PROVE i \in Up!Paid
    <3>1. PICK n \in DOMAIN orders : orders[n] = i
      BY <2>2 DEF FilesInv, OrdersInv, Every, PayStates
    <3>2. QED
      BY <2>2, <3>1 DEF WindowInv
  <2>3. \A i \in Up!Files \cup {Manifest} : Cardinality(Up!Paying(i)) <= 1 + retries
    BY <2>1 DEF Every
  <2>4. up = "done" => Up!Files \cup {Manifest} \subseteq Up!Paid
    BY <2>2 DEF Every
  <2>5. QED
    BY <2>3, <2>4 DEF OrdersPaidOnce, Up!OrdersPaidOnce, Cardinality, Up!Cardinality
<1>4. QED
  BY <1>1, <1>2, <1>3, PTL DEF Spec
=============================================================================
