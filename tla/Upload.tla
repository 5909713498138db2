------------------------------- MODULE Upload -------------------------------
(***************************************************************************)
(* Publishing a folder with the client SDK: uploadFolder of                *)
(* sdk/manifest.go, BatchPayOrders and PayOrders of sdk/sdk.go.            *)
(*                                                                         *)
(* A pool of BatchSize goroutines sends the files of the folder to a node  *)
(* as bundle items; each file's order and path are noted under a lock.     *)
(* When all of them are done the manifest is sent, and the orders are paid *)
(* in everPay transfers of at most Limit orders.  A file that cannot be    *)
(* sent ends the program; a payment that fails may be made again.          *)
(***************************************************************************)
EXTENDS Naturals, Sequences, FiniteSets, FiniteSetsExt

CONSTANTS
  Folder,      \* the files, in the order getPathFiles walks them
  Manifest,    \* the manifest item
  BatchSize,   \* goroutines of the pool
  Limit,       \* orders of one payment (500)
  MaxFailures, MaxRetries   \* bounds on failing calls and on payments made again

Files == {Folder[n] : n \in DOMAIN Folder}

VARIABLES
  up,          \* next step of the caller's goroutine
  invoked,     \* files handed to the pool
  file,        \* per file: "waiting", "sending", "sent" or "listed"
  paths,       \* manifestFile.Paths
  orders,      \* the orders collected, by item
  start, end,  \* BatchPayOrders' window
  transfers,   \* everPay transfers to the bundler: the items each pays for
  stored,      \* items the node has, each with an unpaid order
  retries, failures

upload == <<up, invoked, file, paths, orders, start, end, transfers, stored,
            retries, failures>>

UploadType ==
  /\ up \in {"invoke", "wait", "manifest", "pay", "payErr", "done", "failed", "panic"}
  /\ invoked \in 0..Len(Folder)
  /\ file \in [Files -> {"waiting", "sending", "sent", "listed"}]
  /\ paths \subseteq Files
  /\ orders \in Seq(Files \cup {Manifest})
  /\ {start, end} \subseteq 0..Len(orders)
  /\ transfers \in Seq(SUBSET (Files \cup {Manifest}))
  /\ stored \subseteq Files \cup {Manifest}
  /\ retries \in 0..MaxRetries /\ failures \in 0..MaxFailures

Init ==
  /\ up = "invoke" /\ invoked = 0
  /\ file = [f \in Files |-> "waiting"]
  /\ paths = {} /\ orders = <<>> /\ start = 0 /\ end = 0
  /\ transfers = <<>> /\ stored = {} /\ retries = 0 /\ failures = 0

Failure == failures < MaxFailures /\ failures' = failures + 1

\* Files in the hands of the pool's goroutines.
Busy == {f \in Files : file[f] \in {"sending", "sent"}}

\* Invoke blocks while every goroutine of the pool is busy.
Invoke ==
  LET f == Folder[invoked + 1]
  IN  /\ up = "invoke"
      /\ IF invoked = Len(Folder)
         THEN up' = "wait" /\ UNCHANGED <<invoked, file>>
         ELSE /\ Cardinality(Busy) < BatchSize
              /\ file' = [file EXCEPT ![f] = "sending"]
              /\ invoked' = invoked + 1
              /\ UNCHANGED up
      /\ UNCHANGED <<paths, orders, start, end, transfers, stored, retries, failures>>

\* SendData: the node saves the item and opens its order.  An error, also of
\* an answer that is lost, panics, and the panic handler panics again.
SendData(f) ==
  /\ up # "panic" /\ file[f] = "sending"
  /\ \/ /\ stored' = stored \cup {f}
        /\ file' = [file EXCEPT ![f] = "sent"]
        /\ UNCHANGED <<up, failures>>
     \/ /\ Failure
        /\ stored' \in {stored, stored \cup {f}}
        /\ up' = "panic"
        /\ UNCHANGED file
  /\ UNCHANGED <<invoked, paths, orders, start, end, transfers, retries>>

\* Under the lock: the order and the path; then wg.Done.
List(f) ==
  /\ up # "panic" /\ file[f] = "sent"
  /\ orders' = Append(orders, f)
  /\ paths' = paths \cup {f}
  /\ file' = [file EXCEPT ![f] = "listed"]
  /\ UNCHANGED <<up, invoked, start, end, transfers, stored, retries, failures>>

\* Mutant: wg.Add is called by the goroutines themselves.
Wait_OnlyBusy ==
  /\ up = "wait"
  /\ \A f \in Files : file[f] # "sent"
  /\ up' = "manifest"
  /\ UNCHANGED <<invoked, file, paths, orders, start, end, transfers, stored,
                 retries, failures>>

Wait ==
  /\ up = "wait"
  /\ \A f \in Files : file[f] = "listed"
  /\ up' = "manifest"
  /\ UNCHANGED <<invoked, file, paths, orders, start, end, transfers, stored,
                 retries, failures>>

\* The first window of BatchPayOrders over n orders.
FirstEnd(n) == IF n <= Limit THEN n ELSE Limit

\* The manifest goes last; its failure is returned, nothing is paid.
SubmitManifest ==
  /\ up = "manifest"
  /\ \/ /\ stored' = stored \cup {Manifest}
        /\ orders' = Append(orders, Manifest)
        /\ start' = 0 /\ end' = FirstEnd(Len(orders) + 1)
        /\ up' = "pay"
        /\ UNCHANGED failures
     \/ /\ Failure
        /\ stored' \in {stored, stored \cup {Manifest}}
        /\ up' = "failed"
        /\ UNCHANGED <<orders, start, end>>
  /\ UNCHANGED <<invoked, file, paths, transfers, retries>>

\* Mutant: the next window starts behind the one before.
NextWindow_Skips ==
  LET e == Min({end + Limit, Len(orders)})
      s == Min({end + 1, Len(orders)})
  IN  start' = s /\ end' = e /\ up' = IF s = e THEN "done" ELSE "pay"

\* The next window; the loop ends when it is empty.
NextWindow ==
  LET e == Min({end + Limit, Len(orders)})
  IN  start' = end /\ end' = e /\ up' = IF end = e THEN "done" ELSE "pay"

\* PayOrders: one transfer for the orders of the window.  An error, whether
\* everPay executed the transfer or not, ends BatchPayOrders, which forgets
\* the transfers made before.
PayOrders ==
  LET paid == Append(transfers, {orders[n] : n \in (start + 1)..end})
  IN  /\ up = "pay"
      /\ \/ transfers' = paid /\ NextWindow /\ UNCHANGED failures
         \/ /\ Failure
            /\ transfers' \in {transfers, paid}
            /\ up' = "payErr"
            /\ UNCHANGED <<start, end>>
      /\ UNCHANGED <<invoked, file, paths, orders, stored, retries>>

\* The caller has the orders and pays them again, from the first.
PayAgain ==
  /\ up = "payErr" /\ retries < MaxRetries
  /\ retries' = retries + 1
  /\ start' = 0 /\ end' = FirstEnd(Len(orders))
  /\ up' = "pay"
  /\ UNCHANGED <<invoked, file, paths, orders, transfers, stored, failures>>

Next ==
  \/ Invoke \/ Wait \/ SubmitManifest \/ PayOrders \/ PayAgain
  \/ \E f \in Files : SendData(f) \/ List(f)

Spec == Init /\ [][Next]_upload

-----------------------------------------------------------------------------
(***************************************************************************)
(* Properties.                                                             *)
(***************************************************************************)
Paying(i) == {n \in DOMAIN transfers : i \in transfers[n]}
Paid == UNION {transfers[n] : n \in DOMAIN transfers}

\* Whoever finds the manifest on the node finds every file of the folder
\* there too, and every file under its path in the manifest: it is sent only
\* after all goroutines of the pool are through, in whatever order they end.
ManifestLast ==
  Manifest \in stored => Files \subseteq stored /\ paths = Files

\* Payment in windows of Limit orders pays for every order when it ends
\* without error, and for none twice unless a payment failed and was made
\* again: then once more per attempt, since BatchPayOrders does not say which
\* windows were paid.
OrdersPaidOnce ==
  /\ \A i \in Files \cup {Manifest} :
       Cardinality(Paying(i)) <= 1 + retries
  /\ up = "done" => Files \cup {Manifest} \subseteq Paid
=============================================================================
