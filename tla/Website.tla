------------------------------ MODULE Website -------------------------------
(***************************************************************************)
(* A folder becomes a site: the client SDK uploads and pays for it         *)
(* (Upload), the node that took it puts paid items on chain, the owner of  *)
(* a domain points it to the manifest, and another node serves it          *)
(* (Gateway).  The parts meet in the items: what is paid may be mined, in  *)
(* any grouping and order, and what is mined may be synchronised, perhaps  *)
(* before the rest of the folder is on chain.                              *)
(***************************************************************************)
EXTENDS Gateway, Sequences

CONSTANTS
  Folder, Manifest, BatchSize, Limit, MaxRetries,  \* see Upload
  OldBundle,   \* items that were on chain before, with their bundle or L1
  MaxBundles   \* bound

VARIABLES up, invoked, file, paths, orders, start, end, transfers, stored,
          retries

\* One count of failing calls for both, to bound them together.
Up == INSTANCE Upload WITH failures <- faults, MaxFailures <- MaxTrouble

upload == <<up, invoked, file, paths, orders, start, end, transfers, stored,
            retries>>
website == <<gateway, upload>>

ASSUME WebsiteAssumption ==
  /\ Manifest \in Manifests /\ Manifests \subseteq Sites
  /\ Pages[Manifest] = Up!Files
  \* getPathFiles names every file once
  /\ Folder \in Seq(Items) /\ Manifest \notin Up!Files
  /\ \A m, n \in DOMAIN Folder : Folder[m] = Folder[n] => m = n
  /\ DOMAIN OldBundle \subseteq Items \ (Up!Files \cup {Manifest})
  /\ {BatchSize, Limit, BatchLimit} \subseteq Nat \ {0}
  /\ {MaxRetries, MaxTrouble, MaxBundles} \subseteq Nat
  /\ None \notin Items

Bundles == 1..MaxBundles

Init ==
  /\ Up!Init /\ InitNode
  /\ record = [d \in Domains |-> None]
  /\ bundleOf = [i \in Items |-> IF i \in DOMAIN OldBundle THEN OldBundle[i] ELSE None]

\* The values of all parts are of their kind.
TypeOK ==
  /\ GatewayType /\ Up!UploadType
  /\ \A i \in Items : bundleOf[i] \in Bundles \cup {0, L1, None}

Publisher ==
  /\ UNCHANGED <<world, node, req, sync, crashes>>
  /\ Up!Next

\* The on-chain jobs of the other node: some of the paid items, in one bundle.
\* Bundles are numbered as they are mined.
OnChain ==
  /\ \E S \in SUBSET Up!Paid, b \in Bundles :
       /\ Bundles \cap {bundleOf[i] : i \in Items} = 1..(b - 1)
       /\ Mine(S, b)
  /\ UNCHANGED upload

\* The publisher's domain points to a site, from the day the folder is there.
PointTo(d, s) ==
  /\ Manifest \in stored
  /\ MoveRecord(d, s)
  /\ UNCHANGED upload

Expire(d) == Evict(d) /\ UNCHANGED upload
Request(c, d) == Get(c, d) /\ UNCHANGED upload
Serving(c) == Serve(c) /\ UNCHANGED upload
Syncing(g) == Sync(g) /\ UNCHANGED upload
Crash == Restart /\ UNCHANGED upload

Next ==
  \/ Publisher \/ OnChain
  \/ \E d \in Domains : Expire(d) \/ \E s \in Sites : PointTo(d, s)
  \/ \E c \in Clients : Serving(c) \/ \E d \in Domains : Request(c, d)
  \/ \E g \in Syncers : Syncing(g)
  \/ Crash

Spec == Init /\ [][Next]_website

\* Requests and tasks run to their end, and cache entries grow old.  Nobody
\* has to publish, to move a record or to ask for a page.
FairSpec ==
  /\ Spec
  /\ \A c \in Clients : WF_website(Serving(c))
  /\ \A g \in Syncers : WF_website(Syncing(g))
  /\ \A d \in Domains : WF_website(Expire(d))

-----------------------------------------------------------------------------
(***************************************************************************)
(* Properties of the publisher, see Upload.                                *)
(***************************************************************************)

\* Whoever finds the manifest on the node finds every file of the folder
\* there too, and every file under its path in the manifest: it is sent only
\* after all goroutines of the pool are through, in whatever order they end.
ManifestLast == Up!ManifestLast

\* Payment in windows of Limit orders pays for every order when it ends
\* without error, and for none twice unless a payment failed and was made
\* again (sdk.go:108 forgets the windows that were paid).
OrdersPaidOnce == Up!OrdersPaidOnce
=============================================================================
