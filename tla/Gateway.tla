------------------------------ MODULE Gateway -------------------------------
(***************************************************************************)
(* Serving sites under domain names: the gateway branch of                 *)
(* ManifestMiddleware, QueryDomainTxId of arns.go, the local cache and     *)
(* syncManifestData of manifest.go.                                        *)
(*                                                                         *)
(* A request is resolved to a site, through a cache of an hour or the ArNS *)
(* record of the domain.  A site the node does not have is synchronised by *)
(* a task while the client is told to come back: its items are looked up   *)
(* with GraphQL, fetched bundle by bundle and saved one by one.  Tasks are *)
(* those of module Tasks; here a registration hands the site to a goroutine*)
(* of its own, also when another one is at work on the same site.          *)
(***************************************************************************)
EXTENDS Naturals, FiniteSets, FiniteSetsExt

CONSTANTS
  Clients,     \* goroutines serving requests
  Syncers,     \* goroutines running sync_manifest tasks: a bound on those
               \* at work at once
  Domains,
  Sites,       \* items that a domain may point to
  Manifests,   \* the sites that are manifests; the others are text/html
  Pages,       \* per manifest, the items its paths lead to
  BatchLimit,  \* ids of one GraphQL query (90)
  L1,          \* "bundle" of a transaction that is in no bundle
  MaxTrouble,  \* bound on failing calls and crashes together
  None

ItemsOf(s) == {s} \cup (IF s \in Manifests THEN Pages[s] ELSE {})
Items == UNION {ItemsOf(s) : s \in Sites}

VARIABLES
  record,      \* ArNS: the site of each domain
  bundleOf,    \* Arweave: the bundle an item is in, None before it is mined
  cache,       \* localCache: the site of each domain
  binary,      \* BundleItemBinary bucket
  meta,        \* BundleItemMeta bucket
  req,         \* per client: next step, domain, site
  sync,        \* per goroutine: next step, site, ids to query, items found,
               \* items of the bundle to save, item being saved
  faults, crashes

world   == <<record, bundleOf>>
node    == <<cache, binary, meta>>
gateway == <<world, node, req, sync, faults, crashes>>

NoReq == [pc |-> "idle", dom |-> None, site |-> None]
NoSync == [pc |-> "idle", site |-> None, ids |-> {}, found |-> {},
           batch |-> {}, item |-> None]

ReqPcs == {"idle", "cache", "resolve", "fill", "load"}
SyncPcs == {"idle", "raw", "filter", "query", "bundle", "save", "meta", "undo"}

GatewayType ==
  /\ record \in [Domains -> Sites \cup {None}]
  /\ cache \in [Domains -> Sites \cup {None}]
  /\ binary \subseteq Items /\ meta \subseteq Items
  /\ req \in [Clients -> [pc: ReqPcs, dom: Domains \cup {None},
                          site: Sites \cup {None}]]
  /\ sync \in [Syncers -> [pc: SyncPcs, site: Sites \cup {None},
                           ids: SUBSET Items, found: SUBSET Items,
                           batch: SUBSET Items, item: Items \cup {None}]]
  /\ {faults, crashes} \subseteq 0..MaxTrouble

InitNode ==
  /\ cache = [d \in Domains |-> None]
  /\ binary = {} /\ meta = {}
  /\ req = [c \in Clients |-> NoReq]
  /\ sync = [g \in Syncers |-> NoSync]
  /\ faults = 0 /\ crashes = 0

Trouble == faults + crashes < MaxTrouble
Fault == Trouble /\ faults' = faults + 1

-----------------------------------------------------------------------------
(***************************************************************************)
(* Arweave, ArNS and the cache's clock.                                    *)
(***************************************************************************)
\* Items are mined in bundle b.
Mine(S, b) ==
  /\ S # {} /\ \A i \in S : bundleOf[i] = None
  /\ bundleOf' = [i \in DOMAIN bundleOf |-> IF i \in S THEN b ELSE bundleOf[i]]
  /\ UNCHANGED <<record, node, req, sync, faults, crashes>>

\* The owner points the domain to another site.
MoveRecord(d, s) ==
  /\ record[d] # s
  /\ record' = [record EXCEPT ![d] = s]
  /\ UNCHANGED <<bundleOf, node, req, sync, faults, crashes>>

\* An entry is an hour old.
Evict(d) ==
  /\ cache[d] # None
  /\ cache' = [cache EXCEPT ![d] = None]
  /\ UNCHANGED <<world, binary, meta, req, sync, faults, crashes>>

-----------------------------------------------------------------------------
(***************************************************************************)
(* A GET on a domain.                                                      *)
(***************************************************************************)
ReqGoto(c, label) == req' = [req EXCEPT ![c].pc = label]
Reply(c) == req' = [req EXCEPT ![c] = NoReq]

Get(c, d) ==
  /\ req[c].pc = "idle"
  /\ req' = [req EXCEPT ![c] = [NoReq EXCEPT !.pc = "cache", !.dom = d]]
  /\ UNCHANGED <<world, node, sync, faults, crashes>>

\* Mutant: every use of an entry writes it back, so that it stays fresh.
CacheGet_Refreshes(c) ==
  LET s == cache[req[c].dom]
  IN  /\ req[c].pc = "cache"
      /\ req' = [req EXCEPT ![c].pc = IF s = None THEN "resolve" ELSE "fill",
                            ![c].site = s]
      /\ UNCHANGED <<world, node, sync, faults, crashes>>

CacheGet(c) ==
  LET s == cache[req[c].dom]
  IN  /\ req[c].pc = "cache"
      /\ req' = [req EXCEPT ![c].pc = IF s = None THEN "resolve" ELSE "load",
                            ![c].site = s]
      /\ UNCHANGED <<world, node, sync, faults, crashes>>

\* QueryDomainTxId: the record of the domain, or an error.
Resolve(c) ==
  LET s == record[req[c].dom]
  IN  /\ req[c].pc = "resolve"
      /\ \/ /\ s # None
            /\ req' = [req EXCEPT ![c].pc = "fill", ![c].site = s]
            /\ UNCHANGED faults
         \/ s = None /\ Reply(c) /\ UNCHANGED faults
         \/ Fault /\ Reply(c)
      /\ UNCHANGED <<world, node, sync, crashes>>

\* Cache.Set, with what Resolve read: the record may have moved since.
CacheSet(c) ==
  /\ req[c].pc = "fill"
  /\ cache' = [cache EXCEPT ![req[c].dom] = req[c].site]
  /\ ReqGoto(c, "load")
  /\ UNCHANGED <<world, binary, meta, sync, faults, crashes>>

\* getArTxOrItemDataForManifest and handleManifest.  An item without metadata
\* is not there: the site is handed to a goroutine (unless the registration
\* fails) and the client told to wait.  A site that is there is answered, by
\* one of its pages or, when that page is missing, by an error that starts no
\* task.
Load(c) ==
  LET s == req[c].site
  IN  /\ req[c].pc = "load"
      /\ \/ s \in meta /\ UNCHANGED <<sync, faults>>
         \/ /\ s \notin meta
            /\ \E g \in Syncers :
                 /\ sync[g].pc = "idle"
                 /\ sync' = [sync EXCEPT ![g] = [NoSync EXCEPT !.pc = "raw", !.site = s]]
            /\ UNCHANGED faults
         \/ s \notin meta /\ Fault /\ UNCHANGED sync
      /\ Reply(c)
      /\ UNCHANGED <<world, node, crashes>>

-----------------------------------------------------------------------------
(***************************************************************************)
(* syncManifestData.                                                       *)
(***************************************************************************)
SyncGoto(g, label) == sync' = [sync EXCEPT ![g].pc = label]
Ends(g) == sync' = [sync EXCEPT ![g] = NoSync]

\* getRawById of the site: arweave.net has what is mined.
GetRaw(g) ==
  /\ sync[g].pc = "raw"
  /\ \/ bundleOf[sync[g].site] # None /\ SyncGoto(g, "filter") /\ UNCHANGED faults
     \/ bundleOf[sync[g].site] = None /\ Ends(g) /\ UNCHANGED faults
     \/ Fault /\ Ends(g)
  /\ UNCHANGED <<world, node, req, crashes>>

\* The items whose binary the node has are left out.
Filter(g) ==
  LET ids == ItemsOf(sync[g].site) \ binary
  IN  /\ sync[g].pc = "filter"
      /\ IF ids = {} THEN Ends(g)
         ELSE sync' = [sync EXCEPT ![g].pc = "query", ![g].ids = ids]
      /\ UNCHANGED <<world, node, req, faults, crashes>>

\* The queries are over: transactions in no bundle are put aside and never
\* fetched, the others are fetched by bundle.
Group(g, ids, found) ==
  LET bundled == {i \in found : bundleOf[i] # L1}
  IN  sync' = [sync EXCEPT ![g] =
        IF ids # {} THEN [@ EXCEPT !.ids = ids, !.found = found]
        ELSE IF bundled = {} THEN NoSync
        ELSE [@ EXCEPT !.pc = "bundle", !.ids = {}, !.found = bundled]]

\* Mutant: only the first query is made.
Query_Once(g) ==
  LET n == Min({BatchLimit, Cardinality(sync[g].ids)})
  IN  /\ sync[g].pc = "query"
      /\ \E B \in kSubset(n, sync[g].ids) :
           Group(g, {}, sync[g].found \cup {i \in B : bundleOf[i] # None})
      /\ UNCHANGED <<world, node, req, faults, crashes>>

\* BatchGetItemsBundleIn for the next ids, in the order of a map: an item
\* that is not mined yet is not in the answer.
Query(g) ==
  LET n == Min({BatchLimit, Cardinality(sync[g].ids)})
  IN  /\ sync[g].pc = "query"
      /\ \/ /\ \E B \in kSubset(n, sync[g].ids) :
                 Group(g, sync[g].ids \ B,
                       sync[g].found \cup {i \in B : bundleOf[i] # None})
            /\ UNCHANGED faults
         \/ Fault /\ Ends(g)
      /\ UNCHANGED <<world, node, req, crashes>>

\* The items asked for that are in bundle b, which may itself be an item.
Wanted(g, b) == {i \in sync[g].found : bundleOf[i] = b}

\* GetBundleItems or, of a bundle within a bundle, getNestBundle, in the
\* order of a map.
FetchBundle(g) ==
  /\ sync[g].pc = "bundle"
  /\ \/ /\ \E b \in {bundleOf[i] : i \in sync[g].found} :
             sync' = [sync EXCEPT ![g].pc = "save", ![g].batch = Wanted(g, b),
                                  ![g].found = @ \ Wanted(g, b)]
        /\ UNCHANGED faults
     \/ Fault /\ Ends(g)
  /\ UNCHANGED <<world, node, req, crashes>>

\* On with the next item, the next bundle, or the end of the task.
Saved(g, i) ==
  sync' = [sync EXCEPT ![g] =
    IF @.batch # {i} THEN [@ EXCEPT !.pc = "save", !.batch = @ \ {i}, !.item = None]
    ELSE IF @.found # {} THEN [@ EXCEPT !.pc = "bundle", !.batch = {}, !.item = None]
    ELSE NoSync]

\* saveItem: a binary that is there is not saved again.
SaveBinary(g, i) ==
  /\ sync[g].pc = "save" /\ i \in sync[g].batch
  /\ \/ i \in binary /\ Saved(g, i) /\ UNCHANGED <<binary, faults>>
     \/ /\ i \notin binary
        /\ binary' = binary \cup {i}
        /\ sync' = [sync EXCEPT ![g].pc = "meta", ![g].item = i]
        /\ UNCHANGED faults
     \/ i \notin binary /\ Fault /\ Ends(g) /\ UNCHANGED binary
  /\ UNCHANGED <<world, cache, meta, req, crashes>>

SaveMeta(g) ==
  /\ sync[g].pc = "meta"
  /\ \/ meta' = meta \cup {sync[g].item} /\ Saved(g, sync[g].item) /\ UNCHANGED faults
     \/ Fault /\ SyncGoto(g, "undo") /\ UNCHANGED meta
  /\ UNCHANGED <<world, cache, binary, req, crashes>>

\* AtomicSaveItem deletes the binary and returns the error.
UndoSave(g) ==
  /\ sync[g].pc = "undo"
  /\ binary' = binary \ {sync[g].item}
  /\ Ends(g)
  /\ UNCHANGED <<world, cache, meta, req, faults, crashes>>

\* A crash empties the cache; pending tasks are run again from the start.
Restart ==
  /\ Trouble
  /\ crashes' = crashes + 1
  /\ cache' = [d \in Domains |-> None]
  /\ req' = [c \in Clients |-> NoReq]
  /\ sync' = [g \in Syncers |->
       IF sync[g].pc = "idle" THEN NoSync
       ELSE [NoSync EXCEPT !.pc = "raw", !.site = sync[g].site]]
  /\ UNCHANGED <<world, binary, meta, faults>>

Serve(c) == CacheGet(c) \/ Resolve(c) \/ CacheSet(c) \/ Load(c)

Sync(g) ==
  \/ GetRaw(g) \/ Filter(g) \/ Query(g) \/ FetchBundle(g)
  \/ (\E i \in Items : SaveBinary(g, i)) \/ SaveMeta(g) \/ UndoSave(g)

-----------------------------------------------------------------------------
(***************************************************************************)
(* Properties.                                                             *)
(***************************************************************************)
Whole(s) == ItemsOf(s) \subseteq binary \cap meta

\* Everything of the site is on Arweave, and in bundles.
Mined(s) == \A i \in ItemsOf(s) : bundleOf[i] \notin {None, L1}

\* middleware.go:215, "please wait some minutes and fresh the page": the
\* site a client was told to wait for is complete in the end, whatever an
\* earlier task left of it and in however many queries and bundles, provided
\* that it is all mined when the task starts, no call fails and no crash
\* separates a binary from its metadata.
SiteComesUp ==
  \A s \in Sites, g \in Syncers :
    sync[g].pc = "raw" /\ sync[g].site = s /\ Mined(s) ~>
      Whole(s) \/ faults > 0 \/ (crashes > 0 /\ (ItemsOf(s) \cap binary) \ meta # {})

\* A domain does not keep showing a site it has left: once its owner is done
\* moving the record, the cache gives up the old site for good, although slow
\* requests write back what they resolved before the move.
StaleSiteLeaves ==
  \A d \in Domains, s \in Sites :
    <>[](record[d] = s) => <>[](cache[d] \in {s, None})
=============================================================================
