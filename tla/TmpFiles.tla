------------------------------ MODULE TmpFiles ------------------------------
(***************************************************************************)
(* The temporary files behind data downloads: dataRoute, getItemField and  *)
(* dataResponse of api.go, deleteTmpFile of jobs.go, ManifestMiddleware.   *)
(*                                                                         *)
(* With the S3 store an item's data comes as a temporary file of the       *)
(* request.  dataResponse renames it to a name made of the client's        *)
(* address and the item's id, so that the client's next request finds it;  *)
(* tmpFileMap counts the responses that use a name, and every two minutes  *)
(* deleteTmpFile removes the files whose count is not positive.  The map   *)
(* is guarded by a mutex, the file system is not.                          *)
(***************************************************************************)
EXTENDS Integers, FiniteSets

CONSTANTS
  Reqs,        \* goroutines serving GET requests
  Names,       \* genTmpFileName(client, item)
  Manifests,   \* names whose item is a manifest (EnableManifest on)
  Failing,     \* the calls that may fail
  MaxRequests, MaxFiles, MaxFaults, MaxCrashes,   \* bounds
  None

ASSUME TmpAssumption ==
  /\ IsFiniteSet(Reqs) /\ Manifests \subseteq Names
  /\ Failing \subseteq {"meta", "binary", "rename", "open"}
  /\ {MaxRequests, MaxFiles, MaxFaults, MaxCrashes} \subseteq Nat
  /\ None \notin Names /\ None \notin Int
  /\ Names \cap Nat = {}

\* A request's own temporary files are numbered.
Files == Names \cup 1..MaxFiles

VARIABLES
  files,       \* the names in the file system
  cnt,         \* tmpFileMap: None when there is no entry
  doomed,      \* deleteTmpFile, holding the lock: names still to remove
  pc,          \* per request: next step
  name,        \* per request: the name it serves
  own,         \* per request: its own temporary files
  leaked,      \* history: files nobody is going to remove
  made, requests, faults, crashes

local == <<pc, name, own>>
bounds == <<requests, faults, crashes>>
vars == <<files, cnt, doomed, local, leaked, made, bounds>>

Labels == {"idle", "open", "meta", "load", "loadItem", "rename", "reopen", "inc",
           "serve", "dec", "page", "pageFile", "cleanup"}

\* Files, counts and requests are of their kind; a request's own temporary
\* files are there until it is done with them.
TypeOK ==
  /\ files \subseteq Names \cup 1..made
  /\ cnt \in [Files -> Int \cup {None}]
  /\ doomed \subseteq Files
  /\ pc \in [Reqs -> Labels] /\ name \in [Reqs -> Names \cup {None}]
  /\ own \in [Reqs -> SUBSET (1..made)]
  /\ \A r \in Reqs : own[r] \subseteq files
  /\ leaked \subseteq Files
  /\ made \in 0..MaxFiles /\ requests \in 0..MaxRequests
  /\ faults \in 0..MaxFaults /\ crashes \in 0..MaxCrashes

Init ==
  /\ files = {} /\ doomed = {}
  /\ cnt = [f \in Files |-> None]
  /\ pc = [r \in Reqs |-> "idle"] /\ name = [r \in Reqs |-> None]
  /\ own = [r \in Reqs |-> {}] /\ leaked = {}
  /\ made = 0 /\ requests = 0 /\ faults = 0 /\ crashes = 0

Count(f) == IF cnt[f] = None THEN 0 ELSE cnt[f]
Unlocked == doomed = {}   \* tmpFileMapLock
Goto(r, label) == pc' = [pc EXCEPT ![r] = label]
Reply(r) ==
  /\ Goto(r, "idle")
  /\ name' = [name EXCEPT ![r] = None]
  /\ own' = [own EXCEPT ![r] = {}]
Fault(call) == call \in Failing /\ faults < MaxFaults /\ faults' = faults + 1

-----------------------------------------------------------------------------
(***************************************************************************)
(* Requests arrive.                                                        *)
(***************************************************************************)
Begin(r, n, label) ==
  /\ pc[r] = "idle"
  /\ requests < MaxRequests /\ requests' = requests + 1
  /\ Goto(r, label)
  /\ name' = [name EXCEPT ![r] = n]
  /\ UNCHANGED <<files, cnt, doomed, own, made, leaked, faults, crashes>>

\* GET /:id looks the name up in tmpFileMap, GET /bundle/tx/:id/data does not.
DataRoute(r, n) == Unlocked /\ Begin(r, n, IF cnt[n] # None THEN "open" ELSE "load")
ItemField(r, n) == Begin(r, n, "loadItem")
Middleware(r, n) == Begin(r, n, "page")

-----------------------------------------------------------------------------
(***************************************************************************)
(* dataRoute with an entry in tmpFileMap.                                  *)
(***************************************************************************)
OpenTmp(r) ==
  /\ pc[r] = "open"
  /\ \/ name[r] \in files /\ Goto(r, "meta") /\ UNCHANGED <<name, own, faults>>
     \/ name[r] \notin files /\ Reply(r) /\ UNCHANGED faults
     \/ Fault("open") /\ Reply(r)
  /\ UNCHANGED <<files, cnt, doomed, made, leaked, requests, crashes>>

LoadItemMeta(r) ==
  /\ pc[r] = "meta"
  /\ \/ Goto(r, "inc") /\ UNCHANGED <<name, own, faults>>
     \/ Fault("meta") /\ Reply(r)
  /\ UNCHANGED <<files, cnt, doomed, made, leaked, requests, crashes>>

-----------------------------------------------------------------------------
(***************************************************************************)
(* getBundleItemData: the data in a new temporary file of the request.     *)
(* dataRoute answers a manifest with a redirect and drops the file.        *)
(***************************************************************************)
NewFile ==
  /\ made < MaxFiles
  /\ made' = made + 1
  /\ files' = files \cup {made'}

\* The item cannot be had: nothing was downloaded and GetStream has removed its
\* file again, or the download is cut off, or the binary does not decode, and
\* nobody knows of the file it was downloaded to.
LoadFails ==
  /\ Fault("binary")
  /\ \/ UNCHANGED <<files, made, leaked>>
     \/ NewFile /\ leaked' = leaked \cup {made'}

GetItemData(r) ==
  /\ pc[r] \in {"load", "loadItem"}
  /\ \/ /\ NewFile
        /\ IF pc[r] = "load" /\ name[r] \in Manifests
           THEN Reply(r) /\ leaked' = leaked \cup {made'}
           ELSE /\ own' = [own EXCEPT ![r] = {made'}]
                /\ Goto(r, "rename")
                /\ UNCHANGED <<name, leaked>>
        /\ UNCHANGED faults
     \/ LoadFails /\ Reply(r)
  /\ UNCHANGED <<cnt, doomed, requests, crashes>>

\* Mutant: a file that could not be renamed is forgotten.
Rename_Forgets(r) ==
  /\ pc[r] = "rename"
  /\ \/ /\ files' = (files \ own[r]) \cup {name[r]}
        /\ own' = [own EXCEPT ![r] = {}]
        /\ Goto(r, "reopen")
        /\ UNCHANGED <<name, faults>>
     \/ Fault("rename") /\ Reply(r) /\ UNCHANGED files
  /\ UNCHANGED <<cnt, doomed, made, leaked, requests, crashes>>

\* dataResponse.  The deferred decFileCnt of a file that could not be renamed
\* makes its count negative: deleteTmpFile will remove it.
Rename(r) ==
  /\ pc[r] = "rename"
  /\ \/ /\ files' = (files \ own[r]) \cup {name[r]}
        /\ own' = [own EXCEPT ![r] = {}]
        /\ Goto(r, "reopen")
        /\ UNCHANGED <<cnt, name, faults>>
     \/ /\ Unlocked /\ Fault("rename")
        /\ cnt' = [f \in Files |-> IF f \in own[r] THEN Count(f) - 1 ELSE cnt[f]]
        /\ Reply(r)
        /\ UNCHANGED files
  /\ UNCHANGED <<doomed, made, leaked, requests, crashes>>

\* A renamed file that does not open again never gets an entry in tmpFileMap.
Reopen(r) ==
  /\ pc[r] = "reopen"
  /\ \/ name[r] \in files /\ Goto(r, "inc") /\ UNCHANGED <<name, own, leaked, faults>>
     \/ name[r] \notin files /\ Reply(r) /\ UNCHANGED <<leaked, faults>>
     \/ Fault("open") /\ Reply(r) /\ leaked' = leaked \cup {name[r]}
  /\ UNCHANGED <<files, cnt, doomed, made, requests, crashes>>

incFileCnt(r) ==
  /\ pc[r] = "inc"
  /\ Unlocked
  /\ cnt' = [cnt EXCEPT ![name[r]] = Count(name[r]) + 1]
  /\ Goto(r, "serve")
  /\ UNCHANGED <<files, doomed, name, own, made, leaked, bounds>>

\* dataRangeResponse: without a Range header the file is opened by its name,
\* with one it is read through the open file.
Serve(r) ==
  /\ pc[r] = "serve"
  /\ Goto(r, "dec")
  /\ UNCHANGED <<files, cnt, doomed, name, own, made, leaked, bounds>>

decFileCnt(r) ==
  /\ pc[r] = "dec"
  /\ Unlocked
  /\ cnt' = [cnt EXCEPT ![name[r]] = Count(name[r]) - 1]
  /\ Reply(r)
  /\ UNCHANGED <<files, doomed, made, leaked, bounds>>

-----------------------------------------------------------------------------
(***************************************************************************)
(* ManifestMiddleware reads the file of a manifest or of a page and, for a *)
(* manifest, handleManifest the file of the page; each is removed.         *)
(***************************************************************************)
LoadOwn(r) ==
  /\ pc[r] \in {"page", "pageFile"}
  /\ \/ /\ NewFile
        /\ own' = [own EXCEPT ![r] = @ \cup {made'}]
        /\ Goto(r, IF pc[r] = "page" /\ name[r] \in Manifests THEN "pageFile"
                   ELSE "cleanup")
        /\ UNCHANGED <<leaked, faults>>
     \/ LoadFails /\ Goto(r, "cleanup") /\ UNCHANGED own
  /\ UNCHANGED <<cnt, doomed, name, requests, crashes>>

Cleanup(r) ==
  /\ pc[r] = "cleanup"
  /\ files' = files \ own[r]
  /\ Reply(r)
  /\ UNCHANGED <<cnt, doomed, made, leaked, bounds>>

-----------------------------------------------------------------------------
(***************************************************************************)
(* deleteTmpFile holds the lock over the map, not over the files.          *)
(***************************************************************************)
\* Mutant: a file in use by one response counts as unused.
Unused_One == {f \in Files : cnt[f] # None /\ cnt[f] <= 1}

Unused == {f \in Files : cnt[f] # None /\ cnt[f] <= 0}

DeleteBegin ==
  /\ doomed = {}
  /\ doomed' = Unused
  /\ doomed' # {}
  /\ UNCHANGED <<files, cnt, local, made, leaked, bounds>>

DeleteFile(f) ==
  /\ f \in doomed
  /\ doomed' = doomed \ {f}
  /\ cnt' = [cnt EXCEPT ![f] = None]
  /\ files' = files \ {f}
  /\ UNCHANGED <<local, made, leaked, bounds>>

\* The map is lost, the files are not.
Restart ==
  /\ crashes < MaxCrashes
  /\ crashes' = crashes + 1
  /\ cnt' = [f \in Files |-> None]
  /\ doomed' = {}
  /\ pc' = [r \in Reqs |-> "idle"] /\ name' = [r \in Reqs |-> None]
  /\ own' = [r \in Reqs |-> {}]
  /\ leaked' = leaked \cup files
  /\ UNCHANGED <<files, made, requests, faults>>

Handler(r) ==
  \/ OpenTmp(r) \/ LoadItemMeta(r) \/ GetItemData(r) \/ Rename(r) \/ Reopen(r)
  \/ incFileCnt(r) \/ Serve(r) \/ decFileCnt(r) \/ LoadOwn(r) \/ Cleanup(r)
Delete == DeleteBegin \/ \E f \in Files : DeleteFile(f)

Next ==
  \/ \E r \in Reqs : \/ Handler(r)
                     \/ \E n \in Names : DataRoute(r, n) \/ ItemField(r, n) \/ Middleware(r, n)
  \/ Delete
  \/ Restart

Spec == Init /\ [][Next]_vars

\* Requests run to their end and the scheduler starts deleteTmpFile for ever;
\* a request may find the lock taken again and again, which Go's mutex bounds.
FairSpec == Spec /\ (\A r \in Reqs : SF_vars(Handler(r))) /\ WF_vars(Delete)

-----------------------------------------------------------------------------
(***************************************************************************)
(* Properties.                                                             *)
(***************************************************************************)

\* The count of a name is the number of responses between incFileCnt and
\* decFileCnt, although deleteTmpFile drops entries, requests of the same
\* client and item overlap and any of their steps may fail: a count that is
\* too high keeps a file for ever, one too low removes it under a reader.
CountIsUses ==
  \A n \in Names :
    Count(n) = Cardinality({r \in Reqs : name[r] = n /\ pc[r] \in {"serve", "dec"}})

\* Who still knows a file: the request whose own it is, a request about to
\* count the name it renamed the file to, or deleteTmpFile by its entry.
Remembered(f) ==
  \/ cnt[f] # None
  \/ \E r \in Reqs : f \in own[r] \/ (name[r] = f /\ pc[r] \in {"reopen", "inc"})

\* No file on the disk is forgotten: somebody who is going to remove it, or to
\* enter it in tmpFileMap, still knows it, although deleteTmpFile drops the
\* entries of files that other requests are just renaming to the same name,
\* and any step of a request may fail.  The exceptions are those that
\* FilesAreRemoved names.
NoFileForgotten == \A f \in files \ leaked : Remembered(f)

\* Every temporary file is removed in the end, also one that could not be
\* renamed or was read by ManifestMiddleware.  Five ways out of the code leave
\* a file behind for good: the redirect of a manifest, a failing second Open,
\* a binary that getBundleItemData cannot parse, a download that GetStream
\* could not finish, and a crash.
FilesAreRemoved == \A f \in Files : f \in files ~> f \notin files \/ f \in leaked
=============================================================================
