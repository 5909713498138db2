--------------------------- MODULE TmpFilesProofs ---------------------------
(***************************************************************************)
(* Theorems about TmpFiles, for every number of requests, clients, items,  *)
(* failing calls and crashes.                                              *)
(***************************************************************************)
EXTENDS TmpFiles, FiniteSetTheorems, TLAPS

\* The responses between incFileCnt and decFileCnt of a name.
Users(n) == {r \in Reqs : name[r] = n /\ pc[r] \in {"serve", "dec"}}

\* What the steps need to know of the values.
Shape ==
  /\ cnt \in [Files -> Int \cup {None}]
  /\ pc \in [Reqs -> Labels] /\ name \in [Reqs -> Names \cup {None}]
  /\ \A r \in Reqs : pc[r] # "idle" => name[r] \in Names
  /\ made \in 0..MaxFiles /\ own \in [Reqs -> SUBSET (1..made)]

\* deleteTmpFile still holds the lock when it removes a file: what it read as
\* unused is unused.
DoomedUnused == \A f \in doomed : f \in Files /\ cnt[f] # None /\ cnt[f] <= 0

UsesInv == Shape /\ DoomedUnused /\ CountIsUses

\* The numbers of a request's own files are no names, and None is no count.
LEMMA FilesApart ==
  /\ Names \subseteq Files /\ MaxFiles \in Nat
  /\ None \notin Int /\ None \notin Names
  /\ \A n \in Names : n \notin 1..MaxFiles
  BY TmpAssumption DEF Files

\* The users of a name are finitely many.
LEMMA UsersFinite ==
  ASSUME NEW n PROVE IsFiniteSet(Users(n)) /\ Cardinality(Users(n)) \in Nat
<1>1. Users(n) \subseteq Reqs
  BY DEF Users
<1>2. QED
  BY <1>1, TmpAssumption, FS_Subset, FS_CardinalityType

\* A step that leaves the counts of names and the users alone keeps them equal.
LEMMA SameCounts ==
  ASSUME CountIsUses,
         \A n \in Names : Count(n)' = Count(n) /\ Users(n)' = Users(n)
  PROVE  CountIsUses'
  BY DEF CountIsUses, Users

\* The count of a name follows its users through every step of the requests,
\* of deleteTmpFile and of a crash.
LEMMA UsesStep == UsesInv /\ [Next]_vars => UsesInv'
<1> SUFFICES ASSUME UsesInv, [Next]_vars PROVE UsesInv'
  OBVIOUS
<1> USE FilesApart DEF Shape, Labels, Goto, Reply, Fault, local, bounds
<1>i. Shape /\ DoomedUnused /\ CountIsUses
  BY DEF UsesInv
<1>1. ASSUME NEW r \in Reqs, NEW n \in Names,
             DataRoute(r, n) \/ ItemField(r, n) \/ Middleware(r, n)
      PROVE  UsesInv'
  <2>1. \E label \in {"open", "load", "loadItem", "page"} : Begin(r, n, label)
    BY <1>1 DEF DataRoute, ItemField, Middleware
  <2>2. Shape' /\ DoomedUnused' /\ cnt' = cnt
    BY <2>1, <1>i DEF Begin, DoomedUnused
  <2>3. \A m \in Names : Users(m)' = Users(m)
    BY <2>1, <1>i DEF Begin, Users
  <2>4. QED
    BY <2>2, <2>3, <1>i, SameCounts DEF UsesInv, Count
<1>2. ASSUME NEW r \in Reqs, OpenTmp(r) \/ LoadItemMeta(r) \/ Reopen(r) PROVE UsesInv'
  <2>1. Shape' /\ DoomedUnused' /\ cnt' = cnt
    BY <1>2, <1>i DEF OpenTmp, LoadItemMeta, Reopen, DoomedUnused
  <2>2. \A m \in Names : Users(m)' = Users(m)
    BY <1>2, <1>i DEF OpenTmp, LoadItemMeta, Reopen, Users
  <2>3. QED
    BY <2>1, <2>2, <1>i, SameCounts DEF UsesInv, Count
<1>3. ASSUME NEW r \in Reqs, GetItemData(r) \/ LoadOwn(r) \/ Cleanup(r) PROVE UsesInv'
  <2>1. Shape' /\ DoomedUnused' /\ cnt' = cnt
    BY <1>3, <1>i DEF GetItemData, LoadOwn, LoadFails, Cleanup, NewFile, DoomedUnused
  <2>2. \A m \in Names : Users(m)' = Users(m)
    BY <1>3, <1>i DEF GetItemData, LoadOwn, LoadFails, Cleanup, Users
  <2>3. QED
    BY <2>1, <2>2, <1>i, SameCounts DEF UsesInv, Count
<1>4. ASSUME NEW r \in Reqs, Rename(r) PROVE UsesInv'
  <2>1. \A f \in Files \ own[r] : cnt'[f] = cnt[f]
    BY <1>4, <1>i DEF Rename
  <2>2. Shape'
    BY <1>4, <1>i DEF Rename, Count
  <2>3. DoomedUnused'
    BY <1>4, <1>i DEF Rename, DoomedUnused, Unlocked
  <2>4. \A m \in Names : cnt'[m] = cnt[m]
    BY <2>1, <1>i
  <2>5. \A m \in Names : Users(m)' = Users(m)
    BY <1>4, <1>i DEF Rename, Users
  <2>6. QED
    BY <2>2, <2>3, <2>4, <2>5, <1>i, SameCounts DEF UsesInv, Count
<1>5. ASSUME NEW r \in Reqs, incFileCnt(r) PROVE UsesInv'
  <2>0. PICK n \in Names : n = name[r]
    BY <1>5, <1>i DEF incFileCnt
  <2>1. r \notin Users(n)
    BY <1>5, <2>0, <1>i DEF incFileCnt, Users
  <2>2. Shape' /\ DoomedUnused'
    BY <1>5, <2>0, <1>i DEF incFileCnt, Count, DoomedUnused, Unlocked
  <2>3. Users(n)' = Users(n) \cup {r} /\ \A m \in Names \ {n} : Users(m)' = Users(m)
    BY <1>5, <2>0, <1>i DEF incFileCnt, Users
  <2>4. Count(n) \in Int /\ Count(n)' = Count(n) + 1
        /\ \A m \in Names \ {n} : Count(m)' = Count(m)
    BY <1>5, <2>0, <1>i DEF incFileCnt, Count
  <2>5. Cardinality(Users(n)') = Cardinality(Users(n)) + 1
    BY <2>1, <2>3, UsersFinite, FS_AddElement
  <2>6. CountIsUses'
    <3>1. \A m \in Names : Count(m) = Cardinality(Users(m))
      BY <1>i DEF CountIsUses, Users
    <3>2. \A m \in Names : Count(m)' = Cardinality(Users(m)')
      BY <2>3, <2>4, <2>5, <3>1
    <3>3. QED
      BY <3>2 DEF CountIsUses, Users
  <2>7. QED
    BY <2>2, <2>6 DEF UsesInv
<1>6. ASSUME NEW r \in Reqs, Serve(r) PROVE UsesInv'
  <2>1. Shape' /\ DoomedUnused' /\ cnt' = cnt
    BY <1>6, <1>i DEF Serve, DoomedUnused
  <2>2. \A m \in Names : Users(m)' = Users(m)
    BY <1>6, <1>i DEF Serve, Users
  <2>3. QED
    BY <2>1, <2>2, <1>i, SameCounts DEF UsesInv, Count
<1>7. ASSUME NEW r \in Reqs, decFileCnt(r) PROVE UsesInv'
  <2>0. PICK n \in Names : n = name[r]
    BY <1>7, <1>i DEF decFileCnt
  <2>1. r \in Users(n)
    BY <1>7, <2>0, <1>i DEF decFileCnt, Users
  <2>2. Shape' /\ DoomedUnused'
    BY <1>7, <2>0, <1>i DEF decFileCnt, Count, DoomedUnused, Unlocked
  <2>3. Users(n)' = Users(n) \ {r} /\ \A m \in Names \ {n} : Users(m)' = Users(m)
    BY <1>7, <2>0, <1>i DEF decFileCnt, Users
  <2>4. Count(n) \in Int /\ Count(n)' = Count(n) - 1
        /\ \A m \in Names \ {n} : Count(m)' = Count(m)
    BY <1>7, <2>0, <1>i DEF decFileCnt, Count
  <2>5. Cardinality(Users(n)') = Cardinality(Users(n)) - 1
    BY <2>1, <2>3, UsersFinite, FS_RemoveElement
  <2>6. CountIsUses'
    <3>1. \A m \in Names : Count(m) = Cardinality(Users(m))
      BY <1>i DEF CountIsUses, Users
    <3>2. \A m \in Names : Count(m)' = Cardinality(Users(m)')
      BY <2>3, <2>4, <2>5, <3>1
    <3>3. QED
      BY <3>2 DEF CountIsUses, Users
  <2>7. QED
    BY <2>2, <2>6 DEF UsesInv
<1>8. CASE DeleteBegin
  <2>1. Shape' /\ DoomedUnused' /\ cnt' = cnt /\ \A m \in Names : Users(m)' = Users(m)
    BY <1>8, <1>i DEF DeleteBegin, Unused, DoomedUnused, Users
  <2>2. QED
    BY <2>1, <1>i, SameCounts DEF UsesInv, Count
<1>9. ASSUME NEW f \in Files, DeleteFile(f) PROVE UsesInv'
  <2>1. Shape' /\ DoomedUnused' /\ \A m \in Names : Users(m)' = Users(m)
    BY <1>9, <1>i DEF DeleteFile, DoomedUnused, Users
  <2>2. \A m \in Names \ {f} : Count(m)' = Count(m)
    BY <1>9, <1>i DEF DeleteFile, Count
  <2>3. f \in Names => Count(f) = 0
    <3>1. f \in Names => Count(f) = Cardinality(Users(f)) /\ Count(f) <= 0
      BY <1>9, <1>i DEF DeleteFile, DoomedUnused, Count, CountIsUses, Users
    <3>2. QED
      BY <3>1, UsersFinite
  <2>4. Count(f)' = 0
    BY <1>9, <1>i DEF DeleteFile, Count
  <2>5. QED
    BY <2>1, <2>2, <2>3, <2>4, <1>i, SameCounts DEF UsesInv
<1>10. CASE Restart
  <2>1. Shape' /\ DoomedUnused'
    BY <1>10, <1>i DEF Restart, DoomedUnused
  <2>2. \A m \in Names : Users(m)' = {} /\ Count(m)' = 0
    BY <1>10, <1>i DEF Restart, Users, Count
  <2>3. CountIsUses'
    BY <2>2, FS_EmptySet DEF CountIsUses, Users
  <2>4. QED
    BY <2>1, <2>3 DEF UsesInv
<1>11. CASE UNCHANGED vars
  BY <1>11, <1>i DEF vars, UsesInv, DoomedUnused, CountIsUses, Count
<1>12. QED
  BY <1>1, <1>2, <1>3, <1>4, <1>5, <1>6, <1>7, <1>8, <1>9, <1>10, <1>11
  DEF Next, Handler, Delete

\* tmpFileMap counts exactly the responses that use a file name, however the
\* requests of a client, deleteTmpFile, failures and crashes interleave: no
\* file is removed while a response still counts on it, and none is kept by a
\* count that never returns to zero.
THEOREM CountsAreUses == Spec => []CountIsUses
<1>1. Init => UsesInv
  <2> SUFFICES ASSUME Init PROVE UsesInv
    OBVIOUS
  <2>1. Shape /\ DoomedUnused
    BY FilesApart DEF Init, Shape, DoomedUnused, Labels
  <2>2. \A n \in Names : Users(n) = {} /\ Count(n) = 0
    BY FilesApart DEF Init, Users, Count
  <2>3. QED
    BY <2>1, <2>2, FS_EmptySet DEF UsesInv, CountIsUses, Users
<1>2. UsesInv => CountIsUses
  BY DEF UsesInv
<1>3. QED
  BY <1>1, <1>2, UsesStep, PTL DEF Spec

\* A request has files of its own only between their creation and the step
\* that renames, counts or removes them: no other return drops one.
OwnInHand ==
  \A r \in Reqs : own[r] # {} => pc[r] \in {"rename", "pageFile", "cleanup"}

ForgetInv == Shape /\ OwnInHand /\ files \subseteq Files /\ NoFileForgotten

\* A file stays known through a step when its entry, and whoever holds it or is
\* about to count it, stay.
LEMMA StaysRemembered ==
  ASSUME NEW f, Remembered(f), cnt[f] # None => cnt'[f] # None,
         \A r \in Reqs : f \in own[r] => f \in own'[r],
         \A r \in Reqs : name[r] = f /\ pc[r] \in {"reopen", "inc"}
                           => cnt'[f] # None
                              \/ (name'[r] = f /\ pc'[r] \in {"reopen", "inc"})
  PROVE  Remembered(f)'
  BY DEF Remembered

\* The steps of the requests, deleteTmpFile and a crash leave no file on the
\* disk that nobody knows.
LEMMA ForgetStep == ForgetInv /\ [Next]_vars => ForgetInv'
<1> SUFFICES ASSUME ForgetInv, [Next]_vars PROVE ForgetInv'
  OBVIOUS
<1> USE FilesApart DEF Shape, Labels, Goto, Reply, Fault, local, bounds
<1>i. Shape /\ OwnInHand /\ files \subseteq Files
      /\ \A f \in files \ leaked : Remembered(f)
  BY DEF ForgetInv, NoFileForgotten
<1>1. ASSUME NEW r \in Reqs, NEW n \in Names,
             DataRoute(r, n) \/ ItemField(r, n) \/ Middleware(r, n)
      PROVE  ForgetInv'
  <2>1. \E label \in {"open", "load", "loadItem", "page"} : Begin(r, n, label)
    BY <1>1 DEF DataRoute, ItemField, Middleware
  <2>2. Shape' /\ OwnInHand' /\ files' \subseteq Files
    BY <2>1, <1>i DEF Begin, OwnInHand
  <2>3. ASSUME NEW f \in files' \ leaked' PROVE Remembered(f)'
    <3>1. f \in files \ leaked /\ cnt' = cnt /\ own' = own
      BY <2>1 DEF Begin
    <3>2. \A q \in Reqs : pc[q] \in {"reopen", "inc"}
                             => name'[q] = name[q] /\ pc'[q] = pc[q]
      BY <2>1, <1>i DEF Begin
    <3>3. QED
      BY <3>1, <3>2, <1>i, StaysRemembered
  <2>4. QED
    BY <2>2, <2>3 DEF ForgetInv, NoFileForgotten
<1>2. ASSUME NEW r \in Reqs, OpenTmp(r) \/ LoadItemMeta(r) \/ Serve(r) PROVE ForgetInv'
  <2>1. Shape' /\ OwnInHand' /\ files' \subseteq Files
    BY <1>2, <1>i DEF OpenTmp, LoadItemMeta, Serve, OwnInHand
  <2>2. ASSUME NEW f \in files' \ leaked' PROVE Remembered(f)'
    <3>1. f \in files \ leaked /\ cnt' = cnt
      BY <1>2 DEF OpenTmp, LoadItemMeta, Serve
    <3>2. \A q \in Reqs : own'[q] = own[q]
      BY <1>2, <1>i DEF OpenTmp, LoadItemMeta, Serve, OwnInHand
    <3>3. \A q \in Reqs : pc[q] \in {"reopen", "inc"}
                             => name'[q] = name[q] /\ pc'[q] = pc[q]
      BY <1>2, <1>i DEF OpenTmp, LoadItemMeta, Serve
    <3>4. QED
      BY <3>1, <3>2, <3>3, <1>i, StaysRemembered
  <2>3. QED
    BY <2>1, <2>2 DEF ForgetInv, NoFileForgotten
<1>3. ASSUME NEW r \in Reqs, GetItemData(r) \/ LoadOwn(r) PROVE ForgetInv'
  <2>1. Shape' /\ OwnInHand'
    BY <1>3, <1>i DEF GetItemData, LoadOwn, LoadFails, NewFile, OwnInHand
  <2>2. files' \subseteq Files
    BY <1>3, <1>i DEF GetItemData, LoadOwn, LoadFails, NewFile, Files
  <2>3. \A q \in Reqs : own[q] \subseteq own'[q]
    BY <1>3, <1>i DEF GetItemData, LoadOwn, LoadFails, NewFile, OwnInHand
  <2>4. \A q \in Reqs : pc[q] \in {"reopen", "inc"}
                           => name'[q] = name[q] /\ pc'[q] = pc[q]
    BY <1>3, <1>i DEF GetItemData, LoadOwn, LoadFails, NewFile
  <2>5. ASSUME NEW f \in files' \ leaked' PROVE Remembered(f)'
    <3>1. CASE f \in files
      <4>1. f \in files \ leaked /\ cnt' = cnt
        BY <1>3, <2>5, <3>1 DEF GetItemData, LoadOwn, LoadFails, NewFile
      <4>2. QED
        BY <4>1, <2>3, <2>4, <1>i, StaysRemembered
    <3>2. CASE f \notin files
      <4>1. f \in own'[r]
        BY <1>3, <2>5, <3>2, <1>i DEF GetItemData, LoadOwn, LoadFails, NewFile
      <4>2. QED
        BY <4>1 DEF Remembered
    <3>3. QED
      BY <3>1, <3>2
  <2>6. QED
    BY <2>1, <2>2, <2>5 DEF ForgetInv, NoFileForgotten
<1>4. ASSUME NEW r \in Reqs, Rename(r) PROVE ForgetInv'
  <2>1. Shape' /\ OwnInHand'
    BY <1>4, <1>i DEF Rename, Count, OwnInHand
  <2>2. files' \subseteq Files /\ name[r] \in Names
    BY <1>4, <1>i DEF Rename, Files
  <2>3. \A f \in Files : cnt[f] # None => cnt'[f] # None
    BY <1>4, <1>i DEF Rename, Count
  <2>4. \A q \in Reqs : pc[q] \in {"reopen", "inc"}
                           => name'[q] = name[q] /\ pc'[q] = pc[q]
    BY <1>4, <1>i DEF Rename
  <2>5. \A q \in Reqs \ {r} : own'[q] = own[q]
    BY <1>4, <1>i DEF Rename
  <2>6. ASSUME NEW f \in files' \ leaked' PROVE Remembered(f)'
    <3>1. CASE f \in files /\ f \notin own[r]
      <4>1. f \in files \ leaked
        BY <1>4, <2>6, <3>1 DEF Rename
      <4>2. QED
        BY <4>1, <3>1, <2>2, <2>3, <2>4, <2>5, <1>i, StaysRemembered
    <3>2. CASE f \in own[r] /\ f # name[r]
      <4>1. f \in Files
        BY <2>2, <2>6
      <4>2. cnt'[f] # None
        BY <1>4, <2>6, <3>2, <4>1, <1>i DEF Rename, Count
      <4>3. QED
        BY <4>2 DEF Remembered
    <3>3. CASE f \notin files \/ f = name[r]
      <4>1. f \notin own[r]
        BY <3>3, <2>6, <2>2, <1>4, <1>i DEF Rename
      <4>2. CASE f \in files
        BY <4>1, <4>2, <3>1
      <4>3. CASE f \notin files
        <5>1. f = name[r] /\ name'[r] = f /\ pc'[r] = "reopen"
          BY <4>3, <2>6, <1>4, <1>i DEF Rename
        <5>2. QED
          BY <5>1 DEF Remembered
      <4>4. QED
        BY <4>2, <4>3
    <3>4. QED
      BY <3>1, <3>2, <3>3
  <2>7. QED
    BY <2>1, <2>2, <2>6 DEF ForgetInv, NoFileForgotten
<1>5. ASSUME NEW r \in Reqs, Reopen(r) PROVE ForgetInv'
  <2>1. Shape' /\ OwnInHand' /\ files' \subseteq Files
    BY <1>5, <1>i DEF Reopen, OwnInHand
  <2>2. ASSUME NEW f \in files' \ leaked' PROVE Remembered(f)'
    <3>1. f \in files \ leaked /\ cnt' = cnt
      BY <1>5 DEF Reopen
    <3>2. \A q \in Reqs : own'[q] = own[q]
      BY <1>5, <1>i DEF Reopen, OwnInHand
    <3>3. \A q \in Reqs : name[q] = f /\ pc[q] \in {"reopen", "inc"}
                             => name'[q] = f /\ pc'[q] \in {"reopen", "inc"}
      BY <1>5, <2>2, <3>1, <1>i DEF Reopen
    <3>4. QED
      BY <3>1, <3>2, <3>3, <1>i, StaysRemembered
  <2>3. QED
    BY <2>1, <2>2 DEF ForgetInv, NoFileForgotten
<1>6. ASSUME NEW r \in Reqs, incFileCnt(r) \/ decFileCnt(r) PROVE ForgetInv'
  <2>1. Shape' /\ OwnInHand' /\ files' \subseteq Files
    BY <1>6, <1>i DEF incFileCnt, decFileCnt, Count, OwnInHand
  <2>2. name[r] \in Files /\ cnt'[name[r]] # None
        /\ \A f \in Files : cnt[f] # None => cnt'[f] # None
    BY <1>6, <1>i DEF incFileCnt, decFileCnt, Count
  <2>3. ASSUME NEW f \in files' \ leaked' PROVE Remembered(f)'
    <3>1. f \in files \ leaked /\ f \in Files
      BY <1>6, <2>1 DEF incFileCnt, decFileCnt
    <3>2. \A q \in Reqs : own'[q] = own[q]
      BY <1>6, <1>i DEF incFileCnt, decFileCnt, OwnInHand
    <3>3. \A q \in Reqs : name[q] = f /\ pc[q] \in {"reopen", "inc"}
                             => cnt'[f] # None
                                \/ (name'[q] = f /\ pc'[q] \in {"reopen", "inc"})
      BY <1>6, <2>2, <1>i DEF incFileCnt, decFileCnt
    <3>4. QED
      BY <3>1, <3>2, <3>3, <2>2, <1>i, StaysRemembered
  <2>4. QED
    BY <2>1, <2>3 DEF ForgetInv, NoFileForgotten
<1>7. ASSUME NEW r \in Reqs, Cleanup(r) PROVE ForgetInv'
  <2>1. Shape' /\ OwnInHand' /\ files' \subseteq Files
    BY <1>7, <1>i DEF Cleanup, OwnInHand
  <2>2. ASSUME NEW f \in files' \ leaked' PROVE Remembered(f)'
    <3>1. f \in files \ leaked /\ cnt' = cnt /\ f \notin own[r]
      BY <1>7 DEF Cleanup
    <3>2. \A q \in Reqs : f \in own[q] => f \in own'[q]
      BY <1>7, <3>1, <1>i DEF Cleanup
    <3>3. \A q \in Reqs : pc[q] \in {"reopen", "inc"}
                             => name'[q] = name[q] /\ pc'[q] = pc[q]
      BY <1>7, <1>i DEF Cleanup
    <3>4. QED
      BY <3>1, <3>2, <3>3, <1>i, StaysRemembered
  <2>3. QED
    BY <2>1, <2>2 DEF ForgetInv, NoFileForgotten
<1>8. CASE DeleteBegin \/ UNCHANGED vars
  BY <1>8, <1>i DEF DeleteBegin, vars, ForgetInv, OwnInHand, NoFileForgotten, Remembered
<1>9. ASSUME NEW f \in Files, DeleteFile(f) PROVE ForgetInv'
  <2>1. Shape' /\ OwnInHand' /\ files' \subseteq Files
    BY <1>9, <1>i DEF DeleteFile, OwnInHand
  <2>2. ASSUME NEW g \in files' \ leaked' PROVE Remembered(g)'
    <3>1. g \in files \ leaked /\ cnt'[g] = cnt[g] /\ own' = own /\ name' = name /\ pc' = pc
      BY <1>9, <2>2, <1>i DEF DeleteFile
    <3>2. QED
      BY <3>1, <1>i, StaysRemembered
  <2>3. QED
    BY <2>1, <2>2 DEF ForgetInv, NoFileForgotten
<1>10. CASE Restart
  <2>1. Shape' /\ OwnInHand' /\ files' \subseteq Files /\ files' \ leaked' = {}
    BY <1>10, <1>i DEF Restart, OwnInHand
  <2>2. QED
    BY <2>1 DEF ForgetInv, NoFileForgotten
<1>11. QED
  BY <1>1, <1>2, <1>3, <1>4, <1>5, <1>6, <1>7, <1>8, <1>9, <1>10
  DEF Next, Handler, Delete

\* No temporary file is forgotten, however many requests of a client rename
\* their files to the same name while deleteTmpFile drops its entry, and
\* whichever of their steps fail: a file that is left behind for good was left
\* by one of the three ways that `leaked' records.
THEOREM FilesNotForgotten == Spec => []NoFileForgotten
<1>1. Init => ForgetInv
  BY FilesApart
  DEF Init, ForgetInv, Shape, Labels, OwnInHand, NoFileForgotten
<1>2. ForgetInv => NoFileForgotten
  BY DEF ForgetInv
<1>3. QED
  BY <1>1, <1>2, ForgetStep, PTL DEF Spec
=============================================================================
