---------------------------- MODULE ReportsProofs ---------------------------
(***************************************************************************)
(* Theorems about the publication to Kafka and the daily statistic, for    *)
(* every number of topics, orders, days, failures and crashes.             *)
(***************************************************************************)
EXTENDS Reports, SumTheorems, SequenceTheorems

-----------------------------------------------------------------------------
(***************************************************************************)
(* The publication.                                                        *)
(***************************************************************************)

\* A job works on rows without the flag; behind the write the row is
\* published; a flagged row was.
JobInv ==
  /\ ready \in [Topics -> SUBSET Rows] /\ flag \in [Topics -> SUBSET Rows]
  /\ writes \in [Topics -> [Rows -> Nat]]
  /\ job \in [Topics -> [pc: {"idle", "look", "write", "done"}, todo: SUBSET Rows]]
  /\ faults \in Nat /\ crashes \in Nat
  /\ \A t \in Topics :
       /\ job[t].pc = "idle" <=> job[t].todo = {}
       /\ job[t].todo \cap flag[t] = {}
       /\ \A n \in flag[t] : writes[t][n] >= 1
       /\ job[t].pc = "done" => writes[t][Row(t)] >= 1

LEMMA RowOfBatch ==
  ASSUME NEW S \in SUBSET Rows, S # {}
  PROVE  Min(S) \in S
<1>1. S \in SUBSET Nat
  BY KafkaAssumption DEF Rows
<1>2. \E x \in S : \A y \in S : x <= y
  BY <1>1, LeastNatural
<1>3. QED
  BY <1>2 DEF Min

LEMMA CurrentRow ==
  ASSUME JobInv, NEW t \in Topics, job[t].pc # "idle"
  PROVE  Row(t) \in job[t].todo /\ Row(t) \in Rows /\ Row(t) \notin flag[t]
<1>1. job[t].todo \in SUBSET Rows /\ job[t].todo # {}
  BY DEF JobInv
<1>2. Row(t) \in job[t].todo
  BY <1>1, RowOfBatch DEF Row
<1>3. QED
  BY <1>1, <1>2 DEF JobInv

\* The next row leaves a job that is idle or about to look a row up.
LEMMA RestOfBatch ==
  ASSUME JobInv, NEW t \in Topics, NextRow(t)
  PROVE  /\ job' \in [Topics -> [pc: {"idle", "look", "write", "done"}, todo: SUBSET Rows]]
         /\ \A u \in Topics \ {t} : job'[u] = job[u]
         /\ job'[t].pc \in {"idle", "look"}
         /\ job'[t].pc = "idle" <=> job'[t].todo = {}
         /\ job'[t].todo = job[t].todo \ {Row(t)}
  BY DEF NextRow, JobInv, Idle

\* What the publication does to its variables, for the composed system: every
\* step of it is one of these, and any other step leaves them alone.
KafkaStep ==
  \/ \E t \in Topics : Job(t) \/ \E n \in Rows : Ready(t, n)
  \/ Restart

LEMMA JobStep ==
  ASSUME JobInv, KafkaStep
  PROVE  JobInv'
<1>1. ASSUME NEW t \in Topics, Begin(t) PROVE JobInv'
  <2>1. Query(t) \in SUBSET Rows /\ Query(t) \cap flag[t] = {} /\ Query(t) # {}
    BY <1>1 DEF Begin, Query, JobInv
  <2>2. QED
    BY <1>1, <2>1 DEF Begin, JobInv, Row
<1>2. ASSUME NEW t \in Topics, LookUp(t) PROVE JobInv'
  <2>1. job[t].pc = "look" /\ ready' = ready /\ flag' = flag /\ writes' = writes
        /\ crashes' = crashes /\ faults' \in Nat
    BY <1>2 DEF LookUp, Fault, JobInv
  <2>2. CASE Goto(t, "write")
    BY <2>1, <2>2 DEF Goto, JobInv, Row
  <2>3. CASE NextRow(t)
    BY <2>1, <2>3, RestOfBatch DEF JobInv, Row
  <2>4. QED
    BY <1>2, <2>2, <2>3 DEF LookUp
<1>3. ASSUME NEW t \in Topics, Write(t) PROVE JobInv'
  <2>0. job[t].pc = "write" /\ ready' = ready /\ flag' = flag
        /\ crashes' = crashes /\ faults' \in Nat
    BY <1>3 DEF Write, Fault, JobInv
  <2>1. Row(t) \in Rows /\ Row(t) \notin flag[t]
    BY <2>0, CurrentRow
  <2>2. CASE writes' = [writes EXCEPT ![t][Row(t)] = @ + 1] /\ Goto(t, "done")
    <3>1. /\ job' \in [Topics -> [pc: {"idle", "look", "write", "done"}, todo: SUBSET Rows]]
          /\ \A u \in Topics : job'[u].todo = job[u].todo
          /\ \A u \in Topics \ {t} : job'[u] = job[u]
          /\ job'[t].pc = "done" /\ Row(t)' = Row(t)
      BY <2>2 DEF Goto, JobInv, Row
    <3>2. /\ writes' \in [Topics -> [Rows -> Nat]] /\ writes'[t][Row(t)] >= 1
          /\ \A u \in Topics : \A n \in Rows : writes'[u][n] >= writes[u][n]
      BY <2>1, <2>2 DEF JobInv
    <3>3. \A u \in Topics \ {t} : job'[u].pc = "done" => writes'[u][Row(u)'] >= 1
      BY <2>2, <3>1 DEF JobInv, Row
    <3>4. ASSUME NEW u \in Topics, NEW n \in flag[u] PROVE writes'[u][n] >= 1
      BY <3>2 DEF JobInv
    <3>5. QED
      BY <2>0, <3>1, <3>2, <3>3, <3>4 DEF JobInv
  <2>3. CASE writes' = [writes EXCEPT ![t][Row(t)] = @ + 1] /\ NextRow(t)
    BY <2>0, <2>1, <2>3, RestOfBatch DEF JobInv, Row
  <2>4. CASE writes' = writes /\ NextRow(t)
    BY <2>0, <2>4, RestOfBatch DEF JobInv, Row
  <2>5. QED
    BY <1>3, <2>2, <2>3, <2>4 DEF Write
<1>4. ASSUME NEW t \in Topics, KafkaDone(t) PROVE JobInv'
  <2>0. job[t].pc = "done" /\ ready' = ready /\ writes' = writes /\ NextRow(t)
        /\ crashes' = crashes /\ faults' \in Nat
    BY <1>4 DEF KafkaDone, Fault, JobInv
  <2>1. Row(t) \in Rows /\ writes[t][Row(t)] >= 1
    BY <2>0, CurrentRow DEF JobInv
  <2>2. CASE flag' = [flag EXCEPT ![t] = @ \cup {Row(t)}]
    BY <2>0, <2>1, <2>2, RestOfBatch DEF JobInv, Row
  <2>3. CASE flag' = flag
    <3>1. ASSUME NEW u \in Topics
          PROVE  /\ job'[u].pc = "idle" <=> job'[u].todo = {}
                 /\ job'[u].todo \cap flag[u] = {}
                 /\ job'[u].pc = "done" => writes[u][Row(u)'] >= 1
      <4>1. CASE u = t
        BY <2>0, <4>1, RestOfBatch DEF JobInv
      <4>2. CASE u # t
        <5>1. job'[u] = job[u]
          BY <2>0, <4>2, RestOfBatch
        <5>2. QED
          BY <5>1 DEF JobInv, Row
      <4>3. QED
        BY <4>1, <4>2
    <3>2. job' \in [Topics -> [pc: {"idle", "look", "write", "done"}, todo: SUBSET Rows]]
      BY <2>0, RestOfBatch
    <3>3. QED
      BY <2>0, <2>3, <3>1, <3>2 DEF JobInv
  <2>4. QED
    BY <1>4, <2>2, <2>3 DEF KafkaDone
<1>5. ASSUME NEW t \in Topics, NEW n \in Rows, Ready(t, n) PROVE JobInv'
  BY <1>5 DEF Ready, JobInv, Row
<1>6. CASE Restart
  BY <1>6 DEF Restart, JobInv, Idle, Row
<1>7. QED
  BY <1>1, <1>2, <1>3, <1>4, <1>5, <1>6 DEF KafkaStep, Job

\* A step of the composed system is one of the publication, or leaves its
\* variables alone and at most counts a failure.
LEMMA StepOfAll ==
  ASSUME JobInv, [NextAll]_all
  PROVE  KafkaStep \/ (UNCHANGED <<kafkaVars, crashes>> /\ faults' \in Nat /\ faults' >= faults)
<1>1. CASE UNCHANGED all
  BY <1>1 DEF all, vars, kafkaVars, JobInv
<1>2. CASE \E t \in Topics : Publish(t) \/ Flag(t) \/ \E n \in Rows : Eligible(t, n)
  BY <1>2 DEF Publish, Flag, Eligible, KafkaStep, Job
<1>3. CASE \E n \in Rows : UpdateStatus(n)
  BY <1>3 DEF UpdateStatus, Stat!Succeed, Stat!Reopen, Stat!failed, JobInv
<1>4. CASE FirstOrder \/ NextDay
  BY <1>4 DEF FirstOrder, NextDay, Stat!FirstOrder, Stat!NextDay, Stat!failed, JobInv
<1>5. CASE Schedule
  BY <1>5 DEF Schedule, Stat!Schedule, Stat!failed, JobInv
<1>6. CASE \E p \in Stat!Runs : Produce(p)
  <2>1. PICK p \in Stat!Runs : Produce(p)
    BY <1>6
  <2>2. QED
    BY <2>1 DEF Produce, Stat!Produce, Stat!ReadLast, Stat!Check, Stat!CountDay, Stat!Create,
                Stat!Lose, Stat!Fault, Stat!failed, JobInv
<1>7. CASE RestartAll
  BY <1>7 DEF RestartAll, KafkaStep
<1>8. QED
  BY <1>1, <1>2, <1>3, <1>4, <1>5, <1>6, <1>7 DEF NextAll

LEMMA JobInvariant ==
  /\ InitAll => JobInv
  /\ JobInv /\ [NextAll]_all => JobInv'
<1>1. InitAll => JobInv
  BY DEF InitAll, Init, Idle, JobInv
<1>2. ASSUME JobInv, [NextAll]_all PROVE JobInv'
  <2>1. CASE UNCHANGED <<kafkaVars, crashes>> /\ faults' \in Nat
    BY <1>2, <2>1 DEF kafkaVars, JobInv, Row
  <2>2. QED
    BY <1>2, <2>1, JobStep, StepOfAll
<1>3. QED
  BY <1>1, <1>2

\* The kafka column is set behind the write that succeeded: no lost write,
\* failing update or crash between the two drops a message.
THEOREM FlaggedWasPublished == SpecAll => []FlaggedIsPublished
<1>1. JobInv => FlaggedIsPublished
  BY DEF JobInv, FlaggedIsPublished
<1>2. QED
  BY <1>1, JobInvariant, PTL DEF SpecAll

-----------------------------------------------------------------------------
(***************************************************************************)
(* Duplicates.  A write is owed for until its row is flagged; a job that   *)
(* is about to set the flag is the only one that may owe for a write       *)
(* without a failure or a crash.                                           *)
(***************************************************************************)
Messages == Topics \X Rows

Owed == [p \in Messages |-> writes[p[1]][p[2]] - (IF p[2] \in flag[p[1]] THEN 1 ELSE 0)]

AboutToFlag == {t \in Topics : job[t].pc = "done"}

OwedInv ==
  SumFunctionOnSet(Owed, Messages)
    <= faults + Cardinality(Topics) * crashes + Cardinality(AboutToFlag)

LEMMA FiniteMessages ==
  /\ IsFiniteSet(Messages)
  /\ Cardinality(Topics) \in Nat
  /\ IsFiniteSet(AboutToFlag) /\ Cardinality(AboutToFlag) \in Nat
  /\ Cardinality(AboutToFlag) <= Cardinality(Topics)
<1>1. IsFiniteSet(Topics) /\ IsFiniteSet(Rows)
  BY KafkaAssumption, FS_Interval DEF Rows
<1>2. IsFiniteSet(Messages)
  BY <1>1, FS_Product DEF Messages
<1>3. IsFiniteSet(AboutToFlag) /\ Cardinality(AboutToFlag) <= Cardinality(Topics)
  BY <1>1, FS_Subset DEF AboutToFlag
<1>4. QED
  BY <1>1, <1>2, <1>3, FS_CardinalityType

LEMMA OwedType ==
  ASSUME JobInv
  PROVE  /\ \A p \in Messages : Owed[p] \in Nat
         /\ SumFunctionOnSet(Owed, Messages) \in Nat
<1>1. ASSUME NEW p \in Messages PROVE Owed[p] \in Nat
  <2>1. p[1] \in Topics /\ p[2] \in Rows
    BY DEF Messages
  <2>2. writes[p[1]][p[2]] \in Nat /\ (p[2] \in flag[p[1]] => writes[p[1]][p[2]] >= 1)
    BY <2>1 DEF JobInv
  <2>3. QED
    BY <2>2 DEF Owed
<1>2. QED
  BY <1>1, FiniteMessages, SumIsNat

LEMMA OwedTypeNext ==
  ASSUME JobInv'
  PROVE  /\ \A p \in Messages : Owed'[p] \in Nat
         /\ SumFunctionOnSet(Owed', Messages) \in Nat
<1>1. ASSUME NEW p \in Messages PROVE Owed'[p] \in Nat
  <2>1. p[1] \in Topics /\ p[2] \in Rows
    BY DEF Messages
  <2>2. writes'[p[1]][p[2]] \in Nat /\ (p[2] \in flag'[p[1]] => writes'[p[1]][p[2]] >= 1)
    BY <2>1 DEF JobInv
  <2>3. QED
    BY <2>2 DEF Owed
<1>2. QED
  BY <1>1, FiniteMessages, SumIsNat

\* One message of the sum changes.
LEMMA OwedChange ==
  ASSUME JobInv, JobInv', NEW t \in Topics, NEW n \in Rows, NEW d \in Int,
         Owed'[<<t, n>>] = Owed[<<t, n>>] + d,
         \A p \in Messages : p # <<t, n>> => Owed'[p] = Owed[p]
  PROVE  SumFunctionOnSet(Owed', Messages) = SumFunctionOnSet(Owed, Messages) + d
<1>1. <<t, n>> \in Messages
  BY DEF Messages
<1>2. SumFunctionOnSet(Owed', Messages) =
        SumFunctionOnSet(Owed, Messages) - Owed[<<t, n>>] + Owed'[<<t, n>>]
  BY <1>1, OwedType, OwedTypeNext, FiniteMessages, SumChange
<1>3. Owed[<<t, n>>] \in Nat /\ SumFunctionOnSet(Owed, Messages) \in Nat
  BY <1>1, OwedType
<1>4. QED
  BY <1>2, <1>3

LEMMA OwedSame ==
  ASSUME JobInv, writes' = writes, flag' = flag
  PROVE  SumFunctionOnSet(Owed', Messages) = SumFunctionOnSet(Owed, Messages)
  BY DEF Owed

LEMMA OwedStep ==
  ASSUME JobInv, JobInv', OwedInv,
         KafkaStep \/ (UNCHANGED <<kafkaVars, crashes>> /\ faults' \in Nat /\ faults' >= faults)
  PROVE  OwedInv'
<1> DEFINE S == SumFunctionOnSet(Owed, Messages)
           T == SumFunctionOnSet(Owed', Messages)
           c == Cardinality(AboutToFlag)
           k == Cardinality(Topics)
<1>0. /\ S \in Nat /\ T \in Nat /\ c \in Nat /\ k \in Nat /\ c <= k
      /\ S <= faults + k * crashes + c
      /\ faults \in Nat /\ crashes \in Nat /\ IsFiniteSet(AboutToFlag)
  BY OwedType, OwedTypeNext, FiniteMessages DEF OwedInv, JobInv
<1>g. OwedInv' <=> T <= faults' + k * crashes' + Cardinality(AboutToFlag')
  BY DEF OwedInv, Messages, Rows
<1>h. k * crashes \in Nat
  BY <1>0
<1>p. \A t \in Topics, n \in Rows : \A p \in Messages :
        p # <<t, n>> => p[1] \in Topics /\ p[2] \in Rows /\ (p[1] # t \/ p[2] # n)
  BY DEF Messages
<1>q. \A t \in Topics, n \in Rows :
        /\ Owed[<<t, n>>] = writes[t][n] - (IF n \in flag[t] THEN 1 ELSE 0)
        /\ Owed'[<<t, n>>] = writes'[t][n] - (IF n \in flag'[t] THEN 1 ELSE 0)
  BY DEF Owed, Messages
<1> HIDE DEF S, T, c, k
\* A job that does not reach or leave the update.
<1>a. ASSUME T = S, AboutToFlag' = AboutToFlag, crashes' = crashes, faults' \in Nat,
             faults' >= faults
      PROVE  OwedInv'
  BY <1>a, <1>g, <1>0, <1>h DEF c
\* A job that leaves it with its flag not set, or a write nobody knows of.
<1>1. ASSUME NEW t \in Topics, Begin(t) PROVE OwedInv'
  <2>1. AboutToFlag' = AboutToFlag
    BY <1>1 DEF Begin, AboutToFlag, JobInv
  <2>2. T = S
    BY <1>1, OwedSame DEF Begin, S, T
  <2>3. QED
    BY <1>0, <1>1, <1>a, <2>1, <2>2 DEF Begin
<1>2. ASSUME NEW t \in Topics, LookUp(t) PROVE OwedInv'
  <2>1. AboutToFlag' = AboutToFlag
    <3>1. CASE Goto(t, "write")
      BY <1>2, <3>1 DEF LookUp, Goto, AboutToFlag, JobInv
    <3>2. CASE NextRow(t)
      BY <1>2, <3>2, RestOfBatch DEF LookUp, AboutToFlag
    <3>3. QED
      BY <1>2, <3>1, <3>2 DEF LookUp
  <2>2. T = S
    BY <1>2, OwedSame DEF LookUp, S, T
  <2>3. faults' \in Nat /\ faults' >= faults /\ crashes' = crashes
    BY <1>0, <1>2 DEF LookUp, Fault
  <2>4. QED
    BY <1>a, <2>1, <2>2, <2>3
<1>3. ASSUME NEW t \in Topics, Write(t) PROVE OwedInv'
  <2>0. job[t].pc = "write" /\ flag' = flag /\ crashes' = crashes
    BY <1>3 DEF Write
  <2>1. Row(t) \in Rows /\ Row(t) \notin flag[t]
    BY <2>0, CurrentRow
  <2>2. ASSUME writes' = [writes EXCEPT ![t][Row(t)] = @ + 1]
        PROVE  T = S + 1
    <3>1. \A u \in Topics, n \in Rows :
            writes'[u][n] = IF u = t /\ n = Row(t) THEN writes[u][n] + 1 ELSE writes[u][n]
      BY <2>1, <2>2 DEF JobInv
    <3>2. writes[t][Row(t)] \in Nat
      BY <2>1 DEF JobInv
    <3>3. Owed'[<<t, Row(t)>>] = Owed[<<t, Row(t)>>] + 1
      BY <1>q, <2>0, <2>1, <3>1, <3>2
    <3>4. \A p \in Messages : p # <<t, Row(t)>> => Owed'[p] = Owed[p]
      BY <1>p, <2>0, <2>1, <3>1 DEF Owed
    <3>5. QED
      BY <2>1, <3>3, <3>4, OwedChange DEF S, T
  <2>3. CASE writes' = [writes EXCEPT ![t][Row(t)] = @ + 1] /\ Goto(t, "done") /\ faults' = faults
    <3>1. AboutToFlag' = AboutToFlag \cup {t} /\ t \notin AboutToFlag
      BY <2>0, <2>3 DEF Goto, AboutToFlag, JobInv
    <3>2. Cardinality(AboutToFlag') = c + 1
      BY <1>0, <3>1, FS_AddElement DEF c
    <3>3. QED
      BY <1>0, <1>g, <1>h, <2>0, <2>2, <2>3, <3>2
  <2>4. CASE Fault /\ writes' \in {writes, [writes EXCEPT ![t][Row(t)] = @ + 1]} /\ NextRow(t)
    <3>1. AboutToFlag' = AboutToFlag
      BY <2>0, <2>4, RestOfBatch DEF AboutToFlag
    <3>2. T = S \/ T = S + 1
      BY <2>0, <2>2, <2>4, OwedSame DEF S, T
    <3>3. faults' = faults + 1
      BY <2>4 DEF Fault
    <3>4. QED
      BY <1>0, <1>g, <1>h, <2>0, <3>1, <3>2, <3>3 DEF c
  <2>5. QED
    BY <1>3, <2>3, <2>4 DEF Write
<1>4. ASSUME NEW t \in Topics, KafkaDone(t) PROVE OwedInv'
  <2>0. job[t].pc = "done" /\ writes' = writes /\ crashes' = crashes /\ NextRow(t)
    BY <1>4 DEF KafkaDone
  <2>1. Row(t) \in Rows /\ Row(t) \notin flag[t]
    BY <2>0, CurrentRow
  <2>2. AboutToFlag' = AboutToFlag \ {t} /\ t \in AboutToFlag
    BY <2>0, RestOfBatch DEF AboutToFlag
  <2>3. Cardinality(AboutToFlag') = c - 1
    BY <1>0, <2>2, FS_RemoveElement DEF c
  <2>4. CASE flag' = [flag EXCEPT ![t] = @ \cup {Row(t)}] /\ faults' = faults
    <3>1. \A u \in Topics, n \in Rows :
            n \in flag'[u] <=> n \in flag[u] \/ (u = t /\ n = Row(t))
      BY <2>1, <2>4 DEF JobInv
    <3>2. writes[t][Row(t)] \in Nat
      BY <2>1 DEF JobInv
    <3>3. Owed'[<<t, Row(t)>>] = Owed[<<t, Row(t)>>] + (-1)
      BY <1>q, <2>0, <2>1, <3>1, <3>2
    <3>4. \A p \in Messages : p # <<t, Row(t)>> => Owed'[p] = Owed[p]
      BY <1>p, <2>0, <2>1, <3>1 DEF Owed
    <3>5. T = S + (-1)
      BY <2>1, <3>3, <3>4, OwedChange DEF S, T
    <3>6. QED
      BY <1>0, <1>g, <1>h, <2>0, <2>3, <2>4, <3>5
  <2>5. CASE Fault /\ flag' = flag
    <3>1. T = S
      BY <2>0, <2>5, OwedSame DEF S, T
    <3>2. faults' = faults + 1
      BY <2>5 DEF Fault
    <3>3. QED
      BY <1>0, <1>g, <1>h, <2>0, <2>3, <3>1, <3>2
  <2>6. QED
    BY <1>4, <2>4, <2>5 DEF KafkaDone
<1>5. ASSUME NEW t \in Topics, NEW n \in Rows, Ready(t, n) PROVE OwedInv'
  <2>1. AboutToFlag' = AboutToFlag
    BY <1>5 DEF Ready, AboutToFlag
  <2>2. T = S
    BY <1>5, OwedSame DEF Ready, S, T
  <2>3. QED
    BY <1>0, <1>5, <1>a, <2>1, <2>2 DEF Ready
\* A crash may cut off one update per topic.
<1>6. CASE Restart
  <2>1. AboutToFlag' = {}
    BY <1>6 DEF Restart, AboutToFlag, Idle
  <2>2. T = S /\ faults' = faults /\ crashes' = crashes + 1
    BY <1>6, OwedSame DEF Restart, S, T
  <2>3. k * crashes' = k * crashes + k
    BY <1>0, <2>2
  <2>4. QED
    BY <1>0, <1>g, <1>h, <2>1, <2>2, <2>3, FS_EmptySet
<1>7. CASE UNCHANGED <<kafkaVars, crashes>> /\ faults' \in Nat /\ faults' >= faults
  <2>1. AboutToFlag' = AboutToFlag
    BY <1>7 DEF kafkaVars, AboutToFlag
  <2>2. T = S
    BY <1>7, OwedSame DEF kafkaVars, S, T
  <2>3. QED
    BY <1>7, <1>a, <2>1, <2>2
<1>8. QED
  BY <1>1, <1>2, <1>3, <1>4, <1>5, <1>6, <1>7 DEF KafkaStep, Job

\* A message is repeated only because of a failure or a crash: a failing
\* look-up, write or update costs at most one duplicate of all topics, a crash
\* at most one per topic.
THEOREM DuplicatesAreBounded == SpecAll => []DuplicatesBounded
<1> DEFINE Inv == JobInv /\ OwedInv
<1>1. InitAll => Inv
  <2> SUFFICES ASSUME InitAll PROVE Inv
    OBVIOUS
  <2>1. JobInv
    BY JobInvariant
  <2>2. \A p \in Messages : Owed[p] = 0
    BY DEF InitAll, Init, Owed, Messages
  <2>3. SumFunctionOnSet(Owed, Messages) = 0
    BY <2>2, FiniteMessages, SumZero
  <2>4. faults = 0 /\ crashes = 0
    BY DEF InitAll, Init
  <2>5. QED
    BY <2>1, <2>3, <2>4, FiniteMessages DEF OwedInv
<1>2. Inv /\ [NextAll]_all => Inv'
  BY JobInvariant, OwedStep, StepOfAll
<1>3. Inv => DuplicatesBounded
  <2> SUFFICES ASSUME Inv PROVE DuplicatesBounded
    OBVIOUS
  <2>1. PICK extra : extra = [p \in Messages |->
                  LET w == writes[p[1]][p[2]] IN IF w > 1 THEN w - 1 ELSE 0]
    OBVIOUS
  <2>2. \A p \in Messages : extra[p] \in Nat /\ Owed[p] \in Nat /\ extra[p] <= Owed[p]
    <3> SUFFICES ASSUME NEW p \in Messages
                 PROVE  extra[p] \in Nat /\ Owed[p] \in Nat /\ extra[p] <= Owed[p]
      OBVIOUS
    <3>1. p[1] \in Topics /\ p[2] \in Rows
      BY DEF Messages
    <3>2. writes[p[1]][p[2]] \in Nat /\ (p[2] \in flag[p[1]] => writes[p[1]][p[2]] >= 1)
      BY <3>1 DEF JobInv
    <3>3. QED
      BY <2>1, <3>2 DEF Owed
  \* The rows written and about to be flagged are owed for but not repeated.
  <2> DEFINE Now == {<<t, Row(t)>> : t \in AboutToFlag}
             now == [t \in AboutToFlag |-> <<t, Row(t)>>]
  <2>3. ASSUME NEW t \in AboutToFlag
        PROVE  <<t, Row(t)>> \in Messages /\ extra[<<t, Row(t)>>] < Owed[<<t, Row(t)>>]
    <3>1. t \in Topics /\ job[t].pc = "done"
      BY DEF AboutToFlag
    <3>2. Row(t) \in Rows /\ Row(t) \notin flag[t]
      BY <3>1, CurrentRow
    <3>3. writes[t][Row(t)] \in Nat /\ writes[t][Row(t)] >= 1
      BY <3>1, <3>2 DEF JobInv
    <3>4. <<t, Row(t)>> \in Messages
      BY <3>1, <3>2 DEF Messages
    <3>5. /\ extra[<<t, Row(t)>>] = IF writes[t][Row(t)] > 1 THEN writes[t][Row(t)] - 1 ELSE 0
          /\ Owed[<<t, Row(t)>>] = writes[t][Row(t)]
      BY <2>1, <3>2, <3>3, <3>4 DEF Owed
    <3>6. QED
      BY <3>3, <3>4, <3>5
  <2>4. Now \in SUBSET Messages /\ \A p \in Now : extra[p] < Owed[p]
    BY <2>3
  <2>5. IsFiniteSet(Now) /\ Cardinality(Now) \in Nat
    BY <2>4, FiniteMessages, FS_Subset, FS_CardinalityType
  <2>6. Cardinality(AboutToFlag) <= Cardinality(Now)
    <3>1. now \in Injection(AboutToFlag, Now)
      BY DEF Injection, IsInjective
    <3>2. QED
      BY <2>5, <3>1, FS_Injection
  <2> HIDE DEF Now
  <2>7. /\ SumFunctionOnSet(extra, Messages) + Cardinality(Now) <= SumFunctionOnSet(Owed, Messages)
        /\ SumFunctionOnSet(extra, Messages) \in Nat
    BY <2>2, <2>4, FiniteMessages, SumBelow, SumIsNat
  <2>8. DuplicatesBounded <=>
          SumFunctionOnSet(extra, Messages) <= faults + Cardinality(Topics) * crashes
    BY <2>1 DEF DuplicatesBounded, SumFunction, Messages
  <2>9. faults \in Nat /\ crashes \in Nat
    BY DEF JobInv
  <2>10. Cardinality(Topics) * crashes \in Nat
    BY <2>9, FiniteMessages
  <2>11. QED
    BY <2>5, <2>6, <2>7, <2>8, <2>9, <2>10, OwedType, FiniteMessages DEF OwedInv
<1>4. QED
  BY <1>1, <1>2, <1>3, PTL DEF SpecAll

-----------------------------------------------------------------------------
(***************************************************************************)
(* The daily statistic.  NoDayTwice assumes that the node is not started   *)
(* so late that the run at start overlaps the daily one (NearMidnight):    *)
(* nothing but the time it takes keeps the two apart.  The other theorems  *)
(* hold however the runs overlap.                                          *)
(***************************************************************************)
RunType ==
  [pc: {"idle", "begin", "check", "count", "create"},
   start: Nat, end: Nat, seen: SUBSET Rows]

DayType ==
  /\ today \in Nat /\ first \in Nat \cup {None}
  /\ updated \in [Rows -> Nat \cup {None}] /\ dated \in [Rows -> SUBSET Nat]
  /\ again \subseteq Nat
  /\ rows \in Seq([date: Nat, seen: SUBSET Rows])
  /\ run \in [Stat!Runs -> RunType]

\* Row n is about a day before d, or the last row could not be read since.
Behind(n, d) == rows[n].date < d \/ \E i \in again : n <= i

\* Rows are written by one run at a time, in the order of their days, except
\* that a failing query starts the order anew; behind its first queries a run
\* is about days after the rows of its order.
DayInv ==
  /\ run["startup"].pc = "idle" \/ run["daily"].pc = "idle"
  /\ \A n \in DOMAIN rows : rows[n].date < today
  /\ \A i \in again : i <= Len(rows)
  /\ \A m, n \in DOMAIN rows :
       m < n => rows[m].date < rows[n].date \/ \E i \in again : m <= i /\ i < n
  /\ \A p \in Stat!Runs :
       /\ run[p].pc \in {"check", "count", "create"} =>
            run[p].end <= today /\ \A n \in DOMAIN rows : Behind(n, run[p].start)
       /\ run[p].pc \in {"count", "create"} => run[p].start < run[p].end

LEMMA RowDates ==
  ASSUME DayType
  PROVE  \A n \in DOMAIN rows :
           /\ n \in Nat /\ (n = Len(rows) \/ n < Len(rows))
           /\ rows[n].date \in Nat /\ rows[n].seen \in SUBSET Rows
<1> DEFINE R == [date: Nat, seen: SUBSET Rows]
<1>1. rows \in Seq(R)
  BY DEF DayType
<1> HIDE DEF R
<1>2. ASSUME NEW n \in DOMAIN rows
      PROVE  n \in Nat /\ (n = Len(rows) \/ n < Len(rows)) /\ rows[n] \in R
  BY <1>1
<1>3. QED
  BY <1>2 DEF R

\* What a step may do to the variables of the statistic.
StatStep ==
  \/ Stat!FirstOrder \/ Stat!NextDay \/ Stat!Schedule
  \/ \E o \in Rows : Stat!Succeed(o) \/ Stat!Reopen(o) \/ Stat!KafkaDone(o)
  \/ \E p \in Stat!Runs : Stat!Produce(p)
  \/ Stat!Restart
  \/ UNCHANGED statVars

LEMMA StatStepOfAll ==
  ASSUME JobInv, [NextAll]_all
  PROVE  StatStep
<1>1. CASE UNCHANGED all
  BY <1>1 DEF all, StatStep
<1>2. ASSUME NEW t \in Topics, Flag(t) PROVE StatStep
  <2>1. Row(t) \in Rows
    BY <1>2, CurrentRow DEF Flag, KafkaDone
  <2>2. QED
    BY <1>2, <2>1 DEF Flag, StatStep
<1>3. QED
  BY <1>1, <1>2 DEF NextAll, Publish, Eligible, UpdateStatus, FirstOrder, NextDay,
                    Schedule, Produce, RestartAll, StatStep

LEMMA RunSteps ==
  ASSUME DayType, NEW p \in Stat!Runs
  PROVE  /\ \A l \in RunType : Stat!Loop(l) \in RunType /\ Stat!Following(l) \in RunType
         /\ Stat!Idle \in RunType /\ Stat!Begun \in RunType
         /\ Stat!Idle.pc = "idle" /\ Stat!Begun.pc = "begin"
         /\ \A l \in RunType :
              \/ Stat!Loop(l).pc = "idle"
              \/ /\ Stat!Loop(l).pc = "count" /\ l.start < l.end
                 /\ Stat!Loop(l).start = l.start /\ Stat!Loop(l).end = l.end
         /\ \A l \in RunType :
              \/ Stat!Following(l).pc = "idle"
              \/ /\ Stat!Following(l).pc = "count" /\ l.start + 1 < l.end
                 /\ Stat!Following(l).start = l.start + 1 /\ Stat!Following(l).end = l.end
<1>1. Stat!Idle \in RunType /\ Stat!Begun \in RunType
      /\ Stat!Idle.pc = "idle" /\ Stat!Begun.pc = "begin"
  BY DEF Stat!Idle, Stat!Begun, RunType
<1>2. ASSUME NEW l \in RunType
      PROVE  /\ Stat!Loop(l) \in RunType
             /\ \/ Stat!Loop(l).pc = "idle"
                \/ /\ Stat!Loop(l).pc = "count" /\ l.start < l.end
                   /\ Stat!Loop(l).start = l.start /\ Stat!Loop(l).end = l.end
  BY <1>1 DEF Stat!Loop, RunType
<1>3. ASSUME NEW l \in RunType
      PROVE  /\ Stat!Following(l) \in RunType
             /\ \/ Stat!Following(l).pc = "idle"
                \/ /\ Stat!Following(l).pc = "count" /\ l.start + 1 < l.end
                   /\ Stat!Following(l).start = l.start + 1 /\ Stat!Following(l).end = l.end
  <2> DEFINE m == [l EXCEPT !.start = @ + 1]
  <2>1. m \in RunType /\ m.start = l.start + 1 /\ m.end = l.end
    BY DEF RunType
  <2> HIDE DEF m
  <2>2. Stat!Following(l) = Stat!Loop(m)
    BY DEF Stat!Following, m
  <2>3. QED
    BY <1>2, <2>1, <2>2
<1>4. QED
  BY <1>1, <1>2, <1>3

\* A run that ends, or goes on with a day after the rows.
LEMMA OneRunMoves ==
  ASSUME DayType, DayInv, NEW p \in Stat!Runs, run[p].pc # "idle", NEW l \in RunType,
         run' = [run EXCEPT ![p] = l], UNCHANGED <<today, first, updated, dated>>,
         again' \subseteq Nat, \A i \in again' : i <= Len(rows'),
         rows' \in Seq([date: Nat, seen: SUBSET Rows]),
         \A n \in DOMAIN rows' : rows'[n].date < today,
         \A m, n \in DOMAIN rows' :
           m < n => rows'[m].date < rows'[n].date \/ \E i \in again' : m <= i /\ i < n,
         l.pc \in {"check", "count", "create"} =>
           l.end <= today /\ \A n \in DOMAIN rows' : Behind(n, l.start)',
         l.pc \in {"count", "create"} => l.start < l.end
  PROVE  DayType' /\ DayInv'
<1>1. DayType'
  BY DEF DayType
<1>2. \A q \in Stat!Runs : q # p => run'[q] = run[q] /\ run[q].pc = "idle"
  BY DEF DayType, DayInv, Stat!Runs
<1>3. run'[p] = l
  BY DEF DayType
<1>4. QED
  BY <1>1, <1>2, <1>3 DEF DayInv, Behind, Stat!Runs

\* The same for a step that adds no row.
LEMMA OneRunGoesOn ==
  ASSUME DayType, DayInv, NEW p \in Stat!Runs, run[p].pc # "idle", NEW l \in RunType,
         run' = [run EXCEPT ![p] = l], UNCHANGED <<today, first, updated, dated, again, rows>>,
         l.pc \in {"check", "count", "create"} =>
           l.end <= today /\ \A n \in DOMAIN rows : Behind(n, l.start),
         l.pc \in {"count", "create"} => l.start < l.end
  PROVE  DayType' /\ DayInv'
<1>1. \A n \in DOMAIN rows : Behind(n, l.start) => Behind(n, l.start)'
  BY DEF Behind
<1>2. QED
  BY <1>1, OneRunMoves DEF DayType, DayInv

\* The queries at the beginning of a run.
LEMMA DayReadLast ==
  ASSUME DayType, DayInv, NEW p \in Stat!Runs, Stat!ReadLast(p)
  PROVE  DayType' /\ DayInv'
<1>0. run[p].pc = "begin" /\ rows' = rows /\ UNCHANGED <<today, first, updated, dated>>
      /\ run[p] \in RunType /\ today \in Nat
  BY DEF Stat!ReadLast, Stat!table, DayType
<1>1. CASE Stat!Set(p, Stat!Idle) /\ again' = again
  BY <1>0, <1>1, OneRunGoesOn, RunSteps DEF Stat!Set
<1>2. ASSUME NEW d \in Nat, Stat!From(p, d), again' \subseteq Nat,
             \A i \in again' : i <= Len(rows), again \subseteq again',
             \A n \in DOMAIN rows : Behind(n, d)'
      PROVE  DayType' /\ DayInv'
  <2>1. PICK l : l = [run[p] EXCEPT !.pc = "check", !.start = d, !.end = today]
    OBVIOUS
  <2>2. l \in RunType /\ l.pc = "check" /\ l.end = today /\ l.start = d
    BY <1>0, <2>1 DEF RunType
  <2>3. run' = [run EXCEPT ![p] = l]
    BY <1>2, <2>1 DEF Stat!From, Stat!Set
  <2>4. \A m, n \in DOMAIN rows' :
          m < n => rows'[m].date < rows'[n].date \/ \E i \in again' : m <= i /\ i < n
    BY <1>0, <1>2 DEF DayInv
  <2>5. l.pc \in {"check", "count", "create"} =>
          l.end <= today /\ \A n \in DOMAIN rows' : Behind(n, l.start)'
    BY <1>0, <1>2, <2>2 DEF Behind
  <2>6. QED
    BY <1>0, <1>2, <2>2, <2>3, <2>4, <2>5, OneRunMoves DEF DayType, DayInv
<1>3. CASE first # None /\ again' = again
           /\ Stat!From(p, IF rows = <<>> THEN first ELSE rows[Len(rows)].date + 1)
  <2>1. PICK d : d = IF rows = <<>> THEN first ELSE rows[Len(rows)].date + 1
    OBVIOUS
  <2>2. d \in Nat /\ \A n \in DOMAIN rows : Behind(n, d)
    <3>1. CASE rows = <<>>
      BY <1>3, <2>1, <3>1 DEF DayType
    <3>2. CASE rows # <<>>
      <4>1. Len(rows) \in DOMAIN rows
        BY <3>2 DEF DayType
      <4>2. \A n \in DOMAIN rows : rows[n].date \in Nat /\ (n = Len(rows) \/ n < Len(rows))
        BY RowDates
      <4>3. PICK e \in Nat : e = rows[Len(rows)].date /\ d = e + 1
        BY <2>1, <3>2, <4>1, <4>2
      <4>4. ASSUME NEW n \in DOMAIN rows, n < Len(rows) PROVE Behind(n, d)
        BY <4>1, <4>2, <4>3, <4>4 DEF DayInv, Behind
      <4>5. QED
        BY <4>2, <4>3, <4>4 DEF Behind
    <3>3. QED
      BY <3>1, <3>2
  <2>3. \A n \in DOMAIN rows : Behind(n, d)'
    BY <1>0, <1>3, <2>2 DEF Behind
  <2>4. QED
    BY <1>2, <1>3, <2>1, <2>2, <2>3 DEF DayType, DayInv
<1>4. CASE first # None /\ again' = again \cup {Len(rows)} /\ Stat!From(p, first)
  <2>1. PICK d \in Nat : d = first
    BY <1>4 DEF DayType
  <2>2. Len(rows) \in Nat /\ \A n \in DOMAIN rows : n <= Len(rows)
    BY DEF DayType
  <2>3. again' \subseteq Nat /\ again \subseteq again' /\ \A i \in again' : i <= Len(rows)
    <3>1. again \subseteq Nat /\ \A i \in again : i <= Len(rows)
      BY DEF DayType, DayInv
    <3>2. PICK k \in Nat : k = Len(rows)
      BY <2>2
    <3>3. k <= k
      OBVIOUS
    <3>4. QED
      BY <1>4, <3>1, <3>2, <3>3
  <2>4. \A n \in DOMAIN rows : Behind(n, d)'
    BY <1>0, <1>4, <2>2 DEF Behind
  <2>5. Stat!From(p, d)
    BY <1>4, <2>1
  <2>6. QED
    BY <1>2, <2>3, <2>4, <2>5
<1>5. QED
  BY <1>1, <1>3, <1>4 DEF Stat!ReadLast, Stat!failed

\* The insert at the end of a day.
LEMMA DayCreate ==
  ASSUME DayType, DayInv, NEW p \in Stat!Runs, Stat!Create(p)
  PROVE  DayType' /\ DayInv'
<1>0. run[p].pc = "create" /\ UNCHANGED <<today, first, updated, dated, again>>
      /\ run[p] \in RunType /\ run' = [run EXCEPT ![p] = Stat!Following(run[p])]
  BY DEF Stat!Create, Stat!Set, Stat!table, Stat!failed, Stat!Lose, DayType
<1>1. PICK l \in RunType : l = Stat!Following(run[p])
  BY <1>0, RunSteps
<1>2. l.pc = "idle" \/ (l.pc = "count" /\ l.start < l.end
                           /\ l.start = run[p].start + 1 /\ l.end = run[p].end)
  BY <1>0, <1>1, RunSteps
<1>3. run[p].start \in Nat /\ run[p].end \in Nat /\ today \in Nat
      /\ run[p].start < run[p].end /\ run[p].end <= today /\ run[p].seen \in SUBSET Rows
  BY <1>0 DEF RunType, DayInv, DayType
<1>4. \A n \in DOMAIN rows : rows[n].date \in Nat /\ Behind(n, run[p].start)
                             /\ Behind(n, run[p].start + 1)
  BY <1>0, <1>3, RowDates DEF DayInv, Behind
<1>5. CASE rows' = rows
  BY <1>0, <1>1, <1>2, <1>3, <1>4, <1>5, OneRunGoesOn
<1>6. CASE rows' = Append(rows, [date |-> run[p].start, seen |-> run[p].seen])
  <2>1. PICK r \in [date: Nat, seen: SUBSET Rows] :
          rows' = Append(rows, r) /\ r.date = run[p].start
    BY <1>3, <1>6
  <2>2. rows \in Seq([date: Nat, seen: SUBSET Rows])
    BY DEF DayType
  <2>3. /\ rows' \in Seq([date: Nat, seen: SUBSET Rows])
        /\ Len(rows) \in Nat /\ Len(rows') = Len(rows) + 1
        /\ DOMAIN rows' = DOMAIN rows \cup {Len(rows) + 1}
        /\ \A n \in DOMAIN rows :
             n \in Nat /\ n < Len(rows) + 1 /\ rows'[n] = rows[n] /\ ~(Len(rows) + 1 < n)
        /\ rows'[Len(rows) + 1] = r
    BY <2>1, <2>2
  <2>4. \A n \in DOMAIN rows' : rows'[n].date < today
    <3>1. \A n \in DOMAIN rows : rows'[n].date < today
      BY <2>3 DEF DayInv
    <3>2. QED
      BY <1>3, <2>1, <2>3, <3>1
  <2>5. \A i \in again : i \in Nat /\ i <= Len(rows) /\ i < Len(rows) + 1
    <3>1. again \subseteq Nat /\ \A i \in again : i <= Len(rows)
      BY DEF DayType, DayInv
    <3>2. Len(rows) \in Nat
      BY <2>3
    <3>3. QED
      BY <3>1, <3>2
  <2>6. ASSUME NEW m \in DOMAIN rows', NEW n \in DOMAIN rows', m < n
        PROVE  rows'[m].date < rows'[n].date \/ \E i \in again : m <= i /\ i < n
    <3>1. m \in DOMAIN rows
      BY <2>3, <2>6
    <3>2. CASE n \in DOMAIN rows
      BY <2>3, <2>6, <3>1, <3>2 DEF DayInv
    <3>3. CASE n = Len(rows) + 1
      BY <1>4, <2>1, <2>3, <2>5, <3>1, <3>3 DEF Behind
    <3>4. QED
      BY <2>3, <3>2, <3>3
  <2>a. PICK e \in Nat : e = run[p].start + 1
    BY <1>3
  <2>7. ASSUME NEW n \in DOMAIN rows' PROVE Behind(n, e)'
    <3>1. CASE n \in DOMAIN rows
      BY <1>0, <1>4, <2>3, <2>a, <3>1 DEF Behind
    <3>2. CASE n = Len(rows) + 1
      BY <1>3, <2>1, <2>3, <2>a, <3>2 DEF Behind
    <3>3. QED
      BY <2>3, <3>1, <3>2
  <2>8. l.pc \in {"check", "count", "create"} =>
          l.end <= today /\ \A n \in DOMAIN rows' : Behind(n, l.start)'
    BY <1>2, <1>3, <2>a, <2>7
  <2>9. again' \subseteq Nat /\ \A i \in again' : i <= Len(rows')
    BY <1>0, <2>3, <2>5
  <2>10. QED
    BY <1>0, <1>1, <1>2, <2>3, <2>4, <2>6, <2>8, <2>9, OneRunMoves
<1>7. QED
  BY <1>5, <1>6 DEF Stat!Create

\* What an update of an order's row does to the dates.
LEMMA DatesStayDays ==
  ASSUME DayType, NEW o \in Rows, Stat!Succeed(o) \/ Stat!Reopen(o) \/ Stat!KafkaDone(o)
  PROVE  updated' \in [Rows -> Nat \cup {None}] /\ dated' \in [Rows -> SUBSET Nat]
<1>1. CASE Stat!DateToday(o)
  BY <1>1 DEF Stat!DateToday, DayType
<1>2. CASE Stat!Reopen(o)
  BY <1>2 DEF Stat!Reopen, DayType
<1>3. QED
  BY <1>1, <1>2 DEF Stat!Succeed, Stat!KafkaDone

LEMMA DayStep ==
  ASSUME NearMidnight = FALSE, DayType, DayInv, StatStep
  PROVE  DayType' /\ DayInv'
<1>1. CASE Stat!FirstOrder
  BY <1>1 DEF Stat!FirstOrder, Stat!failed, DayType, DayInv, Behind
<1>2. CASE Stat!NextDay
  <2>1. today' = today + 1 /\ UNCHANGED <<first, updated, dated, rows, run, again>>
    BY <1>2 DEF Stat!NextDay, Stat!table, Stat!failed
  <2>2. \A p \in Stat!Runs : run[p].end \in Nat
    BY DEF DayType, RunType
  <2>3. \A n \in DOMAIN rows : rows[n].date \in Nat
    BY RowDates
  <2>4. QED
    BY <2>1, <2>2, <2>3 DEF DayType, DayInv, Behind
<1>3. CASE Stat!Schedule
  <2>1. run["daily"].pc = "idle" /\ run["startup"].pc = "idle"
        /\ run' = [run EXCEPT !["daily"] = Stat!Begun]
        /\ UNCHANGED <<first, updated, dated, rows, today, again>>
    BY <1>3 DEF Stat!Schedule, Stat!table, Stat!failed
  <2>2. Stat!Begun \in RunType /\ Stat!Begun.pc = "begin"
    BY DEF Stat!Idle, Stat!Begun, RunType
  <2>3. QED
    BY <2>1, <2>2 DEF DayType, DayInv, Behind, Stat!Runs
<1>4. ASSUME NEW o \in Rows, Stat!Succeed(o) \/ Stat!Reopen(o) \/ Stat!KafkaDone(o)
      PROVE  DayType' /\ DayInv'
  <2>1. UNCHANGED <<first, rows, run, today, again>>
    BY <1>4 DEF Stat!Succeed, Stat!Reopen, Stat!KafkaDone, Stat!failed
  <2>2. QED
    BY <1>4, <2>1, DatesStayDays DEF DayType, DayInv, Behind
<1>5. ASSUME NEW p \in Stat!Runs, Stat!Check(p) PROVE DayType' /\ DayInv'
  <2>0. run[p].pc = "check" /\ UNCHANGED <<rows, again, today, first, updated, dated>>
        /\ run[p] \in RunType
    BY <1>5 DEF Stat!Check, Stat!table, Stat!failed, DayType
  <2>1. PICK l \in {Stat!Loop(run[p]), Stat!Idle} : run' = [run EXCEPT ![p] = l]
    BY <1>5 DEF Stat!Check, Stat!Set
  <2>2. /\ l \in RunType
        /\ l.pc = "idle" \/ (l.pc = "count" /\ l.start < l.end
                               /\ l.start = run[p].start /\ l.end = run[p].end)
    BY <2>0, <2>1, RunSteps
  <2>3. QED
    BY <2>0, <2>1, <2>2, OneRunGoesOn DEF DayInv
<1>6. ASSUME NEW p \in Stat!Runs, Stat!CountDay(p) PROVE DayType' /\ DayInv'
  <2>0. run[p].pc = "count" /\ UNCHANGED <<rows, again, today, first, updated, dated>>
        /\ run[p] \in RunType
    BY <1>6 DEF Stat!CountDay, Stat!table, Stat!failed, Stat!Lose, DayType
  <2>1. CASE run' = [run EXCEPT ![p] = Stat!Following(run[p])]
    <3>1. PICK l \in RunType : l = Stat!Following(run[p])
      BY <2>0, RunSteps
    <3>2. l.pc = "idle" \/ (l.pc = "count" /\ l.start < l.end
                               /\ l.start = run[p].start + 1 /\ l.end = run[p].end)
      BY <2>0, <3>1, RunSteps
    <3>3. \A n \in DOMAIN rows : Behind(n, run[p].start + 1)
      <4>1. \A n \in DOMAIN rows : rows[n].date \in Nat
        BY RowDates
      <4>2. run[p].start \in Nat
        BY <2>0 DEF RunType
      <4>3. QED
        BY <2>0, <4>1, <4>2 DEF DayInv, Behind
    <3>4. QED
      BY <2>0, <2>1, <3>1, <3>2, <3>3, OneRunGoesOn DEF DayInv
  <2>2. CASE run' = [run EXCEPT ![p] = [run[p] EXCEPT !.pc = "create",
                                          !.seen = Stat!OrdersOf(run[p].start)]]
    <3>1. PICK l : l = [run[p] EXCEPT !.pc = "create", !.seen = Stat!OrdersOf(run[p].start)]
      OBVIOUS
    <3>2. l \in RunType /\ l.pc = "create" /\ l.start = run[p].start /\ l.end = run[p].end
      BY <2>0, <3>1 DEF RunType, Stat!OrdersOf
    <3>3. QED
      BY <2>0, <2>2, <3>1, <3>2, OneRunGoesOn DEF DayInv
  <2>3. QED
    BY <1>6, <2>1, <2>2 DEF Stat!CountDay, Stat!Set
<1>7. CASE Stat!Restart
  <2>1. run' = [p \in Stat!Runs |-> IF p = "startup" THEN Stat!Begun ELSE Stat!Idle]
        /\ UNCHANGED <<first, updated, dated, rows, today, again>>
    BY <1>7 DEF Stat!Restart, Stat!table, Stat!failed
  <2>2. /\ Stat!Idle \in RunType /\ Stat!Begun \in RunType
        /\ Stat!Idle.pc = "idle" /\ Stat!Begun.pc = "begin"
    BY DEF Stat!Idle, Stat!Begun, RunType
  <2>3. QED
    BY <2>1, <2>2 DEF DayType, DayInv, Behind, Stat!Runs
<1>8. CASE UNCHANGED statVars
  BY <1>8 DEF statVars, DayType, DayInv, Behind
<1>9. QED
  BY <1>1, <1>2, <1>3, <1>4, <1>5, <1>6, <1>7, <1>8, DayReadLast, DayCreate
  DEF StatStep, Stat!Produce

LEMMA DayInit == InitAll => DayType /\ DayInv
<1>1. /\ Stat!Idle \in RunType /\ Stat!Begun \in RunType
      /\ Stat!Idle.pc = "idle" /\ Stat!Begun.pc = "begin"
  BY DEF Stat!Idle, Stat!Begun, RunType
<1>2. QED
  BY <1>1 DEF InitAll, Stat!Init, DayType, DayInv, Stat!Runs

\* ProduceDailyStatistic writes no second row for a day unless the query for
\* the last row failed in between, whatever other query or insert fails and
\* wherever a restart cuts a run off, as long as the run at start and the daily
\* run do not overlap.
THEOREM NoDayTwice ==
  ASSUME NearMidnight = FALSE
  PROVE  SpecAll => []OneRowPerDay
<1> DEFINE Inv == JobInv /\ DayType /\ DayInv
<1>1. InitAll => Inv
  BY JobInvariant, DayInit
<1>2. Inv /\ [NextAll]_all => Inv'
  BY JobInvariant, StatStepOfAll, DayStep
<1>3. Inv => OneRowPerDay
  <2> SUFFICES ASSUME Inv, NEW m \in DOMAIN rows, NEW n \in DOMAIN rows,
                      m < n, rows[m].date = rows[n].date
               PROVE  \E i \in again : m <= i /\ i < n
    BY DEF OneRowPerDay, Stat!OneRowPerDay
  <2>1. rows[m].date \in Nat
    BY RowDates
  <2>2. QED
    BY <2>1 DEF DayInv
<1>4. QED
  BY <1>1, <1>2, <1>3, PTL DEF SpecAll

(***************************************************************************)
(* No day is passed over.  A run starts behind the last row, so a day that *)
(* it leaves out would never be looked at again.  This one holds also when *)
(* the two runs overlap: rows and failures are only added, and a run has   *)
(* seen to every day before its own.                                       *)
(***************************************************************************)
Reported(d) == d \in lost \/ \E m \in DOMAIN rows : rows[m].date = d

\* Every day since the first order and before e has been seen to.
SeenTo(e) == first # None /\ \A d \in Nat : first <= d /\ d < e => Reported(d)

SkipInv ==
  /\ \A n \in DOMAIN rows : SeenTo(rows[n].date)
  /\ \A p \in Stat!Runs :
       run[p].pc \in {"check", "count", "create"} => SeenTo(run[p].start)

\* What the steps of the statistic keep of its types, overlapping or not.
LEMMA DayTypeStep ==
  ASSUME DayType, StatStep
  PROVE  DayType'
<1>r. /\ Stat!Idle \in RunType /\ Stat!Begun \in RunType
  BY DEF Stat!Idle, Stat!Begun, RunType
<1>1. CASE UNCHANGED statVars
  BY <1>1 DEF statVars, DayType
<1>f. CASE Stat!FirstOrder
  BY <1>f DEF Stat!FirstOrder, Stat!failed, DayType
<1>n. CASE Stat!NextDay
  BY <1>n DEF Stat!NextDay, Stat!table, Stat!failed, DayType
<1>s. CASE Stat!Schedule
  BY <1>s, <1>r DEF Stat!Schedule, Stat!table, Stat!failed, DayType
<1>2. ASSUME NEW o \in Rows, Stat!Succeed(o) \/ Stat!Reopen(o) \/ Stat!KafkaDone(o)
      PROVE  DayType'
  <2>1. UNCHANGED <<first, rows, run, today, again>>
    BY <1>2 DEF Stat!Succeed, Stat!Reopen, Stat!KafkaDone, Stat!failed
  <2>2. QED
    BY <1>2, <2>1, DatesStayDays DEF DayType
<1>3. ASSUME NEW p \in Stat!Runs, Stat!Produce(p) PROVE DayType'
  <2>1. UNCHANGED <<today, first, updated, dated>> /\ run[p] \in RunType
        /\ run[p].start \in Nat /\ run[p].seen \in SUBSET Rows
    BY <1>3 DEF Stat!Produce, Stat!ReadLast, Stat!Check, Stat!CountDay, Stat!Create,
                Stat!table, DayType, RunType
  <2>a. again' \subseteq Nat
    <3>1. again' \in {again, again \cup {Len(rows)}}
      BY <1>3 DEF Stat!Produce, Stat!ReadLast, Stat!Check, Stat!CountDay, Stat!Create,
                  Stat!Lose, Stat!failed
    <3>2. QED
      BY <3>1 DEF DayType
  <2>2. rows' \in Seq([date: Nat, seen: SUBSET Rows])
    <3>1. PICK r \in [date: Nat, seen: SUBSET Rows] :
            r = [date |-> run[p].start, seen |-> run[p].seen]
      BY <2>1
    <3>2. rows' = rows \/ rows' = Append(rows, r)
      BY <1>3, <3>1 DEF Stat!Produce, Stat!ReadLast, Stat!Check, Stat!CountDay, Stat!Create
    <3> DEFINE R == [date: Nat, seen: SUBSET Rows]
    <3>3. r \in R /\ rows \in Seq(R)
      BY DEF DayType
    <3>4. rows' \in Seq(R)
      <4> HIDE DEF R
      <4>1. QED
        BY <3>2, <3>3
    <3>5. QED
      BY <3>4
  <2>3. PICK l : run' = [run EXCEPT ![p] = l]
                 /\ \/ l = Stat!Idle \/ l = Stat!Loop(run[p]) \/ l = Stat!Following(run[p])
                    \/ l = [run[p] EXCEPT !.pc = "create", !.seen = Stat!OrdersOf(run[p].start)]
                    \/ first # None /\ \E d \in
                         {first, IF rows = <<>> THEN first ELSE rows[Len(rows)].date + 1} :
                           l = [run[p] EXCEPT !.pc = "check", !.start = d, !.end = today]
    BY <1>3 DEF Stat!Produce, Stat!ReadLast, Stat!From, Stat!Check, Stat!CountDay,
                Stat!Create, Stat!Set
  <2>4. l \in RunType
    <3>1. CASE l = Stat!Idle \/ l = Stat!Loop(run[p]) \/ l = Stat!Following(run[p])
      BY <2>1, <3>1, <1>r, RunSteps
    <3>2. CASE l = [run[p] EXCEPT !.pc = "create", !.seen = Stat!OrdersOf(run[p].start)]
      BY <2>1, <3>2 DEF RunType, Stat!OrdersOf
    <3>3. ASSUME first # None,
                 NEW d \in {first, IF rows = <<>> THEN first ELSE rows[Len(rows)].date + 1},
                 l = [run[p] EXCEPT !.pc = "check", !.start = d, !.end = today]
          PROVE  l \in RunType
      <4>1. rows # <<>> => Len(rows) \in DOMAIN rows
        BY DEF DayType
      <4>2. d \in Nat
        BY <3>3, <4>1, RowDates DEF DayType
      <4>3. QED
        BY <2>1, <3>3, <4>2 DEF RunType, DayType
    <3>4. QED
      BY <2>3, <3>1, <3>2, <3>3
  <2>5. QED
    BY <2>1, <2>a, <2>2, <2>3, <2>4 DEF DayType
<1>4. CASE Stat!Restart
  BY <1>4, <1>r DEF Stat!Restart, Stat!table, Stat!failed, DayType, Stat!Runs
<1>5. QED
  BY <1>1, <1>f, <1>n, <1>s, <1>2, <1>3, <1>4 DEF StatStep

\* A row stays a row: a step adds at most one, at the end.
LEMMA RowsGrow ==
  ASSUME DayType, StatStep
  PROVE  /\ DOMAIN rows \subseteq DOMAIN rows'
         /\ \A m \in DOMAIN rows : rows'[m] = rows[m]
<1>1. CASE rows' = rows
  BY <1>1
<1>2. ASSUME NEW p \in Stat!Runs, Stat!Create(p), rows' # rows
      PROVE  DOMAIN rows \subseteq DOMAIN rows' /\ \A m \in DOMAIN rows : rows'[m] = rows[m]
  <2>1. PICK r : rows' = Append(rows, r)
    BY <1>2 DEF Stat!Create
  <2>2. rows \in Seq([date: Nat, seen: SUBSET Rows])
    BY DEF DayType
  <2>3. QED
    BY <2>1, <2>2
<1>3. QED
  BY <1>1, <1>2 DEF StatStep, Stat!FirstOrder, Stat!NextDay, Stat!Schedule, Stat!Succeed,
     Stat!Reopen, Stat!KafkaDone, Stat!Produce, Stat!ReadLast, Stat!Check, Stat!CountDay, Stat!Restart,
     statVars

\* What has been seen to stays so.
LEMMA SeenToStays ==
  ASSUME DayType, StatStep
  PROVE  /\ \A d : Reported(d) => Reported(d)'
         /\ \A e : SeenTo(e) => SeenTo(e)'
<1>1. lost \subseteq lost'
  BY DEF StatStep, Stat!FirstOrder, Stat!NextDay, Stat!Schedule, Stat!Succeed, Stat!Reopen,
     Stat!KafkaDone, Stat!Produce, Stat!ReadLast, Stat!Check, Stat!CountDay, Stat!Create,
     Stat!Restart, Stat!Lose, Stat!failed, statVars
<1>2. first # None => first' = first
  BY DEF StatStep, Stat!FirstOrder, Stat!NextDay, Stat!Schedule, Stat!Succeed, Stat!Reopen,
     Stat!KafkaDone, Stat!Produce, Stat!ReadLast, Stat!Check, Stat!CountDay, Stat!Create,
     Stat!Restart, Stat!table, statVars
<1>3. \A d : Reported(d) => Reported(d)'
  BY <1>1, RowsGrow DEF Reported
<1>4. QED
  BY <1>2, <1>3 DEF SeenTo

\* A run goes on with a day before which everything has been seen to.
LEMMA SkipRunMoves ==
  ASSUME DayType, StatStep, SkipInv, NEW p \in Stat!Runs, NEW l,
         run' = [run EXCEPT ![p] = l],
         l.pc \in {"check", "count", "create"} => SeenTo(l.start)',
         \A n \in DOMAIN rows' \ DOMAIN rows : SeenTo(rows[n].date)'
  PROVE  SkipInv'
<1>1. \A n \in DOMAIN rows : rows'[n] = rows[n]
  BY RowsGrow
<1>2. \A e : SeenTo(e) => SeenTo(e)'
  BY SeenToStays
<1>3. \A n \in DOMAIN rows' : SeenTo(rows[n].date)'
  BY <1>1, <1>2 DEF SkipInv, SeenTo
<1>4. ASSUME NEW q \in Stat!Runs, (run[q].pc \in {"check", "count", "create"})'
      PROVE  SeenTo(run[q].start)'
  <2>1. CASE q = p
    <3>1. run'[q] = l
      BY <2>1 DEF DayType
    <3>2. QED
      BY <1>4, <3>1 DEF SeenTo
  <2>2. CASE q # p
    <3>1. run'[q] = run[q]
      BY <2>2 DEF DayType
    <3>2. QED
      BY <1>2, <1>4, <3>1 DEF SkipInv, SeenTo
  <2>3. QED
    BY <2>1, <2>2
<1>5. QED
  BY <1>3, <1>4 DEF SkipInv

\* The steps of the statistic pass over no day.
LEMMA SkipStep ==
  ASSUME DayType, SkipInv, StatStep
  PROVE  SkipInv'
<1>s. \A e : SeenTo(e) => SeenTo(e)'
  BY SeenToStays
<1>d. \A n \in DOMAIN rows : rows[n].date \in Nat
  BY RowDates
<1>1. CASE Stat!FirstOrder \/ Stat!NextDay \/ UNCHANGED statVars
           \/ \E o \in Rows : Stat!Succeed(o) \/ Stat!Reopen(o) \/ Stat!KafkaDone(o)
  <2>1. rows' = rows /\ run' = run
    BY <1>1 DEF Stat!FirstOrder, Stat!NextDay, Stat!Succeed, Stat!Reopen, Stat!KafkaDone,
                statVars
  <2>2. QED
    BY <1>s, <2>1 DEF SkipInv, SeenTo
<1>2. CASE Stat!Schedule
  <2>1. rows' = rows /\ run' = [run EXCEPT !["daily"] = Stat!Begun]
    BY <1>2 DEF Stat!Schedule
  <2>2. Stat!Begun.pc = "begin" /\ "daily" \in Stat!Runs
    BY DEF Stat!Idle, Stat!Begun, Stat!Runs
  <2>3. QED
    BY <2>1, <2>2, SkipRunMoves
<1>3. CASE Stat!Restart
  <2>1. rows' = rows
        /\ run' = [p \in Stat!Runs |-> IF p = "startup" THEN Stat!Begun ELSE Stat!Idle]
    BY <1>3 DEF Stat!Restart
  <2>2. Stat!Begun.pc = "begin" /\ Stat!Idle.pc = "idle"
    BY DEF Stat!Idle, Stat!Begun
  <2>3. \A q \in Stat!Runs : run'[q].pc \in {"idle", "begin"}
    BY <2>1, <2>2
  <2>4. QED
    BY <1>s, <2>1, <2>3 DEF SkipInv, SeenTo
<1>4. ASSUME NEW p \in Stat!Runs, Stat!Produce(p) PROVE SkipInv'
  <2>0. run[p] \in RunType /\ run[p].start \in Nat
    BY DEF DayType, RunType
  <2>1. CASE Stat!ReadLast(p)
    <3>0. rows' = rows /\ first' = first
      BY <2>1 DEF Stat!ReadLast, Stat!table
    <3>1. CASE Stat!Set(p, Stat!Idle)
      <4>1. run' = [run EXCEPT ![p] = Stat!Idle] /\ Stat!Idle.pc = "idle"
        BY <3>1 DEF Stat!Set, Stat!Idle
      <4>2. QED
        BY <3>0, <4>1, SkipRunMoves
    <3>2. ASSUME NEW d, SeenTo(d), Stat!From(p, d) PROVE SkipInv'
      <4>1. PICK l : l = [run[p] EXCEPT !.pc = "check", !.start = d, !.end = today]
        OBVIOUS
      <4>2. run' = [run EXCEPT ![p] = l]
        BY <3>2, <4>1 DEF Stat!From, Stat!Set
      <4>3. l.start = d
        BY <2>0, <4>1 DEF RunType
      <4>4. QED
        BY <1>s, <3>0, <3>2, <4>2, <4>3, SkipRunMoves
    <3>3. CASE first # None
      <4>1. SeenTo(first)
        BY <3>3 DEF SeenTo, DayType
      <4>2. PICK d : d = IF rows = <<>> THEN first ELSE rows[Len(rows)].date + 1
        OBVIOUS
      <4>3. SeenTo(d)
        <5>1. CASE rows = <<>>
          BY <4>1, <4>2, <5>1
        <5>2. CASE rows # <<>>
          <6>1. Len(rows) \in DOMAIN rows
            BY <5>2 DEF DayType
          <6>2. PICK e \in Nat : e = rows[Len(rows)].date
            BY <6>1, <1>d
          <6>3. SeenTo(e) /\ Reported(e) /\ d = e + 1
            BY <4>2, <5>2, <6>1, <6>2 DEF SkipInv, Reported
          <6>4. QED
            BY <6>2, <6>3 DEF SeenTo
        <5>3. QED
          BY <5>1, <5>2
      <4>4. Stat!From(p, d) \/ Stat!From(p, first) \/ Stat!Set(p, Stat!Idle)
        BY <2>1, <4>2 DEF Stat!ReadLast
      <4>5. QED
        BY <3>1, <3>2, <4>1, <4>3, <4>4
    <3>4. QED
      BY <2>1, <3>1, <3>3 DEF Stat!ReadLast
  <2>2. CASE Stat!Check(p)
    <3>1. PICK l \in {Stat!Loop(run[p]), Stat!Idle} : run' = [run EXCEPT ![p] = l]
      BY <2>2 DEF Stat!Check, Stat!Set
    <3>2. rows' = rows /\ (l.pc = "idle" \/ l.start = run[p].start) /\ SeenTo(run[p].start)
      BY <2>0, <2>2, <3>1, RunSteps DEF Stat!Check, SkipInv
    <3>3. QED
      BY <1>s, <3>1, <3>2, SkipRunMoves
  <2>3. ASSUME NEW e \in Nat, e = run[p].start, SeenTo(e), Reported(e)',
               run' = [run EXCEPT ![p] = Stat!Following(run[p])],
               \A n \in DOMAIN rows' \ DOMAIN rows : rows'[n].date = e
        PROVE  SkipInv'
    <3>1. PICK l : l = Stat!Following(run[p])
      OBVIOUS
    <3>2. l.pc = "idle" \/ l.start = e + 1
      BY <2>0, <2>3, <3>1, RunSteps
    <3>3. SeenTo(e)'
      BY <1>s, <2>3
    <3>4. SeenTo(e + 1)'
      BY <2>3, <3>3 DEF SeenTo
    <3>5. \A n \in DOMAIN rows' \ DOMAIN rows : SeenTo(rows[n].date)'
      BY <2>3, <3>3 DEF SeenTo
    <3>6. QED
      BY <2>3, <3>1, <3>2, <3>4, <3>5, SkipRunMoves
  <2>4. CASE Stat!CountDay(p)
    <3>0. PICK e \in Nat : e = run[p].start
      BY <2>0
    <3>1. rows' = rows /\ SeenTo(e)
      BY <2>4, <3>0 DEF Stat!CountDay, SkipInv
    <3>2. CASE Stat!Lose(e) /\ run' = [run EXCEPT ![p] = Stat!Following(run[p])]
      <4>1. Reported(e)'
        BY <3>2 DEF Stat!Lose, Reported
      <4>2. QED
        BY <2>3, <3>0, <3>1, <3>2, <4>1
    <3>3. ASSUME NEW l, run' = [run EXCEPT ![p] = l],
                 l = [run[p] EXCEPT !.pc = "create", !.seen = Stat!OrdersOf(run[p].start)]
          PROVE  SkipInv'
      <4>1. l.start = e
        BY <2>0, <3>0, <3>3 DEF RunType
      <4>2. QED
        BY <1>s, <3>1, <3>3, <4>1, SkipRunMoves
    <3>4. QED
      BY <2>4, <3>0, <3>2, <3>3 DEF Stat!CountDay, Stat!Set
  <2>5. CASE Stat!Create(p)
    <3>0. PICK e \in Nat : e = run[p].start
      BY <2>0
    <3>1. SeenTo(e) /\ run' = [run EXCEPT ![p] = Stat!Following(run[p])]
      BY <2>5, <3>0 DEF Stat!Create, Stat!Set, SkipInv
    <3>2. CASE Stat!Lose(e) /\ rows' = rows
      <4>1. Reported(e)'
        BY <3>2 DEF Stat!Lose, Reported
      <4>2. QED
        BY <2>3, <3>0, <3>1, <3>2, <4>1
    <3>3. CASE rows' = Append(rows, [date |-> run[p].start, seen |-> run[p].seen])
      <4>1. PICK r \in [date: Nat, seen: SUBSET Rows] : rows' = Append(rows, r) /\ r.date = e
        BY <2>0, <3>0, <3>3 DEF RunType
      <4>2. rows \in Seq([date: Nat, seen: SUBSET Rows])
        BY DEF DayType
      <4>3. DOMAIN rows' = DOMAIN rows \cup {Len(rows) + 1} /\ rows'[Len(rows) + 1] = r
        BY <4>1, <4>2
      <4>4. Reported(e)' /\ \A n \in DOMAIN rows' \ DOMAIN rows : rows'[n].date = e
        BY <4>1, <4>3 DEF Reported
      <4>5. QED
        BY <2>3, <3>0, <3>1, <4>4
    <3>4. QED
      BY <2>5, <3>0, <3>2, <3>3 DEF Stat!Create
  <2>6. QED
    BY <1>4, <2>1, <2>2, <2>4, <2>5 DEF Stat!Produce
<1>5. QED
  BY <1>1, <1>2, <1>3, <1>4 DEF StatStep

\* Up to the last row every day since the first order has its row or a failure
\* of its own, whatever query or insert fails, wherever a restart cuts a run off
\* and however the run at start and the daily run overlap.
THEOREM DaysNotSkipped == SpecAll => []NoDaySkipped
<1> DEFINE Inv == JobInv /\ DayType /\ SkipInv
<1>1. InitAll => Inv
  <2>1. ASSUME InitAll PROVE SkipInv
    <3>1. rows = <<>> /\ \A p \in Stat!Runs : run[p].pc \in {"idle", "begin"}
      BY <2>1 DEF InitAll, Stat!Init, Stat!Idle, Stat!Begun, Stat!Runs
    <3>2. QED
      BY <3>1 DEF SkipInv
  <2>2. QED
    BY <2>1, JobInvariant, DayInit
<1>2. Inv /\ [NextAll]_all => Inv'
  BY JobInvariant, StatStepOfAll, DayTypeStep, SkipStep
<1>3. Inv => NoDaySkipped
  <2> SUFFICES ASSUME Inv, NEW n \in DOMAIN rows, NEW d \in Stat!Days,
                      first <= d, d < rows[n].date
               PROVE  d \in lost \/ \E m \in DOMAIN rows : rows[m].date = d
    BY DEF NoDaySkipped, Stat!NoDaySkipped
  <2>1. SeenTo(rows[n].date) /\ d \in Nat
    BY DEF SkipInv, Stat!Days
  <2>2. QED
    BY <2>1 DEF SeenTo, Reported
<1>4. QED
  BY <1>1, <1>2, <1>3, PTL DEF SpecAll

-----------------------------------------------------------------------------
(***************************************************************************)
(* What the rows count.  A day that a run counts is over: no update dates  *)
(* an order to it any more, so the orders dated to it only become fewer.   *)
(***************************************************************************)

\* What a row about day d with the orders in seen has to be.
Counted(d, seen) ==
  \A o \in Rows : (updated[o] = d => o \in seen) /\ (o \in seen => d \in dated[o])

CountInv ==
  /\ \A o \in Rows : updated[o] # None => updated[o] \in dated[o]
  /\ \A n \in DOMAIN rows : rows[n].date < today /\ Counted(rows[n].date, rows[n].seen)
  /\ \A p \in Stat!Runs :
       /\ run[p].pc \in {"check", "count", "create"} => run[p].end <= today
       /\ run[p].pc \in {"count", "create"} => run[p].start < run[p].end
       /\ run[p].pc = "create" => Counted(run[p].start, run[p].seen)

\* No update changes what is to be counted on a day that is over.
LEMMA CountedStays ==
  ASSUME DayType, CountInv, StatStep, NEW d \in Nat, d < today, NEW seen, Counted(d, seen)
  PROVE  Counted(d, seen)' /\ d < today'
<1>0. None \notin Nat /\ today \in Nat
  BY ReportsAssumption DEF DayType
<1>1. CASE UNCHANGED <<updated, dated>> /\ today' \in {today, today + 1}
  BY <1>0, <1>1 DEF Counted
<1>2. ASSUME NEW o \in Rows, Stat!DateToday(o), today' = today
      PROVE  Counted(d, seen)' /\ d < today'
  <2>1. \A q \in Rows : updated'[q] \in {updated[q], today} /\ dated[q] \subseteq dated'[q]
    BY <1>2 DEF Stat!DateToday, DayType
  <2>2. QED
    BY <1>0, <1>2, <2>1 DEF Counted
<1>3. ASSUME NEW o \in Rows, Stat!Reopen(o) PROVE Counted(d, seen)' /\ d < today'
  <2>1. dated' = dated /\ today' = today /\ \A q \in Rows : updated'[q] \in {updated[q], None}
    BY <1>3 DEF Stat!Reopen, DayType
  <2>2. QED
    BY <1>0, <2>1 DEF Counted
<1>4. ASSUME NEW p \in Stat!Runs, Stat!Produce(p)
      PROVE  UNCHANGED <<updated, dated, today>>
  BY <1>4 DEF Stat!Produce, Stat!ReadLast, Stat!Check, Stat!CountDay, Stat!Create, Stat!table
<1>5. QED
  BY <1>1, <1>2, <1>3, <1>4 DEF StatStep, Stat!FirstOrder, Stat!NextDay, Stat!Schedule,
     Stat!Succeed, Stat!KafkaDone, Stat!Restart, Stat!table, statVars

\* A success is dated to the day it is written on.
LEMMA DatesKnown ==
  ASSUME DayType, CountInv, StatStep
  PROVE  \A o \in Rows : updated'[o] # None => updated'[o] \in dated'[o]
<1>1. CASE UNCHANGED <<updated, dated>>
  BY <1>1 DEF CountInv
<1>2. ASSUME NEW o \in Rows, Stat!DateToday(o) \/ Stat!Reopen(o)
      PROVE  \A q \in Rows : updated'[q] # None => updated'[q] \in dated'[q]
  BY <1>2 DEF Stat!DateToday, Stat!Reopen, CountInv, DayType
<1>3. ASSUME NEW p \in Stat!Runs, Stat!Produce(p) PROVE UNCHANGED <<updated, dated>>
  BY <1>3 DEF Stat!Produce, Stat!ReadLast, Stat!Check, Stat!CountDay, Stat!Create, Stat!table
<1>4. QED
  BY <1>1, <1>2, <1>3 DEF StatStep, Stat!FirstOrder, Stat!NextDay, Stat!Schedule,
     Stat!Succeed, Stat!KafkaDone, Stat!Restart, Stat!table, statVars

\* The days that a run counts are over.
LEMMA DaysOver ==
  ASSUME DayType, CountInv, NEW p \in Stat!Runs, run[p].pc \in {"count", "create"}
  PROVE  run[p].start \in Nat /\ run[p].end \in Nat /\ run[p].start < today
<1>1. run[p].start \in Nat /\ run[p].end \in Nat /\ today \in Nat
  BY DEF DayType, RunType
<1>2. QED
  BY <1>1 DEF CountInv

\* What is counted stays so, for rows and for a row being written.
LEMMA RowsStayCounted ==
  ASSUME DayType, CountInv, StatStep
  PROVE  /\ \A n \in DOMAIN rows : (rows[n].date < today /\ Counted(rows[n].date, rows[n].seen))'
         /\ \A q \in Stat!Runs : run'[q] = run[q] /\ run[q].pc = "create" =>
              Counted(run[q].start, run[q].seen)'
<1>1. ASSUME NEW n \in DOMAIN rows
      PROVE  (rows[n].date < today /\ Counted(rows[n].date, rows[n].seen))'
  <2>1. PICK d \in Nat : d = rows[n].date
    BY RowDates
  <2>2. PICK S : S = rows[n].seen
    OBVIOUS
  <2>3. Counted(d, S)' /\ d < today'
    BY <2>1, <2>2, CountedStays DEF CountInv
  <2>4. rows'[n] = rows[n]
    BY RowsGrow
  <2>5. QED
    BY <2>1, <2>2, <2>3, <2>4 DEF Counted
<1>2. ASSUME NEW q \in Stat!Runs, run'[q] = run[q], run[q].pc = "create"
      PROVE  Counted(run[q].start, run[q].seen)'
  <2>1. PICK d \in Nat : d = run[q].start /\ d < today
    BY <1>2, DaysOver
  <2>2. PICK S : S = run[q].seen
    OBVIOUS
  <2>3. Counted(d, S)'
    BY <1>2, <2>1, <2>2, CountedStays DEF CountInv
  <2>4. QED
    BY <1>2, <2>1, <2>2, <2>3 DEF Counted
<1>3. QED
  BY <1>1, <1>2

\* A run that ends or goes on, counts a day or adds a row.
LEMMA CountRunMoves ==
  ASSUME DayType, CountInv, StatStep, NEW p \in Stat!Runs, NEW l,
         run' = [run EXCEPT ![p] = l], today' = today,
         l.pc \in {"check", "count", "create"} => l.end <= today,
         l.pc \in {"count", "create"} => l.start < l.end,
         l.pc = "create" => Counted(l.start, l.seen)',
         \A n \in DOMAIN rows' \ DOMAIN rows :
           (rows[n].date < today /\ Counted(rows[n].date, rows[n].seen))'
  PROVE  CountInv'
<1>1. \A n \in DOMAIN rows' : (rows[n].date < today /\ Counted(rows[n].date, rows[n].seen))'
  BY RowsStayCounted
<1>2. ASSUME NEW q \in Stat!Runs
      PROVE  /\ run'[q].pc \in {"check", "count", "create"} => run'[q].end <= today
             /\ run'[q].pc \in {"count", "create"} => run'[q].start < run'[q].end
             /\ run'[q].pc = "create" => Counted(run[q].start, run[q].seen)'
  <2>1. CASE q = p
    <3>1. run'[q] = l
      BY <2>1 DEF DayType
    <3>2. QED
      BY <3>1 DEF Counted
  <2>2. CASE q # p
    <3>1. run'[q] = run[q]
      BY <2>2 DEF DayType
    <3>2. run[q].pc = "create" => Counted(run[q].start, run[q].seen)'
      BY <3>1, RowsStayCounted
    <3>3. QED
      BY <3>1, <3>2 DEF CountInv
  <2>3. QED
    BY <2>1, <2>2
<1>3. QED
  BY <1>1, <1>2, DatesKnown DEF CountInv

LEMMA CountStep ==
  ASSUME DayType, CountInv, StatStep
  PROVE  CountInv'
<1>0. today \in Nat /\ None \notin Nat
  BY ReportsAssumption DEF DayType
\* Steps of the table and the clock: the runs stay, or begin anew.
<1>1. ASSUME rows' = rows, today' \in {today, today + 1},
             \A q \in Stat!Runs : run'[q] = run[q] \/ run'[q].pc \in {"idle", "begin"}
      PROVE  CountInv'
  <2>1. \A n \in DOMAIN rows' : (rows[n].date < today /\ Counted(rows[n].date, rows[n].seen))'
    BY <1>1, RowsStayCounted
  <2>2. ASSUME NEW q \in Stat!Runs, run'[q] = run[q]
        PROVE  /\ run'[q].pc \in {"check", "count", "create"} => run'[q].end <= today'
               /\ run'[q].pc \in {"count", "create"} => run'[q].start < run'[q].end
               /\ run'[q].pc = "create" => Counted(run[q].start, run[q].seen)'
    <3>1. run[q].end \in Nat
      BY DEF DayType, RunType
    <3>2. run[q].pc = "create" => Counted(run[q].start, run[q].seen)'
      BY <2>2, RowsStayCounted
    <3>3. QED
      BY <1>0, <1>1, <2>2, <3>1, <3>2 DEF CountInv
  <2>3. ASSUME NEW q \in Stat!Runs, run'[q].pc \in {"idle", "begin"}
        PROVE  run'[q].pc \notin {"check", "count", "create"}
    BY <2>3
  <2>4. QED
    BY <1>1, <2>1, <2>2, <2>3, DatesKnown DEF CountInv
<1>2. CASE Stat!FirstOrder \/ Stat!NextDay \/ UNCHANGED statVars
           \/ \E o \in Rows : Stat!Succeed(o) \/ Stat!Reopen(o) \/ Stat!KafkaDone(o)
  BY <1>1, <1>2 DEF Stat!FirstOrder, Stat!NextDay, Stat!Succeed, Stat!Reopen,
                    Stat!KafkaDone, statVars
<1>3. CASE Stat!Schedule \/ Stat!Restart
  <2>1. Stat!Begun.pc = "begin" /\ Stat!Idle.pc = "idle"
    BY DEF Stat!Idle, Stat!Begun
  <2>2. rows' = rows /\ today' = today
    BY <1>3 DEF Stat!Schedule, Stat!Restart
  <2>3. \A q \in Stat!Runs : run'[q] \in {run[q], Stat!Begun, Stat!Idle}
    BY <1>3 DEF Stat!Schedule, Stat!Restart, DayType
  <2>4. QED
    BY <1>1, <2>1, <2>2, <2>3
<1>4. ASSUME NEW p \in Stat!Runs, Stat!Produce(p) PROVE CountInv'
  <2>0. UNCHANGED <<today, updated, dated>> /\ run[p] \in RunType
    BY <1>4 DEF Stat!Produce, Stat!ReadLast, Stat!Check, Stat!CountDay, Stat!Create,
                Stat!table, DayType
  <2>f. ASSUME run' = [run EXCEPT ![p] = Stat!Following(run[p])],
               run[p].pc \in {"count", "create"},
               \A n \in DOMAIN rows' \ DOMAIN rows :
                 (rows[n].date < today /\ Counted(rows[n].date, rows[n].seen))'
        PROVE  CountInv'
    <3>1. PICK l : l = Stat!Following(run[p])
      OBVIOUS
    <3>2. l.pc = "idle" \/ (l.pc = "count" /\ l.start < l.end /\ l.end = run[p].end)
      <4>1. run[p].end \in Nat /\ run[p].start \in Nat
        BY <2>0 DEF RunType
      <4>2. QED
        BY <2>0, <3>1, <4>1, RunSteps
    <3>3. run[p].end <= today
      BY <2>f DEF CountInv
    <3>4. QED
      BY <2>0, <2>f, <3>1, <3>2, <3>3, CountRunMoves
  <2>1. CASE Stat!ReadLast(p)
    <3>1. rows' = rows
      BY <2>1 DEF Stat!ReadLast
    <3>2. PICK l : /\ run' = [run EXCEPT ![p] = l]
                   /\ \/ l = Stat!Idle
                      \/ \E d : l = [run[p] EXCEPT !.pc = "check", !.start = d, !.end = today]
      BY <2>1 DEF Stat!ReadLast, Stat!From, Stat!Set
    <3>3. l.pc = "idle" \/ (l.pc = "check" /\ l.end = today)
      <4>1. CASE l = Stat!Idle
        BY <4>1 DEF Stat!Idle
      <4>2. ASSUME NEW d, l = [run[p] EXCEPT !.pc = "check", !.start = d, !.end = today]
            PROVE  l.pc = "check" /\ l.end = today
        BY <2>0, <4>2 DEF RunType
      <4>3. QED
        BY <3>2, <4>1, <4>2
    <3>4. /\ l.pc \in {"check", "count", "create"} => l.end <= today
          /\ l.pc \notin {"count", "create"} /\ l.pc # "create"
      BY <1>0, <3>3
    <3>5. DOMAIN rows' \ DOMAIN rows = {}
      BY <3>1
    <3>6. run' = [run EXCEPT ![p] = l] /\ today' = today
      BY <2>0, <3>2
    <3>7. QED
      BY <3>4, <3>5, <3>6, CountRunMoves
  <2>2. CASE Stat!Check(p)
    <3>1. PICK l \in {Stat!Loop(run[p]), Stat!Idle} : run' = [run EXCEPT ![p] = l]
      BY <2>2 DEF Stat!Check, Stat!Set
    <3>2. rows' = rows /\ run[p].end <= today
      BY <2>2 DEF Stat!Check, CountInv
    <3>3. l.pc = "idle" \/ (l.pc = "count" /\ l.start < l.end /\ l.end = run[p].end)
      BY <2>0, <3>1, RunSteps
    <3>4. QED
      BY <2>0, <3>1, <3>2, <3>3, CountRunMoves
  <2>3. CASE Stat!CountDay(p)
    <3>1. rows' = rows /\ run[p].pc = "count"
      BY <2>3 DEF Stat!CountDay
    <3>2. CASE Stat!Set(p, Stat!Following(run[p]))
      BY <2>f, <3>1, <3>2 DEF Stat!Set
    <3>3. CASE Stat!Set(p, [run[p] EXCEPT !.pc = "create", !.seen = Stat!OrdersOf(run[p].start)])
      <4>1. PICK l : l = [run[p] EXCEPT !.pc = "create", !.seen = Stat!OrdersOf(run[p].start)]
        OBVIOUS
      <4>2. l.pc = "create" /\ l.start = run[p].start /\ l.end = run[p].end
            /\ l.seen = {o \in Rows : updated[o] = run[p].start}
        BY <2>0, <4>1 DEF RunType, Stat!OrdersOf
      <4>3. Counted(l.start, l.seen)'
        BY <1>0, <2>0, <3>1, <4>2, DaysOver DEF Counted, CountInv
      <4>4. QED
        BY <2>0, <3>1, <3>3, <4>1, <4>2, <4>3, CountRunMoves DEF CountInv, Stat!Set
    <3>4. QED
      BY <2>3, <3>2, <3>3 DEF Stat!CountDay
  <2>4. CASE Stat!Create(p)
    <3>1. run[p].pc = "create" /\ run' = [run EXCEPT ![p] = Stat!Following(run[p])]
      BY <2>4 DEF Stat!Create, Stat!Set
    <3>2. Counted(run[p].start, run[p].seen) /\ run[p].start < today
      BY <3>1, DaysOver DEF CountInv
    <3>3. \A n \in DOMAIN rows' \ DOMAIN rows :
            rows'[n] = [date |-> run[p].start, seen |-> run[p].seen]
      BY <2>4 DEF Stat!Create, DayType
    <3>4. \A n \in DOMAIN rows' \ DOMAIN rows :
            (rows[n].date < today /\ Counted(rows[n].date, rows[n].seen))'
      BY <2>0, <3>2, <3>3 DEF Counted
    <3>5. QED
      BY <2>f, <3>1, <3>4
  <2>5. QED
    BY <1>4, <2>1, <2>2, <2>3, <2>4 DEF Stat!Produce
<1>5. QED
  BY <1>2, <1>3, <1>4 DEF StatStep

\* The row of a day counts every order that is dated to that day, and only
\* orders that were once; so an order whose row was not updated again after its
\* success is counted on the day of its success and on no other.
THEOREM OrdersCountedOnTheirDay == SpecAll => []CountedOnItsDay
<1> DEFINE Inv == JobInv /\ DayType /\ CountInv
<1>1. InitAll => Inv
  <2>1. ASSUME InitAll PROVE CountInv
    <3>1. /\ rows = <<>> /\ \A o \in Rows : updated[o] = None
          /\ \A p \in Stat!Runs : run[p].pc \in {"idle", "begin"}
      BY <2>1 DEF InitAll, Stat!Init, Stat!Idle, Stat!Begun
    <3>2. QED
      BY <3>1 DEF CountInv
  <2>2. QED
    BY <2>1, JobInvariant, DayInit
<1>2. Inv /\ [NextAll]_all => Inv'
  BY JobInvariant, StatStepOfAll, DayTypeStep, CountStep
<1>3. Inv => CountedOnItsDay
  BY DEF CountInv, Counted, CountedOnItsDay
<1>4. QED
  BY <1>1, <1>2, <1>3, PTL DEF SpecAll
=============================================================================
