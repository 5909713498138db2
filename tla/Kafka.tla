------------------------------- MODULE Kafka --------------------------------
(***************************************************************************)
(* Publishing to Kafka: broadcastItemToKafka and broadcastBlockToKafka of  *)
(* jobs.go, kafka.go and the kafka columns of wdb.go.                      *)
(*                                                                         *)
(* Each job reads the first Limit records without the kafka flag (paid     *)
(* orders; bundle transactions on chain), looks up the rest of a message   *)
(* (the item's metadata; the block), writes it to its topic and then sets  *)
(* the flag.  Whatever fails, the job goes on with the next record.        *)
(***************************************************************************)
EXTENDS Naturals, FiniteSets, FiniteSetsExt, Functions

CONSTANTS
  Topics,      \* ItemTopic, BlockTopic
  Records,     \* number of rows of each table
  Limit,       \* LIMIT of the queries, per topic
  Stuck,       \* per topic, rows whose look-up never succeeds
  MaxFaults, MaxCrashes

Rows == 1..Records

ASSUME KafkaAssumption ==
  /\ {Records, MaxFaults, MaxCrashes} \subseteq Nat
  /\ IsFiniteSet(Topics)
  /\ Limit \in [Topics -> Nat \ {0}]
  /\ Stuck \in [Topics -> SUBSET Rows]

VARIABLES
  ready,       \* persistent: rows that are paid, or successful on chain
  flag,        \* persistent: rows with the kafka column set
  writes,      \* the topics: how often a row was published
  job,         \* per topic: next step and rows of the batch still to do
  faults, crashes

vars == <<ready, flag, writes, job, faults, crashes>>

Idle == [pc |-> "idle", todo |-> {}]

\* Tables, topics and jobs hold values of their kind; a batch respects LIMIT.
TypeOK ==
  /\ ready \in [Topics -> SUBSET Rows] /\ flag \in [Topics -> SUBSET Rows]
  /\ writes \in [Topics -> [Rows -> Nat]]
  /\ \A t \in Topics :
       /\ job[t].pc \in {"idle", "look", "write", "done"}
       /\ job[t].todo \subseteq Rows /\ Cardinality(job[t].todo) <= Limit[t]
  /\ faults \in 0..MaxFaults /\ crashes \in 0..MaxCrashes

Fault == faults < MaxFaults /\ faults' = faults + 1

Init ==
  /\ ready = [t \in Topics |-> {}] /\ flag = [t \in Topics |-> {}]
  /\ writes = [t \in Topics |-> [n \in Rows |-> 0]]
  /\ job = [t \in Topics |-> Idle]
  /\ faults = 0 /\ crashes = 0

\* A payment or a confirmation makes a row eligible.
Ready(t, n) ==
  /\ n \notin ready[t]
  /\ ready' = [ready EXCEPT ![t] = @ \cup {n}]
  /\ UNCHANGED <<flag, writes, job, faults, crashes>>

\* GetKafkaOrderInfos and GetKafkaOnChains: the first rows by id.
Query(t) ==
  LET unset == ready[t] \ flag[t]
  IN  {n \in unset : Cardinality({m \in unset : m < n}) < Limit[t]}

Begin(t) ==
  /\ job[t].pc = "idle"
  /\ Query(t) # {}
  /\ job' = [job EXCEPT ![t] = [pc |-> "look", todo |-> Query(t)]]
  /\ UNCHANGED <<ready, flag, writes, faults, crashes>>

\* The loop goes through the batch by id.
Row(t) == Min(job[t].todo)

NextRow(t) ==
  LET rest == job[t].todo \ {Row(t)}
  IN  job' = [job EXCEPT ![t] = IF rest = {} THEN Idle ELSE [pc |-> "look", todo |-> rest]]
Goto(t, label) == job' = [job EXCEPT ![t].pc = label]

\* Mutant: the first row the job cannot look up ends the batch.
LookUp_StopsAtStuck(t) ==
  LET n == Row(t)
  IN  /\ job[t].pc = "look"
      /\ \/ n \notin Stuck[t] /\ Goto(t, "write")
         \/ n \in Stuck[t] /\ job' = [job EXCEPT ![t] = Idle]
      /\ UNCHANGED <<ready, flag, writes, faults, crashes>>

\* LoadItemMeta and Base64Address, or GetBlockByID.
LookUp(t) ==
  LET n == Row(t)
  IN  /\ job[t].pc = "look"
      /\ \/ n \notin Stuck[t] /\ Goto(t, "write") /\ UNCHANGED faults
         \/ n \in Stuck[t] /\ NextRow(t) /\ UNCHANGED faults
         \/ Fault /\ NextRow(t)
      /\ UNCHANGED <<ready, flag, writes, crashes>>

\* Mutant: the error of the writer is not looked at.
Write_Unchecked(t) ==
  LET n == Row(t)
      written == [writes EXCEPT ![t][n] = @ + 1]
  IN  /\ job[t].pc = "write"
      /\ \/ writes' = written /\ Goto(t, "done") /\ UNCHANGED faults
         \/ Fault /\ writes' \in {writes, written} /\ Goto(t, "done")
      /\ UNCHANGED <<ready, flag, crashes>>

\* KWriter.Write fails before or after the broker has the message.
Write(t) ==
  LET n == Row(t)
      written == [writes EXCEPT ![t][n] = @ + 1]
  IN  /\ job[t].pc = "write"
      /\ \/ writes' = written /\ Goto(t, "done") /\ UNCHANGED faults
         \/ Fault /\ writes' \in {writes, written} /\ NextRow(t)
      /\ UNCHANGED <<ready, flag, crashes>>

\* Mutant: the flag is not set.
KafkaDone_Forgotten(t) ==
  /\ job[t].pc = "done"
  /\ NextRow(t)
  /\ UNCHANGED <<ready, flag, writes, faults, crashes>>

\* KafkaDone and KafkaOnChainDone.
KafkaDone(t) ==
  /\ job[t].pc = "done"
  /\ \/ flag' = [flag EXCEPT ![t] = @ \cup {Row(t)}] /\ UNCHANGED faults
     \/ Fault /\ UNCHANGED flag
  /\ NextRow(t)
  /\ UNCHANGED <<ready, writes, crashes>>

Restart ==
  /\ crashes < MaxCrashes
  /\ crashes' = crashes + 1
  /\ job' = [t \in Topics |-> Idle]
  /\ UNCHANGED <<ready, flag, writes, faults>>

Job(t) == Begin(t) \/ LookUp(t) \/ Write(t) \/ KafkaDone(t)

Next ==
  \/ \E t \in Topics : Job(t) \/ \E n \in Rows : Ready(t, n)
  \/ Restart

Spec == Init /\ [][Next]_vars

-----------------------------------------------------------------------------
(***************************************************************************)
(* Properties.                                                             *)
(***************************************************************************)

\* Nothing is flagged that was not published: a lost write, a failing update
\* or a crash between the two never drops a message.
FlaggedIsPublished == \A t \in Topics : \A n \in flag[t] : writes[t][n] >= 1

\* A message is repeated only because of a failure or a crash: a failure costs
\* at most one duplicate, a crash at most one per topic.
DuplicatesBounded ==
  LET extra == [p \in Topics \X Rows |->
                  LET w == writes[p[1]][p[2]] IN IF w > 1 THEN w - 1 ELSE 0]
  IN  SumFunction(extra) <= faults + Cardinality(Topics) * crashes

\* Every row is published, although rows before it are stuck for ever, as
\* long as fewer rows are stuck than one batch holds.
AllPublished ==
  \A t \in Topics : \A n \in Rows \ Stuck[t] : n \in ready[t] ~> writes[t][n] >= 1
=============================================================================
