------------------------------ MODULE Reports -------------------------------
(***************************************************************************)
(* The two consumers of the order table together: the publication of paid  *)
(* orders (Kafka, topic "item") and the daily statistic (Statistics).      *)
(*                                                                         *)
(* They share the rows.  gorm dates a row to the moment of any update:     *)
(* publishing an order (KafkaDone) moves the date the statistic counts it  *)
(* by, and so does every status the on-chain jobs write for its item.  A   *)
(* crash stops both.                                                       *)
(***************************************************************************)
EXTENDS Kafka

CONSTANTS
  Bundled,        \* orders whose on-chain status the jobs write
  NearMidnight,   \* see Statistics
  MaxDays, None

ASSUME ReportsAssumption ==
  /\ "item" \in Topics /\ Bundled \subseteq Rows
  /\ NearMidnight \in BOOLEAN /\ MaxDays \in Nat /\ None \notin Nat

VARIABLES first, updated, dated, rows, run, due, lost, again, today

Stat == INSTANCE Statistics WITH Orders <- Rows, kafka <- flag["item"]

kafkaVars == <<ready, flag, writes, job>>
statVars  == <<first, updated, dated, rows, run, due, lost, again, today>>
all == <<vars, statVars>>

InitAll == Init /\ Stat!Init

\* The publication jobs up to the update of the row.
Publish(t) == (Begin(t) \/ LookUp(t) \/ Write(t)) /\ UNCHANGED statVars

\* KafkaDone sets the flag and, the order being on chain, its date.
Flag(t) ==
  LET n == Row(t)
  IN  /\ KafkaDone(t)
      /\ IF t = "item" /\ n \in flag'[t] \ flag[t] /\ updated[n] # None
         THEN Stat!KafkaDone(n) ELSE UNCHANGED statVars

\* A row becomes eligible: the order was paid, or the bundle confirmed.
Eligible(t, n) ==
  /\ t = "item" => first # None
  /\ Ready(t, n)
  /\ UNCHANGED statVars

\* The on-chain jobs write the status of a paid order, in any order and as
\* often as they come to its item.
UpdateStatus(n) ==
  /\ n \in Bundled \cap ready["item"]
  /\ UNCHANGED kafkaVars
  /\ Stat!Succeed(n) \/ Stat!Reopen(n)

FirstOrder == UNCHANGED kafkaVars /\ Stat!FirstOrder
NextDay == UNCHANGED kafkaVars /\ Stat!NextDay
Schedule == UNCHANGED kafkaVars /\ Stat!Schedule
Produce(p) == UNCHANGED kafkaVars /\ Stat!Produce(p)
RestartAll == Restart /\ Stat!Restart

NextAll ==
  \/ \E t \in Topics : Publish(t) \/ Flag(t) \/ \E n \in Rows : Eligible(t, n)
  \/ \E n \in Rows : UpdateStatus(n)
  \/ FirstOrder \/ NextDay \/ Schedule
  \/ \E p \in Stat!Runs : Produce(p)
  \/ RestartAll

SpecAll == InitAll /\ [][NextAll]_all

\* The scheduler starts every job again and again, their calls return, and
\* time goes on.
FairSpecAll ==
  /\ SpecAll
  /\ \A t \in Topics : WF_all(Publish(t) \/ Flag(t))
  /\ WF_all(NextDay) /\ WF_all(Schedule)
  /\ \A p \in Stat!Runs : WF_all(Produce(p))

-----------------------------------------------------------------------------
(***************************************************************************)
(* Properties.  Those of the two components, and how they affect each      *)
(* other.                                                                  *)
(***************************************************************************)

\* jobs.go:1168, "If yesterday's record already exists, return": no day has
\* two rows, whatever is retried, skipped or cut off by a restart; only a run
\* that could not read the last row repeats days.
OneRowPerDay == Stat!OneRowPerDay

\* Up to the last row every day since the first order has its row, unless its
\* own query or insert failed: a run never looks at days before the last row.
NoDaySkipped == Stat!NoDaySkipped

\* Every day from the first order on gets its row, also when the node was
\* down, or busy, for whole days, unless its own query or insert failed.
EveryDayReported == Stat!EveryDayReported

\* Between them the rows count every order on the day it is dated to, and only
\* a later update of its row (publication, or a status written again) makes it
\* count on another day as well: the row of the day an order is dated to
\* counts it, whenever that row was written, and a row counts an order only if
\* the order was dated to its day at some time.  An order whose date was never
\* moved is counted on its day and on no other.
CountedOnItsDay ==
  \A n \in DOMAIN rows : \A o \in Rows :
    /\ updated[o] = rows[n].date => o \in rows[n].seen
    /\ o \in rows[n].seen => rows[n].date \in dated[o]
=============================================================================
