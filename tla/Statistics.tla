----------------------------- MODULE Statistics -----------------------------
(***************************************************************************)
(* The daily statistic: ProduceDailyStatistic of jobs.go and its queries   *)
(* of wdb.go.  A goroutine runs it when the node starts, the scheduler     *)
(* once a day at 00:01; each run adds a row for every complete day after   *)
(* the last row, counting the orders whose success is dated to that day.   *)
(***************************************************************************)
EXTENDS Naturals, Sequences, FiniteSets

CONSTANTS
  Orders,
  NearMidnight,   \* the node may start so late that both runs overlap
  MaxDays, MaxFaults, MaxCrashes,   \* bounds
  None

Runs == {"startup", "daily"}
Days == 0..MaxDays

VARIABLES
  \* persistent
  first,       \* day of the first order, None when there is none
  updated,     \* updated_at of the successful orders, None for the others
  dated,       \* history: every day an order's success was dated to
  kafka,       \* orders with the kafka flag
  rows,        \* order_statistic table: date and the orders it counts
  \* volatile
  run,         \* per run: next step, loop variable, end, result of the query
  due,         \* the scheduler is going to start the daily run
  \* history
  lost,        \* days whose query or insert failed
  again,       \* sizes of the table when its last row could not be read
  today, faults, crashes

table == <<first, updated, dated, kafka>>
failed == <<lost, again, faults>>
vars == <<table, rows, run, due, today, failed, crashes>>

Idle == [pc |-> "idle", start |-> 0, end |-> 0, seen |-> {}]
Begun == [Idle EXCEPT !.pc = "begin"]
Fault == faults < MaxFaults /\ faults' = faults + 1
\* A call about day d fails.
Lose(d) == Fault /\ lost' = lost \cup {d} /\ UNCHANGED again

\* Table, runs and clock hold values of their kind; no row is about a day
\* that is not over.
TypeOK ==
  /\ first \in Days \cup {None}
  /\ updated \in [Orders -> Days \cup {None}]
  /\ dated \in [Orders -> SUBSET Days]
  /\ kafka \subseteq Orders
  /\ rows \in Seq([date: Days, seen: SUBSET Orders])
  /\ \A n \in DOMAIN rows : rows[n].date < today
  /\ run \in [Runs -> [pc: {"idle", "begin", "check", "count", "create"},
                       start: Days, end: Days, seen: SUBSET Orders]]
  /\ due \in BOOLEAN /\ today \in Days /\ lost \subseteq Days /\ again \subseteq Nat
  /\ faults \in 0..MaxFaults /\ crashes \in 0..MaxCrashes

Init ==
  /\ first = None
  /\ updated = [o \in Orders |-> None] /\ kafka = {}
  /\ dated = [o \in Orders |-> {}]
  /\ rows = <<>>
  /\ run = [p \in Runs |-> IF p = "startup" THEN Begun ELSE Idle]
  /\ due = FALSE /\ today = 0 /\ lost = {} /\ again = {} /\ faults = 0 /\ crashes = 0

-----------------------------------------------------------------------------
(***************************************************************************)
(* The order table and the clock.                                          *)
(***************************************************************************)
FirstOrder ==
  /\ first = None
  /\ first' = today
  /\ UNCHANGED <<updated, dated, kafka, rows, run, due, today, failed, crashes>>

\* Every update by gorm sets updated_at.
DateToday(o) ==
  /\ updated' = [updated EXCEPT ![o] = today]
  /\ dated' = [dated EXCEPT ![o] = @ \cup {today}]

\* UpdateOrdOnChainStatus to success, as often as the jobs write it: for all
\* orders of the item, successful ones too.
Succeed(o) ==
  /\ first # None
  /\ DateToday(o)
  /\ UNCHANGED <<first, kafka, rows, run, due, today, failed, crashes>>

\* The same to another status: another bundle has the item, or a status read
\* before the success is written after it.
Reopen(o) ==
  /\ updated[o] # None
  /\ updated' = [updated EXCEPT ![o] = None]
  /\ UNCHANGED <<first, dated, kafka, rows, run, due, today, failed, crashes>>

\* KafkaDone is an update too, of an order that is not flagged yet.
KafkaDone(o) ==
  /\ updated[o] # None /\ o \notin kafka
  /\ kafka' = kafka \cup {o}
  /\ DateToday(o)
  /\ UNCHANGED <<first, rows, run, due, today, failed, crashes>>

NextDay ==
  /\ today < MaxDays
  /\ today' = today + 1
  /\ due' = TRUE
  /\ UNCHANGED <<table, rows, run, failed, crashes>>

Schedule ==
  /\ due /\ run["daily"].pc = "idle"
  /\ NearMidnight \/ run["startup"].pc = "idle"
  /\ due' = FALSE
  /\ run' = [run EXCEPT !["daily"] = Begun]
  /\ UNCHANGED <<table, rows, today, failed, crashes>>

-----------------------------------------------------------------------------
(***************************************************************************)
(* ProduceDailyStatistic.                                                  *)
(***************************************************************************)
Set(p, l) == run' = [run EXCEPT ![p] = l]

\* The run is going to look at the days from d up to today.
From(p, d) == Set(p, [run[p] EXCEPT !.pc = "check", !.start = d, !.end = today])

\* Mutant: the run starts on the day of the last row.
ReadLast_SameDay(p) ==
  /\ run[p].pc = "begin"
  /\ IF first = None THEN Set(p, Idle)
     ELSE From(p, IF rows = <<>> THEN first ELSE rows[Len(rows)].date)
  /\ UNCHANGED <<table, rows, due, today, failed, crashes>>

\* Mutant: only yesterday is looked at.
ReadLast_Yesterday(p) ==
  /\ run[p].pc = "begin"
  /\ IF first = None \/ today = 0 THEN Set(p, Idle) ELSE From(p, today - 1)
  /\ UNCHANGED <<table, rows, due, today, failed, crashes>>

\* The first order, the last row and the clock make the range of days.  Any
\* error of the query for the last row is taken for an empty table: the run
\* starts over at the first order's day.  A failing query for the first order
\* ends the run (not on the calendar's last day, which no run follows).
ReadLast(p) ==
  /\ run[p].pc = "begin"
  /\ \/ first = None /\ Set(p, Idle) /\ UNCHANGED failed
     \/ /\ first # None
        /\ From(p, IF rows = <<>> THEN first ELSE rows[Len(rows)].date + 1)
        /\ UNCHANGED failed
     \/ /\ first # None /\ Fault
        /\ From(p, first)
        /\ again' = again \cup {Len(rows)}
        /\ UNCHANGED lost
     \/ /\ today < MaxDays /\ Fault
        /\ Set(p, Idle)
        /\ UNCHANGED <<lost, again>>
  /\ UNCHANGED <<table, rows, due, today, crashes>>

\* The loop's condition.
Loop(l) == IF l.start < l.end THEN [l EXCEPT !.pc = "count", !.seen = {}] ELSE Idle

\* A query that fails counts as one that finds nothing.
WhetherExec(end) == \A n \in DOMAIN rows : rows[n].date + 1 # end

Check(p) ==
  /\ run[p].pc = "check"
  /\ \/ /\ Set(p, IF WhetherExec(run[p].end) THEN Loop(run[p]) ELSE Idle)
        /\ UNCHANGED failed
     \/ Fault /\ Set(p, Loop(run[p])) /\ UNCHANGED <<lost, again>>
  /\ UNCHANGED <<table, rows, due, today, crashes>>

\* Mutant: the range of a day includes the first moment of the next.
OrdersOf_Closed(d) == {o \in Orders : updated[o] \in {d, d + 1}}

\* GetDailyStatisticByDate
OrdersOf(d) == {o \in Orders : updated[o] = d}

Following(l) == Loop([l EXCEPT !.start = @ + 1])

\* A day whose query fails is passed over.
CountDay(p) ==
  /\ run[p].pc = "count"
  /\ \/ /\ Set(p, [run[p] EXCEPT !.pc = "create", !.seen = OrdersOf(run[p].start)])
        /\ UNCHANGED failed
     \/ Lose(run[p].start) /\ Set(p, Following(run[p]))
  /\ UNCHANGED <<table, rows, due, today, crashes>>

\* The error of Create is not looked at.
Create(p) ==
  /\ run[p].pc = "create"
  /\ \/ /\ rows' = Append(rows, [date |-> run[p].start, seen |-> run[p].seen])
        /\ UNCHANGED failed
     \/ Lose(run[p].start) /\ UNCHANGED rows
  /\ Set(p, Following(run[p]))
  /\ UNCHANGED <<table, due, today, crashes>>

Restart ==
  /\ crashes < MaxCrashes
  /\ crashes' = crashes + 1
  /\ run' = [p \in Runs |-> IF p = "startup" THEN Begun ELSE Idle]
  /\ due' = FALSE
  /\ UNCHANGED <<table, rows, today, failed>>

Produce(p) == ReadLast(p) \/ Check(p) \/ CountDay(p) \/ Create(p)

Next ==
  \/ FirstOrder \/ NextDay \/ Schedule
  \/ \E o \in Orders : Succeed(o) \/ Reopen(o) \/ KafkaDone(o)
  \/ \E p \in Runs : Produce(p)
  \/ Restart

Spec == Init /\ [][Next]_vars

-----------------------------------------------------------------------------
(***************************************************************************)
(* Properties.                                                             *)
(***************************************************************************)

\* jobs.go:1168, "If yesterday's record already exists, return": no day has
\* two rows, whatever is retried, skipped or cut off by a restart, except that
\* a run that could not read the last row repeats days: between two rows of
\* one day there was such a run.
OneRowPerDay ==
  \A m, n \in DOMAIN rows :
    m < n /\ rows[m].date = rows[n].date => \E i \in again : m <= i /\ i < n

\* A run looks only at days behind the last row, so a day that it leaves out
\* is never reported.  None is: up to the last row every day since the first
\* order has its row, unless its own query or insert failed, although runs are
\* cut off between two days, whole days pass without one, and a run that
\* could not read the last row starts over.
NoDaySkipped ==
  \A n \in DOMAIN rows : \A d \in Days :
    first <= d /\ d < rows[n].date =>
      d \in lost \/ \E m \in DOMAIN rows : rows[m].date = d

\* Every day from the first order on gets its row, also when the node was
\* down, or busy, for whole days, unless its own query or insert failed.
EveryDayReported ==
  \A d \in 0..(MaxDays - 1) :
    first # None /\ first <= d /\ d < today ~>
      d \in lost \/ \E n \in DOMAIN rows : rows[n].date = d
=============================================================================
