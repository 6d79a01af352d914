------------------------------- MODULE Ledger -------------------------------
(***************************************************************************)
(* The ledgers of energy and of network bytes, across restarts, failures   *)
(* and ends of months (collector/metrics.rs, storage/db.rs): the collector *)
(* thread restores and accumulates the month's counter and queues          *)
(* snapshots; the collector task stores each one, with what it adds to its *)
(* row and its day, in one transaction.                                    *)
(*                                                                         *)
(* Power, and traffic, are one unit per tick, so what a row or a day holds *)
(* is a number of ticks; energy_wh with energy_daily and the byte deltas   *)
(* with network_daily are kept in the same way and modelled once.  The     *)
(* month's counter is kept for energy only.  The heal of the byte rates,   *)
(* which touches neither ledger, is left out.                              *)
(***************************************************************************)
EXTENDS Integers, Sequences, FiniteSetsExt

CONSTANTS
  DayLength,    (* ticks in a day                                           *)
  MonthLength,  (* ticks in a month, whole days                             *)
  Clamp,        (* the five seconds that an interval may count for          *)
  Retention,    (* the seven days that metrics_raw is kept for              *)
  MinGap,       (* the ten Wh below which nothing is reconciled             *)
  StartAt,      (* the first tick of this version                           *)
  LegacyRows,   (* when an older version, if any, stored rows               *)
  MaxTime,      (* bound: the last tick                                     *)
  MaxQueue,     (* bound: snapshots in the channel                          *)
  MaxFaults     (* bound: crashes, failed statements, clock set back        *)

ASSUME LedgerAssumption ==
  /\ DayLength \in Nat \ {0} /\ MonthLength \in Nat \ {0}
  /\ MonthLength % DayLength = 0
  /\ Clamp \in Nat \ {0} /\ Retention \in Nat /\ MinGap \in Nat
  /\ MaxTime \in Nat /\ StartAt \in 0..MaxTime
  /\ LegacyRows \subseteq 0..StartAt - 1
  /\ MaxQueue \in Nat \ {0} /\ MaxFaults \in Nat

VARIABLES
  clock,        (* the time of day                                          *)
  pc,           (* where the process and its collector thread are           *)
  today,        (* today_key of with_db                                     *)
  month,        (* energy_month                                             *)
  session,      (* energy_session_wh                                        *)
  prevMonth,    (* energy_prev_month_wh                                     *)
  lapse,        (* time since last_tick, up to Clamp; None without one      *)
  stamp,        (* the timestamp of the snapshot that is being made         *)
  queue,        (* the channel to the collector task                        *)
  raw,          (* table metrics_raw: what each row booked                  *)
  daily,        (* table energy_daily                                       *)
  meta,         (* table meta                                               *)
  peak,         (* history: the latest time there was                       *)
  strayed,      (* history: a row was stored on another day than taken, or  *)
                (* a seeding or the flag of a one-time step was lost        *)
  spoiled,      (* history: the stored counter and month may disagree, or   *)
                (* the clock was set back                                   *)
  faults        (* counter for the bound                                    *)

process == <<pc, today, month, session, prevMonth, lapse, stamp, queue>>
database == <<raw, daily, meta>>
history == <<peak, strayed, spoiled>>
vars == <<clock, process, database, history, faults>>

None == -1
Time == 0..MaxTime
DayOf(t) == t \div DayLength
MonthOf(t) == t \div MonthLength
Days == {DayOf(t) : t \in Time}
Months == {MonthOf(t) : t \in Time}
DaysOfMonth(m) == {d \in Days : MonthOf(d * DayLength) = m}

Least(a, b) == IF a < b THEN a ELSE b
Booked(n) == IF n = None THEN 0 ELSE n
Total(table, keys) == MapThenSumSet(LAMBDA k : Booked(table[k]), keys)
Rows == {t \in Time : raw[t] # None}
RowsOfDay(d) == {t \in Rows : DayOf(t) = d}

TypeOK ==
  /\ clock \in Time /\ peak \in Time
  /\ pc \in {"down", "heal", "healed", "restore", "newMonth", "newCounter", "seed",
             "reconcile", "reconciled", "ready", "savePrev", "saveMonth", "saveCounter", "send"}
  /\ today \in Days /\ month \in Months /\ stamp \in Time
  /\ session \in Nat /\ prevMonth \in Nat
  /\ lapse \in {None} \cup 0..Clamp
  /\ queue \in Seq([at : Time, session : Nat])
  /\ raw \in [Time -> {None} \cup 0..Clamp]
  /\ daily \in [Days -> {None} \cup Nat]
  /\ meta \in [session : {None} \cup Nat, month : {None} \cup Months,
               prev : {None} \cup Nat, healed : BOOLEAN, reconciled : BOOLEAN]
  /\ strayed \in BOOLEAN /\ spoiled \in BOOLEAN
  /\ faults \in 0..MaxFaults

(* A fresh database, or that of a version which kept a counter but neither *)
(* energy_wh nor energy_daily.                                             *)
Init ==
  /\ clock = StartAt /\ peak = StartAt
  /\ pc = "down" /\ today = 0 /\ month = 0 /\ stamp = 0
  /\ session = 0 /\ prevMonth = 0 /\ lapse = None /\ queue = <<>>
  /\ daily = [d \in Days |-> None]
  /\ \E legacy \in BOOLEAN :
       /\ raw = [t \in Time |-> IF legacy /\ t \in LegacyRows THEN 0 ELSE None]
       /\ meta = [session |-> IF legacy THEN StartAt % MonthLength ELSE None,
                  month |-> IF legacy THEN MonthOf(StartAt) ELSE None,
                  prev |-> None, healed |-> FALSE, reconciled |-> FALSE]
  /\ strayed = FALSE /\ spoiled = FALSE /\ faults = 0

-----------------------------------------------------------------------------
(* A statement whose error is swallowed (meta_set, execute_batch, let _).   *)
Fault == faults < MaxFaults /\ faults' = faults + 1
Fine == UNCHANGED faults
Goto(label) == pc' = label
Spoil(happened) == spoiled' = (spoiled \/ happened)

Predecessors(t) == {u \in Rows : u < t}

(* The gap to the row before it, clamped; a first row has none.            *)
Gap(t) ==
  IF Predecessors(t) = {} THEN 0 ELSE Least(t - Max(Predecessors(t)), Clamp)

(* MetricsDb::open, and its heal: a statement, and one for the flag.       *)
Open ==
  /\ pc = "down"
  /\ Goto(IF meta.healed THEN "restore" ELSE "heal")
  /\ UNCHANGED <<clock, today, month, session, prevMonth, lapse, stamp, queue,
                 database, history, faults>>

Heal ==
  /\ pc = "heal"
  /\ \/ raw' = [t \in Time |-> IF t \in Rows THEN Gap(t) ELSE None] /\ Fine
     \/ UNCHANGED raw /\ Fault
  /\ Goto("healed")
  /\ UNCHANGED <<clock, today, month, session, prevMonth, lapse, stamp, queue,
                 daily, meta, history>>

MarkHealed ==
  /\ pc = "healed"
  /\ \/ meta' = [meta EXCEPT !.healed = TRUE] /\ Fine /\ UNCHANGED strayed
     \/ UNCHANGED meta /\ Fault /\ strayed' = TRUE
  /\ Goto("restore")
  /\ UNCHANGED <<clock, today, month, session, prevMonth, lapse, stamp, queue,
                 raw, daily, peak, spoiled>>

(* Mutant: the counter is restored whatever month it was stored in.         *)
RestoreAnyMonth ==
  /\ pc = "restore"
  /\ month' = MonthOf(clock)
  /\ prevMonth' = Booked(meta.prev)
  /\ session' = Booked(meta.session)
  /\ Goto(IF meta.month = MonthOf(clock) THEN "seed" ELSE "newMonth")
  /\ UNCHANGED <<clock, today, lapse, stamp, queue, database, history, faults>>

(* with_db: the counter is restored if it was stored in this month.        *)
Restore ==
  /\ pc = "restore"
  /\ month' = MonthOf(clock)
  /\ prevMonth' = Booked(meta.prev)
  /\ \/ /\ meta.month = MonthOf(clock)
        /\ session' = Booked(meta.session)
        /\ Goto("seed")
     \/ /\ meta.month # MonthOf(clock)
        /\ session' = 0
        /\ Goto("newMonth")
  /\ UNCHANGED <<clock, today, lapse, stamp, queue, database, history, faults>>

(* One meta_set; a start and a rollover write the same three keys.         *)
Save(from, to, saved) ==
  /\ pc = from /\ Goto(to)
  /\ \/ meta' = saved /\ Fine /\ UNCHANGED spoiled
     \/ UNCHANGED meta /\ Fault /\ spoiled' = TRUE
  /\ UNCHANGED <<clock, today, month, session, prevMonth, lapse, stamp, queue,
                 raw, daily, peak, strayed>>

NewMonth == Save("newMonth", "newCounter", [meta EXCEPT !.month = month])
NewCounter == Save("newCounter", "seed", [meta EXCEPT !.session = 0])

(* Mutant: days that have a row already are added to.                       *)
SeededAgain(d) ==
  IF d # DayOf(clock) /\ RowsOfDay(d) # {}
  THEN Booked(daily[d]) + Total(raw, RowsOfDay(d)) ELSE daily[d]

(* backfill_energy_daily: completed days that have rows but no total.      *)
Seeded(d) ==
  IF d # DayOf(clock) /\ RowsOfDay(d) # {} /\ daily[d] = None
  THEN Total(raw, RowsOfDay(d)) ELSE daily[d]

Seed ==
  /\ pc = "seed"
  /\ today' = IF meta.reconciled THEN 0 ELSE DayOf(clock)
  /\ \/ daily' = [d \in Days |-> Seeded(d)] /\ Fine /\ UNCHANGED strayed
     \/ UNCHANGED daily /\ Fault /\ strayed' = TRUE
  /\ Goto(IF meta.reconciled THEN "ready" ELSE "reconcile")
  /\ UNCHANGED <<clock, month, session, prevMonth, lapse, stamp, queue,
                 raw, meta, peak, spoiled>>

CounterGap == session - Total(daily, DaysOfMonth(month))

(* The reconciliation: what the counter has and the days have not is       *)
(* added to today; then its flag is set.                                   *)
Reconcile ==
  /\ pc = "reconcile"
  /\ \/ /\ session > 0 /\ CounterGap > MinGap
        /\ daily' = [daily EXCEPT ![today] = Booked(@) + CounterGap]
        /\ Fine
     \/ session > 0 /\ CounterGap > MinGap /\ UNCHANGED daily /\ Fault
     \/ ~(session > 0 /\ CounterGap > MinGap) /\ UNCHANGED daily /\ Fine
  /\ Goto("reconciled")
  /\ UNCHANGED <<clock, today, month, session, prevMonth, lapse, stamp, queue,
                 raw, meta, history>>

MarkReconciled ==
  /\ pc = "reconciled" /\ Goto("ready")
  /\ \/ meta' = [meta EXCEPT !.reconciled = TRUE] /\ Fine /\ UNCHANGED strayed
     \/ UNCHANGED meta /\ Fault /\ strayed' = TRUE
  /\ today' = 0
  /\ UNCHANGED <<clock, month, session, prevMonth, lapse, stamp, queue,
                 raw, daily, peak, spoiled>>

-----------------------------------------------------------------------------
(* collect: the timestamp, and the turn of the month.  The loop sleeps     *)
(* between two of them.                                                    *)
Collect ==
  /\ pc = "ready" /\ lapse # 0 /\ Len(queue) < MaxQueue
  /\ stamp' = clock
  /\ \/ /\ MonthOf(clock) # month
        /\ prevMonth' = session /\ session' = 0 /\ month' = MonthOf(clock)
        /\ Goto("savePrev")
     \/ /\ MonthOf(clock) = month
        /\ UNCHANGED <<prevMonth, session, month>>
        /\ Goto("send")
  /\ UNCHANGED <<clock, today, lapse, queue, database, history, faults>>

SavePrev == Save("savePrev", "saveMonth", [meta EXCEPT !.prev = prevMonth])
SaveMonth == Save("saveMonth", "saveCounter", [meta EXCEPT !.month = month])
SaveCounter == Save("saveCounter", "send", [meta EXCEPT !.session = 0])

(* The rest of collect: the time since the last tick is accumulated, and   *)
(* the snapshot goes to the collector task.                                *)
Send ==
  /\ pc = "send" /\ Goto("ready")
  /\ session' = session + Booked(lapse)
  /\ lapse' = 0
  /\ queue' = Append(queue, [at |-> stamp, session |-> session'])
  /\ stamp' = 0
  /\ UNCHANGED <<clock, today, month, prevMonth, database, history, faults>>

(* Mutant: the interval is not clamped.                                     *)
IntervalUnclamped(t) ==
  IF Rows = {} \/ t <= Max(Rows) THEN 0 ELSE t - Max(Rows)

(* The interval that a new row stands for; none for the first row, nor for *)
(* one that is not the latest.                                             *)
Interval(t) ==
  IF Rows = {} \/ t <= Max(Rows) THEN 0 ELSE Least(t - Max(Rows), Clamp)

(* prune_raw: rows before the cutoff go.                                   *)
Pruned(table, cutoff) == [t \in Time |-> IF t < cutoff THEN None ELSE table[t]]

(* Mutant: the row is committed before its day is.                          *)
InsertRowFirst(s, cutoff) ==
  /\ raw' = Pruned([raw EXCEPT ![s.at] = Interval(s.at)], cutoff)
  /\ \/ /\ daily' = IF Interval(s.at) = 0 THEN daily
                    ELSE [daily EXCEPT ![DayOf(clock)] = Booked(@) + Interval(s.at)]
        /\ meta' = [meta EXCEPT !.session = s.session]
        /\ strayed' = (strayed \/ DayOf(s.at) # DayOf(clock))
        /\ Spoil(MonthOf(s.at) < meta.month) /\ Fine
     \/ UNCHANGED <<daily, meta, strayed, spoiled>> /\ Fault

(* insert_raw: one transaction stores the row, adds its interval to the    *)
(* day it is by then, and stores the counter.                              *)
InsertRaw(s, cutoff) ==
  \/ /\ raw' = Pruned([raw EXCEPT ![s.at] = Interval(s.at)], cutoff)
     /\ daily' = IF Interval(s.at) = 0 THEN daily
                 ELSE [daily EXCEPT ![DayOf(clock)] = Booked(@) + Interval(s.at)]
     /\ meta' = [meta EXCEPT !.session = s.session]
     /\ strayed' = (strayed \/ DayOf(s.at) # DayOf(clock))
     /\ Spoil(MonthOf(s.at) < meta.month) /\ Fine
  \/ /\ raw' = Pruned(raw, cutoff)
     /\ UNCHANGED <<daily, meta, strayed, spoiled>> /\ Fault

(* The collector task stores a snapshot; after a sixtieth it prunes.       *)
Store ==
  /\ queue # <<>>
  /\ LET s == Head(queue) IN
       \E cutoff \in {0, s.at - Retention} \cap Time :
         InsertRaw(s, cutoff)
  /\ queue' = Tail(queue)
  /\ UNCHANGED <<clock, pc, today, month, session, prevMonth, lapse, stamp, peak>>

-----------------------------------------------------------------------------
(* The process dies: what was not stored is gone.                          *)
Crash ==
  /\ Fault /\ pc # "down"
  /\ Goto("down")
  /\ today' = 0 /\ month' = 0 /\ session' = 0 /\ prevMonth' = 0
  /\ lapse' = None /\ stamp' = 0 /\ queue' = <<>>
  /\ Spoil(pc \in {"newCounter", "saveCounter"})
  /\ UNCHANGED <<clock, database, peak, strayed>>

(* Time passes; Instant stands still while the machine sleeps.             *)
Tick ==
  /\ clock < MaxTime /\ clock' = clock + 1
  /\ peak' = IF clock' > peak THEN clock' ELSE peak
  /\ lapse' \in {lapse, IF lapse = None THEN None ELSE Least(lapse + 1, Clamp)}
  /\ UNCHANGED <<pc, today, month, session, prevMonth, stamp, queue,
                 database, strayed, spoiled, faults>>

SetBack ==
  /\ Fault
  /\ clock > 0 /\ clock' = clock - 1
  /\ spoiled' = TRUE
  /\ UNCHANGED <<process, database, peak, strayed>>

Next ==
  \/ Open \/ Heal \/ MarkHealed \/ Restore \/ NewMonth \/ NewCounter
  \/ Seed \/ Reconcile \/ MarkReconciled
  \/ Collect \/ SavePrev \/ SaveMonth \/ SaveCounter \/ Send
  \/ Store \/ Crash \/ Tick \/ SetBack

Spec == Init /\ [][Next]_vars

-----------------------------------------------------------------------------
(* All days together never hold more than the time there was (up to the    *)
(* interval that an upgrade falls into): no restart, seeding, repeated     *)
(* heal or reconciliation books anything twice (metrics.rs:124-132).       *)
NeverMoreThanElapsed ==
  ~strayed /\ ~spoiled => Total(daily, Days) <= peak + Clamp

(* The month's counter counts this month only, whatever is restored when:  *)
(* it is at most the time since the month began, and the interval in which *)
(* it began (metrics.rs:86-114).                                           *)
CounterIsThisMonths ==
  ~spoiled /\ pc \in {"ready", "send"} =>
    session <= peak - month * MonthLength + Clamp

(* What the comments say of the turn of a month, and a start after it does *)
(* not do: the total of the month that ended is saved before the counter   *)
(* is reset (metrics.rs:91, 341-342).                                      *)
EndedMonthIsSaved ==
  [][pc = "restore" /\ meta.month # None /\ meta.month < month'
       => prevMonth' = meta.session]_vars
=============================================================================
