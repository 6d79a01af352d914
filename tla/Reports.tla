------------------------------ MODULE Reports -------------------------------
(***************************************************************************)
(* The charts of energy and of network traffic over hours, days, weeks and *)
(* months (storage/db.rs, server/api.rs), read from the tables of Ledger   *)
(* at any moment.  Hours are summed over the rows of metrics_raw, in       *)
(* buckets aligned to the browser's time zone; the others over the daily   *)
(* ledgers, by the server's dates.  A chart is its bars, the last one the  *)
(* current one.  Energy and each direction of the traffic are summed in    *)
(* the same way and modelled once.                                         *)
(*                                                                         *)
(* Ticks count in the server's time zone, so a browser's offset is its     *)
(* distance from that; the totals of a chart are sums of its bars.         *)
(***************************************************************************)
EXTENDS Ledger

CONSTANTS
  HourLength,   (* ticks in an hour; hours divide a day                     *)
  Offsets,      (* how far ahead of the server a browser's time zone may be *)
  WeekLength,   (* days in a week                                           *)
  FirstDay,     (* the weekday of the first day                             *)
  HoursShown, DaysShown, WeeksShown, MonthsShown  (* 24, 30, 12 and 12      *)

ASSUME ReportsAssumption ==
  /\ HourLength \in Nat \ {0} /\ DayLength % HourLength = 0
  /\ Offsets \subseteq Nat
  /\ WeekLength \in Nat \ {0} /\ FirstDay \in Nat
  /\ {HoursShown, DaysShown, WeeksShown, MonthsShown} \subseteq Nat \ {0}

(* Bars(count): the positions of a chart's bars.                           *)
Bars(count) == 0..count - 1

(* What the days of a set have in the ledger; a day without a row has none. *)
DaysTotal(days) == Total(daily, days \cap Days)

Today == DayOf(clock)

-----------------------------------------------------------------------------
(* The rows that net_totals sums over, which are those since a moment.     *)
RowsSince(t) == {u \in Rows : u >= t}
NetTotals(since) == Total(raw, RowsSince(since))

(* The hours end with the one that is running where the browser is.        *)
AlignedEnd(offset) == ((clock + offset) \div HourLength + 1) * HourLength
HourStart(offset, i) == AlignedEnd(offset) - (HoursShown - i) * HourLength - offset

HourOf(t, offset) == ((t + offset) \div HourLength) * HourLength - offset

HourBars(offset) ==
  LET rows == RowsSince(HourStart(offset, 0))
  IN [i \in Bars(HoursShown) |->
        Total(raw, {t \in rows : HourOf(t, offset) = HourStart(offset, i)})]

DayShown(i) == Today - (DaysShown - 1 - i)
DayBars == [i \in Bars(DaysShown) |-> DaysTotal({DayShown(i)})]

(* Weeks begin on Mondays.                                                 *)
ThisMonday == Today - ((Today + FirstDay) % WeekLength)
Monday(i) == ThisMonday - WeekLength * (WeeksShown - 1 - i)
WeekDays(i) == {Monday(i) + n : n \in 0..WeekLength - 1}
WeekBars == [i \in Bars(WeeksShown) |-> DaysTotal(WeekDays(i))]

MonthShown(i) == MonthOf(clock) - (MonthsShown - 1 - i)
MonthBars == [i \in Bars(MonthsShown) |-> DaysTotal(DaysOfMonth(MonthShown(i)))]

(* energy_history and network_history: another group is refused.           *)
History(group, offset) ==
  CASE group = "hour" -> HourBars(offset)
    [] group = "day" -> DayBars
    [] group = "week" -> WeekBars
    [] group = "month" -> MonthBars

-----------------------------------------------------------------------------
SumOf(bars, positions) == MapThenSumSet(LAMBDA i : bars[i], positions)

(* Every row that is not ahead of the browser's hour falls into exactly    *)
(* one of the hours, in any time zone: they add up to what net_totals      *)
(* gives for the same window (db.rs:585-596).                              *)
HoursAddUp ==
  \A offset \in Offsets :
    LET hours == History("hour", offset)
        start == HourStart(offset, 0)
        end == AlignedEnd(offset) - offset
    IN SumOf(hours, DOMAIN hours) = NetTotals(start) - NetTotals(end)

(* Requests are answered while with_db is still at work.                   *)
Starting == pc \in {"down", "heal", "healed", "restore", "newMonth", "newCounter", "seed"}

(* The days whose ledger has at least what their rows have.  The day of    *)
(* the upgrade is excepted, which the older version booked only in part,   *)
(* and so are earlier days until they are seeded, and for good when the    *)
(* clock was set back: a row that is then stored on such a day gives it a  *)
(* total, and a day that has one is not seeded.                            *)
IsCovered(d) ==
  \/ d > DayOf(StartAt)
  \/ d < DayOf(StartAt) /\ ~spoiled /\ (Starting => daily[d] # None)

(* The hours of such a day never add up to more than the day.              *)
HoursFitTheirDay ==
  LET hours == History("hour", 0)
      days == History("day", 0)
      HoursOf(d) == {h \in DOMAIN hours : DayOf(HourStart(0, h)) = d}
  IN \A i \in DOMAIN days :
       LET d == DayShown(i)
       IN d \in Days /\ IsCovered(d) =>
            SumOf(hours, HoursOf(d)) <= days[i]

(* Nor does a day hold more than the week and the month it is in.          *)
DaysFitTheirWeekAndMonth ==
  LET days == History("day", 0)
      weeks == History("week", 0)
      months == History("month", 0)
      Last(bars, n) == bars[n - 1]
  IN /\ \A i \in DOMAIN days : DayShown(i) >= Monday(0) =>
          \E j \in DOMAIN weeks : DayShown(i) \in WeekDays(j) /\ days[i] <= weeks[j]
     /\ Last(days, DaysShown) <= Last(months, MonthsShown)

(* The charts agree with each other at any moment, though one half is      *)
(* summed over rows that are pruned and the other over ledgers that are    *)
(* booked live, seeded at a start, or both, across failed statements,      *)
(* crashes and steps of the clock (db.rs:213-222, 470-494, 823-832,        *)
(* 1013-1020).                                                             *)
ChartsAgree ==
  /\ HoursAddUp
  /\ DaysFitTheirWeekAndMonth
  /\ ~strayed => HoursFitTheirDay
=============================================================================
