------------------------------ MODULE Calendar ------------------------------
(***************************************************************************)
(* Time as backupkit cuts it up: schedule windows and due-ness             *)
(* (src/src/shared/time.ts), the due time that status prints (nextDueAt of *)
(* src/src/engine/internal/scheduler.ts), the retention buckets            *)
(* (src/src/retention/retention.ts) and the snapshot name                  *)
(* (src/src/shared/snapshot-name.ts).                                      *)
(*                                                                         *)
(* An instant is the number of UTC minutes since 1970-01-01.  A schedule   *)
(* is [interval, count, on, at, dayOfMonth]: on is a weekday with Monday   *)
(* = 0, at is in minutes past midnight.                                    *)
(***************************************************************************)
EXTENDS Integers

MinutesPerDay == 24 * 60

DaysSinceEpoch(n) == n \div MinutesPerDay

-----------------------------------------------------------------------------
(***************************************************************************)
(* The proleptic Gregorian calendar of the Date object                     *)
(***************************************************************************)
IsLeap(y) == y % 4 = 0 /\ (y % 100 # 0 \/ y % 400 = 0)

\* The day number of the first of January.
NewYear(y) ==
    365 * (y - 1970) + (y - 1969) \div 4 - (y - 1901) \div 100 + (y - 1601) \div 400

\* Days of the year before month m (from 0) begins.
BeforeMonth(y, m) ==
    LET common == <<0, 31, 59, 90, 120, 151, 181, 212, 243, 273, 304, 334>>
    IN  common[m + 1] + (IF m > 1 /\ IsLeap(y) THEN 1 ELSE 0)

\* getUTCFullYear and getUTCMonth of a day; Date.UTC of a date.
YearOf(d) ==
    CHOOSE y \in (1970 + d \div 366)..(1970 + d \div 365) :
        NewYear(y) <= d /\ d < NewYear(y + 1)
MonthOf(d) ==
    LET y == YearOf(d)
        begun == {m \in 0..11 : NewYear(y) + BeforeMonth(y, m) <= d}
    IN  CHOOSE m \in begun : \A k \in begun : k <= m
DayOf(d) == d - NewYear(YearOf(d)) - BeforeMonth(YearOf(d), MonthOf(d)) + 1
DayOfDate(y, m, day) == NewYear(y) + BeforeMonth(y, m) + day - 1

-----------------------------------------------------------------------------
(***************************************************************************)
(* Schedule windows                                                        *)
(***************************************************************************)
\* What validateSchedule lets through, defaults filled in; the fields that an
\* interval has no use for are arbitrary.
ValidSchedules ==
    [interval : {"minute", "hour", "day", "week", "month"}, count : Nat \ {0},
     on : 0..6, at : 0..(MinutesPerDay - 1), dayOfMonth : 1..28]

MonthsSinceEpoch(n) ==
    LET d == DaysSinceEpoch(n) IN (YearOf(d) - 1970) * 12 + MonthOf(d)

\* Day 0 was a Thursday: the last day at or before it that is a day `on`.
WeekAnchorDayZero(on) == -((3 - on) % 7)
WeeksSinceEpoch(n, on) == (DaysSinceEpoch(n) - WeekAnchorDayZero(on)) \div 7

WindowIndex(s, n) ==
    CASE s.interval = "minute" -> n \div s.count
      [] s.interval = "hour"   -> (n \div 60) \div s.count
      [] s.interval = "day"    -> DaysSinceEpoch(n) \div s.count
      [] s.interval = "week"   -> WeeksSinceEpoch(n, s.on) \div s.count
      [] s.interval = "month"  -> MonthsSinceEpoch(n) \div s.count

WeekStart(on, weeks) == (WeekAnchorDayZero(on) + weeks * 7) * MinutesPerDay

MonthStart(months) ==
    DayOfDate(1970 + months \div 12, months % 12, 1) * MinutesPerDay

WindowStart(s, i) ==
    CASE s.interval = "minute" -> i * s.count
      [] s.interval = "hour"   -> i * s.count * 60
      [] s.interval = "day"    -> i * s.count * MinutesPerDay
      [] s.interval = "week"   -> WeekStart(s.on, i * s.count)
      [] s.interval = "month"  -> MonthStart(i * s.count)

\* The earliest moment the window's run may fire.
WindowAnchor(s, i) ==
    LET offset ==
            CASE s.interval \in {"minute", "hour"} -> 0
              [] s.interval \in {"day", "week"}    -> s.at
              [] s.interval = "month" -> (s.dayOfMonth - 1) * MinutesPerDay + s.at
    IN  WindowStart(s, i) + offset

\* known is a set: the last fulfilment, or none.
IsDue(s, known, n) ==
    /\ \A k \in known : WindowIndex(s, k) # WindowIndex(s, n)
    /\ n >= WindowAnchor(s, WindowIndex(s, n))

\* Mutant: a fulfilled window is due again at its own anchor.
NextDueAt_SameWindow(s, known, n) ==
    IF n >= WindowAnchor(s, WindowIndex(s, n)) THEN n
    ELSE WindowAnchor(s, WindowIndex(s, n))

\* nextDueAt when no backoff is active.
NextDueAt(s, known, n) ==
    LET i == WindowIndex(s, n)
    IN  IF \E k \in known : WindowIndex(s, k) = i THEN WindowAnchor(s, i + 1)
        ELSE IF n >= WindowAnchor(s, i) THEN n ELSE WindowAnchor(s, i)

-----------------------------------------------------------------------------
(***************************************************************************)
(* Retention buckets: numbers that order as the keys of the code do        *)
(***************************************************************************)
HourlyBucket(n) == n \div 60
DailyBucket(n) == DaysSinceEpoch(n)

\* The ISO week: it belongs to the year of its Thursday.
WeeklyBucket(n) ==
    LET d == DaysSinceEpoch(n)
        thursday == d - ((d + 3) % 7) + 3
        isoYear == YearOf(thursday)
    IN  100 * isoYear + (thursday - NewYear(isoYear)) \div 7 + 1

MonthlyBucket(n) == MonthsSinceEpoch(n)
YearlyBucket(n) == YearOf(DaysSinceEpoch(n))

-----------------------------------------------------------------------------
(***************************************************************************)
(* The snapshot name: date and time, most significant first, so that the   *)
(* digits read as one number order as the text does                        *)
(***************************************************************************)
NameOf(n) ==
    LET d == DaysSinceEpoch(n)
    IN  [year |-> YearOf(d), month |-> MonthOf(d) + 1, day |-> DayOf(d),
         minute |-> n % MinutesPerDay]

Digits(name) ==
    ((name.year * 13 + name.month) * 32 + name.day) * MinutesPerDay + name.minute

\* Date.UTC carries an excess over; a name that is not its own round trip is
\* refused (null is -1).
ParseName(name) ==
    LET n == (NewYear(name.year) + BeforeMonth(name.year, name.month - 1)
                 + name.day - 1) * MinutesPerDay + name.minute
    IN  IF NameOf(n) = name THEN n ELSE -1
=============================================================================
