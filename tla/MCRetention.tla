---------------------------- MODULE MCRetention ----------------------------
(* Snapshots taken around a turn of the year, where weeks, months and years *)
(* do not nest, and at a leap day.                                          *)
EXTENDS Targets

At(y, m, d, minute) == DayOfDate(y, m - 1, d) * MinutesPerDay + minute

Moments == {At(2024, 2, 29, 1439), At(2024, 12, 28, 600), At(2024, 12, 29, 1439),
              At(2024, 12, 30, 0), At(2024, 12, 31, 185), At(2025, 1, 1, 180),
              At(2025, 1, 5, 0), At(2025, 1, 6, 60)}
MCInstant == Moments

Tiers == {"daily", "weekly", "monthly", "yearly"}
MCTier == Tiers
Tabulated(f) == CHOOSE g \in {f} : g = f  \* f itself, evaluated once
Buckets == Tabulated([t \in Tiers |-> [n \in Moments |->
               CASE t = "daily"   -> DailyBucket(n)
                 [] t = "weekly"  -> WeeklyBucket(n)
                 [] t = "monthly" -> MonthlyBucket(n)
                 [] t = "yearly"  -> YearlyBucket(n)]])
MCBucketOf == Buckets
MCCount == [t \in MCTier |-> IF t = "weekly" THEN 2 ELSE 1]

Every(interval, count, on, at, dayOfMonth) ==
    [interval |-> interval, count |-> count, on |-> on, at |-> at,
     dayOfMonth |-> dayOfMonth]
MCSchedule == {Every("minute", 45, 0, 0, 1), Every("hour", 5, 0, 0, 1),
               Every("day", 1, 0, 180, 1), Every("day", 3, 0, 0, 1),
               Every("week", 1, 0, 0, 1), Every("week", 2, 6, 1439, 1),
               Every("month", 1, 0, 180, 28), Every("month", 5, 0, 0, 1)}

MCWindowOf == [n \in 0..MaxNow |-> n \div 2]

Runners == {"daemon", "cli"}

\* The text order of the names is the order of the instants, and a name is read
\* back as what it was made of; the thirtieth of February is no name.
ASSUME NamesOrder ==
    /\ \A a, b \in MCInstant :
           a < b => Digits(NameOf(a)) < Digits(NameOf(b))
    /\ \A a \in MCInstant : ParseName(NameOf(a)) = a
    /\ ParseName([year |-> 2024, month |-> 2, day |-> 30, minute |-> 0]) = -1
=============================================================================
