---------------------------- MODULE ExpiryEngine ----------------------------
(***************************************************************************)
(* What the expiry tracker computes from dates alone: the categories and   *)
(* their windows, the tier and the bucket of a date so many days away, and *)
(* the end of the period after opening.                                    *)
(***************************************************************************)
EXTENDS Integers, FiniteSets

\* The windows of a category in days, by tier.  A category without windows has
\* no expiry.
NoWindows == [t \in {} |-> 0]
Tiers == [food_beverages          |-> [critical |-> 1, urgent |-> 7, upcoming |-> 30],
          medicine_pharma         |-> [critical |-> 1, urgent |-> 3, upcoming |-> 14],
          cosmetics_personal_care |-> [critical |-> 7, urgent |-> 30, upcoming |-> 90],
          household_chemicals     |-> [upcoming |-> 30],
          documents_other         |-> [upcoming |-> 30, long_lead |-> 60],
          non_perishable          |-> NoWindows]
Categories == DOMAIN Tiers
TierNames == {"critical", "urgent", "upcoming", "long_lead", "safe", "none"}
Buckets == {"expired", "this-week", "this-month", "safe", "none"}

HasExpiry(c) == c # "non_perishable"
TracksOpened(c) == c = "cosmetics_personal_care"
ReadsObserved(c) == HasExpiry(c) /\ c # "documents_other"

\* The windows of a category in ascending order.
Ascending(c) ==
  CHOOSE order \in [1..Cardinality(DOMAIN Tiers[c]) -> DOMAIN Tiers[c]] :
    /\ \A t \in DOMAIN Tiers[c] : \E i \in DOMAIN order : order[i] = t
    /\ \A i, j \in DOMAIN order : i < j => Tiers[c][order[i]] <= Tiers[c][order[j]]
Foremost(S) == CHOOSE i \in S : \A j \in S : i <= j

\* tier_for: the first window in that order that a date d days away lies in.
TierFor(c, d) ==
  IF DOMAIN Tiers[c] = {} \/ d < 0 THEN "none"
  ELSE LET order   == Ascending(c)
           reached == {i \in DOMAIN order : d <= Tiers[c][order[i]]}
       IN  IF reached = {} THEN "safe" ELSE order[Foremost(reached)]

BucketFor(d) == IF d < 0 THEN "expired" ELSE IF d <= 7 THEN "this-week"
                ELSE IF d <= 30 THEN "this-month" ELSE "safe"

\* window_days_for: only a tier of the category's own windows is a warning.
Warns(c, tier) == tier \in DOMAIN Tiers[c]

-----------------------------------------------------------------------------
\* A calendar date, its month counted from month 0 of year 0.
Leap(y) == y % 4 = 0 /\ (y % 100 # 0 \/ y % 400 = 0)
DaysIn(m) == LET month == (m % 12) + 1
             IN  IF month = 2 THEN (IF Leap(m \div 12) THEN 29 ELSE 28)
                 ELSE IF month \in {4, 6, 9, 11} THEN 30 ELSE 31
Date == {x \in [month : Nat, day : 1..31] : x.day <= DaysIn(x.month)}
Before(x, y) == x.month < y.month \/ (x.month = y.month /\ x.day <= y.day)

\* add_months: the day is clamped to the last one of the target month.
AddMonths(x, n) ==
  LET last == DaysIn(x.month + n)
  IN  [month |-> x.month + n, day |-> IF x.day <= last THEN x.day ELSE last]
=============================================================================
