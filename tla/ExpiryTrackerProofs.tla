------------------------- MODULE ExpiryTrackerProofs -------------------------
(***************************************************************************)
(* What holds of the expiry tracker for any assets, dates, requests and    *)
(* days: the engine's calendar and tiers, types, the word of the user that *)
(* the rows of an asset keep, and the reminders that a daily pass leaves.  *)
(***************************************************************************)
EXTENDS ExpiryTracker, FiniteSetTheorems, WellFoundedInduction, TLAPS

\* The engine.  A month has between 28 and 31 days.
LEMMA MonthLength ==
  ASSUME NEW m \in Nat
  PROVE  DaysIn(m) \in 28..31
BY DEF DaysIn

\* The end of a period of months after opening is a day of the calendar, and
\* the same day of its month whenever that month has it.
THEOREM AddedMonthsAreDates ==
  ASSUME NEW x \in Date, NEW n \in Nat
  PROVE  /\ AddMonths(x, n) \in Date
         /\ x.day <= DaysIn(x.month + n) => AddMonths(x, n) = [month |-> x.month + n, day |-> x.day]
<1> DEFINE m == x.month + n  last == DaysIn(m)
<1>1. x \in [month : Nat, day : 1..31] /\ x.month \in Nat /\ x.day \in 1..31  BY DEF Date
<1>2. m \in Nat  BY <1>1
<1>3. last \in 28..31  BY <1>2, MonthLength
<1>4. AddMonths(x, n) = [month |-> m, day |-> IF x.day <= last THEN x.day ELSE last]  BY DEF AddMonths
<1> DEFINE d == IF x.day <= last THEN x.day ELSE last
<1>5. d \in 1..31 /\ d <= last  BY <1>1, <1>3
<1>6. last = DaysIn(m)  OBVIOUS
<1>7. x.day <= last => d = x.day  OBVIOUS
<1> HIDE DEF d, last, m
<1>8. [month |-> m, day |-> d] \in Date  BY <1>2, <1>5, <1>6 DEF Date
<1>9. AddMonths(x, n) = [month |-> m, day |-> d]  BY <1>4 DEF d
<1> QED BY <1>6, <1>7, <1>8, <1>9 DEF m

\* What was opened later is not over sooner, though days are clamped.
THEOREM AddedMonthsKeepOrder ==
  ASSUME NEW x \in Date, NEW y \in Date, NEW n \in Nat, Before(x, y)
  PROVE  Before(AddMonths(x, n), AddMonths(y, n))
<1>1. x.month \in Nat /\ x.day \in 1..31 /\ y.month \in Nat /\ y.day \in 1..31  BY DEF Date
<1>2. /\ AddMonths(x, n).month = x.month + n
      /\ AddMonths(x, n).day = IF x.day <= DaysIn(x.month + n) THEN x.day ELSE DaysIn(x.month + n)
      /\ AddMonths(y, n).month = y.month + n
      /\ AddMonths(y, n).day = IF y.day <= DaysIn(y.month + n) THEN y.day ELSE DaysIn(y.month + n)
  BY DEF AddMonths
<1>3. x.month + n \in Nat /\ y.month + n \in Nat  BY <1>1
<1>4. DaysIn(x.month + n) \in 28..31 /\ DaysIn(y.month + n) \in 28..31  BY <1>3, MonthLength
<1>5. CASE x.month < y.month
  <2>1. x.month + n < y.month + n  BY <1>1, <1>5
  <2> QED BY <1>2, <2>1 DEF Before
<1>6. CASE x.month = y.month /\ x.day <= y.day
  <2> DEFINE k == DaysIn(x.month + n)
  <2>1. k = DaysIn(y.month + n) /\ k \in 28..31  BY <1>4, <1>6
  <2> HIDE DEF k
  <2>2. (IF x.day <= k THEN x.day ELSE k) <= (IF y.day <= k THEN y.day ELSE k)
    BY <1>1, <1>6, <2>1
  <2> QED BY <1>1, <1>2, <1>6, <2>1, <2>2 DEF Before, k
<1> QED BY <1>5, <1>6 DEF Before

\* A set of numbers that is bounded has a greatest one, one of windows a
\* narrowest.
LEMMA LeastOf ==
  ASSUME NEW T, T \subseteq Nat, T # {}
  PROVE  \E x \in T : \A y \in T : x <= y
<1> DEFINE R == {ss \in Nat \X Nat : ss[1] < ss[2]}
<1>1. IsWellFoundedOn(R, Nat)  BY NatLessThanWellFounded DEF OpToRel
<1>2. PICK x \in T : \A y \in T : <<y, x>> \notin R  BY <1>1, WFMin, Zenon
<1>3. \A y \in T : x <= y
  <2> TAKE y \in T
  <2>1. <<y, x>> \in Nat \X Nat  OBVIOUS
  <2>2. ~(y < x)  BY <1>2, <2>1
  <2> QED BY <2>2
<1> QED BY <1>3

LEMMA NewestOf ==
  ASSUME NEW n \in Nat, NEW S, S \subseteq 1..n, S # {}
  PROVE  Newest(S) \in S /\ \A j \in S : j <= Newest(S)
<1> DEFINE T == {k \in Nat : \E i \in S : k = n - i}
<1>1. T \subseteq Nat /\ T # {}
  <2>1. PICK i \in S : TRUE  OBVIOUS
  <2>2. n - i \in Nat  BY <2>1
  <2> QED BY <2>1, <2>2
<1>2. PICK k \in T : \A l \in T : k <= l  BY <1>1, LeastOf
<1>3. PICK i \in S : k = n - i  BY <1>2
<1>4. \A j \in S : j <= i
  <2> TAKE j \in S
  <2>1. n - j \in T  OBVIOUS
  <2>2. n - i <= n - j  BY <1>2, <1>3, <2>1
  <2> QED BY <1>3, <2>2
<1> QED BY <1>3, <1>4 DEF Newest

\* The windows that a date d days away lies in.
Reached(c, d) == {t \in DOMAIN Tiers[c] : d <= Tiers[c][t]}

\* Each category's windows can be put in ascending order.
Ordered(c, order) ==
  /\ order \in [1..Cardinality(DOMAIN Tiers[c]) -> DOMAIN Tiers[c]]
  /\ \A t \in DOMAIN Tiers[c] : \E i \in DOMAIN order : order[i] = t
  /\ \A i, j \in DOMAIN order : i < j => Tiers[c][order[i]] <= Tiers[c][order[j]]

LEMMA SizeOfTwo ==
  ASSUME NEW x, NEW y, x # y
  PROVE  IsFiniteSet({x, y}) /\ Cardinality({x, y}) = 2
<1>1. IsFiniteSet({x}) /\ Cardinality({x}) = 1  BY FS_Singleton
<1>2. {x} \cup {y} = {x, y} /\ y \notin {x}  OBVIOUS
<1> QED BY <1>1, <1>2, FS_AddElement

LEMMA SizeOfThree ==
  ASSUME NEW x, NEW y, NEW z, x # y, x # z, y # z
  PROVE  Cardinality({x, y, z}) = 3
<1>1. IsFiniteSet({x, y}) /\ Cardinality({x, y}) = 2  BY SizeOfTwo
<1>2. {x, y} \cup {z} = {x, y, z} /\ z \notin {x, y}  OBVIOUS
<1> QED BY <1>1, <1>2, FS_AddElement

LEMMA ThreeOrdered ==
  ASSUME NEW c, DOMAIN Tiers[c] = {"critical", "urgent", "upcoming"},
         Tiers[c]["critical"] <= Tiers[c]["urgent"], Tiers[c]["urgent"] <= Tiers[c]["upcoming"],
         Tiers[c]["critical"] <= Tiers[c]["upcoming"]
  PROVE  \E order : Ordered(c, order)
<1> DEFINE s == <<"critical", "urgent", "upcoming">>
<1>1. Cardinality(DOMAIN Tiers[c]) = 3
  <2>1. "critical" # "urgent" /\ "critical" # "upcoming" /\ "urgent" # "upcoming"  OBVIOUS
  <2>2. Cardinality({"critical", "urgent", "upcoming"}) = 3  BY ONLY Zenon, <2>1, SizeOfThree
  <2> QED BY <2>2
<1>2. s \in [1..3 -> DOMAIN Tiers[c]] /\ DOMAIN s = {1, 2, 3}  OBVIOUS
<1>3. s[1] = "critical" /\ s[2] = "urgent" /\ s[3] = "upcoming"  OBVIOUS
<1> HIDE DEF s
<1>4. \A t \in DOMAIN Tiers[c] : \E i \in DOMAIN s : s[i] = t  BY <1>2, <1>3
<1>5. \A i, j \in DOMAIN s : i < j => Tiers[c][s[i]] <= Tiers[c][s[j]]  BY <1>2, <1>3
<1> QED BY <1>1, <1>2, <1>4, <1>5 DEF Ordered

LEMMA WindowsOrdered ==
  ASSUME NEW c \in Categories
  PROVE  Ordered(c, Ascending(c))
<1>1. \E order : Ordered(c, order)
  <2>1. CASE c \in {"food_beverages", "medicine_pharma", "cosmetics_personal_care"}
    BY <2>1, ThreeOrdered DEF Tiers
  <2>2. CASE c = "household_chemicals"
    <3> DEFINE s == <<"upcoming">>
    <3>1. DOMAIN Tiers[c] = {"upcoming"}  BY <2>2 DEF Tiers
    <3>2. Cardinality(DOMAIN Tiers[c]) = 1  BY <3>1, FS_Singleton
    <3>3. s \in [1..1 -> {"upcoming"}] /\ DOMAIN s = {1} /\ s[1] = "upcoming"  OBVIOUS
    <3> HIDE DEF s
    <3> QED BY <3>1, <3>2, <3>3 DEF Ordered
  <2>3. CASE c = "documents_other"
    <3> DEFINE s == <<"upcoming", "long_lead">>
    <3>1. DOMAIN Tiers[c] = {"upcoming", "long_lead"} /\ Tiers[c]["upcoming"] = 30 /\ Tiers[c]["long_lead"] = 60
      BY <2>3 DEF Tiers
    <3>2. Cardinality(DOMAIN Tiers[c]) = 2
      <4>1. "upcoming" # "long_lead"  OBVIOUS
      <4>2. Cardinality({"upcoming", "long_lead"}) = 2  BY ONLY Zenon, <4>1, SizeOfTwo
      <4> QED BY <3>1, <4>2
    <3>3. s \in [1..2 -> DOMAIN Tiers[c]] /\ DOMAIN s = {1, 2}  BY <3>1
    <3>4. s[1] = "upcoming" /\ s[2] = "long_lead"  OBVIOUS
    <3> HIDE DEF s
    <3>5. \A t \in DOMAIN Tiers[c] : \E i \in DOMAIN s : s[i] = t  BY <3>1, <3>3, <3>4
    <3>6. \A i, j \in DOMAIN s : i < j => Tiers[c][s[i]] <= Tiers[c][s[j]]  BY <3>1, <3>3, <3>4
    <3> QED BY <3>2, <3>3, <3>5, <3>6 DEF Ordered
  <2>4. CASE c = "non_perishable"
    <3> DEFINE s == [i \in 1..0 |-> i]
    <3>1. DOMAIN Tiers[c] = {}  BY <2>4 DEF Tiers, NoWindows
    <3>2. Cardinality(DOMAIN Tiers[c]) = 0  BY <3>1, FS_EmptySet
    <3>3. DOMAIN s = {} /\ 1..0 = {} /\ s \in [1..0 -> {}]  OBVIOUS
    <3> HIDE DEF s
    <3> QED BY <3>1, <3>2, <3>3 DEF Ordered
  <2> QED BY <2>1, <2>2, <2>3, <2>4 DEF Categories, Tiers
<1> QED BY <1>1 DEF Ordered, Ascending

\* The first window in ascending order that a date lies in is the narrowest of
\* all it lies in, and a date that lies in none is "safe" or has no tier.
THEOREM TierIsNarrowest ==
  ASSUME NEW c \in Categories, NEW d \in Nat
  PROVE  /\ Reached(c, d) # {} => /\ TierFor(c, d) \in Reached(c, d)
                                  /\ \A u \in Reached(c, d) : Tiers[c][TierFor(c, d)] <= Tiers[c][u]
         /\ Reached(c, d) = {} => TierFor(c, d) \in {"none", "safe"}
<1>1. PICK order : order = Ascending(c)  OBVIOUS
<1>2. Ordered(c, order)  BY <1>1, WindowsOrdered
<1>3. DOMAIN order \subseteq Nat /\ \A i \in DOMAIN order : order[i] \in DOMAIN Tiers[c]
  <2>1. order \in [1..Cardinality(DOMAIN Tiers[c]) -> DOMAIN Tiers[c]]  BY <1>2 DEF Ordered
  <2> QED BY <2>1
<1>4. \A t \in DOMAIN Tiers[c] : Tiers[c][t] \in Nat  BY DEF Categories, Tiers, NoWindows
<1>5. PICK reached : reached = {i \in DOMAIN order : d <= Tiers[c][order[i]]}  OBVIOUS
<1>6. CASE Reached(c, d) = {}
  <2>1. reached = {}  BY <1>3, <1>5, <1>6 DEF Reached
  <2> QED BY Zenon, <1>1, <1>5, <1>6, <2>1 DEF TierFor
<1>7. CASE Reached(c, d) # {}
  <2>1. PICK t \in DOMAIN Tiers[c] : d <= Tiers[c][t]  BY <1>7 DEF Reached
  <2>2. PICK k \in DOMAIN order : order[k] = t  BY <1>2 DEF Ordered
  <2>3. k \in reached /\ reached \subseteq Nat  BY <1>3, <1>5, <2>1, <2>2
  <2>4. PICK i \in reached : \A j \in reached : i <= j  BY <2>3, LeastOf
  <2>5. Foremost(reached) \in reached /\ \A j \in reached : Foremost(reached) <= j
    BY <2>4 DEF Foremost
  <2>6. PICK f : f = Foremost(reached)  OBVIOUS
  <2>7. TierFor(c, d) = order[f]
    <3>1. DOMAIN Tiers[c] # {} /\ ~(d < 0)  BY <2>1
    <3>2. reached # {}  BY <2>3
    <3> QED BY Zenon, <1>1, <1>5, <2>6, <3>1, <3>2 DEF TierFor
  <2>8. f \in DOMAIN order /\ d <= Tiers[c][order[f]]  BY <1>5, <2>5, <2>6
  <2>9. order[f] \in Reached(c, d)  BY <1>3, <2>8 DEF Reached
  <2>10. ASSUME NEW u \in Reached(c, d)  PROVE Tiers[c][order[f]] <= Tiers[c][u]
    <3>1. u \in DOMAIN Tiers[c] /\ d <= Tiers[c][u]  BY DEF Reached
    <3>2. PICK j \in DOMAIN order : order[j] = u  BY <1>2, <3>1 DEF Ordered
    <3>3. j \in reached  BY <1>5, <3>1, <3>2
    <3>4. f <= j /\ f \in Nat /\ j \in Nat  BY <1>3, <2>5, <2>6, <2>8, <3>3
    <3>5. CASE f = j  BY <1>4, <3>1, <3>2, <3>5
    <3>6. CASE f < j  BY <1>2, <2>8, <3>2, <3>6 DEF Ordered
    <3> QED BY <3>4, <3>5, <3>6
  <2> QED BY <1>7, <2>7, <2>9, <2>10
<1> QED BY <1>6, <1>7
-----------------------------------------------------------------------------
\* The rows of a field.
LEMMA RowFields ==
  ASSUME NEW r \in Row
  PROVE  /\ r.asset \in Assets /\ r.field \in Fields /\ r.value \in Values
         /\ r.state \in {"accepted", "proposed", "needs_evidence", "superseded"}
BY DEF Row

LEMMA ActiveIsOpen ==
  ASSUME NEW R \in Seq(Row), NEW a, NEW f
  PROVE  /\ ActiveRow(R, a, f) \in Nat
         /\ Open(R, a, f) # {} => ActiveRow(R, a, f) \in Open(R, a, f)
         /\ ActiveRow(R, a, f) # 0 => ActiveRow(R, a, f) \in Open(R, a, f)
<1>1. Open(R, a, f) \subseteq 1..Len(R) /\ Len(R) \in Nat  BY DEF Open
<1>2. CASE Open(R, a, f) = {}  BY <1>2 DEF ActiveRow, Newest
<1>3. CASE Open(R, a, f) # {}
  <2>1. Newest(Open(R, a, f)) \in Open(R, a, f)  BY <1>1, <1>3, NewestOf
  <2> QED BY <1>1, <2>1 DEF ActiveRow
<1> QED BY <1>2, <1>3

One(S) == \A i, j \in S : i = j

LEMMA OneIsActive ==
  ASSUME NEW R \in Seq(Row), NEW a, NEW f, One(Open(R, a, f))
  PROVE  /\ ActiveRow(R, a, f) # 0 => Open(R, a, f) = {ActiveRow(R, a, f)}
         /\ ActiveRow(R, a, f) = 0 => Open(R, a, f) = {}
<1>1. Open(R, a, f) \subseteq 1..Len(R)  BY DEF Open
<1> QED BY <1>1, ActiveIsOpen DEF One

\* With one open row, the date its accepted row states is the newest row's.
LEMMA AcceptedIsActive ==
  ASSUME NEW R \in Seq(Row), NEW a, NEW f, One(Open(R, a, f))
  PROVE  Stated(R, AcceptedRow(R, a, f)) = Stated(R, ActiveRow(R, a, f))
<1> DEFINE O == Open(R, a, f)  i == ActiveRow(R, a, f)  A == {k \in O : R[k].state = "accepted"}
<1>1. AcceptedRow(R, a, f) = Newest(A)  BY DEF AcceptedRow
<1>2. CASE i = 0
  <2>1. O = {}  BY <1>2, OneIsActive
  <2>2. A = {}  BY <2>1
  <2>3. Newest(A) = 0  BY <2>2 DEF Newest
  <2> QED BY <1>1, <1>2, <2>3
<1>3. CASE i # 0
  <2>1. O = {i} /\ i \in Nat  BY <1>3, OneIsActive, ActiveIsOpen
  <2>2. CASE R[i].state = "accepted"
    <3>1. A = {i}  BY <2>1, <2>2
    <3> HIDE DEF A, i
    <3>2. i <= i  BY <2>1
    <3>3. Newest(A) = i  BY <3>1, <3>2 DEF Newest
    <3> QED BY <1>1, <3>3 DEF i
  <2>3. CASE R[i].state # "accepted"
    <3>1. A = {}  BY <2>1, <2>3
    <3>2. Newest(A) = 0  BY <3>1 DEF Newest
    <3> QED BY <1>1, <2>3, <3>2 DEF Stated
  <2> QED BY <2>2, <2>3
<1> QED BY <1>2, <1>3

\* A row that a write may be given, and what the write does to the rows.
Fits(R, i, a, f) == i # 0 => i \in DOMAIN R /\ R[i].asset = a /\ R[i].field = f
Wrote(R, i, Q, k, row) ==
  /\ Q \in Seq(Row) /\ k \in Nat /\ k # 0 /\ k \in DOMAIN Q /\ k \notin DOMAIN R /\ Q[k] = row
  /\ \A j \in DOMAIN R : /\ j \in DOMAIN Q
                         /\ j # i => Q[j] = R[j]
                         /\ j = i => Q[j] = [R[j] EXCEPT !.state = "superseded"]
  /\ \A j \in DOMAIN Q : j \in DOMAIN R \/ j = k

\* A write that is not of the same value supersedes the one row it is given
\* and adds another.
LEMMA WriteAdds ==
  ASSUME NEW R \in Seq(Row), NEW i \in Nat, NEW a \in Assets, NEW f \in Fields, NEW v \in Values,
         NEW s \in {"accepted", "proposed", "needs_evidence"},
         Fits(R, i, a, f),
         NEW Q, Q = Add(Supersede(R, i), a, f, v, s), NEW k, k = Len(R) + 1
  PROVE  Wrote(R, i, Q, k, [asset |-> a, field |-> f, value |-> v, state |-> s])
<1> DEFINE P == Supersede(R, i)  row == [asset |-> a, field |-> f, value |-> v, state |-> s]
<1>1. row \in Row  BY DEF Row
<1>2. /\ P \in Seq(Row) /\ Len(P) = Len(R) /\ DOMAIN P = DOMAIN R
      /\ \A j \in DOMAIN R : /\ j # i => P[j] = R[j]
                             /\ j = i => P[j] = [R[j] EXCEPT !.state = "superseded"]
  <2>1. CASE i = 0
    <3>1. P = R  BY <2>1 DEF Supersede
    <3>2. \A j \in DOMAIN R : j # 0  OBVIOUS
    <3> QED BY <2>1, <3>1, <3>2
  <2>2. CASE i # 0
    <3>1. i \in DOMAIN R /\ R[i] \in Row  BY <2>2 DEF Fits
    <3>2. [R[i] EXCEPT !.state = "superseded"] \in Row  BY <3>1 DEF Row
    <3>3. P = [R EXCEPT ![i] = [R[i] EXCEPT !.state = "superseded"]]  BY <2>2 DEF Supersede
    <3> HIDE DEF P
    <3> QED BY <3>1, <3>2, <3>3
  <2> QED BY <2>1, <2>2
<1>3. Q = Append(P, row)  BY DEF Add
<1> HIDE DEF P, row
<1>4. /\ Q \in Seq(Row) /\ k \in DOMAIN Q /\ Q[k] = row
      /\ \A j \in DOMAIN R : j \in DOMAIN Q /\ Q[j] = P[j]
      /\ \A j \in DOMAIN Q : j \in DOMAIN R \/ j = k
  BY <1>1, <1>2, <1>3
<1>5. k \in Nat /\ k # 0 /\ k \notin DOMAIN R  OBVIOUS
<1>6. \A j \in DOMAIN R : /\ j # i => Q[j] = R[j]
                          /\ j = i => Q[j] = [R[j] EXCEPT !.state = "superseded"]
  BY <1>2, <1>4
<1>7. Wrote(R, i, Q, k, row)  BY <1>4, <1>5, <1>6 DEF Wrote
<1> QED BY <1>7 DEF row

\* Open rows after it: those of the field are the new one, when the row given was
\* the only one; those of other fields, and of other assets, are as before.
LEMMA WriteOpens ==
  ASSUME NEW R \in Seq(Row), NEW i \in Nat, NEW a \in Assets, NEW f \in Fields, NEW v \in Values,
         NEW s \in {"accepted", "proposed", "needs_evidence"},
         Fits(R, i, a, f),
         NEW Q, Q = Add(Supersede(R, i), a, f, v, s), NEW k, k = Len(R) + 1
  PROVE  /\ Open(Q, a, f) = (Open(R, a, f) \ {i}) \cup {k}
         /\ \A b, g : b # a \/ g # f =>
              Open(Q, b, g) = Open(R, b, g) /\ \A j \in Open(R, b, g) : Q[j] = R[j]
<1>0. PICK row : row = [asset |-> a, field |-> f, value |-> v, state |-> s]  OBVIOUS
<1>1. Wrote(R, i, Q, k, row)  BY Zenon, <1>0, WriteAdds
<1> USE DEF Wrote
<1>2. Q[k].asset = a /\ Q[k].field = f /\ Q[k].state # "superseded"  BY <1>0, <1>1
<1>4. ASSUME i \in DOMAIN R
      PROVE  Q[i].state = "superseded" /\ Q[i].asset = R[i].asset /\ Q[i].field = R[i].field
  <2>1. Q[i] = [R[i] EXCEPT !.state = "superseded"]  BY <1>1, <1>4
  <2>2. R[i] \in Row  BY <1>4
  <2> QED BY <2>1, <2>2 DEF Row
<1>5. ASSUME NEW j PROVE j \in Open(Q, a, f) <=> j \in (Open(R, a, f) \ {i}) \cup {k}
  <2>1. CASE j = k  BY <1>1, <1>2, <2>1 DEF Open
  <2>2. CASE j # k /\ j = i  BY <1>1, <1>4, <2>2 DEF Open
  <2>3. CASE j # k /\ j # i  BY <1>1, <2>3 DEF Open
  <2> QED BY <2>1, <2>2, <2>3
<1>6. ASSUME NEW b, NEW g, b # a \/ g # f
      PROVE  Open(Q, b, g) = Open(R, b, g) /\ \A j \in Open(R, b, g) : Q[j] = R[j]
  <2>1. ASSUME NEW j PROVE j \in Open(Q, b, g) <=> j \in Open(R, b, g)
    <3>1. CASE j = k  BY <1>1, <1>2, <1>6, <3>1 DEF Open
    <3>2. CASE j # k /\ j = i
      <4>1. j \notin Open(R, b, g)  BY <1>6, <3>2 DEF Open, Fits
      <4>2. j \in DOMAIN Q => j \in DOMAIN R  BY <1>1, <3>2
      <4>3. j \notin Open(Q, b, g)
        <5>1. CASE j \notin DOMAIN Q  BY <5>1 DEF Open
        <5>2. CASE j \in DOMAIN R
          <6>1. Q[j].state = "superseded"  BY <1>4, <3>2, <5>2
          <6> QED BY <6>1 DEF Open
        <5> QED BY <4>2, <5>1, <5>2
      <4> QED BY <4>1, <4>3
    <3>3. CASE j # k /\ j # i  BY <1>1, <3>3 DEF Open
    <3> QED BY <3>1, <3>2, <3>3
  <2>2. ASSUME NEW j \in Open(R, b, g) PROVE Q[j] = R[j]
    <3>1. j \in DOMAIN R /\ R[j].asset = b /\ R[j].field = g  BY DEF Open
    <3>2. j # i  BY <1>6, <3>1 DEF Fits
    <3> QED BY <1>1, <3>1, <3>2
  <2> QED BY <2>1, <2>2
<1>7. Open(Q, a, f) = (Open(R, a, f) \ {i}) \cup {k}  BY <1>5
<1> QED BY <1>6, <1>7

\* A request's write, its row the newest: the field has the one row that says
\* what it was to say.
LEMMA WriteHolds ==
  ASSUME NEW R \in Seq(Row), NEW i \in Nat, NEW a \in Assets, NEW f \in Fields, NEW v \in Values,
         NEW s \in {"accepted", "proposed", "needs_evidence"}, NEW same,
         One(Open(R, a, f)), i = ActiveRow(R, a, f), same <=> Same(R, i, v, s),
         NEW Q, Q = Write(R, i, same, a, f, v, s)
  PROVE  /\ One(Open(Q, a, f)) /\ ActiveRow(Q, a, f) # 0
         /\ Q[ActiveRow(Q, a, f)].value = v /\ Q[ActiveRow(Q, a, f)].state = s
<1>0. Fits(R, i, a, f) /\ (i # 0 => Open(R, a, f) = {i})
  BY OneIsActive DEF Open, Fits
<1>1. CASE same
  <2>1. i # 0 /\ R[i].value = v /\ R[i].state = s  BY Zenon, <1>1 DEF Same
  <2>2. Q = R  BY Zenon, <1>1 DEF Write
  <2> QED BY <2>1, <2>2
<1>2. CASE ~same
  <2>0. PICK k : k = Len(R) + 1  OBVIOUS
  <2>1. Q = Add(Supersede(R, i), a, f, v, s)  BY Zenon, <1>2 DEF Write
  <2>2. Open(Q, a, f) = (Open(R, a, f) \ {i}) \cup {k}  BY <1>0, <2>0, <2>1, WriteOpens
  <2>3. Open(R, a, f) \ {i} = {}  BY <1>0, OneIsActive
  <2>4. Q \in Seq(Row) /\ k \in Nat /\ k # 0
        /\ Q[k] = [asset |-> a, field |-> f, value |-> v, state |-> s]
    <3>1. Wrote(R, i, Q, k, [asset |-> a, field |-> f, value |-> v, state |-> s])
      BY Zenon, <1>0, <2>0, <2>1, WriteAdds
    <3> QED BY Zenon, <3>1 DEF Wrote
  <2>5. Open(Q, a, f) = {k}  BY <2>2, <2>3
  <2>6. One(Open(Q, a, f))  BY <2>5 DEF One
  <2>7. ActiveRow(Q, a, f) = k  BY <2>4, <2>5, ActiveIsOpen
  <2> QED BY <2>4, <2>6, <2>7
<1> QED BY <1>1, <1>2

\* Between two states of the rows: what a row says stays, but it may have been
\* superseded; and what nobody wrote to is the same.
Grows(R, Q) == \A j \in DOMAIN R : /\ j \in DOMAIN Q
                                   /\ Q[j].asset = R[j].asset /\ Q[j].field = R[j].field
                                   /\ Q[j].value = R[j].value
                                   /\ Q[j].state \in {R[j].state, "superseded"}
SameFor(R, Q, b, g) == /\ Open(Q, b, g) = Open(R, b, g) /\ ActiveRow(Q, b, g) = ActiveRow(R, b, g)
                       /\ \A j \in Open(R, b, g) : Q[j] = R[j]

\* Whatever row it is given, a request touches nothing but its field.
LEMMA WriteGrows ==
  ASSUME NEW R \in Seq(Row), NEW i \in Nat, NEW a \in Assets, NEW f \in Fields, NEW v \in Values,
         NEW s \in {"accepted", "proposed", "needs_evidence"}, NEW same,
         Fits(R, i, a, f),
         NEW Q, Q = Write(R, i, same, a, f, v, s)
  PROVE  /\ Q \in Seq(Row) /\ Grows(R, Q)
         /\ \A b, g : b # a \/ g # f => SameFor(R, Q, b, g)
<1>0. \A j \in DOMAIN R : R[j] \in Row  OBVIOUS
<1>1. CASE same
  <2>1. Q = R  BY Zenon, <1>1 DEF Write
  <2> QED BY <1>0, <2>1 DEF Grows, SameFor
<1>2. CASE ~same
  <2>1. Q = Add(Supersede(R, i), a, f, v, s)  BY Zenon, <1>2 DEF Write
  <2>2. /\ Q \in Seq(Row)
        /\ \A j \in DOMAIN R : /\ j \in DOMAIN Q
                               /\ j # i => Q[j] = R[j]
                               /\ j = i => Q[j] = [R[j] EXCEPT !.state = "superseded"]
    <3>1. PICK k : k = Len(R) + 1  OBVIOUS
    <3>2. Wrote(R, i, Q, k, [asset |-> a, field |-> f, value |-> v, state |-> s])
      BY Zenon, <2>1, <3>1, WriteAdds
    <3> QED BY Zenon, <3>2 DEF Wrote
  <2>3. \A b, g : b # a \/ g # f =>
          Open(Q, b, g) = Open(R, b, g) /\ \A j \in Open(R, b, g) : Q[j] = R[j]
    BY <2>1, WriteOpens
  <2>4. \A b, g : b # a \/ g # f => ActiveRow(Q, b, g) = ActiveRow(R, b, g)
    BY <2>3 DEF ActiveRow
  <2>5. ASSUME NEW j \in DOMAIN R
        PROVE  /\ j \in DOMAIN Q /\ Q[j].asset = R[j].asset /\ Q[j].field = R[j].field
               /\ Q[j].value = R[j].value /\ Q[j].state \in {R[j].state, "superseded"}
    <3>1. CASE j # i  BY <2>2, <3>1
    <3>2. CASE j = i
      <4>1. Q[j] = [R[j] EXCEPT !.state = "superseded"] /\ j \in DOMAIN Q  BY <2>2, <3>2
      <4> QED BY <1>0, <4>1 DEF Row
    <3> QED BY <3>1, <3>2
  <2> QED BY <2>2, <2>3, <2>4, <2>5 DEF Grows, SameFor
<1> QED BY <1>1, <1>2
-----------------------------------------------------------------------------
\* Classifications name categories.
ClassRows(R) == \A j \in DOMAIN R : R[j].field = "class" => R[j].value \in Categories

LEMMA ClassRowsKept ==
  ASSUME NEW R \in Seq(Row), NEW i \in Nat, NEW a \in Assets, NEW f \in Fields, NEW v \in Values,
         NEW s \in {"accepted", "proposed", "needs_evidence"}, NEW same,
         Fits(R, i, a, f), ClassRows(R), f = "class" => v \in Categories,
         NEW Q, Q = Write(R, i, same, a, f, v, s)
  PROVE  ClassRows(Q)
<1>1. CASE same
  <2>1. Q = R  BY Zenon, <1>1 DEF Write
  <2> QED BY <2>1
<1>2. CASE ~same
  <2>1. Q = Add(Supersede(R, i), a, f, v, s)  BY Zenon, <1>2 DEF Write
  <2>2. PICK k : k = Len(R) + 1  OBVIOUS
  <2>3. PICK row : row = [asset |-> a, field |-> f, value |-> v, state |-> s]  OBVIOUS
  <2>4. Wrote(R, i, Q, k, row)  BY Zenon, <2>1, <2>2, <2>3, WriteAdds
  <2>5. Grows(R, Q)  BY WriteGrows
  <2>6. Q[k] = row /\ \A j \in DOMAIN Q : j \in DOMAIN R \/ j = k  BY Zenon, <2>4 DEF Wrote
  <2>7. row.field = f /\ row.value = v  BY <2>3
  <2> QED BY <2>5, <2>6, <2>7 DEF ClassRows, Grows
<1> QED BY <1>1, <1>2

LEMMA StatedKept ==
  ASSUME NEW R \in Seq(Row), NEW Q, NEW b, NEW g, SameFor(R, Q, b, g)
  PROVE  /\ Stated(Q, ActiveRow(Q, b, g)) = Stated(R, ActiveRow(R, b, g))
         /\ ActiveRow(R, b, g) # 0 => Q[ActiveRow(Q, b, g)] = R[ActiveRow(R, b, g)]
<1>1. ActiveRow(R, b, g) # 0 => ActiveRow(R, b, g) \in Open(R, b, g)  BY ActiveIsOpen
<1>2. ActiveRow(Q, b, g) = ActiveRow(R, b, g)  BY DEF SameFor
<1>3. ActiveRow(R, b, g) # 0 => Q[ActiveRow(Q, b, g)] = R[ActiveRow(R, b, g)]
  BY <1>1, <1>2 DEF SameFor
<1> QED BY <1>2, <1>3 DEF Stated

\* What a request is to write, by its kind, and what it read of the rows.
Wished(c, value, state) ==
  \/ HasExpiry(c) /\ state = "proposed" /\ value \in Dates
  \/ HasExpiry(c) /\ state = "needs_evidence" /\ value = "unknown"
  \/ ~HasExpiry(c) /\ state = "accepted" /\ value = "null"
Shape(r) ==
  /\ r.kind = "classify" => /\ r.category \in Categories
                            /\ \/ r.field = "class" /\ r.state = "accepted" /\ r.value = r.category
                               \/ r.field = "expiry" /\ Wished(r.category, r.value, r.state)
  /\ r.kind \in {"enter", "clear"} => r.field = "expiry" /\ r.state = "accepted"
  /\ r.kind \in {"open", "unopen"} => r.field = "opened" /\ r.state = "accepted"
  /\ r.kind \in {"enter", "open"} => r.value \in Dates
  /\ r.kind \in {"clear", "unopen"} => r.value = "null"
Silent(R, i) == i # 0 => /\ i \in DOMAIN R
                         /\ R[i].state = "superseded" \/ ~(R[i].state = "accepted" /\ R[i].value \in Dates)
ReadBy(r, R) ==
  /\ r.pc = "write" => /\ Fits(R, r.prev, r.asset, r.field)
                       /\ r.prev = 0 => ~r.same
                       /\ r.prev # 0 /\ R[r.prev].state # "superseded" =>
                            (r.same <=> Same(R, r.prev, r.value, r.state))
  /\ r.kind = "classify" /\ r.field = "expiry" /\ HasExpiry(r.category) => Silent(R, r.base)

LEMMA ReadByKept ==
  ASSUME NEW r, NEW R, NEW Q, Grows(R, Q), ReadBy(r, R)
  PROVE  ReadBy(r, Q)
<1>1. ASSUME r.pc = "write"
      PROVE  /\ Fits(Q, r.prev, r.asset, r.field)
             /\ r.prev = 0 => ~r.same
             /\ r.prev # 0 /\ Q[r.prev].state # "superseded" =>
                  (r.same <=> Same(Q, r.prev, r.value, r.state))
  <2>1. /\ Fits(R, r.prev, r.asset, r.field) /\ (r.prev = 0 => ~r.same)
        /\ r.prev # 0 /\ R[r.prev].state # "superseded" =>
             (r.same <=> Same(R, r.prev, r.value, r.state))
    BY Zenon, <1>1 DEF ReadBy
  <2>2. Fits(Q, r.prev, r.asset, r.field)  BY <2>1 DEF Fits, Grows
  <2>3. r.prev # 0 /\ Q[r.prev].state # "superseded" =>
          /\ R[r.prev].state # "superseded"
          /\ Same(Q, r.prev, r.value, r.state) <=> Same(R, r.prev, r.value, r.state)
    BY <2>1 DEF Fits, Grows, Same
  <2> QED BY Zenon, <2>1, <2>2, <2>3
<1>2. \A i : Silent(R, i) => Silent(Q, i)  BY DEF Silent, Grows
<1> QED BY Zenon, <1>1, <1>2 DEF ReadBy

\* Requests as records.
LEMMA WaitingFields ==
  ASSUME NEW r \in Waiting
  PROVE  /\ r.asset \in Assets /\ r.field \in Fields /\ r.value \in Values
         /\ r.state \in {"accepted", "proposed", "needs_evidence"}
         /\ r.base \in Nat /\ r.prev \in Nat /\ r.pc \in {"check", "decide", "find", "prev", "write"}
         /\ r.kind \in {"classify", "enter", "clear", "open", "unopen"}
         /\ r.category \in Categories \cup {"none"} /\ r.seen \in Nat /\ r.same \in BOOLEAN
BY Zenon DEF Waiting

LEMMA NextRequest ==
  ASSUME NEW r \in Waiting, NEW pc \in {"decide", "find", "prev"}
  PROVE  LET q == [r EXCEPT !.pc = pc] IN
         /\ q \in Waiting /\ q.pc = pc /\ q.kind = r.kind /\ q.asset = r.asset /\ q.field = r.field
         /\ q.category = r.category /\ q.value = r.value /\ q.state = r.state /\ q.base = r.base
BY Zenon DEF Waiting

LEMMA MarkIsNotWaiting ==
  ASSUME NEW r, r \in Waiting \cup Marking \cup {Idle}
  PROVE  r.pc \in {"check", "decide", "find", "prev", "write"} <=> r \in Waiting
<1>1. CASE r \in Waiting  BY <1>1, WaitingFields
<1>2. CASE r \in Marking
  <2>1. r.pc = "mark"  BY <1>2 DEF Marking
  <2> QED BY <2>1, WaitingFields
<1>3. CASE r = Idle
  <2>1. r.pc = "idle"  BY <1>3 DEF Idle
  <2> QED BY <2>1, WaitingFields
<1> QED BY <1>1, <1>2, <1>3
-----------------------------------------------------------------------------
\* The inductive invariant: types, what each request has read and is to write,
\* the word of the user in the rows of each asset nobody raced on, the open
\* task of an unknown date, and the households left to a pass that inserts.
Holding(r) == r.pc \in {"check", "decide", "find", "prev", "write"}
RequestsHold == \A s \in Sessions : Holding(req[s]) => Shape(req[s]) /\ ReadBy(req[s], rows)
Says(R, a, u) == /\ \A f \in Fields : One(Open(R, a, f))
                 /\ \A f \in {"expiry", "opened"} : Stated(R, ActiveRow(R, a, f)) = u[f]
AssetsSay == \A a \in Assets \ raced : Says(rows, a, wish[a])
PassHolds == loop.pc = "insert" => loop.left # {}
TrackerInv == TypeOK /\ ClassRows(rows) /\ RequestsHold /\ AssetsSay /\ UnknownIsAsked /\ PassHolds

\* A step that only moves a request.
LEMMA OnlyStepsInv ==
  ASSUME TrackerInv, NEW s \in Sessions, NEW r \in Waiting \cup Marking \cup {Idle}, OnlySteps(s, r),
         r \in Waiting => Shape(r) /\ ReadBy(r, rows)
  PROVE  TrackerInv'
<1>1. /\ TypeOK /\ ClassRows(rows) /\ RequestsHold /\ AssetsSay /\ UnknownIsAsked /\ PassHolds  BY DEF TrackerInv
<1>2. /\ req' = [req EXCEPT ![s] = r] /\ scope' = scope /\ rows' = rows /\ active' = active
      /\ task' = task /\ orphan' = orphan /\ today' = today /\ loop' = loop /\ reminder' = reminder
      /\ wish' = wish /\ raced' = raced /\ handled' = handled /\ touched' = touched
  BY DEF OnlySteps, Steps, dailyVars, history
<1>3. req \in [Sessions -> Waiting \cup Marking \cup {Idle}]  BY <1>1 DEF TypeOK
<1>4. /\ req'[s] = r /\ (\A t \in Sessions \ {s} : req'[t] = req[t])
      /\ req' \in [Sessions -> Waiting \cup Marking \cup {Idle}]
  BY Zenon, <1>2, <1>3
<1>5. TypeOK'  BY Zenon, <1>1, <1>2, <1>4 DEF TypeOK
<1>6. RequestsHold'
  <2>1. Holding(r) => Shape(r) /\ ReadBy(r, rows)  BY MarkIsNotWaiting DEF Holding
  <2>2. ASSUME NEW t \in Sessions, Holding(req'[t]) PROVE Shape(req'[t]) /\ ReadBy(req'[t], rows')
    <3>1. CASE t = s  BY Zenon, <1>2, <1>4, <2>1, <2>2, <3>1
    <3>2. CASE t # s  BY Zenon, <1>1, <1>2, <1>4, <2>2, <3>2 DEF RequestsHold
    <3> QED BY <3>1, <3>2
  <2> QED BY Zenon, <2>2 DEF RequestsHold
<1>7. AssetsSay' /\ UnknownIsAsked'  BY Zenon, <1>1, <1>2 DEF AssetsSay, UnknownIsAsked
<1>8. PassHolds' /\ ClassRows(rows')  BY Zenon, <1>1, <1>2 DEF PassHolds
<1> QED BY Zenon, <1>5, <1>6, <1>7, <1>8 DEF TrackerInv

LEMMA CommitFacts ==
  ASSUME NEW s \in Sessions, NEW Q, Commits(s, Q), NEW r, r = req[s]
  PROVE  /\ rows' = Q /\ req' = [req EXCEPT ![s] = Idle]
         /\ raced' = raced \/ raced' = raced \cup {r.asset}
         /\ touched' = touched \/ touched' = touched \cup {r.asset}
         /\ r.asset \notin raced' =>
              /\ r.asset \notin raced
              /\ r.prev = ActiveRow(rows, r.asset, r.field) /\ r.base = ActiveRow(rows, r.asset, r.field)
<1>1. /\ rows' = Q /\ req' = [req EXCEPT ![s] = Idle]
      /\ raced' = IF {r.prev, r.base} = {ActiveRow(rows, r.asset, r.field)} THEN raced ELSE raced \cup {r.asset}
      /\ touched' = IF Q = rows THEN touched ELSE touched \cup {r.asset}
  BY DEF Commits, Steps
<1> QED BY <1>1

\* A commit: the other assets keep what they say, and the request's asset says
\* what the step leaves.
LEMMA CommitInv ==
  ASSUME TrackerInv, NEW s \in Sessions, NEW r \in Waiting, r = req[s], NEW Q \in Seq(Row),
         Commits(s, Q), Grows(rows, Q), \A b, g : b # r.asset => SameFor(rows, Q, b, g),
         ClassRows(Q),
         task' \subseteq Assets, \A b \in Assets \ {r.asset} : b \in task => b \in task',
         orphan' \subseteq orphan,
         handled' \subseteq handled, \A b \in handled \ {r.asset} : b \in handled',
         wish' \in [Assets -> [{"expiry", "opened"} -> Dates \cup {"none"}]],
         \A b \in Assets \ {r.asset} : wish'[b] = wish[b],
         UNCHANGED <<scope, active, dailyVars>>,
         r.asset \notin raced' => Says(Q, r.asset, wish'[r.asset]),
         r.asset \notin raced' \cup handled' =>
           (ActiveRow(Q, r.asset, "expiry") # 0 /\ Q[ActiveRow(Q, r.asset, "expiry")].state = "needs_evidence"
              => r.asset \in task')
  PROVE  TrackerInv'
<1>1. /\ TypeOK /\ ClassRows(rows) /\ RequestsHold /\ AssetsSay /\ UnknownIsAsked /\ PassHolds  BY DEF TrackerInv
<1>2. /\ rows' = Q /\ req' = [req EXCEPT ![s] = Idle]
      /\ raced' = raced \/ raced' = raced \cup {r.asset}
      /\ touched' = touched \/ touched' = touched \cup {r.asset}
  BY CommitFacts
<1>3. scope' = scope /\ active' = active /\ today' = today /\ loop' = loop /\ reminder' = reminder
  BY DEF dailyVars
<1>4. r.asset \in Assets  BY WaitingFields
<1>5. req \in [Sessions -> Waiting \cup Marking \cup {Idle}]  BY <1>1 DEF TypeOK
<1>6. /\ req'[s] = Idle /\ (\A t \in Sessions \ {s} : req'[t] = req[t])
      /\ req' \in [Sessions -> Waiting \cup Marking \cup {Idle}]
  BY Zenon, <1>2, <1>5
<1>7. TypeOK'
  <2>1. orphan' \subseteq Origins /\ handled' \subseteq Assets
    <3>1. orphan \subseteq Origins /\ handled \subseteq Assets  BY Zenon, <1>1 DEF TypeOK
    <3> QED BY <3>1
  <2>2. raced' \subseteq Assets /\ touched' \subseteq Assets
    <3>1. raced \subseteq Assets /\ touched \subseteq Assets  BY Zenon, <1>1 DEF TypeOK
    <3> QED BY <1>2, <1>4, <3>1
  <2>3. /\ (scope \in Scopes /\ active \subseteq Assets /\ today \in 0..LastDay /\ loop \in Pass)'
        /\ (reminder \in [Assets -> [0..LastDay -> Reminder]])'
    BY Zenon, <1>1, <1>3 DEF TypeOK
  <2>4. (rows \in Seq(Row))'  BY <1>2
  <2> QED BY Zenon, <1>6, <2>1, <2>2, <2>3, <2>4 DEF TypeOK
<1>8. RequestsHold'
  <2>1. ~Holding(Idle)  BY DEF Holding, Idle
  <2>2. ASSUME NEW t \in Sessions, Holding(req'[t]) PROVE Shape(req'[t]) /\ ReadBy(req'[t], rows')
    <3>1. t # s  BY Zenon, <1>6, <2>1, <2>2
    <3>2. req'[t] = req[t]  BY <1>6, <3>1
    <3>3. Shape(req[t]) /\ ReadBy(req[t], rows)  BY Zenon, <1>1, <2>2, <3>2 DEF RequestsHold
    <3>4. ReadBy(req[t], Q)  BY Zenon, <3>3, ReadByKept
    <3> QED BY Zenon, <1>2, <3>2, <3>3, <3>4
  <2> QED BY Zenon, <2>2 DEF RequestsHold
<1>9. rows \in Seq(Row)  BY <1>1 DEF TypeOK
<1>10. \A b, g : b # r.asset =>
         /\ Open(Q, b, g) = Open(rows, b, g) /\ ActiveRow(Q, b, g) = ActiveRow(rows, b, g)
         /\ Stated(Q, ActiveRow(Q, b, g)) = Stated(rows, ActiveRow(rows, b, g))
         /\ ActiveRow(rows, b, g) # 0 => Q[ActiveRow(Q, b, g)] = rows[ActiveRow(rows, b, g)]
  BY <1>9, StatedKept DEF SameFor
<1>11. AssetsSay'
  <2>1. ASSUME NEW b \in Assets \ raced' PROVE Says(Q, b, wish'[b])
    <3>1. CASE b = r.asset  BY Zenon, <2>1, <3>1
    <3>2. CASE b # r.asset
      <4>1. Says(rows, b, wish[b])  BY <1>1, <1>2, <2>1 DEF AssetsSay
      <4>2. wish'[b] = wish[b]  BY <3>2
      <4>3. \A f \in Fields : One(Open(Q, b, f))  BY <1>10, <3>2, <4>1 DEF Says
      <4>4. \A f \in {"expiry", "opened"} : Stated(Q, ActiveRow(Q, b, f)) = wish'[b][f]
        BY <1>10, <3>2, <4>1, <4>2 DEF Says
      <4> QED BY Zenon, <4>3, <4>4 DEF Says
    <3> QED BY <3>1, <3>2
  <2> QED BY Zenon, <1>2, <2>1 DEF AssetsSay
<1>12. UnknownIsAsked'
  <2>1. ASSUME NEW b \in Assets \ (raced' \cup handled'), ActiveRow(Q, b, "expiry") # 0,
               Q[ActiveRow(Q, b, "expiry")].state = "needs_evidence"
        PROVE  b \in task'
    <3>1. CASE b = r.asset  BY Zenon, <2>1, <3>1
    <3>2. CASE b # r.asset
      <4>1. b \in Assets \ (raced \cup handled)  BY <1>2, <2>1, <3>2
      <4>2. ActiveRow(rows, b, "expiry") # 0 /\ rows[ActiveRow(rows, b, "expiry")].state = "needs_evidence"
        BY <1>10, <2>1, <3>2
      <4>3. b \in task  BY <1>1, <4>1, <4>2 DEF UnknownIsAsked
      <4> QED BY <3>2, <4>3
    <3> QED BY <3>1, <3>2
  <2> QED BY Zenon, <1>2, <2>1 DEF UnknownIsAsked
<1>13. PassHolds' /\ ClassRows(rows')  BY Zenon, <1>1, <1>2, <1>3 DEF PassHolds
<1> QED BY Zenon, <1>7, <1>8, <1>11, <1>12, <1>13 DEF TrackerInv
-----------------------------------------------------------------------------
\* The steps of a request up to its commit.
LEMMA RequestOf ==
  ASSUME TrackerInv, NEW s \in Sessions, NEW r, r = req[s], Holding(r)
  PROVE  r \in Waiting /\ Shape(r) /\ ReadBy(r, rows) /\ rows \in Seq(Row)
<1>1. r \in Waiting \cup Marking \cup {Idle}  BY DEF TrackerInv, TypeOK
<1>2. r \in Waiting  BY <1>1, MarkIsNotWaiting DEF Holding
<1> QED BY Zenon, <1>2 DEF TrackerInv, RequestsHold, TypeOK

LEMMA BeginInv ==
  ASSUME TrackerInv, NEW s \in Sessions, NEW kind \in {"classify", "enter", "clear", "open", "unopen"},
         NEW a \in Assets, NEW value \in Values, Begin(s, kind, a, value),
         kind = "classify" => value \in Categories,
         kind \in {"enter", "open"} => value \in Dates,
         kind \in {"clear", "unopen"} => value = "null"
  PROVE  TrackerInv'
<1>1. rows \in Seq(Row)  BY DEF TrackerInv, TypeOK
<1>2. FieldOf(kind) \in Fields
      /\ (kind = "classify" => FieldOf(kind) = "class")
      /\ (kind \in {"enter", "clear"} => FieldOf(kind) = "expiry")
      /\ (kind \in {"open", "unopen"} => FieldOf(kind) = "opened")
  BY DEF FieldOf, Fields
<1>3. PICK seen \in {0} \cup (IF FieldOf(kind) = "opened" THEN {} ELSE {ActiveRow(rows, a, FieldOf(kind))}) :
       OnlySteps(s, [pc |-> "check", kind |-> kind, asset |-> a, field |-> FieldOf(kind),
                     category |-> IF kind = "classify" THEN value ELSE "none",
                     value |-> value, state |-> "accepted", seen |-> seen,
                     base |-> 0, prev |-> 0, same |-> FALSE])
  BY Zenon DEF Begin
<1>4. seen \in Nat  BY <1>1, <1>3, ActiveIsOpen
<1>5. PICK c : c = IF kind = "classify" THEN value ELSE "none"  OBVIOUS
<1>6. c \in Categories \cup {"none"} /\ (kind = "classify" => c = value)  BY <1>5
<1>7. PICK r : r = [pc |-> "check", kind |-> kind, asset |-> a, field |-> FieldOf(kind),
                    category |-> c, value |-> value, state |-> "accepted", seen |-> seen,
                    base |-> 0, prev |-> 0, same |-> FALSE]
  OBVIOUS
<1>8. r \in Waiting
  <2>1. 0 \in Nat  OBVIOUS
  <2> QED BY Zenon, <1>2, <1>4, <1>6, <1>7, <2>1 DEF Waiting
<1>9. /\ r.pc = "check" /\ r.kind = kind /\ r.field = FieldOf(kind) /\ r.category = c /\ r.value = value
      /\ r.state = "accepted"
  BY <1>7
<1>10. Shape(r)  BY <1>2, <1>6, <1>9 DEF Shape
<1>11. ReadBy(r, rows)  BY <1>2, <1>9 DEF ReadBy
<1>12. OnlySteps(s, r)  BY Zenon, <1>3, <1>5, <1>7
<1> QED BY <1>8, <1>10, <1>11, <1>12, OnlyStepsInv

LEMMA RequestsInv ==
  ASSUME TrackerInv, NEW s \in Sessions, Requests(s)
  PROVE  TrackerInv'
<1>1. scope.assets \subseteq Assets /\ scope.categories \subseteq Categories
  <2>1. scope \in [sessions : Nat, assets : SUBSET Assets, categories : SUBSET Categories,
                   days : 0..LastDay, rows : Nat]
    BY TrackerAssumption DEF TrackerInv, TypeOK
  <2> QED BY <2>1
<1>2. PICK a \in scope.assets :
        \/ \E c \in scope.categories : Begin(s, "classify", a, c)
        \/ \E d \in Dates : Begin(s, "enter", a, d) \/ Begin(s, "open", a, d)
        \/ Begin(s, "clear", a, "null") \/ Begin(s, "unopen", a, "null")
  BY Zenon DEF Requests
<1>3. a \in Assets  BY <1>1
<1>4. Categories \subseteq Values /\ Dates \subseteq Values /\ "null" \in Values  BY DEF Values
<1>5. CASE \E c \in scope.categories : Begin(s, "classify", a, c)
  <2>1. PICK c \in scope.categories : Begin(s, "classify", a, c)  BY <1>5
  <2>2. c \in Categories /\ c \in Values  BY <1>1, <1>4
  <2> QED BY <1>3, <2>1, <2>2, BeginInv
<1>6. CASE \E d \in Dates : Begin(s, "enter", a, d) \/ Begin(s, "open", a, d)
  <2>1. PICK d \in Dates : Begin(s, "enter", a, d) \/ Begin(s, "open", a, d)  BY <1>6
  <2>2. d \in Values  BY <1>4
  <2> QED BY <1>3, <2>1, <2>2, BeginInv
<1>7. CASE Begin(s, "clear", a, "null") \/ Begin(s, "unopen", a, "null")
  BY <1>3, <1>4, <1>7, BeginInv
<1> QED BY Zenon, <1>2, <1>5, <1>6, <1>7

\* A check or a decision passes the request on as it is, or ends it.
LEMMA MovesOn ==
  ASSUME NEW r \in Waiting, NEW R, Shape(r), ReadBy(r, R), r.pc \in {"check", "decide", "find"},
         NEW pc \in {"decide", "find", "prev"}
  PROVE  LET q == [r EXCEPT !.pc = pc] IN q \in Waiting /\ Shape(q) /\ ReadBy(q, R)
<1>1. PICK q : q = [r EXCEPT !.pc = pc]  OBVIOUS
<1>2. /\ q \in Waiting /\ q.pc = pc /\ q.kind = r.kind /\ q.asset = r.asset /\ q.field = r.field
      /\ q.category = r.category /\ q.value = r.value /\ q.state = r.state /\ q.base = r.base
  BY Zenon, <1>1, NextRequest
<1>3. Shape(q)  BY Zenon, <1>2 DEF Shape
<1>4. ReadBy(q, R)
  <2>1. q.pc # "write"  BY <1>2
  <2> QED BY Zenon, <1>2, <2>1 DEF ReadBy
<1> QED BY Zenon, <1>1, <1>2, <1>3, <1>4

LEMMA CheckInv ==
  ASSUME TrackerInv, NEW s \in Sessions, Check(s) \/ Decide(s) \/ FindCleared(s)
  PROVE  TrackerInv'
<1>1. PICK r : r = req[s]  OBVIOUS
<1>2. PICK q : OnlySteps(s, q) /\ r.pc \in {"check", "decide", "find"}
                /\ (q = Idle \/ \E pc \in {"decide", "find", "prev"} : q = [r EXCEPT !.pc = pc])
  <2>1. CASE Check(s)
    <3>1. PICK q : q = IF r.seen # 0 /\ ActiveRow(rows, r.asset, r.field) # r.seen THEN Idle
                       ELSE [r EXCEPT !.pc = IF r.kind = "classify" THEN "prev" ELSE "decide"]
      OBVIOUS
    <3>2. OnlySteps(s, q) /\ r.pc = "check"  BY Zenon, <1>1, <2>1, <3>1 DEF Check
    <3>3. q = Idle \/ \E pc \in {"decide", "find", "prev"} : q = [r EXCEPT !.pc = pc]  BY <3>1
    <3> QED BY <3>2, <3>3
  <2>2. CASE Decide(s)
    <3>1. PICK pc : pc = IF Clears(r) THEN "find" ELSE "prev"  OBVIOUS
    <3>2. PICK q : q = IF Refused(r) THEN Idle ELSE [r EXCEPT !.pc = pc]  OBVIOUS
    <3>3. OnlySteps(s, q) /\ r.pc = "decide"  BY Zenon, <1>1, <2>2, <3>1, <3>2 DEF Decide
    <3>4. pc \in {"decide", "find", "prev"}  BY Zenon, <3>1
    <3>5. q = Idle \/ \E p \in {"decide", "find", "prev"} : q = [r EXCEPT !.pc = p]  BY Zenon, <3>2, <3>4
    <3> QED BY <3>3, <3>5
  <2>3. CASE FindCleared(s)
    <3>1. PICK q : q = IF ActiveRow(rows, r.asset, r.field) = 0 THEN Idle ELSE [r EXCEPT !.pc = "prev"]  OBVIOUS
    <3>2. OnlySteps(s, q) /\ r.pc = "find"  BY Zenon, <1>1, <2>3, <3>1 DEF FindCleared
    <3>3. q = Idle \/ \E pc \in {"decide", "find", "prev"} : q = [r EXCEPT !.pc = pc]  BY Zenon, <3>1
    <3> QED BY <3>2, <3>3
  <2> QED BY <2>1, <2>2, <2>3
<1>3. CASE q = Idle
  <2>1. q \notin Waiting
    <3>1. q.pc = "idle"  BY <1>3 DEF Idle
    <3> QED BY <3>1, WaitingFields
  <2> QED BY <1>2, <1>3, <2>1, OnlyStepsInv
<1>4. CASE \E pc \in {"decide", "find", "prev"} : q = [r EXCEPT !.pc = pc]
  <2>1. Holding(r)  BY <1>2 DEF Holding
  <2>2. r \in Waiting /\ Shape(r) /\ ReadBy(r, rows)  BY <1>1, <2>1, RequestOf
  <2>3. PICK pc \in {"decide", "find", "prev"} : q = [r EXCEPT !.pc = pc]  BY Zenon, <1>4
  <2>4. LET p == [r EXCEPT !.pc = pc] IN p \in Waiting /\ Shape(p) /\ ReadBy(p, rows)
    BY Zenon, <1>2, <2>2, MovesOn
  <2>5. q \in Waiting /\ Shape(q) /\ ReadBy(q, rows)  BY Zenon, <2>3, <2>4
  <2> QED BY <1>2, <2>5, OnlyStepsInv
<1> QED BY <1>2, <1>3, <1>4

LEMMA ReadPreviousInv ==
  ASSUME TrackerInv, NEW s \in Sessions, ReadPrevious(s)
  PROVE  TrackerInv'
<1>1. PICK r : r = req[s]  OBVIOUS
<1>2. PICK i : i = ActiveRow(rows, r.asset, r.field)  OBVIOUS
<1>3. PICK j : j = IF r.kind = "classify" /\ r.field = "expiry" THEN r.base ELSE i  OBVIOUS
<1>4. PICK b : b = Same(rows, i, r.value, r.state)  OBVIOUS
<1>5. PICK q : q = [r EXCEPT !.pc = "write", !.prev = i, !.same = b, !.base = j]  OBVIOUS
<1>6. r.pc = "prev" /\ OnlySteps(s, q)
  BY Zenon, <1>1, <1>2, <1>3, <1>4, <1>5 DEF ReadPrevious
<1>7. Holding(r)  BY <1>6 DEF Holding
<1>8. r \in Waiting /\ Shape(r) /\ ReadBy(r, rows) /\ rows \in Seq(Row)  BY <1>1, <1>7, RequestOf
<1>9. i \in Nat /\ j \in Nat /\ b \in BOOLEAN
  <2>1. i \in Nat  BY <1>2, <1>8, ActiveIsOpen
  <2>2. j \in Nat  BY <1>3, <1>8, <2>1, WaitingFields
  <2>3. b \in BOOLEAN  BY Zenon, <1>4 DEF Same
  <2> QED BY <2>1, <2>2, <2>3
<1>10. /\ q \in Waiting /\ q.pc = "write" /\ q.kind = r.kind /\ q.asset = r.asset /\ q.field = r.field
       /\ q.category = r.category /\ q.value = r.value /\ q.state = r.state /\ q.base = j
       /\ q.prev = i /\ (q.same <=> b)
  <2>1. r \in Waiting /\ i \in Nat /\ j \in Nat /\ b \in BOOLEAN  BY Zenon, <1>8, <1>9
  <2> QED BY Zenon, <1>5, <2>1 DEF Waiting
<1>11. Shape(q)  BY Zenon, <1>8, <1>10 DEF Shape
<1>12. ReadBy(q, rows)
  <2>1. Fits(rows, i, r.asset, r.field)  BY <1>2, <1>8, ActiveIsOpen DEF Fits, Open
  <2>2. q.same <=> Same(rows, i, r.value, r.state)  BY Zenon, <1>4, <1>10
  <2>3. i = 0 => ~Same(rows, i, r.value, r.state)  BY Zenon DEF Same
  <2>4. r.kind = "classify" /\ r.field = "expiry" /\ HasExpiry(r.category) => Silent(rows, j)
    BY Zenon, <1>3, <1>8 DEF ReadBy
  <2> QED BY Zenon, <1>10, <2>1, <2>2, <2>3, <2>4 DEF ReadBy
<1> QED BY <1>6, <1>10, <1>11, <1>12, OnlyStepsInv

\* What a classification wants of the expiry field.
LEMMA WantsWhat ==
  ASSUME NEW R \in Seq(Row), NEW a \in Assets, NEW c \in Categories,
         NEW i, i = ActiveRow(R, a, "expiry"), NEW w, w = Wants(R, a, c, i)
  PROVE  \/ w = Keep /\ w.value # "unknown" /\ (~HasExpiry(c) => i = 0)
         \/ /\ w # Keep /\ w.value \in Values /\ w.state \in {"accepted", "proposed", "needs_evidence"}
            /\ Wished(c, w.value, w.state) /\ (HasExpiry(c) => Silent(R, i))
<1>0. "none" \notin Dates /\ "unknown" \notin Dates /\ "keep" \notin Dates /\ Observed[a] \in Dates \cup {"none"}
  BY TrackerAssumption
<1>1. CASE ~HasExpiry(c) /\ i = 0
  <2>1. w = Keep  BY Zenon, <1>1 DEF Wants
  <2> QED BY <1>1, <2>1 DEF Keep
<1>2. CASE ~HasExpiry(c) /\ i # 0
  <2>1. w = [value |-> "null", state |-> "accepted"]  BY Zenon, <1>2 DEF Wants
  <2>2. w.value = "null" /\ w.state = "accepted" /\ Keep.value = "keep"  BY <2>1 DEF Keep
  <2> QED BY <1>2, <2>2 DEF Wished, Values
<1>3. CASE HasExpiry(c) /\ Stated(R, i) # "none"
  <2>1. w = Keep  BY Zenon, <1>3 DEF Wants
  <2> QED BY <1>3, <2>1 DEF Keep
<1>4. CASE HasExpiry(c) /\ Stated(R, i) = "none"
  <2>1. Silent(R, i)
    <3>1. i # 0 => i \in DOMAIN R  BY ActiveIsOpen DEF Open
    <3> QED BY <1>0, <1>4, <3>1 DEF Silent, Stated
  <2>2. \/ w = [value |-> Observed[a], state |-> "proposed"] /\ Observed[a] # "none"
        \/ w = [value |-> "unknown", state |-> "needs_evidence"]
    BY Zenon, <1>4 DEF Wants
  <2>3. CASE w = [value |-> Observed[a], state |-> "proposed"] /\ Observed[a] # "none"
    <3>1. w.value \in Dates /\ w.state = "proposed" /\ Keep.state = "none"  BY <1>0, <2>3 DEF Keep
    <3>2. w # Keep /\ w.value \in Values /\ w.state \in {"accepted", "proposed", "needs_evidence"}
      BY <3>1 DEF Values
    <3>3. Wished(c, w.value, w.state)  BY Zenon, <1>4, <3>1 DEF Wished
    <3> QED BY Zenon, <2>1, <3>2, <3>3
  <2>4. CASE w = [value |-> "unknown", state |-> "needs_evidence"]
    <3>1. w.value = "unknown" /\ w.state = "needs_evidence" /\ Keep.state = "none"  BY <2>4 DEF Keep
    <3>2. w # Keep /\ w.value \in Values /\ w.state \in {"accepted", "proposed", "needs_evidence"}
      BY <3>1 DEF Values
    <3>3. Wished(c, w.value, w.state)  BY Zenon, <1>4, <3>1 DEF Wished
    <3> QED BY Zenon, <2>1, <3>2, <3>3
  <2> QED BY <2>2, <2>3, <2>4
<1> QED BY <1>1, <1>2, <1>3, <1>4

LEMMA ClassShape ==
  ASSUME NEW r \in Waiting, Shape(r), r.field = "class"
  PROVE  r.kind = "classify" /\ r.category \in Categories /\ r.state = "accepted" /\ r.value = r.category
<1>1. r.kind \in {"classify", "enter", "clear", "open", "unopen"}  BY WaitingFields
<1>2. r.kind = "classify"  BY <1>1 DEF Shape
<1> QED BY <1>2 DEF Shape

LEMMA SameClassInv ==
  ASSUME TrackerInv, NEW s \in Sessions, SameClass(s)
  PROVE  TrackerInv'
<1>1. PICK r : r = req[s]  OBVIOUS
<1>2. PICK i : i = ActiveRow(rows, r.asset, "expiry")  OBVIOUS
<1>3. PICK w : w = Wants(rows, r.asset, r.category, i)  OBVIOUS
<1>4. r.pc = "write" /\ r.field = "class" /\ r.same  BY Zenon, <1>1 DEF SameClass
<1>5. Holding(r)  BY <1>4 DEF Holding
<1>6. r \in Waiting /\ Shape(r) /\ ReadBy(r, rows) /\ rows \in Seq(Row)  BY <1>1, <1>5, RequestOf
<1>7. r.kind = "classify" /\ r.category \in Categories /\ r.asset \in Assets
  BY <1>4, <1>6, ClassShape, WaitingFields
<1>8. \/ w = Keep /\ w.value # "unknown" /\ (~HasExpiry(r.category) => i = 0)
      \/ /\ w # Keep /\ w.value \in Values /\ w.state \in {"accepted", "proposed", "needs_evidence"}
         /\ Wished(r.category, w.value, w.state) /\ (HasExpiry(r.category) => Silent(rows, i))
  BY Zenon, <1>2, <1>3, <1>6, <1>7, WantsWhat
<1>9. CASE w = Keep
  <2>1. Steps(s, Idle) /\ Ask(r.asset, r.category, w) /\ UNCHANGED <<scope, rows, active, dailyVars, history>>
    BY Zenon, <1>1, <1>2, <1>3, <1>9 DEF SameClass
  <2>2. /\ req' = [req EXCEPT ![s] = Idle] /\ scope' = scope /\ rows' = rows /\ active' = active
        /\ today' = today /\ loop' = loop /\ reminder' = reminder
        /\ wish' = wish /\ raced' = raced /\ handled' = handled /\ touched' = touched
    BY <2>1 DEF Steps, dailyVars, history
  <2>3. /\ TypeOK /\ ClassRows(rows) /\ RequestsHold /\ AssetsSay /\ UnknownIsAsked /\ PassHolds  BY DEF TrackerInv
  <2>4. req \in [Sessions -> Waiting \cup Marking \cup {Idle}] /\ task \subseteq Assets /\ orphan \subseteq Origins
    BY <2>3 DEF TypeOK
  <2>5. /\ req'[s] = Idle /\ (\A t \in Sessions \ {s} : req'[t] = req[t])
        /\ req' \in [Sessions -> Waiting \cup Marking \cup {Idle}]
    BY Zenon, <2>2, <2>4
  <2>6. task' \subseteq Assets /\ orphan' \subseteq Origins
        /\ (\A b \in task : b # r.asset \/ HasExpiry(r.category) => b \in task')
    BY <1>7, <2>1, <2>4 DEF Ask
  <2>7. TypeOK'  BY Zenon, <2>2, <2>3, <2>5, <2>6 DEF TypeOK
  <2>8. RequestsHold'
    <3>1. ~Holding(Idle)  BY DEF Holding, Idle
    <3>2. ASSUME NEW t \in Sessions, Holding(req'[t]) PROVE Shape(req'[t]) /\ ReadBy(req'[t], rows')
      <4>1. t # s  BY Zenon, <2>5, <3>1, <3>2
      <4> QED BY Zenon, <2>2, <2>3, <2>5, <3>2, <4>1 DEF RequestsHold
    <3> QED BY Zenon, <3>2 DEF RequestsHold
  <2>9. UnknownIsAsked'
    <3>1. ASSUME NEW b \in Assets \ (raced \cup handled), ActiveRow(rows, b, "expiry") # 0,
                 rows[ActiveRow(rows, b, "expiry")].state = "needs_evidence"
          PROVE  b \in task'
      <4>1. b \in task  BY Zenon, <2>3, <3>1 DEF UnknownIsAsked
      <4>2. b # r.asset \/ HasExpiry(r.category)  BY <1>2, <1>8, <1>9, <3>1
      <4> QED BY <2>6, <4>1, <4>2
    <3> QED BY Zenon, <2>2, <3>1 DEF UnknownIsAsked
  <2>10. AssetsSay'  BY Zenon, <2>2, <2>3 DEF AssetsSay
  <2>11. PassHolds' /\ ClassRows(rows')  BY Zenon, <2>2, <2>3 DEF PassHolds
  <2> QED BY Zenon, <2>7, <2>8, <2>9, <2>10, <2>11 DEF TrackerInv
<1>10. CASE w # Keep
  <2>1. PICK v : v = w.value  OBVIOUS
  <2>2. PICK st : st = w.state  OBVIOUS
  <2>3. PICK q : q = [r EXCEPT !.pc = "prev", !.field = "expiry", !.base = i, !.value = v, !.state = st]
    OBVIOUS
  <2>4. OnlySteps(s, q)
    <3>1. Steps(s, q) /\ UNCHANGED <<task, orphan>> /\ UNCHANGED <<scope, rows, active, dailyVars, history>>
      BY Zenon, <1>1, <1>2, <1>3, <1>10, <2>1, <2>2, <2>3 DEF SameClass
    <3> QED BY <3>1 DEF OnlySteps
  <2>5. v \in Values /\ st \in {"accepted", "proposed", "needs_evidence"}
        /\ Wished(r.category, v, st) /\ (HasExpiry(r.category) => Silent(rows, i))
    BY Zenon, <1>8, <1>10, <2>1, <2>2
  <2>6. i \in Nat /\ "expiry" \in Fields  BY <1>2, <1>6, ActiveIsOpen DEF Fields
  <2>7. /\ q \in Waiting /\ q.pc = "prev" /\ q.kind = r.kind /\ q.asset = r.asset /\ q.field = "expiry"
        /\ q.category = r.category /\ q.value = v /\ q.state = st /\ q.base = i
    <3>1. r \in Waiting  BY Zenon, <1>6
    <3> QED BY Zenon, <2>3, <2>5, <2>6, <3>1 DEF Waiting
  <2>8. Shape(q)  BY <1>7, <2>5, <2>7 DEF Shape
  <2>9. ReadBy(q, rows)  BY <2>5, <2>7 DEF ReadBy
  <2> QED BY <2>4, <2>7, <2>8, <2>9, OnlyStepsInv
<1> QED BY <1>9, <1>10
-----------------------------------------------------------------------------
\* The commits.  What a request's write of its own field, on the row it read,
\* leaves: nothing but the field, and there its value when that row is newest.
Written(R, r, Q) ==
  /\ Q \in Seq(Row) /\ Grows(R, Q)
  /\ ClassRows(R) /\ (r.field = "class" => r.value \in Categories) => ClassRows(Q)
  /\ \A b, g : b # r.asset \/ g # r.field => SameFor(R, Q, b, g)
  /\ One(Open(R, r.asset, r.field)) /\ r.prev = ActiveRow(R, r.asset, r.field) =>
       /\ One(Open(Q, r.asset, r.field)) /\ ActiveRow(Q, r.asset, r.field) # 0
       /\ Q[ActiveRow(Q, r.asset, r.field)].value = r.value
       /\ Q[ActiveRow(Q, r.asset, r.field)].state = r.state

LEMMA FieldWrite ==
  ASSUME NEW R \in Seq(Row), NEW r \in Waiting, ReadBy(r, R), r.pc = "write",
         NEW Q, Q = Write(R, r.prev, r.same, r.asset, r.field, r.value, r.state)
  PROVE  Written(R, r, Q)
<1>1. /\ r.asset \in Assets /\ r.field \in Fields /\ r.value \in Values /\ r.prev \in Nat
      /\ r.state \in {"accepted", "proposed", "needs_evidence"}
  BY WaitingFields
<1>2. /\ Fits(R, r.prev, r.asset, r.field) /\ (r.prev = 0 => ~r.same)
      /\ r.prev # 0 /\ R[r.prev].state # "superseded" =>
           (r.same <=> Same(R, r.prev, r.value, r.state))
  BY Zenon DEF ReadBy
<1>3. /\ Q \in Seq(Row) /\ Grows(R, Q)
      /\ \A b, g : b # r.asset \/ g # r.field => SameFor(R, Q, b, g)
  BY <1>1, <1>2, WriteGrows
<1>4. ASSUME One(Open(R, r.asset, r.field)), r.prev = ActiveRow(R, r.asset, r.field)
      PROVE  /\ One(Open(Q, r.asset, r.field)) /\ ActiveRow(Q, r.asset, r.field) # 0
             /\ Q[ActiveRow(Q, r.asset, r.field)].value = r.value
             /\ Q[ActiveRow(Q, r.asset, r.field)].state = r.state
  <2>1. r.prev # 0 => R[r.prev].state # "superseded"  BY <1>4, ActiveIsOpen DEF Open
  <2>2. r.prev = 0 => ~Same(R, r.prev, r.value, r.state)  BY Zenon DEF Same
  <2>3. r.same <=> Same(R, r.prev, r.value, r.state)  BY Zenon, <1>2, <2>1, <2>2
  <2> QED BY <1>1, <1>4, <2>3, WriteHolds
<1>5. ClassRows(R) /\ (r.field = "class" => r.value \in Categories) => ClassRows(Q)
  BY <1>1, <1>2, ClassRowsKept
<1> QED BY Zenon, <1>3, <1>4, <1>5 DEF Written

\* What an asset says after a write to one of its fields.
LEMMA SaysAfter ==
  ASSUME NEW R \in Seq(Row), NEW Q, NEW a, NEW f \in Fields, NEW u, NEW v, Says(R, a, u),
         \A g : g # f => SameFor(R, Q, a, g),
         One(Open(Q, a, f)),
         f # "class" => Stated(Q, ActiveRow(Q, a, f)) = v[f],
         \A g \in {"expiry", "opened"} \ {f} : v[g] = u[g]
  PROVE  Says(Q, a, v)
<1>1. \A g \in Fields : One(Open(Q, a, g))
  <2>1. ASSUME NEW g \in Fields, g # f PROVE One(Open(Q, a, g))
    <3>1. Open(Q, a, g) = Open(R, a, g)  BY <2>1 DEF SameFor
    <3>2. One(Open(R, a, g))  BY DEF Says
    <3> QED BY <3>1, <3>2
  <2> QED BY <2>1
<1>2. \A g \in {"expiry", "opened"} : Stated(Q, ActiveRow(Q, a, g)) = v[g]
  <2>1. ASSUME NEW g \in {"expiry", "opened"}, g # f PROVE Stated(Q, ActiveRow(Q, a, g)) = v[g]
    <3>1. Stated(Q, ActiveRow(Q, a, g)) = Stated(R, ActiveRow(R, a, g))
      <4>1. SameFor(R, Q, a, g)  BY <2>1
      <4> QED BY <4>1, StatedKept
    <3>2. Stated(R, ActiveRow(R, a, g)) = u[g]  BY DEF Says
    <3> QED BY <2>1, <3>1, <3>2
  <2> QED BY <2>1
<1> QED BY Zenon, <1>1, <1>2 DEF Says

\* A write of the expiry field after a classification: the date stays unsaid
\* where a category has expiry, and ends where it has none.
LEMMA ClassifiedSays ==
  ASSUME NEW R \in Seq(Row), NEW a \in Assets, NEW c, NEW i, i = ActiveRow(R, a, "expiry"),
         NEW v \in Values, NEW st \in {"accepted", "proposed", "needs_evidence"},
         NEW same, same <=> Same(R, i, v, st), NEW Q, Q = Write(R, i, same, a, "expiry", v, st),
         NEW u, Says(R, a, u), NEW w, w["opened"] = u["opened"],
         w["expiry"] = IF HasExpiry(c) THEN u["expiry"] ELSE "none",
         Wished(c, v, st), HasExpiry(c) => Silent(R, i)
  PROVE  /\ Says(Q, a, w)
         /\ Q[ActiveRow(Q, a, "expiry")].state = "needs_evidence" => HasExpiry(c) /\ v = "unknown"
<1>0. "expiry" \in Fields /\ "opened" \in Fields  BY DEF Fields
<1>1. One(Open(R, a, "expiry"))  BY <1>0 DEF Says
<1>2. Fits(R, i, a, "expiry") /\ i \in Nat  BY ActiveIsOpen DEF Fits, Open
<1>3. Q \in Seq(Row) /\ (\A g : g # "expiry" => SameFor(R, Q, a, g))
  BY <1>0, <1>2, WriteGrows
<1>4. /\ One(Open(Q, a, "expiry")) /\ ActiveRow(Q, a, "expiry") # 0
      /\ Q[ActiveRow(Q, a, "expiry")].value = v /\ Q[ActiveRow(Q, a, "expiry")].state = st
  BY <1>0, <1>1, <1>2, WriteHolds
<1>5. ~(st = "accepted" /\ v \in Dates)
  <2>1. "null" \notin Dates  BY TrackerAssumption
  <2> QED BY <2>1 DEF Wished
<1>6. Stated(Q, ActiveRow(Q, a, "expiry")) = "none"  BY <1>4, <1>5 DEF Stated
<1>7. HasExpiry(c) => u["expiry"] = "none"
  <2>1. ASSUME HasExpiry(c) PROVE Stated(R, i) = "none"
    <3>1. i # 0 => R[i].state # "superseded"  BY ActiveIsOpen DEF Open
    <3> QED BY <2>1, <3>1 DEF Silent, Stated
  <2>2. Stated(R, i) = u["expiry"]  BY DEF Says
  <2> QED BY <2>1, <2>2
<1>8. w["expiry"] = "none"  BY Zenon, <1>7
<1>9. \A g \in {"expiry", "opened"} \ {"expiry"} : w[g] = u[g]  OBVIOUS
<1>10. Stated(Q, ActiveRow(Q, a, "expiry")) = w["expiry"]  BY <1>6, <1>8
<1>11. Says(Q, a, w)  BY Zenon, <1>0, <1>3, <1>4, <1>9, <1>10, SaysAfter
<1>12. Q[ActiveRow(Q, a, "expiry")].state = "needs_evidence" => HasExpiry(c) /\ v = "unknown"
  BY Zenon, <1>4 DEF Wished
<1> QED BY Zenon, <1>11, <1>12

\* What a commit may rely on when its asset has not been raced on.
LEMMA Unraced ==
  ASSUME TrackerInv, NEW s \in Sessions, NEW r \in Waiting, r = req[s], NEW Q, Commits(s, Q),
         r.asset \notin raced'
  PROVE  /\ r.asset \notin raced /\ Says(rows, r.asset, wish[r.asset])
         /\ One(Open(rows, r.asset, r.field))
         /\ r.prev = ActiveRow(rows, r.asset, r.field) /\ r.base = ActiveRow(rows, r.asset, r.field)
<1>1. /\ r.asset \notin raced
      /\ r.prev = ActiveRow(rows, r.asset, r.field) /\ r.base = ActiveRow(rows, r.asset, r.field)
  BY CommitFacts
<1>2. r.asset \in Assets /\ r.field \in Fields  BY WaitingFields
<1>3. Says(rows, r.asset, wish[r.asset])  BY <1>1, <1>2 DEF TrackerInv, AssetsSay
<1>4. One(Open(rows, r.asset, r.field))  BY <1>2, <1>3 DEF Says
<1> QED BY <1>1, <1>3, <1>4

\* The user's word on a date or an opened date.
LEMMA WordInv ==
  ASSUME TrackerInv, NEW s \in Sessions, WriteExpiry(s) \/ WriteOpened(s)
  PROVE  TrackerInv'
<1>1. PICK r : r = req[s]  OBVIOUS
<1>2. r.pc = "write"  BY Zenon, <1>1 DEF WriteExpiry, WriteOpened
<1>3. Holding(r)  BY <1>2 DEF Holding
<1>4. r \in Waiting /\ Shape(r) /\ ReadBy(r, rows) /\ rows \in Seq(Row)  BY <1>1, <1>3, RequestOf
<1>5. r.asset \in Assets  BY <1>4, WaitingFields
<1>6. PICK Q : Q = Write(rows, r.prev, r.same, r.asset, r.field, r.value, r.state)  OBVIOUS
<1>7. PICK d \in Dates \cup {"none"} :
        /\ d = IF r.value \in Dates THEN r.value ELSE "none"
        /\ r.field \in {"expiry", "opened"} /\ r.state = "accepted" /\ Commits(s, Q)
        /\ wish' = [wish EXCEPT ![r.asset][r.field] = d]
        /\ task' = task \/ (r.field = "expiry" /\ task' = task \ {r.asset})
        /\ orphan' \subseteq orphan /\ UNCHANGED <<scope, active, dailyVars, handled>>
  <2>1. "null" \notin Dates  BY TrackerAssumption
  <2>2. CASE WriteExpiry(s)
    <3>1. PICK d : d = IF r.kind = "enter" THEN r.value ELSE "none"  OBVIOUS
    <3>2. PICK P : P = Write(rows, r.prev, r.same, r.asset, "expiry", r.value, "accepted")  OBVIOUS
    <3>3. /\ r.kind \in {"enter", "clear"} /\ Commits(s, P) /\ task' = task \ {r.asset}
          /\ orphan' = IF r.kind = "clear" THEN orphan ELSE orphan \ OriginsOf(r.asset)
          /\ wish' = [wish EXCEPT ![r.asset]["expiry"] = d]
          /\ UNCHANGED <<scope, active, dailyVars, handled>>
      BY Zenon, <1>1, <2>2, <3>1, <3>2 DEF WriteExpiry
    <3>4. r.field = "expiry" /\ r.state = "accepted" /\ (r.kind = "enter" => r.value \in Dates)
          /\ (r.kind = "clear" => r.value = "null")
      BY <1>4, <3>3 DEF Shape
    <3>5. d \in Dates \cup {"none"} /\ d = IF r.value \in Dates THEN r.value ELSE "none"
      BY <2>1, <3>1, <3>3, <3>4
    <3>6. orphan' \subseteq orphan  BY <3>3
    <3>7. P = Q /\ wish' = [wish EXCEPT ![r.asset][r.field] = d]  BY Zenon, <1>6, <3>2, <3>3, <3>4
    <3> QED BY Zenon, <3>3, <3>4, <3>5, <3>6, <3>7
  <2>3. CASE WriteOpened(s)
    <3>1. PICK d : d = IF r.kind = "open" THEN r.value ELSE "none"  OBVIOUS
    <3>2. PICK P : P = Write(rows, r.prev, r.same, r.asset, "opened", r.value, "accepted")  OBVIOUS
    <3>3. /\ r.kind \in {"open", "unopen"} /\ Commits(s, P)
          /\ wish' = [wish EXCEPT ![r.asset]["opened"] = d]
          /\ UNCHANGED <<scope, active, task, orphan, dailyVars, handled>>
      BY Zenon, <1>1, <2>3, <3>1, <3>2 DEF WriteOpened
    <3>4. r.field = "opened" /\ r.state = "accepted" /\ (r.kind = "open" => r.value \in Dates)
          /\ (r.kind = "unopen" => r.value = "null")
      BY <1>4, <3>3 DEF Shape
    <3>5. d \in Dates \cup {"none"} /\ d = IF r.value \in Dates THEN r.value ELSE "none"
      BY <2>1, <3>1, <3>3, <3>4
    <3>6. orphan' \subseteq orphan /\ task' = task /\ UNCHANGED <<scope, active, dailyVars, handled>>  BY <3>3
    <3>7. P = Q /\ wish' = [wish EXCEPT ![r.asset][r.field] = d]  BY Zenon, <1>6, <3>2, <3>3, <3>4
    <3> QED BY Zenon, <3>3, <3>4, <3>5, <3>6, <3>7
  <2> QED BY <2>2, <2>3
<1>8. Written(rows, r, Q)  BY Zenon, <1>2, <1>4, <1>6, FieldWrite
<1>9. PICK w : w = wish'  OBVIOUS
<1>10. /\ w \in [Assets -> [{"expiry", "opened"} -> Dates \cup {"none"}]]
       /\ \A b \in Assets \ {r.asset} : w[b] = wish[b]
       /\ w[r.asset][r.field] = d
       /\ \A g \in {"expiry", "opened"} \ {r.field} : w[r.asset][g] = wish[r.asset][g]
  <2>1. PICK a : a = r.asset  OBVIOUS
  <2>2. PICK f : f = r.field  OBVIOUS
  <2>3. w = [wish EXCEPT ![a][f] = d] /\ a \in Assets /\ f \in {"expiry", "opened"}
    BY Zenon, <1>5, <1>7, <1>9, <2>1, <2>2
  <2>4. wish \in [Assets -> [{"expiry", "opened"} -> Dates \cup {"none"}]]  BY DEF TrackerInv, TypeOK
  <2> QED BY <2>1, <2>2, <2>3, <2>4
<1>11. r.field \in Fields /\ r.field # "class"  BY <1>7 DEF Fields
<1>12. ASSUME r.asset \notin raced'
       PROVE  /\ Says(Q, r.asset, w[r.asset])
              /\ r.field = "expiry" => Q[ActiveRow(Q, r.asset, "expiry")].state = "accepted"
  <2>1. /\ Says(rows, r.asset, wish[r.asset]) /\ One(Open(rows, r.asset, r.field))
        /\ r.prev = ActiveRow(rows, r.asset, r.field)
    BY <1>1, <1>4, <1>7, <1>12, Unraced
  <2>2. /\ One(Open(Q, r.asset, r.field)) /\ ActiveRow(Q, r.asset, r.field) # 0
        /\ Q[ActiveRow(Q, r.asset, r.field)].value = r.value
        /\ Q[ActiveRow(Q, r.asset, r.field)].state = "accepted"
    BY <1>7, <1>8, <2>1 DEF Written
  <2>3. Stated(Q, ActiveRow(Q, r.asset, r.field)) = w[r.asset][r.field]
    <3>1. Stated(Q, ActiveRow(Q, r.asset, r.field)) = d  BY <1>7, <2>2 DEF Stated
    <3> QED BY <1>10, <3>1
  <2>4. \A g : g # r.field => SameFor(rows, Q, r.asset, g)  BY <1>8 DEF Written
  <2>5. Says(Q, r.asset, w[r.asset])
    <3>1. rows \in Seq(Row)  BY DEF TrackerInv, TypeOK
    <3>2. \A g \in {"expiry", "opened"} \ {r.field} : w[r.asset][g] = wish[r.asset][g]  BY <1>10
    <3>3. One(Open(Q, r.asset, r.field))  BY <2>2
    <3>4. Says(rows, r.asset, wish[r.asset])  BY <2>1
    <3>5. r.field # "class" => Stated(Q, ActiveRow(Q, r.asset, r.field)) = w[r.asset][r.field]  BY <2>3
    <3>6. r.field \in Fields  BY <1>11
    <3> QED BY Zenon, <2>4, <3>1, <3>2, <3>3, <3>4, <3>5, <3>6, SaysAfter
  <2> QED BY <2>2, <2>5
<1>13. ASSUME r.asset \notin raced' \cup handled', ActiveRow(Q, r.asset, "expiry") # 0,
              Q[ActiveRow(Q, r.asset, "expiry")].state = "needs_evidence"
       PROVE  r.asset \in task'
  <2>1. r.field = "opened"  BY <1>7, <1>12, <1>13
  <2>2. SameFor(rows, Q, r.asset, "expiry")  BY <1>8, <2>1 DEF Written
  <2>3. /\ ActiveRow(Q, r.asset, "expiry") = ActiveRow(rows, r.asset, "expiry")
        /\ ActiveRow(rows, r.asset, "expiry") # 0 =>
             Q[ActiveRow(Q, r.asset, "expiry")] = rows[ActiveRow(rows, r.asset, "expiry")]
    BY <1>4, <2>2, StatedKept DEF SameFor
  <2>4. r.asset \notin raced \cup handled
    <3>1. r.asset \notin raced  BY <1>1, <1>4, <1>7, <1>13, Unraced
    <3>2. handled' = handled  BY <1>7
    <3> QED BY <1>13, <3>1, <3>2
  <2>5. ActiveRow(rows, r.asset, "expiry") # 0
        /\ rows[ActiveRow(rows, r.asset, "expiry")].state = "needs_evidence"
    BY <1>13, <2>3
  <2>6. r.asset \in task  BY <1>5, <2>4, <2>5 DEF TrackerInv, UnknownIsAsked
  <2> QED BY <1>7, <2>1, <2>6
<1>14. task' \subseteq Assets /\ (\A b \in Assets \ {r.asset} : b \in task => b \in task')
  <2>1. task \subseteq Assets  BY DEF TrackerInv, TypeOK
  <2> QED BY <1>7, <2>1
<1>15. Q \in Seq(Row) /\ Grows(rows, Q) /\ (\A b, g : b # r.asset => SameFor(rows, Q, b, g))
       /\ ClassRows(Q)
  BY Zenon, <1>8, <1>11 DEF Written, TrackerInv
<1>16. handled' \subseteq handled /\ (\A b \in handled \ {r.asset} : b \in handled')  BY <1>7
<1>17. UNCHANGED <<scope, active, dailyVars>>  BY <1>7
<1>18. r.asset \notin raced' => Says(Q, r.asset, wish'[r.asset])  BY Zenon, <1>9, <1>12
<1>19. /\ wish' \in [Assets -> [{"expiry", "opened"} -> Dates \cup {"none"}]]
       /\ \A b \in Assets \ {r.asset} : wish'[b] = wish[b]
  BY Zenon, <1>9, <1>10
<1> QED BY <1>1, <1>4, <1>7, <1>13, <1>14, <1>15, <1>16, <1>17, <1>18, <1>19, CommitInv

\* A classification ends the wish for a date where the category has none.
LEMMA ReclassifiedWish ==
  ASSUME TrackerInv, NEW a \in Assets, NEW c, NEW w, w = Reclassified(a, c)
  PROVE  /\ w \in [Assets -> [{"expiry", "opened"} -> Dates \cup {"none"}]]
         /\ \A b \in Assets \ {a} : w[b] = wish[b]
         /\ w[a]["opened"] = wish[a]["opened"]
         /\ w[a]["expiry"] = IF HasExpiry(c) THEN wish[a]["expiry"] ELSE "none"
<1>1. wish \in [Assets -> [{"expiry", "opened"} -> Dates \cup {"none"}]]  BY DEF TrackerInv, TypeOK
<1>2. CASE HasExpiry(c)
  <2>1. w = wish  BY Zenon, <1>2 DEF Reclassified
  <2> QED BY <1>1, <1>2, <2>1
<1>3. CASE ~HasExpiry(c)
  <2>1. w = [wish EXCEPT ![a]["expiry"] = "none"]  BY Zenon, <1>3 DEF Reclassified
  <2>2. "none" \in Dates \cup {"none"}  OBVIOUS
  <2> QED BY <1>1, <1>3, <2>1, <2>2
<1> QED BY <1>2, <1>3

\* What the commit of a classification leaves keeps the invariant when the asset
\* still says what was wished and asks for what is unknown.
LEMMA ClassifyInv ==
  ASSUME TrackerInv, NEW s \in Sessions, NEW r \in Waiting, r = req[s], NEW c, NEW want,
         NEW Q \in Seq(Row), Commits(s, Q), Grows(rows, Q),
         \A b, g : b # r.asset => SameFor(rows, Q, b, g), ClassRows(Q),
         Ask(r.asset, c, want), wish' = Reclassified(r.asset, c), handled' = handled \ {r.asset},
         UNCHANGED <<scope, active, dailyVars>>,
         r.asset \notin raced' =>
           /\ Says(Q, r.asset, wish'[r.asset])
           /\ ActiveRow(Q, r.asset, "expiry") # 0 /\ Q[ActiveRow(Q, r.asset, "expiry")].state = "needs_evidence"
                => HasExpiry(c) /\ want.value = "unknown"
  PROVE  TrackerInv'
<1>1. r.asset \in Assets  BY WaitingFields
<1>2. PICK w : w = wish'  OBVIOUS
<1>3. w = Reclassified(r.asset, c)  BY <1>2
<1>4. /\ w \in [Assets -> [{"expiry", "opened"} -> Dates \cup {"none"}]]
      /\ \A b \in Assets \ {r.asset} : w[b] = wish[b]
  BY <1>1, <1>3, ReclassifiedWish
<1>5. /\ wish' \in [Assets -> [{"expiry", "opened"} -> Dates \cup {"none"}]]
      /\ \A b \in Assets \ {r.asset} : wish'[b] = wish[b]
  BY Zenon, <1>2, <1>4
<1>6. task' \subseteq Assets /\ (\A b \in Assets \ {r.asset} : b \in task => b \in task')
      /\ orphan' \subseteq orphan
  <2>1. task \subseteq Assets  BY DEF TrackerInv, TypeOK
  <2> QED BY <1>1, <2>1 DEF Ask
<1>7. HasExpiry(c) /\ want.value = "unknown" => r.asset \in task'  BY DEF Ask
<1>8. handled' \subseteq handled /\ (\A b \in handled \ {r.asset} : b \in handled')  OBVIOUS
<1>9. r.asset \notin raced' \cup handled' =>
        (ActiveRow(Q, r.asset, "expiry") # 0 /\ Q[ActiveRow(Q, r.asset, "expiry")].state = "needs_evidence"
           => r.asset \in task')
  BY Zenon, <1>7
<1>10. r.asset \notin raced' => Says(Q, r.asset, wish'[r.asset])  BY Zenon
<1> QED BY <1>5, <1>6, <1>8, <1>9, <1>10, CommitInv

LEMMA WriteAgainInv ==
  ASSUME TrackerInv, NEW s \in Sessions, WriteAgain(s)
  PROVE  TrackerInv'
<1>1. PICK r : r = req[s]  OBVIOUS
<1>2. PICK Q : Q = Write(rows, r.prev, r.same, r.asset, "expiry", r.value, r.state)  OBVIOUS
<1>3. PICK want : want = [value |-> r.value, state |-> r.state]  OBVIOUS
<1>4. /\ r.pc = "write" /\ r.kind = "classify" /\ r.field = "expiry" /\ Commits(s, Q)
      /\ Ask(r.asset, r.category, want) /\ wish' = Reclassified(r.asset, r.category)
      /\ handled' = handled \ {r.asset} /\ UNCHANGED <<scope, active, dailyVars>>
  BY Zenon, <1>1, <1>2, <1>3 DEF WriteAgain
<1>5. Holding(r)  BY <1>4 DEF Holding
<1>6. r \in Waiting /\ Shape(r) /\ ReadBy(r, rows) /\ rows \in Seq(Row)  BY <1>1, <1>5, RequestOf
<1>7. r.asset \in Assets /\ r.value \in Values /\ r.state \in {"accepted", "proposed", "needs_evidence"}
  BY <1>6, WaitingFields
<1>8. Wished(r.category, r.value, r.state)  BY <1>4, <1>6 DEF Shape
<1>9. Q = Write(rows, r.prev, r.same, r.asset, r.field, r.value, r.state)  BY <1>2, <1>4
<1>10. Written(rows, r, Q)  BY Zenon, <1>4, <1>6, <1>9, FieldWrite
<1>11. PICK w : w = wish'  OBVIOUS
<1>12. /\ w[r.asset]["opened"] = wish[r.asset]["opened"]
       /\ w[r.asset]["expiry"] = IF HasExpiry(r.category) THEN wish[r.asset]["expiry"] ELSE "none"
  <2>1. w = Reclassified(r.asset, r.category)  BY <1>4, <1>11
  <2> QED BY <1>7, <2>1, ReclassifiedWish
<1>13. ASSUME r.asset \notin raced'
       PROVE  /\ Says(Q, r.asset, w[r.asset])
              /\ Q[ActiveRow(Q, r.asset, "expiry")].state = "needs_evidence"
                   => HasExpiry(r.category) /\ r.value = "unknown"
  <2>1. /\ Says(rows, r.asset, wish[r.asset])
        /\ r.prev = ActiveRow(rows, r.asset, "expiry") /\ r.base = r.prev
    BY <1>1, <1>4, <1>6, <1>13, Unraced
  <2>2. r.same <=> Same(rows, r.prev, r.value, r.state)
    <3>1. /\ r.prev = 0 => ~r.same
          /\ r.prev # 0 /\ rows[r.prev].state # "superseded" =>
               (r.same <=> Same(rows, r.prev, r.value, r.state))
      BY Zenon, <1>4, <1>6 DEF ReadBy
    <3>2. r.prev # 0 => rows[r.prev].state # "superseded"  BY <1>6, <2>1, ActiveIsOpen DEF Open
    <3>3. r.prev = 0 => ~Same(rows, r.prev, r.value, r.state)  BY Zenon DEF Same
    <3> QED BY Zenon, <3>1, <3>2, <3>3
  <2>3. HasExpiry(r.category) => Silent(rows, r.prev)  BY Zenon, <1>4, <1>6, <2>1 DEF ReadBy
  <2> QED BY <1>2, <1>6, <1>7, <1>8, <1>12, <2>1, <2>2, <2>3, ClassifiedSays
<1>14. r.asset \notin raced' =>
         /\ Says(Q, r.asset, wish'[r.asset])
         /\ ActiveRow(Q, r.asset, "expiry") # 0 /\ Q[ActiveRow(Q, r.asset, "expiry")].state = "needs_evidence"
              => HasExpiry(r.category) /\ want.value = "unknown"
  <2>1. want.value = r.value  BY <1>3
  <2> QED BY Zenon, <1>11, <1>13, <2>1
<1>15. Q \in Seq(Row) /\ Grows(rows, Q) /\ (\A b, g : b # r.asset => SameFor(rows, Q, b, g))
       /\ ClassRows(Q)
  <2>1. "expiry" # "class"  OBVIOUS
  <2> QED BY Zenon, <1>4, <1>10, <2>1 DEF Written, TrackerInv
<1> QED BY <1>1, <1>4, <1>6, <1>14, <1>15, ClassifyInv

LEMMA GrowsOn ==
  ASSUME NEW R, NEW P, NEW Q, Grows(R, P), Grows(P, Q)
  PROVE  Grows(R, Q)
BY DEF Grows

LEMMA SameForOn ==
  ASSUME NEW R, NEW P, NEW Q, NEW b, NEW g, SameFor(R, P, b, g), SameFor(P, Q, b, g)
  PROVE  SameFor(R, Q, b, g)
BY DEF SameFor

\* The expiry field after a new classification, in the same transaction.
Follows(R, Q, a, c, want) ==
  /\ Q \in Seq(Row) /\ Grows(R, Q) /\ (ClassRows(R) => ClassRows(Q))
  /\ \A b, g : b # a => SameFor(R, Q, b, g)
  /\ \A u, w : Says(R, a, u) /\ w["opened"] = u["opened"]
               /\ w["expiry"] = (IF HasExpiry(c) THEN u["expiry"] ELSE "none") =>
       /\ Says(Q, a, w)
       /\ ActiveRow(Q, a, "expiry") # 0 /\ Q[ActiveRow(Q, a, "expiry")].state = "needs_evidence"
            => HasExpiry(c) /\ want.value = "unknown"

LEMMA FollowsClass ==
  ASSUME NEW R \in Seq(Row), NEW a \in Assets, NEW c \in Categories,
         NEW i, i = ActiveRow(R, a, "expiry"), NEW want, want = Wants(R, a, c, i),
         NEW Q, Q = IF want = Keep THEN R ELSE WriteNow(R, a, "expiry", want.value, want.state)
  PROVE  Follows(R, Q, a, c, want)
<1>0. "expiry" \in Fields  BY DEF Fields
<1>1. \/ want = Keep /\ want.value # "unknown" /\ (~HasExpiry(c) => i = 0)
      \/ /\ want # Keep /\ want.value \in Values /\ want.state \in {"accepted", "proposed", "needs_evidence"}
         /\ Wished(c, want.value, want.state) /\ (HasExpiry(c) => Silent(R, i))
  BY Zenon, WantsWhat
<1>2. CASE want = Keep
  <2>1. Q = R  BY <1>2
  <2>2. Q \in Seq(Row) /\ Grows(R, Q) /\ (ClassRows(R) => ClassRows(Q)) /\ \A b, g : SameFor(R, Q, b, g)
    BY <2>1 DEF Grows, SameFor
  <2>3. HasExpiry(c) => Stated(R, i) # "none"
    <3>1. CASE HasExpiry(c) /\ Stated(R, i) = "none"
      <4>1. want = [value |-> Observed[a], state |-> "proposed"]
            \/ want = [value |-> "unknown", state |-> "needs_evidence"]
        BY Zenon, <3>1 DEF Wants
      <4> QED BY <1>2, <4>1 DEF Keep
    <3> QED BY Zenon, <3>1
  <2>4. ~HasExpiry(c) => i = 0  BY Zenon, <1>1, <1>2
  <2>5. ASSUME NEW u, NEW w, Says(R, a, u), w["opened"] = u["opened"],
               w["expiry"] = (IF HasExpiry(c) THEN u["expiry"] ELSE "none")
        PROVE  Says(Q, a, w) /\ ~(i # 0 /\ R[i].state = "needs_evidence")
    <3>1. Stated(R, i) = u["expiry"] /\ \A f \in Fields : One(Open(R, a, f))  BY <2>5 DEF Says
    <3>2. i = 0 => Stated(R, i) = "none"  BY DEF Stated
    <3>3. Stated(R, i) = w["expiry"]
      <4>1. CASE HasExpiry(c)  BY Zenon, <2>5, <3>1, <4>1
      <4>2. CASE ~HasExpiry(c)  BY Zenon, <2>4, <2>5, <3>2, <4>2
      <4> QED BY <4>1, <4>2
    <3>4. Stated(R, ActiveRow(R, a, "opened")) = w["opened"]  BY <2>5 DEF Says
    <3>5. Says(R, a, w)  BY <3>1, <3>3, <3>4 DEF Says
    <3>6. R[i].state = "needs_evidence" => Stated(R, i) = "none"  BY DEF Stated
    <3>7. ~(i # 0 /\ R[i].state = "needs_evidence")  BY Zenon, <2>3, <2>4, <3>6
    <3> QED BY Zenon, <2>1, <3>5, <3>7
  <2> QED BY Zenon, <2>1, <2>2, <2>5 DEF Follows
<1>3. CASE want # Keep
  <2>1. PICK v : v = want.value  OBVIOUS
  <2>2. PICK st : st = want.state  OBVIOUS
  <2>3. PICK same : same = Same(R, i, v, st)  OBVIOUS
  <2>4. Q = Write(R, i, same, a, "expiry", v, st)  BY Zenon, <1>3, <2>1, <2>2, <2>3 DEF WriteNow
  <2>5. v \in Values /\ st \in {"accepted", "proposed", "needs_evidence"}
        /\ Wished(c, v, st) /\ (HasExpiry(c) => Silent(R, i))
    BY Zenon, <1>1, <1>3, <2>1, <2>2
  <2>6. Fits(R, i, a, "expiry") /\ i \in Nat  BY ActiveIsOpen DEF Fits, Open
  <2>7. /\ Q \in Seq(Row) /\ Grows(R, Q)
        /\ \A b, g : b # a \/ g # "expiry" => SameFor(R, Q, b, g)
    BY <1>0, <2>4, <2>5, <2>6, WriteGrows
  <2>8. same <=> Same(R, i, v, st)  BY Zenon, <2>3
  <2>9. ASSUME NEW u, NEW w, Says(R, a, u), w["opened"] = u["opened"],
               w["expiry"] = (IF HasExpiry(c) THEN u["expiry"] ELSE "none")
        PROVE  /\ Says(Q, a, w)
               /\ Q[ActiveRow(Q, a, "expiry")].state = "needs_evidence" => HasExpiry(c) /\ v = "unknown"
    BY <2>4, <2>5, <2>8, <2>9, ClassifiedSays
  <2>10. "expiry" # "class"  OBVIOUS
  <2>11. ClassRows(R) => ClassRows(Q)  BY <1>0, <2>4, <2>5, <2>6, <2>10, ClassRowsKept
  <2> QED BY Zenon, <2>1, <2>7, <2>9, <2>11 DEF Follows
<1> QED BY <1>2, <1>3

LEMMA WriteClassInv ==
  ASSUME TrackerInv, NEW s \in Sessions, WriteClass(s)
  PROVE  TrackerInv'
<1>1. PICK r : r = req[s]  OBVIOUS
<1>2. PICK R : R = Write(rows, r.prev, FALSE, r.asset, "class", r.category, "accepted")  OBVIOUS
<1>3. PICK i : i = ActiveRow(R, r.asset, "expiry")  OBVIOUS
<1>4. PICK want : want = Wants(R, r.asset, r.category, i)  OBVIOUS
<1>5. PICK Q : Q = IF want = Keep THEN R ELSE WriteNow(R, r.asset, "expiry", want.value, want.state)
  OBVIOUS
<1>6. /\ r.pc = "write" /\ r.field = "class" /\ ~r.same /\ Commits(s, Q)
      /\ Ask(r.asset, r.category, want) /\ wish' = Reclassified(r.asset, r.category)
      /\ handled' = handled \ {r.asset} /\ UNCHANGED <<scope, active, dailyVars>>
  BY Zenon, <1>1, <1>2, <1>3, <1>4, <1>5 DEF WriteClass
<1>7. Holding(r)  BY <1>6 DEF Holding
<1>8. r \in Waiting /\ Shape(r) /\ ReadBy(r, rows) /\ rows \in Seq(Row)  BY <1>1, <1>7, RequestOf
<1>9. r.asset \in Assets /\ r.category \in Categories /\ r.value = r.category /\ r.state = "accepted"
  BY <1>6, <1>8, ClassShape, WaitingFields
<1>10. R = Write(rows, r.prev, r.same, r.asset, r.field, r.value, r.state)
  <2>1. Write(rows, r.prev, r.same, r.asset, r.field, r.value, r.state)
          = Add(Supersede(rows, r.prev), r.asset, r.field, r.value, r.state)
    BY Zenon, <1>6 DEF Write
  <2>2. R = Add(Supersede(rows, r.prev), r.asset, "class", r.category, "accepted")
    BY Zenon, <1>2 DEF Write
  <2> QED BY Zenon, <1>6, <1>9, <2>1, <2>2
<1>11. Written(rows, r, R)  BY Zenon, <1>6, <1>8, <1>10, FieldWrite
<1>12. /\ R \in Seq(Row) /\ Grows(rows, R)
       /\ \A b, g : b # r.asset \/ g # "class" => SameFor(rows, R, b, g)
  BY Zenon, <1>6, <1>11 DEF Written
<1>13. Follows(R, Q, r.asset, r.category, want)
  <2>1. R \in Seq(Row)  BY <1>12
  <2> QED BY Zenon, <1>3, <1>4, <1>5, <1>9, <2>1, FollowsClass
<1>14. Grows(rows, Q) /\ (\A b, g : b # r.asset => SameFor(rows, Q, b, g))
  BY Zenon, <1>12, <1>13, GrowsOn, SameForOn DEF Follows
<1>15. PICK w : w = wish'  OBVIOUS
<1>16. /\ w[r.asset]["opened"] = wish[r.asset]["opened"]
       /\ w[r.asset]["expiry"] = IF HasExpiry(r.category) THEN wish[r.asset]["expiry"] ELSE "none"
  <2>1. w = Reclassified(r.asset, r.category)  BY <1>6, <1>15
  <2> QED BY <1>9, <2>1, ReclassifiedWish
<1>17. ASSUME r.asset \notin raced'
       PROVE  Says(R, r.asset, wish[r.asset])
  <2>1. /\ Says(rows, r.asset, wish[r.asset]) /\ One(Open(rows, r.asset, r.field))
        /\ r.prev = ActiveRow(rows, r.asset, r.field)
    BY <1>1, <1>6, <1>8, <1>17, Unraced
  <2>2. One(Open(R, r.asset, "class"))  BY Zenon, <1>6, <1>11, <2>1 DEF Written
  <2>3. \A g : g # "class" => SameFor(rows, R, r.asset, g)  BY <1>12
  <2>4. PICK f : f = "class"  OBVIOUS
  <2>5. PICK u : u = wish[r.asset]  OBVIOUS
  <2>6. f \in Fields /\ f = "class" /\ \A g \in {"expiry", "opened"} \ {f} : u[g] = u[g]
    BY <2>4 DEF Fields
  <2>7. /\ Says(rows, r.asset, u) /\ One(Open(R, r.asset, f))
        /\ \A g : g # f => SameFor(rows, R, r.asset, g)
    BY <2>1, <2>2, <2>3, <2>4, <2>5
  <2>8. f # "class" => Stated(R, ActiveRow(R, r.asset, f)) = u[f]  BY <2>4
  <2>9. Says(R, r.asset, u)  BY <1>8, <2>6, <2>7, <2>8, SaysAfter
  <2> QED BY <2>5, <2>9
<1>18. r.asset \notin raced' =>
         /\ Says(Q, r.asset, wish'[r.asset])
         /\ ActiveRow(Q, r.asset, "expiry") # 0 /\ Q[ActiveRow(Q, r.asset, "expiry")].state = "needs_evidence"
              => HasExpiry(r.category) /\ want.value = "unknown"
  BY Zenon, <1>13, <1>15, <1>16, <1>17 DEF Follows
<1>19. Q \in Seq(Row) /\ ClassRows(Q)
  BY Zenon, <1>9, <1>11, <1>13 DEF Written, Follows, TrackerInv
<1> QED BY <1>1, <1>6, <1>8, <1>14, <1>18, <1>19, ClassifyInv
-----------------------------------------------------------------------------
\* Reminders and the daily pass.
LEMMA TiersAndBuckets ==
  ASSUME NEW c \in Categories, NEW n \in Int
  PROVE  TierFor(c, n) \in TierNames /\ BucketFor(n) \in Buckets
<1>1. BucketFor(n) \in Buckets  BY DEF BucketFor, Buckets
<1>2. "none" \in TierNames /\ "safe" \in TierNames  BY DEF TierNames
<1>3. DOMAIN Tiers[c] \subseteq TierNames  BY DEF Categories, Tiers, NoWindows, TierNames
<1>4. Reached(c, n) \subseteq TierNames  BY <1>3 DEF Reached
<1>5. CASE n < 0  BY Zenon, <1>1, <1>2, <1>5 DEF TierFor
<1>6. CASE n \in Nat  BY <1>1, <1>2, <1>4, <1>6, TierIsNarrowest
<1> QED BY <1>5, <1>6

\* The category of an asset that has a date is one, and its date is a day.
LEMMA ResolvedIsDate ==
  ASSUME TrackerInv, NEW a, Resolved(a) # "none"
  PROVE  CategoryOf(rows, a) \in Categories /\ Day[Resolved(a)] \in Int
<1>1. rows \in Seq(Row) /\ ClassRows(rows)  BY DEF TrackerInv, TypeOK
<1>2. CategoryOf(rows, a) # "none" /\ Resolved(a) = Stated(rows, AcceptedRow(rows, a, "expiry"))
  BY Zenon DEF Resolved
<1>3. Resolved(a) \in Dates  BY Zenon, <1>2 DEF Stated
<1>4. CategoryOf(rows, a) \in Categories
  <2> DEFINE A == {j \in Open(rows, a, "class") : rows[j].state = "accepted"}
  <2>1. AcceptedRow(rows, a, "class") = Newest(A) /\ A \subseteq 1..Len(rows) /\ Len(rows) \in Nat
    BY <1>1 DEF AcceptedRow, Open
  <2>2. Newest(A) # 0  BY Zenon, <1>2, <2>1 DEF CategoryOf
  <2>3. A # {}  BY Zenon, <2>2 DEF Newest
  <2>4. Newest(A) \in A  BY <2>1, <2>3, NewestOf
  <2>5. CategoryOf(rows, a) = rows[Newest(A)].value  BY Zenon, <2>1, <2>2 DEF CategoryOf
  <2>6. Newest(A) \in DOMAIN rows /\ rows[Newest(A)].field = "class"  BY <2>4 DEF Open
  <2> HIDE DEF A
  <2> QED BY <1>1, <2>5, <2>6 DEF ClassRows
<1> QED BY <1>3, <1>4, TrackerAssumption

LEMMA DueIsTyped ==
  ASSUME TrackerInv, NEW h, NEW day \in 0..LastDay
  PROVE  Due(h, day) \subseteq [asset : Assets, tier : TierNames, bucket : Buckets]
<1> SUFFICES ASSUME NEW a \in Assets, Warned(a, day)
             PROVE  Warning(a, day) \in [asset : Assets, tier : TierNames, bucket : Buckets]
  BY Zenon DEF Due
<1>1. CategoryOf(rows, a) \in Categories /\ Day[Resolved(a)] \in Int
  BY Zenon, ResolvedIsDate DEF Warned
<1>2. Day[Resolved(a)] - day \in Int  BY <1>1, TrackerAssumption
<1>3. TierFor(CategoryOf(rows, a), Day[Resolved(a)] - day) \in TierNames
      /\ BucketFor(Day[Resolved(a)] - day) \in Buckets
  BY <1>1, <1>2, TiersAndBuckets
<1> QED BY <1>3 DEF Warning

LEMMA LowestIsOne ==
  ASSUME NEW S, S \subseteq Households, S # {}
  PROVE  Lowest(S) \in Households
<1>1. S \subseteq Nat  BY TrackerAssumption DEF Households
<1>2. PICK x \in S : \A y \in S : x <= y  BY <1>1, LeastOf
<1>3. Lowest(S) \in S  BY <1>2 DEF Lowest
<1> QED BY <1>3

\* A step that leaves the rows, the wishes and what asks for a date alone, and
\* each session's request or ends it.
LEMMA QuietInv ==
  ASSUME TrackerInv, TypeOK', PassHolds',
         rows' = rows, wish' = wish, raced' = raced,
         \A s \in Sessions : req'[s] = req[s] \/ ~Holding(req'[s]),
         \A a \in Assets : a \notin handled' => a \notin handled /\ (a \in task => a \in task')
  PROVE  TrackerInv'
<1>1. /\ TypeOK /\ ClassRows(rows) /\ RequestsHold /\ AssetsSay /\ UnknownIsAsked /\ PassHolds  BY DEF TrackerInv
<1>2. RequestsHold'
  <2>1. ASSUME NEW t \in Sessions, Holding(req'[t]) PROVE Shape(req'[t]) /\ ReadBy(req'[t], rows')
    <3>1. req'[t] = req[t]  BY <2>1
    <3> QED BY Zenon, <1>1, <2>1, <3>1 DEF RequestsHold
  <2> QED BY Zenon, <2>1 DEF RequestsHold
<1>3. AssetsSay' /\ ClassRows(rows')  BY Zenon, <1>1 DEF AssetsSay
<1>4. UnknownIsAsked'
  <2>1. ASSUME NEW a \in Assets \ (raced \cup handled'), ActiveRow(rows, a, "expiry") # 0,
               rows[ActiveRow(rows, a, "expiry")].state = "needs_evidence"
        PROVE  a \in task'
    <3>1. a \in Assets \ (raced \cup handled) /\ (a \in task => a \in task')  BY <2>1
    <3> QED BY Zenon, <1>1, <2>1, <3>1 DEF UnknownIsAsked
  <2> QED BY Zenon, <2>1 DEF UnknownIsAsked
<1> QED BY Zenon, <1>2, <1>3, <1>4 DEF TrackerInv

LEMMA MarkInv ==
  ASSUME TrackerInv, NEW s \in Sessions, Mark(s)
  PROVE  TrackerInv'
<1>1. PICK r : r = req[s]  OBVIOUS
<1>2. /\ r.pc = "mark" /\ req' = [req EXCEPT ![s] = Idle]
      /\ reminder' = [reminder EXCEPT ![r.asset][r.day].status = r.kind]
      /\ UNCHANGED <<scope, rows, active, task, orphan, today, loop, history>>
  BY Zenon, <1>1 DEF Mark, Steps
<1>3. TypeOK /\ PassHolds  BY DEF TrackerInv
<1>4. /\ scope' = scope /\ rows' = rows /\ active' = active /\ task' = task /\ orphan' = orphan
      /\ today' = today /\ loop' = loop /\ wish' = wish /\ raced' = raced /\ handled' = handled
      /\ touched' = touched
  BY <1>2 DEF history
<1>5. req \in [Sessions -> Waiting \cup Marking \cup {Idle}]  BY <1>3 DEF TypeOK
<1>6. /\ req'[s] = Idle /\ (\A t \in Sessions \ {s} : req'[t] = req[t])
      /\ req' \in [Sessions -> Waiting \cup Marking \cup {Idle}]
  BY Zenon, <1>2, <1>5
<1>7. r.asset \in Assets /\ r.day \in 0..LastDay /\ r.kind \in {"read", "dismissed"}
  <2>1. r \notin Waiting /\ r # Idle  BY <1>2, WaitingFields DEF Idle
  <2>2. r \in Marking  BY Zenon, <1>1, <1>5, <2>1
  <2> QED BY <2>2 DEF Marking
<1>8. reminder' \in [Assets -> [0..LastDay -> Reminder]]
  <2>1. reminder \in [Assets -> [0..LastDay -> Reminder]]  BY <1>3 DEF TypeOK
  <2>2. PICK m : m = reminder[r.asset][r.day]  OBVIOUS
  <2>3. m \in Reminder  BY <1>7, <2>1, <2>2
  <2>4. PICK k : k = [m EXCEPT !.status = r.kind]  OBVIOUS
  <2>5. k \in Reminder  BY <1>7, <2>3, <2>4 DEF Reminder
  <2>6. reminder' = [reminder EXCEPT ![r.asset] = [reminder[r.asset] EXCEPT ![r.day] = k]]
    BY Zenon, <1>2, <2>2, <2>4
  <2>7. [reminder[r.asset] EXCEPT ![r.day] = k] \in [0..LastDay -> Reminder]  BY Zenon, <1>7, <2>1, <2>5
  <2> QED BY Zenon, <1>7, <2>1, <2>6, <2>7
<1>9. TypeOK'  BY Zenon, <1>3, <1>4, <1>6, <1>8 DEF TypeOK
<1>10. ~Holding(Idle)  BY DEF Holding, Idle
<1>11. \A t \in Sessions : req'[t] = req[t] \/ ~Holding(req'[t])  BY Zenon, <1>6, <1>10
<1>12. PassHolds'  BY Zenon, <1>3, <1>4 DEF PassHolds
<1> QED BY <1>4, <1>9, <1>11, <1>12, QuietInv

LEMMA ReviewInv ==
  ASSUME TrackerInv, NEW a \in Assets, ResolveTask(a) \/ Archive(a)
  PROVE  TrackerInv'
<1>1. TypeOK /\ PassHolds  BY DEF TrackerInv
<1>2. active \subseteq Assets /\ task \subseteq Assets /\ handled \subseteq Assets /\ touched \subseteq Assets
  BY <1>1 DEF TypeOK
<1>3. /\ scope' = scope /\ rows' = rows /\ orphan' = orphan /\ req' = req /\ today' = today /\ loop' = loop
      /\ reminder' = reminder /\ wish' = wish /\ raced' = raced
      /\ active' \subseteq Assets /\ task' \subseteq Assets /\ handled' \subseteq Assets /\ touched' \subseteq Assets
      /\ \A b \in Assets : b \notin handled' => b \notin handled /\ (b \in task => b \in task')
  <2>1. CASE ResolveTask(a)  BY <1>2, <2>1 DEF ResolveTask, dailyVars
  <2>2. CASE Archive(a)  BY <1>2, <2>2 DEF Archive, dailyVars
  <2> QED BY <2>1, <2>2
<1>4. TypeOK'  BY Zenon, <1>1, <1>3 DEF TypeOK
<1>5. PassHolds'  BY Zenon, <1>1, <1>3 DEF PassHolds
<1> QED BY <1>3, <1>4, <1>5, QuietInv

LEMMA BeginMarkInv ==
  ASSUME TrackerInv, NEW s \in Sessions, NEW a \in Assets, NEW d \in 0..LastDay,
         NEW target \in {"read", "dismissed"}, BeginMark(s, target, a, d)
  PROVE  TrackerInv'
<1>1. PICK r : r = [pc |-> "mark", kind |-> target, asset |-> a, day |-> d]  OBVIOUS
<1>2. OnlySteps(s, r)  BY Zenon, <1>1 DEF BeginMark
<1>3. r \in Marking  BY <1>1 DEF Marking
<1>4. r \notin Waiting  BY <1>1, WaitingFields
<1> QED BY <1>2, <1>3, <1>4, OnlyStepsInv

\* What the pass may become, and the reminders it may leave.
LEMMA PassInv ==
  ASSUME TrackerInv, loop' \in Pass, PassHolds', reminder' \in [Assets -> [0..LastDay -> Reminder]],
         today' \in 0..LastDay, touched' \subseteq touched,
         req' = req \/ req' = [s \in Sessions |-> Idle],
         UNCHANGED <<scope, rows, active, task, orphan, wish, raced, handled>>
  PROVE  TrackerInv'
<1>1. TypeOK  BY DEF TrackerInv
<1>2. touched' \subseteq Assets
  <2>1. touched \subseteq Assets  BY <1>1 DEF TypeOK
  <2> QED BY <2>1
<1>3. req' \in [Sessions -> Waiting \cup Marking \cup {Idle}]
  <2>1. req \in [Sessions -> Waiting \cup Marking \cup {Idle}]  BY <1>1 DEF TypeOK
  <2>2. CASE req' = req  BY Zenon, <2>1, <2>2
  <2>3. CASE req' = [s \in Sessions |-> Idle]  BY Zenon, <2>3
  <2> QED BY <2>2, <2>3
<1>4. /\ scope' = scope /\ rows' = rows /\ active' = active /\ task' = task /\ orphan' = orphan
      /\ wish' = wish /\ raced' = raced /\ handled' = handled
  OBVIOUS
<1>5. TypeOK'  BY Zenon, <1>1, <1>2, <1>3, <1>4 DEF TypeOK
<1>6. ~Holding(Idle)  BY DEF Holding, Idle
<1>7. \A s \in Sessions : req'[s] = req[s] \/ ~Holding(req'[s])
  <2>1. CASE req' = req  BY Zenon, <2>1
  <2>2. CASE req' = [s \in Sessions |-> Idle]  BY Zenon, <1>6, <2>2
  <2> QED BY <2>1, <2>2
<1> QED BY <1>4, <1>5, <1>7, QuietInv

LEMMA SleepingIsPass == Sleeping \in Pass /\ Sleeping.pc = "sleep"
<1> DEFINE D == [asset : Assets, tier : TierNames, bucket : Buckets]
<1>1. 0 \in 0..LastDay  BY TrackerAssumption
<1>2. {} \in SUBSET Households /\ {} \in SUBSET D  OBVIOUS
<1> HIDE DEF D
<1>3. Sleeping \in [pc : {"sleep", "read", "insert", "done"}, day : 0..LastDay, left : SUBSET Households,
                    due : SUBSET D, failed : SUBSET Households]
  BY Zenon, <1>1, <1>2 DEF Sleeping
<1> QED BY Zenon, <1>3 DEF Pass, Sleeping, D

\* The steps of the daily pass and of the clock.
LEMMA DailyInv ==
  ASSUME TrackerInv, \/ PassBegins \/ ReadDue \/ InsertDue \/ InsertFails
                     \/ PassEnds \/ Wake \/ Tick \/ Restart
  PROVE  TrackerInv'
<1>1. /\ TypeOK /\ PassHolds /\ loop \in Pass /\ today \in 0..LastDay
      /\ reminder \in [Assets -> [0..LastDay -> Reminder]]
  BY Zenon DEF TrackerInv, TypeOK
<1>2. PICK D : D = [asset : Assets, tier : TierNames, bucket : Buckets]  OBVIOUS
<1>3. PICK L : L = [pc : {"sleep", "read", "insert", "done"}, day : 0..LastDay, left : SUBSET Households,
                    due : SUBSET D, failed : SUBSET Households]
  OBVIOUS
<1>4. L = Pass  BY Zenon, <1>2, <1>3 DEF Pass
<1>5. /\ loop.pc \in {"sleep", "read", "insert", "done"} /\ loop.day \in 0..LastDay
      /\ loop.left \in SUBSET Households /\ loop.failed \in SUBSET Households
      /\ loop.due \in SUBSET D
  BY Zenon, <1>1, <1>3, <1>4
<1>6. CASE PassBegins
  <2>1. /\ loop' = [loop EXCEPT !.pc = "read", !.day = today, !.left = Households]
        /\ UNCHANGED <<scope, trackerVars, today, reminder, history>>
    BY Zenon, <1>6 DEF PassBegins
  <2>2. Households \in SUBSET Households  OBVIOUS
  <2>3. loop' \in L /\ loop'.pc = "read"  BY Zenon, <1>1, <1>3, <1>4, <2>1, <2>2
  <2> QED BY <1>1, <1>4, <2>1, <2>3, PassInv DEF trackerVars, history, PassHolds
<1>7. CASE ReadDue
  <2>1. PICK due : due = Due(Lowest(loop.left), loop.day)  OBVIOUS
  <2>2. /\ loop.pc = "read" /\ loop.left # {} /\ loop' = [loop EXCEPT !.pc = "insert", !.due = due]
        /\ touched' = touched \ {a \in Assets : Home[a] = Lowest(loop.left) /\ reminder[a][loop.day] = NoReminder}
        /\ UNCHANGED <<scope, trackerVars, today, reminder, wish, raced, handled>>
    BY Zenon, <1>7, <2>1 DEF ReadDue
  <2>3. due \in SUBSET D  BY <1>2, <1>5, <2>1, DueIsTyped
  <2>4. loop' \in L /\ loop'.left = loop.left  BY Zenon, <1>1, <1>3, <1>4, <2>2, <2>3
  <2>5. touched' \subseteq touched  BY <2>2
  <2> QED BY <1>1, <1>4, <2>2, <2>4, <2>5, PassInv DEF trackerVars, PassHolds
<1>8. ASSUME loop.pc = "insert" PROVE loop.left \ {Lowest(loop.left)} \in SUBSET Households
                                      /\ loop.failed \cup {Lowest(loop.left)} \in SUBSET Households
                                      /\ {} \in SUBSET D
  <2>1. Lowest(loop.left) \in Households  BY <1>1, <1>5, <1>8, LowestIsOne DEF PassHolds
  <2> QED BY <1>5, <2>1
<1>9. CASE InsertDue
  <2>1. PICK left : left = loop.left \ {Lowest(loop.left)}  OBVIOUS
  <2>2. /\ loop.pc = "insert" /\ loop' = [loop EXCEPT !.pc = "read", !.left = left, !.due = {}]
        /\ reminder' = [a \in Assets |-> [d \in 0..LastDay |->
             IF d = loop.day /\ \E w \in loop.due : w.asset = a
             THEN LET w == CHOOSE w \in loop.due : w.asset = a
                  IN  [tier |-> w.tier, bucket |-> w.bucket, status |-> "unread"]
             ELSE reminder[a][d]]]
        /\ UNCHANGED <<scope, trackerVars, today, history>>
    BY Zenon, <1>9, <2>1 DEF InsertDue
  <2>3. left \in SUBSET Households /\ {} \in SUBSET D  BY <1>8, <2>1, <2>2
  <2>4. loop' \in L /\ loop'.pc = "read"  BY Zenon, <1>1, <1>3, <1>4, <2>2, <2>3
  <2>5. reminder' \in [Assets -> [0..LastDay -> Reminder]]
    <3>1. ASSUME NEW a \in Assets, NEW d \in 0..LastDay
          PROVE  (IF d = loop.day /\ \E w \in loop.due : w.asset = a
                  THEN LET w == CHOOSE w \in loop.due : w.asset = a
                       IN  [tier |-> w.tier, bucket |-> w.bucket, status |-> "unread"]
                  ELSE reminder[a][d]) \in Reminder
      <4>1. CASE \E w \in loop.due : w.asset = a
        <5>1. PICK w : w = CHOOSE v \in loop.due : v.asset = a  OBVIOUS
        <5>2. w \in loop.due  BY <4>1, <5>1
        <5>3. w.tier \in TierNames /\ w.bucket \in Buckets  BY <1>2, <1>5, <5>2
        <5>4. [tier |-> w.tier, bucket |-> w.bucket, status |-> "unread"] \in Reminder
          BY <5>3 DEF Reminder
        <5>5. reminder[a][d] \in Reminder  BY <1>1
        <5> QED BY Zenon, <5>1, <5>4, <5>5
      <4>2. CASE ~\E w \in loop.due : w.asset = a  BY Zenon, <1>1, <4>2
      <4> QED BY <4>1, <4>2
    <3> QED BY Zenon, <2>2, <3>1
  <2> QED BY <1>1, <1>4, <2>2, <2>4, <2>5, PassInv DEF trackerVars, history, PassHolds
<1>10. CASE InsertFails
  <2>1. PICK left : left = loop.left \ {Lowest(loop.left)}  OBVIOUS
  <2>2. PICK failed : failed = loop.failed \cup {Lowest(loop.left)}  OBVIOUS
  <2>3. /\ loop.pc = "insert"
        /\ loop' = [loop EXCEPT !.pc = "read", !.left = left, !.due = {}, !.failed = failed]
        /\ UNCHANGED <<scope, trackerVars, today, reminder, history>>
    BY Zenon, <1>10, <2>1, <2>2 DEF InsertFails
  <2>4. left \in SUBSET Households /\ failed \in SUBSET Households /\ {} \in SUBSET D
    BY <1>8, <2>1, <2>2, <2>3
  <2>5. loop' \in L /\ loop'.pc = "read"  BY Zenon, <1>1, <1>3, <1>4, <2>3, <2>4
  <2> QED BY <1>1, <1>4, <2>3, <2>5, PassInv DEF trackerVars, history, PassHolds
<1>11. CASE PassEnds
  <2>1. loop' = [loop EXCEPT !.pc = "done"] /\ UNCHANGED <<scope, trackerVars, today, reminder, history>>
    BY Zenon, <1>11 DEF PassEnds
  <2>2. loop' \in L /\ loop'.pc = "done"  BY Zenon, <1>1, <1>3, <1>4, <2>1
  <2> QED BY <1>1, <1>4, <2>1, <2>2, PassInv DEF trackerVars, history, PassHolds
<1>12. CASE Wake
  <2>1. loop' = Sleeping /\ UNCHANGED <<scope, trackerVars, today, reminder, history>>  BY Zenon, <1>12 DEF Wake
  <2> QED BY <1>1, <2>1, SleepingIsPass, PassInv DEF trackerVars, history, PassHolds
<1>13. CASE Tick
  <2>1. today < scope.days /\ today' = today + 1 /\ UNCHANGED <<scope, trackerVars, loop, reminder, history>>
    BY Zenon, <1>13 DEF Tick
  <2>2. scope.days \in 0..LastDay /\ LastDay \in Nat
    <3>1. scope \in [sessions : Nat, assets : SUBSET Assets, categories : SUBSET Categories,
                     days : 0..LastDay, rows : Nat]
      BY <1>1, TrackerAssumption DEF TypeOK
    <3> QED BY <3>1, TrackerAssumption
  <2>3. today' \in 0..LastDay  BY <1>1, <2>1, <2>2
  <2>4. loop' = loop /\ PassHolds'  BY <1>1, <2>1 DEF PassHolds
  <2> QED BY <1>1, <2>1, <2>3, <2>4, PassInv DEF trackerVars, history
<1>14. CASE Restart
  <2>1. /\ req' = [s \in Sessions |-> Idle] /\ loop' = Sleeping
        /\ UNCHANGED <<scope, rows, active, task, orphan, today, reminder, history>>
    BY Zenon, <1>14 DEF Restart
  <2> QED BY <1>1, <2>1, SleepingIsPass, PassInv DEF history, PassHolds
<1> QED BY <1>6, <1>7, <1>9, <1>10, <1>11, <1>12, <1>13, <1>14
-----------------------------------------------------------------------------
LEMMA InitInv ==
  ASSUME Init
  PROVE  TrackerInv
<1>1. /\ scope \in Scopes /\ rows = <<>> /\ active = Assets /\ task \in SUBSET scope.assets /\ orphan = Origins
      /\ req = [s \in Sessions |-> Idle] /\ today = 0 /\ loop = Sleeping
      /\ reminder = [a \in Assets |-> [d \in 0..LastDay |-> NoReminder]]
      /\ wish = [a \in Assets |-> [f \in {"expiry", "opened"} |-> "none"]]
      /\ raced = {} /\ handled = {} /\ touched = {}
  BY Zenon DEF Init
<1>2. rows \in Seq(Row) /\ DOMAIN rows = {}  BY <1>1
<1>3. scope.assets \subseteq Assets
  <2>1. scope \in [sessions : Nat, assets : SUBSET Assets, categories : SUBSET Categories,
                   days : 0..LastDay, rows : Nat]
    BY <1>1, TrackerAssumption
  <2> QED BY <2>1
<1>4. task \subseteq Assets  BY <1>1, <1>3
<1>5. 0 \in 0..LastDay  BY TrackerAssumption
<1>6. NoReminder \in Reminder  BY DEF NoReminder, Reminder, TierNames, Buckets
<1>7. reminder \in [Assets -> [0..LastDay -> Reminder]]  BY Zenon, <1>1, <1>6
<1>8. wish \in [Assets -> [{"expiry", "opened"} -> Dates \cup {"none"}]]
  <2>1. "none" \in Dates \cup {"none"}  OBVIOUS
  <2> QED BY Zenon, <1>1, <2>1
<1>9. req \in [Sessions -> Waiting \cup Marking \cup {Idle}]  BY Zenon, <1>1
<1>10. /\ active \subseteq Assets /\ orphan \subseteq Origins /\ raced \subseteq Assets
       /\ handled \subseteq Assets /\ touched \subseteq Assets
  BY <1>1
<1>11. TypeOK
  BY Zenon, <1>1, <1>2, <1>4, <1>5, <1>7, <1>8, <1>9, <1>10, SleepingIsPass DEF TypeOK
<1>12. \A a, f : Open(rows, a, f) = {} /\ ActiveRow(rows, a, f) = 0
  <2>1. ASSUME NEW a, NEW f PROVE Open(rows, a, f) = {}  BY <1>2 DEF Open
  <2> QED BY <2>1 DEF ActiveRow, Newest
<1>13. RequestsHold
  <2>1. ~Holding(Idle)  BY DEF Holding, Idle
  <2> QED BY Zenon, <1>1, <2>1 DEF RequestsHold
<1>14. AssetsSay
  <2>1. ASSUME NEW a \in Assets PROVE Says(rows, a, wish[a])
    <3>1. \A f \in Fields : One(Open(rows, a, f))  BY <1>12 DEF One
    <3>2. \A f \in {"expiry", "opened"} : Stated(rows, ActiveRow(rows, a, f)) = wish[a][f]
      BY <1>1, <1>12 DEF Stated
    <3> QED BY Zenon, <3>1, <3>2 DEF Says
  <2> QED BY Zenon, <2>1 DEF AssetsSay
<1>15. UnknownIsAsked  BY <1>12 DEF UnknownIsAsked
<1>16. PassHolds  BY <1>1, SleepingIsPass DEF PassHolds
<1>17. ClassRows(rows)  BY <1>2 DEF ClassRows
<1> QED BY Zenon, <1>11, <1>13, <1>14, <1>15, <1>16, <1>17 DEF TrackerInv

LEMMA NextInv ==
  ASSUME TrackerInv, [Next]_vars
  PROVE  TrackerInv'
<1>1. CASE Tracker
  <2>1. \/ \E s \in Sessions : \/ Requests(s) \/ Check(s) \/ Decide(s) \/ FindCleared(s) \/ ReadPrevious(s)
                               \/ WriteClass(s) \/ SameClass(s) \/ WriteAgain(s)
                               \/ WriteExpiry(s) \/ WriteOpened(s) \/ Mark(s)
        \/ \E a \in Assets : ResolveTask(a) \/ Archive(a)
    BY Zenon, <1>1 DEF Tracker
  <2>2. ASSUME NEW s \in Sessions,
               \/ Requests(s) \/ Check(s) \/ Decide(s) \/ FindCleared(s) \/ ReadPrevious(s)
               \/ WriteClass(s) \/ SameClass(s) \/ WriteAgain(s)
               \/ WriteExpiry(s) \/ WriteOpened(s) \/ Mark(s)
        PROVE  TrackerInv'
    <3>1. CASE Requests(s)  BY <3>1, RequestsInv
    <3>2. CASE Check(s) \/ Decide(s) \/ FindCleared(s)  BY <3>2, CheckInv
    <3>3. CASE ReadPrevious(s)  BY <3>3, ReadPreviousInv
    <3>4. CASE WriteClass(s)  BY <3>4, WriteClassInv
    <3>5. CASE SameClass(s)  BY <3>5, SameClassInv
    <3>6. CASE WriteAgain(s)  BY <3>6, WriteAgainInv
    <3>7. CASE WriteExpiry(s) \/ WriteOpened(s)  BY <3>7, WordInv
    <3>8. CASE Mark(s)  BY <3>8, MarkInv
    <3> QED BY Zenon, <2>2, <3>1, <3>2, <3>3, <3>4, <3>5, <3>6, <3>7, <3>8
  <2>3. ASSUME NEW a \in Assets, ResolveTask(a) \/ Archive(a) PROVE TrackerInv'  BY <2>3, ReviewInv
  <2> QED BY Zenon, <2>1, <2>2, <2>3
<1>2. CASE Daily
  <2>1. \/ PassBegins \/ ReadDue \/ InsertDue \/ InsertFails \/ PassEnds \/ Wake \/ Tick \/ Restart
        \/ \E s \in Sessions, a \in Assets, d \in 0..LastDay, target \in {"read", "dismissed"} :
             BeginMark(s, target, a, d)
    BY Zenon, <1>2 DEF Daily
  <2> QED BY Zenon, <2>1, DailyInv, BeginMarkInv
<1>3. CASE UNCHANGED vars
  <2>1. /\ rows' = rows /\ active' = active /\ task' = task /\ orphan' = orphan /\ req' = req
        /\ scope' = scope /\ today' = today /\ loop' = loop /\ reminder' = reminder /\ wish' = wish
        /\ raced' = raced /\ handled' = handled /\ touched' = touched
    BY <1>3 DEF vars, trackerVars, dailyVars, history
  <2>2. TypeOK /\ PassHolds  BY DEF TrackerInv
  <2>3. TypeOK'  BY Zenon, <2>1, <2>2 DEF TypeOK
  <2>4. PassHolds'  BY Zenon, <2>1, <2>2 DEF PassHolds
  <2> QED BY <2>1, <2>3, <2>4, QuietInv
<1> QED BY Zenon, <1>1, <1>2, <1>3 DEF Next

LEMMA TrackerInvHolds == Spec => []TrackerInv
<1>1. Init => TrackerInv  BY InitInv
<1>2. TrackerInv /\ [Next]_vars => TrackerInv'  BY NextInv
<1> QED BY <1>1, <1>2, PTL DEF Spec

\* What the variables of the tracker and of its daily pass may hold
\* (expiry_tracker.py, record_due).
THEOREM TypesHold == Spec => []TypeOK
<1>1. TrackerInv => TypeOK  BY DEF TrackerInv
<1> QED BY <1>1, TrackerInvHolds, PTL

\* The date and the opened date that the engine reads are the ones the user
\* chose last, for any number of requests, assets and rows, unless a request
\* wrote over a row it had not read (_write_assertion, classify_asset).
THEOREM LastWordAlwaysHolds == Spec => []LastWordHolds
<1>1. ASSUME TrackerInv PROVE LastWordHolds
  <2>1. rows \in Seq(Row) /\ AssetsSay  BY <1>1 DEF TrackerInv, TypeOK
  <2>2. ASSUME NEW a \in Assets \ raced
        PROVE  /\ OneOpenRow(a)
               /\ \A f \in {"expiry", "opened"} : Stated(rows, AcceptedRow(rows, a, f)) = wish[a][f]
    <3>1. /\ \A f \in Fields : One(Open(rows, a, f))
          /\ \A f \in {"expiry", "opened"} : Stated(rows, ActiveRow(rows, a, f)) = wish[a][f]
      BY Zenon, <2>1, <2>2 DEF AssetsSay, Says
    <3>2. {"expiry", "opened"} \subseteq Fields  BY DEF Fields
    <3>3. \A f \in {"expiry", "opened"} :
            Stated(rows, AcceptedRow(rows, a, f)) = Stated(rows, ActiveRow(rows, a, f))
      BY <2>1, <3>1, <3>2, AcceptedIsActive
    <3> QED BY Zenon, <3>1, <3>3 DEF OneOpenRow, One
  <2> QED BY Zenon, <2>2 DEF LastWordHolds
<1> QED BY <1>1, TrackerInvHolds, PTL

\* An asset whose date nobody knows has an open task that asks for it, until a
\* reviewer resolves that by hand (classify_asset, store_manual_expiry).
THEOREM UnknownAlwaysAsked == Spec => []UnknownIsAsked
<1>1. TrackerInv => UnknownIsAsked  BY DEF TrackerInv
<1> QED BY <1>1, TrackerInvHolds, PTL
-----------------------------------------------------------------------------
\* The reminders.  Without a write to an asset its row of the pass is the same.
LEMMA AcceptedKept ==
  ASSUME NEW R \in Seq(Row), NEW Q, NEW b, NEW g, SameFor(R, Q, b, g)
  PROVE  /\ AcceptedRow(Q, b, g) = AcceptedRow(R, b, g)
         /\ AcceptedRow(R, b, g) # 0 => Q[AcceptedRow(R, b, g)] = R[AcceptedRow(R, b, g)]
<1> DEFINE A == {i \in Open(R, b, g) : R[i].state = "accepted"}
           B == {i \in Open(Q, b, g) : Q[i].state = "accepted"}
<1>1. A = B  BY DEF SameFor
<1>2. AcceptedRow(R, b, g) = Newest(A) /\ AcceptedRow(Q, b, g) = Newest(B)  BY DEF AcceptedRow
<1>3. A \subseteq 1..Len(R) /\ Len(R) \in Nat  BY DEF Open
<1>4. A # {} => Newest(A) \in A  BY <1>3, NewestOf
<1>5. A = {} => Newest(A) = 0  BY DEF Newest
<1>6. Newest(A) # 0 => Newest(A) \in Open(R, b, g)  BY <1>4, <1>5
<1> HIDE DEF A, B
<1> QED BY <1>1, <1>2, <1>6 DEF SameFor

Stays(a) == CategoryOf(rows, a)' = CategoryOf(rows, a) /\ Resolved(a)' = Resolved(a)

LEMMA StaysWithin ==
  ASSUME NEW R \in Seq(Row), R = rows, NEW b, \A g : SameFor(R, rows', b, g), b \in active' <=> b \in active
  PROVE  Stays(b)
<1>1. PICK Q : Q = rows'  OBVIOUS
<1>2. \A g : SameFor(R, Q, b, g)  BY <1>1
<1>3. CategoryOf(Q, b) = CategoryOf(R, b)  BY <1>2, AcceptedKept DEF CategoryOf
<1>4. Stated(Q, AcceptedRow(Q, b, "expiry")) = Stated(R, AcceptedRow(R, b, "expiry"))
  BY <1>2, AcceptedKept DEF Stated
<1> QED BY <1>1, <1>3, <1>4 DEF Stays, Resolved

LEMMA StaysUnwritten == ASSUME NEW b, rows' = rows, active' = active PROVE Stays(b)
BY DEF Stays, Resolved

LEMMA WarnsOn ==
  ASSUME NEW a, NEW d, Stays(a)
  PROVE  /\ Warned(a, d)' <=> Warned(a, d)
         /\ Warning(a, d)' = Warning(a, d)
BY DEF Stays, Warned, Warning

\* A date is warned of exactly when it lies ahead and within a window, and the
\* tier of the warning is the narrowest of these.
LEMMA WarnedIsWithin ==
  ASSUME NEW c \in Categories, NEW n \in Int,
         NEW W, W = {t \in DOMAIN Tiers[c] : 0 <= n /\ n <= Tiers[c][t]}
  PROVE  /\ Warns(c, TierFor(c, n)) <=> W # {}
         /\ W # {} => TierFor(c, n) \in W /\ \A t \in W : Tiers[c][TierFor(c, n)] <= Tiers[c][t]
<1>1. "none" \notin DOMAIN Tiers[c] /\ "safe" \notin DOMAIN Tiers[c]
  BY DEF Categories, Tiers, NoWindows
<1>2. CASE n < 0
  <2>1. W = {}  BY <1>2
  <2>2. TierFor(c, n) = "none"  BY Zenon, <1>2 DEF TierFor
  <2> QED BY Zenon, <1>1, <2>1, <2>2 DEF Warns
<1>3. CASE n >= 0
  <2>1. W = Reached(c, n) /\ n \in Nat  BY <1>3 DEF Reached
  <2>2. CASE W = {}
    <3>1. TierFor(c, n) \in {"none", "safe"}  BY <2>1, <2>2, TierIsNarrowest
    <3> QED BY <1>1, <2>2, <3>1 DEF Warns
  <2>3. CASE W # {}
    <3>1. /\ TierFor(c, n) \in W
          /\ \A u \in W : Tiers[c][TierFor(c, n)] <= Tiers[c][u]
      BY Zenon, <2>1, <2>3, TierIsNarrowest
    <3>2. TierFor(c, n) \in DOMAIN Tiers[c]  BY <2>1, <3>1 DEF Reached
    <3> QED BY Zenon, <2>3, <3>1, <3>2 DEF Warns
  <2> QED BY <2>2, <2>3
<1> QED BY <1>2, <1>3

\* The inductive invariant of the reminders.  The day that reminders are
\* written for never goes back; for an asset untouched since, a reminder of that
\* day is the warning of its row, and so is what a pass holds in its hands; where
\* there is none, a household that is through has nothing to warn of.
Since == IF loop.pc = "sleep" THEN today ELSE loop.day
Tells(m, a, day) == Warned(a, day) /\ m.status # "none" /\ m.tier = Warning(a, day).tier
DaysPass == /\ Since <= today /\ (loop.pc = "done" => loop.left = {})
            /\ \A a \in Assets : \A d \in 0..LastDay :
                 reminder[a][d] # NoReminder => d <= Since /\ reminder[a][d].status # "none"
MarksHold == \A s \in Sessions : req[s].pc = "mark" => reminder[req[s].asset][req[s].day] # NoReminder
Told == \A a \in Assets \ touched : reminder[a][Since] # NoReminder => Tells(reminder[a][Since], a, Since)
NothingToTell == loop.pc # "sleep" => \A a \in Assets \ touched :
  Home[a] \notin loop.left \cup loop.failed /\ reminder[a][loop.day] = NoReminder => ~Warned(a, loop.day)
InHand(S, a) == {w \in S : w.asset = a}
DueHolds == loop.pc = "insert" =>
  /\ \A w \in loop.due : Home[w.asset] = Lowest(loop.left) /\ reminder[w.asset][loop.day] = NoReminder
  /\ \A a \in Assets \ touched : Home[a] = Lowest(loop.left) /\ reminder[a][loop.day] = NoReminder =>
       InHand(loop.due, a) = IF Warned(a, loop.day) THEN {Warning(a, loop.day)} ELSE {}
ReminderInv == DaysPass /\ MarksHold /\ Told /\ NothingToTell /\ DueHolds

LEMMA ReminderTypes ==
  ASSUME TrackerInv
  PROVE  /\ loop.pc \in {"sleep", "read", "insert", "done"} /\ loop.day \in 0..LastDay
         /\ loop.left \subseteq Households /\ loop.failed \subseteq Households
         /\ loop.due \subseteq [asset : Assets, tier : TierNames, bucket : Buckets]
         /\ today \in 0..LastDay /\ Since \in 0..LastDay /\ LastDay \in Nat
         /\ reminder \in [Assets -> [0..LastDay -> Reminder]]
         /\ touched \subseteq Assets /\ req \in [Sessions -> Waiting \cup Marking \cup {Idle}]
<1>1. /\ loop \in Pass /\ today \in 0..LastDay /\ reminder \in [Assets -> [0..LastDay -> Reminder]]
      /\ touched \subseteq Assets /\ req \in [Sessions -> Waiting \cup Marking \cup {Idle}]
  BY DEF TrackerInv, TypeOK
<1>2. /\ loop.pc \in {"sleep", "read", "insert", "done"} /\ loop.day \in 0..LastDay
      /\ loop.left \subseteq Households /\ loop.failed \subseteq Households
      /\ loop.due \subseteq [asset : Assets, tier : TierNames, bucket : Buckets]
  BY <1>1 DEF Pass
<1> QED BY <1>1, <1>2, TrackerAssumption DEF Since

LEMMA MarkOf ==
  ASSUME TrackerInv, NEW s \in Sessions, req[s].pc = "mark"
  PROVE  /\ req[s].asset \in Assets /\ req[s].day \in 0..LastDay /\ req[s].kind \in {"read", "dismissed"}
<1>1. req[s] \in Waiting \cup Marking \cup {Idle}  BY ReminderTypes
<1>2. req[s] \notin Waiting /\ req[s] # Idle  BY WaitingFields DEF Idle
<1>3. req[s] \in Marking  BY Zenon, <1>1, <1>2
<1> QED BY <1>3 DEF Marking

\* A step that leaves the pass and the reminders alone, and the rows of each
\* asset that it does not touch.
LEMMA TrackerKeeps ==
  ASSUME TrackerInv, ReminderInv, today' = today, loop' = loop, reminder' = reminder,
         touched \subseteq touched', \A a \in Assets \ touched' : Stays(a),
         \A s \in Sessions : req'[s].pc = "mark" =>
           req'[s] = req[s] \/ reminder[req'[s].asset][req'[s].day] # NoReminder
  PROVE  ReminderInv'
<1>1. DaysPass /\ MarksHold /\ Told /\ NothingToTell /\ DueHolds  BY DEF ReminderInv
<1>2. Since' = Since  BY DEF Since
<1>3. \A a \in Assets \ touched' : a \in Assets \ touched  OBVIOUS
<1>4. \A a \in Assets \ touched' : \A d :
        (Warned(a, d)' <=> Warned(a, d)) /\ Warning(a, d)' = Warning(a, d)
  BY WarnsOn
<1>5. DaysPass'  BY Zenon, <1>1, <1>2 DEF DaysPass
<1>6. MarksHold'  BY Zenon, <1>1 DEF MarksHold
<1>7. Told'
  <2>1. ASSUME NEW a \in Assets \ touched', reminder[a][Since] # NoReminder
        PROVE  /\ Warned(a, Since)' /\ reminder[a][Since].status # "none"
               /\ reminder[a][Since].tier = Warning(a, Since)'.tier
    <3>1. Tells(reminder[a][Since], a, Since)  BY Zenon, <1>1, <1>3, <2>1 DEF Told
    <3>2. Warned(a, Since') <=> Warned(a, Since)  BY <1>2
    <3> QED BY <1>2, <1>4, <2>1, <3>1 DEF Tells
  <2> QED BY <1>2, <2>1 DEF Told, Tells
<1>8. NothingToTell'  BY <1>1, <1>3, <1>4 DEF NothingToTell
<1>9. DueHolds'  BY <1>1, <1>3, <1>4 DEF DueHolds, InHand
<1> QED BY Zenon, <1>5, <1>6, <1>7, <1>8, <1>9 DEF ReminderInv

\* A request's commit touches its asset, unless it changes no row.
LEMMA CommitTouches ==
  ASSUME TrackerInv, ReminderInv, NEW s \in Sessions, NEW r \in Waiting, r = req[s],
         NEW Q, Commits(s, Q), \A b, g : b # r.asset => SameFor(rows, Q, b, g),
         UNCHANGED <<active, dailyVars>>
  PROVE  ReminderInv'
<1>1. /\ rows' = Q /\ req' = [req EXCEPT ![s] = Idle]
      /\ touched' = IF Q = rows THEN touched ELSE touched \cup {r.asset}
  BY DEF Commits, Steps
<1>2. active' = active /\ today' = today /\ loop' = loop /\ reminder' = reminder  BY DEF dailyVars
<1>3. rows \in Seq(Row)  BY DEF TrackerInv, TypeOK
<1>4. ASSUME NEW a \in Assets \ touched' PROVE Stays(a)
  <2>1. CASE Q = rows  BY <1>1, <1>2, <2>1, StaysUnwritten
  <2>2. CASE Q # rows
    <3>1. a # r.asset  BY <1>1, <1>4, <2>2
    <3>2. \A g : SameFor(rows, rows', a, g)  BY <1>1, <3>1
    <3> QED BY <1>2, <1>3, <3>2, StaysWithin
  <2> QED BY <2>1, <2>2
<1>5. \A t \in Sessions : req'[t].pc = "mark" => req'[t] = req[t]
  BY <1>1, ReminderTypes DEF Idle
<1> QED BY <1>1, <1>2, <1>4, <1>5, TrackerKeeps

LEMMA WritesTouch ==
  ASSUME TrackerInv, ReminderInv, NEW s \in Sessions,
         WriteClass(s) \/ WriteAgain(s) \/ WriteExpiry(s) \/ WriteOpened(s)
  PROVE  ReminderInv'
<1>1. PICK r : r = req[s]  OBVIOUS
<1>2. r.pc = "write"  BY Zenon, <1>1 DEF WriteClass, WriteAgain, WriteExpiry, WriteOpened
<1>3. Holding(r)  BY <1>2 DEF Holding
<1>4. r \in Waiting /\ Shape(r) /\ ReadBy(r, rows) /\ rows \in Seq(Row)  BY <1>1, <1>3, RequestOf
<1>5. /\ r.asset \in Assets /\ r.prev \in Nat /\ r.value \in Values
      /\ r.state \in {"accepted", "proposed", "needs_evidence"}
  BY <1>4, WaitingFields
<1>6. Fits(rows, r.prev, r.asset, r.field)  BY Zenon, <1>2, <1>4 DEF ReadBy
<1>7. CASE WriteClass(s)
  <2>1. PICK R : R = Write(rows, r.prev, FALSE, r.asset, "class", r.category, "accepted")  OBVIOUS
  <2>2. PICK i : i = ActiveRow(R, r.asset, "expiry")  OBVIOUS
  <2>3. PICK want : want = Wants(R, r.asset, r.category, i)  OBVIOUS
  <2>4. PICK Q : Q = IF want = Keep THEN R ELSE WriteNow(R, r.asset, "expiry", want.value, want.state)
    OBVIOUS
  <2>5. r.field = "class" /\ Commits(s, Q) /\ UNCHANGED <<active, dailyVars>>
    BY Zenon, <1>1, <1>7, <2>1, <2>2, <2>3, <2>4 DEF WriteClass
  <2>6. r.category \in Categories  BY <1>4, <2>5, ClassShape
  <2>7. "class" \in Fields /\ r.category \in Values /\ Fits(rows, r.prev, r.asset, "class")
    BY <1>6, <2>5, <2>6 DEF Fields, Values
  <2>8. R \in Seq(Row) /\ \A b, g : b # r.asset \/ g # "class" => SameFor(rows, R, b, g)
    <3>1. "accepted" \in {"accepted", "proposed", "needs_evidence"}  OBVIOUS
    <3>2. PICK same : same = FALSE  OBVIOUS
    <3>3. R = Write(rows, r.prev, same, r.asset, "class", r.category, "accepted")  BY <2>1, <3>2
    <3> QED BY <1>4, <1>5, <2>7, <3>1, <3>3, WriteGrows
  <2>9. Follows(R, Q, r.asset, r.category, want)
    BY Zenon, <1>5, <2>2, <2>3, <2>4, <2>6, <2>8, FollowsClass
  <2>10. \A b, g : b # r.asset => SameFor(rows, Q, b, g)
    BY Zenon, <2>8, <2>9, SameForOn DEF Follows
  <2> QED BY <1>1, <1>4, <2>5, <2>10, CommitTouches
<1>8. ASSUME NEW f \in Fields, NEW v \in {"accepted", "proposed", "needs_evidence"}, r.field = f,
             NEW Q, Q = Write(rows, r.prev, r.same, r.asset, f, r.value, v),
             Commits(s, Q), UNCHANGED <<active, dailyVars>>
      PROVE  ReminderInv'
  <2>1. Fits(rows, r.prev, r.asset, f)  BY <1>6, <1>8
  <2>2. \A b, g : b # r.asset \/ g # f => SameFor(rows, Q, b, g)  BY <1>4, <1>5, <1>8, <2>1, WriteGrows
  <2>3. \A b, g : b # r.asset => SameFor(rows, Q, b, g)  BY Zenon, <2>2
  <2> QED BY <1>1, <1>4, <1>8, <2>3, CommitTouches
<1>9. CASE WriteAgain(s)
  <2>1. PICK Q : Q = Write(rows, r.prev, r.same, r.asset, "expiry", r.value, r.state)  OBVIOUS
  <2>2. r.field = "expiry" /\ Commits(s, Q) /\ UNCHANGED <<active, dailyVars>>
    BY Zenon, <1>1, <1>9, <2>1 DEF WriteAgain
  <2>3. "expiry" \in Fields  BY DEF Fields
  <2> QED BY Zenon, <1>5, <1>8, <2>1, <2>2, <2>3
<1>10. CASE WriteExpiry(s)
  <2>1. PICK Q : Q = Write(rows, r.prev, r.same, r.asset, "expiry", r.value, "accepted")  OBVIOUS
  <2>2. r.kind \in {"enter", "clear"} /\ Commits(s, Q) /\ UNCHANGED <<active, dailyVars>>
    BY Zenon, <1>1, <1>10, <2>1 DEF WriteExpiry
  <2>3. r.field = "expiry" /\ "expiry" \in Fields  BY <1>4, <2>2 DEF Shape, Fields
  <2>4. "accepted" \in {"accepted", "proposed", "needs_evidence"}  OBVIOUS
  <2> QED BY Zenon, <1>8, <2>1, <2>2, <2>3, <2>4
<1>11. CASE WriteOpened(s)
  <2>1. PICK Q : Q = Write(rows, r.prev, r.same, r.asset, "opened", r.value, "accepted")  OBVIOUS
  <2>2. r.kind \in {"open", "unopen"} /\ Commits(s, Q) /\ UNCHANGED <<active, dailyVars>>
    BY Zenon, <1>1, <1>11, <2>1 DEF WriteOpened
  <2>3. r.field = "opened" /\ "opened" \in Fields  BY <1>4, <2>2 DEF Shape, Fields
  <2>4. "accepted" \in {"accepted", "proposed", "needs_evidence"}  OBVIOUS
  <2> QED BY Zenon, <1>8, <2>1, <2>2, <2>3, <2>4
<1> QED BY <1>7, <1>9, <1>10, <1>11

\* A step of a request that writes no row.
LEMMA OnlyStepsTouch ==
  ASSUME TrackerInv, ReminderInv, NEW s \in Sessions, NEW r, OnlySteps(s, r),
         r.pc = "mark" => reminder[r.asset][r.day] # NoReminder
  PROVE  ReminderInv'
<1>1. /\ req' = [req EXCEPT ![s] = r] /\ rows' = rows /\ active' = active /\ today' = today
      /\ loop' = loop /\ reminder' = reminder /\ touched' = touched
  BY DEF OnlySteps, Steps, dailyVars, history
<1>2. \A t \in Sessions : req'[t] = IF t = s THEN r ELSE req[t]  BY <1>1, ReminderTypes
<1>3. \A a \in Assets : Stays(a)  BY <1>1, StaysUnwritten
<1> QED BY <1>1, <1>2, <1>3, TrackerKeeps

LEMMA RequestsTouch ==
  ASSUME TrackerInv, ReminderInv, NEW s \in Sessions,
         Requests(s) \/ Check(s) \/ Decide(s) \/ FindCleared(s) \/ ReadPrevious(s) \/ SameClass(s)
  PROVE  ReminderInv'
<1>1. PICK r : r = req[s]  OBVIOUS
<1>2. CASE Requests(s)
  <2>1. ASSUME NEW kind, NEW a, NEW value, Begin(s, kind, a, value) PROVE ReminderInv'
    <3>1. PICK seen : OnlySteps(s, [pc |-> "check", kind |-> kind, asset |-> a, field |-> FieldOf(kind),
                      category |-> IF kind = "classify" THEN value ELSE "none",
                      value |-> value, state |-> "accepted", seen |-> seen,
                      base |-> 0, prev |-> 0, same |-> FALSE])
      BY Zenon, <2>1 DEF Begin
    <3>2. PICK q : /\ OnlySteps(s, q) /\ q.pc = "check"  BY <3>1
    <3> QED BY <3>2, OnlyStepsTouch
  <2> QED BY Zenon, <1>2, <2>1 DEF Requests
<1>3. r.pc \in {"check", "decide", "find", "prev", "write"} => r \in Waiting
  BY <1>1, RequestOf DEF Holding
<1>4. ASSUME NEW q, OnlySteps(s, q), q.pc # "mark" PROVE ReminderInv'
  BY <1>4, OnlyStepsTouch
<1>5. Idle.pc # "mark"  BY DEF Idle
<1>6. CASE Check(s)
  <2>1. PICK q : q = IF r.seen # 0 /\ ActiveRow(rows, r.asset, r.field) # r.seen THEN Idle
                     ELSE [r EXCEPT !.pc = IF r.kind = "classify" THEN "prev" ELSE "decide"]
    OBVIOUS
  <2>2. OnlySteps(s, q) /\ r.pc = "check"  BY Zenon, <1>1, <1>6, <2>1 DEF Check
  <2>3. q.pc # "mark"  BY <1>3, <1>5, <2>1, <2>2 DEF Waiting
  <2> QED BY <1>4, <2>2, <2>3
<1>7. CASE Decide(s)
  <2>1. PICK pc : pc = IF Clears(r) THEN "find" ELSE "prev"  OBVIOUS
  <2>2. PICK q : q = IF Refused(r) THEN Idle ELSE [r EXCEPT !.pc = pc]  OBVIOUS
  <2>3. OnlySteps(s, q) /\ r.pc = "decide"  BY Zenon, <1>1, <1>7, <2>1, <2>2 DEF Decide
  <2>4. [r EXCEPT !.pc = pc].pc = pc  BY <1>3, <2>3 DEF Waiting
  <2>5. pc # "mark"  BY <2>1
  <2>6. q.pc # "mark"  BY <1>5, <2>2, <2>4, <2>5
  <2> QED BY <1>4, <2>3, <2>6
<1>8. CASE FindCleared(s)
  <2>1. PICK q : q = IF ActiveRow(rows, r.asset, r.field) = 0 THEN Idle ELSE [r EXCEPT !.pc = "prev"]  OBVIOUS
  <2>2. OnlySteps(s, q) /\ r.pc = "find"  BY Zenon, <1>1, <1>8, <2>1 DEF FindCleared
  <2>3. [r EXCEPT !.pc = "prev"].pc = "prev"  BY <1>3, <2>2 DEF Waiting
  <2>4. q.pc # "mark"  BY <1>5, <2>1, <2>3
  <2> QED BY <1>4, <2>2, <2>4
<1>9. CASE ReadPrevious(s)
  <2>1. PICK i : i = ActiveRow(rows, r.asset, r.field)  OBVIOUS
  <2>2. PICK b : b = IF r.kind = "classify" /\ r.field = "expiry" THEN r.base ELSE i  OBVIOUS
  <2>3. PICK same : same = Same(rows, i, r.value, r.state)  OBVIOUS
  <2>4. PICK q : q = [r EXCEPT !.pc = "write", !.prev = i, !.same = same, !.base = b]  OBVIOUS
  <2>5. OnlySteps(s, q) /\ r.pc = "prev"  BY Zenon, <1>1, <1>9, <2>1, <2>2, <2>3, <2>4 DEF ReadPrevious
  <2>6. q.pc = "write"  BY <1>3, <2>4, <2>5 DEF Waiting
  <2> QED BY <1>4, <2>5, <2>6
<1>10. CASE SameClass(s)
  <2>1. PICK w : w = Wants(rows, r.asset, r.category, ActiveRow(rows, r.asset, "expiry"))  OBVIOUS
  <2>2. /\ r.pc = "write"
        /\ \/ Steps(s, Idle)
           \/ Steps(s, [r EXCEPT !.pc = "prev", !.field = "expiry", !.base = ActiveRow(rows, r.asset, "expiry"),
                                 !.value = w.value, !.state = w.state])
        /\ UNCHANGED <<scope, rows, active, dailyVars, history>>
    BY Zenon, <1>1, <1>10, <2>1 DEF SameClass
  <2>3. PICK q : Steps(s, q) /\ q.pc # "mark"
    <3>1. [r EXCEPT !.pc = "prev", !.field = "expiry", !.base = ActiveRow(rows, r.asset, "expiry"),
                    !.value = w.value, !.state = w.state].pc = "prev"
      BY <1>3, <2>2 DEF Waiting
    <3> QED BY <1>5, <2>2, <3>1
  <2>4. /\ rows' = rows /\ active' = active /\ today' = today
        /\ loop' = loop /\ reminder' = reminder /\ touched' = touched
    BY <2>2 DEF dailyVars, history
  <2>5. \A t \in Sessions : req'[t] = IF t = s THEN q ELSE req[t]  BY <2>3, ReminderTypes DEF Steps
  <2>6. \A a \in Assets : Stays(a)  BY <2>4, StaysUnwritten
  <2> QED BY <2>3, <2>4, <2>5, <2>6, TrackerKeeps
<1> QED BY <1>2, <1>6, <1>7, <1>8, <1>9, <1>10

\* A reviewer's steps, and the first half of a reading or dismissal.
LEMMA ReviewTouches ==
  ASSUME TrackerInv, ReminderInv, NEW a \in Assets, ResolveTask(a) \/ Archive(a)
  PROVE  ReminderInv'
<1>1. /\ rows' = rows /\ req' = req /\ today' = today /\ loop' = loop /\ reminder' = reminder
  BY DEF ResolveTask, Archive, dailyVars
<1>2. \/ active' = active /\ touched' = touched
      \/ active' = active \ {a} /\ touched' = touched \cup {a}
  BY DEF ResolveTask, Archive
<1>3. \A b \in Assets \ touched' : Stays(b)
  BY <1>1, <1>2 DEF Stays, Resolved
<1> QED BY <1>1, <1>2, <1>3, TrackerKeeps

LEMMA BeginMarkTouches ==
  ASSUME TrackerInv, ReminderInv, NEW s \in Sessions, NEW a \in Assets, NEW d \in 0..LastDay,
         NEW target \in {"read", "dismissed"}, BeginMark(s, target, a, d)
  PROVE  ReminderInv'
<1>1. PICK r : r = [pc |-> "mark", kind |-> target, asset |-> a, day |-> d]  OBVIOUS
<1>2. OnlySteps(s, r) /\ reminder[a][d].status \in LegalFrom(target)  BY Zenon, <1>1 DEF BeginMark
<1>3. reminder[a][d] # NoReminder  BY <1>2 DEF LegalFrom, NoReminder
<1>4. r.asset = a /\ r.day = d  BY <1>1
<1> QED BY <1>2, <1>3, <1>4, OnlyStepsTouch

\* The second half: a reminder changes its status and stays one.
LEMMA MarkKeeps ==
  ASSUME TrackerInv, ReminderInv, NEW s \in Sessions, Mark(s)
  PROVE  ReminderInv'
<1>1. PICK r : r = req[s]  OBVIOUS
<1>2. /\ r.pc = "mark" /\ req' = [req EXCEPT ![s] = Idle]
      /\ reminder' = [reminder EXCEPT ![r.asset][r.day].status = r.kind]
      /\ UNCHANGED <<scope, rows, active, task, orphan, today, loop, history>>
  BY Zenon, <1>1 DEF Mark, Steps
<1>3. rows' = rows /\ active' = active /\ today' = today /\ loop' = loop /\ touched' = touched
  BY <1>2 DEF history
<1>4. r.asset \in Assets /\ r.day \in 0..LastDay /\ r.kind # "none"  BY <1>1, <1>2, MarkOf
<1>5. DaysPass /\ MarksHold /\ Told /\ NothingToTell /\ DueHolds  BY DEF ReminderInv
<1>6. reminder[r.asset][r.day] # NoReminder  BY <1>1, <1>2, <1>5 DEF MarksHold
<1>7. ASSUME NEW a \in Assets, NEW d \in 0..LastDay
      PROVE  /\ reminder'[a][d] # NoReminder <=> reminder[a][d] # NoReminder
             /\ reminder[a][d] # NoReminder /\ reminder[a][d].status # "none" => reminder'[a][d].status # "none"
             /\ reminder'[a][d].tier = reminder[a][d].tier
  <2>1. reminder \in [Assets -> [0..LastDay -> Reminder]]  BY ReminderTypes
  <2>2. CASE a = r.asset /\ d = r.day
    <3>1. PICK m : m = reminder[a][d]  OBVIOUS
    <3>2. m \in Reminder  BY <2>1, <3>1
    <3>3. reminder'[a][d] = [m EXCEPT !.status = r.kind]  BY <1>2, <1>4, <2>1, <2>2, <3>1
    <3>4. reminder'[a][d].status = r.kind /\ reminder'[a][d].tier = m.tier  BY <3>2, <3>3 DEF Reminder
    <3>5. NoReminder.status = "none"  BY DEF NoReminder
    <3> QED BY <1>4, <1>6, <2>2, <3>1, <3>4, <3>5
  <2>3. CASE ~(a = r.asset /\ d = r.day)
    <3>1. reminder'[a][d] = reminder[a][d]  BY <1>2, <1>4, <2>1, <2>3
    <3> QED BY <3>1
  <2> QED BY <2>2, <2>3
<1>8. Since' = Since /\ Since \in 0..LastDay /\ loop.day \in 0..LastDay  BY <1>3, ReminderTypes DEF Since
<1>9. \A a \in Assets : Stays(a)  BY <1>3, StaysUnwritten
<1>10. DaysPass'  BY <1>3, <1>5, <1>7, <1>8 DEF DaysPass
<1>11. MarksHold'
  <2>1. ASSUME NEW t \in Sessions, req'[t].pc = "mark"
        PROVE  reminder'[req'[t].asset][req'[t].day] # NoReminder
    <3>1. t # s /\ req'[t] = req[t]  BY <1>2, <2>1, ReminderTypes DEF Idle
    <3>2. req[t].asset \in Assets /\ req[t].day \in 0..LastDay  BY <2>1, <3>1, MarkOf
    <3> QED BY <1>5, <1>7, <2>1, <3>1, <3>2 DEF MarksHold
  <2> QED BY <2>1 DEF MarksHold
<1>12. \A a \in Assets, d \in 0..LastDay : (Warned(a, d)' <=> Warned(a, d)) /\ Warning(a, d)' = Warning(a, d)
  BY <1>9, WarnsOn
<1>13. Told'
  <2>1. ASSUME NEW a \in Assets \ touched, reminder'[a][Since] # NoReminder
        PROVE  /\ Warned(a, Since)' /\ reminder'[a][Since].status # "none"
               /\ reminder'[a][Since].tier = Warning(a, Since)'.tier
    <3>1. Tells(reminder[a][Since], a, Since) /\ reminder[a][Since] # NoReminder
      BY <1>5, <1>7, <1>8, <2>1 DEF Told
    <3>2. (Warned(a, Since)' <=> Warned(a, Since)) /\ Warning(a, Since)' = Warning(a, Since)
      BY <1>8, <1>9, WarnsOn DEF Warned, Warning, Stays
    <3> QED BY <1>7, <1>8, <3>1, <3>2 DEF Tells
  <2> QED BY <1>3, <1>8, <2>1 DEF Told, Tells
<1>14. NothingToTell'  BY <1>3, <1>5, <1>7, <1>8, <1>12 DEF NothingToTell
<1>15. DueHolds'
  <2>1. ASSUME loop.pc = "insert"
        PROVE  /\ \A w \in loop.due : Home[w.asset] = Lowest(loop.left) /\ reminder'[w.asset][loop.day] = NoReminder
               /\ \A a \in Assets \ touched : Home[a] = Lowest(loop.left) /\ reminder'[a][loop.day] = NoReminder =>
                    InHand(loop.due, a) = IF Warned(a, loop.day)' THEN {Warning(a, loop.day)'} ELSE {}
    <3>1. \A w \in loop.due : w.asset \in Assets  BY ReminderTypes
    <3>2. \A w \in loop.due : Home[w.asset] = Lowest(loop.left) /\ reminder'[w.asset][loop.day] = NoReminder
      BY <1>5, <1>7, <1>8, <2>1, <3>1 DEF DueHolds
    <3>3. ASSUME NEW a \in Assets \ touched, Home[a] = Lowest(loop.left), reminder'[a][loop.day] = NoReminder
          PROVE  InHand(loop.due, a) = IF Warned(a, loop.day)' THEN {Warning(a, loop.day)'} ELSE {}
      <4>1. reminder[a][loop.day] = NoReminder  BY <1>7, <1>8, <3>3
      <4>2. InHand(loop.due, a) = IF Warned(a, loop.day) THEN {Warning(a, loop.day)} ELSE {}
        BY <1>5, <2>1, <3>3, <4>1 DEF DueHolds
      <4>3. (Warned(a, loop.day)' <=> Warned(a, loop.day)) /\ Warning(a, loop.day)' = Warning(a, loop.day)
        BY <1>3, <1>9, WarnsOn DEF Warned, Warning, Stays
      <4> QED BY <4>2, <4>3
    <3> QED BY <3>2, <3>3
  <2> QED BY <1>3, <2>1 DEF DueHolds, InHand
<1> QED BY <1>10, <1>11, <1>13, <1>14, <1>15 DEF ReminderInv

\* The steps of the pass.  What it reads is what its household's untouched
\* assets warn of.
LEMMA ReadDueKeeps ==
  ASSUME TrackerInv, ReminderInv, ReadDue
  PROVE  ReminderInv'
<1>1. PICK h : h = Lowest(loop.left)  OBVIOUS
<1>2. PICK due : due = Due(h, loop.day)  OBVIOUS
<1>3. /\ loop.pc = "read" /\ loop.left # {} /\ loop' = [loop EXCEPT !.pc = "insert", !.due = due]
      /\ touched' = touched \ {a \in Assets : Home[a] = h /\ reminder[a][loop.day] = NoReminder}
      /\ rows' = rows /\ active' = active /\ req' = req /\ today' = today /\ reminder' = reminder
  BY Zenon, <1>1, <1>2 DEF ReadDue, trackerVars
<1>4. loop \in Pass  BY DEF TrackerInv, TypeOK
<1>5. /\ loop'.pc = "insert" /\ loop'.day = loop.day /\ loop'.left = loop.left
      /\ loop'.failed = loop.failed /\ loop'.due = due
  BY <1>3, <1>4 DEF Pass
<1>6. DaysPass /\ MarksHold /\ Told /\ NothingToTell  BY DEF ReminderInv
<1>7. Since = loop.day /\ Since' = loop.day /\ loop.day \in 0..LastDay  BY <1>3, <1>5, ReminderTypes DEF Since
<1>8. \A a \in Assets : Stays(a)  BY <1>3, StaysUnwritten
<1>9. \A a \in Assets, d \in 0..LastDay : (Warned(a, d)' <=> Warned(a, d)) /\ Warning(a, d)' = Warning(a, d)
  BY <1>8, WarnsOn
<1>10. h \in loop.left
  <2>1. loop.left \subseteq Nat  BY ReminderTypes, TrackerAssumption DEF Households
  <2>2. PICK x \in loop.left : \A y \in loop.left : x <= y  BY <1>3, <2>1, LeastOf
  <2> QED BY <1>1, <2>2 DEF Lowest
<1>11. \A a \in Assets \ touched' :
         a \notin touched \/ (Home[a] = h /\ reminder[a][loop.day] = NoReminder)
  BY <1>3
<1>12. DaysPass'  BY <1>3, <1>5, <1>6, <1>7 DEF DaysPass
<1>13. MarksHold'  BY <1>3, <1>6 DEF MarksHold
<1>14. Told'
  <2>1. ASSUME NEW a \in Assets \ touched', reminder[a][loop.day] # NoReminder
        PROVE  Tells(reminder[a][loop.day], a, loop.day)
    BY <1>6, <1>7, <1>11, <2>1 DEF Told
  <2>2. ASSUME NEW a \in Assets \ touched', reminder[a][loop.day] # NoReminder
        PROVE  /\ Warned(a, loop.day)' /\ reminder[a][loop.day].status # "none"
               /\ reminder[a][loop.day].tier = Warning(a, loop.day)'.tier
    BY <1>5, <1>7, <1>8, <2>1, <2>2 DEF Tells, Stays, Warned, Warning
  <2> QED BY <1>3, <1>5, <1>7, <2>2 DEF Told, Tells
<1>15. NothingToTell'
  <2>1. ASSUME NEW a \in Assets \ touched', Home[a] \notin loop.left \cup loop.failed,
               reminder[a][loop.day] = NoReminder
        PROVE  ~Warned(a, loop.day)
    BY <1>3, <1>6, <1>10, <1>11, <2>1 DEF NothingToTell
  <2> QED BY <1>3, <1>5, <1>7, <1>9, <2>1 DEF NothingToTell
<1>16. DueHolds'
  <2>1. \A w : w \in due <=>
          \E a \in Assets : Home[a] = h /\ Warned(a, loop.day) /\ reminder[a][loop.day] = NoReminder
                            /\ w = Warning(a, loop.day)
    BY Zenon, <1>2 DEF Due
  <2>2. \A a : Warning(a, loop.day).asset = a  BY DEF Warning
  <2>3. \A w \in due : Home[w.asset] = h /\ reminder[w.asset][loop.day] = NoReminder
    BY <2>1, <2>2
  <2>4. ASSUME NEW a \in Assets, Home[a] = h, reminder[a][loop.day] = NoReminder
        PROVE  InHand(due, a) = IF Warned(a, loop.day) THEN {Warning(a, loop.day)} ELSE {}
    BY <2>1, <2>2, <2>4 DEF InHand
  <2>5. \A a \in Assets : Home[a] = h /\ reminder[a][loop.day] = NoReminder =>
          InHand(due, a) = IF Warned(a, loop.day)' THEN {Warning(a, loop.day)'} ELSE {}
    BY <1>5, <1>7, <1>8, <2>4 DEF Stays, Warned, Warning
  <2> QED BY <1>1, <1>3, <1>5, <2>3, <2>5 DEF DueHolds
<1> QED BY <1>12, <1>13, <1>14, <1>15, <1>16 DEF ReminderInv

\* The batch of a household leaves the warning of each untouched asset that had
\* no reminder, and nothing where there is nothing to warn of.
LEMMA InsertDueKeeps ==
  ASSUME TrackerInv, ReminderInv, InsertDue
  PROVE  ReminderInv'
<1>1. PICK h : h = Lowest(loop.left)  OBVIOUS
<1>2. PICK Put : Put = [a \in Assets |-> LET w == CHOOSE w \in loop.due : w.asset = a
                                        IN  [tier |-> w.tier, bucket |-> w.bucket, status |-> "unread"]]
  OBVIOUS
<1>3. /\ loop.pc = "insert" /\ loop' = [loop EXCEPT !.pc = "read", !.left = @ \ {h}, !.due = {}]
      /\ reminder' = [a \in Assets |-> [d \in 0..LastDay |->
           IF d = loop.day /\ \E w \in loop.due : w.asset = a
           THEN LET w == CHOOSE w \in loop.due : w.asset = a
                IN  [tier |-> w.tier, bucket |-> w.bucket, status |-> "unread"]
           ELSE reminder[a][d]]]
      /\ rows' = rows /\ active' = active /\ req' = req /\ today' = today /\ touched' = touched
  BY Zenon, <1>1 DEF InsertDue, trackerVars, history
<1>4. loop \in Pass  BY DEF TrackerInv, TypeOK
<1>5. /\ loop'.pc = "read" /\ loop'.day = loop.day /\ loop'.left = loop.left \ {h}
      /\ loop'.failed = loop.failed
  BY <1>3, <1>4 DEF Pass
<1>6. DaysPass /\ MarksHold /\ Told /\ NothingToTell /\ DueHolds  BY DEF ReminderInv
<1>7. Since = loop.day /\ Since' = loop.day /\ loop.day \in 0..LastDay  BY <1>3, <1>5, ReminderTypes DEF Since
<1>8. \A a \in Assets : Stays(a)  BY <1>3, StaysUnwritten
<1>9. ASSUME NEW a \in Assets, NEW d \in 0..LastDay
      PROVE  reminder'[a][d] = IF d = loop.day /\ InHand(loop.due, a) # {} THEN Put[a] ELSE reminder[a][d]
  <2>1. reminder'[a][d] = IF d = loop.day /\ (\E w \in loop.due : w.asset = a) THEN Put[a] ELSE reminder[a][d]
    BY Zenon, <1>2, <1>3
  <2>2. (\E w \in loop.due : w.asset = a) <=> InHand(loop.due, a) # {}  BY DEF InHand
  <2> QED BY <2>1, <2>2
<1>10. ASSUME NEW a \in Assets, InHand(loop.due, a) # {}
       PROVE  /\ Put[a].status = "unread" /\ Put[a] # NoReminder
              /\ Home[a] = h /\ reminder[a][loop.day] = NoReminder
              /\ \E w \in InHand(loop.due, a) : Put[a].tier = w.tier
  <2>1. PICK w : w = CHOOSE v \in loop.due : v.asset = a  OBVIOUS
  <2>2. w \in loop.due /\ w.asset = a  BY <1>10, <2>1 DEF InHand
  <2>3. Put[a] = [tier |-> w.tier, bucket |-> w.bucket, status |-> "unread"]  BY Zenon, <1>2, <2>1
  <2>4. NoReminder.status = "none"  BY DEF NoReminder
  <2>5. Put[a].status = "unread" /\ Put[a].tier = w.tier  BY <2>3
  <2>6. w \in InHand(loop.due, a)  BY <2>2 DEF InHand
  <2> QED BY <1>1, <1>3, <1>6, <2>2, <2>4, <2>5, <2>6 DEF DueHolds
<1>11. ASSUME NEW a \in Assets \ touched, Home[a] = h, reminder[a][loop.day] = NoReminder
       PROVE  InHand(loop.due, a) = IF Warned(a, loop.day) THEN {Warning(a, loop.day)} ELSE {}
  BY <1>1, <1>3, <1>6, <1>11 DEF DueHolds
<1>12. ASSUME NEW a \in Assets, NEW d \in 0..LastDay, reminder[a][d] # NoReminder
       PROVE  reminder'[a][d] # NoReminder
  BY <1>9, <1>10, <1>12
<1>13. DaysPass'
  <2>1. ASSUME NEW a \in Assets, NEW d \in 0..LastDay, reminder'[a][d] # NoReminder
        PROVE  d <= loop.day /\ reminder'[a][d].status # "none"
    <3>1. CASE d = loop.day /\ InHand(loop.due, a) # {}
      <4>1. reminder'[a][d] = Put[a]  BY <1>9, <3>1
      <4>2. Put[a].status = "unread"  BY <1>10, <3>1
      <4> QED BY <1>7, <3>1, <4>1, <4>2
    <3>2. CASE ~(d = loop.day /\ InHand(loop.due, a) # {})
      <4>1. reminder'[a][d] = reminder[a][d]  BY <1>9, <3>2
      <4> QED BY <1>6, <1>7, <2>1, <4>1 DEF DaysPass
    <3> QED BY <3>1, <3>2
  <2> QED BY <1>3, <1>5, <1>6, <1>7, <2>1 DEF DaysPass
<1>14. MarksHold'
  <2>1. ASSUME NEW t \in Sessions, req[t].pc = "mark" PROVE reminder'[req[t].asset][req[t].day] # NoReminder
    BY <1>6, <1>12, <2>1, MarkOf DEF MarksHold
  <2> QED BY <1>3, <2>1 DEF MarksHold
<1>15. Told'
  <2>1. ASSUME NEW a \in Assets \ touched, reminder'[a][loop.day] # NoReminder
        PROVE  Tells(reminder'[a][loop.day], a, loop.day)
    <3>1. CASE InHand(loop.due, a) # {}
      <4>1. /\ Put[a].status = "unread" /\ Home[a] = h /\ reminder[a][loop.day] = NoReminder
            /\ reminder'[a][loop.day] = Put[a]
        BY <1>7, <1>9, <1>10, <3>1
      <4>2. Warned(a, loop.day) /\ InHand(loop.due, a) = {Warning(a, loop.day)}  BY <1>11, <3>1, <4>1
      <4>3. Put[a].tier = Warning(a, loop.day).tier  BY <1>10, <3>1, <4>2
      <4> QED BY <4>1, <4>2, <4>3 DEF Tells
    <3>2. CASE InHand(loop.due, a) = {}
      <4>1. reminder'[a][loop.day] = reminder[a][loop.day]  BY <1>7, <1>9, <3>2
      <4> QED BY <1>6, <1>7, <2>1, <4>1 DEF Told
    <3> QED BY <3>1, <3>2
  <2>2. ASSUME NEW a \in Assets \ touched, reminder'[a][loop.day] # NoReminder
        PROVE  /\ Warned(a, loop.day)' /\ reminder'[a][loop.day].status # "none"
               /\ reminder'[a][loop.day].tier = Warning(a, loop.day)'.tier
    BY <1>5, <1>7, <1>8, <2>1, <2>2 DEF Tells, Stays, Warned, Warning
  <2> QED BY <1>3, <1>5, <1>7, <2>2 DEF Told, Tells
<1>16. NothingToTell'
  <2>1. ASSUME NEW a \in Assets \ touched, Home[a] \notin (loop.left \ {h}) \cup loop.failed,
               reminder'[a][loop.day] = NoReminder
        PROVE  ~Warned(a, loop.day)
    <3>1. InHand(loop.due, a) = {}  BY <1>7, <1>9, <1>10, <2>1
    <3>2. reminder[a][loop.day] = NoReminder  BY <1>7, <1>9, <2>1, <3>1
    <3>3. CASE Home[a] = h  BY <1>11, <2>1, <3>1, <3>2, <3>3
    <3>4. CASE Home[a] # h  BY <1>3, <1>6, <2>1, <3>2, <3>4 DEF NothingToTell
    <3> QED BY <3>3, <3>4
  <2>2. \A a \in Assets : Warned(a, loop.day)' <=> Warned(a, loop.day)
    BY <1>5, <1>8 DEF Stays, Warned
  <2> QED BY <1>3, <1>5, <1>7, <2>1, <2>2 DEF NothingToTell
<1>17. DueHolds'  BY <1>5 DEF DueHolds
<1> QED BY <1>13, <1>14, <1>15, <1>16, <1>17 DEF ReminderInv

\* Any other step of the pass, and the clock: no row and no reminder changes,
\* the day never goes back, and nobody's turn is forgotten.
LEMMA PassMoves ==
  ASSUME TrackerInv, ReminderInv,
         rows' = rows, active' = active, reminder' = reminder, touched' = touched,
         today' \in 0..LastDay, Since <= Since', Since' \in 0..LastDay, Since' <= today',
         \A s \in Sessions : req'[s].pc = "mark" => req'[s] = req[s],
         loop'.pc # "insert", loop'.pc = "done" => loop'.left = {},
         loop'.pc # "sleep" =>
           \/ Households \subseteq loop'.left
           \/ loop.pc # "sleep" /\ loop'.day = loop.day
              /\ loop.left \cup loop.failed \subseteq loop'.left \cup loop'.failed
  PROVE  ReminderInv'
<1>1. DaysPass /\ MarksHold /\ Told /\ NothingToTell  BY DEF ReminderInv
<1>2. Since \in 0..LastDay  BY ReminderTypes
<1>3. \A a \in Assets : Stays(a)  BY StaysUnwritten
<1>4. DaysPass'
  <2>1. ASSUME NEW a \in Assets, NEW d \in 0..LastDay, reminder[a][d] # NoReminder
        PROVE  d <= Since' /\ reminder[a][d].status # "none"
    <3>1. d <= Since /\ reminder[a][d].status # "none"  BY <1>1, <2>1 DEF DaysPass
    <3> QED BY <1>2, <3>1
  <2> QED BY <2>1 DEF DaysPass
<1>5. MarksHold'  BY <1>1 DEF MarksHold
<1>6. Told'
  <2>1. PICK d : d = Since'  OBVIOUS
  <2>2. ASSUME NEW a \in Assets \ touched, reminder[a][d] # NoReminder
        PROVE  Tells(reminder[a][d], a, d)
    <3>1. d <= Since  BY <1>1, <2>1, <2>2 DEF DaysPass
    <3>2. d = Since  BY <1>2, <2>1, <3>1
    <3> QED BY <1>1, <2>2, <3>2 DEF Told
  <2>3. ASSUME NEW a \in Assets \ touched, reminder[a][d] # NoReminder
        PROVE  /\ Warned(a, d)' /\ reminder[a][d].status # "none"
               /\ reminder[a][d].tier = Warning(a, d)'.tier
    BY <1>3, <2>2, <2>3, WarnsOn DEF Tells
  <2>4. \A a \in Assets : (Warned(a, Since)' <=> Warned(a, d)') /\ Warning(a, Since)' = Warning(a, d)'
    BY Zenon, <2>1 DEF Warned, Warning
  <2> QED BY <2>1, <2>3, <2>4 DEF Told, Tells
<1>7. NothingToTell'
  <2>1. PICK d : d = loop'.day  OBVIOUS
  <2>2. ASSUME loop'.pc # "sleep", NEW a \in Assets \ touched, Home[a] \notin loop'.left \cup loop'.failed,
               reminder[a][d] = NoReminder
        PROVE  ~Warned(a, d)
    <3>1. Home[a] \in Households  BY DEF Households
    <3>2. loop.pc # "sleep" /\ d = loop.day /\ Home[a] \notin loop.left \cup loop.failed
      BY <2>1, <2>2, <3>1
    <3> QED BY <1>1, <2>2, <3>2 DEF NothingToTell
  <2>3. \A a \in Assets : Warned(a, d)' <=> Warned(a, d)  BY <1>3, WarnsOn
  <2>4. \A a \in Assets : Warned(a, loop.day)' <=> Warned(a, d)'  BY Zenon, <2>1 DEF Warned
  <2> QED BY <2>1, <2>2, <2>3, <2>4 DEF NothingToTell
<1>8. DueHolds'  BY DEF DueHolds
<1> QED BY <1>4, <1>5, <1>6, <1>7, <1>8 DEF ReminderInv

LEMMA DailyKeeps ==
  ASSUME TrackerInv, ReminderInv,
         PassBegins \/ InsertFails \/ PassEnds \/ Wake \/ Tick \/ Restart
  PROVE  ReminderInv'
<1>1. rows' = rows /\ active' = active /\ reminder' = reminder /\ touched' = touched
  BY Zenon DEF PassBegins, InsertFails, PassEnds, Wake, Tick, Restart, trackerVars, history
<1>2. loop \in Pass /\ scope \in Scopes  BY DEF TrackerInv, TypeOK
<1>3. scope.days \in 0..LastDay  BY <1>2, TrackerAssumption
<1>4. /\ loop.pc \in {"sleep", "read", "insert", "done"} /\ loop.day \in 0..LastDay
      /\ today \in 0..LastDay /\ LastDay \in Nat
  BY ReminderTypes
<1>5. Since <= today  BY DEF ReminderInv, DaysPass
<1>6. CASE PassBegins
  <2>1. loop.pc = "sleep" /\ loop' = [loop EXCEPT !.pc = "read", !.day = today, !.left = Households]
        /\ today' = today /\ req' = req
    BY <1>6 DEF PassBegins, trackerVars
  <2>2. loop'.pc = "read" /\ loop'.day = today /\ loop'.left = Households  BY <1>2, <2>1 DEF Pass
  <2>3. Since = today /\ Since' = today  BY <2>1, <2>2 DEF Since
  <2> QED BY <1>1, <1>4, <2>1, <2>2, <2>3, PassMoves
<1>7. CASE InsertFails
  <2>1. PICK h : h = Lowest(loop.left)  OBVIOUS
  <2>2. /\ loop.pc = "insert" /\ today' = today /\ req' = req
        /\ loop' = [loop EXCEPT !.pc = "read", !.left = @ \ {h}, !.due = {}, !.failed = @ \cup {h}]
    BY Zenon, <1>7, <2>1 DEF InsertFails, trackerVars
  <2>3. /\ loop'.pc = "read" /\ loop'.day = loop.day /\ loop'.left = loop.left \ {h}
        /\ loop'.failed = loop.failed \cup {h}
    BY <1>2, <2>2 DEF Pass
  <2>4. Since = loop.day /\ Since' = loop.day  BY <2>2, <2>3 DEF Since
  <2>5. loop.left \cup loop.failed \subseteq loop'.left \cup loop'.failed  BY <2>3
  <2> QED BY <1>1, <1>4, <1>5, <2>2, <2>3, <2>4, <2>5, PassMoves
<1>8. CASE PassEnds
  <2>1. /\ loop.pc = "read" /\ loop.left = {} /\ loop' = [loop EXCEPT !.pc = "done"]
        /\ today' = today /\ req' = req
    BY <1>8 DEF PassEnds, trackerVars
  <2>2. /\ loop'.pc = "done" /\ loop'.day = loop.day /\ loop'.left = {} /\ loop'.failed = loop.failed
    BY <1>2, <2>1 DEF Pass
  <2>3. Since = loop.day /\ Since' = loop.day  BY <2>1, <2>2 DEF Since
  <2>4. loop.left \cup loop.failed \subseteq loop'.left \cup loop'.failed  BY <2>1, <2>2
  <2> QED BY <1>1, <1>4, <1>5, <2>1, <2>2, <2>3, <2>4, PassMoves
<1>9. CASE Wake \/ Restart
  <2>1. /\ loop' = Sleeping /\ today' = today
        /\ \/ req' = req
           \/ req' = [s \in Sessions |-> Idle]
    BY <1>9 DEF Wake, Restart, trackerVars
  <2>2. loop'.pc = "sleep"  BY <2>1 DEF Sleeping
  <2>3. Since' = today  BY <2>1, <2>2 DEF Since
  <2>4. \A s \in Sessions : req'[s].pc = "mark" => req'[s] = req[s]  BY <2>1 DEF Idle
  <2> QED BY <1>1, <1>4, <1>5, <2>1, <2>2, <2>3, <2>4, PassMoves
<1>10. CASE Tick
  <2>1. today < scope.days /\ today' = today + 1 /\ loop' = loop /\ req' = req
    BY <1>10 DEF Tick, trackerVars
  <2>2. today' \in 0..LastDay  BY <1>3, <1>4, <2>1
  <2>3. CASE loop.pc = "insert"
    <3>1. DaysPass /\ MarksHold /\ Told /\ NothingToTell /\ DueHolds  BY DEF ReminderInv
    <3>2. Since' = Since /\ Since \in 0..LastDay  BY <2>1, <2>3, ReminderTypes DEF Since
    <3>3. \A a \in Assets : Stays(a)  BY <1>1, StaysUnwritten
    <3>4. DaysPass'  BY <1>1, <1>4, <1>5, <2>1, <3>1, <3>2 DEF DaysPass
    <3>5. MarksHold'  BY <1>1, <2>1, <3>1 DEF MarksHold
    <3>6. Told'  BY <1>1, <3>1, <3>2, <3>3 DEF Told, Tells, Stays, Warned, Warning
    <3>7. NothingToTell'  BY <1>1, <2>1, <3>1, <3>3 DEF NothingToTell, Stays, Warned
    <3>8. DueHolds'  BY <1>1, <2>1, <3>1, <3>3 DEF DueHolds, InHand, Stays, Warned, Warning
    <3> QED BY <3>4, <3>5, <3>6, <3>7, <3>8 DEF ReminderInv
  <2>4. CASE loop.pc # "insert"
    <3>1. Since <= Since' /\ Since' \in 0..LastDay /\ Since' <= today'
      BY <1>4, <1>5, <2>1, <2>2 DEF Since
    <3>2. loop.pc = "done" => loop.left = {}  BY DEF ReminderInv, DaysPass
    <3> QED BY <1>1, <2>1, <2>2, <2>4, <3>1, <3>2, PassMoves
  <2> QED BY <2>3, <2>4
<1> QED BY <1>6, <1>7, <1>8, <1>9, <1>10

LEMMA ReminderStart ==
  ASSUME Init
  PROVE  ReminderInv
<1>1. /\ reminder = [a \in Assets |-> [d \in 0..LastDay |-> NoReminder]] /\ today = 0
      /\ loop = Sleeping /\ req = [s \in Sessions |-> Idle]
  BY DEF Init
<1>2. loop.pc = "sleep" /\ Since = 0  BY <1>1 DEF Sleeping, Since
<1>3. 0 \in 0..LastDay  BY TrackerAssumption
<1>4. DaysPass  BY <1>1, <1>2 DEF DaysPass
<1>5. MarksHold  BY <1>1 DEF MarksHold, Idle
<1>6. Told  BY <1>1, <1>2, <1>3 DEF Told
<1>7. NothingToTell /\ DueHolds  BY <1>2 DEF NothingToTell, DueHolds
<1> QED BY <1>4, <1>5, <1>6, <1>7 DEF ReminderInv

LEMMA ReminderStep ==
  ASSUME TrackerInv, ReminderInv, [Next]_vars
  PROVE  ReminderInv'
<1>1. CASE Tracker
  <2>1. \/ \E s \in Sessions : \/ Requests(s) \/ Check(s) \/ Decide(s) \/ FindCleared(s) \/ ReadPrevious(s)
                               \/ WriteClass(s) \/ SameClass(s) \/ WriteAgain(s)
                               \/ WriteExpiry(s) \/ WriteOpened(s) \/ Mark(s)
        \/ \E a \in Assets : ResolveTask(a) \/ Archive(a)
    BY Zenon, <1>1 DEF Tracker
  <2>2. ASSUME NEW s \in Sessions,
               Requests(s) \/ Check(s) \/ Decide(s) \/ FindCleared(s) \/ ReadPrevious(s) \/ SameClass(s)
        PROVE  ReminderInv'
    BY <2>2, RequestsTouch
  <2>3. ASSUME NEW s \in Sessions,
               WriteClass(s) \/ WriteAgain(s) \/ WriteExpiry(s) \/ WriteOpened(s)
        PROVE  ReminderInv'
    BY <2>3, WritesTouch
  <2>4. ASSUME NEW s \in Sessions, Mark(s) PROVE ReminderInv'  BY <2>4, MarkKeeps
  <2>5. ASSUME NEW a \in Assets, ResolveTask(a) \/ Archive(a) PROVE ReminderInv'
    BY <2>5, ReviewTouches
  <2> QED BY Zenon, <2>1, <2>2, <2>3, <2>4, <2>5
<1>2. CASE Daily
  <2>1. \/ PassBegins \/ ReadDue \/ InsertDue \/ InsertFails \/ PassEnds \/ Wake \/ Tick \/ Restart
        \/ \E s \in Sessions, a \in Assets, d \in 0..LastDay, target \in {"read", "dismissed"} :
             BeginMark(s, target, a, d)
    BY Zenon, <1>2 DEF Daily
  <2> QED BY Zenon, <2>1, ReadDueKeeps, InsertDueKeeps, DailyKeeps, BeginMarkTouches
<1>3. CASE UNCHANGED vars
  <2>1. /\ rows' = rows /\ active' = active /\ req' = req /\ today' = today /\ loop' = loop
        /\ reminder' = reminder /\ touched' = touched
    BY <1>3 DEF vars, trackerVars, dailyVars, history
  <2>2. \A a \in Assets : Stays(a)  BY <2>1, StaysUnwritten
  <2> QED BY <2>1, <2>2, TrackerKeeps
<1> QED BY Zenon, <1>1, <1>2, <1>3 DEF Next

\* When a pass is over, every asset of a household that did not fail and that
\* nobody wrote since has a reminder of the day exactly when its date lies ahead
\* within a window of its category, and of the narrowest of these, whatever
\* requests, restarts and days passed in between (record_due, compute_status).
THEOREM DueAlwaysReminded == Spec => []DueIsReminded
<1>1. TrackerInv /\ ReminderInv => DueIsReminded
  <2>1. SUFFICES ASSUME TrackerInv, ReminderInv, loop.pc = "done",
                        NEW a \in Assets \ touched, Home[a] \notin loop.failed,
                        NEW mark, mark = reminder[a][loop.day],
                        NEW c, c = CategoryOf(rows, a),
                        NEW n, n = Day[Resolved(a)] - loop.day,
                        NEW W, W = {t \in DOMAIN Tiers[c] : 0 <= n /\ n <= Tiers[c][t]}
                 PROVE  IF Resolved(a) = "none" \/ W = {} THEN mark = NoReminder
                        ELSE mark.status # "none" /\ mark.tier \in W /\ \A t \in W : Tiers[c][mark.tier] <= Tiers[c][t]
    BY DEF DueIsReminded
  <2>2. Since = loop.day /\ loop.day \in 0..LastDay  BY <2>1, ReminderTypes DEF Since
  <2>3. loop.left = {}  BY <2>1 DEF ReminderInv, DaysPass
  <2>4. mark = NoReminder => ~Warned(a, loop.day)
    BY <2>1, <2>3 DEF ReminderInv, NothingToTell
  <2>5. mark # NoReminder => Tells(mark, a, loop.day)
    BY <2>1, <2>2 DEF ReminderInv, Told
  <2>6. CASE Resolved(a) = "none"  BY <2>5, <2>6 DEF Tells, Warned
  <2>7. CASE Resolved(a) # "none"
    <3>1. c \in Categories /\ n \in Int  BY <2>1, <2>2, <2>7, ResolvedIsDate
    <3>2. /\ Warns(c, TierFor(c, n)) <=> W # {}
          /\ W # {} => TierFor(c, n) \in W /\ \A t \in W : Tiers[c][TierFor(c, n)] <= Tiers[c][t]
      BY <2>1, <3>1, WarnedIsWithin
    <3>3. Warned(a, loop.day) <=> W # {}  BY Zenon, <2>1, <2>7, <3>2 DEF Warned
    <3>4. Warning(a, loop.day).tier = TierFor(c, n)  BY <2>1 DEF Warning
    <3> QED BY <2>4, <2>5, <2>7, <3>2, <3>3, <3>4 DEF Tells
  <2> QED BY <2>6, <2>7
<1>2. Init => TrackerInv /\ ReminderInv  BY InitInv, ReminderStart
<1>3. TrackerInv /\ ReminderInv /\ [Next]_vars => (TrackerInv /\ ReminderInv)'
  BY NextInv, ReminderStep
<1> QED BY <1>1, <1>2, <1>3, PTL DEF Spec
=============================================================================
