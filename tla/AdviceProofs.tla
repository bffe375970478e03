----------------------------- MODULE AdviceProofs -----------------------------
(***************************************************************************)
(* What holds of advice for any number of presses, things, answers and     *)
(* deciders: the margin of an accepted product, types, the ledger's        *)
(* account of every call, the ground of every offer, and one decision per  *)
(* suggestion.                                                             *)
(***************************************************************************)
EXTENDS Advice, TLAPS

\* A lead by the margin is a strict one.
LEMMA PositiveMargin ==
  ASSUME NEW p \in Product, NEW q \in Product, Beats(p, q)
  PROVE  Lead(p, q) > 0 /\ Lead(q, p) < 0 /\ Lead(p, q) \in Int /\ Lead(q, p) \in Int
<1>1. p.union \in Nat /\ p.union > 0 /\ q.union \in Nat /\ q.union > 0  BY DEF Product
<1>2. Points(p) \in Int /\ Points(q) \in Int
  <2>1. ASSUME NEW x \in Product PROVE Points(x) \in Int
    <3>1. x.brand \in Int /\ x.common \in Int /\ x.union \in Int  BY DEF Product
    <3>2. BrandPoints(x) \in Int  BY <3>1 DEF BrandPoints
    <3>3. ContextPoints(x) \in Int  BY DEF ContextPoints
    <3> QED BY <3>1, <3>2, <3>3 DEF Points
  <2> QED BY <2>1
<1> DEFINE a == Points(p) * q.union  b == Points(q) * p.union  c == p.union * q.union
<1>3. a \in Int /\ b \in Int  BY <1>1, <1>2
<1>4. c \in Int /\ c > 0  BY <1>1
<1>5. Lead(p, q) = a - b /\ Lead(q, p) = b - a  BY DEF Lead
<1>6. a - b >= 15 * c  BY <1>5 DEF Beats
<1> HIDE DEF a, b, c
<1> QED BY <1>3, <1>4, <1>5, <1>6

\* The product a search is decided by does not depend on the order in which
\* the answer lists them, nor on how equal scores are ranked: one that is good
\* enough and beats all others by the margin is the one that is taken.
THEOREM AcceptedIsClear ==
  ASSUME NEW ps \in Seq(Product), NEW i \in DOMAIN ps, Enough(ps[i]),
         \A j \in DOMAIN ps \ {i} : Beats(ps[i], ps[j])
  PROVE  Top(ps) = i /\ Decision(ps) = "accepted"
<1>1. \A j \in DOMAIN ps : ps[j] \in Product  OBVIOUS
<1>2. \A j \in DOMAIN ps \ {i} : Lead(ps[i], ps[j]) > 0 /\ Lead(ps[j], ps[i]) < 0
  BY <1>1, PositiveMargin
<1>3. Lead(ps[i], ps[i]) = 0
  <2>1. \A x \in Int : x - x = 0  OBVIOUS
  <2>2. Points(ps[i]) * ps[i].union \in Int
    <3>1. ps[i].brand \in Int /\ ps[i].common \in Int /\ ps[i].union \in Int  BY <1>1 DEF Product
    <3>2. BrandPoints(ps[i]) \in Int  BY <3>1 DEF BrandPoints
    <3>3. ContextPoints(ps[i]) \in Int  BY DEF ContextPoints
    <3>4. Points(ps[i]) \in Int  BY <3>1, <3>2, <3>3 DEF Points
    <3> QED BY <3>1, <3>4
  <2> QED BY <2>1, <2>2 DEF Lead
<1>4. \A j \in DOMAIN ps \ {i} : Lead(ps[i], ps[j]) \in Int /\ Lead(ps[j], ps[i]) \in Int
  BY <1>1, PositiveMargin
<1>5. \A j \in DOMAIN ps : Lead(ps[i], ps[j]) >= 0  BY <1>2, <1>3, <1>4
<1>6. \A k \in DOMAIN ps \ {i} : ~(Lead(ps[k], ps[i]) >= 0)  BY <1>2, <1>4
<1>7. Top(ps) = i  BY <1>5, <1>6 DEF Top
<1>8. ps # <<>>  OBVIOUS
<1> QED BY <1>7, <1>8 DEF Decision
-----------------------------------------------------------------------------
\* What the variables hold of one press: its rows and events without its name,
\* the calls that left, the suggestions it made and what they refer to.
RowsOf(p) == {x \in Calls \X BOOLEAN : [press |-> p, call |-> x[1], error |-> x[2]] \in ledger}
EventsOf(p) == {x \in Outcomes \X SUBSET Cited :
                  [press |-> p, outcome |-> x[1], cites |-> x[2]] \in event}
SentOf(p) == {c \in Calls : <<p, c>> \in sent}
Made(p) == {c \in Cited : suggestion[<<p, c>>].status # "none"}
RefsOf(p) == {suggestion[<<p, c>>].ref : c \in Cited}

In(R, c) == <<c, TRUE>> \in R \/ <<c, FALSE>> \in R
TellsOf(E) == {x \in E : x[1] \in {"ok", "ungrounded"}}

\* The invariant of one press, of kind k and in the state r, with its rows R,
\* its calls S, its events E, what it stored h, its suggestions M, their
\* references N, and the labels l of its asset.
Stages(k, r) ==
  /\ r.pc \in {"ask", "record"} => k # "enrich"
  /\ r.pc \in {"off", "jina", "store", "snapshot", "charge", "propose"} => k = "enrich"
  /\ r.call = "jina" => k = "enrich" /\ r.pc \notin {"idle", "off", "jina"}
  /\ r.call = "repair" => k \in {"planning", "insights"} /\ r.pc # "idle"
Counted(k, r, R, S) ==
  /\ \A c \in Calls : c \in S \/ In(R, c) => c = r.call \/ (c = "first" /\ r.call = "repair")
  /\ r.call = "repair" => <<"first", TRUE>> \in R
  /\ r.call = "repair" /\ "first" \in S => In(R, "first")
  /\ r.pc \in {"idle", "ask", "off", "jina"} => r.call \notin S
  /\ r.pc \notin {"propose", "done", "dead"} => ~In(R, r.call)
  /\ r.pc \in {"propose", "done"} /\ r.call \in S => In(R, r.call)
Searched(k, r, R, S, h) ==
  /\ k = "enrich" => "first" \notin S
  /\ r.jina = "none" <=> r.call # "jina"
  /\ r.jina = "missing_key" => "jina" \notin S
  /\ r.pc \in {"snapshot", "charge"} => r.call = "jina"
  /\ r.pc = "propose" /\ r.jina \notin {"none", "missing_key"} => In(R, "jina")
  /\ r.pc = "jina" \/ r.jina # "none" => Decision(r.found) # "accepted"
  /\ r.pc \in {"snapshot", "charge", "propose"} => h.job /\ h.off
  /\ r.pc = "charge" \/ (r.pc = "propose" /\ r.jina # "none") => h.jina
  /\ In(R, "jina") => h.job /\ h.jina
Told_(k, r, R, E, M) ==
  /\ k \in {"planning", "insights"} => (<<r.call, FALSE>> \in R <=> TellsOf(E) # {})
  /\ \A c \in M : \E x \in E : x[1] = "ok" /\ c \in x[2]
Sourced(r, R, h, F, f) ==
  /\ f \in r.had => F[f] = "label"
  /\ F[f] = "off" => h.off /\ Decision(r.found) = "accepted" /\ ~In(R, "jina")
  /\ F[f] = "jina" => h.jina /\ In(R, "jina") /\ Decision(r.found) # "accepted"
Offered(k, r, R, E, h, F, N, l) ==
  /\ r.pc = "idle" => r.seen = {}
  /\ N \subseteq r.seen \cup {"label"}
  /\ k = "insights" => \A x \in E : x[1] = "ok" => x[2] # {} /\ x[2] \subseteq r.seen
  /\ r.had \subseteq l
  /\ h.proposed => r.pc = "done" /\ \A f \in DOMAIN F : Sourced(r, R, h, F, f)
Accounts(k, r, R, S, E, h, F, M, N, l) ==
  /\ Stages(k, r) /\ Counted(k, r, R, S) /\ Searched(k, r, R, S, h)
  /\ Told_(k, r, R, E, M) /\ Offered(k, r, R, E, h, F, N, l)

-----------------------------------------------------------------------------
\* Each step of a press, on what it holds.
LEMMA BeginAccounts ==
  ASSUME NEW k \in Kinds, NEW r \in Press, NEW R, NEW S, NEW E, NEW h, NEW F, NEW M, NEW N, NEW l,
         Accounts(k, r, R, S, E, h, F, M, N, l), r.pc = "idle", NEW seen
  PROVE  Accounts(k, [r EXCEPT !.pc = IF k # "enrich" THEN "ask" ELSE "off", !.seen = seen, !.had = l],
                  R, S, E, h, F, M, N, l)
<1> DEFINE q == [r EXCEPT !.pc = IF k # "enrich" THEN "ask" ELSE "off", !.seen = seen, !.had = l]
<1>1. /\ q.pc = (IF k # "enrich" THEN "ask" ELSE "off") /\ q.seen = seen /\ q.had = l
      /\ q.call = r.call /\ q.jina = r.jina /\ q.found = r.found
  BY DEF Press
<1> HIDE DEF q
<1> USE DEF Accounts
<1>2. Stages(k, q)  BY <1>1 DEF Stages
<1>3. Counted(k, q, R, S)  BY <1>1 DEF Counted
<1>4. Searched(k, q, R, S, h)  BY <1>1 DEF Searched
<1>5. Told_(k, q, R, E, M)  BY <1>1 DEF Told_
<1>6. Offered(k, q, R, E, h, F, N, l)  BY <1>1 DEF Offered
<1> QED BY <1>2, <1>3, <1>4, <1>5, <1>6 DEF q

LEMMA AskAccounts ==
  ASSUME NEW k \in Kinds, NEW r \in Press, NEW R, NEW S, NEW E, NEW h, NEW F, NEW M, NEW N, NEW l,
         Accounts(k, r, R, S, E, h, F, M, N, l), r.pc = "ask", NEW answer, NEW cites,
         NEW T, T = S \/ T = S \cup {r.call}
  PROVE  Accounts(k, [r EXCEPT !.pc = "record", !.answer = answer, !.cites = cites],
                  R, T, E, h, F, M, N, l)
<1> DEFINE q == [r EXCEPT !.pc = "record", !.answer = answer, !.cites = cites]
<1>1. /\ q.pc = "record" /\ q.seen = r.seen /\ q.had = r.had
      /\ q.call = r.call /\ q.jina = r.jina /\ q.found = r.found
  BY DEF Press
<1> HIDE DEF q
<1> USE DEF Accounts
<1>2. Stages(k, q)  BY <1>1 DEF Stages
<1>3. Counted(k, q, R, T)  BY <1>1 DEF Counted, Stages
<1>4. Searched(k, q, R, T, h)  BY <1>1 DEF Searched, Stages
<1>5. Told_(k, q, R, E, M)  BY <1>1 DEF Told_
<1>6. Offered(k, q, R, E, h, F, N, l)  BY <1>1 DEF Offered
<1> QED BY <1>2, <1>3, <1>4, <1>5, <1>6 DEF q

LEMMA ErrorAccounts ==
  ASSUME NEW k \in Kinds, NEW r \in Press, NEW R, NEW S, NEW E, NEW h, NEW F, NEW M, NEW N, NEW l,
         Accounts(k, r, R, S, E, h, F, M, N, l), r.pc = "record"
  PROVE  Accounts(k, IF k \in {"planning", "insights"} /\ r.call = "first"
                     THEN [r EXCEPT !.pc = "ask", !.call = "repair"] ELSE [r EXCEPT !.pc = "done"],
                  R \cup {<<r.call, TRUE>>}, S, E, h, F, M, N, l)
<1> DEFINE again == k \in {"planning", "insights"} /\ r.call = "first"
           q == IF again THEN [r EXCEPT !.pc = "ask", !.call = "repair"] ELSE [r EXCEPT !.pc = "done"]
           T == R \cup {<<r.call, TRUE>>}
<1>1. /\ q.pc = (IF again THEN "ask" ELSE "done") /\ q.call = (IF again THEN "repair" ELSE r.call)
      /\ q.seen = r.seen /\ q.had = r.had /\ q.jina = r.jina /\ q.found = r.found
  BY DEF Press
<1>0. r.call \in Calls  BY DEF Press
<1>a. \A c : In(T, c) <=> In(R, c) \/ c = r.call  BY DEF In
<1>b. <<r.call, TRUE>> \in T /\ \A c : <<c, FALSE>> \in T <=> <<c, FALSE>> \in R  OBVIOUS
<1>c. R \subseteq T  OBVIOUS
<1> HIDE DEF q, T
<1> USE DEF Accounts
<1>2. Stages(k, q)  BY <1>1 DEF Stages
<1>3. Counted(k, q, T, S)
  <2>0. Counted(k, r, R, S) /\ Stages(k, r)  OBVIOUS
  <2>1. CASE again
    <3>1. q.call = "repair" /\ q.pc = "ask" /\ r.call = "first"  BY <1>1, <2>1
    <3>2. \A c \in Calls : c \in S \/ In(R, c) => c = "first"  BY <2>0, <3>1 DEF Counted
    <3>3. "repair" \in Calls /\ "repair" # "first"  BY DEF Calls
    <3>4. "repair" \notin S /\ ~In(T, "repair")  BY <3>1, <3>2, <3>3, <1>a
    <3>5. \A c \in Calls : c \in S \/ In(T, c) => c = "first"  BY <3>1, <3>2, <1>a
    <3>6. <<"first", TRUE>> \in T /\ In(T, "first")  BY <3>1, <1>a, <1>b
    <3> QED BY <3>1, <3>4, <3>5, <3>6 DEF Counted
  <2>2. CASE ~again
    <3>1. q.call = r.call /\ q.pc = "done"  BY <1>1, <2>2
    <3>2. In(T, q.call)  BY <3>1, <1>a
    <3>3. <<"first", TRUE>> \in R => <<"first", TRUE>> \in T  BY <1>c
    <3> QED BY <2>0, <3>1, <3>2, <3>3, <1>a DEF Counted
  <2> QED BY <2>1, <2>2
<1>4. Searched(k, q, T, S, h)  BY <1>1, <1>a DEF Searched, Stages
<1>5. Told_(k, q, T, E, M)
  <2>1. <<r.call, FALSE>> \notin R  BY DEF Counted, In
  <2>2. k \in {"planning", "insights"} => <<q.call, FALSE>> \notin T
    <3>1. CASE again
      <4>1. q.call = "repair"  BY <1>1, <3>1
      <4>2. ~In(R, "repair")  BY <3>1 DEF Counted, Calls
      <4> QED BY <4>1, <4>2, <1>b DEF In
    <3>2. CASE ~again  BY <1>1, <3>2, <2>1, <1>b
    <3> QED BY <3>1, <3>2
  <2> QED BY <2>1, <2>2 DEF Told_
<1>6. Offered(k, q, T, E, h, F, N, l)  BY <1>1, <1>a DEF Offered, Sourced
<1> QED BY <1>2, <1>3, <1>4, <1>5, <1>6 DEF q, T

\* A good answer: the row, and what it lands.
LEMMA LandAccounts ==
  ASSUME NEW k \in Kinds, NEW r \in Press, NEW R, NEW S, NEW E, NEW h, NEW F, NEW M, NEW N, NEW l,
         Accounts(k, r, R, S, E, h, F, M, N, l), r.pc = "record", NEW E2, NEW M2, NEW N2,
         k = "planning" => /\ E2 = E \cup {<<"ok", r.cites>>} /\ M2 = M \cup r.cites
                           /\ N2 \subseteq N \cup r.seen \cup {"label"},
         k = "insights" => /\ E2 = E \cup {<<IF r.cites # {} /\ r.cites \subseteq r.seen
                                              THEN "ok" ELSE "ungrounded", r.cites>>}
                           /\ M2 = M /\ N2 = N,
         k = "chat" => E2 = E /\ M2 = M /\ N2 = N
  PROVE  Accounts(k, [r EXCEPT !.pc = "done"], R \cup {<<r.call, FALSE>>}, S, E2, h, F, M2, N2, l)
<1> DEFINE q == [r EXCEPT !.pc = "done"]
           T == R \cup {<<r.call, FALSE>>}
<1>1. /\ q.pc = "done" /\ q.call = r.call
      /\ q.seen = r.seen /\ q.had = r.had /\ q.jina = r.jina /\ q.found = r.found
  BY DEF Press
<1>a. \A c : In(T, c) <=> In(R, c) \/ c = r.call  BY DEF In
<1>b. <<r.call, FALSE>> \in T /\ R \subseteq T  OBVIOUS
<1>c. k \in {"planning", "insights", "chat"}  BY DEF Accounts, Stages, Kinds
<1>d. k = "planning" => /\ \A x \in E2 : x \in E \/ x = <<"ok", r.cites>>
                        /\ <<"ok", r.cites>> \in E2 /\ E \subseteq E2
  OBVIOUS
<1>e. k = "insights" => \E o \in {"ok", "ungrounded"} :
         /\ o = "ok" => r.cites # {} /\ r.cites \subseteq r.seen
         /\ \A x \in E2 : x \in E \/ x = <<o, r.cites>>
         /\ <<o, r.cites>> \in E2 /\ E \subseteq E2
  OBVIOUS
<1> HIDE DEF q, T
<1> USE DEF Accounts
<1>2. Stages(k, q)  BY <1>1 DEF Stages
<1>3. Counted(k, q, T, S)  BY <1>1, <1>a, <1>b DEF Counted, Stages, Calls
<1>4. Searched(k, q, T, S, h)  BY <1>1, <1>a, <1>c DEF Searched, Stages
<1>5. Told_(k, q, T, E2, M2)
  <2>1. CASE k = "planning"
    <3>1. <<"ok", r.cites>> \in TellsOf(E2)  BY <1>d, <2>1 DEF TellsOf
    <3>2. \A c \in M2 : \E x \in E2 : x[1] = "ok" /\ c \in x[2]  BY <1>d, <2>1 DEF Told_
    <3> QED BY <3>1, <3>2, <1>1, <1>b DEF Told_
  <2>2. CASE k = "insights"
    <3>1. TellsOf(E2) # {}  BY <1>e, <2>2 DEF TellsOf
    <3>2. \A c \in M2 : \E x \in E2 : x[1] = "ok" /\ c \in x[2]  BY <1>e, <2>2 DEF Told_
    <3> QED BY <3>1, <3>2, <1>1, <1>b DEF Told_
  <2>3. CASE k = "chat"  BY <2>3 DEF Told_
  <2> QED BY <1>c, <2>1, <2>2, <2>3
<1>6. Offered(k, q, T, E2, h, F, N2, l)
  <2>1. N2 \subseteq q.seen \cup {"label"}  BY <1>1, <1>c DEF Offered
  <2>2. k = "insights" => \A x \in E2 : x[1] = "ok" => x[2] # {} /\ x[2] \subseteq q.seen
    BY <1>1, <1>e DEF Offered
  <2>3. ~h.proposed  BY DEF Offered
  <2> QED BY <2>1, <2>2, <2>3, <1>1 DEF Offered
<1> QED BY <1>2, <1>3, <1>4, <1>5, <1>6 DEF q, T

\* An event that is neither an answer nor its rejection.
LEMMA EventAccounts ==
  ASSUME NEW k \in Kinds, NEW r \in Press, NEW R, NEW S, NEW E, NEW h, NEW F, NEW M, NEW N, NEW l,
         Accounts(k, r, R, S, E, h, F, M, N, l), NEW o \in {"empty", "correction"}
  PROVE  Accounts(k, r, R, S, E \cup {<<o, {}>>}, h, F, M, N, l)
<1> DEFINE T == E \cup {<<o, {}>>}
<1>1. \A x \in T : x \in E \/ (x[1] # "ok" /\ x[1] # "ungrounded")  OBVIOUS
<1>2. E \subseteq T  OBVIOUS
<1> HIDE DEF T
<1>3. TellsOf(T) = TellsOf(E)  BY <1>1, <1>2 DEF TellsOf
<1>4. Told_(k, r, R, T, M)  BY <1>2, <1>3 DEF Accounts, Told_
<1>5. Offered(k, r, R, T, h, F, N, l)  BY <1>1 DEF Accounts, Offered
<1> QED BY <1>4, <1>5 DEF Accounts, T

\* A press that ends early, before a call or in the middle.
LEMMA EndAccounts ==
  ASSUME NEW k \in Kinds, NEW r \in Press, NEW R, NEW S, NEW E, NEW h, NEW F, NEW M, NEW N, NEW l,
         Accounts(k, r, R, S, E, h, F, M, N, l), NEW pc,
         (pc = "done" /\ r.pc = "idle") \/ (pc = "dead" /\ r.pc \notin {"idle", "done"})
  PROVE  Accounts(k, [r EXCEPT !.pc = pc], R, S, E, h, F, M, N, l)
<1> DEFINE q == [r EXCEPT !.pc = pc]
<1>1. /\ q.pc = pc /\ q.call = r.call
      /\ q.seen = r.seen /\ q.had = r.had /\ q.jina = r.jina /\ q.found = r.found
  BY DEF Press
<1> HIDE DEF q
<1> USE DEF Accounts
<1>2. Stages(k, q)  BY <1>1 DEF Stages
<1>3. Counted(k, q, R, S)  BY <1>1 DEF Counted, Stages
<1>4. Searched(k, q, R, S, h)  BY <1>1 DEF Searched, Stages
<1>5. Told_(k, q, R, E, M)  BY <1>1 DEF Told_
<1>6. Offered(k, q, R, E, h, F, N, l)  BY <1>1 DEF Offered, Sourced
<1> QED BY <1>2, <1>3, <1>4, <1>5, <1>6 DEF q

\* An enrichment: the search and its fallback.
LEMMA FetchAccounts ==
  ASSUME NEW k \in Kinds, NEW r \in Press, NEW R, NEW S, NEW E, NEW h, NEW F, NEW M, NEW N, NEW l,
         Accounts(k, r, R, S, E, h, F, M, N, l), r.pc = "off", NEW found
  PROVE  Accounts(k, [r EXCEPT !.found = found,
                               !.pc = IF Decision(found) = "accepted" THEN "store" ELSE "jina"],
                  R, S, E, h, F, M, N, l)
<1> DEFINE q == [r EXCEPT !.found = found,
                          !.pc = IF Decision(found) = "accepted" THEN "store" ELSE "jina"]
<1>1. /\ q.pc = (IF Decision(found) = "accepted" THEN "store" ELSE "jina") /\ q.call = r.call
      /\ q.seen = r.seen /\ q.had = r.had /\ q.jina = r.jina /\ q.found = found
  BY DEF Press
<1>2. r.call # "jina" /\ r.jina = "none"  BY DEF Accounts, Stages, Searched
<1> HIDE DEF q
<1> USE DEF Accounts
<1>3. Stages(k, q)  BY <1>1 DEF Stages
<1>4. Counted(k, q, R, S)  BY <1>1 DEF Counted, Stages
<1>5. Searched(k, q, R, S, h)  BY <1>1, <1>2 DEF Searched, Stages
<1>6. Told_(k, q, R, E, M)  BY <1>1 DEF Told_
<1>7. Offered(k, q, R, E, h, F, N, l)  BY <1>1 DEF Offered
<1> QED BY <1>3, <1>4, <1>5, <1>6, <1>7 DEF q

LEMMA JinaAccounts ==
  ASSUME NEW k \in Kinds, NEW r \in Press, NEW R, NEW S, NEW E, NEW h, NEW F, NEW M, NEW N, NEW l,
         Accounts(k, r, R, S, E, h, F, M, N, l), r.pc = "jina", NEW jina \in Jina \ {"none"}
  PROVE  Accounts(k, [r EXCEPT !.pc = "store", !.call = "jina", !.jina = jina],
                  R, IF jina = "missing_key" THEN S ELSE S \cup {"jina"}, E, h, F, M, N, l)
<1> DEFINE q == [r EXCEPT !.pc = "store", !.call = "jina", !.jina = jina]
           T == IF jina = "missing_key" THEN S ELSE S \cup {"jina"}
<1>1. /\ q.pc = "store" /\ q.call = "jina"
      /\ q.seen = r.seen /\ q.had = r.had /\ q.jina = jina /\ q.found = r.found
  BY DEF Press
<1>2. r.call = "first" /\ k = "enrich"  BY DEF Accounts, Stages, Press, Calls
<1>3. \A c \in Calls : c \notin S /\ ~In(R, c)
  <2>1. \A c \in Calls : c \in S \/ In(R, c) => c = "first"  BY <1>2 DEF Accounts, Counted
  <2>2. "first" \notin S /\ ~In(R, "first")  BY <1>2 DEF Accounts, Counted
  <2> QED BY <2>1, <2>2
<1>4. "jina" \in Calls /\ "first" \in Calls  BY DEF Calls
<1>5. T \subseteq S \cup {"jina"} /\ (jina = "missing_key" => T = S)  OBVIOUS
<1> HIDE DEF q, T
<1> USE DEF Accounts
<1>6. Stages(k, q)  BY <1>1, <1>2 DEF Stages
<1>7. Counted(k, q, R, T)  BY <1>1, <1>3, <1>4, <1>5 DEF Counted
<1>8. Searched(k, q, R, T, h)  BY <1>1, <1>2, <1>3, <1>4, <1>5 DEF Searched, Stages
<1>9. Told_(k, q, R, E, M)  BY <1>2, <1>1 DEF Told_
<1>10. Offered(k, q, R, E, h, F, N, l)  BY <1>1 DEF Offered
<1> QED BY <1>6, <1>7, <1>8, <1>9, <1>10 DEF q, T

\* The commits of an enrichment.
LEMMA StoreOffAccounts ==
  ASSUME NEW k \in Kinds, NEW r \in Press, NEW R, NEW S, NEW E, NEW h \in Shop, NEW F, NEW M, NEW N, NEW l,
         Accounts(k, r, R, S, E, h, F, M, N, l), r.pc = "store"
  PROVE  Accounts(k, [r EXCEPT !.pc = IF r.jina = "none" THEN "propose" ELSE "snapshot"],
                  R, S, E, [h EXCEPT !.job = TRUE, !.off = TRUE], F, M, N, l)
<1> DEFINE q == [r EXCEPT !.pc = IF r.jina = "none" THEN "propose" ELSE "snapshot"]
           g == [h EXCEPT !.job = TRUE, !.off = TRUE]
<1>1. /\ q.pc = (IF r.jina = "none" THEN "propose" ELSE "snapshot") /\ q.call = r.call
      /\ q.seen = r.seen /\ q.had = r.had /\ q.jina = r.jina /\ q.found = r.found
  BY DEF Press
<1>2. g.job /\ g.off /\ g.jina = h.jina /\ g.proposed = h.proposed  BY Zenon DEF Shop
<1>3. ~h.proposed  BY Zenon DEF Accounts, Offered
<1>4. r.jina = "none" => r.call = "first"
  BY DEF Accounts, Searched, Stages, Press, Calls
<1> HIDE DEF q, g
<1> USE DEF Accounts
<1>5. Stages(k, q)  BY <1>1 DEF Stages
<1>6. Counted(k, q, R, S)  BY <1>1, <1>4 DEF Counted, Stages, Searched
<1>7. Searched(k, q, R, S, g)  BY <1>1, <1>2 DEF Searched, Stages
<1>8. Told_(k, q, R, E, M)  BY <1>1 DEF Told_
<1>9. Offered(k, q, R, E, g, F, N, l)  BY <1>1, <1>2, <1>3 DEF Offered
<1> QED BY <1>5, <1>6, <1>7, <1>8, <1>9 DEF q, g

LEMMA StoreJinaAccounts ==
  ASSUME NEW k \in Kinds, NEW r \in Press, NEW R, NEW S, NEW E, NEW h \in Shop, NEW F, NEW M, NEW N, NEW l,
         Accounts(k, r, R, S, E, h, F, M, N, l), r.pc = "snapshot"
  PROVE  Accounts(k, [r EXCEPT !.pc = IF r.jina = "missing_key" THEN "propose" ELSE "charge"],
                  R, S, E, [h EXCEPT !.jina = TRUE], F, M, N, l)
<1> DEFINE q == [r EXCEPT !.pc = IF r.jina = "missing_key" THEN "propose" ELSE "charge"]
           g == [h EXCEPT !.jina = TRUE]
<1>1. /\ q.pc = (IF r.jina = "missing_key" THEN "propose" ELSE "charge") /\ q.call = r.call
      /\ q.seen = r.seen /\ q.had = r.had /\ q.jina = r.jina /\ q.found = r.found
  BY DEF Press
<1>2. g.job = h.job /\ g.off = h.off /\ g.jina /\ g.proposed = h.proposed  BY Zenon DEF Shop
<1>3. ~h.proposed  BY Zenon DEF Accounts, Offered
<1> HIDE DEF q, g
<1> USE DEF Accounts
<1>5. Stages(k, q)  BY <1>1 DEF Stages
<1>6. Counted(k, q, R, S)  BY <1>1 DEF Counted, Stages, Searched
<1>7. Searched(k, q, R, S, g)  BY <1>1, <1>2 DEF Searched, Stages
<1>8. Told_(k, q, R, E, M)  BY <1>1 DEF Told_
<1>9. Offered(k, q, R, E, g, F, N, l)  BY <1>1, <1>2, <1>3 DEF Offered
<1> QED BY <1>5, <1>6, <1>7, <1>8, <1>9 DEF q, g

LEMMA ChargeAccounts ==
  ASSUME NEW k \in Kinds, NEW r \in Press, NEW R, NEW S, NEW E, NEW h, NEW F, NEW M, NEW N, NEW l,
         Accounts(k, r, R, S, E, h, F, M, N, l), r.pc = "charge", NEW e \in BOOLEAN
  PROVE  Accounts(k, [r EXCEPT !.pc = "propose"], R \cup {<<r.call, e>>}, S, E, h, F, M, N, l)
<1> DEFINE q == [r EXCEPT !.pc = "propose"]
           T == R \cup {<<r.call, e>>}
<1>1. /\ q.pc = "propose" /\ q.call = r.call
      /\ q.seen = r.seen /\ q.had = r.had /\ q.jina = r.jina /\ q.found = r.found
  BY DEF Press
<1>2. r.call = "jina" /\ k = "enrich"  BY DEF Accounts, Stages, Searched
<1>3. ~h.proposed  BY DEF Accounts, Offered
<1>4. \A c : In(T, c) <=> In(R, c) \/ c = r.call
  <2>1. <<r.call, e>> = <<r.call, TRUE>> \/ <<r.call, e>> = <<r.call, FALSE>>  OBVIOUS
  <2> QED BY <2>1 DEF In
<1> HIDE DEF q, T
<1> USE DEF Accounts
<1>5. Stages(k, q)  BY <1>1 DEF Stages
<1>6. Counted(k, q, T, S)  BY <1>1, <1>2, <1>4 DEF Counted, Stages
<1>7. Searched(k, q, T, S, h)  BY <1>1, <1>2, <1>4 DEF Searched, Stages
<1>8. Told_(k, q, T, E, M)  BY <1>2 DEF Told_
<1>9. Offered(k, q, T, E, h, F, N, l)  BY <1>1, <1>3 DEF Offered
<1> QED BY <1>5, <1>6, <1>7, <1>8, <1>9 DEF q, T

\* The candidate: its fields are those of the label, of the winner and of
\* Jina's first result, in this order.
LEMMA ProposeAccounts ==
  ASSUME NEW k \in Kinds, NEW r \in Press, NEW R, NEW S, NEW E, NEW h \in Shop, NEW F, NEW M, NEW N, NEW l,
         Accounts(k, r, R, S, E, h, F, M, N, l), r.pc = "propose", NEW fields,
         \A f \in DOMAIN fields :
            /\ f \in l => fields[f] = "label"
            /\ fields[f] = "off" => Decision(r.found) = "accepted"
            /\ fields[f] = "jina" => r.jina = "hit"
  PROVE  Accounts(k, [r EXCEPT !.pc = "done"], R, S, E,
                  [h EXCEPT !.proposed = TRUE], fields, M, N, l)
<1> DEFINE q == [r EXCEPT !.pc = "done"]
           g == [h EXCEPT !.proposed = TRUE]
<1>1. /\ q.pc = "done" /\ q.call = r.call
      /\ q.seen = r.seen /\ q.had = r.had /\ q.jina = r.jina /\ q.found = r.found
  BY DEF Press
<1>2. g.job = h.job /\ g.off = h.off /\ g.jina = h.jina  BY Zenon DEF Shop
<1>3. r.had \subseteq l  BY DEF Accounts, Offered
<1> HIDE DEF q, g
<1> USE DEF Accounts
<1>4. Decision(r.found) = "accepted" => ~In(R, "jina")
  <2>1. Decision(r.found) = "accepted" => r.call # "jina"  BY DEF Searched
  <2> QED BY <2>1 DEF Counted, Calls
<1>5. Stages(k, q)  BY <1>1 DEF Stages
<1>6. Counted(k, q, R, S)  BY <1>1 DEF Counted, Stages
<1>7. Searched(k, q, R, S, g)  BY <1>1, <1>2 DEF Searched, Stages
<1>8. Told_(k, q, R, E, M)  BY <1>1 DEF Told_
<1>9. ASSUME NEW f \in DOMAIN fields PROVE Sourced(q, R, g, fields, f)
  <2>1. f \in q.had => fields[f] = "label"  BY <1>1, <1>2, <1>3, <1>9
  <2>2. fields[f] = "off" => g.off /\ Decision(q.found) = "accepted" /\ ~In(R, "jina")
    BY <1>1, <1>2, <1>4, <1>9 DEF Searched
  <2>3. fields[f] = "jina" => g.jina /\ In(R, "jina") /\ Decision(q.found) # "accepted"
    BY <1>1, <1>2, <1>9 DEF Searched
  <2> QED BY <2>1, <2>2, <2>3 DEF Sourced
<1>10. Offered(k, q, R, E, g, fields, N, l)
  BY <1>1, <1>9 DEF Offered
<1> QED BY <1>5, <1>6, <1>7, <1>8, <1>10 DEF q, g

\* What other presses do, and more labels, disturb nothing.
LEMMA LabelAccounts ==
  ASSUME NEW k, NEW r, NEW R, NEW S, NEW E, NEW h, NEW F, NEW M, NEW N, NEW l, NEW l2,
         Accounts(k, r, R, S, E, h, F, M, N, l), l \subseteq l2
  PROVE  Accounts(k, r, R, S, E, h, F, M, N, l2)
BY DEF Accounts, Offered
-----------------------------------------------------------------------------
\* How the variables change what they hold of each press.
LEMMA LoggedRows ==
  ASSUME TypeOK, NEW p \in Presses, NEW e \in BOOLEAN, Log(p, e)
  PROVE  /\ RowsOf(p)' = RowsOf(p) \cup {<<press[p].call, e>>}
         /\ \A q \in Presses \ {p} : RowsOf(q)' = RowsOf(q)
<1>1. press[p].call \in Calls  BY DEF TypeOK, Press
<1> DEFINE row == [press |-> p, call |-> press[p].call, error |-> e]
<1>2. ledger' = ledger \cup {row}  BY DEF Log
<1>3. ASSUME NEW q \in Presses, NEW x \in Calls \X BOOLEAN
      PROVE  [press |-> q, call |-> x[1], error |-> x[2]] = row <=> q = p /\ x = <<press[p].call, e>>
  OBVIOUS
<1> HIDE DEF row
<1>4. RowsOf(p)' = RowsOf(p) \cup {<<press[p].call, e>>}
  <2>1. <<press[p].call, e>> \in Calls \X BOOLEAN  BY <1>1
  <2> QED BY <1>2, <1>3, <2>1 DEF RowsOf
<1>5. ASSUME NEW q \in Presses \ {p} PROVE RowsOf(q)' = RowsOf(q)
  BY <1>2, <1>3 DEF RowsOf
<1> QED BY <1>4, <1>5

LEMMA ToldEvents ==
  ASSUME NEW p \in Presses, NEW o \in Outcomes, NEW c \in SUBSET Cited, Tell(p, o, c)
  PROVE  /\ EventsOf(p)' = EventsOf(p) \cup {<<o, c>>}
         /\ \A q \in Presses \ {p} : EventsOf(q)' = EventsOf(q)
<1> DEFINE row == [press |-> p, outcome |-> o, cites |-> c]
<1>1. event' = event \cup {row}  BY DEF Tell
<1>2. ASSUME NEW q \in Presses, NEW x \in Outcomes \X SUBSET Cited
      PROVE  [press |-> q, outcome |-> x[1], cites |-> x[2]] = row <=> q = p /\ x = <<o, c>>
  OBVIOUS
<1> HIDE DEF row
<1>3. EventsOf(p)' = EventsOf(p) \cup {<<o, c>>}  BY <1>1, <1>2 DEF EventsOf
<1>4. ASSUME NEW q \in Presses \ {p} PROVE EventsOf(q)' = EventsOf(q)
  BY <1>1, <1>2 DEF EventsOf
<1> QED BY <1>3, <1>4

LEMMA SentCalls ==
  ASSUME NEW p \in Presses, NEW c \in Calls, sent' = sent \cup {<<p, c>>}
  PROVE  /\ SentOf(p)' = SentOf(p) \cup {c}
         /\ \A q \in Presses \ {p} : SentOf(q)' = SentOf(q)
BY DEF SentOf

LEMMA SameRows ==
  /\ ledger' = ledger => \A q \in Presses : RowsOf(q)' = RowsOf(q)
  /\ event' = event => \A q \in Presses : EventsOf(q)' = EventsOf(q)
  /\ sent' = sent => \A q \in Presses : SentOf(q)' = SentOf(q)
  /\ suggestion' = suggestion => \A q \in Presses : Made(q)' = Made(q) /\ RefsOf(q)' = RefsOf(q)
BY DEF RowsOf, EventsOf, SentOf, Made, RefsOf

AccountOf(p) ==
  Accounts(Kind[p], press[p], RowsOf(p), SentOf(p), EventsOf(p), shop[p], candidate[p],
           Made(p), RefsOf(p), label)

LEMMA SameAccount ==
  ASSUME NEW q \in Presses, AccountOf(q), press'[q] = press[q], RowsOf(q)' = RowsOf(q),
         SentOf(q)' = SentOf(q), EventsOf(q)' = EventsOf(q), shop'[q] = shop[q],
         candidate'[q] = candidate[q], Made(q)' = Made(q), RefsOf(q)' = RefsOf(q), label \subseteq label'
  PROVE  AccountOf(q)'
BY LabelAccounts DEF AccountOf

\* A press that takes a step has the account of the lemmas above; those that
\* do not keep theirs.
LEMMA OneAccount ==
  ASSUME NEW p \in Presses, \A q \in Presses : AccountOf(q),
         NEW r, NEW R, NEW S, NEW E, NEW h, NEW F, NEW M, NEW N,
         Accounts(Kind[p], r, R, S, E, h, F, M, N, label),
         press'[p] = r, RowsOf(p)' = R, SentOf(p)' = S, EventsOf(p)' = E, shop'[p] = h,
         candidate'[p] = F, Made(p)' = M, RefsOf(p)' = N,
         \A q \in Presses \ {p} :
            /\ press'[q] = press[q] /\ RowsOf(q)' = RowsOf(q) /\ SentOf(q)' = SentOf(q)
            /\ EventsOf(q)' = EventsOf(q) /\ shop'[q] = shop[q] /\ candidate'[q] = candidate[q]
            /\ Made(q)' = Made(q) /\ RefsOf(q)' = RefsOf(q),
         label' = label
  PROVE  \A q \in Presses : AccountOf(q)'
<1>1. AccountOf(p)'  BY Zenon DEF AccountOf
<1>2. ASSUME NEW q \in Presses \ {p} PROVE AccountOf(q)'  BY <1>2, SameAccount
<1> QED BY <1>1, <1>2

LEMMA Moved ==
  ASSUME TypeOK, NEW p \in Presses, NEW r, Goes(p, r)
  PROVE  press'[p] = r /\ \A q \in Presses \ {p} : press'[q] = press[q]
<1>1. DOMAIN press = Presses  BY DEF TypeOK
<1> QED BY <1>1 DEF Goes

\* A step that only moves the press.
LEMMA MoveAccount ==
  ASSUME TypeOK, \A q \in Presses : AccountOf(q), NEW p \in Presses, NEW r, Goes(p, r),
         Accounts(Kind[p], r, RowsOf(p), SentOf(p), EventsOf(p), shop[p], candidate[p],
                  Made(p), RefsOf(p), label),
         UNCHANGED <<world, ledger, event, shop, candidate, sent, decisionVars>>
  PROVE  \A q \in Presses : AccountOf(q)'
<1>1. ledger' = ledger /\ event' = event /\ sent' = sent /\ shop' = shop /\ candidate' = candidate
      /\ suggestion' = suggestion /\ label' = label
  BY DEF world, decisionVars
<1>2. \A q \in Presses : /\ RowsOf(q)' = RowsOf(q) /\ EventsOf(q)' = EventsOf(q)
                         /\ SentOf(q)' = SentOf(q) /\ Made(q)' = Made(q) /\ RefsOf(q)' = RefsOf(q)
                         /\ shop'[q] = shop[q] /\ candidate'[q] = candidate[q]
  BY <1>1, SameRows
<1>3. press'[p] = r /\ \A q \in Presses \ {p} : press'[q] = press[q]  BY Moved
<1> QED BY <1>1, <1>2, <1>3, OneAccount

LEMMA PressFacts ==
  ASSUME TypeOK, NEW p \in Presses, AccountOf(p)
  PROVE  /\ Kind[p] \in Kinds /\ press[p] \in Press /\ press[p].call \in Calls /\ shop[p] \in Shop
         /\ Accounts(Kind[p], press[p], RowsOf(p), SentOf(p), EventsOf(p), shop[p], candidate[p],
                     Made(p), RefsOf(p), label)
<1>1. Kind[p] \in Kinds  BY AdviceAssumption
<1>2. press[p] \in Press /\ shop[p] \in Shop  BY DEF TypeOK
<1>3. press[p].call \in Calls  BY <1>2 DEF Press
<1> QED BY <1>1, <1>2, <1>3 DEF AccountOf

LEMMA RefuseAccount ==
  ASSUME TypeOK, \A q \in Presses : AccountOf(q), NEW p \in Presses, Refuse(p)
  PROVE  \A q \in Presses : AccountOf(q)'
<1>1. Goes(p, [press[p] EXCEPT !.pc = "done"]) /\ press[p].pc = "idle"  BY DEF Refuse, To
<1>2. Accounts(Kind[p], [press[p] EXCEPT !.pc = "done"], RowsOf(p), SentOf(p), EventsOf(p), shop[p],
               candidate[p], Made(p), RefsOf(p), label)
  BY <1>1, PressFacts, EndAccounts
<1>3. UNCHANGED <<world, ledger, event, shop, candidate, sent, decisionVars>>  BY Zenon DEF Refuse
<1> QED BY <1>1, <1>2, <1>3, MoveAccount

LEMMA DiesAccount ==
  ASSUME TypeOK, \A q \in Presses : AccountOf(q), NEW p \in Presses, Dies(p)
  PROVE  \A q \in Presses : AccountOf(q)'
<1>1. Goes(p, [press[p] EXCEPT !.pc = "dead"]) /\ press[p].pc \notin {"idle", "done"}  BY DEF Dies, To
<1>2. Accounts(Kind[p], [press[p] EXCEPT !.pc = "dead"], RowsOf(p), SentOf(p), EventsOf(p), shop[p],
               candidate[p], Made(p), RefsOf(p), label)
  BY <1>1, PressFacts, EndAccounts
<1>3. UNCHANGED <<world, ledger, event, shop, candidate, sent, decisionVars>>  BY Zenon DEF Dies
<1> QED BY <1>1, <1>2, <1>3, MoveAccount

LEMMA BeginAccount ==
  ASSUME TypeOK, \A q \in Presses : AccountOf(q), NEW p \in Presses, Begin(p)
  PROVE  \A q \in Presses : AccountOf(q)'
<1> DEFINE r == [press[p] EXCEPT !.pc = IF Kind[p] # "enrich" THEN "ask" ELSE "off",
                                 !.seen = Shown(p), !.had = label]
<1>1. Goes(p, r) /\ press[p].pc = "idle"  BY DEF Begin, Assists
<1>2. Accounts(Kind[p], r, RowsOf(p), SentOf(p), EventsOf(p), shop[p],
               candidate[p], Made(p), RefsOf(p), label)
  BY Zenon, <1>1, PressFacts, BeginAccounts
<1>3. UNCHANGED <<world, ledger, event, shop, candidate, sent, decisionVars>>  BY Zenon DEF Begin
<1> HIDE DEF r
<1> QED BY <1>1, <1>2, <1>3, MoveAccount

LEMMA FetchOffAccount ==
  ASSUME TypeOK, \A q \in Presses : AccountOf(q), NEW p \in Presses, FetchOff(p)
  PROVE  \A q \in Presses : AccountOf(q)'
<1>1. PICK found \in OffAnswers \cup {<<>>} :
        Goes(p, [press[p] EXCEPT !.found = found,
                                 !.pc = IF Decision(found) = "accepted" THEN "store" ELSE "jina"])
  BY Zenon DEF FetchOff
<1>2. press[p].pc = "off"  BY Zenon DEF FetchOff
<1> DEFINE r == [press[p] EXCEPT !.found = found,
                                 !.pc = IF Decision(found) = "accepted" THEN "store" ELSE "jina"]
<1>3. Accounts(Kind[p], r, RowsOf(p), SentOf(p), EventsOf(p), shop[p],
               candidate[p], Made(p), RefsOf(p), label)
  BY Zenon, <1>2, PressFacts, FetchAccounts
<1>4. UNCHANGED <<world, ledger, event, shop, candidate, sent, decisionVars>>  BY Zenon DEF FetchOff
<1>5. Goes(p, r)  BY <1>1
<1> HIDE DEF r
<1> QED BY <1>3, <1>4, <1>5, MoveAccount

\* The calls that leave.
LEMMA AskAccount ==
  ASSUME TypeOK, \A q \in Presses : AccountOf(q), NEW p \in Presses, Ask(p)
  PROVE  \A q \in Presses : AccountOf(q)'
<1>1. PICK answer \in {"good", "malformed", "refused"}, cites \in SUBSET Cited, left \in BOOLEAN :
        /\ Goes(p, [press[p] EXCEPT !.pc = "record", !.answer = answer, !.cites = cites])
        /\ sent' = IF left THEN sent \cup {<<p, press[p].call>>} ELSE sent
  BY Zenon DEF Ask
<1>2. press[p].pc = "ask"  BY Zenon DEF Ask
<1>3. UNCHANGED <<world, ledger, event, shop, candidate, decisionVars>>  BY Zenon DEF Ask
<1>4. ledger' = ledger /\ event' = event /\ shop' = shop /\ candidate' = candidate
      /\ suggestion' = suggestion /\ label' = label
  BY <1>3 DEF world, decisionVars
<1>5. press[p].call \in Calls  BY PressFacts
<1>6. \/ sent' = sent
      \/ sent' = sent \cup {<<p, press[p].call>>}
  BY <1>1
<1>7. /\ SentOf(p)' = SentOf(p) \/ SentOf(p)' = SentOf(p) \cup {press[p].call}
      /\ \A q \in Presses \ {p} : SentOf(q)' = SentOf(q)
  BY <1>5, <1>6, SentCalls, SameRows
<1> DEFINE r == [press[p] EXCEPT !.pc = "record", !.answer = answer, !.cites = cites]
<1>8. Accounts(Kind[p], r, RowsOf(p), SentOf(p)', EventsOf(p), shop[p], candidate[p],
               Made(p), RefsOf(p), label)
  <2> DEFINE T == SentOf(p)'
  <2>1. T = SentOf(p) \/ T = SentOf(p) \cup {press[p].call}  BY <1>7
  <2> HIDE DEF T
  <2>2. Accounts(Kind[p], r, RowsOf(p), T, EventsOf(p), shop[p], candidate[p],
                 Made(p), RefsOf(p), label)
    BY Zenon, <1>2, <2>1, PressFacts, AskAccounts
  <2> QED BY <2>2 DEF T
<1>9. Goes(p, r)  BY <1>1
<1> HIDE DEF r
<1>10. press'[p] = r /\ \A q \in Presses \ {p} : press'[q] = press[q]  BY <1>9, Moved
<1>11. \A q \in Presses : /\ RowsOf(q)' = RowsOf(q) /\ EventsOf(q)' = EventsOf(q)
                          /\ Made(q)' = Made(q) /\ RefsOf(q)' = RefsOf(q)
                          /\ shop'[q] = shop[q] /\ candidate'[q] = candidate[q]
  BY <1>4, SameRows
<1> QED BY <1>4, <1>7, <1>8, <1>10, <1>11, OneAccount

LEMMA FetchJinaAccount ==
  ASSUME TypeOK, \A q \in Presses : AccountOf(q), NEW p \in Presses, FetchJina(p)
  PROVE  \A q \in Presses : AccountOf(q)'
<1>1. PICK jina \in Jina \ {"none"} :
        /\ Goes(p, [press[p] EXCEPT !.pc = "store", !.call = "jina", !.jina = jina])
        /\ sent' = IF jina = "missing_key" THEN sent ELSE sent \cup {<<p, "jina">>}
  BY Zenon DEF FetchJina
<1>2. press[p].pc = "jina"  BY Zenon DEF FetchJina
<1>3. UNCHANGED <<world, ledger, event, shop, candidate, decisionVars>>  BY Zenon DEF FetchJina
<1>4. ledger' = ledger /\ event' = event /\ shop' = shop /\ candidate' = candidate
      /\ suggestion' = suggestion /\ label' = label
  BY <1>3 DEF world, decisionVars
<1>5. "jina" \in Calls  BY DEF Calls
<1> DEFINE T == IF jina = "missing_key" THEN SentOf(p) ELSE SentOf(p) \cup {"jina"}
<1>7. SentOf(p)' = T /\ \A q \in Presses \ {p} : SentOf(q)' = SentOf(q)
  <2>1. CASE jina = "missing_key"
    <3>1. sent' = sent  BY <1>1, <2>1
    <3> QED BY <2>1, <3>1, SameRows
  <2>2. CASE jina # "missing_key"
    <3>1. sent' = sent \cup {<<p, "jina">>}  BY <1>1, <2>2
    <3> QED BY <2>2, <3>1, <1>5, SentCalls
  <2> QED BY <2>1, <2>2
<1> DEFINE r == [press[p] EXCEPT !.pc = "store", !.call = "jina", !.jina = jina]
<1>8. Accounts(Kind[p], r, RowsOf(p), T, EventsOf(p), shop[p], candidate[p],
               Made(p), RefsOf(p), label)
  BY Zenon, <1>2, PressFacts, JinaAccounts
<1>9. Goes(p, r)  BY <1>1
<1> HIDE DEF r, T
<1>10. press'[p] = r /\ \A q \in Presses \ {p} : press'[q] = press[q]  BY <1>9, Moved
<1>11. \A q \in Presses : /\ RowsOf(q)' = RowsOf(q) /\ EventsOf(q)' = EventsOf(q)
                          /\ Made(q)' = Made(q) /\ RefsOf(q)' = RefsOf(q)
                          /\ shop'[q] = shop[q] /\ candidate'[q] = candidate[q]
  BY <1>4, SameRows
<1> QED BY <1>4, <1>7, <1>8, <1>10, <1>11, OneAccount

\* The rows of the failures and of a charged search.
LEMMA RecordErrorAccount ==
  ASSUME TypeOK, \A q \in Presses : AccountOf(q), NEW p \in Presses, RecordError(p)
  PROVE  \A q \in Presses : AccountOf(q)'
<1> DEFINE r == IF Kind[p] \in {"planning", "insights"} /\ press[p].call = "first"
                THEN [press[p] EXCEPT !.pc = "ask", !.call = "repair"]
                ELSE [press[p] EXCEPT !.pc = "done"]
<1>1. press[p].pc = "record" /\ Log(p, TRUE)  BY DEF RecordError
<1>2. Goes(p, r)  BY Zenon DEF RecordError, Leaves
<1>3. UNCHANGED <<world, event, shop, candidate, sent, decisionVars>>  BY Zenon DEF RecordError
<1>4. sent' = sent /\ event' = event /\ shop' = shop /\ candidate' = candidate
      /\ suggestion' = suggestion /\ label' = label
  BY <1>3 DEF world, decisionVars
<1>5. Accounts(Kind[p], r, RowsOf(p) \cup {<<press[p].call, TRUE>>}, SentOf(p), EventsOf(p), shop[p],
               candidate[p], Made(p), RefsOf(p), label)
  BY Zenon, <1>1, PressFacts, ErrorAccounts
<1> HIDE DEF r
<1>6. press'[p] = r /\ \A q \in Presses \ {p} : press'[q] = press[q]  BY <1>2, Moved
<1>7. /\ RowsOf(p)' = RowsOf(p) \cup {<<press[p].call, TRUE>>}
      /\ \A q \in Presses \ {p} : RowsOf(q)' = RowsOf(q)
  BY <1>1, LoggedRows
<1>8. \A q \in Presses : /\ SentOf(q)' = SentOf(q) /\ EventsOf(q)' = EventsOf(q)
                         /\ Made(q)' = Made(q) /\ RefsOf(q)' = RefsOf(q)
                         /\ shop'[q] = shop[q] /\ candidate'[q] = candidate[q]
  BY <1>4, SameRows
<1> QED BY <1>4, <1>5, <1>6, <1>7, <1>8, OneAccount

LEMMA ChargeAccount ==
  ASSUME TypeOK, \A q \in Presses : AccountOf(q), NEW p \in Presses, Charge(p)
  PROVE  \A q \in Presses : AccountOf(q)'
<1> DEFINE r == [press[p] EXCEPT !.pc = "propose"]
           e == press[p].jina = "degraded"
<1>1. press[p].pc = "charge" /\ Log(p, e) /\ Goes(p, r)  BY Zenon DEF Charge, To
<1>3. UNCHANGED <<world, event, shop, candidate, sent, decisionVars>>  BY Zenon DEF Charge
<1>4. sent' = sent /\ event' = event /\ shop' = shop /\ candidate' = candidate
      /\ suggestion' = suggestion /\ label' = label
  BY <1>3 DEF world, decisionVars
<1>5. e \in BOOLEAN  OBVIOUS
<1> HIDE DEF e
<1>6. Accounts(Kind[p], r, RowsOf(p) \cup {<<press[p].call, e>>}, SentOf(p), EventsOf(p), shop[p],
               candidate[p], Made(p), RefsOf(p), label)
  BY Zenon, <1>1, <1>5, PressFacts, ChargeAccounts
<1> HIDE DEF r
<1>7. press'[p] = r /\ \A q \in Presses \ {p} : press'[q] = press[q]  BY <1>1, Moved
<1>8. /\ RowsOf(p)' = RowsOf(p) \cup {<<press[p].call, e>>}
      /\ \A q \in Presses \ {p} : RowsOf(q)' = RowsOf(q)
  BY Zenon, <1>1, <1>5, LoggedRows
<1>9. \A q \in Presses : /\ SentOf(q)' = SentOf(q) /\ EventsOf(q)' = EventsOf(q)
                         /\ Made(q)' = Made(q) /\ RefsOf(q)' = RefsOf(q)
                         /\ shop'[q] = shop[q] /\ candidate'[q] = candidate[q]
  BY <1>4, SameRows
<1> QED BY <1>4, <1>6, <1>7, <1>8, <1>9, OneAccount

\* The commits of an enrichment, and its candidate.
LEMMA Kept ==
  ASSUME TypeOK, NEW p \in Presses, NEW h, Keep(p, h)
  PROVE  shop'[p] = h /\ \A q \in Presses \ {p} : shop'[q] = shop[q]
<1>1. DOMAIN shop = Presses  BY DEF TypeOK
<1> QED BY <1>1 DEF Keep

LEMMA ShopAccount ==
  ASSUME TypeOK, \A q \in Presses : AccountOf(q), NEW p \in Presses, NEW r, NEW h, NEW F,
         Goes(p, r), Keep(p, h), candidate'[p] = F,
         \A q \in Presses \ {p} : candidate'[q] = candidate[q],
         Accounts(Kind[p], r, RowsOf(p), SentOf(p), EventsOf(p), h, F, Made(p), RefsOf(p), label),
         UNCHANGED <<world, ledger, event, sent, decisionVars>>
  PROVE  \A q \in Presses : AccountOf(q)'
<1>1. ledger' = ledger /\ event' = event /\ sent' = sent /\ suggestion' = suggestion /\ label' = label
  BY DEF world, decisionVars
<1>2. \A q \in Presses : /\ RowsOf(q)' = RowsOf(q) /\ EventsOf(q)' = EventsOf(q)
                         /\ SentOf(q)' = SentOf(q) /\ Made(q)' = Made(q) /\ RefsOf(q)' = RefsOf(q)
  BY <1>1, SameRows
<1>3. press'[p] = r /\ \A q \in Presses \ {p} : press'[q] = press[q]  BY Moved
<1>4. shop'[p] = h /\ \A q \in Presses \ {p} : shop'[q] = shop[q]  BY Kept
<1> QED BY <1>1, <1>2, <1>3, <1>4, OneAccount

LEMMA StoreOffAccount ==
  ASSUME TypeOK, \A q \in Presses : AccountOf(q), NEW p \in Presses, StoreOff(p)
  PROVE  \A q \in Presses : AccountOf(q)'
<1> DEFINE r == [press[p] EXCEPT !.pc = IF press[p].jina = "none" THEN "propose" ELSE "snapshot"]
           h == [shop[p] EXCEPT !.job = TRUE, !.off = TRUE]
<1>1. press[p].pc = "store" /\ Keep(p, h) /\ Goes(p, r)  BY Zenon DEF StoreOff, To
<1>2. UNCHANGED <<world, ledger, event, sent, decisionVars>> /\ candidate' = candidate
  BY Zenon DEF StoreOff
<1>3. Accounts(Kind[p], r, RowsOf(p), SentOf(p), EventsOf(p), h, candidate[p], Made(p), RefsOf(p), label)
  BY Zenon, <1>1, PressFacts, StoreOffAccounts
<1> HIDE DEF r, h
<1> QED BY <1>1, <1>2, <1>3, ShopAccount

LEMMA StoreJinaAccount ==
  ASSUME TypeOK, \A q \in Presses : AccountOf(q), NEW p \in Presses, StoreJina(p)
  PROVE  \A q \in Presses : AccountOf(q)'
<1> DEFINE r == [press[p] EXCEPT !.pc = IF press[p].jina = "missing_key" THEN "propose" ELSE "charge"]
           h == [shop[p] EXCEPT !.jina = TRUE]
<1>1. press[p].pc = "snapshot" /\ Keep(p, h) /\ Goes(p, r)  BY Zenon DEF StoreJina, To
<1>2. UNCHANGED <<world, ledger, event, sent, decisionVars>> /\ candidate' = candidate
  BY Zenon DEF StoreJina
<1>3. Accounts(Kind[p], r, RowsOf(p), SentOf(p), EventsOf(p), h, candidate[p], Made(p), RefsOf(p), label)
  BY Zenon, <1>1, PressFacts, StoreJinaAccounts
<1> HIDE DEF r, h
<1> QED BY <1>1, <1>2, <1>3, ShopAccount

LEMMA ProposeAccount ==
  ASSUME TypeOK, \A q \in Presses : AccountOf(q), NEW p \in Presses, Propose(p)
  PROVE  \A q \in Presses : AccountOf(q)'
<1> DEFINE r == [press[p] EXCEPT !.pc = "done"]
           h == [shop[p] EXCEPT !.proposed = TRUE]
           F == Merge(p)
<1>1. press[p].pc = "propose" /\ Keep(p, h) /\ Goes(p, r)  BY Zenon DEF Propose, To
<1>2. UNCHANGED <<world, ledger, event, sent, decisionVars>>  BY Zenon DEF Propose
<1>3. candidate' = [candidate EXCEPT ![p] = F]  BY DEF Propose
<1>4. candidate'[p] = F /\ \A q \in Presses \ {p} : candidate'[q] = candidate[q]
  <2>1. DOMAIN candidate = Presses  BY DEF TypeOK
  <2> HIDE DEF F
  <2>2. candidate' = [q \in Presses |-> IF q = p THEN F ELSE candidate[q]]  BY <1>3, <2>1
  <2> QED BY <2>2
<1>5. \A f \in DOMAIN F : /\ f \in label => F[f] = "label"
                          /\ F[f] = "off" => Decision(press[p].found) = "accepted"
                          /\ F[f] = "jina" => press[p].jina = "hit"
  <2> TAKE f \in DOMAIN F
  <2>1. f \in label \cup OffFields(p) \cup JinaFields(p)  BY DEF Merge, Existing
  <2>2. F[f] = IF f \in label THEN "label" ELSE IF f \in OffFields(p) THEN "off" ELSE "jina"
    BY <2>1 DEF Merge, Existing
  <2>3. f \in OffFields(p) => Decision(press[p].found) = "accepted"  BY DEF OffFields, Accepted
  <2>4. f \in JinaFields(p) => press[p].jina = "hit"  BY DEF JinaFields
  <2> HIDE DEF F
  <2> QED BY <2>1, <2>2, <2>3, <2>4
<1> HIDE DEF F
<1>6. Accounts(Kind[p], r, RowsOf(p), SentOf(p), EventsOf(p), h, F, Made(p), RefsOf(p), label)
  BY Zenon, <1>1, <1>5, PressFacts, ProposeAccounts
<1> HIDE DEF r, h
<1> QED BY <1>1, <1>2, <1>4, <1>6, ShopAccount

\* The events that no answer leaves.
LEMMA NoteAccount ==
  ASSUME TypeOK, \A q \in Presses : AccountOf(q), NEW p \in Presses, NEW r, NEW o \in {"empty", "correction"},
         Accounts(Kind[p], r, RowsOf(p), SentOf(p), EventsOf(p), shop[p], candidate[p],
                  Made(p), RefsOf(p), label), r \in Press,
         press'[p] = r, \A q \in Presses \ {p} : press'[q] = press[q],
         Tell(p, o, {}) \/ event' = event,
         UNCHANGED <<world, ledger, shop, candidate, sent, decisionVars>>
  PROVE  \A q \in Presses : AccountOf(q)'
<1>1. ledger' = ledger /\ sent' = sent /\ shop' = shop /\ candidate' = candidate
      /\ suggestion' = suggestion /\ label' = label
  BY DEF world, decisionVars
<1>2. \A q \in Presses : /\ RowsOf(q)' = RowsOf(q) /\ SentOf(q)' = SentOf(q)
                         /\ Made(q)' = Made(q) /\ RefsOf(q)' = RefsOf(q)
                         /\ shop'[q] = shop[q] /\ candidate'[q] = candidate[q]
  BY <1>1, SameRows
<1>3. o \in Outcomes /\ {} \in SUBSET Cited  BY DEF Outcomes
<1>4. /\ EventsOf(p)' = EventsOf(p) \/ EventsOf(p)' = EventsOf(p) \cup {<<o, {}>>}
      /\ \A q \in Presses \ {p} : EventsOf(q)' = EventsOf(q)
  BY <1>3, ToldEvents, SameRows
<1> DEFINE T == EventsOf(p)'
<1>5. T = EventsOf(p) \/ T = EventsOf(p) \cup {<<o, {}>>}  BY <1>4
<1> HIDE DEF T
<1>6. Accounts(Kind[p], r, RowsOf(p), SentOf(p), T, shop[p], candidate[p], Made(p), RefsOf(p), label)
  <2>1. Kind[p] \in Kinds  BY PressFacts
  <2>2. CASE T = EventsOf(p)  BY Zenon, <2>2
  <2>3. CASE T = EventsOf(p) \cup {<<o, {}>>}  BY Zenon, <2>1, <2>3, EventAccounts
  <2> QED BY <1>5, <2>2, <2>3
<1>7. EventsOf(p)' = T  BY DEF T
<1> QED BY <1>1, <1>2, <1>4, <1>6, <1>7, OneAccount

LEMMA EmptyAccount ==
  ASSUME TypeOK, \A q \in Presses : AccountOf(q), NEW p \in Presses, Empty(p)
  PROVE  \A q \in Presses : AccountOf(q)'
<1> DEFINE r == [press[p] EXCEPT !.pc = "done"]
<1>1. Goes(p, r) /\ press[p].pc = "idle"  BY Zenon DEF Empty, To
<1>2. Accounts(Kind[p], r, RowsOf(p), SentOf(p), EventsOf(p), shop[p],
               candidate[p], Made(p), RefsOf(p), label)
  BY <1>1, PressFacts, EndAccounts
<1>3. r \in Press  BY PressFacts DEF Press
<1>4. Tell(p, "empty", {}) \/ event' = event  BY DEF Empty
<1>5. UNCHANGED <<world, ledger, shop, candidate, sent, decisionVars>>  BY Zenon DEF Empty
<1> HIDE DEF r
<1>6. press'[p] = r /\ \A q \in Presses \ {p} : press'[q] = press[q]  BY <1>1, Moved
<1> QED BY <1>2, <1>3, <1>4, <1>5, <1>6, NoteAccount

LEMMA CorrectAccount ==
  ASSUME TypeOK, \A q \in Presses : AccountOf(q), NEW p \in Presses, Correct(p)
  PROVE  \A q \in Presses : AccountOf(q)'
<1>1. press' = press /\ Tell(p, "correction", {})  BY DEF Correct
<1>2. UNCHANGED <<world, ledger, shop, candidate, sent, decisionVars>>  BY Zenon DEF Correct
<1>3. press'[p] = press[p] /\ \A q \in Presses \ {p} : press'[q] = press[q]  BY <1>1
<1> QED BY <1>1, <1>2, <1>3, PressFacts, NoteAccount

\* What a good answer lands: its row and its event, and a plan its suggestions.
LEMMA LandAccount ==
  ASSUME TypeOK, \A q \in Presses : AccountOf(q), NEW p \in Presses, Lands(p),
         NEW E, NEW M, NEW N, EventsOf(p)' = E, Made(p)' = M, RefsOf(p)' = N,
         Kind[p] = "planning" => /\ E = EventsOf(p) \cup {<<"ok", press[p].cites>>}
                                 /\ M = Made(p) \cup press[p].cites
                                 /\ N \subseteq RefsOf(p) \cup press[p].seen \cup {"label"},
         Kind[p] = "insights" =>
           /\ E = EventsOf(p) \cup {<<IF press[p].cites # {} /\ press[p].cites \subseteq press[p].seen
                                      THEN "ok" ELSE "ungrounded", press[p].cites>>}
           /\ M = Made(p) /\ N = RefsOf(p),
         Kind[p] = "chat" => E = EventsOf(p) /\ M = Made(p) /\ N = RefsOf(p),
         \A q \in Presses \ {p} : EventsOf(q)' = EventsOf(q) /\ Made(q)' = Made(q) /\ RefsOf(q)' = RefsOf(q),
         UNCHANGED <<world, shop, candidate, sent>>
  PROVE  \A q \in Presses : AccountOf(q)'
<1> DEFINE r == [press[p] EXCEPT !.pc = "done"]
<1>1. press[p].pc = "record" /\ Log(p, FALSE) /\ Goes(p, r)  BY Zenon DEF Lands, To
<1>2. sent' = sent /\ shop' = shop /\ candidate' = candidate /\ label' = label
  BY DEF world
<1>3. Accounts(Kind[p], r, RowsOf(p) \cup {<<press[p].call, FALSE>>}, SentOf(p), E, shop[p],
               candidate[p], M, N, label)
  BY Zenon, <1>1, PressFacts, LandAccounts
<1> HIDE DEF r
<1>4. press'[p] = r /\ \A q \in Presses \ {p} : press'[q] = press[q]  BY <1>1, Moved
<1>5. /\ RowsOf(p)' = RowsOf(p) \cup {<<press[p].call, FALSE>>}
      /\ \A q \in Presses \ {p} : RowsOf(q)' = RowsOf(q)
  BY <1>1, LoggedRows
<1>6. \A q \in Presses : /\ SentOf(q)' = SentOf(q)
                         /\ shop'[q] = shop[q] /\ candidate'[q] = candidate[q]
  BY <1>2, SameRows
<1>7. \A q \in Presses \ {p} :
        /\ press'[q] = press[q] /\ RowsOf(q)' = RowsOf(q) /\ SentOf(q)' = SentOf(q)
        /\ EventsOf(q)' = EventsOf(q) /\ shop'[q] = shop[q] /\ candidate'[q] = candidate[q]
        /\ Made(q)' = Made(q) /\ RefsOf(q)' = RefsOf(q)
  BY <1>4, <1>5, <1>6
<1>8. SentOf(p)' = SentOf(p) /\ shop'[p] = shop[p] /\ candidate'[p] = candidate[p]  BY <1>6
<1>9. label' = label /\ press'[p] = r /\ RowsOf(p)' = RowsOf(p) \cup {<<press[p].call, FALSE>>}
  BY <1>2, <1>4, <1>5
<1> QED BY Zenon, <1>3, <1>7, <1>8, <1>9, OneAccount

LEMMA LandPlanAccount ==
  ASSUME TypeOK, \A q \in Presses : AccountOf(q), NEW p \in Presses, LandPlan(p)
  PROVE  \A q \in Presses : AccountOf(q)'
<1>1. Kind[p] = "planning" /\ Lands(p) /\ Tell(p, "ok", press[p].cites)  BY DEF LandPlan
<1>2. UNCHANGED <<world, shop, candidate, sent>>  BY Zenon DEF LandPlan
<1>3. press[p].cites \in SUBSET Cited /\ press[p].seen \in SUBSET Seen  BY PressFacts DEF Press
<1>4. "ok" \in Outcomes  BY DEF Outcomes
<1>5. /\ EventsOf(p)' = EventsOf(p) \cup {<<"ok", press[p].cites>>}
      /\ \A q \in Presses \ {p} : EventsOf(q)' = EventsOf(q)
  BY <1>1, <1>3, <1>4, ToldEvents
<1>6. DOMAIN suggestion = Presses \X Cited  BY DEF TypeOK
<1>7. \A q \in Presses, c \in Cited :
        suggestion'[<<q, c>>] = IF q = p /\ c \in press[p].cites
                                THEN [status |-> "pending", ref |-> Refs(p, c)] ELSE suggestion[<<q, c>>]
  BY <1>6 DEF LandPlan
<1>8. \A q \in Presses \ {p} : Made(q)' = Made(q) /\ RefsOf(q)' = RefsOf(q)
  BY <1>7 DEF Made, RefsOf
<1>9. Made(p)' = Made(p) \cup press[p].cites
  <2>1. ASSUME NEW c \in Cited
        PROVE  suggestion'[<<p, c>>].status # "none" <=>
                 suggestion[<<p, c>>].status # "none" \/ c \in press[p].cites
    <3>1. CASE c \in press[p].cites
      <4>1. suggestion'[<<p, c>>] = [status |-> "pending", ref |-> Refs(p, c)]  BY <1>7, <3>1
      <4> QED BY <3>1, <4>1
    <3>2. CASE c \notin press[p].cites
      <4>1. suggestion'[<<p, c>>] = suggestion[<<p, c>>]  BY <1>7, <3>2
      <4> QED BY <3>2, <4>1
    <3> QED BY <3>1, <3>2
  <2> QED BY <1>3, <2>1 DEF Made
<1>10. RefsOf(p)' \subseteq RefsOf(p) \cup press[p].seen \cup {"label"}
  <2>1. ASSUME NEW c \in Cited
        PROVE  suggestion'[<<p, c>>].ref \in {suggestion[<<p, c>>].ref} \cup press[p].seen \cup {"label"}
    <3>1. CASE c \in press[p].cites
      <4>1. suggestion'[<<p, c>>] = [status |-> "pending", ref |-> Refs(p, c)]  BY <1>7, <3>1
      <4>2. Refs(p, c) \in press[p].seen \cup {"label"}  BY DEF Refs
      <4> QED BY <4>1, <4>2
    <3>2. CASE c \notin press[p].cites
      <4>1. suggestion'[<<p, c>>] = suggestion[<<p, c>>]  BY <1>7, <3>2
      <4> QED BY <4>1
    <3> QED BY <3>1, <3>2
  <2> QED BY <2>1 DEF RefsOf
<1> QED BY <1>1, <1>2, <1>5, <1>8, <1>9, <1>10, LandAccount

LEMMA LandInsightAccount ==
  ASSUME TypeOK, \A q \in Presses : AccountOf(q), NEW p \in Presses, LandInsight(p)
  PROVE  \A q \in Presses : AccountOf(q)'
<1> DEFINE o == IF press[p].cites # {} /\ press[p].cites \subseteq press[p].seen THEN "ok" ELSE "ungrounded"
<1>1. Kind[p] = "insights" /\ Lands(p) /\ Tell(p, o, press[p].cites)  BY DEF LandInsight, Resolve
<1>2. UNCHANGED <<world, shop, candidate, sent, decisionVars>>  BY Zenon DEF LandInsight
<1>3. press[p].cites \in SUBSET Cited  BY PressFacts DEF Press
<1>4. o \in Outcomes  BY DEF Outcomes
<1>5. /\ EventsOf(p)' = EventsOf(p) \cup {<<o, press[p].cites>>}
      /\ \A q \in Presses \ {p} : EventsOf(q)' = EventsOf(q)
  BY Zenon, <1>1, <1>3, <1>4, ToldEvents
<1>6. suggestion' = suggestion  BY <1>2 DEF decisionVars
<1>7. \A q \in Presses : Made(q)' = Made(q) /\ RefsOf(q)' = RefsOf(q)  BY <1>6, SameRows
<1>8. UNCHANGED <<world, shop, candidate, sent>>  BY <1>2
<1> QED BY <1>1, <1>5, <1>7, <1>8, LandAccount

LEMMA LandAnswerAccount ==
  ASSUME TypeOK, \A q \in Presses : AccountOf(q), NEW p \in Presses, LandAnswer(p)
  PROVE  \A q \in Presses : AccountOf(q)'
<1>1. Kind[p] = "chat" /\ Lands(p)  BY DEF LandAnswer
<1>2. UNCHANGED <<world, event, shop, candidate, sent, decisionVars>>  BY Zenon DEF LandAnswer
<1>3. suggestion' = suggestion /\ event' = event  BY <1>2 DEF decisionVars
<1>4. \A q \in Presses : Made(q)' = Made(q) /\ RefsOf(q)' = RefsOf(q) /\ EventsOf(q)' = EventsOf(q)
  BY <1>3, SameRows
<1>5. UNCHANGED <<world, shop, candidate, sent>>  BY <1>2
<1> QED BY <1>1, <1>4, <1>5, LandAccount
-----------------------------------------------------------------------------
\* Types.
LEMMA StayTyped ==
  ASSUME TypeOK, UNCHANGED <<world, shop, candidate>>
  PROVE  /\ (scope \in Scopes /\ consent \in BOOLEAN /\ shelf \in [Things -> Shelf]
             /\ label \in SUBSET WebFields)'
         /\ (shop \in [Presses -> Shop] /\ DOMAIN candidate = Presses)'
BY DEF TypeOK, world

LEMMA DecisionsTyped ==
  ASSUME TypeOK, UNCHANGED decisionVars
  PROVE  (/\ suggestion \in [Presses \X Cited -> Suggestion] /\ correction \subseteq Presses \X Cited
          /\ decider \in [Deciders -> Decider]
          /\ said \in [Presses \X Cited -> Nat] /\ clashed \subseteq Presses \X Cited)'
BY DEF TypeOK, decisionVars

LEMMA LogTyped ==
  ASSUME TypeOK, NEW p \in Presses, NEW e \in BOOLEAN, Log(p, e) \/ ledger' = ledger
  PROVE  (ledger \in SUBSET [press : Presses, call : Calls, error : BOOLEAN])'
<1>1. press[p].call \in Calls  BY DEF TypeOK, Press
<1>2. ledger \in SUBSET [press : Presses, call : Calls, error : BOOLEAN]  BY DEF TypeOK
<1>3. [press |-> p, call |-> press[p].call, error |-> e] \in [press : Presses, call : Calls, error : BOOLEAN]
  BY Zenon, <1>1
<1> QED BY Zenon, <1>2, <1>3 DEF Log

LEMMA TellTyped ==
  ASSUME TypeOK, NEW p \in Presses, NEW o \in Outcomes, NEW c \in SUBSET Cited, Tell(p, o, c) \/ event' = event
  PROVE  (event \in SUBSET [press : Presses, outcome : Outcomes, cites : SUBSET Cited])'
<1>1. event \in SUBSET [press : Presses, outcome : Outcomes, cites : SUBSET Cited]  BY DEF TypeOK
<1>2. [press |-> p, outcome |-> o, cites |-> c] \in [press : Presses, outcome : Outcomes, cites : SUBSET Cited]
  OBVIOUS
<1> QED BY Zenon, <1>1, <1>2 DEF Tell

LEMMA GoesTyped ==
  ASSUME TypeOK, NEW p \in Presses, NEW r \in Press, Goes(p, r)
  PROVE  (press \in [Presses -> Press])'
BY DEF TypeOK, Goes

LEMMA PcTyped ==
  ASSUME TypeOK, NEW p \in Presses,
         NEW pc \in {"idle", "ask", "record", "off", "jina", "store", "snapshot", "charge", "propose",
                     "done", "dead"}
  PROVE  [press[p] EXCEPT !.pc = pc] \in Press
<1>1. press[p] \in Press  BY DEF TypeOK
<1> QED BY <1>1 DEF Press

LEMMA ShownIsSeen ==
  ASSUME TypeOK, NEW p \in Presses
  PROVE  Shown(p) \in SUBSET Seen
<1>1. Kind[p] \in Kinds  BY AdviceAssumption
<1> QED BY <1>1 DEF Kinds, Shown, Catalogue, OfCategory, Statistics, Seen

\* The steps of a press.
LEMMA PressTyped ==
  ASSUME TypeOK, NEW p \in Presses,
         \/ Refuse(p) \/ Empty(p) \/ Begin(p) \/ Ask(p) \/ RecordError(p)
         \/ LandInsight(p) \/ LandAnswer(p) \/ Correct(p) \/ FetchOff(p) \/ FetchJina(p)
         \/ Charge(p) \/ Dies(p)
  PROVE  TypeOK'
<1>0. press[p] \in Press /\ press[p].call \in Calls /\ press[p].cites \in SUBSET Cited
      /\ label \in SUBSET WebFields /\ press \in [Presses -> Press]
  BY DEF TypeOK, Press
<1>1. UNCHANGED <<world, candidate, decisionVars>>
  BY Zenon DEF Refuse, Empty, Begin, Ask, RecordError, LandInsight, LandAnswer, Correct,
               FetchOff, FetchJina, Charge, Dies
<1>2. UNCHANGED shop
  BY Zenon DEF Refuse, Empty, Begin, Ask, RecordError, LandInsight, LandAnswer, Correct,
               FetchOff, FetchJina, Charge, Dies
<1>3. (ledger \in SUBSET [press : Presses, call : Calls, error : BOOLEAN])'
  <2>1. \E e \in BOOLEAN : Log(p, e) \/ ledger' = ledger
    BY Zenon DEF Refuse, Empty, Begin, Ask, RecordError, LandInsight, LandAnswer, Correct,
                 FetchOff, FetchJina, Charge, Dies, Lands
  <2> QED BY Zenon, <2>1, LogTyped
<1>4. (event \in SUBSET [press : Presses, outcome : Outcomes, cites : SUBSET Cited])'
  <2>1. \E o \in Outcomes, c \in SUBSET Cited : Tell(p, o, c) \/ event' = event
    <3>1. {"empty", "ok", "ungrounded", "correction"} \subseteq Outcomes /\ {} \in SUBSET Cited
      BY DEF Outcomes
    <3>2. CASE Empty(p)  BY Zenon, <3>1, <3>2 DEF Empty
    <3>3. CASE Correct(p)  BY Zenon, <3>1, <3>3 DEF Correct
    <3>4. CASE LandInsight(p)  BY Zenon, <3>1, <3>4, <1>0 DEF LandInsight
    <3>5. CASE event' = event  BY Zenon, <3>1, <3>5
    <3>6. Empty(p) \/ Correct(p) \/ LandInsight(p) \/ event' = event
      BY Zenon DEF Refuse, Begin, Ask, RecordError, LandAnswer, FetchOff, FetchJina, Charge, Dies
    <3> QED BY <3>2, <3>3, <3>4, <3>5, <3>6
  <2> QED BY Zenon, <2>1, TellTyped
<1>5. (sent \subseteq Presses \X Calls)'
  <2>0. sent \subseteq Presses \X Calls  BY DEF TypeOK
  <2>1. CASE Ask(p)
    <3>1. \E left \in BOOLEAN : sent' = IF left THEN sent \cup {<<p, press[p].call>>} ELSE sent
      BY Zenon, <2>1 DEF Ask
    <3> QED BY <1>0, <2>0, <3>1
  <2>2. CASE FetchJina(p)
    <3>1. \E jina \in Jina : sent' = IF jina = "missing_key" THEN sent ELSE sent \cup {<<p, "jina">>}
      BY Zenon, <2>2 DEF FetchJina
    <3> QED BY <2>0, <3>1 DEF Calls
  <2>3. CASE sent' = sent  BY <2>0, <2>3
  <2>4. Ask(p) \/ FetchJina(p) \/ sent' = sent
    BY Zenon DEF Refuse, Empty, Begin, RecordError, LandInsight, LandAnswer, Correct,
                 FetchOff, Charge, Dies
  <2> QED BY <2>1, <2>2, <2>3, <2>4
<1>6. (press \in [Presses -> Press])'
  <2>1. CASE Refuse(p)  BY Zenon, <2>1, PcTyped, GoesTyped DEF Refuse, To
  <2>2. CASE Empty(p)  BY Zenon, <2>2, PcTyped, GoesTyped DEF Empty, To
  <2>3. CASE Charge(p)  BY Zenon, <2>3, PcTyped, GoesTyped DEF Charge, To
  <2>4. CASE Dies(p)  BY Zenon, <2>4, PcTyped, GoesTyped DEF Dies, To
  <2>5. CASE LandInsight(p)  BY Zenon, <2>5, PcTyped, GoesTyped DEF LandInsight, Lands, To
  <2>6. CASE LandAnswer(p)  BY Zenon, <2>6, PcTyped, GoesTyped DEF LandAnswer, Lands, To
  <2>7. CASE Correct(p)
    <3>1. press' = press  BY <2>7 DEF Correct
    <3> QED BY <1>0, <3>1
  <2>8. CASE Begin(p)
    <3> DEFINE r == [press[p] EXCEPT !.pc = IF Assists(p) THEN "ask" ELSE "off",
                                     !.seen = Shown(p), !.had = label]
    <3>1. r \in Press  BY <1>0, ShownIsSeen DEF Press
    <3>2. Goes(p, r)  BY <2>8 DEF Begin
    <3> HIDE DEF r
    <3> QED BY <3>1, <3>2, GoesTyped
  <2>9. CASE Ask(p)
    <3>1. PICK answer \in {"good", "malformed", "refused"}, cites \in SUBSET Cited :
            Goes(p, [press[p] EXCEPT !.pc = "record", !.answer = answer, !.cites = cites])
      BY Zenon, <2>9 DEF Ask
    <3>2. [press[p] EXCEPT !.pc = "record", !.answer = answer, !.cites = cites] \in Press
      BY <1>0 DEF Press
    <3> QED BY Zenon, <3>1, <3>2, GoesTyped
  <2>10. CASE RecordError(p)
    <3>1. \/ Goes(p, [press[p] EXCEPT !.pc = "ask", !.call = "repair"])
          \/ Goes(p, [press[p] EXCEPT !.pc = "done"])
      BY <2>10 DEF RecordError
    <3>2. [press[p] EXCEPT !.pc = "ask", !.call = "repair"] \in Press  BY <1>0 DEF Press, Calls
    <3>3. [press[p] EXCEPT !.pc = "done"] \in Press  BY <1>0 DEF Press
    <3> QED BY Zenon, <3>1, <3>2, <3>3, GoesTyped
  <2>11. CASE FetchOff(p)
    <3>1. PICK found \in OffAnswers \cup {<<>>} :
            Goes(p, [press[p] EXCEPT !.found = found,
                                     !.pc = IF Decision(found) = "accepted" THEN "store" ELSE "jina"])
      BY Zenon, <2>11 DEF FetchOff
    <3>2. [press[p] EXCEPT !.found = found,
                           !.pc = IF Decision(found) = "accepted" THEN "store" ELSE "jina"] \in Press
      BY <1>0 DEF Press
    <3> QED BY Zenon, <3>1, <3>2, GoesTyped
  <2>12. CASE FetchJina(p)
    <3>1. PICK jina \in Jina : Goes(p, [press[p] EXCEPT !.pc = "store", !.call = "jina", !.jina = jina])
      BY Zenon, <2>12 DEF FetchJina
    <3>2. [press[p] EXCEPT !.pc = "store", !.call = "jina", !.jina = jina] \in Press
      BY <1>0 DEF Press, Calls
    <3> QED BY Zenon, <3>1, <3>2, GoesTyped
  <2> QED BY <2>1, <2>2, <2>3, <2>4, <2>5, <2>6, <2>7, <2>8, <2>9, <2>10, <2>11, <2>12
<1> QED BY Zenon, <1>1, <1>2, <1>3, <1>4, <1>5, <1>6, StayTyped, DecisionsTyped DEF TypeOK

LEMMA LandPlanTyped ==
  ASSUME TypeOK, NEW p \in Presses, LandPlan(p)
  PROVE  TypeOK'
<1>1. Lands(p) /\ Tell(p, "ok", press[p].cites)  BY DEF LandPlan
<1>2. press[p].cites \in SUBSET Cited /\ press[p].seen \in SUBSET Seen  BY DEF TypeOK, Press
<1>3. (event \in SUBSET [press : Presses, outcome : Outcomes, cites : SUBSET Cited])'
  <2>1. "ok" \in Outcomes  BY DEF Outcomes
  <2> QED BY Zenon, <1>1, <1>2, <2>1, TellTyped
<1>4. (ledger \in SUBSET [press : Presses, call : Calls, error : BOOLEAN])'
  BY Zenon, <1>1, LogTyped DEF Lands
<1>5. (press \in [Presses -> Press])'  BY Zenon, <1>1, PcTyped, GoesTyped DEF Lands, To
<1>6. (suggestion \in [Presses \X Cited -> Suggestion])'
  <2>1. suggestion \in [Presses \X Cited -> Suggestion]  BY DEF TypeOK
  <2>2. \A c : [status |-> "pending", ref |-> Refs(p, c)] \in Suggestion
    BY <1>2 DEF Refs, Suggestion
  <2>3. \A s \in Presses \X Cited : suggestion[s] \in Suggestion  BY <2>1
  <2>4. suggestion' = [s \in Presses \X Cited |->
                         IF s[1] = p /\ s[2] \in press[p].cites
                         THEN [status |-> "pending", ref |-> Refs(p, s[2])] ELSE suggestion[s]]
    BY <2>1 DEF LandPlan
  <2> QED BY Zenon, <2>2, <2>3, <2>4
<1>7. UNCHANGED <<world, shop, candidate, sent, correction, decider, said, clashed>>  BY Zenon DEF LandPlan
<1>8. (/\ correction \subseteq Presses \X Cited /\ decider \in [Deciders -> Decider]
       /\ said \in [Presses \X Cited -> Nat] /\ clashed \subseteq Presses \X Cited
       /\ sent \subseteq Presses \X Calls)'
  BY <1>7 DEF TypeOK
<1> QED BY Zenon, <1>3, <1>4, <1>5, <1>6, <1>7, <1>8, StayTyped DEF TypeOK

\* The commits of an enrichment.
LEMMA ShopTyped ==
  ASSUME TypeOK, NEW p \in Presses, NEW r \in Press, NEW h \in Shop, Goes(p, r), Keep(p, h),
         DOMAIN candidate' = Presses,
         UNCHANGED <<world, ledger, event, sent, decisionVars>>
  PROVE  TypeOK'
<1>1. (press \in [Presses -> Press])'  BY GoesTyped
<1>2. (shop \in [Presses -> Shop])'
  <2>1. shop \in [Presses -> Shop]  BY DEF TypeOK
  <2>2. shop' = [shop EXCEPT ![p] = h]  BY DEF Keep
  <2> QED BY Zenon, <2>1, <2>2
<1>3. (ledger \in SUBSET [press : Presses, call : Calls, error : BOOLEAN])'  BY Zenon DEF TypeOK
<1>4. (/\ event \in SUBSET [press : Presses, outcome : Outcomes, cites : SUBSET Cited]
       /\ sent \subseteq Presses \X Calls)'
  BY DEF TypeOK
<1>5. (/\ scope \in Scopes /\ consent \in BOOLEAN /\ shelf \in [Things -> Shelf]
       /\ label \in SUBSET WebFields)'
  BY DEF TypeOK, world
<1> QED BY Zenon, <1>1, <1>2, <1>3, <1>4, <1>5, DecisionsTyped DEF TypeOK

LEMMA CommitsTyped ==
  ASSUME TypeOK, NEW p \in Presses, StoreOff(p) \/ StoreJina(p) \/ Propose(p)
  PROVE  TypeOK'
<1>1. /\ shop[p] \in Shop /\ DOMAIN candidate = Presses  BY DEF TypeOK
<1>2. [shop[p] EXCEPT !.job = TRUE, !.off = TRUE] \in Shop
  BY Zenon, <1>1 DEF Shop
<1>3. [shop[p] EXCEPT !.jina = TRUE] \in Shop  BY Zenon, <1>1 DEF Shop
<1>4. [shop[p] EXCEPT !.proposed = TRUE] \in Shop  BY Zenon, <1>1 DEF Shop
<1>5. UNCHANGED <<world, ledger, event, sent, decisionVars>>  BY Zenon DEF StoreOff, StoreJina, Propose
<1>6. DOMAIN candidate' = Presses
  <2>1. CASE candidate' = candidate  BY <1>1, <2>1
  <2>2. CASE Propose(p)
    <3>1. candidate' = [candidate EXCEPT ![p] = Merge(p)]  BY <2>2 DEF Propose
    <3> QED BY Zenon, <1>1, <3>1
  <2> QED BY Zenon, <2>1, <2>2 DEF StoreOff, StoreJina
<1>7. \E r \in Press, h \in Shop : Goes(p, r) /\ Keep(p, h)
  <2>1. CASE StoreOff(p)
    <3> DEFINE pc == IF press[p].jina = "none" THEN "propose" ELSE "snapshot"
    <3>1. [press[p] EXCEPT !.pc = pc] \in Press
      <4>1. pc = "propose" \/ pc = "snapshot"  OBVIOUS
      <4> HIDE DEF pc
      <4> QED BY <4>1, PcTyped
    <3> QED BY Zenon, <1>2, <2>1, <3>1 DEF StoreOff, To
  <2>2. CASE StoreJina(p)
    <3> DEFINE pc == IF press[p].jina = "missing_key" THEN "propose" ELSE "charge"
    <3>1. [press[p] EXCEPT !.pc = pc] \in Press
      <4>1. pc = "propose" \/ pc = "charge"  OBVIOUS
      <4> HIDE DEF pc
      <4> QED BY <4>1, PcTyped
    <3> QED BY Zenon, <1>3, <2>2, <3>1 DEF StoreJina, To
  <2>3. CASE Propose(p)  BY Zenon, <1>4, <2>3, PcTyped DEF Propose, To
  <2> QED BY <2>1, <2>2, <2>3
<1> QED BY Zenon, <1>5, <1>6, <1>7, ShopTyped

\* The steps of a decider.
LEMMA DecidersTyped ==
  ASSUME TypeOK, NEW d \in Deciders, Look(d) \/ Decide(d) \/ GiveUp(d)
  PROVE  TypeOK'
<1>0. /\ suggestion \in [Presses \X Cited -> Suggestion] /\ correction \subseteq Presses \X Cited
      /\ decider \in [Deciders -> Decider]
      /\ said \in [Presses \X Cited -> Nat] /\ clashed \subseteq Presses \X Cited
  BY DEF TypeOK
<1>1. UNCHANGED <<world, pressVars>>  BY Zenon DEF Look, Decide, GiveUp
<1>2. (/\ scope \in Scopes /\ consent \in BOOLEAN /\ shelf \in [Things -> Shelf]
       /\ label \in SUBSET WebFields /\ press \in [Presses -> Press]
       /\ DOMAIN candidate = Presses
       /\ event \in SUBSET [press : Presses, outcome : Outcomes, cites : SUBSET Cited]
       /\ sent \subseteq Presses \X Calls)'
  BY <1>1 DEF TypeOK, world, pressVars
<1>3. (/\ shop \in [Presses -> Shop]
       /\ ledger \in SUBSET [press : Presses, call : Calls, error : BOOLEAN])'
  BY Zenon, <1>1 DEF TypeOK, world, pressVars
<1>4. (/\ suggestion \in [Presses \X Cited -> Suggestion] /\ correction \subseteq Presses \X Cited
       /\ decider \in [Deciders -> Decider]
       /\ said \in [Presses \X Cited -> Nat] /\ clashed \subseteq Presses \X Cited)'
  <2>0. [pc |-> "done"] \in Decider  BY DEF Decider
  <2>1. CASE Look(d)
    <3>1. PICK s \in DOMAIN suggestion, to \in {"confirmed", "dismissed"}, reason \in BOOLEAN :
            decider' = [decider EXCEPT ![d] = [pc |-> "write", of |-> s, to |-> to, reason |-> reason]]
      BY Zenon, <2>1 DEF Look
    <3>2. [pc |-> "write", of |-> s, to |-> to, reason |-> reason]
            \in [pc : {"write"}, of : Presses \X Cited, to : {"confirmed", "dismissed"}, reason : BOOLEAN]
      <4>1. s \in Presses \X Cited /\ "write" \in {"write"}  BY <1>0
      <4> QED BY Zenon, <4>1
    <3>3. [pc |-> "write", of |-> s, to |-> to, reason |-> reason] \in Decider
      BY Zenon, <3>2 DEF Decider
    <3>4. (decider \in [Deciders -> Decider])'  BY Zenon, <1>0, <3>1, <3>3
    <3>5. UNCHANGED <<suggestion, correction, said, clashed>>  BY Zenon, <2>1 DEF Look
    <3> QED BY Zenon, <1>0, <3>4, <3>5
  <2>2. CASE Decide(d)
    <3> DEFINE s == decider[d].of
    <3>1. s \in Presses \X Cited /\ decider[d].to \in {"confirmed", "dismissed"}
      BY <1>0, <2>2 DEF Decide, Decider
    <3>2. (suggestion \in [Presses \X Cited -> Suggestion])'
      <4>1. suggestion' = [suggestion EXCEPT ![s].status = decider[d].to]  BY <2>2 DEF Decide
      <4>2. [suggestion[s] EXCEPT !.status = decider[d].to] \in Suggestion  BY <1>0, <3>1 DEF Suggestion
      <4> HIDE DEF s
      <4> QED BY <1>0, <4>1, <4>2
    <3>3. (correction \subseteq Presses \X Cited /\ clashed \subseteq Presses \X Cited)'
      <4>1. correction' = correction \cup {s} \/ correction' = correction  BY <2>2 DEF Decide
      <4>2. clashed' = clashed \cup {s} \/ clashed' = clashed  BY <2>2 DEF Decide
      <4> HIDE DEF s
      <4> QED BY <1>0, <3>1, <4>1, <4>2
    <3>4. (said \in [Presses \X Cited -> Nat])'
      <4>1. said' = [said EXCEPT ![s] = said[s] + 1]  BY <2>2 DEF Decide
      <4> HIDE DEF s
      <4> QED BY <1>0, <3>1, <4>1
    <3>5. (decider \in [Deciders -> Decider])'
      <4>1. decider' = [decider EXCEPT ![d] = [pc |-> "done"]]  BY <2>2 DEF Decide
      <4> QED BY Zenon, <1>0, <2>0, <4>1
    <3> QED BY Zenon, <3>2, <3>3, <3>4, <3>5
  <2>3. CASE GiveUp(d)
    <3>1. decider' = [decider EXCEPT ![d] = [pc |-> "done"]]  BY <2>3 DEF GiveUp
    <3>2. (decider \in [Deciders -> Decider])'  BY Zenon, <1>0, <2>0, <3>1
    <3>3. UNCHANGED <<suggestion, correction, said, clashed>>  BY Zenon, <2>3 DEF GiveUp
    <3> QED BY Zenon, <1>0, <3>2, <3>3
  <2> QED BY <2>1, <2>2, <2>3
<1> QED BY Zenon, <1>2, <1>3, <1>4 DEF TypeOK

LEMMA WorldTyped ==
  ASSUME TypeOK, Restock \/ Assert
  PROVE  TypeOK'
<1>1. scope' = scope /\ consent' = consent /\ UNCHANGED <<pressVars, decisionVars>>
  BY Zenon DEF Restock, Assert
<1>2. scope.things \subseteq Things /\ scope.labels \subseteq WebFields
  <2>1. scope \in [presses : SUBSET Presses, deciders : SUBSET Deciders,
                   things : SUBSET Things, labels : SUBSET WebFields]
    BY AdviceAssumption DEF TypeOK
  <2> QED BY <2>1
<1>3. (scope \in Scopes /\ consent \in BOOLEAN)'  BY Zenon, <1>1 DEF TypeOK
<1>4. (shelf \in [Things -> Shelf])'
  <2>0. shelf \in [Things -> Shelf]  BY DEF TypeOK
  <2>1. CASE shelf' = shelf  BY <2>0, <2>1
  <2>2. CASE Restock
    <3>1. PICK t \in scope.things, now \in Shelf : shelf' = [shelf EXCEPT ![t] = now]
      BY <2>2 DEF Restock
    <3> QED BY <1>2, <2>0, <3>1
  <2> QED BY <2>1, <2>2 DEF Assert
<1>5. (label \in SUBSET WebFields)'
  <2>0. label \in SUBSET WebFields  BY DEF TypeOK
  <2> QED BY <1>2, <2>0 DEF Restock, Assert
<1>6. (/\ press \in [Presses -> Press] /\ DOMAIN candidate = Presses
       /\ event \in SUBSET [press : Presses, outcome : Outcomes, cites : SUBSET Cited]
       /\ sent \subseteq Presses \X Calls)'
  BY <1>1 DEF TypeOK, pressVars
<1>7. (/\ shop \in [Presses -> Shop]
       /\ ledger \in SUBSET [press : Presses, call : Calls, error : BOOLEAN])'
  BY Zenon, <1>1 DEF TypeOK, pressVars
<1> QED BY Zenon, <1>1, <1>3, <1>4, <1>5, <1>6, <1>7, DecisionsTyped DEF TypeOK
-----------------------------------------------------------------------------
\* Decisions.  Whoever writes looked at a suggestion that was made; while
\* nobody has clashed over it, it is still pending, and it is pending as long
\* as nobody decided.
Writes(d, s) == decider[d].pc = "write" /\ decider[d].of = s
DecisionHolds(s) ==
  /\ \A d \in Deciders : Writes(d, s) => suggestion[s].status # "none"
  /\ suggestion[s].status = "none" => said[s] = 0 /\ s \notin correction
  /\ s \notin clashed =>
       /\ \A d \in Deciders : Writes(d, s) => suggestion[s].status = "pending"
       /\ suggestion[s].status = "pending" => said[s] = 0 /\ s \notin correction
       /\ suggestion[s].status \in {"confirmed", "dismissed"} =>
            said[s] = 1 /\ (s \in correction => suggestion[s].status = "dismissed")
ReasonDismisses(d) == decider[d].pc = "write" /\ decider[d].reason => decider[d].to = "dismissed"
DecisionsHold ==
  /\ \A s \in Presses \X Cited : DecisionHolds(s)
  /\ \A d \in Deciders : ReasonDismisses(d)

LEMMA SameDecisions ==
  ASSUME DecisionsHold, UNCHANGED decisionVars
  PROVE  DecisionsHold'
<1>1. suggestion' = suggestion /\ correction' = correction /\ decider' = decider /\ said' = said
      /\ clashed' = clashed
  BY DEF decisionVars
<1>2. ASSUME NEW s \in Presses \X Cited PROVE DecisionHolds(s)'
  BY Zenon, <1>1 DEF DecisionsHold, DecisionHolds, Writes
<1>3. ASSUME NEW d \in Deciders PROVE ReasonDismisses(d)'
  BY Zenon, <1>1 DEF DecisionsHold, ReasonDismisses
<1> QED BY Zenon, <1>2, <1>3 DEF DecisionsHold

\* A plan lands on suggestions that do not stand yet: its row was not there.
LEMMA FirstLanding ==
  ASSUME TypeOK, NEW p \in Presses, AccountOf(p), Kind[p] = "planning", press[p].pc = "record"
  PROVE  Made(p) = {}
<1> DEFINE R == RowsOf(p)  E == EventsOf(p)  M == Made(p)
<1>1. Counted(Kind[p], press[p], R, SentOf(p)) /\ Told_(Kind[p], press[p], R, E, M)
  BY DEF AccountOf, Accounts
<1> HIDE DEF R, E, M
<1>2. ~In(R, press[p].call)  BY <1>1 DEF Counted
<1>3. TellsOf(E) = {}  BY <1>1, <1>2 DEF Told_, In
<1>4. \A c \in M : \E x \in E : x[1] = "ok"  BY <1>1 DEF Told_
<1>5. M = {}  BY <1>3, <1>4 DEF TellsOf
<1> QED BY <1>5 DEF M

LEMMA LandPlanDecisions ==
  ASSUME TypeOK, DecisionsHold, NEW p \in Presses, AccountOf(p), LandPlan(p)
  PROVE  DecisionsHold'
<1>1. correction' = correction /\ decider' = decider /\ said' = said /\ clashed' = clashed
  BY DEF LandPlan
<1>2. Made(p) = {}
  <2>1. Kind[p] = "planning" /\ press[p].pc = "record"  BY DEF LandPlan, Lands
  <2> QED BY <2>1, FirstLanding
<1>3. DOMAIN suggestion = Presses \X Cited  BY DEF TypeOK
<1>4. ASSUME NEW s \in Presses \X Cited
      PROVE  \/ suggestion'[s] = suggestion[s]
             \/ suggestion[s].status = "none" /\ suggestion'[s].status = "pending"
  <2>1. CASE s[1] = p /\ s[2] \in press[p].cites
    <3>1. suggestion'[s] = [status |-> "pending", ref |-> Refs(p, s[2])]
      BY <1>3, <2>1 DEF LandPlan
    <3>2. s = <<p, s[2]>> /\ s[2] \in Cited  BY <2>1
    <3>3. suggestion[s].status = "none"  BY <1>2, <3>2 DEF Made
    <3> QED BY <3>1, <3>3
  <2>2. CASE ~(s[1] = p /\ s[2] \in press[p].cites)  BY <1>3, <2>2 DEF LandPlan
  <2> QED BY <2>1, <2>2
<1>5. ASSUME NEW s \in Presses \X Cited PROVE DecisionHolds(s)'
  <2>1. DecisionHolds(s)  BY DEF DecisionsHold
  <2>2. CASE suggestion'[s] = suggestion[s]
    BY Zenon, <1>1, <2>1, <2>2 DEF DecisionHolds, Writes
  <2>3. CASE suggestion[s].status = "none" /\ suggestion'[s].status = "pending"
    <3>1. \A d \in Deciders : ~Writes(d, s)  BY <2>1, <2>3 DEF DecisionHolds
    <3>2. said[s] = 0 /\ s \notin correction  BY <2>1, <2>3 DEF DecisionHolds
    <3>3. \A d \in Deciders : ~Writes(d, s)'  BY <1>1, <3>1 DEF Writes
    <3>4. suggestion'[s].status \notin {"none", "confirmed", "dismissed"}  BY <2>3
    <3>5. said'[s] = 0 /\ s \notin correction'  BY <1>1, <3>2
    <3> QED BY <3>3, <3>4, <3>5 DEF DecisionHolds
  <2> QED BY <1>4, <2>2, <2>3
<1>6. ASSUME NEW d \in Deciders PROVE ReasonDismisses(d)'
  BY Zenon, <1>1 DEF DecisionsHold, ReasonDismisses
<1> QED BY Zenon, <1>5, <1>6 DEF DecisionsHold

LEMMA LookDecisions ==
  ASSUME TypeOK, DecisionsHold, NEW d \in Deciders, Look(d)
  PROVE  DecisionsHold'
<1>1. PICK t \in DOMAIN suggestion, to \in {"confirmed", "dismissed"}, reason \in BOOLEAN :
        /\ Pending(d, t) /\ (reason => to = "dismissed")
        /\ decider' = [decider EXCEPT ![d] = [pc |-> "write", of |-> t, to |-> to, reason |-> reason]]
  BY Zenon DEF Look
<1>2. suggestion' = suggestion /\ correction' = correction /\ said' = said /\ clashed' = clashed
  BY DEF Look
<1>3. DOMAIN decider = Deciders  BY DEF TypeOK
<1>4. /\ decider'[d] = [pc |-> "write", of |-> t, to |-> to, reason |-> reason]
      /\ \A e \in Deciders \ {d} : decider'[e] = decider[e]
  BY Zenon, <1>1, <1>3
<1>5. suggestion[t].status = "pending"  BY <1>1 DEF Pending
<1>6. ASSUME NEW s \in Presses \X Cited PROVE DecisionHolds(s)'
  <2>1. DecisionHolds(s)  BY DEF DecisionsHold
  <2>2. ASSUME NEW e \in Deciders, Writes(e, s)' PROVE Writes(e, s) \/ suggestion[s].status = "pending"
    <3>1. CASE e = d
      <4>1. decider'[d].of = t  BY <1>4
      <4> QED BY <1>5, <2>2, <3>1, <4>1 DEF Writes
    <3>2. CASE e # d  BY <1>4, <2>2, <3>2 DEF Writes
    <3> QED BY <3>1, <3>2
  <2>3. \A e \in Deciders : Writes(e, s)' => suggestion'[s].status # "none"
    BY <1>2, <2>1, <2>2 DEF DecisionHolds
  <2>4. s \notin clashed => \A e \in Deciders : Writes(e, s)' => suggestion'[s].status = "pending"
    BY <1>2, <2>1, <2>2 DEF DecisionHolds
  <2> QED BY Zenon, <1>2, <2>1, <2>3, <2>4 DEF DecisionHolds
<1>7. ASSUME NEW e \in Deciders PROVE ReasonDismisses(e)'
  <2>1. CASE e = d
    <3>1. decider'[e] = [pc |-> "write", of |-> t, to |-> to, reason |-> reason]  BY Zenon, <1>4, <2>1
    <3>2. decider'[e].to = to  BY <3>1
    <3>a. [pc |-> "write", of |-> t, to |-> to, reason |-> reason].reason = reason  BY Zenon
    <3>3. decider'[e].reason = reason  BY Zenon, <3>1, <3>a
    <3> QED BY Zenon, <1>1, <3>2, <3>3 DEF ReasonDismisses
  <2>2. CASE e # d
    <3>1. decider'[e] = decider[e]  BY <1>4, <2>2
    <3> QED BY Zenon, <3>1 DEF DecisionsHold, ReasonDismisses
  <2> QED BY <2>1, <2>2
<1> QED BY Zenon, <1>6, <1>7 DEF DecisionsHold

LEMMA DecideDecisions ==
  ASSUME TypeOK, DecisionsHold, NEW d \in Deciders, Decide(d)
  PROVE  DecisionsHold'
<1>0. PICK t : t = decider[d].of  OBVIOUS
<1>1. decider[d].pc = "write" /\ decider' = [decider EXCEPT ![d] = [pc |-> "done"]]  BY DEF Decide
<1>2. DOMAIN decider = Deciders /\ decider[d] \in Decider  BY DEF TypeOK
<1>3. decider'[d].pc = "done" /\ \A e \in Deciders \ {d} : decider'[e] = decider[e]  BY <1>1, <1>2
<1>4. t \in Presses \X Cited /\ decider[d].to \in {"confirmed", "dismissed"}
  BY <1>0, <1>1, <1>2 DEF Decider
<1>5. /\ suggestion'[t].status = decider[d].to
      /\ \A s \in (Presses \X Cited) \ {t} : suggestion'[s] = suggestion[s]
  <2>1. suggestion \in [Presses \X Cited -> Suggestion]  BY DEF TypeOK
  <2>2. suggestion' = [suggestion EXCEPT ![t].status = decider[d].to]  BY <1>0 DEF Decide
  <2>3. suggestion[t] \in Suggestion  BY <1>4, <2>1
  <2>4. suggestion'[t] = [suggestion[t] EXCEPT !.status = decider[d].to]  BY <1>4, <2>1, <2>2
  <2> QED BY <1>4, <2>1, <2>2, <2>3, <2>4 DEF Suggestion
<1>6. /\ said'[t] = said[t] + 1
      /\ \A s \in (Presses \X Cited) \ {t} : said'[s] = said[s]
  <2>1. said \in [Presses \X Cited -> Nat]  BY DEF TypeOK
  <2>2. said' = [said EXCEPT ![t] = said[t] + 1]  BY <1>0 DEF Decide
  <2> QED BY <1>4, <2>1, <2>2
<1>7. correction' = IF decider[d].reason THEN correction \cup {t} ELSE correction  BY Zenon, <1>0 DEF Decide
<1>8. clashed' = IF \E e \in Deciders \ {d} : decider[e].pc = "write" /\ decider[e].of = t
                 THEN clashed \cup {t} ELSE clashed
  BY Zenon, <1>0 DEF Decide
<1>9. \A e \in Deciders : \A s : Writes(e, s)' => e # d /\ Writes(e, s)  BY <1>3 DEF Writes
<1>10. Writes(d, t)  BY <1>0, <1>1 DEF Writes
<1>11. ReasonDismisses(d) /\ DecisionHolds(t)  BY <1>4 DEF DecisionsHold
<1>12. DecisionHolds(t)'
  <2>1. suggestion'[t].status \in {"confirmed", "dismissed"}  BY <1>4, <1>5
  <2>2. ASSUME t \notin clashed'
        PROVE  /\ \A e \in Deciders : ~Writes(e, t)'
               /\ said'[t] = 1 /\ (t \in correction' => suggestion'[t].status = "dismissed")
    <3>1. ~\E e \in Deciders \ {d} : decider[e].pc = "write" /\ decider[e].of = t  BY Zenon, <1>8, <2>2
    <3>2. \A e \in Deciders : ~Writes(e, t)'  BY <1>9, <3>1 DEF Writes
    <3>3. t \notin clashed  BY Zenon, <1>8, <2>2
    <3>4. said[t] = 0 /\ t \notin correction  BY <1>10, <1>11, <3>3 DEF DecisionHolds
    <3>5. t \in correction' => decider[d].to = "dismissed"
      BY Zenon, <1>1, <1>7, <1>11, <3>4 DEF ReasonDismisses
    <3> QED BY <1>5, <1>6, <3>2, <3>4, <3>5
  <2> QED BY <2>1, <2>2 DEF DecisionHolds
<1>13. ASSUME NEW s \in (Presses \X Cited) \ {t} PROVE DecisionHolds(s)'
  <2>1. DecisionHolds(s)  BY DEF DecisionsHold
  <2>2. suggestion'[s] = suggestion[s] /\ said'[s] = said[s]  BY <1>5, <1>6
  <2>3. s \in correction' <=> s \in correction
    BY <1>7
  <2>4. s \in clashed' <=> s \in clashed  BY <1>8
  <2>5. \A e \in Deciders : Writes(e, s)' => Writes(e, s)  BY <1>9
  <2> QED BY Zenon, <2>1, <2>2, <2>3, <2>4, <2>5 DEF DecisionHolds
<1>14. ASSUME NEW e \in Deciders PROVE ReasonDismisses(e)'
  <2>1. CASE e = d  BY <1>3, <2>1 DEF ReasonDismisses
  <2>2. CASE e # d
    <3>1. decider'[e] = decider[e]  BY <1>3, <2>2
    <3> QED BY Zenon, <3>1 DEF DecisionsHold, ReasonDismisses
  <2> QED BY <2>1, <2>2
<1> QED BY Zenon, <1>4, <1>12, <1>13, <1>14 DEF DecisionsHold

LEMMA GiveUpDecisions ==
  ASSUME TypeOK, DecisionsHold, NEW d \in Deciders, GiveUp(d)
  PROVE  DecisionsHold'
<1>1. decider' = [decider EXCEPT ![d] = [pc |-> "done"]]  BY DEF GiveUp
<1>2. suggestion' = suggestion /\ correction' = correction /\ said' = said /\ clashed' = clashed
  BY DEF GiveUp
<1>3. DOMAIN decider = Deciders  BY DEF TypeOK
<1>4. decider'[d].pc = "done" /\ \A e \in Deciders \ {d} : decider'[e] = decider[e]  BY <1>1, <1>3
<1>5. \A e \in Deciders : \A s : Writes(e, s)' => Writes(e, s)  BY <1>4 DEF Writes
<1>6. ASSUME NEW s \in Presses \X Cited PROVE DecisionHolds(s)'
  BY Zenon, <1>2, <1>5 DEF DecisionsHold, DecisionHolds
<1>7. ASSUME NEW e \in Deciders PROVE ReasonDismisses(e)'
  <2>1. CASE e = d  BY <1>4, <2>1 DEF ReasonDismisses
  <2>2. CASE e # d
    <3>1. decider'[e] = decider[e]  BY <1>4, <2>2
    <3> QED BY Zenon, <3>1 DEF DecisionsHold, ReasonDismisses
  <2> QED BY <2>1, <2>2
<1> QED BY Zenon, <1>6, <1>7 DEF DecisionsHold

\* What deciders do to a suggestion, a press does not see.
LEMMA DecidersAccount ==
  ASSUME TypeOK, DecisionsHold, \A q \in Presses : AccountOf(q), NEW d \in Deciders,
         Look(d) \/ Decide(d) \/ GiveUp(d)
  PROVE  \A q \in Presses : AccountOf(q)'
<1>1. UNCHANGED <<world, pressVars>>  BY Zenon DEF Look, Decide, GiveUp
<1>2. ledger' = ledger /\ event' = event /\ sent' = sent /\ shop' = shop /\ candidate' = candidate
      /\ label' = label /\ press' = press
  BY <1>1 DEF world, pressVars
<1>3. \A s \in Presses \X Cited : /\ suggestion'[s].status # "none" <=> suggestion[s].status # "none"
                                  /\ suggestion'[s].ref = suggestion[s].ref
  <2>1. CASE suggestion' = suggestion  BY <2>1
  <2>2. CASE Decide(d)
    <3> DEFINE t == decider[d].of
    <3>1. decider[d] \in Decider /\ decider[d].pc = "write"  BY <2>2 DEF TypeOK, Decide
    <3>2. t \in Presses \X Cited /\ decider[d].to \in {"confirmed", "dismissed"}  BY <3>1 DEF Decider
    <3>3. suggestion[t].status # "none"  BY <3>1, <3>2 DEF DecisionsHold, DecisionHolds, Writes
    <3>4. suggestion' = [suggestion EXCEPT ![t].status = decider[d].to]  BY <2>2 DEF Decide
    <3>5. suggestion \in [Presses \X Cited -> Suggestion]  BY DEF TypeOK
    <3>6. suggestion[t] \in Suggestion  BY <3>2, <3>5
    <3> HIDE DEF t
    <3>7. suggestion'[t] = [suggestion[t] EXCEPT !.status = decider[d].to]  BY <3>2, <3>4, <3>5
    <3>8. \A s \in (Presses \X Cited) \ {t} : suggestion'[s] = suggestion[s]  BY <3>4, <3>5
    <3>9. suggestion'[t].status = decider[d].to /\ suggestion'[t].ref = suggestion[t].ref
      BY <3>6, <3>7 DEF Suggestion
    <3> QED BY <3>2, <3>3, <3>8, <3>9
  <2> QED BY <2>1, <2>2 DEF Look, GiveUp
<1>4. ASSUME NEW q \in Presses PROVE Made(q)' = Made(q) /\ RefsOf(q)' = RefsOf(q)
  <2>1. \A c \in Cited : <<q, c>> \in Presses \X Cited  OBVIOUS
  <2>2. \A c \in Cited : /\ suggestion'[<<q, c>>].status # "none" <=> suggestion[<<q, c>>].status # "none"
                         /\ suggestion'[<<q, c>>].ref = suggestion[<<q, c>>].ref
    BY <1>3, <2>1
  <2>3. Made(q)' = Made(q)  BY <2>2 DEF Made
  <2>4. RefsOf(q)' = RefsOf(q)  BY <2>2 DEF RefsOf
  <2> QED BY <2>3, <2>4
<1> QED BY <1>2, <1>4, SameRows, SameAccount

LEMMA WorldAccount ==
  ASSUME TypeOK, \A q \in Presses : AccountOf(q), Restock \/ Assert
  PROVE  \A q \in Presses : AccountOf(q)'
<1>1. UNCHANGED <<pressVars, decisionVars>> /\ label \subseteq label'  BY DEF Restock, Assert
<1>2. ledger' = ledger /\ event' = event /\ sent' = sent /\ shop' = shop /\ candidate' = candidate
      /\ suggestion' = suggestion /\ press' = press
  BY <1>1 DEF pressVars, decisionVars
<1> QED BY <1>1, <1>2, SameRows, SameAccount
-----------------------------------------------------------------------------
\* The inductive invariant: types, the account of each press, and what the
\* requests that decide know of the suggestion they write.
AdviceInv == TypeOK /\ (\A p \in Presses : AccountOf(p)) /\ DecisionsHold

LEMMA AdviceStarts == Init => AdviceInv
<1> SUFFICES ASSUME Init PROVE AdviceInv  OBVIOUS
<1>1. Fresh \in Press  BY DEF Fresh, Press, Calls, Jina
<1>2. NoShop \in Shop  BY Zenon DEF NoShop, Shop
<1>3. TypeOK
  <2>1. scope \in Scopes /\ consent \in BOOLEAN  BY Zenon DEF Init
  <2>2. shelf \in [Things -> Shelf]  BY Zenon DEF Init
  <2>3. label \in SUBSET WebFields
    <3>1. scope.labels \subseteq WebFields
      <4>1. scope \in [presses : SUBSET Presses, deciders : SUBSET Deciders,
                       things : SUBSET Things, labels : SUBSET WebFields]
        BY <2>1, AdviceAssumption
      <4> QED BY <4>1
    <3>2. label \in SUBSET scope.labels  BY DEF Init
    <3> QED BY <3>1, <3>2
  <2>4. press \in [Presses -> Press]
    <3>1. press = [p \in Presses |-> Fresh]  BY DEF Init
    <3> QED BY <1>1, <3>1
  <2>5. shop \in [Presses -> Shop]
    <3>1. shop = [p \in Presses |-> NoShop]  BY DEF Init
    <3> QED BY Zenon, <1>2, <3>1
  <2>6. DOMAIN candidate = Presses  BY DEF Init
  <2>7. ledger = {} /\ event = {} /\ sent = {}  BY DEF Init
  <2>8. suggestion \in [Presses \X Cited -> Suggestion]
    <3>1. NoSuggestion \in Suggestion  BY DEF NoSuggestion, Suggestion
    <3>2. suggestion = [s \in Presses \X Cited |-> NoSuggestion]  BY DEF Init
    <3> QED BY <3>1, <3>2
  <2>9. correction = {} /\ clashed = {}  BY DEF Init
  <2>10. decider \in [Deciders -> Decider]
    <3>1. Deciding \in Decider  BY DEF Deciding, Decider
    <3>2. decider = [d \in Deciders |-> Deciding]  BY DEF Init
    <3> QED BY <3>1, <3>2
  <2>11. said \in [Presses \X Cited -> Nat]
    <3>1. said = [s \in Presses \X Cited |-> 0]  BY DEF Init
    <3> QED BY <3>1
  <2>12. ledger \in SUBSET [press : Presses, call : Calls, error : BOOLEAN]  BY Zenon, <2>7
  <2>13. event \in SUBSET [press : Presses, outcome : Outcomes, cites : SUBSET Cited]  BY Zenon, <2>7
  <2>14. sent \subseteq Presses \X Calls /\ correction \subseteq Presses \X Cited
         /\ clashed \subseteq Presses \X Cited
    BY <2>7, <2>9
  <2> QED BY Zenon, <2>1, <2>2, <2>3, <2>4, <2>5, <2>6, <2>8, <2>10, <2>11, <2>12, <2>13, <2>14 DEF TypeOK
<1>4. ASSUME NEW p \in Presses PROVE AccountOf(p)
  <2>1. press[p] = Fresh /\ shop[p] = NoShop  BY DEF Init
  <2>2. RowsOf(p) = {} /\ EventsOf(p) = {} /\ SentOf(p) = {}  BY DEF Init, RowsOf, EventsOf, SentOf
  <2>3. \A c \in Cited : suggestion[<<p, c>>] = NoSuggestion  BY DEF Init
  <2>4. Made(p) = {}  BY <2>3 DEF Made, NoSuggestion
  <2>5. RefsOf(p) \subseteq {"label"}
    <3>1. \A c \in Cited : suggestion[<<p, c>>].ref = "label"  BY <2>3 DEF NoSuggestion
    <3> QED BY Zenon, <3>1 DEF RefsOf
  <2> DEFINE N == RefsOf(p)
  <2>6. N \subseteq {"label"}  BY <2>5
  <2> HIDE DEF N
  <2>7. /\ Fresh.pc = "idle" /\ Fresh.call = "first" /\ Fresh.seen = {} /\ Fresh.had = {}
        /\ Fresh.jina = "none"
    BY DEF Fresh
  <2>8. ~NoShop.job /\ ~NoShop.jina /\ ~NoShop.proposed  BY Zenon DEF NoShop
  <2>9. \A c : ~In({}, c)  BY DEF In
  <2>10. TellsOf({}) = {}  BY DEF TellsOf
  <2>11. Stages(Kind[p], Fresh)  BY <2>7 DEF Stages
  <2>12. Counted(Kind[p], Fresh, {}, {})  BY <2>7, <2>9 DEF Counted
  <2>13. Searched(Kind[p], Fresh, {}, {}, NoShop)  BY <2>7, <2>9 DEF Searched
  <2>14. Told_(Kind[p], Fresh, {}, {}, {})  BY <2>10 DEF Told_
  <2>15. Offered(Kind[p], Fresh, {}, {}, NoShop, candidate[p], N, label)
    BY <2>6, <2>7, <2>8 DEF Offered
  <2>16. Accounts(Kind[p], Fresh, {}, {}, {}, NoShop, candidate[p], {}, N, label)
    BY <2>11, <2>12, <2>13, <2>14, <2>15 DEF Accounts
  <2> QED BY Zenon, <2>1, <2>2, <2>4, <2>16 DEF AccountOf, N
<1>5. DecisionsHold
  <2>1. ASSUME NEW d \in Deciders PROVE decider[d].pc = "idle"  BY DEF Init, Deciding
  <2>2. ASSUME NEW s \in Presses \X Cited PROVE DecisionHolds(s)
    <3>1. suggestion[s].status = "none"  BY DEF Init, NoSuggestion
    <3>2. said[s] = 0 /\ s \notin correction  BY DEF Init
    <3>3. \A d \in Deciders : ~Writes(d, s)  BY <2>1 DEF Writes
    <3> QED BY <3>1, <3>2, <3>3 DEF DecisionHolds
  <2>3. \A d \in Deciders : ReasonDismisses(d)  BY <2>1 DEF ReasonDismisses
  <2> QED BY <2>2, <2>3 DEF DecisionsHold
<1> QED BY <1>3, <1>4, <1>5 DEF AdviceInv

LEMMA AdviceStep == AdviceInv /\ [Next]_vars => AdviceInv'
<1> SUFFICES ASSUME AdviceInv, [Next]_vars PROVE AdviceInv'  OBVIOUS
<1>0. TypeOK /\ (\A p \in Presses : AccountOf(p)) /\ DecisionsHold  BY DEF AdviceInv
<1>a. scope.presses \subseteq Presses /\ scope.deciders \subseteq Deciders
  <2>1. scope \in [presses : SUBSET Presses, deciders : SUBSET Deciders,
                   things : SUBSET Things, labels : SUBSET WebFields]
    BY <1>0, AdviceAssumption DEF TypeOK
  <2> QED BY <2>1
<1>1. ASSUME NEW p \in Presses, Refuse(p) PROVE AdviceInv'
  <2>1. TypeOK'  BY Zenon, <1>0, <1>1, PressTyped
  <2>2. UNCHANGED decisionVars  BY Zenon, <1>1 DEF Refuse
  <2> QED BY Zenon, <1>0, <1>1, <2>1, <2>2, SameDecisions, RefuseAccount DEF AdviceInv
<1>2. ASSUME NEW p \in Presses, Empty(p) PROVE AdviceInv'
  <2>1. TypeOK'  BY Zenon, <1>0, <1>2, PressTyped
  <2>2. UNCHANGED decisionVars  BY Zenon, <1>2 DEF Empty
  <2> QED BY Zenon, <1>0, <1>2, <2>1, <2>2, SameDecisions, EmptyAccount DEF AdviceInv
<1>3. ASSUME NEW p \in Presses, Begin(p) PROVE AdviceInv'
  <2>1. TypeOK'  BY Zenon, <1>0, <1>3, PressTyped
  <2>2. UNCHANGED decisionVars  BY Zenon, <1>3 DEF Begin
  <2> QED BY Zenon, <1>0, <1>3, <2>1, <2>2, SameDecisions, BeginAccount DEF AdviceInv
<1>4. ASSUME NEW p \in Presses, Ask(p) PROVE AdviceInv'
  <2>1. TypeOK'  BY Zenon, <1>0, <1>4, PressTyped
  <2>2. UNCHANGED decisionVars  BY Zenon, <1>4 DEF Ask
  <2> QED BY Zenon, <1>0, <1>4, <2>1, <2>2, SameDecisions, AskAccount DEF AdviceInv
<1>5. ASSUME NEW p \in Presses, RecordError(p) PROVE AdviceInv'
  <2>1. TypeOK'  BY Zenon, <1>0, <1>5, PressTyped
  <2>2. UNCHANGED decisionVars  BY Zenon, <1>5 DEF RecordError
  <2> QED BY Zenon, <1>0, <1>5, <2>1, <2>2, SameDecisions, RecordErrorAccount DEF AdviceInv
<1>6. ASSUME NEW p \in Presses, LandPlan(p) PROVE AdviceInv'
  <2>1. TypeOK'  BY Zenon, <1>0, <1>6, LandPlanTyped
  <2>2. DecisionsHold'  BY Zenon, <1>0, <1>6, LandPlanDecisions
  <2> QED BY Zenon, <1>0, <1>6, <2>1, <2>2, LandPlanAccount DEF AdviceInv
<1>7. ASSUME NEW p \in Presses, LandInsight(p) PROVE AdviceInv'
  <2>1. TypeOK'  BY Zenon, <1>0, <1>7, PressTyped
  <2>2. UNCHANGED decisionVars  BY Zenon, <1>7 DEF LandInsight
  <2> QED BY Zenon, <1>0, <1>7, <2>1, <2>2, SameDecisions, LandInsightAccount DEF AdviceInv
<1>8. ASSUME NEW p \in Presses, LandAnswer(p) PROVE AdviceInv'
  <2>1. TypeOK'  BY Zenon, <1>0, <1>8, PressTyped
  <2>2. UNCHANGED decisionVars  BY Zenon, <1>8 DEF LandAnswer
  <2> QED BY Zenon, <1>0, <1>8, <2>1, <2>2, SameDecisions, LandAnswerAccount DEF AdviceInv
<1>9. ASSUME NEW p \in Presses, Correct(p) PROVE AdviceInv'
  <2>1. TypeOK'  BY Zenon, <1>0, <1>9, PressTyped
  <2>2. UNCHANGED decisionVars  BY Zenon, <1>9 DEF Correct
  <2> QED BY Zenon, <1>0, <1>9, <2>1, <2>2, SameDecisions, CorrectAccount DEF AdviceInv
<1>10. ASSUME NEW p \in Presses, FetchOff(p) PROVE AdviceInv'
  <2>1. TypeOK'  BY Zenon, <1>0, <1>10, PressTyped
  <2>2. UNCHANGED decisionVars  BY Zenon, <1>10 DEF FetchOff
  <2> QED BY Zenon, <1>0, <1>10, <2>1, <2>2, SameDecisions, FetchOffAccount DEF AdviceInv
<1>11. ASSUME NEW p \in Presses, FetchJina(p) PROVE AdviceInv'
  <2>1. TypeOK'  BY Zenon, <1>0, <1>11, PressTyped
  <2>2. UNCHANGED decisionVars  BY Zenon, <1>11 DEF FetchJina
  <2> QED BY Zenon, <1>0, <1>11, <2>1, <2>2, SameDecisions, FetchJinaAccount DEF AdviceInv
<1>12. ASSUME NEW p \in Presses, StoreOff(p) PROVE AdviceInv'
  <2>1. TypeOK'  BY Zenon, <1>0, <1>12, CommitsTyped
  <2>2. UNCHANGED decisionVars  BY Zenon, <1>12 DEF StoreOff
  <2> QED BY Zenon, <1>0, <1>12, <2>1, <2>2, SameDecisions, StoreOffAccount DEF AdviceInv
<1>13. ASSUME NEW p \in Presses, StoreJina(p) PROVE AdviceInv'
  <2>1. TypeOK'  BY Zenon, <1>0, <1>13, CommitsTyped
  <2>2. UNCHANGED decisionVars  BY Zenon, <1>13 DEF StoreJina
  <2> QED BY Zenon, <1>0, <1>13, <2>1, <2>2, SameDecisions, StoreJinaAccount DEF AdviceInv
<1>14. ASSUME NEW p \in Presses, Charge(p) PROVE AdviceInv'
  <2>1. TypeOK'  BY Zenon, <1>0, <1>14, PressTyped
  <2>2. UNCHANGED decisionVars  BY Zenon, <1>14 DEF Charge
  <2> QED BY Zenon, <1>0, <1>14, <2>1, <2>2, SameDecisions, ChargeAccount DEF AdviceInv
<1>15. ASSUME NEW p \in Presses, Propose(p) PROVE AdviceInv'
  <2>1. TypeOK'  BY Zenon, <1>0, <1>15, CommitsTyped
  <2>2. UNCHANGED decisionVars  BY Zenon, <1>15 DEF Propose
  <2> QED BY Zenon, <1>0, <1>15, <2>1, <2>2, SameDecisions, ProposeAccount DEF AdviceInv
<1>16. ASSUME NEW p \in Presses, Dies(p) PROVE AdviceInv'
  <2>1. TypeOK'  BY Zenon, <1>0, <1>16, PressTyped
  <2>2. UNCHANGED decisionVars  BY Zenon, <1>16 DEF Dies
  <2> QED BY Zenon, <1>0, <1>16, <2>1, <2>2, SameDecisions, DiesAccount DEF AdviceInv
<1>17. ASSUME NEW d \in Deciders, Look(d) \/ Decide(d) \/ GiveUp(d) PROVE AdviceInv'
  <2>1. TypeOK'  BY Zenon, <1>0, <1>17, DecidersTyped
  <2>2. DecisionsHold'  BY Zenon, <1>0, <1>17, LookDecisions, DecideDecisions, GiveUpDecisions
  <2> QED BY Zenon, <1>0, <1>17, <2>1, <2>2, DecidersAccount DEF AdviceInv
<1>18. CASE Restock \/ Assert
  <2>1. TypeOK'  BY Zenon, <1>0, <1>18, WorldTyped
  <2>2. UNCHANGED decisionVars  BY Zenon, <1>18 DEF Restock, Assert
  <2> QED BY Zenon, <1>0, <1>18, <2>1, <2>2, SameDecisions, WorldAccount DEF AdviceInv
<1>19. CASE UNCHANGED vars
  <2>1. UNCHANGED <<world, pressVars, decisionVars>>  BY <1>19 DEF vars
  <2>2. ledger' = ledger /\ event' = event /\ sent' = sent /\ shop' = shop /\ candidate' = candidate
        /\ suggestion' = suggestion /\ press' = press /\ label' = label
    BY <2>1 DEF world, pressVars, decisionVars
  <2>3. \A q \in Presses : AccountOf(q)'  BY <1>0, <2>2, SameRows, SameAccount
  <2>4. TypeOK'
    <3>1. (/\ press \in [Presses -> Press]
           /\ event \in SUBSET [press : Presses, outcome : Outcomes, cites : SUBSET Cited]
           /\ sent \subseteq Presses \X Calls)'
      BY <1>0, <2>2 DEF TypeOK
    <3>2. (ledger \in SUBSET [press : Presses, call : Calls, error : BOOLEAN])'
      BY Zenon, <1>0, <2>2 DEF TypeOK
    <3>3. UNCHANGED <<world, shop, candidate>> /\ UNCHANGED decisionVars  BY <2>1, <2>2
    <3> QED BY Zenon, <1>0, <3>1, <3>2, <3>3, StayTyped, DecisionsTyped DEF TypeOK
  <2> QED BY Zenon, <1>0, <2>1, <2>3, <2>4, SameDecisions DEF AdviceInv
<1> QED
  <2>1. CASE Next
    <3>1. CASE \E p \in Presses :
             \/ Refuse(p) \/ Empty(p) \/ Begin(p) \/ Ask(p) \/ RecordError(p)
             \/ LandPlan(p) \/ LandInsight(p) \/ LandAnswer(p) \/ Correct(p)
             \/ FetchOff(p) \/ FetchJina(p) \/ StoreOff(p) \/ StoreJina(p) \/ Charge(p) \/ Propose(p)
             \/ Dies(p)
      BY Zenon, <3>1, <1>1, <1>2, <1>3, <1>4, <1>5, <1>6, <1>7, <1>8, <1>9, <1>10, <1>11, <1>12,
         <1>13, <1>14, <1>15, <1>16
    <3>2. CASE \E d \in Deciders : Look(d) \/ Decide(d) \/ GiveUp(d)  BY Zenon, <3>2, <1>17
    <3> QED BY Zenon, <1>a, <2>1, <3>1, <3>2, <1>18 DEF Next
  <2> QED BY <2>1, <1>19
-----------------------------------------------------------------------------
\* What the views say of the tables.
LEMMA HasRow ==
  ASSUME TypeOK, NEW p \in Presses, NEW c \in Calls
  PROVE  /\ Has(p, c) <=> In(RowsOf(p), c)
         /\ \A e \in BOOLEAN : [press |-> p, call |-> c, error |-> e] \in ledger <=> <<c, e>> \in RowsOf(p)
<1>1. \A e \in BOOLEAN : [press |-> p, call |-> c, error |-> e] \in ledger <=> <<c, e>> \in RowsOf(p)
  BY DEF RowsOf
<1>2. ledger \subseteq [press : Presses, call : Calls, error : BOOLEAN]  BY Zenon DEF TypeOK
<1>3. ASSUME Has(p, c) PROVE In(RowsOf(p), c)
  <2>1. PICK r \in ledger : r.press = p /\ r.call = c  BY <1>3 DEF Has
  <2>2. r \in [press : Presses, call : Calls, error : BOOLEAN]  BY Zenon, <1>2
  <2>3. r.error \in BOOLEAN  BY Zenon, <2>2
  <2>4. r = [press |-> p, call |-> c, error |-> r.error]  BY <2>1, <2>2
  <2>5. [press |-> p, call |-> c, error |-> r.error] \in ledger  BY Zenon, <2>4
  <2>6. <<c, r.error>> \in RowsOf(p)  BY Zenon, <1>1, <2>3, <2>5
  <2>7. r.error = TRUE \/ r.error = FALSE  BY Zenon, <2>3
  <2> QED BY Zenon, <2>6, <2>7 DEF In
<1>4. ASSUME In(RowsOf(p), c) PROVE Has(p, c)
  <2>1. \E e \in BOOLEAN : <<c, e>> \in RowsOf(p)  BY Zenon, <1>4 DEF In
  <2>2. PICK e \in BOOLEAN : [press |-> p, call |-> c, error |-> e] \in ledger  BY Zenon, <1>1, <2>1
  <2>3. [press |-> p, call |-> c, error |-> e].press = p /\ [press |-> p, call |-> c, error |-> e].call = c
    BY Zenon
  <2> QED BY Zenon, <2>2, <2>3 DEF Has
<1> QED BY <1>1, <1>3, <1>4

LEMMA ToldEvent ==
  ASSUME TypeOK, NEW p \in Presses
  PROVE  /\ \A e \in event : e.press = p => <<e.outcome, e.cites>> \in EventsOf(p)
         /\ \A x \in EventsOf(p) : /\ [press |-> p, outcome |-> x[1], cites |-> x[2]] \in event
                                   /\ x[1] \in Outcomes
<1>1. event \subseteq [press : Presses, outcome : Outcomes, cites : SUBSET Cited]  BY DEF TypeOK
<1>2. ASSUME NEW e \in event, e.press = p PROVE <<e.outcome, e.cites>> \in EventsOf(p)
  <2>1. e \in [press : Presses, outcome : Outcomes, cites : SUBSET Cited]  BY <1>1
  <2>2. e = [press |-> p, outcome |-> e.outcome, cites |-> e.cites]  BY <1>2, <2>1
  <2>3. <<e.outcome, e.cites>> \in Outcomes \X SUBSET Cited  BY <2>1
  <2> QED BY <2>2, <2>3 DEF EventsOf
<1> QED BY <1>2 DEF EventsOf

LEMMA ToldViews ==
  ASSUME TypeOK, NEW p \in Presses
  PROVE  Told(p) # {} <=> TellsOf(EventsOf(p)) # {}
<1>1. ASSUME NEW e \in Told(p) PROVE TellsOf(EventsOf(p)) # {}
  <2>1. e \in event /\ e.press = p /\ e.outcome \in {"ok", "ungrounded"}  BY DEF Told
  <2>2. <<e.outcome, e.cites>> \in EventsOf(p)  BY <2>1, ToldEvent
  <2>3. <<e.outcome, e.cites>> \in TellsOf(EventsOf(p))  BY <2>1, <2>2 DEF TellsOf
  <2> QED BY <2>3
<1>2. ASSUME NEW x \in TellsOf(EventsOf(p)) PROVE Told(p) # {}
  <2>1. x \in EventsOf(p) /\ x[1] \in {"ok", "ungrounded"}  BY DEF TellsOf
  <2>2. [press |-> p, outcome |-> x[1], cites |-> x[2]] \in event  BY <2>1, ToldEvent
  <2>3. [press |-> p, outcome |-> x[1], cites |-> x[2]] \in Told(p)  BY <2>1, <2>2 DEF Told
  <2> QED BY <2>3
<1> QED BY <1>1, <1>2

LEMMA InvLedgers == AdviceInv => AdviceLedgered
<1> SUFFICES ASSUME AdviceInv, NEW p \in Presses
    PROVE  /\ Unpaid(p) \subseteq {press[p].call}
           /\ press[p].pc \in {"done", "ask", "propose"} => Unpaid(p) = {}
           /\ press[p].call = "repair" => [press |-> p, call |-> "first", error |-> TRUE] \in ledger
           /\ Leaves(p) => (Good(p) <=> Told(p) # {})
           /\ \A c \in Cited : suggestion[<<p, c>>].status # "none" =>
                \E e \in Told(p) : e.outcome = "ok" /\ c \in e.cites
           /\ Has(p, "jina") => shop[p].job /\ shop[p].jina
  BY Zenon DEF AdviceLedgered
<1>0. TypeOK /\ AccountOf(p)  BY Zenon DEF AdviceInv
<1> DEFINE R == RowsOf(p)  S == SentOf(p)  E == EventsOf(p)  M == Made(p)
<1>1. /\ Counted(Kind[p], press[p], R, S) /\ Told_(Kind[p], press[p], R, E, M)
      /\ Searched(Kind[p], press[p], R, S, shop[p])
  BY <1>0 DEF AccountOf, Accounts
<1>2. press[p].call \in Calls /\ "first" \in Calls /\ "jina" \in Calls  BY <1>0, PressFacts DEF Calls
<1>3. \A c \in Calls : c \in Unpaid(p) <=> c \in S /\ ~In(R, c)
  BY <1>0, HasRow DEF Unpaid, SentOf
<1>4. Unpaid(p) \subseteq Calls  BY DEF Unpaid
<1>5. [press |-> p, call |-> "first", error |-> TRUE] \in ledger <=> <<"first", TRUE>> \in R
  BY Zenon, <1>0, <1>2, HasRow
<1>6. Good(p) <=> <<press[p].call, FALSE>> \in R  BY Zenon, <1>0, <1>2, HasRow DEF Good
<1>7. Has(p, "jina") <=> In(R, "jina")  BY <1>0, <1>2, HasRow
<1>8. Told(p) # {} <=> TellsOf(E) # {}  BY <1>0, ToldViews
<1>9. ASSUME NEW c \in Cited, suggestion[<<p, c>>].status # "none"
      PROVE  \E e \in Told(p) : e.outcome = "ok" /\ c \in e.cites
  <2>1. c \in M  BY <1>9 DEF Made
  <2>2. PICK x \in E : x[1] = "ok" /\ c \in x[2]  BY <1>1, <2>1 DEF Told_
  <2>3. [press |-> p, outcome |-> x[1], cites |-> x[2]] \in event  BY <1>0, ToldEvent
  <2>4. [press |-> p, outcome |-> x[1], cites |-> x[2]] \in Told(p)  BY <2>2, <2>3 DEF Told
  <2> QED BY <2>2, <2>4
<1> HIDE DEF R, S, E, M
<1>10. Unpaid(p) \subseteq {press[p].call}  BY <1>1, <1>2, <1>3, <1>4 DEF Counted
<1>11. press[p].pc \in {"done", "ask", "propose"} => Unpaid(p) = {}
  BY <1>1, <1>2, <1>3, <1>10 DEF Counted
<1>12. press[p].call = "repair" => [press |-> p, call |-> "first", error |-> TRUE] \in ledger
  BY Zenon, <1>1, <1>5 DEF Counted
<1>13. Leaves(p) => (Good(p) <=> Told(p) # {})
  BY Zenon, <1>1, <1>6, <1>8 DEF Told_, Leaves
<1>14. Has(p, "jina") => shop[p].job /\ shop[p].jina  BY Zenon, <1>1, <1>7 DEF Searched
<1> QED BY Zenon, <1>9, <1>10, <1>11, <1>12, <1>13, <1>14

LEMMA InvGrounds == AdviceInv => Grounded
<1> SUFFICES ASSUME AdviceInv, NEW p \in Presses
    PROVE  /\ \A c \in Cited : suggestion[<<p, c>>].ref \in press[p].seen \cup {"label"}
           /\ Kind[p] = "insights" => \A e \in event : e.press = p /\ e.outcome = "ok" =>
                                        e.cites # {} /\ e.cites \subseteq press[p].seen
           /\ shop[p].proposed => \A f \in DOMAIN candidate[p] :
                /\ f \in press[p].had => candidate[p][f] = "label"
                /\ candidate[p][f] = "off" => shop[p].off /\ Accepted(p) /\ ~Has(p, "jina")
                /\ candidate[p][f] = "jina" => shop[p].jina /\ Has(p, "jina") /\ ~Accepted(p)
  BY Zenon DEF Grounded
<1>0. TypeOK /\ AccountOf(p)  BY Zenon DEF AdviceInv
<1>1. Offered(Kind[p], press[p], RowsOf(p), EventsOf(p), shop[p], candidate[p], RefsOf(p), label)
  BY Zenon, <1>0 DEF AccountOf, Accounts
<1>2. "jina" \in Calls  BY DEF Calls
<1>3. Has(p, "jina") <=> In(RowsOf(p), "jina")  BY <1>0, <1>2, HasRow
<1>4. ASSUME NEW c \in Cited PROVE suggestion[<<p, c>>].ref \in press[p].seen \cup {"label"}
  <2>1. suggestion[<<p, c>>].ref \in RefsOf(p)  BY DEF RefsOf
  <2>2. RefsOf(p) \subseteq press[p].seen \cup {"label"}  BY Zenon, <1>1 DEF Offered
  <2> QED BY <2>1, <2>2
<1>5. ASSUME Kind[p] = "insights", NEW e \in event, e.press = p, e.outcome = "ok"
      PROVE  e.cites # {} /\ e.cites \subseteq press[p].seen
  <2>1. <<e.outcome, e.cites>> \in EventsOf(p)  BY <1>0, <1>5, ToldEvent
  <2>2. \A x \in EventsOf(p) : x[1] = "ok" => x[2] # {} /\ x[2] \subseteq press[p].seen
    BY Zenon, <1>1, <1>5 DEF Offered
  <2> QED BY <1>5, <2>1, <2>2
<1>6. ASSUME shop[p].proposed, NEW f \in DOMAIN candidate[p]
      PROVE  /\ f \in press[p].had => candidate[p][f] = "label"
             /\ candidate[p][f] = "off" => shop[p].off /\ Accepted(p) /\ ~Has(p, "jina")
             /\ candidate[p][f] = "jina" => shop[p].jina /\ Has(p, "jina") /\ ~Accepted(p)
  <2>1. Sourced(press[p], RowsOf(p), shop[p], candidate[p], f)  BY Zenon, <1>1, <1>6 DEF Offered
  <2> QED BY Zenon, <1>3, <2>1 DEF Sourced, Accepted
<1> QED BY Zenon, <1>4, <1>5, <1>6

LEMMA InvDecides == AdviceInv => DecidedOnce
<1> SUFFICES ASSUME AdviceInv, NEW s \in DOMAIN suggestion, s \notin clashed
    PROVE  said[s] <= 1 /\ (s \in correction => suggestion[s].status = "dismissed")
  BY Zenon DEF DecidedOnce
<1>0. TypeOK /\ DecisionsHold  BY Zenon DEF AdviceInv
<1>1. suggestion \in [Presses \X Cited -> Suggestion]  BY <1>0 DEF TypeOK
<1>2. s \in Presses \X Cited  BY <1>1
<1>3. suggestion[s].status \in {"none", "pending", "confirmed", "dismissed"}  BY <1>1, <1>2 DEF Suggestion
<1>4. DecisionHolds(s)  BY <1>0, <1>2 DEF DecisionsHold
<1> QED BY <1>3, <1>4 DEF DecisionHolds

\* Every press, row, event, suggestion, candidate and decision has its type.
THEOREM TypesHold == Spec => []TypeOK
<1>1. AdviceInv => TypeOK  BY Zenon DEF AdviceInv
<1> QED BY <1>1, AdviceStarts, AdviceStep, PTL DEF Spec

\* However presses overlap and wherever they die, each call that left has its
\* row in the ledger but for the last of a press under way or dead, an answer's row
\* stands exactly with its event, and suggestions and charges on theirs.
THEOREM AlwaysLedgered == Spec => []AdviceLedgered
BY AdviceStarts, AdviceStep, InvLedgers, PTL DEF Spec

\* Whatever the answers cite and the household becomes meanwhile, what is
\* offered refers only to what was shown or stored, and a label's value stands.
THEOREM AlwaysGrounded == Spec => []Grounded
BY AdviceStarts, AdviceStep, InvGrounds, PTL DEF Spec

\* With any number of requests, a suggestion that no two of them were deciding
\* together is decided at most once, and corrected only when dismissed.
THEOREM DecidedOnceHolds == Spec => []DecidedOnce
BY AdviceStarts, AdviceStep, InvDecides, PTL DEF Spec
=============================================================================
