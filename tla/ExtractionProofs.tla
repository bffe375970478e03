-------------------------- MODULE ExtractionProofs --------------------------
(* Proofs about Extraction, for any number of jobs, images and runs, for    *)
(* any set of answers, and with every fault.                                *)
(*                                                                          *)
(* An action changes one job and perhaps the lock.  The invariant is        *)
(* therefore restated of values, one job at a time: f is the job's calls, q *)
(* its request, s, o and t its step, output and transcripts, h whether it   *)
(* holds the lock.  Each action has a lemma about such values.              *)
EXTENDS Extraction, TLAPS

USE ExtractionAssumption

Table == [Calls -> Row]
Cur(q) == [run |-> q.run, image |-> q.image, attempt |-> q.attempt]
HeardIn(f, n) == {c.image : c \in {d \in Calls : d.run = n /\ f[d].said}}

FreshV(q) == q.pc = "ready" =>
  /\ q.run > 0 /\ q.image = 1 /\ q.attempt = 1
  /\ q.heard = {} /\ q.stored = {}

SentV(f, q) == \A c \in Calls : f[c].answer # "unsent" =>
  /\ c.run <= q.run
  /\ c.run = q.run => c.image <= q.image /\ q.pc # "ready"
  /\ c.run = q.run /\ c.image = q.image =>
       /\ c.attempt <= q.attempt
       /\ q.pc = "call" => c.attempt < q.attempt

ReadIn(f, q, i) == \E a \in 1..2 :
  f[[run |-> q.run, image |-> i, attempt |-> a]].answer = "valid"
ReadV(f, q) == q.pc \in {"call", "record", "store"} =>
  /\ q.run > 0
  /\ q.image > 1 => ReadIn(f, q, q.image - 1)
  /\ q.pc \in {"call", "record"} /\ q.attempt = 2 =>
       /\ f[First(Cur(q))].answer \in Repairable
       /\ f[First(Cur(q))].answer \in Errors => f[First(Cur(q))].row = "failed"

RowsV(f, q) == q.pc \in {"call", "record", "store"} =>
  /\ q.pc = "record" => f[Cur(q)].row = "none"
  /\ \A c \in Calls : c.run = q.run /\ f[c].answer # "unsent" =>
       f[c].row # "none" \/ (q.pc = "record" /\ c = Cur(q))
  /\ HeardIn(f, q.run) =
       IF q.pc = "record" THEN q.heard \cup (IF f[Cur(q)].said THEN {q.image} ELSE {})
       ELSE q.heard
  /\ q.stored \subseteq q.heard

SaidV(f) == \A c \in Calls : f[c].said => f[c].answer = "valid"

PendV(f, q, h) ==
  /\ \A c \in Calls : f[c].row = "pending" => h /\ c.run = q.run
  /\ h => q.pc \in {"call", "record", "mark", "store"}
  /\ h /\ q.pc = "mark" => \E c \in Calls : /\ c.run = q.run /\ c.image = q.image
                                           /\ f[c].row \in {"pending", "kept"}

DoneV(q, s, o) == /\ o # "none" <=> s = "COMPLETED"
                  /\ s = "COMPLETED" => q.pc = "idle"

DueV(f) == \A c \in Calls : f[c].answer # "unsent" =>
  IF c.attempt = 2
  THEN f[First(c)].answer \notin {"valid", "down", "misshapen", "unsent"}
  ELSE c.image > 1 => \E a \in 1..2 : f[Before(c, a)].answer = "valid"

RepairV(f) == \A c \in Calls :
  c.attempt = 2 /\ f[c].answer # "unsent" /\ f[First(c)].answer \in Errors
    => f[First(c)].row = "failed"

TextV(f, q, o, t) == t = IF o = "ok" THEN HeardIn(f, q.run) ELSE {}

LedgerV(f, q, o) == o = "ok" =>
  \A c \in Calls : c.run = q.run /\ f[c].answer # "unsent" => f[c].row \in {"kept", "failed"}

JobInv(f, q, s, o, t, h) ==
  /\ FreshV(q) /\ SentV(f, q) /\ ReadV(f, q) /\ RowsV(f, q) /\ PendV(f, q, h)
  /\ DoneV(q, s, o) /\ DueV(f) /\ RepairV(f) /\ TextV(f, q, o, t) /\ LedgerV(f, q, o)
  /\ SaidV(f)

Inv == TypeOK /\ \A j \in Jobs : JobInv(call[j], req[j], step[j], output[j], text[j], lock = j)

LEMMA InvIsExtractionInv == Inv <=> ExtractionInv
  <1> USE DEF At, Sent, Here, Cur
  <1>1. FreshAtStart <=> \A j \in Jobs : FreshV(req[j])
    BY DEF FreshAtStart, FreshV
  <1>2. SentBehind <=> \A j \in Jobs : SentV(call[j], req[j])
    BY DEF SentBehind, SentV
  <1>3. ReadBehind <=> \A j \in Jobs : ReadV(call[j], req[j])
    BY DEF ReadBehind, ReadV, Read, ReadIn, Asking
  <1>4. RowsBehind <=> \A j \in Jobs : RowsV(call[j], req[j])
    BY DEF RowsBehind, RowsV, Heard, HeardIn, HeardHere, Asking
  <1>5. PendingIsLocked <=> \A j \in Jobs : PendV(call[j], req[j], lock = j)
    BY DEF PendingIsLocked, PendV, Marked
  <1>6. DoneIsOver <=> \A j \in Jobs : DoneV(req[j], step[j], output[j])
    BY DEF DoneIsOver, DoneV
  <1>7. CallsAreDue <=> \A j \in Jobs : DueV(call[j])
    BY DEF CallsAreDue, DueV
  <1>8. RepairsFollowRecord <=> \A j \in Jobs : RepairV(call[j])
    BY DEF RepairsFollowRecord, RepairV
  <1>9. TextsIffExtracted <=> \A j \in Jobs : TextV(call[j], req[j], output[j], text[j])
    BY DEF TextsIffExtracted, TextV, Heard, HeardIn
  <1>10. CompletedIsLedgered <=> \A j \in Jobs : LedgerV(call[j], req[j], output[j])
    BY DEF CompletedIsLedgered, LedgerV
  <1>11. OnlyReadSays <=> \A j \in Jobs : SaidV(call[j])
    BY DEF OnlyReadSays, SaidV
  <1> HIDE DEF At, Sent, Here, Cur
  <1> QED
    BY <1>1, <1>2, <1>3, <1>4, <1>5, <1>6, <1>7, <1>8, <1>9, <1>10, <1>11 DEF Inv, ExtractionInv, JobInv

-----------------------------------------------------------------------------
(* Calls as keys.                                                          *)

LEMMA Keys ==
  /\ \A q \in Request : q.run > 0 => Cur(q) \in Calls
  /\ \A c \in Calls : /\ First(c) \in Calls /\ First(c).attempt = 1
                      /\ First(c).run = c.run /\ First(c).image = c.image
                      /\ c.attempt = 1 \/ c.attempt = 2
                      /\ c.attempt = 1 => First(c) = c
  /\ \A c \in Calls, a \in 1..2 : c.image > 1 => /\ Before(c, a) \in Calls
                                                 /\ Before(c, a).image = c.image - 1
  /\ \A c \in Calls, q \in Request :
        c = Cur(q) <=> c.run = q.run /\ c.image = q.image /\ c.attempt = q.attempt
  BY SMT DEF Calls, Cur, Request, First, Before

\* The row of a call that succeeded.
Flushed(x) == [x EXCEPT !.row = "pending"]

LEMMA FlushedRow == \A x \in Row :
  Flushed(x).row = "pending" /\ Flushed(x).answer = x.answer /\ Flushed(x).said = x.said
  BY DEF Row, Flushed

(* A change of ledger rows that touches no answer and erases no failure.   *)
RowsOnly(f, g) == \A c \in Calls : /\ g[c].answer = f[c].answer
                                   /\ g[c].said = f[c].said
                                   /\ f[c].row = "failed" => g[c].row = "failed"

LEMMA RowsOnlyKeeps ==
  ASSUME NEW f \in Table, NEW g \in Table, RowsOnly(f, g)
  PROVE  /\ DueV(f) => DueV(g)
         /\ RepairV(f) => RepairV(g)
         /\ SaidV(f) => SaidV(g)
         /\ \A q \in Request : SentV(f, q) => SentV(g, q)
         /\ \A n \in Nat : HeardIn(g, n) = HeardIn(f, n)
         /\ \A q \in Request : ReadV(f, q) => ReadV(g, q)
  <1>1. DueV(f) => DueV(g)
    BY Keys DEF DueV, RowsOnly
  <1>2. RepairV(f) => RepairV(g)
    BY Keys DEF RepairV, RowsOnly
  <1>3. \A q \in Request : SentV(f, q) => SentV(g, q)
    BY DEF SentV, RowsOnly
  <1>4. \A n \in Nat : HeardIn(g, n) = HeardIn(f, n)
    BY DEF HeardIn, RowsOnly
  <1>5. ASSUME NEW q \in Request, ReadV(f, q) PROVE ReadV(g, q)
    <2> SUFFICES ASSUME q.pc \in {"call", "record", "store"} PROVE ReadV(g, q)
      BY DEF ReadV
    <2>1. q.run > 0 /\ q.run \in 1..Runs /\ q.image \in 1..Images
      BY <1>5 DEF ReadV, Request
    <2>2. q.image > 1 => ReadIn(g, q, q.image - 1)
      <3> SUFFICES ASSUME q.image > 1 PROVE ReadIn(g, q, q.image - 1)
        OBVIOUS
      <3>1. PICK a \in 1..2 :
              f[[run |-> q.run, image |-> q.image - 1, attempt |-> a]].answer = "valid"
        BY <1>5 DEF ReadV, ReadIn
      <3>2. [run |-> q.run, image |-> q.image - 1, attempt |-> a] \in Calls
        BY <2>1 DEF Calls
      <3> QED BY <3>1, <3>2 DEF ReadIn, RowsOnly
    <2>3. First(Cur(q)) \in Calls
      BY Keys, <2>1
    <2> QED BY <1>5, <2>1, <2>2, <2>3 DEF ReadV, RowsOnly
  <1>6. SaidV(f) => SaidV(g)
    BY DEF SaidV, RowsOnly
  <1> QED BY <1>1, <1>2, <1>3, <1>4, <1>5, <1>6

-----------------------------------------------------------------------------
(* One lemma per kind of step.                                             *)

\* A run starts: the request is new, nothing of the job is pending.
LEMMA StartKeeps ==
  ASSUME NEW f \in Table, NEW q \in Request, NEW r \in Request,
         NEW s, NEW o, NEW t, NEW h, JobInv(f, q, s, o, t, h),
         q.pc = "idle", s # "COMPLETED", r.pc = "ready", r.run = q.run + 1,
         r.image = 1, r.attempt = 1, r.heard = {}, r.stored = {}
  PROVE  ~h /\ JobInv(f, r, "RUNNING", o, t, h)
  <1>1. ~h /\ o = "none"
    BY DEF JobInv, PendV, DoneV
  <1>2. SentV(f, r) /\ FreshV(r)
    BY DEF JobInv, SentV, FreshV, Request, Calls
  <1>3. PendV(f, r, h)
    BY <1>1 DEF JobInv, PendV
  <1> QED
    BY <1>1, <1>2, <1>3 DEF JobInv, ReadV, RowsV, DoneV, TextV, LedgerV

\* The request moves to a place behind which there is nothing to remember.
LEMMA RestKeeps ==
  ASSUME NEW f \in Table, NEW q \in Request, NEW r \in Request,
         NEW s, NEW o, NEW t, NEW h, JobInv(f, q, s, o, t, h),
         NEW g \in Table, NEW s2, NEW h2,
         q.pc # "idle", r = [q EXCEPT !.pc = r.pc], r.pc \in {"idle", "skip", "mark", "failing"},
         RowsOnly(f, g), s2 # "COMPLETED", PendV(g, r, h2)
  PROVE  JobInv(g, r, s2, o, t, h2)
  <1>1. o = "none" /\ t = {}
    BY DEF JobInv, DoneV, TextV
  <1>2. SentV(f, r)
    BY DEF JobInv, SentV, Request
  <1>3. SentV(g, r) /\ DueV(g) /\ RepairV(g) /\ SaidV(g)
    BY <1>2, RowsOnlyKeeps DEF JobInv
  <1> QED
    BY <1>1, <1>3 DEF JobInv, FreshV, ReadV, RowsV, DoneV, TextV, LedgerV
\* The first call of a run.
LEMMA PrepareKeeps ==
  ASSUME NEW f \in Table, NEW q \in Request, NEW r \in Request,
         NEW s, NEW o, NEW t, NEW h, JobInv(f, q, s, o, t, h),
         q.pc = "ready", r = [q EXCEPT !.pc = "call"]
  PROVE  JobInv(f, r, s, o, t, h)
  <1>1. o = "none" /\ s # "COMPLETED" /\ t = {} /\ ~h
    BY DEF JobInv, DoneV, TextV, PendV
  <1>2. \A c \in Calls : c.run = q.run => f[c].answer = "unsent"
    BY DEF JobInv, SentV
  <1>3. /\ r.pc = "call" /\ r.run = q.run /\ r.image = 1 /\ r.attempt = 1 /\ r.run > 0
        /\ r.heard = {} /\ r.stored = {}
    BY DEF JobInv, FreshV, Request
  <1>4. SentV(f, r)
    BY <1>2, <1>3 DEF JobInv, SentV
  <1>5. HeardIn(f, r.run) = {}
    <2>1. \A c \in Calls : c.run = r.run => ~f[c].said
      BY <1>2, <1>3 DEF JobInv, SaidV
    <2> QED BY <2>1 DEF HeardIn
  <1>6. RowsV(f, r)
    BY <1>2, <1>3, <1>5 DEF RowsV
  <1>7. ReadV(f, r)
    BY <1>3 DEF ReadV
  <1>8. PendV(f, r, h)
    BY <1>1, <1>3 DEF JobInv, PendV
  <1> QED
    BY <1>1, <1>3, <1>4, <1>6, <1>7, <1>8 DEF JobInv, FreshV, DoneV, LedgerV, TextV

\* The current call is answered; it was unsent.
LEMMA AskKeeps ==
  ASSUME NEW f \in Table, NEW q \in Request, NEW r \in Request,
         NEW s, NEW o, NEW t, NEW h, JobInv(f, q, s, o, t, h),
         NEW g \in Table, NEW a \in AllAnswers, NEW said \in BOOLEAN, said => a = "valid",
         q.pc = "call", r = [q EXCEPT !.pc = "record"],
         g = [f EXCEPT ![Cur(q)] = [answer |-> a, said |-> said, row |-> "none"]]
  PROVE  JobInv(g, r, s, o, t, h)
  <1> DEFINE k == Cur(q)
  <1>1. o = "none" /\ s # "COMPLETED" /\ t = {}
    BY DEF JobInv, DoneV, TextV
  <1>2. q.run > 0 /\ k \in Calls /\ q.image \in 1..Images /\ q.run \in 1..Runs
    BY Keys DEF JobInv, ReadV, Request
  <1>3. /\ r.pc = "record" /\ r.run = q.run /\ r.image = q.image /\ r.attempt = q.attempt
        /\ r.heard = q.heard /\ r.stored = q.stored
        /\ Cur(r) = k /\ k.run = q.run /\ k.image = q.image /\ k.attempt = q.attempt
    BY DEF Request, Cur
  <1>4. /\ g[k] = [answer |-> a, said |-> said, row |-> "none"]
        /\ \A c \in Calls : c # k => g[c] = f[c]
    BY <1>2 DEF Table
  <1>5. f[k].answer = "unsent" /\ ~f[k].said
    BY <1>2, <1>3 DEF JobInv, SentV, SaidV, Request
  <1> HIDE DEF k
  <1>6. SentV(g, r)
    <2> SUFFICES ASSUME NEW c \in Calls, g[c].answer # "unsent"
                 PROVE  /\ c.run <= r.run
                        /\ c.run = r.run => c.image <= r.image
                        /\ c.run = r.run /\ c.image = r.image => c.attempt <= r.attempt
      BY <1>3 DEF SentV
    <2>1. CASE c = k
      <3>1. q.run \in Nat /\ q.image \in Nat /\ q.attempt \in Nat
        BY DEF Request
      <3> QED BY <2>1, <3>1, <1>3
    <2>2. CASE c # k
      BY <2>2, <1>3, <1>4 DEF JobInv, SentV
    <2> QED BY <2>1, <2>2
  <1>7. SaidV(g)
    BY <1>4 DEF JobInv, SaidV
  <1>8. HeardIn(g, r.run) = HeardIn(f, q.run) \cup (IF said THEN {q.image} ELSE {})
    <2>1. (g[k].said <=> said) /\ \A c \in Calls : c # k => (g[c].said <=> f[c].said)
      BY <1>4
    <2>2. \A x : x \in HeardIn(g, r.run) <=>
                  \E c \in Calls : c.run = q.run /\ g[c].said /\ x = c.image
      BY <1>3, Zenon DEF HeardIn
    <2>3. \A x : x \in HeardIn(f, q.run) <=>
                  \E c \in Calls : c.run = q.run /\ f[c].said /\ x = c.image
      BY Zenon DEF HeardIn
    <2>4. \A x : x \in HeardIn(g, r.run) <=> x \in HeardIn(f, q.run) \/ (said /\ x = q.image)
      <3> SUFFICES ASSUME NEW x
                   PROVE x \in HeardIn(g, r.run) <=> x \in HeardIn(f, q.run) \/ (said /\ x = q.image)
        OBVIOUS
      <3>1. ASSUME x \in HeardIn(g, r.run)
            PROVE  x \in HeardIn(f, q.run) \/ (said /\ x = q.image)
        <4>1. PICK c \in Calls : c.run = q.run /\ g[c].said /\ x = c.image
          BY <3>1, <2>2
        <4>2. CASE c = k
          BY <4>1, <4>2, <2>1, <1>3, Zenon
        <4>3. CASE c # k
          BY <4>1, <4>3, <2>1, <2>3, Zenon
        <4> QED BY <4>2, <4>3
      <3>2. ASSUME x \in HeardIn(f, q.run) PROVE x \in HeardIn(g, r.run)
        <4>1. PICK c \in Calls : c.run = q.run /\ f[c].said /\ x = c.image
          BY <3>2, <2>3
        <4>2. c # k
          BY <4>1, <1>5, Zenon
        <4> QED BY <4>1, <4>2, <2>1, <2>2, Zenon
      <3>3. ASSUME said, x = q.image PROVE x \in HeardIn(g, r.run)
        BY <3>3, <2>1, <2>2, <1>2, <1>3, Zenon
      <3> QED BY <3>1, <3>2, <3>3
    <2>5. CASE said
      BY <2>4, <2>5
    <2>6. CASE ~said
      BY <2>4, <2>6
    <2> QED BY <2>5, <2>6
  <1>9. RowsV(g, r)
    <2>1. /\ \A c \in Calls : c.run = q.run /\ f[c].answer # "unsent" => f[c].row # "none"
          /\ HeardIn(f, q.run) = q.heard /\ q.stored \subseteq q.heard
      BY DEF JobInv, RowsV
    <2>2. \A c \in Calls : c.run = r.run /\ g[c].answer # "unsent" =>
            g[c].row # "none" \/ c = Cur(r)
      BY <2>1, <1>3, <1>4
    <2>3. g[Cur(r)].said = said
      BY <1>3, <1>4
    <2>4. HeardIn(g, r.run) = r.heard \cup (IF g[Cur(r)].said THEN {r.image} ELSE {})
      BY <2>1, <2>3, <1>3, <1>8
    <2>5. g[Cur(r)].row = "none"
      BY <1>3, <1>4
    <2> QED BY <2>1, <2>2, <2>4, <2>5, <1>3 DEF RowsV
  <1>10. ReadV(g, r)
    <2>1. q.image > 1 => ReadIn(g, r, r.image - 1)
      <3> SUFFICES ASSUME q.image > 1 PROVE ReadIn(g, r, r.image - 1)
        OBVIOUS
      <3>1. PICK b \in 1..2 :
              f[[run |-> q.run, image |-> q.image - 1, attempt |-> b]].answer = "valid"
        BY DEF JobInv, ReadV, ReadIn
      <3>2. /\ [run |-> q.run, image |-> q.image - 1, attempt |-> b] \in Calls
            /\ [run |-> q.run, image |-> q.image - 1, attempt |-> b] # k
        BY <1>2, <1>3 DEF Calls
      <3> QED BY <3>1, <3>2, <1>3, <1>4 DEF ReadIn
    <2>2. q.attempt = 2 => First(k) \in Calls /\ First(k) # k
      BY <1>2, <1>3, Keys
    <2> QED BY <1>3, <1>4, <2>1, <2>2 DEF JobInv, ReadV, k
  <1>11. DueV(g)
    <2> SUFFICES ASSUME NEW c \in Calls, g[c].answer # "unsent"
                 PROVE  IF c.attempt = 2
                        THEN g[First(c)].answer \notin {"valid", "down", "misshapen", "unsent"}
                        ELSE c.image > 1 => \E b \in 1..2 : g[Before(c, b)].answer = "valid"
      BY DEF DueV
    <2>1. CASE c # k
      <3>1. IF c.attempt = 2
            THEN f[First(c)].answer \notin {"valid", "down", "misshapen", "unsent"}
            ELSE c.image > 1 => \E b \in 1..2 : f[Before(c, b)].answer = "valid"
        BY <2>1, <1>4 DEF JobInv, DueV
      <3>2. c.attempt = 2 => First(c) # k
        BY <3>1, <1>5
      <3>3. \A b \in 1..2 : f[Before(c, b)].answer = "valid" => Before(c, b) # k
        BY <1>5
      <3> QED BY <3>1, <3>2, <3>3, <1>4, Keys
    <2>2. CASE c = k
      <3>1. c.attempt = 2 => /\ First(c) \in Calls /\ First(c) # k
                             /\ f[First(c)].answer \in Repairable
        BY <2>2, <1>2, <1>3, Keys DEF JobInv, ReadV, k
      <3>2. c.image > 1 => \E b \in 1..2 : /\ Before(c, b) \in Calls /\ Before(c, b) # k
                                           /\ f[Before(c, b)].answer = "valid"
        <4> SUFFICES ASSUME c.image > 1
                     PROVE  \E b \in 1..2 : /\ Before(c, b) \in Calls /\ Before(c, b) # k
                                            /\ f[Before(c, b)].answer = "valid"
          OBVIOUS
        <4>1. PICK b \in 1..2 :
                f[[run |-> q.run, image |-> q.image - 1, attempt |-> b]].answer = "valid"
          BY <2>2, <1>3 DEF JobInv, ReadV, ReadIn
        <4>2. Before(c, b) = [run |-> q.run, image |-> q.image - 1, attempt |-> b]
          BY <2>2, <1>3 DEF Before
        <4> QED BY <4>1, <4>2, <2>2, Keys, <1>3, <1>2
      <3> QED BY <3>1, <3>2, <2>2, <1>4 DEF Repairable
    <2> QED BY <2>1, <2>2
  <1>12. RepairV(g)
    <2> SUFFICES ASSUME NEW c \in Calls, c.attempt = 2, g[c].answer # "unsent",
                        g[First(c)].answer \in Errors
                 PROVE  g[First(c)].row = "failed"
      BY DEF RepairV
    <2>1. First(c) \in Calls /\ First(c).attempt = 1 /\ First(c) # c
      BY Keys
    <2>2. CASE c = k
      BY <2>1, <2>2, <1>3, <1>4 DEF JobInv, ReadV, k
    <2>3. CASE c # k
      <3>1. f[First(c)].answer # "unsent"
        BY <2>3, <1>4 DEF JobInv, DueV
      <3> QED BY <2>1, <2>3, <3>1, <1>4, <1>5 DEF JobInv, RepairV
    <2> QED BY <2>2, <2>3
  <1>13. PendV(g, r, h)
    BY <1>3, <1>4 DEF JobInv, PendV
  <1> QED
    BY <1>1, <1>3, <1>6, <1>7, <1>9, <1>10, <1>11, <1>12, <1>13
       DEF JobInv, FreshV, DoneV, TextV, LedgerV
\* An answer that passed has its row; on to the next image or to the transcripts.
LEMMA RecordKeeps ==
  ASSUME NEW f \in Table, NEW q \in Request, NEW r \in Request,
         NEW s, NEW o, NEW t, NEW h, JobInv(f, q, s, o, t, h), NEW g \in Table,
         q.pc = "record", f[Cur(q)].answer = "valid",
         \A c \in Calls : c # Cur(q) => g[c] = f[c], g[Cur(q)] = Flushed(f[Cur(q)]),
         r.run = q.run, r.stored = q.stored,
         r.heard = q.heard \cup (IF f[Cur(q)].said THEN {q.image} ELSE {}),
         \/ r.pc = "call" /\ r.image = q.image + 1 /\ r.attempt = 1
         \/ r.pc = "store" /\ r.image = q.image /\ r.attempt = q.attempt
  PROVE  JobInv(g, r, s, o, t, TRUE)
  <1> DEFINE k == Cur(q)
  <1>1. o = "none" /\ s # "COMPLETED" /\ t = {}
    BY DEF JobInv, DoneV, TextV
  <1>2. /\ q.run > 0 /\ k \in Calls /\ q.image \in 1..Images /\ q.run \in 1..Runs
        /\ q.attempt \in 1..2
        /\ k.run = q.run /\ k.image = q.image /\ k.attempt = q.attempt
    BY Keys DEF JobInv, ReadV, Request, Cur
  <1>3. /\ g[k] = Flushed(f[k])
        /\ \A c \in Calls : c # k => g[c] = f[c]
    BY <1>2 DEF Table
  <1>4. f[k] \in Row /\ f[k].row = "none"
    BY <1>2 DEF JobInv, RowsV, Table
  <1>5. g[k].row = "pending" /\ g[k].answer = f[k].answer /\ g[k].said = f[k].said
    <2> HIDE DEF k
    <2> QED BY <1>3, <1>4, FlushedRow, Zenon
  <1> HIDE DEF k
  <1>6. RowsOnly(f, g)
    BY <1>3, <1>4, <1>5 DEF RowsOnly
  <1>7. /\ DueV(g) /\ RepairV(g) /\ SaidV(g) /\ SentV(g, q) /\ ReadV(g, q)
        /\ HeardIn(g, q.run) = HeardIn(f, q.run)
    BY <1>6, <1>2, RowsOnlyKeeps DEF JobInv
  <1>8. SentV(g, r)
    <2> SUFFICES ASSUME NEW c \in Calls, g[c].answer # "unsent"
                 PROVE  /\ c.run <= r.run
                        /\ c.run = r.run => c.image <= r.image
                        /\ c.run = r.run /\ c.image = r.image =>
                             /\ c.attempt <= r.attempt
                             /\ r.pc = "call" => c.attempt < r.attempt
      BY DEF SentV
    <2>1. /\ c.run <= q.run
          /\ c.run = q.run => c.image <= q.image
          /\ c.run = q.run /\ c.image = q.image => c.attempt <= q.attempt
      BY <1>7 DEF SentV
    <2>2. c.image \in Nat /\ q.image \in Nat
      BY <1>2 DEF Calls
    <2> QED BY <2>1, <2>2
  <1>9. PendV(g, r, TRUE)
    BY <1>2, <1>3, <1>5 DEF JobInv, PendV
  <1>10. RowsV(g, r)
    <2>1. \A c \in Calls : c.run = q.run /\ g[c].answer # "unsent" => g[c].row # "none"
      BY <1>3, <1>5 DEF JobInv, RowsV, k
    <2>2. HeardIn(f, q.run) = r.heard /\ r.stored \subseteq r.heard
      BY DEF JobInv, RowsV
    <2> QED BY <2>1, <2>2, <1>7 DEF RowsV
  <1>11. ReadV(g, r)
    <2>1. ReadIn(g, r, q.image)
      <3>1. [run |-> r.run, image |-> q.image, attempt |-> q.attempt] = k
        BY <1>2 DEF k, Cur
      <3> QED BY <3>1, <1>2, <1>5 DEF ReadIn, k
    <2>2. q.image > 1 => ReadIn(g, r, q.image - 1)
      BY <1>7 DEF ReadV, ReadIn
    <2>3. r.pc = "call" => r.image - 1 = q.image /\ r.attempt # 2
      BY <1>2
    <2> QED BY <2>1, <2>2, <2>3, <1>2 DEF ReadV
  <1> QED
    BY <1>1, <1>7, <1>8, <1>9, <1>10, <1>11 DEF JobInv, FreshV, DoneV, TextV, LedgerV

\* A failure that is repaired has its row.
LEMMA RepairKeeps ==
  ASSUME NEW f \in Table, NEW q \in Request, NEW r \in Request,
         NEW s, NEW o, NEW t, NEW h, JobInv(f, q, s, o, t, h), NEW g \in Table, NEW h2,
         q.pc = "record", q.attempt = 1, r = Repair(q),
         f[Cur(q)].answer \in Repairable, RowsOnly(f, g), g[Cur(q)].row # "none",
         f[Cur(q)].answer \in Errors => g[Cur(q)].row = "failed",
         \A c \in Calls : f[c].row # "none" => g[c].row # "none",
         PendV(g, q, h2)
  PROVE  JobInv(g, r, s, o, t, h2)
  <1> DEFINE k == Cur(q)
  <1>1. o = "none" /\ s # "COMPLETED" /\ t = {}
    BY DEF JobInv, DoneV, TextV
  <1>2. /\ q.run > 0 /\ k \in Calls /\ q.image \in 1..Images /\ q.run \in 1..Runs
        /\ k.run = q.run /\ k.image = q.image /\ k.attempt = 1
    BY Keys DEF JobInv, ReadV, Request, Cur
  <1>3. /\ r.pc = "call" /\ r.run = q.run /\ r.image = q.image /\ r.attempt = 2
        /\ r.heard = q.heard /\ r.stored = q.stored /\ First(Cur(r)) = k
    BY DEF Request, Repair, First, Cur
  <1> HIDE DEF k
  <1>4. /\ DueV(g) /\ RepairV(g) /\ SaidV(g) /\ SentV(g, q) /\ ReadV(g, q)
        /\ HeardIn(g, q.run) = HeardIn(f, q.run)
    BY <1>2, RowsOnlyKeeps DEF JobInv
  <1>5. SentV(g, r)
    <2> SUFFICES ASSUME NEW c \in Calls, g[c].answer # "unsent"
                 PROVE  /\ c.run <= r.run
                        /\ c.run = r.run => c.image <= r.image
                        /\ c.run = r.run /\ c.image = r.image => c.attempt <= 2 /\ c.attempt < 2
      BY <1>3 DEF SentV
    <2>1. c.run = q.run /\ c.image = q.image => c.attempt <= 1
      BY <1>4 DEF SentV
    <2> QED BY <2>1, <1>3, <1>4, Keys DEF SentV
  <1>6. f[k].said = FALSE
    <2>1. f[k].answer # "valid" /\ f[k] \in Row
      BY <1>2 DEF Repairable, k, Table
    <2> QED BY <2>1, <1>2 DEF JobInv, SaidV, Row
  <1>7. RowsV(g, r)
    <2>1. \A c \in Calls : c.run = q.run /\ g[c].answer # "unsent" => g[c].row # "none"
      BY DEF JobInv, RowsV, RowsOnly
    <2>2. HeardIn(f, q.run) = q.heard /\ q.stored \subseteq q.heard
      BY <1>6 DEF JobInv, RowsV, k
    <2> QED BY <2>1, <2>2, <1>3, <1>4 DEF RowsV
  <1>8. ReadV(g, r)
    <2>1. g[k].answer \in Repairable /\ (g[k].answer \in Errors => g[k].row = "failed")
      BY <1>2 DEF RowsOnly, k
    <2>2. q.image > 1 => ReadIn(g, r, q.image - 1)
      BY <1>3, <1>4 DEF ReadV, ReadIn
    <2> QED BY <2>1, <2>2, <1>2, <1>3 DEF ReadV
  <1>9. PendV(g, r, h2)
    BY <1>3 DEF PendV
  <1> QED
    BY <1>1, <1>3, <1>4, <1>5, <1>7, <1>8, <1>9 DEF JobInv, FreshV, DoneV, TextV, LedgerV

LEMMA StoreKeeps ==
  ASSUME NEW f \in Table, NEW q \in Request, NEW r \in Request,
         NEW s, NEW o, NEW t, NEW h, JobInv(f, q, s, o, t, h),
         NEW i \in q.heard, q.pc = "store", r = [q EXCEPT !.stored = @ \cup {i}]
  PROVE  JobInv(f, r, s, o, t, h)
  <1>1. /\ r.pc = "store" /\ r.run = q.run /\ r.image = q.image /\ r.attempt = q.attempt
        /\ r.heard = q.heard /\ r.stored = q.stored \cup {i}
    BY DEF Request
  <1>2. SentV(f, r)
    BY <1>1 DEF JobInv, SentV
  <1>3. ReadV(f, r)
    BY <1>1 DEF JobInv, ReadV, ReadIn
  <1>4. RowsV(f, r)
    <2>1. /\ \A c \in Calls : c.run = q.run /\ f[c].answer # "unsent" => f[c].row # "none"
          /\ HeardIn(f, q.run) = q.heard /\ q.stored \subseteq q.heard
      BY DEF JobInv, RowsV
    <2> QED BY <2>1, <1>1 DEF RowsV
  <1>5. PendV(f, r, h)
    BY <1>1 DEF JobInv, PendV
  <1>6. o = "none" /\ s # "COMPLETED" /\ t = {}
    BY DEF JobInv, DoneV, TextV
  <1> QED
    BY <1>1, <1>2, <1>3, <1>4, <1>5, <1>6 DEF JobInv, FreshV, DoneV, TextV, LedgerV

\* The step is completed: every row is kept and the transcripts are those heard.
LEMMA FinishKeeps ==
  ASSUME NEW f \in Table, NEW q \in Request, NEW r \in Request,
         NEW s, NEW o, NEW t, NEW h, JobInv(f, q, s, o, t, h), NEW g \in Table,
         q.pc = "store", q.stored = q.heard, r = [q EXCEPT !.pc = "idle"],
         g = [c \in Calls |-> Kept(f[c])]
  PROVE  JobInv(g, r, "COMPLETED", "ok", q.stored, FALSE)
  <1>1. r.pc = "idle" /\ r.run = q.run /\ r.image = q.image /\ r.attempt = q.attempt
    BY DEF Request
  <1>2. \A c \in Calls : /\ g[c].answer = f[c].answer /\ g[c].said = f[c].said
                         /\ g[c].row = IF f[c].row = "pending" THEN "kept" ELSE f[c].row
                         /\ f[c].row \in {"none", "pending", "kept", "failed"}
    BY DEF Kept, Table, Row
  <1>3. RowsOnly(f, g)
    BY <1>2 DEF RowsOnly
  <1>4. q.run \in Nat
    BY DEF Request
  <1>5. /\ DueV(g) /\ RepairV(g) /\ SaidV(g) /\ SentV(g, q)
        /\ HeardIn(g, q.run) = HeardIn(f, q.run)
    BY <1>3, <1>4, RowsOnlyKeeps DEF JobInv
  <1>6. SentV(g, r)
    BY <1>1, <1>5 DEF SentV
  <1>7. LedgerV(g, r, "ok")
    BY <1>1, <1>2 DEF JobInv, RowsV, LedgerV
  <1>8. TextV(g, r, "ok", q.stored)
    BY <1>1, <1>5 DEF JobInv, RowsV, TextV
  <1>9. PendV(g, r, FALSE)
    BY <1>2 DEF PendV
  <1> QED
    BY <1>1, <1>5, <1>6, <1>7, <1>8, <1>9 DEF JobInv, FreshV, ReadV, RowsV, DoneV

\* Nothing to extract.
LEMMA SkipKeeps ==
  ASSUME NEW f \in Table, NEW q \in Request, NEW r \in Request,
         NEW s, NEW o, NEW t, NEW h, JobInv(f, q, s, o, t, h),
         q.pc = "skip", r = [q EXCEPT !.pc = "idle"]
  PROVE  JobInv(f, r, "COMPLETED", "skipped", t, h)
  <1>1. r.pc = "idle" /\ r.run = q.run /\ r.image = q.image /\ r.attempt = q.attempt
    BY DEF Request
  <1>2. o = "none" /\ t = {} /\ ~h
    BY DEF JobInv, DoneV, TextV, PendV
  <1>3. SentV(f, r) /\ PendV(f, r, h)
    BY <1>1, <1>2 DEF JobInv, SentV, PendV
  <1> QED
    BY <1>1, <1>2, <1>3 DEF JobInv, FreshV, ReadV, RowsV, DoneV, TextV, LedgerV

-----------------------------------------------------------------------------
(* The types of a step.                                                    *)

LEMMA RowTypes == \A x \in Row : Kept(x) \in Row /\ Erased(x) \in Row /\ Flushed(x) \in Row
  BY DEF Row, Kept, Erased, Flushed

LEMMA HereIsCall == ASSUME TypeOK, NEW j \in Jobs, req[j].run > 0 PROVE Here(j) \in Calls
  BY DEF TypeOK, Here, Calls, Request

LEMMA MovedType == \A q \in Request, pc \in Pc :
  LET r == [q EXCEPT !.pc = pc]
  IN r \in Request /\ r.pc = pc /\ r.run = q.run /\ r.image = q.image /\ r.attempt = q.attempt
  BY DEF Request

LEMMA RepairType == \A q \in Request : Repair(q) \in Request
  <1>1. "call" \in Pc
    BY DEF Pc
  <1>2. ASSUME NEW q \in Request PROVE Repair(q) \in Request
    <2>1. [q EXCEPT !.pc = "call"] \in Request
      BY <1>1, MovedType
    <2>2. \A r \in Request : [r EXCEPT !.attempt = 2] \in Request
      BY DEF Request
    <2>3. Repair(q) = [[q EXCEPT !.pc = "call"] EXCEPT !.attempt = 2]
      BY Zenon DEF Repair
    <2> QED BY <2>1, <2>2, <2>3
  <1> QED BY <1>2

LEMMA OnwardType ==
  ASSUME NEW q \in Request, NEW new \in SUBSET (1..Images), NEW r, r = Onward(q, new)
  PROVE  /\ r \in Request /\ r.run = q.run /\ r.stored = q.stored
         /\ r.heard = q.heard \cup new
         /\ \/ r.pc = "call" /\ r.image = q.image + 1 /\ r.attempt = 1
            \/ r.pc = "store" /\ r.image = q.image /\ r.attempt = q.attempt
  <1>1. "call" \in Pc /\ "store" \in Pc
    BY DEF Pc
  <1>2. q.heard \cup new \in SUBSET (1..Images)
    BY DEF Request
  <1>3. CASE q.image < Images
    <2>1. q.image + 1 \in 1..Images
      BY <1>3 DEF Request
    <2>2. r = [q EXCEPT !.pc = "call", !.image = q.image + 1, !.attempt = 1,
                        !.heard = q.heard \cup new]
      BY <1>3 DEF Onward
    <2>3. r = [pc |-> "call", run |-> q.run, image |-> q.image + 1, attempt |-> 1,
               heard |-> q.heard \cup new, stored |-> q.stored]
      BY <2>2 DEF Request
    <2>4. q.run \in 0..Runs /\ q.stored \in SUBSET (1..Images) /\ 1 \in 1..2
      BY DEF Request
    <2> QED BY <1>1, <1>2, <2>1, <2>3, <2>4 DEF Request
  <1>4. CASE ~(q.image < Images)
    <2>1. r = [q EXCEPT !.pc = "store", !.heard = q.heard \cup new]
      BY <1>4 DEF Onward
    <2> QED BY <1>1, <1>2, <2>1 DEF Request
  <1> QED BY <1>3, <1>4

LEMMA GotoType == ASSUME TypeOK, NEW j \in Jobs, NEW pc \in Pc, Goto(j, pc)
                  PROVE  req' \in [Jobs -> Request]
  <1>1. [req[j] EXCEPT !.pc = pc] \in Request
    BY MovedType DEF TypeOK
  <1> QED BY <1>1 DEF TypeOK, Goto

LEMMA CallsType ==
  ASSUME TypeOK, NEW j \in Jobs, NEW g \in Table, call' = [call EXCEPT ![j] = g]
  PROVE  call' \in [Jobs -> [Calls -> Row]]
  BY DEF TypeOK, Table

LEMMA RollbackType == ASSUME TypeOK, NEW j \in Jobs, Rollback(j)
                      PROVE  /\ call' \in [Jobs -> [Calls -> Row]]
                             /\ lock' \in Jobs \cup {None}
  <1>1. [c \in Calls |-> Erased(call[j][c])] \in Table
    BY RowTypes DEF TypeOK, Table
  <1>2. call' = [call EXCEPT ![j] = [c \in Calls |-> Erased(call[j][c])]]
    BY DEF TypeOK, Rollback
  <1>3. lock' \in Jobs \cup {None}
    BY DEF Rollback, Releases, TypeOK
  <1> QED BY <1>1, <1>2, <1>3, CallsType

LEMMA InitInv == Init => Inv
  <1> SUFFICES ASSUME Init PROVE Inv
    OBVIOUS
  <1> USE DEF Init
  <1>1. TypeOK
    BY DEF TypeOK, Request, Pc, Row, Unsent
  <1>2. ASSUME NEW j \in Jobs
        PROVE  JobInv(call[j], req[j], step[j], output[j], text[j], lock = j)
    <2>1. \A c \in Calls : call[j][c].answer = "unsent" /\ ~call[j][c].said
                           /\ call[j][c].row = "none"
      BY DEF Unsent
    <2>2. step[j] = "PENDING" /\ output[j] = "none" /\ text[j] = {} /\ lock # j
          /\ req[j].pc = "idle"
      OBVIOUS
    <2> HIDE DEF Init
    <2> QED
      BY <2>1, <2>2 DEF JobInv, FreshV, SentV, ReadV, RowsV, PendV, DoneV, DueV, RepairV,
                        TextV, LedgerV, SaidV
  <1> QED BY <1>1, <1>2 DEF Inv

-----------------------------------------------------------------------------
(* One lemma per action: the value lemma of its job, and the other jobs,   *)
(* which keep everything, whether they hold the lock included.             *)

Others(j) == \A k \in Jobs \ {j} :
  /\ call'[k] = call[k] /\ req'[k] = req[k] /\ step'[k] = step[k]
  /\ output'[k] = output[k] /\ text'[k] = text[k]
  /\ lock' = k <=> lock = k

LEMMA AtJob == ASSUME Inv, NEW j \in Jobs
               PROVE  /\ TypeOK /\ call[j] \in Table /\ req[j] \in Request
                      /\ JobInv(call[j], req[j], step[j], output[j], text[j], lock = j)
  BY DEF Inv, TypeOK, Table

LEMMA Combine ==
  ASSUME Inv, NEW j \in Jobs, TypeOK', Others(j),
         JobInv(call'[j], req'[j], step'[j], output'[j], text'[j], lock' = j)
  PROVE  Inv'
  <1>1. ASSUME NEW k \in Jobs, k # j
        PROVE  JobInv(call'[k], req'[k], step'[k], output'[k], text'[k], lock' = k)
    <2>1. JobInv(call[k], req[k], step[k], output[k], text[k], lock = k)
      BY AtJob
    <2>2. /\ call'[k] = call[k] /\ req'[k] = req[k] /\ step'[k] = step[k]
          /\ output'[k] = output[k] /\ text'[k] = text[k]
          /\ lock' = k <=> lock = k
      BY <1>1 DEF Others
    <2>3. PendV(call'[k], req'[k], lock' = k)
      BY <2>1, <2>2 DEF JobInv, PendV
    <2> QED BY <2>1, <2>2, <2>3 DEF JobInv
  <1> QED BY <1>1 DEF Inv

LEMMA StartStep == ASSUME Inv, NEW j \in Jobs, Start(j) PROVE Inv'
  <1>1. req'[j] = [pc |-> "ready", run |-> req[j].run + 1, image |-> 1, attempt |-> 1,
                   heard |-> {}, stored |-> {}]
    BY AtJob DEF Start, TypeOK
  <1>2. req'[j] \in Request
    BY <1>1, AtJob DEF Start, Request, Pc
  <1>3. TypeOK' /\ Others(j)
    BY <1>2, AtJob DEF Start, TypeOK, Others
  <1>4. /\ req[j].pc = "idle" /\ step[j] # "COMPLETED" /\ step'[j] = "RUNNING"
        /\ UNCHANGED <<output, call, text, lock>>
    BY AtJob DEF Start, TypeOK, At
  <1>5. JobInv(call[j], req'[j], "RUNNING", output[j], text[j], lock = j)
    BY <1>1, <1>2, <1>4, AtJob, StartKeeps
  <1> QED BY <1>3, <1>4, <1>5, Combine

\* Consequences of Goto for the job and for the others.
LEMMA GotoStep ==
  ASSUME Inv, NEW j \in Jobs, NEW pc \in Pc, Goto(j, pc)
  PROVE  /\ req' \in [Jobs -> Request] /\ req'[j] \in Request
         /\ req'[j] = [req[j] EXCEPT !.pc = pc] /\ req'[j].pc = pc
         /\ \A k \in Jobs \ {j} : req'[k] = req[k]
  <1>1. req' \in [Jobs -> Request]
    BY AtJob, GotoType
  <1>2. /\ req'[j] = [req[j] EXCEPT !.pc = pc]
        /\ \A k \in Jobs \ {j} : req'[k] = req[k]
    BY AtJob DEF Goto, TypeOK
  <1>3. req'[j].pc = pc
    BY <1>2, AtJob DEF Request
  <1> QED BY <1>1, <1>2, <1>3

\* The request moves on and everything else stays.
LEMMA GotoOnly ==
  ASSUME Inv, NEW j \in Jobs, NEW pc \in Pc, Goto(j, pc),
         UNCHANGED <<step, output, call, text, lock>>,
         JobInv(call[j], req'[j], step[j], output[j], text[j], lock = j)
  PROVE  Inv'
  <1>1. TypeOK'
    BY AtJob, GotoStep DEF TypeOK
  <1>2. Others(j)
    BY GotoStep DEF Others
  <1> QED BY <1>1, <1>2, Combine

\* Such a move to a place behind which there is nothing to remember.
LEMMA RestOnly ==
  ASSUME Inv, NEW j \in Jobs, NEW pc \in Pc, Goto(j, pc), req[j].pc # "idle",
         UNCHANGED <<step, output, call, text, lock>>,
         pc \in {"idle", "skip", "mark", "failing"},
         lock # j
  PROVE  Inv'
  <1>1. /\ req'[j] \in Request /\ req'[j] = [req[j] EXCEPT !.pc = req'[j].pc]
        /\ req'[j].pc \in {"idle", "skip", "mark", "failing"}
    BY GotoStep
  <1>2. step[j] # "COMPLETED"
    BY AtJob DEF JobInv, DoneV
  <1>3. PendV(call[j], req'[j], lock = j)
    BY <1>1, AtJob DEF JobInv, PendV
  <1>4. RowsOnly(call[j], call[j])
    BY DEF RowsOnly
  <1>5. JobInv(call[j], req'[j], step[j], output[j], text[j], lock = j)
    BY <1>1, <1>2, <1>3, <1>4, AtJob, RestKeeps
  <1> QED BY <1>5, GotoOnly

LEMMA PrepareStep == ASSUME Inv, NEW j \in Jobs, NEW pc \in Pc, Prepare(j, pc) PROVE Inv'
  <1>1. /\ req[j].pc = "ready" /\ pc \in {"call", "skip", "failing"} /\ Goto(j, pc)
        /\ UNCHANGED <<step, output, call, text, lock>>
    BY DEF Prepare, At
  <1>2. CASE pc = "call"
    <2>1. req'[j] \in Request /\ req'[j] = [req[j] EXCEPT !.pc = "call"]
      BY <1>1, <1>2, GotoStep
    <2>2. JobInv(call[j], req'[j], step[j], output[j], text[j], lock = j)
      BY <1>1, <2>1, AtJob, PrepareKeeps
    <2> QED BY <1>1, <2>2, GotoOnly
  <1>3. CASE pc # "call"
    <2>1. lock # j
      BY <1>1, AtJob DEF JobInv, PendV
    <2> QED BY <1>1, <1>3, <2>1, RestOnly
  <1> QED BY <1>2, <1>3

LEMMA MarkNothingStep == ASSUME Inv, NEW j \in Jobs, MarkNothing(j) PROVE Inv'
  <1>1. lock # j
    BY AtJob DEF MarkNothing, Marked, At, JobInv, PendV
  <1>2. "failing" \in Pc
    BY DEF Pc
  <1> QED BY <1>1, <1>2, RestOnly DEF MarkNothing, At

\* Only the request's transaction can be the one that takes or frees the lock.
OwnLock(j) == lock' \in Jobs \cup {None} /\ \A k \in Jobs \ {j} : lock' = k <=> lock = k

LEMMA LockSteps ==
  ASSUME Inv, NEW j \in Jobs
  PROVE  /\ CanWrite(j) /\ lock' \in {None, j} => OwnLock(j)
         /\ Releases(j) => OwnLock(j) /\ lock' # j
         /\ UNCHANGED lock => OwnLock(j)
  BY AtJob DEF TypeOK, OwnLock, CanWrite, Releases

\* The rows change as well, and the lock with them.
LEMMA RestChange ==
  ASSUME Inv, NEW j \in Jobs, NEW pc \in Pc, Goto(j, pc), req[j].pc # "idle",
         pc \in {"idle", "skip", "mark", "failing"},
         NEW g \in Table, call' = [call EXCEPT ![j] = g], RowsOnly(call[j], g),
         UNCHANGED <<step, output, text>>, OwnLock(j),
         PendV(g, req'[j], lock' = j)
  PROVE  Inv'
  <1>1. /\ req'[j] \in Request /\ req'[j] = [req[j] EXCEPT !.pc = req'[j].pc]
        /\ req'[j].pc \in {"idle", "skip", "mark", "failing"}
    BY GotoStep
  <1>2. step[j] # "COMPLETED"
    BY AtJob DEF JobInv, DoneV
  <1>3. call' \in [Jobs -> [Calls -> Row]] /\ call'[j] = g
    BY AtJob, CallsType DEF TypeOK
  <1>4. JobInv(call'[j], req'[j], step[j], output[j], text[j], lock' = j)
    BY <1>1, <1>2, <1>3, AtJob, RestKeeps
  <1>5. TypeOK'
    BY <1>3, AtJob, GotoStep DEF TypeOK, OwnLock
  <1>6. Others(j)
    BY AtJob, GotoStep DEF Others, OwnLock, TypeOK
  <1> QED BY <1>4, <1>5, <1>6, Combine

\* A rollback: nothing is pending and the lock is free.
LEMMA RollbackStep ==
  ASSUME Inv, NEW j \in Jobs, NEW pc \in {"idle", "failing"}, Goto(j, pc),
         req[j].pc # "idle", Rollback(j), UNCHANGED <<step, output, text>>
  PROVE  Inv'
  <1> DEFINE g == [c \in Calls |-> Erased(call[j][c])]
  <1>1. g \in Table
    BY RowTypes, AtJob DEF Table
  <1>2. call' = [call EXCEPT ![j] = g]
    BY AtJob DEF Rollback, TypeOK
  <1>3. RowsOnly(call[j], g) /\ \A c \in Calls : g[c].row # "pending"
    BY AtJob DEF Erased, RowsOnly, Table, Row
  <1>4. OwnLock(j) /\ lock' # j
    BY LockSteps DEF Rollback
  <1> HIDE DEF g
  <1>5. PendV(g, req'[j], lock' = j)
    BY <1>3, <1>4 DEF PendV
  <1>6. pc \in Pc
    BY DEF Pc
  <1> QED BY <1>1, <1>2, <1>3, <1>4, <1>5, <1>6, RestChange

LEMMA FaultSteps ==
  ASSUME Inv, NEW j \in Jobs, Escape(j) \/ RowTimesOut(j) \/ StoreFails(j) \/ Crash(j)
  PROVE  Inv'
  <1>1. \E pc \in {"idle", "failing"} : Goto(j, pc)
    BY DEF Escape, RowTimesOut, StoreFails, Crash
  <1>2. req[j].pc # "idle" /\ Rollback(j) /\ UNCHANGED <<step, output, text>>
    BY DEF Escape, RowTimesOut, StoreFails, Crash, Answered, At
  <1> QED BY <1>1, <1>2, RollbackStep

LEMMA EndTimesOutStep == ASSUME Inv, NEW j \in Jobs, EndTimesOut(j) PROVE Inv'
  <1>1. lock # j
    BY AtJob DEF EndTimesOut, At, JobInv, PendV
  <1>2. "idle" \in Pc
    BY DEF Pc
  <1> QED BY <1>1, <1>2, RestOnly DEF EndTimesOut, At

LEMMA FailStep == ASSUME Inv, NEW j \in Jobs, Fail(j) PROVE Inv'
  <1>1. /\ req[j].pc = "failing" /\ step' = [step EXCEPT ![j] = "FAILED"]
        /\ Goto(j, "idle") /\ UNCHANGED <<output, call, text, lock>>
    BY DEF Fail, At
  <1>2. "idle" \in Pc
    BY DEF Pc
  <1>3. /\ req'[j] \in Request /\ req'[j] = [req[j] EXCEPT !.pc = req'[j].pc]
        /\ req'[j].pc = "idle"
    BY <1>1, <1>2, GotoStep
  <1>4. lock # j
    BY <1>1, AtJob DEF JobInv, PendV
  <1>5. PendV(call[j], req'[j], lock = j)
    BY <1>4, AtJob DEF JobInv, PendV
  <1>6. RowsOnly(call[j], call[j])
    BY DEF RowsOnly
  <1>7. JobInv(call[j], req'[j], "FAILED", output[j], text[j], lock = j)
    BY <1>1, <1>3, <1>5, <1>6, AtJob, RestKeeps
  <1>8. TypeOK' /\ step'[j] = "FAILED"
    BY <1>1, <1>2, AtJob, GotoStep DEF TypeOK
  <1>9. Others(j)
    BY <1>1, <1>2, AtJob, GotoStep DEF Others, TypeOK
  <1> QED BY <1>1, <1>7, <1>8, <1>9, Combine

LEMMA SkipStep == ASSUME Inv, NEW j \in Jobs, FinishSkipped(j) PROVE Inv'
  <1>1. /\ req[j].pc = "skip" /\ step' = [step EXCEPT ![j] = "COMPLETED"]
        /\ output' = [output EXCEPT ![j] = "skipped"]
        /\ Goto(j, "idle") /\ UNCHANGED <<call, text, lock>>
    BY DEF FinishSkipped, At
  <1>2. "idle" \in Pc
    BY DEF Pc
  <1>3. /\ step'[j] = "COMPLETED" /\ output'[j] = "skipped" /\ TypeOK'
        /\ req'[j] \in Request /\ req'[j] = [req[j] EXCEPT !.pc = "idle"]
    BY <1>1, <1>2, AtJob, GotoStep DEF TypeOK
  <1>4. JobInv(call[j], req'[j], "COMPLETED", "skipped", text[j], lock = j)
    BY <1>1, <1>3, AtJob, SkipKeeps
  <1>5. Others(j)
    BY <1>1, <1>2, AtJob, GotoStep DEF Others, TypeOK
  <1> QED BY <1>1, <1>3, <1>4, <1>5, Combine

\* A step that changes calls, request and lock of a job.
LEMMA JobChange ==
  ASSUME Inv, NEW j \in Jobs, NEW g \in Table, NEW r \in Request,
         call' = [call EXCEPT ![j] = g], req' = [req EXCEPT ![j] = r],
         UNCHANGED <<step, output, text>>, OwnLock(j),
         JobInv(g, r, step[j], output[j], text[j], lock' = j)
  PROVE  Inv'
  <1>1. call'[j] = g /\ req'[j] = r
    BY AtJob DEF TypeOK
  <1>2. TypeOK'
    BY AtJob, CallsType DEF TypeOK, OwnLock
  <1>3. Others(j)
    BY AtJob DEF Others, TypeOK, OwnLock
  <1> QED BY <1>1, <1>2, <1>3, Combine

Flush(f, k) == [f EXCEPT ![k] = Flushed(@)]

LEMMA FlushTable == \A f \in Table, k \in Calls :
  /\ Flush(f, k) \in Table /\ Flush(f, k)[k] = Flushed(f[k])
  /\ \A c \in Calls : c # k => Flush(f, k)[c] = f[c]
  BY RowTypes DEF Flush, Table

LEMMA FlushRows ==
  ASSUME NEW f \in Table, NEW k \in Calls, f[k].row # "failed"
  PROVE  RowsOnly(f, Flush(f, k))
  <1> DEFINE g == Flush(f, k)
  <1>1. g[k] = Flushed(f[k]) /\ \A c \in Calls : c # k => g[c] = f[c]
    BY FlushTable
  <1> HIDE DEF g
  <1>2. ASSUME NEW c \in Calls
        PROVE  /\ g[c].answer = f[c].answer /\ g[c].said = f[c].said
               /\ f[c].row = "failed" => g[c].row = "failed"
    <2>1. CASE c = k
      <3>1. f[k] \in Row
        BY DEF Table
      <3> QED BY <2>1, <3>1, <1>1, FlushedRow, Zenon
    <2>2. CASE c # k
      BY <2>2, <1>1
    <2> QED BY <2>1, <2>2
  <1>3. RowsOnly(f, g)
    BY <1>2 DEF RowsOnly
  <1> QED BY <1>3 DEF g

\* The row of a call that failed.
Failed(x) == [x EXCEPT !.row = "failed"]

LEMMA FailedRow == \A x \in Row :
  /\ Failed(x) \in Row /\ Failed(x).row = "failed"
  /\ Failed(x).row # "pending" /\ Failed(x).row # "none"
  /\ Failed(x).answer = x.answer /\ Failed(x).said = x.said
  BY DEF Row, Failed

LEMMA KeptRow == \A x \in Row :
  /\ Kept(x) \in Row /\ Kept(x).row # "pending"
  /\ Kept(x).answer = x.answer /\ Kept(x).said = x.said
  /\ x.row = "failed" => Kept(x).row = "failed"
  /\ x.row # "none" => Kept(x).row # "none"
  BY DEF Row, Kept

LEMMA ErrorRows ==
  ASSUME NEW f \in Table, NEW k \in Calls, NEW g,
         g = [c \in Calls |-> IF c = k THEN Failed(f[c]) ELSE Kept(f[c])]
  PROVE  /\ g \in Table /\ g[k].row = "failed" /\ RowsOnly(f, g)
         /\ \A c \in Calls : g[c].row # "pending"
         /\ \A c \in Calls : f[c].row # "none" => g[c].row # "none"
  <1>1. ASSUME NEW c \in Calls
        PROVE  /\ g[c] \in Row /\ g[c].row # "pending"
               /\ c = k => g[c].row = "failed"
               /\ g[c].answer = f[c].answer /\ g[c].said = f[c].said
               /\ f[c].row = "failed" => g[c].row = "failed"
               /\ f[c].row # "none" => g[c].row # "none"
    <2>1. f[c] \in Row
      BY DEF Table
    <2>2. CASE c = k
      <3>1. g[c] = Failed(f[c])
        BY <2>2
      <3>2. /\ Failed(f[c]) \in Row /\ Failed(f[c]).row = "failed"
            /\ Failed(f[c]).answer = f[c].answer /\ Failed(f[c]).said = f[c].said
        BY <2>1, FailedRow
      <3> QED BY <3>1, <3>2
    <2>3. CASE c # k
      <3>1. g[c] = Kept(f[c])
        BY <2>3
      <3> QED BY <2>1, <2>3, <3>1, KeptRow, Zenon
    <2> QED BY <2>2, <2>3
  <1> QED BY <1>1 DEF Table, RowsOnly

LEMMA AskStep == ASSUME Inv, NEW j \in Jobs, NEW a \in Answers, NEW said \in BOOLEAN,
                        Ask(j, a, said)
                 PROVE  Inv'
  <1> DEFINE x == [answer |-> a, said |-> said, row |-> "none"]
             g == [call[j] EXCEPT ![Here(j)] = x]
             r == [req[j] EXCEPT !.pc = "record"]
  <1>1. /\ req[j].pc = "call" /\ (said => a = "valid") /\ Goto(j, "record")
        /\ call' = [call EXCEPT ![j][Here(j)] = x]
        /\ UNCHANGED <<step, output, text, lock>>
    BY DEF Ask, At
  <1>2. a \in AllAnswers
    OBVIOUS
  <1>3. call' = [call EXCEPT ![j] = g] /\ Here(j) = Cur(req[j])
    BY <1>1, AtJob DEF TypeOK, Here, Cur
  <1>4. g \in Table
    <2>1. x \in Row
      BY <1>2 DEF Row
    <2> QED BY <2>1, AtJob DEF Table
  <1>5. r \in Request
    BY AtJob, MovedType DEF Pc
  <1>6. req' = [req EXCEPT ![j] = r]
    BY <1>1, AtJob DEF Goto, TypeOK
  <1>7. JobInv(g, r, step[j], output[j], text[j], lock = j)
    BY <1>1, <1>2, <1>3, <1>4, <1>5, AtJob, AskKeeps
  <1>8. OwnLock(j)
    BY <1>1, LockSteps
  <1> HIDE DEF g, r
  <1> QED BY <1>1, <1>3, <1>4, <1>5, <1>6, <1>7, <1>8, JobChange

\* A request with an answer in its hands.
LEMMA AtAnswer ==
  ASSUME Inv, NEW j \in Jobs, req[j].pc = "record"
  PROVE  /\ Here(j) = Cur(req[j]) /\ Here(j) \in Calls /\ call[j][Here(j)] \in Row
         /\ call[j][Here(j)].row = "none" /\ req[j].run > 0
  <1>1. Here(j) = Cur(req[j])
    BY DEF Here, Cur
  <1>2. req[j].run > 0 /\ call[j][Cur(req[j])].row = "none"
    BY AtJob DEF JobInv, ReadV, RowsV
  <1>3. Here(j) \in Calls
    BY <1>2, AtJob, HereIsCall
  <1> QED BY <1>1, <1>2, <1>3, AtJob DEF Table

\* What flushing a row does.
LEMMA LedgerWritten ==
  ASSUME Inv, NEW j \in Jobs, req[j].pc = "record", WriteLedger(j)
  PROVE  \E g \in Table :
           /\ call' = [call EXCEPT ![j] = g] /\ g[Cur(req[j])] = Flushed(call[j][Cur(req[j])])
           /\ \A c \in Calls : c # Cur(req[j]) => g[c] = call[j][c]
           /\ RowsOnly(call[j], g) /\ OwnLock(j) /\ lock' = j
  <1> DEFINE g == Flush(call[j], Cur(req[j]))
  <1>1. call' = [call EXCEPT ![j] = g]
    BY AtAnswer, AtJob DEF WriteLedger, Flush, Flushed, TypeOK
  <1>2. OwnLock(j) /\ lock' = j
    BY LockSteps DEF WriteLedger
  <1>3. /\ Cur(req[j]) \in Calls /\ call[j][Cur(req[j])].row = "none"
        /\ call[j] \in Table
    BY AtAnswer, AtJob
  <1>4. /\ g \in Table /\ g[Cur(req[j])] = Flushed(call[j][Cur(req[j])])
        /\ \A c \in Calls : c # Cur(req[j]) => g[c] = call[j][c]
    BY <1>3, FlushTable
  <1>5. RowsOnly(call[j], g)
    BY <1>3, FlushRows
  <1> HIDE DEF g
  <1> QED BY <1>1, <1>2, <1>4, <1>5

LEMMA RecordStep == ASSUME Inv, NEW j \in Jobs, Record(j) PROVE Inv'
  <1> DEFINE hd == IF call[j][Cur(req[j])].said THEN {req[j].image} ELSE {}
             r == req'[j]
  <1>1. /\ req[j].pc = "record" /\ call[j][Here(j)].answer = "valid"
        /\ WriteLedger(j) /\ NextImage(j) /\ UNCHANGED <<step, output, text>>
    BY DEF Record, Answered, At
  <1>2. PICK g \in Table :
           /\ call' = [call EXCEPT ![j] = g] /\ g[Cur(req[j])] = Flushed(call[j][Cur(req[j])])
           /\ \A c \in Calls : c # Cur(req[j]) => g[c] = call[j][c]
           /\ OwnLock(j) /\ lock' = j
    BY <1>1, LedgerWritten
  <1>3. hd = HeardHere(j) /\ hd \subseteq 1..Images
    BY <1>1, AtAnswer, AtJob DEF HeardHere, Request
  <1>4. r = Onward(req[j], hd) /\ req' = [req EXCEPT ![j] = r]
    BY <1>1, <1>3, AtJob DEF NextImage, TypeOK
  <1> HIDE DEF hd, r
  <1>5. req[j] \in Request
    BY AtJob
  <1>6. /\ r \in Request /\ r.run = req[j].run /\ r.stored = req[j].stored
        /\ r.heard = req[j].heard \cup hd
        /\ \/ r.pc = "call" /\ r.image = req[j].image + 1 /\ r.attempt = 1
           \/ r.pc = "store" /\ r.image = req[j].image /\ r.attempt = req[j].attempt
    BY <1>3, <1>4, <1>5, OnwardType
  <1>7. JobInv(g, r, step[j], output[j], text[j], TRUE)
    <2>1. r.heard = req[j].heard \cup
                      (IF call[j][Cur(req[j])].said THEN {req[j].image} ELSE {})
      BY <1>6 DEF hd
    <2>2. /\ call[j] \in Table /\ call[j][Cur(req[j])].answer = "valid"
          /\ JobInv(call[j], req[j], step[j], output[j], text[j], lock = j)
      BY <1>1, AtAnswer, AtJob
    <2> QED BY <1>1, <1>2, <1>5, <1>6, <2>1, <2>2, RecordKeeps
  <1>8. JobInv(g, r, step[j], output[j], text[j], lock' = j)
    BY <1>7, <1>2 DEF JobInv, PendV
  <1> QED BY <1>1, <1>2, <1>4, <1>6, <1>8, JobChange

\* A failure that is repaired, and one that is not.
LEMMA FailureStep ==
  ASSUME Inv, NEW j \in Jobs, req[j].pc = "record", NEW g \in Table,
         call' = [call EXCEPT ![j] = g], UNCHANGED <<step, output, text>>,
         RowsOnly(call[j], g), OwnLock(j), g[Cur(req[j])].row # "none",
         \A c \in Calls : call[j][c].row # "none" => g[c].row # "none",
         call[j][Cur(req[j])].answer \in Errors => g[Cur(req[j])].row = "failed",
         PendV(g, req[j], lock' = j),
         lock' = j => g[Cur(req[j])].row = "pending",
         \/ /\ req[j].attempt = 1 /\ call[j][Cur(req[j])].answer \in Repairable
            /\ req' = [req EXCEPT ![j] = Repair(@)]
         \/ Goto(j, "mark")
  PROVE  Inv'
  <1>1. CASE /\ req[j].attempt = 1 /\ call[j][Cur(req[j])].answer \in Repairable
             /\ req' = [req EXCEPT ![j] = Repair(@)]
    <2> DEFINE r == Repair(req[j])
    <2>1. r \in Request /\ req' = [req EXCEPT ![j] = r]
      BY <1>1, AtJob, RepairType
    <2>2. JobInv(g, r, step[j], output[j], text[j], lock' = j)
      BY <1>1, <2>1, AtJob, RepairKeeps
    <2> HIDE DEF r
    <2> QED BY <2>1, <2>2, JobChange
  <1>2. CASE Goto(j, "mark")
    <2>1. "mark" \in Pc
      BY DEF Pc
    <2>2. /\ req'[j].pc = "mark" /\ req'[j].run = req[j].run /\ req'[j].image = req[j].image
      <3>1. req'[j] = [req[j] EXCEPT !.pc = "mark"] /\ req[j] \in Request
        BY <1>2, <2>1, GotoStep, AtJob
      <3> QED BY <3>1, <2>1, MovedType
    <2>3. Cur(req[j]) \in Calls /\ Cur(req[j]).run = req[j].run
          /\ Cur(req[j]).image = req[j].image
      BY AtAnswer DEF Cur
    <2>4. PendV(g, req'[j], lock' = j)
      BY <2>2, <2>3 DEF PendV
    <2> QED BY <1>2, <2>1, <2>4, RestChange
  <1> QED BY <1>1, <1>2

LEMMA RecordOddStep == ASSUME Inv, NEW j \in Jobs, RecordOdd(j) PROVE Inv'
  <1>1. /\ req[j].pc = "record" /\ call[j][Here(j)].answer = "odd"
        /\ WriteLedger(j) /\ UNCHANGED <<step, output, text>>
        /\ req' = [req EXCEPT ![j] = IF @.attempt = 1 THEN Repair(@)
                                     ELSE [@ EXCEPT !.pc = "mark"]]
    BY DEF RecordOdd, Answered, At
  <1>2. PICK g \in Table :
           /\ call' = [call EXCEPT ![j] = g] /\ g[Cur(req[j])] = Flushed(call[j][Cur(req[j])])
           /\ \A c \in Calls : c # Cur(req[j]) => g[c] = call[j][c]
           /\ RowsOnly(call[j], g) /\ OwnLock(j) /\ lock' = j
    BY <1>1, LedgerWritten
  <1>3. Cur(req[j]) \in Calls /\ call[j][Cur(req[j])].answer = "odd"
        /\ call[j][Cur(req[j])] \in Row /\ Cur(req[j]).run = req[j].run
    BY <1>1, AtAnswer DEF Cur
  <1>4. g[Cur(req[j])].row = "pending"
    BY <1>2, <1>3, FlushedRow
  <1>5. \A c \in Calls : call[j][c].row # "none" => g[c].row # "none"
    BY <1>2, <1>4
  <1>6. PendV(g, req[j], lock' = j)
    BY <1>1, <1>2, <1>3, <1>4, AtJob DEF JobInv, PendV
  <1>7. \/ req[j].attempt = 1 /\ req' = [req EXCEPT ![j] = Repair(@)]
        \/ Goto(j, "mark")
    BY <1>1, AtJob DEF Goto, TypeOK
  <1> QED BY <1>1, <1>2, <1>3, <1>4, <1>5, <1>6, <1>7, FailureStep DEF Errors, Repairable

LEMMA RecordErrorStep ==
  ASSUME Inv, NEW j \in Jobs, NEW a \in Errors, RecordError(j, a) PROVE Inv'
  <1> DEFINE k == Cur(req[j])
             g == [c \in Calls |-> IF c = k THEN Failed(call[j][c])
                                   ELSE Kept(call[j][c])]
  <1>1. /\ req[j].pc = "record" /\ call[j][Here(j)].answer = a
        /\ WriteErrorLedger(j) /\ UNCHANGED <<step, output, text>>
        /\ IF a \in Repairable /\ req[j].attempt = 1
           THEN req' = [req EXCEPT ![j] = Repair(@)] ELSE Goto(j, "mark")
    BY DEF RecordError, Answered, At
  <1>2. k \in Calls /\ Here(j) = k
    BY <1>1, AtAnswer
  <1>3. call' = [call EXCEPT ![j] = g]
    <2>1. call' = [call EXCEPT ![j] = [c \in Calls |->
            IF c = Here(j) THEN Failed(call[j][c]) ELSE Kept(call[j][c])]]
      BY <1>1, Zenon DEF WriteErrorLedger, Failed
    <2> QED BY <2>1, <1>2
  <1>4. OwnLock(j) /\ lock' # j
    <2>1. CanWrite(j) /\ lock' = None
      BY <1>1, Zenon DEF WriteErrorLedger
    <2> QED BY <2>1, LockSteps
  <1>5. /\ g \in Table /\ g[k].row = "failed" /\ RowsOnly(call[j], g)
        /\ \A c \in Calls : g[c].row # "pending"
        /\ \A c \in Calls : call[j][c].row # "none" => g[c].row # "none"
    BY <1>2, AtJob, ErrorRows
  <1> HIDE DEF g
  <1>6. PendV(g, req[j], lock' = j)
    BY <1>4, <1>5 DEF PendV
  <1> QED BY <1>1, <1>2, <1>3, <1>4, <1>5, <1>6, FailureStep

\* The row of a call, marked as failed.
Mark(x) == [x EXCEPT !.row = "failed"]

LEMMA MarkRow == \A x \in Row :
  /\ Mark(x) \in Row /\ Mark(x).row = "failed"
  /\ Mark(x).answer = x.answer /\ Mark(x).said = x.said
  BY DEF Row, Mark

LEMMA MarkFailedStep == ASSUME Inv, NEW j \in Jobs, MarkFailed(j) PROVE Inv'
  <1> DEFINE g == [c \in Calls |-> IF c \in Marked(j) THEN Mark(call[j][c])
                                   ELSE Kept(call[j][c])]
  <1>1. /\ req[j].pc = "mark" /\ Goto(j, "failing") /\ UNCHANGED <<step, output, text>>
        /\ CanWrite(j) /\ lock' = None
    BY Zenon DEF MarkFailed, At
  <1>2. call' = [call EXCEPT ![j] = g]
    BY Zenon DEF MarkFailed, Mark
  <1>3. ASSUME NEW c \in Calls
        PROVE  /\ g[c] \in Row /\ g[c].row # "pending"
               /\ g[c].answer = call[j][c].answer /\ g[c].said = call[j][c].said
               /\ call[j][c].row = "failed" => g[c].row = "failed"
    <2>1. call[j][c] \in Row
      BY AtJob DEF Table
    <2>2. CASE c \in Marked(j)
      <3>1. g[c] = Mark(call[j][c])
        BY <2>2
      <3>2. /\ Mark(call[j][c]) \in Row /\ Mark(call[j][c]).row = "failed"
            /\ Mark(call[j][c]).answer = call[j][c].answer
            /\ Mark(call[j][c]).said = call[j][c].said
        BY <2>1, MarkRow
      <3> QED BY <3>1, <3>2
    <2>3. CASE c \notin Marked(j)
      <3>1. g[c] = Kept(call[j][c])
        BY <2>3
      <3> QED BY <2>1, <3>1, KeptRow, Zenon
    <2> QED BY <2>2, <2>3
  <1>4. g \in Table
    BY <1>3 DEF Table
  <1> HIDE DEF g
  <1>5. RowsOnly(call[j], g)
    BY <1>3 DEF RowsOnly
  <1>6. OwnLock(j) /\ lock' # j
    BY <1>1, LockSteps
  <1>7. PendV(g, req'[j], lock' = j)
    BY <1>3, <1>6 DEF PendV
  <1>8. "failing" \in Pc
    BY DEF Pc
  <1> QED BY <1>1, <1>2, <1>4, <1>5, <1>6, <1>7, <1>8, RestChange

LEMMA StoreTextStep ==
  ASSUME Inv, NEW j \in Jobs, NEW i \in 1..Images, StoreText(j, i) PROVE Inv'
  <1> DEFINE r == [req[j] EXCEPT !.stored = @ \cup {i}]
  <1>1. /\ req[j].pc = "store" /\ i \in req[j].heard
        /\ UNCHANGED <<step, output, call, text, lock>>
    BY DEF StoreText, At
  <1>2. req' = [req EXCEPT ![j] = r]
    BY AtJob DEF StoreText, TypeOK
  <1>3. r \in Request
    <2>1. \A q \in Request : [q EXCEPT !.stored = @ \cup {i}] \in Request
      BY DEF Request
    <2> QED BY <2>1, AtJob
  <1>4. JobInv(call[j], r, step[j], output[j], text[j], lock = j)
    BY <1>1, <1>3, AtJob, StoreKeeps
  <1> HIDE DEF r
  <1>5. call[j] \in Table /\ call' = [call EXCEPT ![j] = call[j]]
    BY <1>1, AtJob DEF TypeOK
  <1>6. OwnLock(j)
    BY <1>1, LockSteps
  <1> QED BY <1>1, <1>2, <1>3, <1>4, <1>5, <1>6, JobChange

LEMMA FinishStep == ASSUME Inv, NEW j \in Jobs, Finish(j) PROVE Inv'
  <1> DEFINE g == [c \in Calls |-> Kept(call[j][c])]
  <1>1. /\ req[j].pc = "store" /\ req[j].stored = req[j].heard /\ Goto(j, "idle")
        /\ Releases(j)
    BY DEF Finish, AllStored, At
  <1>2. /\ call' = [call EXCEPT ![j] = g] /\ step' = [step EXCEPT ![j] = "COMPLETED"]
        /\ output' = [output EXCEPT ![j] = "ok"]
        /\ text' = [text EXCEPT ![j] = req[j].stored]
    BY Zenon DEF Finish
  <1>3. g \in Table
    BY RowTypes, AtJob DEF Table
  <1>4. "idle" \in Pc
    BY DEF Pc
  <1>5. req'[j] \in Request /\ req'[j] = [req[j] EXCEPT !.pc = "idle"]
    BY <1>1, <1>4, GotoStep
  <1>6. JobInv(g, req'[j], "COMPLETED", "ok", req[j].stored, FALSE)
    BY <1>1, <1>3, <1>5, AtJob, FinishKeeps
  <1> HIDE DEF g
  <1>7. OwnLock(j) /\ lock' # j
    BY <1>1, LockSteps
  <1>8. /\ call'[j] = g /\ step'[j] = "COMPLETED" /\ output'[j] = "ok"
        /\ text'[j] = req[j].stored
    BY <1>2, AtJob DEF TypeOK
  <1>9. TypeOK'
    <2>1. req[j].stored \in SUBSET (1..Images)
      BY AtJob DEF Request
    <2>2. call' \in [Jobs -> [Calls -> Row]]
      BY <1>2, <1>3, AtJob, CallsType
    <2>3. req' \in [Jobs -> Request]
      BY <1>1, <1>4, GotoStep
    <2> QED BY <1>2, <1>7, <2>1, <2>2, <2>3, AtJob DEF TypeOK, OwnLock
  <1>10. Others(j)
    <2> SUFFICES ASSUME NEW k \in Jobs \ {j}
                 PROVE  /\ call'[k] = call[k] /\ req'[k] = req[k] /\ step'[k] = step[k]
                        /\ output'[k] = output[k] /\ text'[k] = text[k]
                        /\ lock' = k <=> lock = k
      BY DEF Others
    <2>1. /\ call'[k] = call[k] /\ step'[k] = step[k]
          /\ output'[k] = output[k] /\ text'[k] = text[k]
      BY <1>2, AtJob DEF TypeOK
    <2>2. req'[k] = req[k]
      BY <1>1, <1>4, GotoStep
    <2> QED BY <2>1, <2>2, <1>7 DEF OwnLock
  <1>11. JobInv(call'[j], req'[j], step'[j], output'[j], text'[j], lock' = j)
    BY <1>6, <1>7, <1>8 DEF JobInv, PendV
  <1> QED BY <1>9, <1>10, <1>11, Combine

-----------------------------------------------------------------------------
(* The step, and the theorems.                                             *)

LEMMA ExtractSteps == ASSUME Inv, NEW j \in Jobs, Extract(j) PROVE Inv'
  <1>1. CASE \E pc \in Pc : Prepare(j, pc)
    BY <1>1, PrepareStep
  <1>2. CASE \E a \in Answers, said \in BOOLEAN : Ask(j, a, said)
    BY <1>2, AskStep
  <1>3. CASE \E a \in Errors : RecordError(j, a)
    BY <1>3, RecordErrorStep
  <1>4. CASE Record(j)
    BY <1>4, RecordStep
  <1>5. CASE RecordOdd(j)
    BY <1>5, RecordOddStep
  <1>6. CASE MarkFailed(j)
    BY <1>6, MarkFailedStep
  <1>7. CASE MarkNothing(j)
    BY <1>7, MarkNothingStep
  <1>8. CASE Escape(j) \/ RowTimesOut(j)
    BY <1>8, FaultSteps
  <1> QED BY <1>1, <1>2, <1>3, <1>4, <1>5, <1>6, <1>7, <1>8 DEF Extract

LEMMA ConcludeSteps == ASSUME Inv, NEW j \in Jobs, Conclude(j) PROVE Inv'
  <1>1. CASE \E i \in 1..Images : StoreText(j, i)
    BY <1>1, StoreTextStep
  <1>2. CASE StoreFails(j)
    BY <1>2, FaultSteps
  <1>3. CASE Finish(j)
    BY <1>3, FinishStep
  <1>4. CASE FinishSkipped(j)
    BY <1>4, SkipStep
  <1>5. CASE Fail(j)
    BY <1>5, FailStep
  <1>6. CASE EndTimesOut(j)
    BY <1>6, EndTimesOutStep
  <1> QED BY <1>1, <1>2, <1>3, <1>4, <1>5, <1>6 DEF Conclude

LEMMA StepInv == Inv /\ [Next]_vars => Inv'
  <1> SUFFICES ASSUME Inv, [Next]_vars PROVE Inv'
    OBVIOUS
  <1>1. CASE UNCHANGED vars
    BY <1>1 DEF vars, Inv, TypeOK
  <1>2. ASSUME NEW j \in Jobs, Start(j) \/ Progress(j) \/ Crash(j) PROVE Inv'
    <2>1. CASE Start(j)
      BY <2>1, StartStep
    <2>2. CASE Progress(j)
      BY <2>2, ExtractSteps, ConcludeSteps DEF Progress
    <2>3. CASE Crash(j)
      BY <2>3, FaultSteps
    <2> QED BY <1>2, <2>1, <2>2, <2>3
  <1> QED BY <1>1, <1>2 DEF Next

\* The inductive invariant, whatever overlaps, fails or dies.
THEOREM ExtractionInvariant == Spec => []ExtractionInv
  <1>1. Inv => ExtractionInv
    BY InvIsExtractionInv
  <1> QED BY InitInv, StepInv, <1>1, PTL DEF Spec

\* No call is paid for that was not due (extract_with_single_repair, _extract_one).
THEOREM OnlyDueCalls == Spec => []CallsAreDue
  <1>1. ExtractionInv => CallsAreDue
    BY DEF ExtractionInv
  <1> QED BY ExtractionInvariant, <1>1, PTL

\* A repair is never asked for ahead of the committed row of the failure it
\* repairs (_write_error_ledger).
THEOREM FailureThenRepair == Spec => []RepairsFollowRecord
  <1>1. ExtractionInv => RepairsFollowRecord
    BY DEF ExtractionInv
  <1> QED BY ExtractionInvariant, <1>1, PTL

\* A job has transcripts exactly when its step is completed, and they are those
\* its last run heard (run_ai_extraction).
THEOREM TextsAreHeard == Spec => []TextsIffExtracted
  <1>1. ExtractionInv => TextsIffExtracted
    BY DEF ExtractionInv
  <1> QED BY ExtractionInvariant, <1>1, PTL

\* A completed step has a committed row for every call its run made.
THEOREM CompletedHasRows == Spec => []CompletedIsLedgered
  <1>1. ExtractionInv => CompletedIsLedgered
    BY DEF ExtractionInv
  <1> QED BY ExtractionInvariant, <1>1, PTL

=============================================================================
