---------------------------- MODULE ExpiryTracker ----------------------------
(***************************************************************************)
(* The expiry tracker: the classification, the expiry date and the opened  *)
(* date of an asset, each the newest of its assertion rows, the manual     *)
(* tasks that ask for a date, and the reminders a daily pass writes from   *)
(* the engine's reading of those rows.  A request reads outside any        *)
(* transaction until its first flush; from there to its commit it holds    *)
(* the write lock, so that last part is one step.                          *)
(***************************************************************************)
EXTENDS ExpiryEngine, Sequences, FiniteSets

CONSTANTS Assets, Origins,   \* assets, and retired split origins with a task
          SharesEvidence,    \* pairs of an asset and an origin
          Home,              \* household of each asset, a number
          Dates, Day,        \* dates a user may enter, and their days
          Observed,          \* date read from each asset's pictures, or "none"
          Sessions,          \* numbers of requests under way
          LastDay,           \* bound: days that pass
          Scopes             \* what a behaviour may do, and its bounds

ASSUME TrackerAssumption ==
  /\ SharesEvidence \subseteq Assets \X Origins
  /\ Home \in [Assets -> Nat] /\ Day \in [Dates -> Int]
  /\ Dates \cap ({"unknown", "null", "none", "keep"} \cup Categories) = {}
  /\ Observed \in [Assets -> Dates \cup {"none"}]
  /\ Sessions \subseteq Nat /\ LastDay \in Nat
  /\ Scopes \subseteq [sessions : Nat, assets : SUBSET Assets, categories : SUBSET Categories,
                       days : 0..LastDay, rows : Nat]

VARIABLES scope,     \* sessions, assets, categories, days and rows of this behaviour
          rows,      \* assertions, oldest first
          active,    \* assets in state ACTIVE
          task,      \* assets with an open expiry.manual_entry task
          orphan,    \* origins with an open expiry.manual_entry task
          req,       \* the request of each session
          today,     \* the clock
          loop,      \* the daily pass
          reminder,  \* the reminder of an asset for a day
          wish,      \* history: the date the user chose last, by asset and field
          raced,     \* history: assets on which a request wrote over what it had not read
          handled,   \* history: assets whose task a reviewer resolved
          touched    \* history: assets written since the pass of the day read them

trackerVars == <<rows, active, task, orphan, req>>
dailyVars == <<today, loop, reminder>>
history == <<wish, raced, handled, touched>>
vars == <<scope, trackerVars, dailyVars, history>>

Fields == {"class", "expiry", "opened"}
Values == Categories \cup Dates \cup {"unknown", "null"}
Row == [asset : Assets, field : Fields, value : Values,
        state : {"accepted", "proposed", "needs_evidence", "superseded"}]
Households == {Home[a] : a \in Assets}

FieldOf(kind) == CASE kind = "classify" -> "class"
                   [] kind \in {"enter", "clear"} -> "expiry"
                   [] OTHER -> "opened"
Idle == [pc |-> "idle"]
NoReminder == [tier |-> "none", bucket |-> "none", status |-> "none"]
Sleeping == [pc |-> "sleep", day |-> 0, left |-> {}, due |-> {}, failed |-> {}]
Waiting == [pc : {"check", "decide", "find", "prev", "write"},
            kind : {"classify", "enter", "clear", "open", "unopen"}, asset : Assets, field : Fields,
            category : Categories \cup {"none"}, value : Values,
            state : {"accepted", "proposed", "needs_evidence"},
            seen : Nat, base : Nat, prev : Nat, same : BOOLEAN]
Marking == [pc : {"mark"}, kind : {"read", "dismissed"}, asset : Assets, day : 0..LastDay]
Reminder == [tier : TierNames, bucket : Buckets, status : {"none", "unread", "read", "dismissed"}]
Pass == [pc : {"sleep", "read", "insert", "done"}, day : 0..LastDay, left : SUBSET Households,
         due : SUBSET [asset : Assets, tier : TierNames, bucket : Buckets], failed : SUBSET Households]

TypeOK ==
  /\ scope \in Scopes /\ rows \in Seq(Row)
  /\ active \subseteq Assets /\ task \subseteq Assets /\ orphan \subseteq Origins
  /\ req \in [Sessions -> Waiting \cup Marking \cup {Idle}]
  /\ today \in 0..LastDay /\ loop \in Pass /\ reminder \in [Assets -> [0..LastDay -> Reminder]]
  /\ wish \in [Assets -> [{"expiry", "opened"} -> Dates \cup {"none"}]]
  /\ raced \subseteq Assets /\ handled \subseteq Assets /\ touched \subseteq Assets

Init == /\ scope \in Scopes
        /\ rows = <<>> /\ active = Assets
        /\ task \in SUBSET scope.assets /\ orphan = Origins
        /\ req = [s \in Sessions |-> Idle]
        /\ today = 0 /\ loop = Sleeping
        /\ reminder = [a \in Assets |-> [d \in 0..LastDay |-> NoReminder]]
        /\ wish = [a \in Assets |-> [f \in {"expiry", "opened"} |-> "none"]]
        /\ raced = {} /\ handled = {} /\ touched = {}

-----------------------------------------------------------------------------
\* The newest row of a field that is neither superseded nor rejected, or 0;
\* and the newest accepted one.
Newest(S) == IF S = {} THEN 0 ELSE CHOOSE i \in S : \A j \in S : j <= i
Open(R, a, f) == {i \in DOMAIN R : R[i].asset = a /\ R[i].field = f /\ R[i].state # "superseded"}
ActiveRow(R, a, f) == Newest(Open(R, a, f))
AcceptedRow(R, a, f) == Newest({i \in Open(R, a, f) : R[i].state = "accepted"})

\* The category of an asset, or "none"; the date an accepted row states, or
\* "none".
CategoryOf(R, a) == LET i == AcceptedRow(R, a, "class") IN IF i = 0 THEN "none" ELSE R[i].value
Stated(R, i) == IF i # 0 /\ R[i].state = "accepted" /\ R[i].value \in Dates THEN R[i].value ELSE "none"

\* _write_assertion, given the row read before: the same value again changes
\* nothing, another supersedes that row alone.
\* Mutant: a proposal of the same value counts as the same.
SameValue(R, prev, value, state) == prev # 0 /\ R[prev].value = value
Same(R, prev, value, state) == prev # 0 /\ R[prev].value = value /\ R[prev].state = state
Add(R, a, f, value, state) == Append(R, [asset |-> a, field |-> f, value |-> value, state |-> state])
Supersede(R, i) == IF i = 0 THEN R ELSE [R EXCEPT ![i].state = "superseded"]
Write(R, prev, same, a, f, value, state) ==
  IF same THEN R ELSE Add(Supersede(R, prev), a, f, value, state)
WriteNow(R, a, f, value, state) ==
  LET prev == ActiveRow(R, a, f) IN Write(R, prev, Same(R, prev, value, state), a, f, value, state)

\* What classify_asset wants of the expiry field, given the row it read.
Keep == [value |-> "keep", state |-> "none"]
Wants(R, a, c, i) ==
  IF ~HasExpiry(c) THEN IF i = 0 THEN Keep ELSE [value |-> "null", state |-> "accepted"]
  ELSE IF Stated(R, i) # "none" THEN Keep
  ELSE IF ReadsObserved(c) /\ Observed[a] # "none" THEN [value |-> Observed[a], state |-> "proposed"]
  ELSE [value |-> "unknown", state |-> "needs_evidence"]

OriginsOf(a) == {o \in Origins : <<a, o>> \in SharesEvidence}
\* Mutant: an unknown date asks only when another date was known before.
AskSometimes(a, c, want) ==
  /\ task' = IF HasExpiry(c) THEN task ELSE task \ {a}
  /\ orphan' = IF HasExpiry(c) THEN orphan ELSE orphan \ OriginsOf(a)
\* A date nobody knows is asked for; a category without expiry resolves the
\* asset's task and those of the split origins that share its evidence.
Ask(a, c, want) ==
  /\ task' = IF ~HasExpiry(c) THEN task \ {a}
             ELSE IF want.value = "unknown" THEN task \cup {a} ELSE task
  /\ orphan' = IF HasExpiry(c) THEN orphan ELSE orphan \ OriginsOf(a)

-----------------------------------------------------------------------------
Steps(s, r) == req' = [req EXCEPT ![s] = r]
OnlySteps(s, r) == /\ Steps(s, r)
                   /\ UNCHANGED <<scope, rows, active, task, orphan, dailyVars, history>>

\* A request commits rows R; it raced when its decision or its previous row was
\* no longer the newest.
Commits(s, R) ==
  LET r == req[s] IN
  /\ rows' = R /\ Steps(s, Idle)
  /\ raced' = IF {r.prev, r.base} = {ActiveRow(rows, r.asset, r.field)} THEN raced ELSE raced \cup {r.asset}
  /\ touched' = IF R = rows THEN touched ELSE touched \cup {r.asset}

\* A client sends a request, with the row it loaded as If-Match or without.
Begin(s, kind, a, value) ==
  /\ s <= scope.sessions /\ req[s].pc = "idle" /\ Len(rows) + 2 <= scope.rows
  /\ \E seen \in {0} \cup (IF FieldOf(kind) = "opened" THEN {} ELSE {ActiveRow(rows, a, FieldOf(kind))}) :
       OnlySteps(s, [pc |-> "check", kind |-> kind, asset |-> a, field |-> FieldOf(kind),
                     category |-> IF kind = "classify" THEN value ELSE "none",
                     value |-> value, state |-> "accepted", seen |-> seen,
                     base |-> 0, prev |-> 0, same |-> FALSE])
Requests(s) ==
  \E a \in scope.assets :
    \/ \E c \in scope.categories : Begin(s, "classify", a, c)
    \/ \E d \in Dates : Begin(s, "enter", a, d) \/ Begin(s, "open", a, d)
    \/ Begin(s, "clear", a, "null") \/ Begin(s, "unopen", a, "null")

\* _require_if_match, against the newest row at this moment.
Check(s) ==
  LET r == req[s] IN
  /\ r.pc = "check"
  /\ OnlySteps(s, IF r.seen # 0 /\ ActiveRow(rows, r.asset, r.field) # r.seen THEN Idle
                  ELSE [r EXCEPT !.pc = IF r.kind = "classify" THEN "prev" ELSE "decide"])

\* What a request needs: a category with expiry, or with opened dates, and an
\* opened date that has come; then, in a read of its own, something to clear.
Refused(r) ==
  LET c == CategoryOf(rows, r.asset) IN
  \/ c = "none"
  \/ r.field = "expiry" /\ ~HasExpiry(c)
  \/ r.field = "opened" /\ ~TracksOpened(c)
  \/ r.kind = "open" /\ Day[r.value] > today
Clears(r) == r.kind \in {"clear", "unopen"}
Decide(s) ==
  LET r == req[s] IN
  /\ r.pc = "decide"
  /\ OnlySteps(s, IF Refused(r) THEN Idle ELSE [r EXCEPT !.pc = IF Clears(r) THEN "find" ELSE "prev"])
FindCleared(s) ==
  LET r == req[s] IN
  /\ r.pc = "find"
  /\ OnlySteps(s, IF ActiveRow(rows, r.asset, r.field) = 0 THEN Idle ELSE [r EXCEPT !.pc = "prev"])

\* The row that the write will supersede, unless it says the same.
ReadPrevious(s) ==
  LET r == req[s]
      i == ActiveRow(rows, r.asset, r.field) IN
  /\ r.pc = "prev"
  /\ OnlySteps(s, [r EXCEPT !.pc = "write", !.prev = i, !.same = Same(rows, i, r.value, r.state),
                            !.base = IF r.kind = "classify" /\ r.field = "expiry" THEN @ ELSE i])

\* classify_asset: a new classification starts the transaction, and the expiry
\* field follows in it.
Reclassified(a, c) == IF HasExpiry(c) THEN wish ELSE [wish EXCEPT ![a].expiry = "none"]
WriteClass(s) ==
  LET r == req[s]
      R == Write(rows, r.prev, FALSE, r.asset, "class", r.category, "accepted")
      want == Wants(R, r.asset, r.category, ActiveRow(R, r.asset, "expiry")) IN
  /\ r.pc = "write" /\ r.field = "class" /\ ~r.same
  /\ Commits(s, IF want = Keep THEN R ELSE WriteNow(R, r.asset, "expiry", want.value, want.state))
  /\ Ask(r.asset, r.category, want)
  /\ wish' = Reclassified(r.asset, r.category) /\ handled' = handled \ {r.asset}
  /\ UNCHANGED <<scope, active, dailyVars>>
\* The same classification again writes nothing: the expiry field is read, and
\* read once more before its write, outside any transaction.
SameClass(s) ==
  LET r == req[s]
      i == ActiveRow(rows, r.asset, "expiry")
      want == Wants(rows, r.asset, r.category, i) IN
  /\ r.pc = "write" /\ r.field = "class" /\ r.same
  /\ IF want = Keep
     THEN Steps(s, Idle) /\ Ask(r.asset, r.category, want)
     ELSE /\ Steps(s, [r EXCEPT !.pc = "prev", !.field = "expiry", !.base = i,
                                !.value = want.value, !.state = want.state])
          /\ UNCHANGED <<task, orphan>>
  /\ UNCHANGED <<scope, rows, active, dailyVars, history>>
WriteAgain(s) ==
  LET r == req[s] IN
  /\ r.pc = "write" /\ r.kind = "classify" /\ r.field = "expiry"
  /\ Commits(s, Write(rows, r.prev, r.same, r.asset, "expiry", r.value, r.state))
  /\ Ask(r.asset, r.category, [value |-> r.value, state |-> r.state])
  /\ wish' = Reclassified(r.asset, r.category) /\ handled' = handled \ {r.asset}
  /\ UNCHANGED <<scope, active, dailyVars>>

\* store_manual_expiry and clear_expiry_date: the user's word on the date
\* resolves what asked for it; only a date resolves the origins' tasks.
WriteExpiry(s) ==
  LET r == req[s] IN
  /\ r.pc = "write" /\ r.kind \in {"enter", "clear"}
  /\ Commits(s, Write(rows, r.prev, r.same, r.asset, "expiry", r.value, "accepted"))
  /\ task' = task \ {r.asset}
  /\ orphan' = IF r.kind = "clear" THEN orphan ELSE orphan \ OriginsOf(r.asset)
  /\ wish' = [wish EXCEPT ![r.asset].expiry = IF r.kind = "enter" THEN r.value ELSE "none"]
  /\ UNCHANGED <<scope, active, dailyVars, handled>>
WriteOpened(s) ==
  LET r == req[s] IN
  /\ r.pc = "write" /\ r.kind \in {"open", "unopen"}
  /\ Commits(s, Write(rows, r.prev, r.same, r.asset, "opened", r.value, "accepted"))
  /\ wish' = [wish EXCEPT ![r.asset].opened = IF r.kind = "open" THEN r.value ELSE "none"]
  /\ UNCHANGED <<scope, active, task, orphan, dailyVars, handled>>

\* A reviewer resolves a date task with any payload at all.
ResolveTask(a) ==
  /\ a \in task /\ task' = task \ {a} /\ handled' = handled \cup {a}
  /\ UNCHANGED <<scope, rows, active, orphan, req, dailyVars, wish, raced, touched>>
\* The asset leaves the active ones.
Archive(a) ==
  /\ a \in active /\ scope.days > 0
  /\ active' = active \ {a} /\ touched' = touched \cup {a}
  /\ UNCHANGED <<scope, rows, task, orphan, req, dailyVars, wish, raced, handled>>

-----------------------------------------------------------------------------
\* compute_status: the date of an active, classified asset, when its newest
\* accepted expiry row states one.
Resolved(a) == IF a \in active /\ CategoryOf(rows, a) # "none"
               THEN Stated(rows, AcceptedRow(rows, a, "expiry")) ELSE "none"
\* The tier of the asset's row, when it has one that is a window's.
Warned(a, day) == /\ Resolved(a) # "none"
                  /\ Warns(CategoryOf(rows, a), TierFor(CategoryOf(rows, a), Day[Resolved(a)] - day))
Warning(a, day) == [asset |-> a, tier |-> TierFor(CategoryOf(rows, a), Day[Resolved(a)] - day),
                    bucket |-> BucketFor(Day[Resolved(a)] - day)]

\* The daily pass: its day is taken from the clock once.
PassBegins ==
  /\ loop.pc = "sleep" /\ scope.days > 0
  /\ loop' = [loop EXCEPT !.pc = "read", !.day = today, !.left = Households]
  /\ UNCHANGED <<scope, trackerVars, today, reminder, history>>
\* Mutant: an asset that has a reminder of any day gets no other.
DueOnce(h, day) ==
  {Warning(a, day) : a \in {x \in Assets : /\ Home[x] = h /\ Warned(x, day)
                                           /\ \A d \in 0..LastDay : reminder[x][d] = NoReminder}}
\* record_due, its reads: the tiered assets without a reminder of this day.
Due(h, day) ==
  {Warning(a, day) : a \in {x \in Assets : Home[x] = h /\ Warned(x, day) /\ reminder[x][day] = NoReminder}}
Lowest(S) == CHOOSE h \in S : \A g \in S : h <= g
ReadDue ==
  /\ loop.pc = "read" /\ loop.left # {}
  /\ loop' = [loop EXCEPT !.pc = "insert", !.due = Due(Lowest(loop.left), loop.day)]
  /\ touched' = touched \ {a \in Assets : Home[a] = Lowest(loop.left) /\ reminder[a][loop.day] = NoReminder}
  /\ UNCHANGED <<scope, trackerVars, today, reminder, wish, raced, handled>>
\* The batch of a household is one commit; a failure, of that commit or of the
\* reads before it, is only this household's.
InsertDue ==
  /\ loop.pc = "insert"
  /\ reminder' = [a \in Assets |-> [d \in 0..LastDay |->
       IF d = loop.day /\ \E w \in loop.due : w.asset = a
       THEN LET w == CHOOSE w \in loop.due : w.asset = a
            IN  [tier |-> w.tier, bucket |-> w.bucket, status |-> "unread"]
       ELSE reminder[a][d]]]
  /\ loop' = [loop EXCEPT !.pc = "read", !.left = @ \ {Lowest(@)}, !.due = {}]
  /\ UNCHANGED <<scope, trackerVars, today, history>>
InsertFails ==
  /\ loop.pc = "insert"
  /\ loop' = [loop EXCEPT !.pc = "read", !.left = @ \ {Lowest(@)}, !.due = {},
                          !.failed = @ \cup {Lowest(loop.left)}]
  /\ UNCHANGED <<scope, trackerVars, today, reminder, history>>
PassEnds ==
  /\ loop.pc = "read" /\ loop.left = {} /\ loop' = [loop EXCEPT !.pc = "done"]
  /\ UNCHANGED <<scope, trackerVars, today, reminder, history>>
\* An interval later; the clock may have moved on by any number of days.
Wake == /\ loop.pc = "done" /\ loop' = Sleeping
        /\ UNCHANGED <<scope, trackerVars, today, reminder, history>>
Tick == /\ today < scope.days /\ today' = today + 1
        /\ UNCHANGED <<scope, trackerVars, loop, reminder, history>>
\* The process dies: requests and the pass end where they are.
Restart == /\ req' = [s \in Sessions |-> Idle] /\ loop' = Sleeping
           /\ UNCHANGED <<scope, rows, active, task, orphan, today, reminder, history>>

-----------------------------------------------------------------------------
\* A reminder is read or dismissed: its status is read, then written.
LegalFrom(target) == IF target = "read" THEN {"unread"} ELSE {"unread", "read"}
BeginMark(s, target, a, d) ==
  /\ s <= scope.sessions /\ req[s].pc = "idle" /\ reminder[a][d].status \in LegalFrom(target)
  /\ OnlySteps(s, [pc |-> "mark", kind |-> target, asset |-> a, day |-> d])
Mark(s) ==
  LET r == req[s] IN
  /\ r.pc = "mark" /\ Steps(s, Idle)
  /\ reminder' = [reminder EXCEPT ![r.asset][r.day].status = r.kind]
  /\ UNCHANGED <<scope, rows, active, task, orphan, today, loop, history>>

-----------------------------------------------------------------------------
Tracker == \/ \E s \in Sessions : \/ Requests(s) \/ Check(s) \/ Decide(s) \/ FindCleared(s)
                                  \/ ReadPrevious(s) \/ WriteClass(s) \/ SameClass(s) \/ WriteAgain(s)
                                  \/ WriteExpiry(s) \/ WriteOpened(s) \/ Mark(s)
           \/ \E a \in Assets : ResolveTask(a) \/ Archive(a)
Daily == \/ PassBegins \/ ReadDue \/ InsertDue \/ InsertFails \/ PassEnds \/ Wake \/ Tick \/ Restart
         \/ \E s \in Sessions, a \in Assets, d \in 0..LastDay, target \in {"read", "dismissed"} :
              BeginMark(s, target, a, d)
Next == Tracker \/ Daily
Spec == Init /\ [][Next]_vars

-----------------------------------------------------------------------------
\* A field has one open row, and the rows say what the user said last: the date
\* and the opened date that the engine and the countdown read are the ones
\* chosen last, however often the asset was classified in between, unless a
\* request wrote over a row that it had not read (expiry_tracker.py,
\* _write_assertion, classify_asset).
OneOpenRow(a) == \A f \in Fields : \A i, j \in Open(rows, a, f) : i = j
LastWordHolds ==
  \A a \in Assets \ raced :
    /\ OneOpenRow(a)
    /\ \A f \in {"expiry", "opened"} : Stated(rows, AcceptedRow(rows, a, f)) = wish[a][f]

\* An asset whose date is unknown has an open task that asks for it, until a
\* reviewer resolves that by hand, or a request wrote over a row that it had not
\* read (classify_asset, store_manual_expiry).
UnknownIsAsked ==
  \A a \in Assets \ (raced \cup handled) :
    LET i == ActiveRow(rows, a, "expiry") IN i # 0 /\ rows[i].state = "needs_evidence" => a \in task

\* When a pass is over, each asset of a household that did not fail, and that
\* nobody wrote since, has a reminder of that day exactly when its date lies
\* ahead and within a window, and it names the narrowest of these
\* (record_due, compute_status).
DueIsReminded ==
  loop.pc = "done" =>
    \A a \in Assets \ touched : Home[a] \notin loop.failed =>
      LET mark == reminder[a][loop.day]
          window == Tiers[CategoryOf(rows, a)]
          left == Day[Resolved(a)] - loop.day
          within == {t \in DOMAIN window : 0 <= left /\ left <= window[t]} IN
      IF Resolved(a) = "none" \/ within = {} THEN mark = NoReminder
      ELSE mark.status # "none" /\ mark.tier \in within /\ \A t \in within : window[mark.tier] <= window[t]
=============================================================================
