----------------------------- MODULE Extraction -----------------------------
(***************************************************************************)
(* The AI step of import jobs and the ledger of provider calls: one call   *)
(* per image with one repair, a row per call, transcripts stored after the *)
(* last image.  A row of a call that succeeded is flushed and commits with *)
(* the step; the row of a call that failed is committed at once, so that   *)
(* the rollback of the step cannot erase it, and takes along what is       *)
(* pending.  The first flush takes the database's one write lock, and the  *)
(* job keeps it while it waits for the provider (300 s); another request   *)
(* that must write gives up after the busy timeout (5 s).                  *)
(***************************************************************************)
EXTENDS Naturals

CONSTANTS Jobs,         \* jobs whose step may be running, one request each
          None,         \* no job
          Images,       \* number of analyzable images of a job
          Runs,         \* bound: runs of a job's step
          Answers,      \* what the provider may answer
          Crashes,      \* TRUE: a request may die between two effects
          FileErrors    \* TRUE: a transcript's file may be refused

\* What becomes of one call:
\*   valid      a body that passes the schema
\*   odd        a result whose normalized output does not pass it (the fake provider)
\*   unparsed   a body that is no JSON object, has no choices or no usage, or
\*              whose content does not pass the schema
\*   down       no key, no connection, or a status other than 200
\*   misshapen  a JSON object whose parts have other types than the adapter reads
AllAnswers == {"valid", "odd", "unparsed", "down", "misshapen"}

\* Answers raised as a ProviderError or ValidationError, and those kinds that
\* the single repair is for.
Errors == {"unparsed", "down"}
Repairable == {"odd", "unparsed"}

ASSUME ExtractionAssumption ==
  /\ None \notin Jobs
  /\ Images \in Nat \ {0} /\ Runs \in Nat \ {0}
  /\ Answers \subseteq AllAnswers
  /\ Crashes \in BOOLEAN /\ FileErrors \in BOOLEAN

VARIABLES step,      \* state of each job's ANALYZING_WITH_AI step
          output,    \* "ok", "skipped" or "none": the step's stored output
          call,      \* each job's provider calls and their ledger rows
          text,      \* images whose transcript has an evidence row
          lock,      \* job whose transaction holds the write lock
          req        \* the request that runs each job

vars == <<step, output, call, text, lock, req>>

-----------------------------------------------------------------------------
Calls == [run : 1..Runs, image : 1..Images, attempt : 1..2]
At(j, pc) == req[j].pc = pc
Here(j) == [run |-> req[j].run, image |-> req[j].image, attempt |-> req[j].attempt]
Unsent == [answer |-> "unsent", said |-> FALSE, row |-> "none"]
Sent(j, c) == call[j][c].answer # "unsent"

Pc == {"idle", "ready", "call", "record", "mark", "store", "skip", "failing"}
Request == [pc : Pc, run : 0..Runs, image : 1..Images, attempt : 1..2,
            heard : SUBSET (1..Images), stored : SUBSET (1..Images)]

Init == /\ step = [j \in Jobs |-> "PENDING"]
        /\ output = [j \in Jobs |-> "none"]
        /\ call = [j \in Jobs |-> [c \in Calls |-> Unsent]]
        /\ text = [j \in Jobs |-> {}]
        /\ lock = None
        /\ req = [j \in Jobs |-> [pc |-> "idle", run |-> 0, image |-> 1, attempt |-> 1,
                                  heard |-> {}, stored |-> {}]]

Goto(j, pc) == req' = [req EXCEPT ![j] = [@ EXCEPT !.pc = pc]]
CanWrite(j) == lock \in {None, j}
\* Mutant: the session is neither rolled back nor closed.
KeepsLock(j) == UNCHANGED lock
Releases(j) == lock' = IF lock = j THEN None ELSE lock

\* The pending rows of the request, committed with its next commit.
Kept(r) == IF r.row = "pending" THEN [r EXCEPT !.row = "kept"] ELSE r
\* The same rows after a rollback: the call was made, its row is gone.
Erased(r) == IF r.row = "pending" THEN [r EXCEPT !.row = "none"] ELSE r

\* What is pending of job j goes, and the lock with it.
Rollback(j) == /\ call' = [call EXCEPT ![j] = [c \in Calls |-> Erased(@[c])]]
               /\ Releases(j)

-----------------------------------------------------------------------------
\* run_job marks the step RUNNING: the first run, a retry of a failed step, or
\* a run after one that died.
Start(j) ==
  /\ At(j, "idle") /\ step[j] # "COMPLETED" /\ lock = None
  /\ req[j].run < Runs
  /\ step' = [step EXCEPT ![j] = "RUNNING"]
  /\ req' = [req EXCEPT ![j] = [pc |-> "ready", run |-> @.run + 1, image |-> 1,
                                attempt |-> 1, heard |-> {}, stored |-> {}]]
  /\ UNCHANGED <<output, call, text, lock>>

\* Consent, the prompt, the evidence and its redacted bytes, before any call:
\* they are there, the step has nothing to do, or one of them cannot be read.
Prepare(j, pc) ==
  /\ At(j, "ready") /\ pc \in {"call", "skip", "failing"}
  /\ Goto(j, pc)
  /\ UNCHANGED <<step, output, call, text, lock>>

\* The call of the current image; the answer is in the request's hands, or its
\* time is up.
Ask(j, a, said) ==
  /\ At(j, "call")
  /\ a \in Answers /\ (said => a = "valid")
  /\ call' = [call EXCEPT ![j][Here(j)] = [answer |-> a, said |-> said, row |-> "none"]]
  /\ Goto(j, "record")
  /\ UNCHANGED <<step, output, text, lock>>

Answered(j, a) == At(j, "record") /\ call[j][Here(j)].answer = a
HeardHere(j) == IF call[j][Here(j)].said THEN {req[j].image} ELSE {}

\* Where the request goes after an answer that passed and said something new.
Onward(q, new) == IF q.image < Images
                  THEN [q EXCEPT !.pc = "call", !.image = @ + 1, !.attempt = 1,
                                 !.heard = @ \cup new]
                  ELSE [q EXCEPT !.pc = "store", !.heard = @ \cup new]
NextImage(j) == req' = [req EXCEPT ![j] = Onward(@, HeardHere(j))]

\* Mutant: a transcript is stored beside its row.
RecordWithText(j) ==
  /\ Answered(j, "valid") /\ CanWrite(j)
  /\ call' = [call EXCEPT ![j][Here(j)] = [@ EXCEPT !.row = "kept"]]
  /\ text' = [text EXCEPT ![j] = @ \cup HeardHere(j)]
  /\ lock' = None
  /\ NextImage(j)
  /\ UNCHANGED <<step, output>>

\* _write_ledger: a row, flushed and not committed.
WriteLedger(j) ==
  /\ CanWrite(j)
  /\ call' = [call EXCEPT ![j][Here(j)] = [@ EXCEPT !.row = "pending"]]
  /\ lock' = j

Record(j) ==
  /\ Answered(j, "valid")
  /\ WriteLedger(j) /\ NextImage(j)
  /\ UNCHANGED <<step, output, text>>

Repair(q) == [q EXCEPT !.pc = "call", !.attempt = 2]

\* The reader rejects the provider's result: one repair, then the rows are marked.
RecordOdd(j) ==
  /\ Answered(j, "odd")
  /\ WriteLedger(j)
  /\ req' = [req EXCEPT ![j] = IF @.attempt = 1 THEN Repair(@) ELSE [@ EXCEPT !.pc = "mark"]]
  /\ UNCHANGED <<step, output, text>>

\* _mark_calls_failed: the rows without an error that this image's calls left,
\* pending or committed; the commit takes what else is pending with it.
Marked(j) == {c \in Calls : /\ c.run = req[j].run /\ c.image = req[j].image
                            /\ call[j][c].row \in {"pending", "kept"}}

MarkFailed(j) ==
  /\ At(j, "mark") /\ Marked(j) # {} /\ CanWrite(j)
  /\ call' = [call EXCEPT ![j] = [c \in Calls |->
       IF c \in Marked(j) THEN [@[c] EXCEPT !.row = "failed"] ELSE Kept(@[c])]]
  /\ lock' = None
  /\ Goto(j, "failing")
  /\ UNCHANGED <<step, output, text>>

MarkNothing(j) ==
  /\ At(j, "mark") /\ Marked(j) = {}
  /\ Goto(j, "failing")
  /\ UNCHANGED <<step, output, call, text, lock>>

\* Mutant: the row of a failed call is flushed like the others.
FlushErrorLedger(j) ==
  /\ CanWrite(j)
  /\ call' = [call EXCEPT ![j][Here(j)] = [@ EXCEPT !.row = "pending"]]
  /\ lock' = j

\* Mutant: the failed call's transaction is rolled back before its row is written.
RollbackThenLedger(j) ==
  /\ CanWrite(j)
  /\ call' = [call EXCEPT ![j] = [c \in Calls |->
       IF c = Here(j) THEN [@[c] EXCEPT !.row = "failed"] ELSE Erased(@[c])]]
  /\ lock' = None

\* _write_error_ledger: the row is committed, and all pending ones with it.
WriteErrorLedger(j) ==
  /\ CanWrite(j)
  /\ call' = [call EXCEPT ![j] = [c \in Calls |->
       IF c = Here(j) THEN [@[c] EXCEPT !.row = "failed"] ELSE Kept(@[c])]]
  /\ lock' = None

\* Mutant: an image that stays unread is passed over.
RecordErrorAndGoOn(j, a) ==
  /\ a \in Errors /\ Answered(j, a)
  /\ WriteErrorLedger(j)
  /\ IF a \in Repairable /\ req[j].attempt = 1
     THEN req' = [req EXCEPT ![j] = Repair(@)]
     ELSE NextImage(j)
  /\ UNCHANGED <<step, output, text>>

RecordError(j, a) ==
  /\ a \in Errors /\ Answered(j, a)
  /\ WriteErrorLedger(j)
  /\ IF a \in Repairable /\ req[j].attempt = 1
     THEN req' = [req EXCEPT ![j] = Repair(@)]
     ELSE Goto(j, "mark")
  /\ UNCHANGED <<step, output, text>>

\* Reading the body raises neither error: run_job rolls the step back.
Escape(j) ==
  /\ Answered(j, "misshapen")
  /\ Rollback(j) /\ Goto(j, "failing")
  /\ UNCHANGED <<step, output, text>>

\* The lock's holder is waiting for the provider for longer than the busy timeout.
LockedOut(j) == ~CanWrite(j) /\ At(lock, "call")

\* The row cannot be written: the database error is none the step handles.
RowTimesOut(j) ==
  /\ At(j, "record") \/ (At(j, "mark") /\ Marked(j) # {})
  /\ LockedOut(j)
  /\ Rollback(j) /\ Goto(j, "failing")
  /\ UNCHANGED <<step, output, text>>

-----------------------------------------------------------------------------
\* After the last image: store_text_evidence writes a file and flushes a row.
StoreText(j, i) ==
  /\ At(j, "store") /\ i \in req[j].heard \ req[j].stored
  /\ req' = [req EXCEPT ![j].stored = @ \cup {i}]
  /\ UNCHANGED <<step, output, call, text, lock>>

StoreFails(j) ==
  /\ FileErrors /\ At(j, "store") /\ req[j].stored # req[j].heard
  /\ Rollback(j) /\ Goto(j, "failing")
  /\ UNCHANGED <<step, output, text>>

\* Mutant: the step is completed before its transcripts are stored.
AllStoredEarly(j) == At(j, "store")
AllStored(j) == At(j, "store") /\ req[j].stored = req[j].heard

\* run_job commits the step's output with everything that is pending.
Finish(j) ==
  /\ AllStored(j)
  /\ step' = [step EXCEPT ![j] = "COMPLETED"]
  /\ output' = [output EXCEPT ![j] = "ok"]
  /\ call' = [call EXCEPT ![j] = [c \in Calls |-> Kept(@[c])]]
  /\ text' = [text EXCEPT ![j] = req[j].stored]
  /\ Releases(j)
  /\ Goto(j, "idle")

FinishSkipped(j) ==
  /\ At(j, "skip") /\ CanWrite(j)
  /\ step' = [step EXCEPT ![j] = "COMPLETED"]
  /\ output' = [output EXCEPT ![j] = "skipped"]
  /\ Goto(j, "idle")
  /\ UNCHANGED <<call, text, lock>>

\* The transaction that makes the step FAILED.
Fail(j) ==
  /\ At(j, "failing") /\ CanWrite(j)
  /\ step' = [step EXCEPT ![j] = "FAILED"]
  /\ Goto(j, "idle")
  /\ UNCHANGED <<output, call, text, lock>>

\* Either of them times out: the request ends with an error, the step stays RUNNING.
EndTimesOut(j) ==
  /\ At(j, "skip") \/ At(j, "failing")
  /\ LockedOut(j)
  /\ Goto(j, "idle")
  /\ UNCHANGED <<step, output, call, text, lock>>

Crash(j) == /\ Crashes /\ ~At(j, "idle")
            /\ Rollback(j) /\ Goto(j, "idle")
            /\ UNCHANGED <<step, output, text>>

-----------------------------------------------------------------------------
Extract(j) == \/ \E pc \in Pc : Prepare(j, pc)
              \/ \E a \in Answers, said \in BOOLEAN : Ask(j, a, said)
              \/ \E a \in Errors : RecordError(j, a)
              \/ Record(j) \/ RecordOdd(j) \/ MarkFailed(j) \/ MarkNothing(j)
              \/ Escape(j) \/ RowTimesOut(j)

Conclude(j) == \/ \E i \in 1..Images : StoreText(j, i)
               \/ StoreFails(j) \/ Finish(j) \/ FinishSkipped(j) \/ Fail(j) \/ EndTimesOut(j)

Progress(j) == Extract(j) \/ Conclude(j)

Next == \E j \in Jobs : Start(j) \/ Progress(j) \/ Crash(j)

Spec == Init /\ [][Next]_vars

\* A request's thread keeps running and a call ends with its timeout.
FairSpec == Spec /\ \A j \in Jobs : WF_vars(Progress(j))

-----------------------------------------------------------------------------
(* Properties.                                                             *)

Row == [answer : AllAnswers \cup {"unsent"}, said : BOOLEAN,
        row : {"none", "pending", "kept", "failed"}]

\* Type invariant of the steps, the ledger and the requests.
TypeOK == /\ step \in [Jobs -> {"PENDING", "RUNNING", "FAILED", "COMPLETED"}]
          /\ output \in [Jobs -> {"none", "ok", "skipped"}]
          /\ call \in [Jobs -> [Calls -> Row]]
          /\ text \in [Jobs -> SUBSET (1..Images)]
          /\ lock \in Jobs \cup {None}
          /\ req \in [Jobs -> Request]

First(c) == [run |-> c.run, image |-> c.image, attempt |-> 1]
Before(c, a) == [run |-> c.run, image |-> c.image - 1, attempt |-> a]

\* A call is only paid for when the one before it left something to do: the
\* first of an image when the image before it was read, the second when the
\* failure of the first is one a repair can mend.
CallsAreDue == \A j \in Jobs : \A c \in Calls : Sent(j, c) =>
  IF c.attempt = 2
  THEN call[j][First(c)].answer \notin {"valid", "down", "misshapen", "unsent"}
  ELSE c.image > 1 =>
         \E a \in 1..2 : call[j][Before(c, a)].answer = "valid"

\* A repair is only asked for once the failure it repairs is in the ledger: an
\* error for good, whatever becomes of the step.
RepairsFollowRecord == \A j \in Jobs : \A c \in Calls :
  c.attempt = 2 /\ Sent(j, c) /\ call[j][First(c)].answer \in Errors
    => call[j][First(c)].row = "failed"

\* "Transcript evidence exists iff the job extracted": the rows of a completed
\* step are those of what its last run heard, and any other step has none.
Heard(j) == {c.image : c \in {d \in Calls : d.run = req[j].run /\ call[j][d].said}}
TextsIffExtracted == \A j \in Jobs :
  text[j] = IF output[j] = "ok" THEN Heard(j) ELSE {}

\* A completed step has a row for every call of its run.
CompletedIsLedgered == \A j \in Jobs : output[j] = "ok" =>
  \A c \in Calls : c.run = req[j].run /\ Sent(j, c) => call[j][c].row \in {"kept", "failed"}

\* Once the request is over, every call it made has a row, whatever the outcome.
CallsLedgered == \A j \in Jobs : At(j, "idle") =>
  \A c \in Calls : Sent(j, c) => call[j][c].row \in {"kept", "failed"}

\* The write lock is free again and again, also when a job that holds it waits
\* for answers: no other request of the household is kept out for ever.
LockReleased == []<>(lock = None)

-----------------------------------------------------------------------------
(* What a run has behind it, for the inductive invariant.                  *)

Asking(j) == req[j].pc \in {"call", "record", "store"}

\* A run starts from nothing, and nothing is sent ahead of it.
FreshAtStart == \A j \in Jobs : At(j, "ready") =>
  /\ req[j].run > 0 /\ req[j].image = 1 /\ req[j].attempt = 1
  /\ req[j].heard = {} /\ req[j].stored = {}

SentBehind == \A j \in Jobs : \A c \in Calls : Sent(j, c) =>
  /\ c.run <= req[j].run
  /\ c.run = req[j].run => c.image <= req[j].image /\ ~At(j, "ready")
  /\ c.run = req[j].run /\ c.image = req[j].image =>
       /\ c.attempt <= req[j].attempt
       /\ At(j, "call") => c.attempt < req[j].attempt

\* Every image behind the request was read; a second attempt has a first one
\* that failed and is recorded.
Read(j, i) == \E a \in 1..2 :
  call[j][[run |-> req[j].run, image |-> i, attempt |-> a]].answer = "valid"
ReadBehind == \A j \in Jobs : Asking(j) =>
  /\ req[j].run > 0
  /\ req[j].image > 1 => Read(j, req[j].image - 1)
  /\ req[j].pc \in {"call", "record"} /\ req[j].attempt = 2 =>
       LET r == call[j][First(Here(j))] IN
       r.answer \in Repairable /\ (r.answer \in Errors => r.row = "failed")

\* Every call behind the request has a row, the answer in its hands has none,
\* and what it heard is remembered.
RowsBehind == \A j \in Jobs : Asking(j) =>
  /\ At(j, "record") => call[j][Here(j)].row = "none"
  /\ \A c \in Calls : c.run = req[j].run /\ Sent(j, c) =>
       call[j][c].row # "none" \/ (At(j, "record") /\ c = Here(j))
  /\ Heard(j) = IF At(j, "record") THEN req[j].heard \cup HeardHere(j) ELSE req[j].heard
  /\ req[j].stored \subseteq req[j].heard

\* Only a body that passed carries a transcript.
OnlyReadSays == \A j \in Jobs : \A c \in Calls : call[j][c].said => call[j][c].answer = "valid"

\* A row is pending only in the transaction that holds the lock.
PendingIsLocked == \A j \in Jobs :
  /\ \A c \in Calls : call[j][c].row = "pending" => lock = j /\ c.run = req[j].run
  /\ lock = j => req[j].pc \in {"call", "record", "mark", "store"}
  /\ lock = j /\ At(j, "mark") => Marked(j) # {}

\* A completed step is never run again.
DoneIsOver == \A j \in Jobs :
  /\ output[j] # "none" <=> step[j] = "COMPLETED"
  /\ step[j] = "COMPLETED" => At(j, "idle")

\* The inductive invariant, whatever requests overlap, fail or die.
ExtractionInv == /\ TypeOK /\ FreshAtStart /\ SentBehind /\ ReadBehind /\ RowsBehind
                 /\ PendingIsLocked /\ OnlyReadSays /\ DoneIsOver /\ CallsAreDue /\ RepairsFollowRecord
                 /\ TextsIffExtracted /\ CompletedIsLedgered
=============================================================================
