----------------------------- MODULE ImportJob -----------------------------
(***************************************************************************)
(* One import job of the backend: its eight persisted steps, the          *)
(* candidates those steps propose, the reviewer's decisions on them, and   *)
(* the commit that turns an approved candidate into an asset.              *)
(*                                                                         *)
(* Every HTTP request runs on its own worker thread with its own ORM       *)
(* session (db.py), so a request is a process here: it reads rows, keeps   *)
(* what it read, and writes in several transactions.  The sessions are     *)
(* created with expire_on_commit=False, so a row a request still holds is  *)
(* never read again, and a flush writes only the attributes the request    *)
(* changed relative to what it read (operator Flush).                      *)
(***************************************************************************)
EXTENDS Naturals, FiniteSets

CONSTANTS Sessions,      \* requests that may be in flight
          Candidates,    \* candidate rows the job may ever have (bound)
          None,          \* no candidate
          MaxAssets,     \* bound: assets made from one candidate
          Serialized,    \* TRUE: a request on the job starts when no other runs
          Crashes,       \* TRUE: a request may die between two transactions
          Failures       \* TRUE: a step may raise for reasons of its input

ASSUME ConstantsAssumption ==
  /\ None \notin Candidates
  /\ MaxAssets \in Nat \ {0}
  /\ Serialized \in BOOLEAN /\ Crashes \in BOOLEAN /\ Failures \in BOOLEAN

VARIABLES job,           \* job.state
          step,          \* job_step.state, by position in STEP_NAMES
          review,        \* output_refs of the AWAITING_REVIEW step
          commit,        \* output_refs of the COMMITTING step
          cand,          \* candidate.state; "absent": no such row
          kind,          \* proposal kind dedup gave the candidate
          multi,         \* candidates whose extraction lists several items
          first,         \* the job's oldest candidate row
          tasks,         \* types of the open review tasks on each candidate
          made,          \* number of assets made from each candidate
          assetTask,     \* assets with an open date task
          sess,          \* what each request is doing and what it has read
          mishap         \* history: a request has died or a step has raised

rows == <<job, step, review, commit, cand, kind, multi, first, tasks, made, assetTask>>
vars == <<job, step, review, commit, cand, kind, multi, first, tasks, made, assetTask, sess,
          mishap>>

-----------------------------------------------------------------------------
STEP_NAMES == << "VALIDATING_INPUT", "NORMALIZING", "EXTRACTING_DETERMINISTIC_SIGNALS",
                 "ANALYZING_WITH_AI", "BUILDING_CANDIDATES", "DEDUPLICATING",
                 "AWAITING_REVIEW", "COMMITTING" >>
Steps == 1..8
BuildStep  == 5
DedupStep  == 6
ReviewStep == 7
CommitStep == 8

\* CANCELLED is tested by run_job but no code assigns it.
JobState  == {"CREATED", "RUNNING", "AWAITING_REVIEW", "COMPLETED", "FAILED", "RETRYING"}
Settled   == {"AWAITING_REVIEW", "COMPLETED", "FAILED"}
StepState == {"PENDING", "RUNNING", "COMPLETED", "FAILED", "RETRYING", "AWAITING_REVIEW"}

CandidateState == {"absent", "proposed", "accepted", "edited", "held",
                   "rejected", "split", "merged"}
Closed   == {"rejected", "split", "merged"}
Approved == {"accepted", "edited"}

TaskType == {"multi_item", "identifier_collision", "date"}
\* CANDIDATE_DECISION_EXEMPT_TASK_TYPES: the date task does not block.
Blocking(c) == tasks[c] \ {"date"}

\* The catalogue asset a duplicate points at, and the n-th asset made from c.
Catalogued == <<None, 0>>
Assets == {Catalogued} \cup (Candidates \X (1..MaxAssets))

\* The review step's output: the decided candidate and the committed_assets map.
ReviewOut == [decided : Candidates \cup {None}, committed : [Candidates -> 0..MaxAssets]]
NoReview  == [decided |-> None, committed |-> [c \in Candidates |-> 0]]
\* The commit step's output, as far as _created_asset_from_commit_step reads it.
CommitOut == [cand : Candidates \cup {None}, asset : 0..MaxAssets]
NoCommit  == [cand |-> None, asset |-> 0]

\* A flush writes an attribute only when it differs from the value that was read.
Flush(read, new, current) == IF new = read THEN current ELSE new

Pc == {"idle", "decide", "prepare", "reset", "retry", "enter", "load", "loop", "exec"}
Op == {"none", "accept", "edit", "hold", "reject", "split", "merge", "run", "retry"}
Session == [pc : Pc, op : Op, cand : Candidates \cup {None}, losers : SUBSET Candidates,
            seen : CandidateState, job : JobState, step : [Steps -> StepState],
            review : ReviewOut, commit : CommitOut, pos : 1..9]
Idle == [pc |-> "idle", op |-> "none", cand |-> None, losers |-> {}, seen |-> "absent",
         job |-> "CREATED", step |-> [i \in Steps |-> "PENDING"],
         review |-> NoReview, commit |-> NoCommit, pos |-> 1]

At(s, pc) == sess[s].pc = pc
AllIdle == \A t \in Sessions : At(t, "idle")
Quiet == Serialized => AllIdle
Becomes(s, r) == sess' = [sess EXCEPT ![s] = r]
End(s) == Becomes(s, Idle)

\* create_job: the row, its eight PENDING steps, one commit.
Init == /\ job = "CREATED"
        /\ step = [i \in Steps |-> "PENDING"]
        /\ review = NoReview
        /\ commit = NoCommit
        /\ cand = [c \in Candidates |-> "absent"]
        /\ kind = [c \in Candidates |-> "new"]
        /\ multi = {}
        /\ first = None
        /\ tasks = [c \in Candidates |-> {}]
        /\ made = [c \in Candidates |-> 0]
        /\ assetTask = {}
        /\ sess = [s \in Sessions |-> Idle]
        /\ mishap = FALSE

-----------------------------------------------------------------------------
(* Requests on a candidate: read and check, then write.                    *)

\* Mutant: the candidate is not tested for a final state.
Exists(c) == cand[c] # "absent"

\* A candidate the reviewer may still decide on.
Decidable(c) == cand[c] \notin Closed \cup {"absent"}

\* decide_candidate up to its checks; accept and edit refuse open blocking tasks.
BeginDecision(s, c, op) ==
  /\ At(s, "idle") /\ Quiet
  /\ op \in {"accept", "edit", "hold", "reject"}
  /\ Decidable(c)
  /\ op \in {"accept", "edit"} => Blocking(c) = {}
  /\ Becomes(s, [Idle EXCEPT !.pc = "decide", !.op = op,
                          !.cand = c, !.seen = cand[c]])
  /\ UNCHANGED rows

\* Mutant: the operation's name is stored where its state belongs.
DecisionByName(op) == op

Decision(op) == CASE op = "accept" -> "accepted" [] op = "edit"   -> "edited"
                  [] op = "hold"   -> "held"     [] op = "reject" -> "rejected"

\* First transaction of accept and edit: the decision alone.
RecordDecision(s) ==
  LET me == sess[s] IN
  /\ me.pc = "decide" /\ me.op \in {"accept", "edit"}
  /\ cand' = [cand EXCEPT ![me.cand] = Flush(me.seen, Decision(me.op), @)]
  /\ Becomes(s, [sess[s] EXCEPT !.pc = "prepare", !.seen = Decision(me.op)])
  /\ UNCHANGED <<job, step, review, commit, kind, multi, first, tasks, made, assetTask>>

\* Hold and reject are one transaction; a rejection closes every open task.
HoldOrReject(s) ==
  LET me == sess[s] IN
  /\ me.pc = "decide" /\ me.op \in {"hold", "reject"}
  /\ cand' = [cand EXCEPT ![me.cand] = Flush(me.seen, Decision(me.op), @)]
  /\ tasks' = IF me.op = "reject" THEN [tasks EXCEPT ![me.cand] = {}] ELSE tasks
  /\ End(s)
  /\ UNCHANGED <<job, step, review, commit, kind, multi, first, made, assetTask>>

\* _prepare_commit_steps, reads: the job and its review and commit steps.
ReadJob(s) ==
  /\ At(s, "prepare")
  /\ Becomes(s, [sess[s] EXCEPT !.pc = "reset", !.job = job, !.step = step,
                          !.review = review, !.commit = commit])
  /\ UNCHANGED rows

\* Mutant: the reset of the review step drops the committed_assets map.
DroppedMap(me) == NoReview.committed

\* The map the decision carries over: the review step's, and the asset an
\* earlier commit of this candidate left only in the commit step's output.
CarriedMap(me) ==
  IF me.commit.cand = me.cand /\ me.commit.asset # 0
  THEN [me.review.committed EXCEPT ![me.cand] = me.commit.asset]
  ELSE me.review.committed

\* Mutant: the commit step keeps the state of its last pass.
PrepareReviewOnly(s) ==
  LET me == sess[s] IN
  /\ me.pc = "reset"
  /\ step' = [step EXCEPT ![ReviewStep] = Flush(me.step[ReviewStep], "COMPLETED", @)]
  /\ review' = Flush(me.review, [decided |-> me.cand, committed |-> CarriedMap(me)], review)
  /\ commit' = Flush(me.commit, NoCommit, commit)
  /\ job' = Flush(me.job, "RUNNING", job)
  /\ Becomes(s, [sess[s] EXCEPT !.pc = "load", !.job = "RUNNING"])
  /\ UNCHANGED <<cand, kind, multi, first, tasks, made, assetTask>>

\* Second transaction of accept and edit: the review step names the decided
\* candidate, the commit step gets a fresh pass, the job is RUNNING.
PrepareCommit(s) ==
  LET me == sess[s] IN
  /\ me.pc = "reset"
  /\ step' = [step EXCEPT ![ReviewStep] = Flush(me.step[ReviewStep], "COMPLETED", @),
                          ![CommitStep] = Flush(me.step[CommitStep], "PENDING", @)]
  /\ review' = Flush(me.review, [decided |-> me.cand, committed |-> CarriedMap(me)], review)
  /\ commit' = Flush(me.commit, NoCommit, commit)
  /\ job' = Flush(me.job, "RUNNING", job)
  /\ Becomes(s, [sess[s] EXCEPT !.pc = "load", !.job = "RUNNING"])
  /\ UNCHANGED <<cand, kind, multi, first, tasks, made, assetTask>>

\* Mutant: a candidate may be split after it was approved.
SplittableOpen(c) == Decidable(c) /\ c \in multi

\* Only an undecided candidate with several extracted items is split.
Splittable(c) == cand[c] = "proposed" /\ c \in multi

\* split_candidate up to its checks.
BeginSplit(s, c) ==
  /\ At(s, "idle") /\ Quiet
  /\ Splittable(c)
  /\ Becomes(s, [Idle EXCEPT !.pc = "decide", !.op = "split",
                          !.cand = c, !.seen = cand[c]])
  /\ UNCHANGED rows

\* One proposed child per item, some with their own date task; the origin's
\* multi-item and date tasks are resolved.  One transaction.
SplitCandidate(s, kids, undated) ==
  LET me == sess[s] IN
  /\ me.pc = "decide" /\ me.op = "split"
  /\ Cardinality(kids) >= 2 /\ undated \subseteq kids
  /\ \A k \in kids : cand[k] = "absent"
  /\ cand' = [x \in Candidates |-> IF x = me.cand THEN "split"
                                   ELSE IF x \in kids THEN "proposed" ELSE cand[x]]
  /\ tasks' = [x \in Candidates |->
                 IF x = me.cand THEN tasks[x] \ {"multi_item", "date"}
                 ELSE IF x \in undated THEN {"date"} ELSE tasks[x]]
  /\ End(s)
  /\ UNCHANGED <<job, step, review, commit, kind, multi, first, made, assetTask>>

\* merge_candidates up to its checks.
BeginMerge(s, winner, losers) ==
  /\ At(s, "idle") /\ Quiet
  /\ losers # {} /\ winner \notin losers
  /\ \A x \in losers \cup {winner} : cand[x] = "proposed"
  /\ \A x \in losers : tasks[x] \subseteq {"identifier_collision"}
  /\ Becomes(s, [Idle EXCEPT !.pc = "decide", !.op = "merge",
                          !.cand = winner, !.losers = losers, !.seen = "proposed"])
  /\ UNCHANGED rows

\* The losers leave the review; the winner's state is not written.
MergeCandidates(s) ==
  LET me == sess[s] IN
  /\ me.pc = "decide" /\ me.op = "merge"
  /\ cand' = [x \in Candidates |-> IF x \in me.losers THEN "merged" ELSE cand[x]]
  /\ tasks' = [x \in Candidates |->
                 IF x \in me.losers THEN tasks[x] \ {"identifier_collision"} ELSE tasks[x]]
  /\ End(s)
  /\ UNCHANGED <<job, step, review, commit, kind, multi, first, made, assetTask>>

\* resolve_review_task: one short transaction, for a task on a candidate or on
\* an asset (a date task accepts any non-empty payload).
ResolveTask ==
  /\ Quiet
  /\ \/ \E c \in Candidates : \E t \in tasks[c] :
           /\ tasks' = [tasks EXCEPT ![c] = @ \ {t}]
           /\ UNCHANGED assetTask
     \/ \E a \in assetTask :
           /\ assetTask' = assetTask \ {a}
           /\ UNCHANGED tasks
  /\ UNCHANGED <<job, step, review, commit, cand, kind, multi, first, made, sess>>

-----------------------------------------------------------------------------
(* Requests on the job.                                                    *)

\* POST /imports/{id}/run, and /retry on a job that is not FAILED.  On a
\* settled job run_job returns at once: no step here.
RunRequest(s) ==
  /\ At(s, "idle") /\ Quiet
  /\ job \notin Settled
  /\ Becomes(s, [Idle EXCEPT !.pc = "enter", !.op = "run", !.job = job])
  /\ UNCHANGED rows

RetryRequest(s) ==
  /\ At(s, "idle") /\ Quiet
  /\ job = "FAILED"
  /\ Becomes(s, [Idle EXCEPT !.pc = "retry", !.op = "retry", !.job = job])
  /\ UNCHANGED rows

\* Mutant: a retry starts the job over instead of its failed steps.
AnyStep == Steps

\* The steps a retry resets.
FailedSteps == {i \in Steps : step[i] = "FAILED"}

\* retry_job: job and failed steps become RETRYING in one transaction.
RetryJob(s) ==
  /\ At(s, "retry") /\ FailedSteps # {}
  /\ job' = "RETRYING"
  /\ step' = [i \in Steps |-> IF i \in FailedSteps THEN "RETRYING" ELSE step[i]]
  /\ review' = IF ReviewStep \in FailedSteps THEN NoReview ELSE review
  /\ commit' = IF CommitStep \in FailedSteps THEN NoCommit ELSE commit
  /\ Becomes(s, [sess[s] EXCEPT !.pc = "enter", !.job = "RETRYING"])
  /\ UNCHANGED <<cand, kind, multi, first, tasks, made, assetTask>>

\* With no FAILED step the retry falls through to run_job, which returns.
RetryNothing(s) ==
  /\ At(s, "retry") /\ FailedSteps = {}
  /\ End(s)
  /\ UNCHANGED rows

\* run_job's entry: CREATED and RETRYING become RUNNING in a transaction.
EnterRun(s) ==
  /\ At(s, "enter")
  /\ job' = Flush(sess[s].job, "RUNNING", job)
  /\ Becomes(s, [sess[s] EXCEPT !.pc = "load", !.job = "RUNNING"])
  /\ UNCHANGED <<step, review, commit, cand, kind, multi, first, tasks, made, assetTask>>

\* The loop's snapshot: all step rows are read once and held to the end.
LoadSteps(s) ==
  /\ At(s, "load")
  /\ Becomes(s, [sess[s] EXCEPT !.pc = "loop", !.pos = 1,
                          !.step = step, !.review = review])
  /\ UNCHANGED rows

\* Mutant: the loop passes over FAILED steps as it does over COMPLETED ones.
ReachesUnfailed(s, i) ==
  /\ At(s, "loop")
  /\ i >= sess[s].pos
  /\ sess[s].step[i] \notin {"COMPLETED", "RETRYING"}
  /\ \A j \in Steps : j >= sess[s].pos /\ j < i =>
        sess[s].step[j] \in {"COMPLETED", "RETRYING"}

\* The next step of the snapshot that is not COMPLETED.
Reaches(s, i) ==
  /\ At(s, "loop")
  /\ i >= sess[s].pos
  /\ sess[s].step[i] # "COMPLETED"
  /\ \A j \in Steps : j >= sess[s].pos /\ j < i => sess[s].step[j] = "COMPLETED"

\* Start step i: RUNNING, attempts + 1, output cleared.
MarkStep(s, i) ==
  /\ Reaches(s, i) /\ sess[s].step[i] # "AWAITING_REVIEW"
  /\ step' = [step EXCEPT ![i] = Flush(sess[s].step[i], "RUNNING", @)]
  /\ review' = IF i = ReviewStep THEN NoReview ELSE review
  /\ commit' = IF i = CommitStep THEN NoCommit ELSE commit
  /\ Becomes(s, [sess[s] EXCEPT !.pc = "exec", !.pos = i,
                          !.step = [sess[s].step EXCEPT ![i] = "RUNNING"],
                          !.review = IF i = ReviewStep THEN NoReview ELSE sess[s].review])
  /\ UNCHANGED <<job, cand, kind, multi, first, tasks, made, assetTask>>

\* A job whose review step still waits goes back to AWAITING_REVIEW.
ParkAtReview(s, i) ==
  /\ Reaches(s, i) /\ sess[s].step[i] = "AWAITING_REVIEW"
  /\ job' = Flush(sess[s].job, "AWAITING_REVIEW", job)
  /\ End(s)
  /\ UNCHANGED <<step, review, commit, cand, kind, multi, first, tasks, made, assetTask>>

\* Every step of the snapshot was COMPLETED: the loop ends, nothing is written.
FinishRun(s) ==
  /\ At(s, "loop")
  /\ \A j \in Steps : j >= sess[s].pos => sess[s].step[j] = "COMPLETED"
  /\ End(s)
  /\ UNCHANGED rows

-----------------------------------------------------------------------------
(* execute_step and the transaction that records its outcome.              *)

Executes(s, i) == At(s, "exec") /\ sess[s].pos = i

Complete(s, i) ==
  /\ step' = [step EXCEPT ![i] = "COMPLETED"]
  /\ Becomes(s, [sess[s] EXCEPT !.pc = "loop", !.pos = i + 1,
                          !.step = [sess[s].step EXCEPT ![i] = "COMPLETED"]])

\* Validation, normalising, signals and the AI call: no state of this module.
PlainStep(s, i) ==
  /\ i < BuildStep /\ Executes(s, i)
  /\ Complete(s, i)
  /\ UNCHANGED <<job, review, commit, cand, kind, multi, first, tasks, made, assetTask>>

NewCandidate(c) ==
  /\ cand[c] = "absent"
  /\ cand' = [cand EXCEPT ![c] = "proposed"]
  /\ first' = IF first = None THEN c ELSE first

\* build_candidates_step with AI output: a candidate, a multi-item task when
\* several items were extracted, a date task when evidence is needed.
BuildCandidate(s, c, opened) ==
  /\ Executes(s, BuildStep)
  /\ opened \subseteq {"multi_item", "date"}
  /\ NewCandidate(c)
  /\ multi' = IF "multi_item" \in opened THEN multi \cup {c} ELSE multi
  /\ tasks' = [tasks EXCEPT ![c] = opened]
  /\ Complete(s, BuildStep)
  /\ UNCHANGED <<job, review, commit, kind, made, assetTask>>

\* build_candidates_step after a skipped AI step.
SkipBuild(s) ==
  /\ Executes(s, BuildStep)
  /\ Complete(s, BuildStep)
  /\ UNCHANGED <<job, review, commit, cand, kind, multi, first, tasks, made, assetTask>>

\* Mutant: deduplication proposes its own candidate beside the AI's.
DeduplicateAfresh(s, c, k, opened) ==
  /\ Executes(s, DedupStep)
  /\ NewCandidate(c)
  /\ k \in {"new", "duplicate"} /\ opened \subseteq {"identifier_collision"}
  /\ kind' = [kind EXCEPT ![c] = k]
  /\ tasks' = [tasks EXCEPT ![c] = @ \cup opened]
  /\ Complete(s, DedupStep)
  /\ UNCHANGED <<job, review, commit, multi, made, assetTask>>

\* deduplicate_job: the kind is written into the job's first candidate, which
\* is created here when the AI built none; a collision opens a blocking task.
Deduplicate(s, c, k, opened) ==
  /\ Executes(s, DedupStep)
  /\ \/ first = None /\ NewCandidate(c)
     \/ first = c /\ UNCHANGED <<cand, first>>
  /\ k \in {"new", "duplicate"} /\ opened \subseteq {"identifier_collision"}
  /\ kind' = [kind EXCEPT ![c] = k]
  /\ tasks' = [tasks EXCEPT ![c] = @ \cup opened]
  /\ Complete(s, DedupStep)
  /\ UNCHANGED <<job, review, commit, multi, made, assetTask>>

\* Mutant: the review step waits but the job is not told.
AwaitSilently(s) ==
  /\ Executes(s, ReviewStep)
  /\ step' = [step EXCEPT ![ReviewStep] = "AWAITING_REVIEW"]
  /\ review' = NoReview
  /\ End(s)
  /\ UNCHANGED <<job, commit, cand, kind, multi, first, tasks, made, assetTask>>

\* The review step ends the run and hands the job to the reviewer.
AwaitReview(s) ==
  /\ Executes(s, ReviewStep)
  /\ step' = [step EXCEPT ![ReviewStep] = "AWAITING_REVIEW"]
  /\ review' = NoReview
  /\ job' = Flush(sess[s].job, "AWAITING_REVIEW", job)
  /\ End(s)
  /\ UNCHANGED <<commit, cand, kind, multi, first, tasks, made, assetTask>>

\* Mutant: the rollback loses the step's own failure.
RaiseJobOnly(s, i) ==
  /\ Executes(s, i)
  /\ job' = "FAILED"
  /\ End(s)
  /\ UNCHANGED <<step, review, commit, cand, kind, multi, first, tasks, made, assetTask>>

\* An exception: rollback, step and job FAILED, the run returns.
RaiseStep(s, i) ==
  /\ Executes(s, i)
  /\ step' = [step EXCEPT ![i] = "FAILED"]
  /\ review' = IF i = ReviewStep THEN NoReview ELSE review
  /\ commit' = IF i = CommitStep THEN NoCommit ELSE commit
  /\ job' = "FAILED"
  /\ End(s)
  /\ UNCHANGED <<cand, kind, multi, first, tasks, made, assetTask>>

\* What the commit acts on, from the snapshot of the review step: the decided
\* candidate, else the job's oldest; and its asset in the committed map.
CommitTarget(s) == IF sess[s].review.decided # None THEN sess[s].review.decided ELSE first
RecordedAsset(s) == sess[s].review.committed[CommitTarget(s)]

\* The candidate row this request decided is the one it holds; others are read.
StateSeen(s, c) == IF sess[s].op \in {"accept", "edit"} /\ sess[s].cand = c
                   THEN sess[s].seen ELSE cand[c]

Committable(s) == /\ CommitTarget(s) # None
                  /\ \/ RecordedAsset(s) # 0
                     \/ /\ StateSeen(s, CommitTarget(s)) \in Approved
                        /\ Blocking(CommitTarget(s)) = {}

\* Mutant: the date task stays on the candidate.
LeaveDateTask(c, a) == UNCHANGED <<tasks, assetTask>>
\* _close_candidate_task: the task is over, the asset gets none.
CloseDateTask(c, a) == tasks' = [tasks EXCEPT ![c] = @ \ {"date"}] /\ UNCHANGED assetTask

\* An open date task of the candidate goes to the asset it became.
MoveDateTask(c, a) ==
  /\ tasks' = [tasks EXCEPT ![c] = @ \ {"date"}]
  /\ assetTask' = IF "date" \in tasks[c] THEN assetTask \cup {a} ELSE assetTask

CommitDone(s) ==
  /\ step' = [step EXCEPT ![CommitStep] = "COMPLETED"]
  /\ job' = Flush(sess[s].job, "COMPLETED", job)
  /\ End(s)

\* A repeat decision: the recorded asset is returned and nothing is created.
ReturnRecorded(s) ==
  /\ Executes(s, CommitStep) /\ Committable(s) /\ RecordedAsset(s) # 0
  /\ commit' = [cand |-> CommitTarget(s), asset |-> 0]
  /\ CommitDone(s)
  /\ UNCHANGED <<review, cand, kind, multi, first, tasks, made, assetTask>>

\* A duplicate links to the catalogue asset; its date task is closed when that
\* asset is dated or already has one, and moved to it otherwise.
LinkDuplicate(s, dated) ==
  LET c == CommitTarget(s) IN
  /\ Executes(s, CommitStep) /\ Committable(s) /\ RecordedAsset(s) = 0
  /\ kind[c] = "duplicate"
  /\ IF dated THEN CloseDateTask(c, Catalogued) ELSE MoveDateTask(c, Catalogued)
  /\ commit' = [cand |-> c, asset |-> 0]
  /\ CommitDone(s)
  /\ UNCHANGED <<review, cand, kind, multi, first, made>>

\* The asset, its date task and the committed map, in one transaction.
CreateAsset(s) ==
  LET c == CommitTarget(s)
      n == made[c] + 1 IN
  /\ Executes(s, CommitStep) /\ Committable(s) /\ RecordedAsset(s) = 0
  /\ kind[c] = "new"
  /\ made[c] < MaxAssets
  /\ made' = [made EXCEPT ![c] = n]
  /\ MoveDateTask(c, <<c, n>>)
  /\ review' = [decided |-> sess[s].review.decided,
                committed |-> [sess[s].review.committed EXCEPT ![c] = n]]
  /\ commit' = [cand |-> c, asset |-> n]
  /\ CommitDone(s)
  /\ UNCHANGED <<cand, kind, multi, first>>

\* A commit without an approved candidate, or with a blocking task, is refused.
RefuseCommit(s) ==
  Executes(s, CommitStep) /\ ~Committable(s) /\ RaiseStep(s, CommitStep)

\* Steps that can raise on their input.
FailStep(s) == Failures /\ \E i \in Steps \ {1, 2, ReviewStep} : RaiseStep(s, i)

\* The request dies with its thread or its database lock: what it holds is
\* lost, what it committed stays.
Crash(s) == Crashes /\ sess[s].pc # "idle" /\ End(s) /\ UNCHANGED rows

-----------------------------------------------------------------------------
CandidateRequest(s) ==
  \E c \in Candidates :
     \/ \E op \in Op : BeginDecision(s, c, op)
     \/ BeginSplit(s, c)
     \/ \E losers \in SUBSET Candidates : BeginMerge(s, c, losers)

ReviewWrite(s) ==
  \/ RecordDecision(s) \/ HoldOrReject(s) \/ ReadJob(s) \/ PrepareCommit(s)
  \/ \E kids \in SUBSET Candidates : \E undated \in SUBSET kids :
        SplitCandidate(s, kids, undated)
  \/ MergeCandidates(s)

RunLoop(s) ==
  \/ RetryJob(s) \/ RetryNothing(s) \/ EnterRun(s) \/ LoadSteps(s) \/ FinishRun(s)
  \/ \E i \in Steps : MarkStep(s, i) \/ ParkAtReview(s, i) \/ PlainStep(s, i)

Execute(s) ==
  \/ SkipBuild(s) \/ AwaitReview(s) \/ RefuseCommit(s)
  \/ \E c \in Candidates :
        \/ \E opened \in SUBSET {"multi_item", "date"} : BuildCandidate(s, c, opened)
        \/ \E k \in {"new", "duplicate"} : \E opened \in SUBSET {"identifier_collision"} :
              Deduplicate(s, c, k, opened)
  \/ ReturnRecorded(s) \/ CreateAsset(s)
  \/ \E dated \in BOOLEAN : LinkDuplicate(s, dated)

\* What a request does once started.
Progress(s) == ReviewWrite(s) \/ RunLoop(s) \/ Execute(s)

Start(s) == CandidateRequest(s) \/ RunRequest(s) \/ RetryRequest(s)

\* Only a crash or a step that raises is a mishap.
Advance(s) == Progress(s) /\ UNCHANGED mishap

Next == \/ ResolveTask /\ UNCHANGED mishap
        \/ \E s \in Sessions : \/ Start(s) /\ UNCHANGED mishap
                               \/ Advance(s)
                               \/ (FailStep(s) \/ Crash(s)) /\ mishap' = TRUE

Spec == Init /\ [][Next]_vars

-----------------------------------------------------------------------------
(* Properties.                                                             *)

\* Type invariant of the job, its candidates and the requests on it.
TypeOK == /\ job \in JobState
          /\ step \in [Steps -> StepState]
          /\ review \in ReviewOut
          /\ commit \in CommitOut
          /\ cand \in [Candidates -> CandidateState]
          /\ kind \in [Candidates -> {"new", "duplicate"}]
          /\ multi \in SUBSET Candidates
          /\ first \in Candidates \cup {None}
          /\ tasks \in [Candidates -> SUBSET TaskType]
          /\ made \in [Candidates -> 0..MaxAssets]
          /\ assetTask \in SUBSET Assets
          /\ sess \in [Sessions -> Session]

\* Serialized requests really do not overlap.
OneRequest == \A s, t \in Sessions : ~At(s, "idle") /\ ~At(t, "idle") => s = t

\* The record that makes a repeat decision idempotent is exact: the
\* committed_assets map names the asset of every candidate that has one and of
\* no other, the commit step's own output never contradicts it, and the review
\* step that carries the map is COMPLETED, so that no run clears it.
CommitRecordExact ==
  /\ \A c \in Candidates : made[c] = review.committed[c] /\ made[c] <= 1
  /\ commit.asset # 0 => commit.cand \in Candidates /\ made[commit.cand] = commit.asset
  /\ (\E c \in Candidates : made[c] # 0) => step[ReviewStep] = "COMPLETED"

\* What a serialized request holds is what the database holds, and its loop is
\* past completed steps only.
SnapshotsCurrent == \A s \in Sessions :
  LET me == sess[s] IN
  /\ me.pc = "reset" => me.step = step /\ me.review = review /\ me.commit = commit
  /\ me.pc \in {"loop", "exec"} =>
        /\ me.step = step /\ me.review = review
        /\ \A j \in Steps : j < me.pos => step[j] = "COMPLETED"
  /\ me.pc = "exec" => me.pos \in Steps /\ step[me.pos] = "RUNNING"

\* The inductive invariant of serialized requests.
SerialInv == TypeOK /\ OneRequest /\ CommitRecordExact /\ SnapshotsCurrent

\* A repeat decision on a candidate is idempotent: however often it is
\* accepted, edited, retried or re-run, one candidate becomes one asset.
OneAssetPerCandidate == \A c \in Candidates : made[c] <= 1

\* An asset is never left behind by a candidate that was split or merged away,
\* nor made from one that was never decided.
AssetsHaveDecisions ==
  \A c \in Candidates : made[c] > 0 => cand[c] \notin {"absent", "proposed", "split", "merged"}

\* A COMPLETED job has every step COMPLETED, and the candidate its review step
\* names has its asset or its link: "COMPLETED" is never shown for less.
CompletedMeansCommitted ==
  job = "COMPLETED" =>
     /\ \A i \in Steps : step[i] = "COMPLETED"
     /\ review.decided # None
     /\ made[review.decided] = 1 \/ kind[review.decided] = "duplicate"

\* When no request is running, a FAILED job has a FAILED step, so that retry_job
\* has something to reset; without one the retry returns and the job is stuck.
FailedIsRetryable == AllIdle /\ job = "FAILED" => FailedSteps # {}

\* The date task follows the item: once the asset exists, no open date task is
\* left on the candidate, where nobody entering a date would find it.
DateTaskFollowsAsset ==
  \A c \in Candidates : made[c] > 0 => "date" \notin tasks[c]

\* Retries and crashes never propose the same import twice: a second candidate
\* row exists only after the first was split into it.
OneProposalPerImport ==
  (\E c \in Candidates : c # first /\ cand[c] # "absent") =>
     first # None /\ cand[first] = "split"

\* When no request is running, every approved candidate has become an asset or
\* was linked to one, unless there was a mishap: each accepted candidate got its
\* own commit pass.
ApprovedIsCommitted ==
  AllIdle /\ ~mishap => \A c \in Candidates :
                          cand[c] \in Approved => made[c] > 0 \/ kind[c] = "duplicate"

\* When no request is running, the job is not RUNNING, unless there was a mishap:
\* a request never returns without having brought the job to review, to
\* completion or to failure, where the reviewer can act on it.
NeverLeftRunning == AllIdle /\ ~mishap => job # "RUNNING"

\* A completed step other than the commit is never run again: a retry resumes
\* behind the work already done.
CompletedStepsStay ==
  [][\A i \in Steps \ {CommitStep} : step[i] = "COMPLETED" => step'[i] = "COMPLETED"]_vars

\* The candidates' life implements the contract of the review: the rows are the
\* contract's candidates, everything else of the job is hidden.
Contract == INSTANCE CandidateContract WITH Candidates <- Candidates, cand <- cand, made <- made
ImplementsContract == Contract!CSpec
=============================================================================
