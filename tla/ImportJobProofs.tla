--------------------------- MODULE ImportJobProofs ---------------------------
(* Proofs about ImportJob, for any sets of requests and candidates.           *)
EXTENDS ImportJob, TLAPS

USE DEF BuildStep, DedupStep, ReviewStep, CommitStep, MoveDateTask, CloseDateTask

(* Every reachable state of a job, its steps, candidates, tasks and requests   *)
(* is well typed, whether or not requests overlap, fail or crash.              *)
LEMMA InitType == Init => TypeOK
  BY ConstantsAssumption
  DEF Init, Steps, TypeOK, Idle, NoReview, NoCommit, ReviewOut, CommitOut, Session, Pc, Op,
      JobState, StepState, CandidateState

LEMMA IdleType == Idle \in Session
  BY ConstantsAssumption
  DEF Steps, Idle, NoReview, NoCommit, ReviewOut, CommitOut, Session, Pc, Op,
      JobState, StepState, CandidateState

\* A request stays a request when one of its fields takes a value of its type.
LEMMA SetField ==
  ASSUME NEW r \in Session
  PROVE  /\ \A v \in Pc : [r EXCEPT !.pc = v] \in Session
         /\ \A v \in Op : [r EXCEPT !.op = v] \in Session
         /\ \A v \in Candidates : [r EXCEPT !.cand = v] \in Session
         /\ \A v \in SUBSET Candidates : [r EXCEPT !.losers = v] \in Session
         /\ \A v \in CandidateState : [r EXCEPT !.seen = v] \in Session
         /\ \A v \in JobState : [r EXCEPT !.job = v] \in Session
         /\ \A v \in [Steps -> StepState] : [r EXCEPT !.step = v] \in Session
         /\ \A v \in ReviewOut : [r EXCEPT !.review = v] \in Session
         /\ \A v \in CommitOut : [r EXCEPT !.commit = v] \in Session
         /\ \A v \in 1..9 : [r EXCEPT !.pos = v] \in Session
  BY DEF Session

LEMMA BecomesType ==
  ASSUME TypeOK, NEW s \in Sessions, NEW r \in Session, Becomes(s, r)
  PROVE  sess' \in [Sessions -> Session]
  BY DEF TypeOK, Becomes

LEMMA CompleteType ==
  ASSUME TypeOK, NEW s \in Sessions, NEW i \in Steps, Complete(s, i)
  PROVE  step' \in [Steps -> StepState] /\ sess' \in [Sessions -> Session]
  <1> DEFINE st == [sess[s].step EXCEPT ![i] = "COMPLETED"]
             r == [sess[s] EXCEPT !.pc = "loop", !.pos = i + 1, !.step = st]
  <1>1. sess[s] \in Session
    BY DEF TypeOK
  <1>2. st \in [Steps -> StepState]
    BY <1>1 DEF Session, StepState
  <1>3. i + 1 \in 1..9 /\ "loop" \in Pc
    BY DEF Steps, Pc
  <1>4. r \in Session
    <2> HIDE DEF st
    <2> QED BY <1>1, <1>2, <1>3, SetField
  <1>5. step' \in [Steps -> StepState]
    BY DEF Complete, TypeOK, StepState
  <1>6. Becomes(s, r)
    BY DEF Complete
  <1> HIDE DEF r
  <1> QED BY <1>4, <1>5, <1>6, BecomesType

LEMMA NextType == TypeOK /\ [Next]_vars => TypeOK'
  <1> SUFFICES ASSUME TypeOK, [Next]_vars PROVE TypeOK'
    OBVIOUS
  <1> USE ConstantsAssumption, IdleType
  <1>a. NoCommit \in CommitOut /\ NoReview \in ReviewOut
    BY DEF NoCommit, CommitOut, NoReview, ReviewOut
  <1>b. \A s \in Sessions : sess[s] \in Session
    BY DEF TypeOK
  <1>c. \A s \in Sessions : End(s) => sess' \in [Sessions -> Session]
    BY BecomesType DEF End
  <1>1. CASE ResolveTask
    BY <1>1 DEF ResolveTask, TypeOK
  <1>2. ASSUME NEW s \in Sessions, CandidateRequest(s) PROVE TypeOK'
    <2> {"decide"} \subseteq Pc /\ {"split", "merge"} \subseteq Op /\ "proposed" \in CandidateState
      BY DEF Pc, Op, CandidateState
    <2>1. ASSUME NEW c \in Candidates, NEW op \in Op, BeginDecision(s, c, op) PROVE TypeOK'
      <3> DEFINE r == [Idle EXCEPT !.pc = "decide", !.op = op, !.cand = c, !.seen = cand[c]]
      <3>1. r \in Session
        BY SetField DEF TypeOK
      <3> HIDE DEF r
      <3>2. Becomes(s, r) /\ UNCHANGED rows
        BY <2>1 DEF BeginDecision, r
      <3> QED BY <3>1, <3>2, BecomesType DEF rows, TypeOK
    <2>2. ASSUME NEW c \in Candidates, BeginSplit(s, c) PROVE TypeOK'
      <3> DEFINE r == [Idle EXCEPT !.pc = "decide", !.op = "split", !.cand = c, !.seen = cand[c]]
      <3>1. r \in Session
        BY SetField DEF TypeOK
      <3> HIDE DEF r
      <3>2. Becomes(s, r) /\ UNCHANGED rows
        BY <2>2 DEF BeginSplit, r
      <3> QED BY <3>1, <3>2, BecomesType DEF rows, TypeOK
    <2>3. ASSUME NEW c \in Candidates, NEW losers \in SUBSET Candidates, BeginMerge(s, c, losers)
          PROVE TypeOK'
      <3> DEFINE r == [Idle EXCEPT !.pc = "decide", !.op = "merge", !.cand = c,
                                   !.losers = losers, !.seen = "proposed"]
      <3>1. r \in Session
        BY SetField
      <3> HIDE DEF r
      <3>2. Becomes(s, r) /\ UNCHANGED rows
        BY <2>3 DEF BeginMerge, r
      <3> QED BY <3>1, <3>2, BecomesType DEF rows, TypeOK
    <2> QED BY <1>2, <2>1, <2>2, <2>3 DEF CandidateRequest
  <1>3. ASSUME NEW s \in Sessions, RunRequest(s) \/ RetryRequest(s) PROVE TypeOK'
    <2>1. /\ [Idle EXCEPT !.pc = "enter", !.op = "run", !.job = job] \in Session
          /\ [Idle EXCEPT !.pc = "retry", !.op = "retry", !.job = job] \in Session
      BY DEF TypeOK, Session, Pc, Op
    <2>2. sess' \in [Sessions -> Session] /\ UNCHANGED rows
      BY <1>3, <2>1, BecomesType DEF RunRequest, RetryRequest
    <2> QED BY <2>2 DEF rows, TypeOK
  <1>4. ASSUME NEW s \in Sessions, ReviewWrite(s) PROVE TypeOK'
    <2> DEFINE me == sess[s]
    <2>0. me \in Session
      BY <1>b
    <2>1. CASE RecordDecision(s)
      <3>1. Decision(me.op) \in {"accepted", "edited"}
        BY <2>1 DEF RecordDecision, Decision
      <3> DEFINE r == [me EXCEPT !.pc = "prepare", !.seen = Decision(me.op)]
      <3>2. r \in Session
        BY <2>0, <3>1 DEF Session, Pc, CandidateState
      <3>3. cand' \in [Candidates -> CandidateState]
        BY <2>1, <3>1 DEF RecordDecision, Flush, TypeOK, CandidateState
      <3> HIDE DEF r
      <3>4. Becomes(s, r) /\ UNCHANGED <<job, step, review, commit, kind, multi, first,
                                         tasks, made, assetTask>>
        BY <2>1 DEF RecordDecision, r
      <3> QED BY <3>2, <3>3, <3>4, BecomesType DEF TypeOK
    <2>2. CASE HoldOrReject(s)
      <3>1. Decision(me.op) \in {"held", "rejected"}
        BY <2>2 DEF HoldOrReject, Decision
      <3> QED BY <1>c, <2>2, <3>1 DEF HoldOrReject, Flush, TypeOK, CandidateState
    <2>3. CASE ReadJob(s)
      <3> DEFINE r == [me EXCEPT !.pc = "reset", !.job = job, !.step = step,
                                 !.review = review, !.commit = commit]
      <3>1. r \in Session
        <4>1. "reset" \in Pc
          BY DEF Pc
        <4> QED BY <2>0, <4>1, SetField DEF TypeOK
      <3> HIDE DEF r
      <3>2. Becomes(s, r) /\ UNCHANGED rows
        BY <2>3 DEF ReadJob, r
      <3> QED BY <3>1, <3>2, BecomesType DEF rows, TypeOK
    <2>4. CASE PrepareCommit(s)
      <3>1. CarriedMap(me) \in [Candidates -> 0..MaxAssets]
        BY <2>0 DEF CarriedMap, Session, ReviewOut, CommitOut
      <3>2. review' \in ReviewOut
        BY <2>0, <2>4, <3>1 DEF PrepareCommit, Flush, TypeOK, ReviewOut, Session
      <3> DEFINE r == [me EXCEPT !.pc = "load", !.job = "RUNNING"]
      <3>3. r \in Session
        <4>1. "load" \in Pc /\ "RUNNING" \in JobState
          BY DEF Pc, JobState
        <4> QED BY <2>0, <4>1, SetField
      <3>4. step' \in [Steps -> StepState] /\ commit' \in CommitOut /\ job' \in JobState
        BY <1>a, <2>4 DEF PrepareCommit, Flush, TypeOK, JobState, StepState
      <3> HIDE DEF r
      <3>5. Becomes(s, r) /\ UNCHANGED <<cand, kind, multi, first, tasks, made, assetTask>>
        BY <2>4 DEF PrepareCommit, r
      <3> QED BY <3>2, <3>3, <3>4, <3>5, BecomesType DEF TypeOK
    <2>5. ASSUME NEW kids \in SUBSET Candidates, NEW undated \in SUBSET kids,
                 SplitCandidate(s, kids, undated)
          PROVE TypeOK'
      BY <1>c, <2>5 DEF SplitCandidate, TypeOK, CandidateState, TaskType
    <2>6. CASE MergeCandidates(s)
      BY <1>c, <2>6 DEF MergeCandidates, TypeOK, CandidateState
    <2> QED BY <1>4, <2>1, <2>2, <2>3, <2>4, <2>5, <2>6 DEF ReviewWrite
  <1>5. ASSUME NEW s \in Sessions, RunLoop(s) PROVE TypeOK'
    <2> DEFINE me == sess[s]
    <2>0. me \in Session
      BY <1>b
    <2> {"enter", "load", "loop", "exec"} \subseteq Pc
      BY DEF Pc
    <2> {"RUNNING", "RETRYING"} \subseteq JobState
      BY DEF JobState
    <2>1. CASE RetryJob(s)
      <3> DEFINE r == [me EXCEPT !.pc = "enter", !.job = "RETRYING"]
      <3>1. r \in Session
        BY <2>0, SetField
      <3> HIDE DEF r
      <3>2. Becomes(s, r)
        BY <2>1 DEF RetryJob, r
      <3> QED BY <1>a, <2>1, <3>1, <3>2, BecomesType DEF RetryJob, TypeOK, StepState
    <2>2. CASE RetryNothing(s) \/ FinishRun(s)
      BY <1>c, <2>2 DEF RetryNothing, FinishRun, rows, TypeOK
    <2>3. CASE EnterRun(s)
      <3> DEFINE r == [me EXCEPT !.pc = "load", !.job = "RUNNING"]
      <3>1. r \in Session
        BY <2>0, SetField
      <3> HIDE DEF r
      <3>2. Becomes(s, r)
        BY <2>3 DEF EnterRun, r
      <3> QED BY <2>3, <3>1, <3>2, BecomesType DEF EnterRun, Flush, TypeOK
    <2>4. CASE LoadSteps(s)
      <3> DEFINE r == [me EXCEPT !.pc = "loop", !.pos = 1, !.step = step, !.review = review]
      <3>1. r \in Session
        <4>1. step \in [Steps -> StepState] /\ review \in ReviewOut /\ 1 \in 1..9
          BY DEF TypeOK
        <4>2. [me EXCEPT !.pc = "loop"] \in Session
          BY <2>0, SetField
        <4>3. [me EXCEPT !.pc = "loop", !.pos = 1] \in Session
          BY <4>1, <4>2, SetField
        <4>4. [me EXCEPT !.pc = "loop", !.pos = 1, !.step = step] \in Session
          BY <4>1, <4>3, SetField
        <4> QED BY <4>1, <4>4, SetField
      <3> HIDE DEF r
      <3>2. Becomes(s, r) /\ UNCHANGED rows
        BY <2>4 DEF LoadSteps, r
      <3> QED BY <3>1, <3>2, BecomesType DEF rows, TypeOK
    <2>5. ASSUME NEW i \in Steps, MarkStep(s, i) PROVE TypeOK'
      <3> DEFINE st == [me.step EXCEPT ![i] = "RUNNING"]
                 rv == IF i = ReviewStep THEN NoReview ELSE me.review
                 r  == [me EXCEPT !.pc = "exec", !.pos = i, !.step = st, !.review = rv]
      <3>1. st \in [Steps -> StepState] /\ rv \in ReviewOut
        BY <1>a, <2>0 DEF Session, StepState
      <3>2. i \in 1..9
        BY DEF Steps
      <3>3. r \in Session
        <4> HIDE DEF st, rv
        <4> QED BY <2>0, <3>1, <3>2, SetField
      <3>4. Becomes(s, r)
        BY <2>5 DEF MarkStep
      <3>5. step' \in [Steps -> StepState] /\ review' \in ReviewOut /\ commit' \in CommitOut
        BY <1>a, <2>5 DEF MarkStep, Flush, TypeOK, StepState
      <3> HIDE DEF r
      <3> QED BY <2>5, <3>3, <3>4, <3>5, BecomesType DEF MarkStep, TypeOK
    <2>6. ASSUME NEW i \in Steps, ParkAtReview(s, i) PROVE TypeOK'
      BY <1>c, <2>6 DEF ParkAtReview, Flush, TypeOK, JobState
    <2>7. ASSUME NEW i \in Steps, PlainStep(s, i) PROVE TypeOK'
      BY <2>7, CompleteType DEF PlainStep, TypeOK
    <2> QED BY <1>5, <2>1, <2>2, <2>3, <2>4, <2>5, <2>6, <2>7 DEF RunLoop
  <1>6. ASSUME NEW s \in Sessions, Execute(s) PROVE TypeOK'
    <2> DEFINE me == sess[s]
    <2>0. me \in Session
      BY <1>b
    <2>c. ASSUME CommitDone(s)
          PROVE /\ step' \in [Steps -> StepState] /\ job' \in JobState
                /\ sess' \in [Sessions -> Session]
      BY <1>c, <2>c DEF CommitDone, Flush, TypeOK, StepState, JobState
    <2>d. CommitTarget(s) \in Candidates \cup {None}
      BY <2>0 DEF CommitTarget, TypeOK, Session, ReviewOut
    <2>1. CASE SkipBuild(s)
      BY <2>1, CompleteType DEF Steps, SkipBuild, TypeOK
    <2>2. CASE AwaitReview(s)
      BY <1>a, <1>c, <2>2 DEF AwaitReview, Flush, TypeOK, StepState, JobState
    <2>3. ASSUME NEW i \in Steps, RaiseStep(s, i) PROVE TypeOK'
      BY <1>a, <1>c, <2>3 DEF RaiseStep, TypeOK, StepState, JobState
    <2>4. ASSUME NEW c \in Candidates, NEW opened \in SUBSET {"multi_item", "date"},
                 BuildCandidate(s, c, opened)
          PROVE TypeOK'
      <3>1. step' \in [Steps -> StepState] /\ sess' \in [Sessions -> Session]
        BY <2>4, CompleteType DEF BuildCandidate, Steps
      <3> QED BY <2>4, <3>1 DEF BuildCandidate, NewCandidate, TypeOK, CandidateState, TaskType
    <2>5. ASSUME NEW c \in Candidates, NEW k \in {"new", "duplicate"},
                 NEW opened \in SUBSET {"identifier_collision"}, Deduplicate(s, c, k, opened)
          PROVE TypeOK'
      <3>1. step' \in [Steps -> StepState] /\ sess' \in [Sessions -> Session]
        BY <2>5, CompleteType DEF Deduplicate, Steps
      <3>2. /\ cand' \in [Candidates -> CandidateState] /\ first' \in Candidates \cup {None}
            /\ tasks' \in [Candidates -> SUBSET TaskType]
        BY <2>5 DEF Deduplicate, NewCandidate, TypeOK, CandidateState, TaskType
      <3> QED BY <2>5, <3>1, <3>2 DEF Deduplicate, TypeOK
    <2>6. CASE ReturnRecorded(s)
      BY <2>6, <2>c, <2>d DEF ReturnRecorded, TypeOK, CommitOut
    <2>7. CASE CreateAsset(s)
      <3> DEFINE c == CommitTarget(s)
      <3>1. c \in Candidates
        BY <2>7, <2>d DEF CreateAsset, Committable
      <3>2. made[c] + 1 \in 1..MaxAssets
        BY <2>7, <3>1 DEF CreateAsset, TypeOK
      <3>3. review' \in ReviewOut
        BY <2>0, <2>7, <3>1, <3>2 DEF CreateAsset, Session, ReviewOut
      <3>4. commit' \in CommitOut
        BY <2>7, <3>1, <3>2 DEF CreateAsset, CommitOut
      <3>5. /\ made' \in [Candidates -> 0..MaxAssets]
            /\ tasks' \in [Candidates -> SUBSET TaskType]
            /\ assetTask' \in SUBSET Assets
        BY <2>7, <3>1, <3>2 DEF CreateAsset, TypeOK, Assets
      <3> QED
        BY <2>7, <2>c, <3>3, <3>4, <3>5 DEF CreateAsset, TypeOK
    <2>8. ASSUME NEW dated \in BOOLEAN, LinkDuplicate(s, dated) PROVE TypeOK'
      <3>1. CommitTarget(s) \in Candidates
        BY <2>8, <2>d DEF LinkDuplicate, Committable
      <3> QED
        BY <2>8, <2>c, <3>1 DEF LinkDuplicate, TypeOK, CommitOut, Assets, Catalogued
    <2>9. CASE RefuseCommit(s)
      BY <2>3, <2>9 DEF RefuseCommit, Steps
    <2> QED
      BY <1>6, <2>1, <2>2, <2>4, <2>5, <2>6, <2>7, <2>8, <2>9 DEF Execute
  <1>7. ASSUME NEW s \in Sessions, FailStep(s) \/ Crash(s) PROVE TypeOK'
    <2>1. ASSUME NEW i \in Steps, RaiseStep(s, i) PROVE TypeOK'
      BY <1>a, <1>c, <2>1 DEF RaiseStep, TypeOK, StepState, JobState
    <2>2. CASE FailStep(s)
      BY <2>1, <2>2 DEF FailStep
    <2>3. CASE Crash(s)
      BY <1>c, <2>3 DEF Crash, rows, TypeOK
    <2> QED BY <1>7, <2>2, <2>3
  <1>8. CASE UNCHANGED vars
    BY <1>8 DEF vars, TypeOK
  <1> QED
    BY <1>1, <1>2, <1>3, <1>4, <1>5, <1>6, <1>7, <1>8 DEF Next, Start, Advance, Progress

\* No run, retry, decision, split, merge or crash leaves a row or a request in
\* a state the code does not name (job_service.py, candidates.py).
THEOREM TypeCorrect == Spec => []TypeOK
  BY InitType, NextType, PTL DEF Spec

-----------------------------------------------------------------------------
(* Requests one at a time: the record of committed assets is exact.            *)

LEMMA InitSerial == Init => SerialInv
  <1> SUFFICES ASSUME Init PROVE SerialInv
    OBVIOUS
  <1>1. \A s \in Sessions : sess[s].pc = "idle"
    BY DEF Init, Idle
  <1>2. CommitRecordExact
    BY ConstantsAssumption DEF Init, CommitRecordExact, NoReview, NoCommit
  <1> QED
    BY <1>1, <1>2, InitType DEF SerialInv, OneRequest, SnapshotsCurrent, At

\* A request that starts finds every other one idle, so it runs alone.
LEMMA Alone ==
  ASSUME TypeOK, OneRequest, NEW s \in Sessions, NEW r, Becomes(s, r),
         ~At(s, "idle") \/ AllIdle
  PROVE  /\ OneRequest'
         /\ \A t \in Sessions \ {s} : sess'[t].pc = "idle"
         /\ sess'[s] = r
  <1>1. \A t \in Sessions \ {s} : sess[t].pc = "idle" /\ sess'[t] = sess[t]
    BY DEF TypeOK, OneRequest, AllIdle, At, Becomes
  <1>2. sess'[s] = r
    BY DEF TypeOK, Becomes
  <1> QED BY <1>1, <1>2 DEF OneRequest, At

\* With every other request idle, the snapshots that count are the one of s.
LEMMA OnlySnapshot ==
  ASSUME NEW s \in Sessions,
         \A t \in Sessions \ {s} : sess'[t].pc = "idle",
         /\ sess'[s].pc = "reset" => /\ sess'[s].step = step' /\ sess'[s].review = review'
                                     /\ sess'[s].commit = commit'
         /\ sess'[s].pc \in {"loop", "exec"} =>
              /\ sess'[s].step = step' /\ sess'[s].review = review'
              /\ \A j \in Steps : j < sess'[s].pos => step'[j] = "COMPLETED"
         /\ sess'[s].pc = "exec" => sess'[s].pos \in Steps /\ step'[sess'[s].pos] = "RUNNING"
  PROVE  SnapshotsCurrent'
  BY DEF SnapshotsCurrent

\* A request that ends has no snapshot left.
LEMMA EndSerial ==
  ASSUME TypeOK, OneRequest, NEW s \in Sessions, ~At(s, "idle"), End(s)
  PROVE  OneRequest' /\ SnapshotsCurrent'
  <1>1. sess'[s].pc = "idle"
    BY DEF TypeOK, End, Becomes, Idle
  <1>2. OneRequest' /\ \A t \in Sessions \ {s} : sess'[t].pc = "idle"
    BY Alone DEF End
  <1> QED BY <1>1, <1>2, OnlySnapshot

\* A step before the review that completes leaves the record alone.
LEMMA CompleteSerial ==
  ASSUME TypeOK, OneRequest, CommitRecordExact, SnapshotsCurrent,
         NEW s \in Sessions, NEW i \in Steps, i < ReviewStep, Executes(s, i), Complete(s, i),
         UNCHANGED <<review, commit, made>>
  PROVE  OneRequest' /\ CommitRecordExact' /\ SnapshotsCurrent'
  <1> DEFINE st == [sess[s].step EXCEPT ![i] = "COMPLETED"]
             r == [sess[s] EXCEPT !.pc = "loop", !.pos = i + 1, !.step = st]
  <1>1. /\ sess[s].step = step /\ sess[s].review = review
        /\ \A j \in Steps : j < i => step[j] = "COMPLETED"
    BY DEF Executes, At, SnapshotsCurrent
  <1>2. r.pc = "loop" /\ r.pos = i + 1 /\ r.step = st /\ r.review = sess[s].review
    <2> HIDE DEF st
    <2> QED BY DEF TypeOK, Session
  <1>3. Becomes(s, r) /\ ~At(s, "idle")
    BY DEF Complete, Executes, At
  <1>4. st = step' /\ review' = review
    BY <1>1 DEF Complete
  <1> HIDE DEF st, r
  <1>5. OneRequest' /\ (\A t \in Sessions \ {s} : sess'[t].pc = "idle") /\ sess'[s] = r
    BY <1>3, Alone
  <1>6. \A j \in Steps : j < i + 1 => step'[j] = "COMPLETED"
    BY <1>1 DEF Complete, TypeOK, Steps
  <1>7. CommitRecordExact'
    BY DEF Complete, CommitRecordExact, TypeOK, Steps
  <1> QED BY <1>1, <1>2, <1>4, <1>5, <1>6, <1>7, OnlySnapshot

LEMMA NextSerial == Serialized /\ SerialInv /\ [Next]_vars => SerialInv'
  <1> SUFFICES ASSUME Serialized, SerialInv, [Next]_vars PROVE SerialInv'
    OBVIOUS
  <1>t. TypeOK /\ TypeOK'
    BY NextType DEF SerialInv
  <1>o. OneRequest /\ CommitRecordExact /\ SnapshotsCurrent
    BY DEF SerialInv
  <1>r. ASSUME UNCHANGED <<step, review, commit, made>> PROVE CommitRecordExact'
    BY <1>o, <1>r DEF CommitRecordExact
  <1> SUFFICES OneRequest' /\ CommitRecordExact' /\ SnapshotsCurrent'
    BY <1>t DEF SerialInv
  <1>1. CASE ResolveTask
    BY <1>1, <1>o, <1>r DEF ResolveTask, OneRequest, SnapshotsCurrent, At
  <1>2. ASSUME NEW s \in Sessions, AllIdle, NEW r, Becomes(s, r), UNCHANGED rows,
               r.pc \in {"decide", "enter", "retry"}
        PROVE  OneRequest' /\ CommitRecordExact' /\ SnapshotsCurrent'
    <2>1. OneRequest' /\ \A t \in Sessions \ {s} : sess'[t].pc = "idle"
      BY <1>t, <1>o, <1>2, Alone
    <2>2. sess'[s].pc \in {"decide", "enter", "retry"}
      BY <1>t, <1>2 DEF TypeOK, Becomes
    <2>3. CommitRecordExact'
      BY <1>2, <1>r DEF rows
    <2> QED BY <2>1, <2>2, <2>3, OnlySnapshot
  <1>3. ASSUME NEW s \in Sessions, CandidateRequest(s)
        PROVE  OneRequest' /\ CommitRecordExact' /\ SnapshotsCurrent'
    <2>1. ASSUME NEW c \in Candidates, NEW op \in Op, BeginDecision(s, c, op)
          PROVE  OneRequest' /\ CommitRecordExact' /\ SnapshotsCurrent'
      <3> DEFINE r == [Idle EXCEPT !.pc = "decide", !.op = op, !.cand = c, !.seen = cand[c]]
      <3>1. r.pc = "decide"
        BY DEF Idle
      <3>2. AllIdle /\ Becomes(s, r) /\ UNCHANGED rows
        BY <2>1 DEF BeginDecision, Quiet
      <3> HIDE DEF r
      <3> QED BY <1>2, <3>1, <3>2
    <2>2. ASSUME NEW c \in Candidates, BeginSplit(s, c)
          PROVE  OneRequest' /\ CommitRecordExact' /\ SnapshotsCurrent'
      <3> DEFINE r == [Idle EXCEPT !.pc = "decide", !.op = "split", !.cand = c, !.seen = cand[c]]
      <3>1. r.pc = "decide"
        BY DEF Idle
      <3>2. AllIdle /\ Becomes(s, r) /\ UNCHANGED rows
        BY <2>2 DEF BeginSplit, Quiet
      <3> HIDE DEF r
      <3> QED BY <1>2, <3>1, <3>2
    <2>3. ASSUME NEW c \in Candidates, NEW losers \in SUBSET Candidates, BeginMerge(s, c, losers)
          PROVE  OneRequest' /\ CommitRecordExact' /\ SnapshotsCurrent'
      <3> DEFINE r == [Idle EXCEPT !.pc = "decide", !.op = "merge", !.cand = c,
                                   !.losers = losers, !.seen = "proposed"]
      <3>1. r.pc = "decide"
        BY DEF Idle
      <3>2. AllIdle /\ Becomes(s, r) /\ UNCHANGED rows
        BY <2>3 DEF BeginMerge, Quiet
      <3> HIDE DEF r
      <3> QED BY <1>2, <3>1, <3>2
    <2> QED BY <1>3, <2>1, <2>2, <2>3 DEF CandidateRequest
  <1>4. ASSUME NEW s \in Sessions, RunRequest(s) \/ RetryRequest(s)
        PROVE  OneRequest' /\ CommitRecordExact' /\ SnapshotsCurrent'
    <2> DEFINE r == [Idle EXCEPT !.pc = "enter", !.op = "run", !.job = job]
               q == [Idle EXCEPT !.pc = "retry", !.op = "retry", !.job = job]
    <2>1. r.pc = "enter" /\ q.pc = "retry"
      BY DEF Idle
    <2>2. AllIdle /\ (Becomes(s, r) \/ Becomes(s, q)) /\ UNCHANGED rows
      BY <1>4 DEF RunRequest, RetryRequest, Quiet
    <2> HIDE DEF r, q
    <2> QED BY <1>2, <2>1, <2>2
  <1>e. ASSUME NEW s \in Sessions, ~At(s, "idle"), End(s)
        PROVE  OneRequest' /\ SnapshotsCurrent'
    BY <1>t, <1>o, <1>e, EndSerial
  <1>s. \A s \in Sessions : sess[s] \in Session
    BY <1>t DEF TypeOK
  <1>5. ASSUME NEW s \in Sessions, ReviewWrite(s)
        PROVE  OneRequest' /\ CommitRecordExact' /\ SnapshotsCurrent'
    <2> DEFINE me == sess[s]
    <2>1. CASE RecordDecision(s)
      <3> DEFINE r == [me EXCEPT !.pc = "prepare", !.seen = Decision(me.op)]
      <3>1. r.pc = "prepare"
        BY <1>s DEF Session
      <3> HIDE DEF r
      <3>2. Becomes(s, r) /\ ~At(s, "idle")
        BY <2>1 DEF RecordDecision, r, At
      <3>3. OneRequest' /\ (\A x \in Sessions \ {s} : sess'[x].pc = "idle") /\ sess'[s] = r
        BY <1>t, <1>o, <3>2, Alone
      <3>4. CommitRecordExact'
        BY <1>r, <2>1 DEF RecordDecision
      <3> QED BY <3>1, <3>3, <3>4, OnlySnapshot
    <2>2. ASSUME End(s), ~At(s, "idle"), UNCHANGED <<step, review, commit, made>>
          PROVE  OneRequest' /\ CommitRecordExact' /\ SnapshotsCurrent'
      BY <1>e, <1>r, <2>2
    <2>3. CASE HoldOrReject(s)
      BY <2>2, <2>3 DEF HoldOrReject, At
    <2>4. ASSUME NEW kids \in SUBSET Candidates, NEW undated \in SUBSET kids,
                 SplitCandidate(s, kids, undated)
          PROVE  OneRequest' /\ CommitRecordExact' /\ SnapshotsCurrent'
      BY <2>2, <2>4 DEF SplitCandidate, At
    <2>5. CASE MergeCandidates(s)
      BY <2>2, <2>5 DEF MergeCandidates, At
    <2>6. CASE ReadJob(s)
      <3> DEFINE r == [me EXCEPT !.pc = "reset", !.job = job, !.step = step,
                                 !.review = review, !.commit = commit]
      <3>1. r.pc = "reset" /\ r.step = step /\ r.review = review /\ r.commit = commit
        BY <1>s DEF Session
      <3> HIDE DEF r
      <3>2. Becomes(s, r) /\ ~At(s, "idle")
        BY <2>6 DEF ReadJob, r, At
      <3>3. OneRequest' /\ (\A x \in Sessions \ {s} : sess'[x].pc = "idle") /\ sess'[s] = r
        BY <1>t, <1>o, <3>2, Alone
      <3>4. CommitRecordExact' /\ UNCHANGED <<step, review, commit>>
        BY <1>r, <2>6 DEF ReadJob, rows
      <3> QED BY <3>1, <3>3, <3>4, OnlySnapshot
    <2>7. CASE PrepareCommit(s)
      <3>1. me.step = step /\ me.review = review /\ me.commit = commit
        BY <1>o, <2>7 DEF PrepareCommit, SnapshotsCurrent
      <3>2. CarriedMap(me) = review.committed
        BY <1>t, <1>o, <3>1 DEF CarriedMap, CommitRecordExact, TypeOK, ReviewOut
      <3>3. review'.committed = review.committed
        BY <1>t, <2>7, <3>1, <3>2 DEF PrepareCommit, Flush, TypeOK, ReviewOut
      <3>4. step'[ReviewStep] = "COMPLETED"
        BY <1>t, <2>7, <3>1 DEF PrepareCommit, Flush, TypeOK, Steps
      <3>5. commit'.asset = 0 \/ commit' = commit
        BY <2>7 DEF PrepareCommit, Flush, NoCommit
      <3>6. CommitRecordExact'
        BY <1>o, <2>7, <3>3, <3>4, <3>5 DEF CommitRecordExact, PrepareCommit
      <3> DEFINE r == [me EXCEPT !.pc = "load", !.job = "RUNNING"]
      <3>7. r.pc = "load"
        BY <1>s DEF Session
      <3> HIDE DEF r
      <3>8. Becomes(s, r) /\ ~At(s, "idle")
        BY <2>7 DEF PrepareCommit, r, At
      <3>9. OneRequest' /\ (\A x \in Sessions \ {s} : sess'[x].pc = "idle") /\ sess'[s] = r
        BY <1>t, <1>o, <3>8, Alone
      <3> QED BY <3>6, <3>7, <3>9, OnlySnapshot
    <2> QED BY <1>5, <2>1, <2>3, <2>4, <2>5, <2>6, <2>7 DEF ReviewWrite
  <1>6. ASSUME NEW s \in Sessions, RunLoop(s)
        PROVE  OneRequest' /\ CommitRecordExact' /\ SnapshotsCurrent'
    <2> DEFINE me == sess[s]
    <2>1. CASE RetryJob(s)
      <3>1. \A i \in Steps : step[i] = "COMPLETED" => step'[i] = "COMPLETED"
        BY <2>1 DEF RetryJob, FailedSteps
      <3>2. ReviewStep \in FailedSteps => \A c \in Candidates : made[c] = 0
        BY <1>o DEF FailedSteps, CommitRecordExact
      <3>3. \A c \in Candidates : review'.committed[c] = made[c]
        BY <1>o, <2>1, <3>2 DEF RetryJob, NoReview, CommitRecordExact
      <3>4. commit'.asset = 0 \/ commit' = commit
        BY <2>1 DEF RetryJob, NoCommit
      <3>5. CommitRecordExact'
        BY <1>o, <2>1, <3>1, <3>3, <3>4 DEF CommitRecordExact, RetryJob, Steps
      <3> DEFINE r == [me EXCEPT !.pc = "enter", !.job = "RETRYING"]
      <3>6. r.pc = "enter"
        BY <1>s DEF Session
      <3> HIDE DEF r
      <3>7. Becomes(s, r) /\ ~At(s, "idle")
        BY <2>1 DEF RetryJob, r, At
      <3> QED BY <1>t, <1>o, <3>5, <3>6, <3>7, Alone, OnlySnapshot
    <2>2. CASE RetryNothing(s) \/ FinishRun(s)
      BY <1>e, <1>r, <2>2 DEF RetryNothing, FinishRun, rows, At
    <2>3. CASE EnterRun(s)
      <3> DEFINE r == [me EXCEPT !.pc = "load", !.job = "RUNNING"]
      <3>1. r.pc = "load"
        BY <1>s DEF Session
      <3> HIDE DEF r
      <3>2. Becomes(s, r) /\ ~At(s, "idle")
        BY <2>3 DEF EnterRun, r, At
      <3>3. CommitRecordExact'
        BY <1>r, <2>3 DEF EnterRun
      <3> QED BY <1>t, <1>o, <3>1, <3>2, <3>3, Alone, OnlySnapshot
    <2>4. CASE LoadSteps(s)
      <3> DEFINE r == [me EXCEPT !.pc = "loop", !.pos = 1, !.step = step, !.review = review]
      <3>1. r.pc = "loop" /\ r.pos = 1 /\ r.step = step /\ r.review = review
        BY <1>s DEF Session
      <3> HIDE DEF r
      <3>2. Becomes(s, r) /\ ~At(s, "idle")
        BY <2>4 DEF LoadSteps, r, At
      <3>3. CommitRecordExact' /\ UNCHANGED <<step, review>>
        BY <1>r, <2>4 DEF LoadSteps, rows
      <3>4. OneRequest' /\ (\A x \in Sessions \ {s} : sess'[x].pc = "idle") /\ sess'[s] = r
        BY <1>t, <1>o, <3>2, Alone
      <3>5. \A j \in Steps : ~(j < r.pos)
        BY <3>1 DEF Steps
      <3> QED BY <3>1, <3>3, <3>4, <3>5, OnlySnapshot
    <2>5. ASSUME NEW i \in Steps, MarkStep(s, i)
          PROVE  OneRequest' /\ CommitRecordExact' /\ SnapshotsCurrent'
      <3>1. /\ me.step = step /\ me.review = review /\ me.pos \in 1..9
            /\ \A j \in Steps : j < me.pos => step[j] = "COMPLETED"
        BY <1>o, <1>s, <2>5 DEF MarkStep, Reaches, At, SnapshotsCurrent, Session
      <3>2. /\ step[i] # "COMPLETED"
            /\ \A j \in Steps : j < i => step[j] = "COMPLETED"
        BY <2>5, <3>1 DEF MarkStep, Reaches, Steps
      <3>3. step' = [step EXCEPT ![i] = "RUNNING"]
        BY <1>t, <2>5, <3>1 DEF MarkStep, Flush, TypeOK
      <3>4. i = ReviewStep => \A c \in Candidates : made[c] = 0
        BY <1>o, <3>2 DEF CommitRecordExact
      <3>5. \A c \in Candidates : review'.committed[c] = made[c]
        BY <1>o, <2>5, <3>4 DEF MarkStep, NoReview, CommitRecordExact
      <3>6. commit'.asset = 0 \/ commit' = commit
        BY <2>5 DEF MarkStep, NoCommit
      <3>7. CommitRecordExact'
        BY <1>t, <1>o, <2>5, <3>3, <3>4, <3>5, <3>6
        DEF CommitRecordExact, MarkStep, TypeOK, Steps
      <3> DEFINE st == [me.step EXCEPT ![i] = "RUNNING"]
                 rv == IF i = ReviewStep THEN NoReview ELSE me.review
                 r  == [me EXCEPT !.pc = "exec", !.pos = i, !.step = st, !.review = rv]
      <3>8. r.pc = "exec" /\ r.pos = i /\ r.step = st /\ r.review = rv
        <4> HIDE DEF st, rv
        <4> QED BY <1>s DEF Session
      <3>9. Becomes(s, r) /\ ~At(s, "idle")
        BY <2>5 DEF MarkStep, Reaches, At
      <3>10. st = step' /\ rv = review'
        BY <2>5, <3>1, <3>3 DEF MarkStep
      <3> HIDE DEF st, rv, r
      <3>11. OneRequest' /\ (\A x \in Sessions \ {s} : sess'[x].pc = "idle") /\ sess'[s] = r
        BY <1>t, <1>o, <3>9, Alone
      <3>12. /\ step'[i] = "RUNNING"
             /\ \A j \in Steps : j < i => step'[j] = "COMPLETED"
        BY <1>t, <3>2, <3>3 DEF TypeOK, Steps
      <3> QED BY <3>7, <3>8, <3>10, <3>11, <3>12, OnlySnapshot
    <2>6. ASSUME NEW i \in Steps, ParkAtReview(s, i)
          PROVE  OneRequest' /\ CommitRecordExact' /\ SnapshotsCurrent'
      BY <1>e, <1>r, <2>6 DEF ParkAtReview, Reaches, At
    <2>7. ASSUME NEW i \in Steps, PlainStep(s, i)
          PROVE  OneRequest' /\ CommitRecordExact' /\ SnapshotsCurrent'
      <3>1. i < ReviewStep
        BY <2>7 DEF PlainStep, Steps
      <3>2. Executes(s, i) /\ Complete(s, i) /\ UNCHANGED <<review, commit, made>>
        BY <2>7 DEF PlainStep
      <3> QED BY <1>t, <1>o, <3>1, <3>2, CompleteSerial
    <2> QED BY <1>6, <2>1, <2>2, <2>3, <2>4, <2>5, <2>6, <2>7 DEF RunLoop
  <1>f. ASSUME NEW s \in Sessions, NEW i \in Steps \ {ReviewStep}, RaiseStep(s, i)
        PROVE  OneRequest' /\ CommitRecordExact' /\ SnapshotsCurrent'
    <2>1. step'[ReviewStep] = step[ReviewStep] /\ review' = review /\ made' = made
      BY <1>t, <1>f DEF RaiseStep, TypeOK, Steps
    <2>2. commit'.asset = 0 \/ commit' = commit
      BY <1>f DEF RaiseStep, NoCommit
    <2>3. CommitRecordExact'
      BY <1>o, <2>1, <2>2 DEF CommitRecordExact
    <2>4. ~At(s, "idle")
      BY <1>f DEF RaiseStep, Executes, At
    <2> QED BY <1>e, <1>f, <2>3, <2>4 DEF RaiseStep
  <1>7. ASSUME NEW s \in Sessions, Execute(s)
        PROVE  OneRequest' /\ CommitRecordExact' /\ SnapshotsCurrent'
    <2> DEFINE me == sess[s]
    <2>x. ASSUME NEW i \in Steps, Executes(s, i)
          PROVE  /\ ~At(s, "idle") /\ me.step = step /\ me.review = review
                 /\ step[i] = "RUNNING"
                 /\ \A j \in Steps : j < i => step[j] = "COMPLETED"
      BY <1>o, <2>x DEF Executes, At, SnapshotsCurrent
    <2>1. CASE SkipBuild(s)
      BY <1>t, <1>o, <2>1, CompleteSerial DEF SkipBuild, Steps
    <2>2. ASSUME NEW c \in Candidates, NEW opened \in SUBSET {"multi_item", "date"},
                 BuildCandidate(s, c, opened)
          PROVE  OneRequest' /\ CommitRecordExact' /\ SnapshotsCurrent'
      BY <1>t, <1>o, <2>2, CompleteSerial DEF BuildCandidate, Steps
    <2>3. ASSUME NEW c \in Candidates, NEW k \in {"new", "duplicate"},
                 NEW opened \in SUBSET {"identifier_collision"}, Deduplicate(s, c, k, opened)
          PROVE  OneRequest' /\ CommitRecordExact' /\ SnapshotsCurrent'
      BY <1>t, <1>o, <2>3, CompleteSerial DEF Deduplicate, Steps
    <2>4. CASE AwaitReview(s)
      <3>1. step[ReviewStep] = "RUNNING" /\ ~At(s, "idle")
        BY <2>4, <2>x DEF AwaitReview, Steps
      <3>2. \A c \in Candidates : made[c] = 0
        BY <1>o, <3>1 DEF CommitRecordExact
      <3>3. CommitRecordExact'
        BY <1>o, <2>4, <3>2 DEF CommitRecordExact, AwaitReview, NoReview
      <3> QED BY <1>e, <2>4, <3>1, <3>3 DEF AwaitReview
    <2>6. ASSUME CommitDone(s), Executes(s, CommitStep)
          PROVE  /\ OneRequest' /\ SnapshotsCurrent'
                 /\ step'[ReviewStep] = "COMPLETED"
      <3>1. step[ReviewStep] = "COMPLETED" /\ ~At(s, "idle")
        BY <2>6, <2>x DEF Steps
      <3> QED BY <1>t, <1>e, <2>6, <3>1 DEF CommitDone, TypeOK, Steps
    <2>7. CASE ReturnRecorded(s)
      BY <1>o, <2>6, <2>7 DEF ReturnRecorded, CommitRecordExact
    <2>8. ASSUME NEW dated \in BOOLEAN, LinkDuplicate(s, dated)
          PROVE  OneRequest' /\ CommitRecordExact' /\ SnapshotsCurrent'
      BY <1>o, <2>6, <2>8 DEF LinkDuplicate, CommitRecordExact
    <2>9. CASE CreateAsset(s)
      <3> DEFINE c == CommitTarget(s)
      <3>1. c \in Candidates
        BY <1>s, <1>t, <2>9
        DEF CreateAsset, Committable, CommitTarget, Session, ReviewOut, TypeOK
      <3>2. me.review = review /\ review.committed[c] = 0 /\ made[c] = 0
        BY <1>o, <2>9, <2>x, <3>1 DEF CreateAsset, RecordedAsset, CommitRecordExact, Steps
      <3>3. /\ made' = [made EXCEPT ![c] = 1]
            /\ review'.committed = [review.committed EXCEPT ![c] = 1]
            /\ commit' = [cand |-> c, asset |-> 1]
        BY <2>9, <3>2 DEF CreateAsset
      <3>4. CommitRecordExact'
        BY <1>o, <1>t, <2>6, <2>9, <3>1, <3>3
        DEF CreateAsset, CommitRecordExact, TypeOK, ReviewOut
      <3> QED BY <2>6, <2>9, <3>4 DEF CreateAsset
    <2>10. CASE RefuseCommit(s)
      BY <1>f, <2>10 DEF RefuseCommit, Steps
    <2> QED BY <1>7, <2>1, <2>2, <2>3, <2>4, <2>7, <2>8, <2>9, <2>10 DEF Execute
  <1>8. ASSUME NEW s \in Sessions, FailStep(s) \/ Crash(s)
        PROVE  OneRequest' /\ CommitRecordExact' /\ SnapshotsCurrent'
    <2>1. CASE FailStep(s)
      BY <1>f, <2>1 DEF FailStep
    <2>2. CASE Crash(s)
      BY <1>e, <1>r, <2>2 DEF Crash, rows, At
    <2> QED BY <1>8, <2>1, <2>2
  <1>9. CASE UNCHANGED vars
    BY <1>9, <1>o DEF vars, OneRequest, CommitRecordExact, SnapshotsCurrent, At
  <1> QED
    BY <1>1, <1>3, <1>4, <1>5, <1>6, <1>7, <1>8, <1>9 DEF Next, Start, Advance, Progress

THEOREM SerialInvariant == Serialized => (Spec => []SerialInv)
  <1> SUFFICES ASSUME Serialized PROVE Spec => []SerialInv
    OBVIOUS
  <1>1. Init => SerialInv
    BY InitSerial
  <1>2. SerialInv /\ [Next]_vars => SerialInv'
    BY NextSerial
  <1> QED BY <1>1, <1>2, PTL DEF Spec

\* When requests on a job arrive one at a time, no sequence of runs, retries,
\* repeat decisions, splits, failures and crashes makes two assets of one
\* candidate (the committed_assets map of api/v1/candidates.py).
THEOREM OneAsset == Serialized => (Spec => []OneAssetPerCandidate)
  <1>1. SerialInv => OneAssetPerCandidate
    BY DEF SerialInv, CommitRecordExact, OneAssetPerCandidate
  <1>2. Serialized => (Spec => []SerialInv)
    BY SerialInvariant
  <1> QED BY <1>1, <1>2, PTL

\* A step that completed keeps its state, the commit's apart.
LEMMA CompletedStays ==
  ASSUME SerialInv, [Next]_vars, NEW i \in Steps \ {CommitStep}, step[i] = "COMPLETED"
  PROVE  step'[i] = "COMPLETED"
  <1>t. TypeOK /\ SnapshotsCurrent
    BY DEF SerialInv
  <1>1. ASSUME NEW s \in Sessions, NEW k \in Steps, Executes(s, k)
        PROVE  k # i
    BY <1>t, <1>1 DEF Executes, At, SnapshotsCurrent
  <1>2. ASSUME NEW s \in Sessions, ReviewWrite(s) PROVE step'[i] = "COMPLETED"
    BY <1>t, <1>2
    DEF ReviewWrite, RecordDecision, HoldOrReject, ReadJob, PrepareCommit, SplitCandidate,
        MergeCandidates, Flush, rows, TypeOK
  <1>3. ASSUME NEW s \in Sessions, RunLoop(s) PROVE step'[i] = "COMPLETED"
    <2>1. ASSUME NEW k \in Steps, MarkStep(s, k) PROVE step'[i] = "COMPLETED"
      <3>1. sess[s].step = step
        BY <1>t, <2>1 DEF MarkStep, Reaches, At, SnapshotsCurrent
      <3> QED BY <1>t, <2>1, <3>1 DEF MarkStep, Reaches, TypeOK
    <2>2. ASSUME NEW k \in Steps, PlainStep(s, k) PROVE step'[i] = "COMPLETED"
      BY <1>t, <2>2 DEF PlainStep, Complete, TypeOK
    <2> QED BY <1>t, <1>3, <2>1, <2>2
        DEF RunLoop, RetryJob, FailedSteps, RetryNothing, EnterRun, LoadSteps, FinishRun,
            ParkAtReview, rows
  <1>4. ASSUME NEW s \in Sessions, Execute(s) PROVE step'[i] = "COMPLETED"
    BY <1>t, <1>1, <1>4
    DEF Execute, SkipBuild, AwaitReview, RefuseCommit, RaiseStep, BuildCandidate, Deduplicate,
        ReturnRecorded, CreateAsset, LinkDuplicate, CommitDone, Complete, TypeOK, Steps
  <1>5. ASSUME NEW s \in Sessions,
               CandidateRequest(s) \/ RunRequest(s) \/ RetryRequest(s) \/ Crash(s)
        PROVE  step' = step
    <2>1. CandidateRequest(s) => UNCHANGED rows
      BY Zenon DEF CandidateRequest, BeginDecision, BeginSplit, BeginMerge
    <2>2. RunRequest(s) \/ RetryRequest(s) \/ Crash(s) => UNCHANGED rows
      BY Zenon DEF RunRequest, RetryRequest, Crash
    <2> QED BY <1>5, <2>1, <2>2 DEF rows
  <1>6. ASSUME ResolveTask \/ UNCHANGED vars PROVE step' = step
    BY <1>6 DEF ResolveTask, vars
  <1>7. ASSUME NEW s \in Sessions, FailStep(s) PROVE step'[i] = "COMPLETED"
    BY <1>t, <1>1, <1>7 DEF FailStep, RaiseStep, TypeOK
  <1> QED BY <1>2, <1>3, <1>4, <1>5, <1>6, <1>7 DEF Next, Start, Advance, Progress

\* And a step that completed is never run again (job_service.py, run_job).
THEOREM NoStepRepeated == Serialized => (Spec => CompletedStepsStay)
  <1>1. SerialInv /\ [Next]_vars =>
          [\A i \in Steps \ {CommitStep} : step[i] = "COMPLETED" => step'[i] = "COMPLETED"]_vars
    BY CompletedStays
  <1>2. Serialized => (Spec => []SerialInv)
    BY SerialInvariant
  <1> QED BY <1>1, <1>2, PTL DEF Spec, CompletedStepsStay

-----------------------------------------------------------------------------
(* Requests one at a time: what a decision read of the candidates is still so  *)
(* when it writes them, and a commit finds the decision it acts on.            *)

\* What a decision read is still so when it is written.
DecisionHeld(me) ==
  me.pc = "decide" =>
    /\ me.op \in {"accept", "edit", "hold", "reject", "split", "merge"}
    /\ me.cand \in Candidates /\ me.seen = cand[me.cand] /\ Decidable(me.cand)
    /\ me.op \in {"split", "merge"} => cand[me.cand] = "proposed"
    /\ me.op = "merge" => /\ me.losers # {} /\ me.cand \notin me.losers
                          /\ \A x \in me.losers : cand[x] = "proposed"

\* A request past its approval still holds the state it gave its candidate.
ApprovalHeld(me) ==
  /\ me.pc \in {"prepare", "reset"} => me.op \in {"accept", "edit"}
  /\ me.pc \notin {"idle", "decide"} /\ me.op \in {"accept", "edit"} =>
       me.cand \in Candidates /\ me.seen = cand[me.cand] /\ me.seen \in Approved

\* The job's oldest candidate is that of the step that built it.
FirstIsBuilt ==
  /\ \A c \in Candidates : cand[c] # "absent" => first # None
  /\ first # None => cand[first] # "absent" /\ step[BuildStep] = "COMPLETED"

\* What holds of the rows, and with it of the requests on them.
RowsHold == FirstIsBuilt /\ OneProposalPerImport /\ AssetsHaveDecisions /\ DateTaskFollowsAsset
CandidatesHold == RowsHold /\ \A s \in Sessions : DecisionHeld(sess[s]) /\ ApprovalHeld(sess[s])

LEMMA InitCandidates == Init => CandidatesHold
  BY ConstantsAssumption
  DEF Init, Idle, CandidatesHold, RowsHold, FirstIsBuilt, OneProposalPerImport,
      AssetsHaveDecisions, DateTaskFollowsAsset, DecisionHeld, ApprovalHeld

\* Rows that only lose tasks keep what is claimed of them.
LEMMA SameRows ==
  ASSUME SerialInv, RowsHold, [Next]_vars, UNCHANGED <<cand, first, made>>,
         \A c \in Candidates : tasks'[c] \subseteq tasks[c]
  PROVE  RowsHold'
  <1>1. step[BuildStep] = "COMPLETED" => step'[BuildStep] = "COMPLETED"
    BY CompletedStays DEF Steps
  <1> QED BY <1>1 DEF RowsHold, FirstIsBuilt, OneProposalPerImport, AssetsHaveDecisions,
                      DateTaskFollowsAsset

\* What the request that moved holds is all there is to show.
LEMMA OnlyHeld ==
  ASSUME NEW s \in Sessions, \A t \in Sessions \ {s} : sess'[t].pc = "idle",
         RowsHold', DecisionHeld(sess[s])', ApprovalHeld(sess[s])'
  PROVE  CandidatesHold'
  BY DEF CandidatesHold, DecisionHeld, ApprovalHeld

LEMMA EndHeld ==
  ASSUME TypeOK, OneRequest, NEW s \in Sessions, ~At(s, "idle"), End(s), RowsHold'
  PROVE  CandidatesHold'
  <1>1. sess'[s].pc = "idle"
    BY DEF TypeOK, End, Becomes, Idle
  <1>2. \A t \in Sessions \ {s} : sess'[t].pc = "idle"
    BY Alone DEF End
  <1>3. DecisionHeld(sess[s])' /\ ApprovalHeld(sess[s])'
    BY <1>1 DEF DecisionHeld, ApprovalHeld
  <1> QED BY <1>2, <1>3, OnlyHeld

\* A request that goes on with the decision it made still holds it.
LEMMA GoesOn ==
  ASSUME TypeOK, OneRequest, CandidatesHold, RowsHold', NEW s \in Sessions, NEW r,
         sess[s].pc \notin {"idle", "decide"}, Becomes(s, r),
         r.op = sess[s].op, r.cand = sess[s].cand, r.seen = sess[s].seen,
         r.pc \notin {"idle", "decide"},
         r.pc \in {"prepare", "reset"} => sess[s].pc \in {"prepare", "reset"},
         \A c \in Candidates : cand[c] \in Approved => cand'[c] = cand[c]
  PROVE  CandidatesHold'
  <1>1. sess'[s] = r /\ \A t \in Sessions \ {s} : sess'[t].pc = "idle"
    BY Alone DEF At
  <1>2. ApprovalHeld(sess[s])
    BY DEF CandidatesHold
  <1>3. DecisionHeld(sess[s])' /\ ApprovalHeld(sess[s])'
    BY <1>1, <1>2 DEF DecisionHeld, ApprovalHeld
  <1> QED BY <1>1, <1>3, OnlyHeld

\* Starting a request reads rows and writes none.
LEMMA StartHeld ==
  ASSUME Serialized, SerialInv, CandidatesHold, [Next]_vars, NEW s \in Sessions, Start(s)
  PROVE  CandidatesHold'
  <1>t. TypeOK /\ OneRequest
    BY DEF SerialInv
  <1>1. ASSUME NEW r, AllIdle, Becomes(s, r), UNCHANGED rows, r.pc \in {"decide", "enter", "retry"},
               DecisionHeld(r), r.pc # "decide" => r.op \in {"run", "retry"}
        PROVE  CandidatesHold'
    <2>1. sess'[s] = r /\ \A t \in Sessions \ {s} : sess'[t].pc = "idle"
      BY <1>t, <1>1, Alone
    <2>2. RowsHold'
      BY <1>1, SameRows DEF rows, CandidatesHold
    <2>3. DecisionHeld(sess[s])' /\ ApprovalHeld(sess[s])'
      BY <1>1, <2>1 DEF DecisionHeld, ApprovalHeld, Decidable, rows
    <2> QED BY <2>1, <2>2, <2>3, OnlyHeld
  <1>2. ASSUME NEW c \in Candidates, NEW op \in Op, BeginDecision(s, c, op) PROVE CandidatesHold'
    <2> DEFINE r == [Idle EXCEPT !.pc = "decide", !.op = op, !.cand = c, !.seen = cand[c]]
    <2>1. r.pc = "decide" /\ r.op = op /\ r.cand = c /\ r.seen = cand[c]
      BY DEF Idle
    <2>2. AllIdle /\ Becomes(s, r) /\ UNCHANGED rows
      BY <1>2 DEF BeginDecision, Quiet
    <2> HIDE DEF r
    <2>3. DecisionHeld(r)
      BY <1>2, <2>1 DEF BeginDecision, DecisionHeld
    <2> QED BY <1>1, <2>1, <2>2, <2>3
  <1>3. ASSUME NEW c \in Candidates, BeginSplit(s, c) PROVE CandidatesHold'
    <2> DEFINE r == [Idle EXCEPT !.pc = "decide", !.op = "split", !.cand = c, !.seen = cand[c]]
    <2>1. r.pc = "decide" /\ r.op = "split" /\ r.cand = c /\ r.seen = cand[c]
      BY DEF Idle
    <2>2. AllIdle /\ Becomes(s, r) /\ UNCHANGED rows
      BY <1>3 DEF BeginSplit, Quiet
    <2> HIDE DEF r
    <2>3. DecisionHeld(r)
      BY <1>3, <2>1 DEF BeginSplit, Splittable, DecisionHeld, Decidable, Closed
    <2> QED BY <1>1, <2>1, <2>2, <2>3
  <1>4. ASSUME NEW c \in Candidates, NEW losers \in SUBSET Candidates, BeginMerge(s, c, losers)
        PROVE  CandidatesHold'
    <2> DEFINE r == [Idle EXCEPT !.pc = "decide", !.op = "merge", !.cand = c,
                                 !.losers = losers, !.seen = "proposed"]
    <2>1. /\ r.pc = "decide" /\ r.op = "merge" /\ r.cand = c
          /\ r.losers = losers /\ r.seen = "proposed"
      BY DEF Idle
    <2>2. AllIdle /\ Becomes(s, r) /\ UNCHANGED rows
      BY <1>4 DEF BeginMerge, Quiet
    <2> HIDE DEF r
    <2>3. DecisionHeld(r)
      BY <1>4, <2>1 DEF BeginMerge, DecisionHeld, Decidable, Closed
    <2> QED BY <1>1, <2>1, <2>2, <2>3
  <1>5. CASE RunRequest(s) \/ RetryRequest(s)
    <2> DEFINE r == [Idle EXCEPT !.pc = "enter", !.op = "run", !.job = job]
               q == [Idle EXCEPT !.pc = "retry", !.op = "retry", !.job = job]
    <2>1. r.pc = "enter" /\ r.op = "run" /\ q.pc = "retry" /\ q.op = "retry"
      BY DEF Idle
    <2>2. AllIdle /\ (Becomes(s, r) \/ Becomes(s, q)) /\ UNCHANGED rows
      BY <1>5 DEF RunRequest, RetryRequest, Quiet
    <2> HIDE DEF r, q
    <2>3. DecisionHeld(r) /\ DecisionHeld(q)
      BY <2>1 DEF DecisionHeld
    <2> QED BY <1>1, <2>1, <2>2, <2>3
  <1> QED BY <1>2, <1>3, <1>4, <1>5 DEF Start, CandidateRequest

\* A decision is written on the state it was made on.
LEMMA ReviewHeld ==
  ASSUME SerialInv, CandidatesHold, [Next]_vars, NEW s \in Sessions, ReviewWrite(s)
  PROVE  CandidatesHold'
  <1> DEFINE me == sess[s]
  <1>t. TypeOK /\ OneRequest
    BY DEF SerialInv
  <1>s. me \in Session
    BY <1>t DEF TypeOK
  <1>h. DecisionHeld(me) /\ ApprovalHeld(me) /\ RowsHold
    BY DEF CandidatesHold
  <1>b. step[BuildStep] = "COMPLETED" => step'[BuildStep] = "COMPLETED"
    BY CompletedStays DEF Steps
  \* A decision that is neither a split nor a merge is on a candidate that is
  \* not the split one, if there is one.
  <1>d. ASSUME NEW d \in {"accepted", "edited", "held", "rejected"},
               me.pc = "decide", cand' = [cand EXCEPT ![me.cand] = Flush(me.seen, d, @)],
               UNCHANGED <<first, made>>, \A c \in Candidates : tasks'[c] \subseteq tasks[c]
        PROVE  RowsHold' /\ cand'[me.cand] = d
    <2>1. me.cand \in Candidates /\ me.seen = cand[me.cand] /\ Decidable(me.cand)
      BY <1>h, <1>d DEF DecisionHeld
    <2>2. cand' = [cand EXCEPT ![me.cand] = d]
      BY <1>t, <1>d, <2>1 DEF Flush, TypeOK
    <2>3. FirstIsBuilt'
      BY <1>t, <1>h, <1>b, <1>d, <2>1, <2>2 DEF RowsHold, FirstIsBuilt, TypeOK, Decidable
    <2>4. OneProposalPerImport'
      BY <1>t, <1>h, <1>d, <2>1, <2>2
      DEF RowsHold, OneProposalPerImport, TypeOK, Decidable, Closed
    <2>5. AssetsHaveDecisions' /\ DateTaskFollowsAsset'
      BY <1>t, <1>h, <1>d, <2>1, <2>2
      DEF RowsHold, AssetsHaveDecisions, DateTaskFollowsAsset, TypeOK
    <2> QED BY <1>t, <2>1, <2>2, <2>3, <2>4, <2>5 DEF RowsHold, TypeOK
  <1>1. CASE RecordDecision(s)
    <2> DEFINE r == [me EXCEPT !.pc = "prepare", !.seen = Decision(me.op)]
    <2>1. me.pc = "decide" /\ me.op \in {"accept", "edit"} /\ Decision(me.op) \in Approved
      BY <1>1 DEF RecordDecision, Decision, Approved
    <2>2. RowsHold' /\ cand'[me.cand] = Decision(me.op)
      BY <1>1, <1>d, <2>1 DEF RecordDecision, Approved
    <2>3. r.pc = "prepare" /\ r.op = me.op /\ r.cand = me.cand /\ r.seen = Decision(me.op)
      BY <1>s DEF Session
    <2> HIDE DEF r
    <2>4. Becomes(s, r) /\ ~At(s, "idle")
      BY <1>1, <2>1 DEF RecordDecision, r, At
    <2>5. sess'[s] = r /\ \A t \in Sessions \ {s} : sess'[t].pc = "idle"
      BY <1>t, <2>4, Alone
    <2>6. DecisionHeld(sess[s])' /\ ApprovalHeld(sess[s])'
      BY <1>h, <2>1, <2>2, <2>3, <2>5 DEF DecisionHeld, ApprovalHeld
    <2> QED BY <2>2, <2>5, <2>6, OnlyHeld
  <1>2. CASE HoldOrReject(s)
    <2>1. me.pc = "decide" /\ Decision(me.op) \in {"held", "rejected"} /\ ~At(s, "idle") /\ End(s)
      BY <1>2 DEF HoldOrReject, Decision, At
    <2>2. \A c \in Candidates : tasks'[c] \subseteq tasks[c]
      BY <1>t, <1>2 DEF HoldOrReject, TypeOK
    <2>3. RowsHold'
      BY <1>2, <1>d, <2>1, <2>2 DEF HoldOrReject
    <2> QED BY <1>t, <2>1, <2>3, EndHeld
  <1>3. CASE ReadJob(s)
    <2> DEFINE r == [me EXCEPT !.pc = "reset", !.job = job, !.step = step,
                               !.review = review, !.commit = commit]
    <2>1. r.pc = "reset" /\ r.op = me.op /\ r.cand = me.cand /\ r.seen = me.seen
      BY <1>s DEF Session
    <2> HIDE DEF r
    <2>2. Becomes(s, r) /\ me.pc = "prepare" /\ UNCHANGED rows
      BY <1>3 DEF ReadJob, r, At
    <2>3. RowsHold'
      BY <1>h, <2>2, SameRows DEF rows
    <2> QED BY <1>t, <2>1, <2>2, <2>3, GoesOn DEF rows
  <1>4. CASE PrepareCommit(s)
    <2> DEFINE r == [me EXCEPT !.pc = "load", !.job = "RUNNING"]
    <2>1. r.pc = "load" /\ r.op = me.op /\ r.cand = me.cand /\ r.seen = me.seen
      BY <1>s DEF Session
    <2> HIDE DEF r
    <2>2. Becomes(s, r) /\ me.pc = "reset" /\ UNCHANGED <<cand, first, made, tasks>>
      BY <1>4 DEF PrepareCommit, r
    <2>3. RowsHold'
      BY <1>h, <2>2, SameRows
    <2> QED BY <1>t, <2>1, <2>2, <2>3, GoesOn
  <1>5. ASSUME NEW kids \in SUBSET Candidates, NEW undated \in SUBSET kids,
               SplitCandidate(s, kids, undated)
        PROVE  CandidatesHold'
    <2>1. /\ me.cand \in Candidates /\ cand[me.cand] = "proposed"
          /\ \A k \in kids : cand[k] = "absent"
          /\ cand' = [x \in Candidates |-> IF x = me.cand THEN "split"
                                           ELSE IF x \in kids THEN "proposed" ELSE cand[x]]
          /\ first' = first /\ made' = made /\ ~At(s, "idle") /\ End(s)
      BY <1>h, <1>5 DEF SplitCandidate, DecisionHeld, At
    <2>2. made[me.cand] = 0 /\ \A k \in kids : made[k] = 0
      BY <1>t, <1>h, <2>1 DEF RowsHold, AssetsHaveDecisions, TypeOK
    <2>3. FirstIsBuilt' /\ OneProposalPerImport'
      BY <1>t, <1>h, <1>b, <2>1 DEF RowsHold, FirstIsBuilt, OneProposalPerImport, TypeOK
    <2>4. AssetsHaveDecisions'
      BY <1>h, <2>1, <2>2 DEF RowsHold, AssetsHaveDecisions
    <2>5. DateTaskFollowsAsset'
      BY <1>h, <1>5, <2>1, <2>2 DEF RowsHold, DateTaskFollowsAsset, SplitCandidate
    <2> QED BY <1>t, <2>1, <2>3, <2>4, <2>5, EndHeld DEF RowsHold
  <1>6. CASE MergeCandidates(s)
    <2>1. /\ me.cand \in Candidates /\ cand[me.cand] = "proposed"
          /\ me.losers # {} /\ me.cand \notin me.losers /\ \A x \in me.losers : cand[x] = "proposed"
          /\ cand' = [x \in Candidates |-> IF x \in me.losers THEN "merged" ELSE cand[x]]
          /\ first' = first /\ made' = made /\ ~At(s, "idle") /\ End(s)
          /\ \A c \in Candidates : tasks'[c] \subseteq tasks[c]
      BY <1>h, <1>6 DEF MergeCandidates, DecisionHeld, At
    <2>2. FirstIsBuilt'
      BY <1>t, <1>h, <1>b, <2>1 DEF RowsHold, FirstIsBuilt, TypeOK
    <2>3. OneProposalPerImport'
      <3>1. me.losers \subseteq Candidates
        BY <1>s DEF Session
      <3>2. PICK x \in me.losers : x # me.cand /\ cand[x] = "proposed"
        BY <2>1
      <3>3. first # None /\ cand[first] = "split" /\ first \in Candidates
        BY <1>t, <1>h, <2>1, <3>1, <3>2 DEF RowsHold, OneProposalPerImport, TypeOK
      <3> QED BY <2>1, <3>3 DEF OneProposalPerImport
    <2>4. AssetsHaveDecisions' /\ DateTaskFollowsAsset'
      BY <1>h, <2>1 DEF RowsHold, AssetsHaveDecisions, DateTaskFollowsAsset
    <2> QED BY <1>t, <2>1, <2>2, <2>3, <2>4, EndHeld DEF RowsHold
  <1> QED BY <1>1, <1>2, <1>3, <1>4, <1>5, <1>6 DEF ReviewWrite

\* The loop over the steps touches no candidate.
LEMMA LoopKeepsRows ==
  ASSUME NEW s \in Sessions, RunLoop(s)
  PROVE  UNCHANGED <<cand, kind, multi, first, tasks, made, assetTask>>
  <1>1. CASE RetryJob(s) \/ RetryNothing(s) \/ EnterRun(s) \/ LoadSteps(s) \/ FinishRun(s)
    BY <1>1 DEF RetryJob, RetryNothing, EnterRun, LoadSteps, FinishRun, rows
  <1>2. ASSUME NEW i \in Steps, MarkStep(s, i) \/ ParkAtReview(s, i) \/ PlainStep(s, i)
        PROVE  UNCHANGED <<cand, kind, multi, first, tasks, made, assetTask>>
    BY <1>2 DEF MarkStep, ParkAtReview, PlainStep
  <1> QED BY <1>1, <1>2 DEF RunLoop

LEMMA LoopHeld ==
  ASSUME SerialInv, CandidatesHold, [Next]_vars, NEW s \in Sessions, RunLoop(s)
  PROVE  CandidatesHold'
  <1> DEFINE me == sess[s]
  <1>t. TypeOK /\ OneRequest
    BY DEF SerialInv
  <1>s. me \in Session
    BY <1>t DEF TypeOK
  <1>u. UNCHANGED <<cand, kind, multi, first, tasks, made, assetTask>>
    BY LoopKeepsRows
  <1>h. RowsHold'
    BY <1>u, SameRows DEF CandidatesHold
  <1>g. ASSUME NEW r, me.pc \in {"retry", "enter", "load", "loop", "exec"}, Becomes(s, r),
               r.pc \in {"enter", "load", "loop", "exec"},
               r.op = me.op, r.cand = me.cand, r.seen = me.seen
        PROVE  CandidatesHold'
    BY <1>t, <1>u, <1>h, <1>g, GoesOn
  <1>e. ASSUME End(s), ~At(s, "idle") PROVE CandidatesHold'
    BY <1>t, <1>h, <1>e, EndHeld
  <1>1. CASE RetryJob(s)
    <2> DEFINE r == [me EXCEPT !.pc = "enter", !.job = "RETRYING"]
    <2>1. r.pc = "enter" /\ r.op = me.op /\ r.cand = me.cand /\ r.seen = me.seen
      BY <1>s DEF Session
    <2> HIDE DEF r
    <2>2. Becomes(s, r) /\ me.pc = "retry"
      BY <1>1 DEF RetryJob, r, At
    <2> QED BY <1>g, <2>1, <2>2
  <1>2. CASE RetryNothing(s) \/ FinishRun(s) \/ \E i \in Steps : ParkAtReview(s, i)
    BY <1>e, <1>2 DEF RetryNothing, FinishRun, ParkAtReview, Reaches, At
  <1>3. CASE EnterRun(s)
    <2> DEFINE r == [me EXCEPT !.pc = "load", !.job = "RUNNING"]
    <2>1. r.pc = "load" /\ r.op = me.op /\ r.cand = me.cand /\ r.seen = me.seen
      BY <1>s DEF Session
    <2> HIDE DEF r
    <2>2. Becomes(s, r) /\ me.pc = "enter"
      BY <1>3 DEF EnterRun, r, At
    <2> QED BY <1>g, <2>1, <2>2
  <1>4. CASE LoadSteps(s)
    <2> DEFINE r == [me EXCEPT !.pc = "loop", !.pos = 1, !.step = step, !.review = review]
    <2>1. r.pc = "loop" /\ r.op = me.op /\ r.cand = me.cand /\ r.seen = me.seen
      BY <1>s DEF Session
    <2> HIDE DEF r
    <2>2. Becomes(s, r) /\ me.pc = "load"
      BY <1>4 DEF LoadSteps, r, At
    <2> QED BY <1>g, <2>1, <2>2
  <1>5. ASSUME NEW i \in Steps, MarkStep(s, i) PROVE CandidatesHold'
    <2> DEFINE st == [me.step EXCEPT ![i] = "RUNNING"]
               rv == IF i = ReviewStep THEN NoReview ELSE me.review
               r  == [me EXCEPT !.pc = "exec", !.pos = i, !.step = st, !.review = rv]
    <2>1. r.pc = "exec" /\ r.op = me.op /\ r.cand = me.cand /\ r.seen = me.seen
      <3> HIDE DEF st, rv
      <3> QED BY <1>s DEF Session
    <2>2. Becomes(s, r) /\ me.pc = "loop"
      BY <1>5 DEF MarkStep, Reaches, At
    <2> HIDE DEF r
    <2> QED BY <1>g, <2>1, <2>2
  <1>6. ASSUME NEW i \in Steps, PlainStep(s, i) PROVE CandidatesHold'
    <2> DEFINE st == [me.step EXCEPT ![i] = "COMPLETED"]
               r  == [me EXCEPT !.pc = "loop", !.pos = i + 1, !.step = st]
    <2>1. r.pc = "loop" /\ r.op = me.op /\ r.cand = me.cand /\ r.seen = me.seen
      <3> HIDE DEF st
      <3> QED BY <1>s DEF Session
    <2>2. Becomes(s, r) /\ me.pc = "exec"
      BY <1>6 DEF PlainStep, Executes, Complete, At
    <2> HIDE DEF r
    <2> QED BY <1>g, <2>1, <2>2
  <1> QED BY <1>1, <1>2, <1>3, <1>4, <1>5, <1>6 DEF RunLoop

\* The candidate a commit makes an asset of is approved in the database too.
LEMMA CommitsApproved ==
  ASSUME SerialInv, CandidatesHold, NEW s \in Sessions, CreateAsset(s)
  PROVE  LET c == CommitTarget(s) IN c \in Candidates /\ cand[c] \in Approved /\ made[c] = 0
  <1> DEFINE me == sess[s]
             c  == CommitTarget(s)
  <1>t. TypeOK /\ SnapshotsCurrent /\ CommitRecordExact /\ ApprovalHeld(me)
    BY DEF SerialInv, CandidatesHold
  <1>1. c \in Candidates
    BY <1>t DEF CreateAsset, Committable, CommitTarget, Session, ReviewOut, TypeOK
  <1>2. me.pc = "exec" /\ me.review = review
    BY <1>t DEF CreateAsset, Executes, At, SnapshotsCurrent
  <1>3. made[c] = 0
    BY <1>t, <1>1, <1>2 DEF CreateAsset, RecordedAsset, CommitRecordExact
  <1>4. StateSeen(s, c) \in Approved
    BY DEF CreateAsset, Committable
  <1>5. cand[c] \in Approved
    BY <1>t, <1>2, <1>4 DEF StateSeen, ApprovalHeld
  <1> QED BY <1>1, <1>3, <1>5

\* A step that proposes writes only a candidate that did not exist, and a commit
\* makes an asset only of an approved one.
LEMMA ExecuteHeld ==
  ASSUME SerialInv, CandidatesHold, [Next]_vars, NEW s \in Sessions, Execute(s)
  PROVE  CandidatesHold'
  <1> DEFINE me == sess[s]
  <1>t. TypeOK /\ OneRequest /\ SnapshotsCurrent
    BY DEF SerialInv
  <1>s. me \in Session
    BY <1>t DEF TypeOK
  <1>h. RowsHold
    BY DEF CandidatesHold
  <1>b. step[BuildStep] = "COMPLETED" => step'[BuildStep] = "COMPLETED"
    BY CompletedStays DEF Steps
  <1>x. ASSUME NEW i \in Steps, Executes(s, i)
        PROVE  step[i] = "RUNNING" /\ \A j \in Steps : j < i => step[j] = "COMPLETED"
    BY <1>t, <1>x DEF Executes, At, SnapshotsCurrent
  <1>e. ASSUME NEW i \in Steps, Executes(s, i), End(s), RowsHold' PROVE CandidatesHold'
    BY <1>t, <1>e, EndHeld DEF Executes, At
  <1>c. ASSUME NEW i \in Steps, Executes(s, i), Complete(s, i), RowsHold',
               \A c \in Candidates : cand[c] \in Approved => cand'[c] = cand[c]
        PROVE  CandidatesHold'
    <2> DEFINE st == [me.step EXCEPT ![i] = "COMPLETED"]
               r  == [me EXCEPT !.pc = "loop", !.pos = i + 1, !.step = st]
    <2>1. r.pc = "loop" /\ r.op = me.op /\ r.cand = me.cand /\ r.seen = me.seen
      <3> HIDE DEF st
      <3> QED BY <1>s DEF Session
    <2>2. Becomes(s, r) /\ me.pc = "exec"
      BY <1>c DEF Executes, Complete, At
    <2> HIDE DEF r
    <2> QED BY <1>c, <1>t, <2>1, <2>2, GoesOn
  \* A new candidate is the job's first, and the only one.
  <1>n. ASSUME NEW c \in Candidates, NewCandidate(c), first = None,
               step'[BuildStep] = "COMPLETED", made' = made,
               \A x \in Candidates \ {c} : tasks'[x] \subseteq tasks[x]
        PROVE  RowsHold' /\ \A x \in Candidates : cand[x] \in Approved => cand'[x] = cand[x]
    <2>1. first' = c /\ cand' = [cand EXCEPT ![c] = "proposed"]
          /\ \A x \in Candidates : cand[x] = "absent"
      BY <1>h, <1>n DEF NewCandidate, RowsHold, FirstIsBuilt
    <2>2. \A x \in Candidates : made'[x] = 0
      BY <1>t, <1>h, <1>n, <2>1 DEF RowsHold, AssetsHaveDecisions, TypeOK
    <2>3. FirstIsBuilt' /\ OneProposalPerImport'
      BY <1>t, <1>n, <2>1, ConstantsAssumption DEF FirstIsBuilt, OneProposalPerImport, TypeOK
    <2> QED BY <2>1, <2>2, <2>3
        DEF RowsHold, AssetsHaveDecisions, DateTaskFollowsAsset, Approved
  <1>1. CASE SkipBuild(s)
    <2>1. UNCHANGED <<cand, first, made, tasks>>
      BY <1>1 DEF SkipBuild
    <2> QED BY <1>1, <1>c, <1>h, <2>1, SameRows DEF SkipBuild, Steps
  <1>2. ASSUME NEW c \in Candidates, NEW opened \in SUBSET {"multi_item", "date"},
               BuildCandidate(s, c, opened)
        PROVE  CandidatesHold'
    <2>1. step[BuildStep] = "RUNNING"
      BY <1>2, <1>x DEF BuildCandidate, Steps
    <2>2. first = None
      BY <1>h, <2>1 DEF RowsHold, FirstIsBuilt
    <2>3. step'[BuildStep] = "COMPLETED"
      BY <1>t, <1>2 DEF BuildCandidate, Complete, TypeOK, Steps
    <2>4. \A x \in Candidates \ {c} : tasks'[x] \subseteq tasks[x]
      BY <1>t, <1>2 DEF BuildCandidate, TypeOK
    <2>5. RowsHold' /\ \A x \in Candidates : cand[x] \in Approved => cand'[x] = cand[x]
      BY <1>2, <1>n, <2>2, <2>3, <2>4 DEF BuildCandidate
    <2> QED BY <1>2, <1>c, <2>5 DEF BuildCandidate, Steps
  <1>3. ASSUME NEW c \in Candidates, NEW k \in {"new", "duplicate"},
               NEW opened \in SUBSET {"identifier_collision"}, Deduplicate(s, c, k, opened)
        PROVE  CandidatesHold'
    <2>1. step'[BuildStep] = "COMPLETED"
      BY <1>3, <1>x, <1>b DEF Deduplicate, Steps
    <2>2. \A x \in Candidates \ {c} : tasks'[x] \subseteq tasks[x]
      BY <1>t, <1>3 DEF Deduplicate, TypeOK
    <2>3. RowsHold' /\ \A x \in Candidates : cand[x] \in Approved => cand'[x] = cand[x]
      <3>1. CASE first = None /\ NewCandidate(c)
        BY <1>3, <1>n, <2>1, <2>2, <3>1 DEF Deduplicate
      <3>2. CASE UNCHANGED <<cand, first>>
        BY <1>t, <1>h, <1>3, <2>1, <3>2
        DEF Deduplicate, RowsHold, FirstIsBuilt, OneProposalPerImport, AssetsHaveDecisions,
            DateTaskFollowsAsset, TypeOK
      <3> QED BY <1>3, <3>1, <3>2 DEF Deduplicate
    <2> QED BY <1>3, <1>c, <2>3 DEF Deduplicate, Steps
  <1>4. CASE AwaitReview(s)
    <2>1. UNCHANGED <<cand, first, made, tasks>> /\ Executes(s, ReviewStep) /\ End(s)
      BY <1>4 DEF AwaitReview
    <2> QED BY <1>e, <1>h, <2>1, SameRows DEF Steps
  <1>5. CASE RefuseCommit(s)
    <2>1. UNCHANGED <<cand, first, made, tasks>> /\ Executes(s, CommitStep) /\ End(s)
      BY <1>5 DEF RefuseCommit, RaiseStep
    <2> QED BY <1>e, <1>h, <2>1, SameRows DEF Steps
  <1>6. CASE ReturnRecorded(s)
    <2>1. UNCHANGED <<cand, first, made, tasks>> /\ Executes(s, CommitStep) /\ End(s)
      BY <1>6 DEF ReturnRecorded, CommitDone
    <2> QED BY <1>e, <1>h, <2>1, SameRows DEF Steps
  <1>7. ASSUME NEW dated \in BOOLEAN, LinkDuplicate(s, dated) PROVE CandidatesHold'
    <2>1. UNCHANGED <<cand, first, made>> /\ Executes(s, CommitStep) /\ End(s)
      BY <1>7 DEF LinkDuplicate, CommitDone
    <2>2. \A x \in Candidates : tasks'[x] \subseteq tasks[x]
      BY <1>t, <1>7 DEF LinkDuplicate, TypeOK
    <2> QED BY <1>e, <1>h, <2>1, <2>2, SameRows DEF Steps
  <1>8. CASE CreateAsset(s)
    <2> DEFINE c == CommitTarget(s)
    <2>1. c \in Candidates /\ cand[c] \in Approved /\ made[c] = 0
      BY <1>8, CommitsApproved
    <2>2. /\ UNCHANGED <<cand, first>> /\ Executes(s, CommitStep) /\ End(s)
          /\ made' = [made EXCEPT ![c] = made[c] + 1]
          /\ tasks' = [tasks EXCEPT ![c] = @ \ {"date"}]
      BY <1>8 DEF CreateAsset, CommitDone
    <2> HIDE DEF c
    <2>3. AssetsHaveDecisions' /\ DateTaskFollowsAsset'
      BY <1>t, <1>h, <2>1, <2>2
      DEF RowsHold, AssetsHaveDecisions, DateTaskFollowsAsset, Approved, TypeOK
    <2>4. FirstIsBuilt' /\ OneProposalPerImport'
      BY <1>h, <1>b, <2>2 DEF RowsHold, FirstIsBuilt, OneProposalPerImport
    <2> QED BY <1>e, <2>2, <2>3, <2>4 DEF RowsHold, Steps
  <1> QED BY <1>1, <1>2, <1>3, <1>4, <1>5, <1>6, <1>7, <1>8 DEF Execute

LEMMA NextCandidates ==
  Serialized /\ SerialInv /\ CandidatesHold /\ [Next]_vars => CandidatesHold'
  <1> SUFFICES ASSUME Serialized, SerialInv, CandidatesHold, [Next]_vars PROVE CandidatesHold'
    OBVIOUS
  <1>t. TypeOK /\ OneRequest /\ RowsHold
    BY DEF SerialInv, CandidatesHold
  <1>1. CASE ResolveTask
    <2>1. UNCHANGED <<cand, first, made, sess>> /\ AllIdle
      BY <1>1 DEF ResolveTask, Quiet
    <2>2. \A c \in Candidates : tasks'[c] \subseteq tasks[c]
      BY <1>t, <1>1 DEF ResolveTask, TypeOK
    <2>3. RowsHold'
      BY <1>t, <2>1, <2>2, SameRows
    <2> QED BY <2>1, <2>3 DEF CandidatesHold, DecisionHeld, ApprovalHeld, AllIdle, At
  <1>2. ASSUME NEW s \in Sessions, FailStep(s) \/ Crash(s) PROVE CandidatesHold'
    <2>1. UNCHANGED <<cand, first, made, tasks>> /\ End(s) /\ ~At(s, "idle")
      BY <1>2 DEF FailStep, RaiseStep, Executes, Crash, rows, At
    <2> QED BY <1>t, <2>1, SameRows, EndHeld
  <1>3. CASE UNCHANGED vars
    <2>1. RowsHold'
      BY <1>t, <1>3, SameRows DEF vars
    <2> QED BY <1>3, <2>1 DEF vars, CandidatesHold, DecisionHeld, ApprovalHeld, Decidable
  <1> QED
    BY <1>1, <1>2, <1>3, StartHeld, ReviewHeld, LoopHeld, ExecuteHeld
    DEF Next, Advance, Progress

\* The inductive invariant of the candidates, on top of that of the record.
THEOREM CandidatesInvariant == Serialized => (Spec => [](SerialInv /\ CandidatesHold))
  <1> SUFFICES ASSUME Serialized PROVE Spec => [](SerialInv /\ CandidatesHold)
    OBVIOUS
  <1>1. Init => SerialInv /\ CandidatesHold
    BY InitSerial, InitCandidates
  <1>2. SerialInv /\ CandidatesHold /\ [Next]_vars => (SerialInv /\ CandidatesHold)'
    BY NextSerial, NextCandidates
  <1> QED BY <1>1, <1>2, PTL DEF Spec

\* When requests arrive one at a time, an asset is never left behind by a
\* candidate that was split or merged away, nor made from an undecided one.
THEOREM AssetsDecided == Serialized => (Spec => []AssetsHaveDecisions)
  <1>1. CandidatesHold => AssetsHaveDecisions
    BY DEF CandidatesHold, RowsHold
  <1> QED BY <1>1, CandidatesInvariant, PTL

\* However often a run is retried or dies, it proposes its import once: a second
\* candidate exists only after the first was split.
THEOREM OneProposal == Serialized => (Spec => []OneProposalPerImport)
  <1>1. CandidatesHold => OneProposalPerImport
    BY DEF CandidatesHold, RowsHold
  <1> QED BY <1>1, CandidatesInvariant, PTL

\* An asset's candidate keeps no open date task.
THEOREM DateTaskFollows == Serialized => (Spec => []DateTaskFollowsAsset)
  <1>1. CandidatesHold => DateTaskFollowsAsset
    BY DEF CandidatesHold, RowsHold
  <1> QED BY <1>1, CandidatesInvariant, PTL

-----------------------------------------------------------------------------
(* The refinement: the candidates of a job implement CandidateContract.        *)

\* Each write of the review is a decision, a split or a merge of the contract.
LEMMA ReviewImplements ==
  ASSUME SerialInv, CandidatesHold, NEW s \in Sessions, ReviewWrite(s)
  PROVE  Contract!CNext \/ UNCHANGED <<cand, made>>
  <1> DEFINE me == sess[s]
  <1>t. TypeOK /\ DecisionHeld(me) /\ AssetsHaveDecisions
    BY DEF SerialInv, CandidatesHold, RowsHold
  <1>1. CASE RecordDecision(s) \/ HoldOrReject(s)
    <2>1. PICK d \in {"accepted", "edited", "held", "rejected"} :
            /\ cand' = [cand EXCEPT ![me.cand] = Flush(me.seen, d, @)]
            /\ made' = made /\ me.pc = "decide"
      BY <1>1 DEF RecordDecision, HoldOrReject, Decision
    <2>2. me.cand \in Candidates /\ me.seen = cand[me.cand] /\ Decidable(me.cand)
      BY <1>t, <2>1 DEF DecisionHeld
    <2>3. cand' = [cand EXCEPT ![me.cand] = d]
      BY <1>t, <2>1, <2>2 DEF Flush, TypeOK
    <2>4. Contract!Decide(me.cand, d) /\ d \in Contract!CandidateState
      BY <2>1, <2>2, <2>3
      DEF Contract!Decide, Contract!Decidable, Contract!Closed, Contract!CandidateState,
          Decidable, Closed
    <2> QED BY <2>2, <2>4 DEF Contract!CNext
  <1>2. CASE ReadJob(s) \/ PrepareCommit(s)
    BY <1>2 DEF ReadJob, PrepareCommit, rows
  <1>3. ASSUME NEW kids \in SUBSET Candidates, NEW undated \in SUBSET kids,
               SplitCandidate(s, kids, undated)
        PROVE  Contract!CNext
    <2>1. me.cand \in Candidates /\ cand[me.cand] = "proposed"
      BY <1>t, <1>3 DEF SplitCandidate, DecisionHeld
    <2>2. made[me.cand] = 0
      BY <1>t, <2>1 DEF AssetsHaveDecisions, TypeOK
    <2>3. Contract!Split(me.cand, kids)
      BY <1>3, <2>1, <2>2 DEF SplitCandidate, Contract!Split
    <2> QED BY <2>1, <2>3 DEF Contract!CNext
  <1>4. CASE MergeCandidates(s)
    <2>1. /\ me.cand \in Candidates /\ cand[me.cand] = "proposed" /\ me.cand \notin me.losers
          /\ me.losers \in SUBSET Candidates /\ \A x \in me.losers : cand[x] = "proposed"
      BY <1>t, <1>4 DEF MergeCandidates, DecisionHeld, TypeOK, Session
    <2>2. \A x \in me.losers : made[x] = 0
      BY <1>t, <2>1 DEF AssetsHaveDecisions, TypeOK
    <2>3. Contract!Merge(me.cand, me.losers)
      BY <1>4, <2>1, <2>2 DEF MergeCandidates, Contract!Merge
    <2> QED BY <2>1, <2>3 DEF Contract!CNext
  <1> QED BY <1>1, <1>2, <1>3, <1>4 DEF ReviewWrite

\* A run proposes and commits as the contract does, and hides the rest.
LEMMA ExecuteImplements ==
  ASSUME SerialInv, CandidatesHold, NEW s \in Sessions, Execute(s)
  PROVE  Contract!CNext \/ UNCHANGED <<cand, made>>
  <1>1. ASSUME NEW c \in Candidates, NewCandidate(c), made' = made PROVE Contract!CNext
    BY <1>1 DEF NewCandidate, Contract!Propose, Contract!CNext
  <1>2. CASE CreateAsset(s)
    <2> DEFINE c == CommitTarget(s)
    <2>1. c \in Candidates /\ cand[c] \in Approved /\ made[c] = 0
      BY <1>2, CommitsApproved
    <2>2. cand' = cand /\ made' = [made EXCEPT ![c] = made[c] + 1]
      BY <1>2 DEF CreateAsset
    <2> HIDE DEF c
    <2>3. Contract!Commit(c)
      BY <2>1, <2>2 DEF Contract!Commit, Contract!Approved, Approved
    <2> QED BY <2>1, <2>3 DEF Contract!CNext
  <1> QED
    BY <1>1, <1>2
    DEF Execute, SkipBuild, BuildCandidate, Deduplicate, AwaitReview, RefuseCommit, RaiseStep,
        ReturnRecorded, LinkDuplicate

\* When requests on a job arrive one at a time, its candidates live as the
\* review promises: proposed once, decided while open, split or merged only
\* without an asset, and made into one asset only while approved, through every
\* retry, failure and crash (candidates.py, job_service.py).
THEOREM JobImplementsContract == Serialized => (Spec => ImplementsContract)
  <1> SUFFICES ASSUME Serialized PROVE Spec => ImplementsContract
    OBVIOUS
  <1>1. Init => Contract!CInit
    BY DEF Init, Contract!CInit
  <1>2. SerialInv /\ CandidatesHold /\ [Next]_vars => [Contract!CNext]_(Contract!cvars)
    <2> SUFFICES ASSUME SerialInv, CandidatesHold, [Next]_vars
                 PROVE  Contract!CNext \/ UNCHANGED <<cand, made>>
      BY DEF Contract!cvars
    <2>1. ASSUME NEW s \in Sessions, Start(s) \/ RunLoop(s) \/ FailStep(s) \/ Crash(s)
          PROVE  UNCHANGED <<cand, made>>
      <3>1. CandidateRequest(s) => UNCHANGED rows
        BY Zenon DEF CandidateRequest, BeginDecision, BeginSplit, BeginMerge
      <3>2. RunRequest(s) \/ RetryRequest(s) => UNCHANGED rows
        BY Zenon DEF RunRequest, RetryRequest
      <3>3. RunLoop(s) => UNCHANGED <<cand, made>>
        BY LoopKeepsRows
      <3>4. FailStep(s) \/ Crash(s) => UNCHANGED <<cand, made>>
        BY DEF FailStep, RaiseStep, Crash, rows
      <3> QED BY <2>1, <3>1, <3>2, <3>3, <3>4 DEF Start, rows
    <2>2. ResolveTask \/ UNCHANGED vars => UNCHANGED <<cand, made>>
      BY DEF ResolveTask, vars
    <2> QED
      BY <2>1, <2>2, ReviewImplements, ExecuteImplements DEF Next, Advance, Progress
  <1>3. Spec => [](SerialInv /\ CandidatesHold)
    BY CandidatesInvariant
  <1> QED
    BY <1>1, <1>2, <1>3, PTL DEF Spec, ImplementsContract, Contract!CSpec

-----------------------------------------------------------------------------
(* Requests one at a time: what a request read of the job is still so when it  *)
(* writes it, and the job's state says what its steps and assets say.          *)

\* What a request read of the job is still so.
JobHeld(me) ==
  /\ me.pc \in {"load", "loop", "exec"} => me.job = "RUNNING" /\ job = "RUNNING"
  /\ me.pc = "enter" => me.job = job /\ job \notin Settled
  /\ me.pc = "reset" => me.job = job
  /\ me.pc = "retry" => job = "FAILED"

\* A FAILED job has a step to retry, and a completed review a decided candidate.
JobRowsHold == /\ job = "FAILED" => FailedSteps # {}
               /\ step[ReviewStep] = "COMPLETED" => review.decided # None
               /\ CompletedMeansCommitted
JobHolds == JobRowsHold /\ \A s \in Sessions : JobHeld(sess[s])

LEMMA InitJob == Init => JobHolds
  BY DEF Init, Idle, Steps, JobHolds, JobRowsHold, JobHeld, CompletedMeansCommitted

\* The request that moved is the only one whose reads are to show.
LEMMA OnlyJob ==
  ASSUME NEW s \in Sessions, \A t \in Sessions \ {s} : sess'[t].pc = "idle",
         JobRowsHold', JobHeld(sess[s])'
  PROVE  JobHolds'
  BY DEF JobHolds, JobHeld

LEMMA EndJob ==
  ASSUME TypeOK, OneRequest, NEW s \in Sessions, ~At(s, "idle"), End(s), JobRowsHold'
  PROVE  JobHolds'
  <1>1. sess'[s].pc = "idle"
    BY DEF TypeOK, End, Becomes, Idle
  <1>2. \A t \in Sessions \ {s} : sess'[t].pc = "idle"
    BY Alone DEF End
  <1>3. JobHeld(sess[s])'
    BY <1>1 DEF JobHeld
  <1> QED BY <1>2, <1>3, OnlyJob

LEMMA SameJob ==
  ASSUME JobRowsHold, UNCHANGED <<job, step, review, kind, made>>
  PROVE  JobRowsHold'
  BY DEF JobRowsHold, FailedSteps, CompletedMeansCommitted

\* A run or a retry starts only on the state of the job it read.
LEMMA StartJob ==
  ASSUME Serialized, SerialInv, JobHolds, NEW s \in Sessions, Start(s)
  PROVE  JobHolds'
  <1>t. TypeOK /\ OneRequest /\ JobRowsHold
    BY DEF SerialInv, JobHolds
  <1>1. ASSUME NEW r, AllIdle, Becomes(s, r), UNCHANGED rows, r.pc \in {"decide", "enter", "retry"},
               JobHeld(r)
        PROVE  JobHolds'
    <2>1. sess'[s] = r /\ \A t \in Sessions \ {s} : sess'[t].pc = "idle"
      BY <1>t, <1>1, Alone
    <2>2. JobRowsHold'
      BY <1>t, <1>1, SameJob DEF rows
    <2>3. JobHeld(sess[s])'
      BY <1>1, <2>1 DEF JobHeld, rows
    <2> QED BY <2>1, <2>2, <2>3, OnlyJob
  <1>2. ASSUME NEW c \in Candidates, NEW op \in Op, BeginDecision(s, c, op) PROVE JobHolds'
    <2> DEFINE r == [Idle EXCEPT !.pc = "decide", !.op = op, !.cand = c, !.seen = cand[c]]
    <2>1. r.pc = "decide"
      BY DEF Idle
    <2>2. AllIdle /\ Becomes(s, r) /\ UNCHANGED rows
      BY <1>2 DEF BeginDecision, Quiet
    <2> HIDE DEF r
    <2>3. JobHeld(r)
      BY <2>1 DEF JobHeld
    <2> QED BY <1>1, <2>1, <2>2, <2>3
  <1>3. ASSUME NEW c \in Candidates, BeginSplit(s, c) PROVE JobHolds'
    <2> DEFINE r == [Idle EXCEPT !.pc = "decide", !.op = "split", !.cand = c, !.seen = cand[c]]
    <2>1. r.pc = "decide"
      BY DEF Idle
    <2>2. AllIdle /\ Becomes(s, r) /\ UNCHANGED rows
      BY <1>3 DEF BeginSplit, Quiet
    <2> HIDE DEF r
    <2>3. JobHeld(r)
      BY <2>1 DEF JobHeld
    <2> QED BY <1>1, <2>1, <2>2, <2>3
  <1>4. ASSUME NEW c \in Candidates, NEW losers \in SUBSET Candidates, BeginMerge(s, c, losers)
        PROVE  JobHolds'
    <2> DEFINE r == [Idle EXCEPT !.pc = "decide", !.op = "merge", !.cand = c,
                                 !.losers = losers, !.seen = "proposed"]
    <2>1. r.pc = "decide"
      BY DEF Idle
    <2>2. AllIdle /\ Becomes(s, r) /\ UNCHANGED rows
      BY <1>4 DEF BeginMerge, Quiet
    <2> HIDE DEF r
    <2>3. JobHeld(r)
      BY <2>1 DEF JobHeld
    <2> QED BY <1>1, <2>1, <2>2, <2>3
  <1>5. CASE RunRequest(s)
    <2> DEFINE r == [Idle EXCEPT !.pc = "enter", !.op = "run", !.job = job]
    <2>1. r.pc = "enter" /\ r.job = job
      BY DEF Idle
    <2>2. AllIdle /\ Becomes(s, r) /\ UNCHANGED rows
      BY <1>5 DEF RunRequest, Quiet
    <2> HIDE DEF r
    <2>3. JobHeld(r)
      BY <1>5, <2>1 DEF JobHeld, RunRequest
    <2> QED BY <1>1, <2>1, <2>2, <2>3
  <1>6. CASE RetryRequest(s)
    <2> DEFINE r == [Idle EXCEPT !.pc = "retry", !.op = "retry", !.job = job]
    <2>1. r.pc = "retry"
      BY DEF Idle
    <2>2. AllIdle /\ Becomes(s, r) /\ UNCHANGED rows
      BY <1>6 DEF RetryRequest, Quiet
    <2> HIDE DEF r
    <2>3. JobHeld(r)
      BY <1>6, <2>1 DEF JobHeld, RetryRequest
    <2> QED BY <1>1, <2>1, <2>2, <2>3
  <1> QED BY <1>2, <1>3, <1>4, <1>5, <1>6 DEF Start, CandidateRequest

\* An approval names its candidate in the review step before it runs the job.
LEMMA ReviewJob ==
  ASSUME SerialInv, CandidatesHold, JobHolds, NEW s \in Sessions, ReviewWrite(s)
  PROVE  JobHolds'
  <1> DEFINE me == sess[s]
  <1>t. TypeOK /\ OneRequest /\ SnapshotsCurrent /\ JobRowsHold /\ JobHeld(me) /\ ApprovalHeld(me)
    BY DEF SerialInv, JobHolds, CandidatesHold
  <1>s. me \in Session
    BY <1>t DEF TypeOK
  <1>e. ASSUME End(s), ~At(s, "idle"), UNCHANGED <<job, step, review, kind, made>>
        PROVE  JobHolds'
    BY <1>t, <1>e, SameJob, EndJob
  <1>1. CASE RecordDecision(s)
    <2> DEFINE r == [me EXCEPT !.pc = "prepare", !.seen = Decision(me.op)]
    <2>1. r.pc = "prepare"
      BY <1>s DEF Session
    <2> HIDE DEF r
    <2>2. Becomes(s, r) /\ ~At(s, "idle") /\ UNCHANGED <<job, step, review, kind, made>>
      BY <1>1 DEF RecordDecision, r, At
    <2>3. sess'[s] = r /\ \A t \in Sessions \ {s} : sess'[t].pc = "idle"
      BY <1>t, <2>2, Alone
    <2>4. JobRowsHold' /\ JobHeld(sess[s])'
      BY <1>t, <2>1, <2>2, <2>3, SameJob DEF JobHeld
    <2> QED BY <2>3, <2>4, OnlyJob
  <1>2. CASE HoldOrReject(s)
    BY <1>e, <1>2 DEF HoldOrReject, At
  <1>3. CASE ReadJob(s)
    <2> DEFINE r == [me EXCEPT !.pc = "reset", !.job = job, !.step = step,
                               !.review = review, !.commit = commit]
    <2>1. r.pc = "reset" /\ r.job = job
      BY <1>s DEF Session
    <2> HIDE DEF r
    <2>2. Becomes(s, r) /\ ~At(s, "idle") /\ UNCHANGED <<job, step, review, kind, made>>
      BY <1>3 DEF ReadJob, r, At, rows
    <2>3. sess'[s] = r /\ \A t \in Sessions \ {s} : sess'[t].pc = "idle"
      BY <1>t, <2>2, Alone
    <2>4. JobRowsHold' /\ JobHeld(sess[s])'
      BY <1>t, <2>1, <2>2, <2>3, SameJob DEF JobHeld
    <2> QED BY <2>3, <2>4, OnlyJob
  <1>4. CASE PrepareCommit(s)
    <2> DEFINE r == [me EXCEPT !.pc = "load", !.job = "RUNNING"]
    <2>1. r.pc = "load" /\ r.job = "RUNNING"
      BY <1>s DEF Session
    <2> HIDE DEF r
    <2>2. Becomes(s, r) /\ me.pc = "reset" /\ ~At(s, "idle")
      BY <1>4 DEF PrepareCommit, r, At
    <2>3. sess'[s] = r /\ \A t \in Sessions \ {s} : sess'[t].pc = "idle"
      BY <1>t, <2>2, Alone
    <2>4. me.review = review /\ me.job = job /\ me.cand \in Candidates
      BY <1>t, <2>2 DEF SnapshotsCurrent, JobHeld, ApprovalHeld
    <2>5. job' = "RUNNING" /\ review'.decided = me.cand
      BY <1>4, <2>4 DEF PrepareCommit, Flush
    <2>6. JobRowsHold' /\ JobHeld(sess[s])'
      BY <2>1, <2>3, <2>4, <2>5, ConstantsAssumption
      DEF JobRowsHold, JobHeld, CompletedMeansCommitted
    <2> QED BY <2>3, <2>6, OnlyJob
  <1>5. ASSUME NEW kids \in SUBSET Candidates, NEW undated \in SUBSET kids,
               SplitCandidate(s, kids, undated)
        PROVE  JobHolds'
    BY <1>e, <1>5 DEF SplitCandidate, At
  <1>6. CASE MergeCandidates(s)
    BY <1>e, <1>6 DEF MergeCandidates, At
  <1> QED BY <1>1, <1>2, <1>3, <1>4, <1>5, <1>6 DEF ReviewWrite

\* The loop keeps the job RUNNING until it parks it.
LEMMA LoopJob ==
  ASSUME SerialInv, JobHolds, NEW s \in Sessions, RunLoop(s)
  PROVE  JobHolds'
  <1> DEFINE me == sess[s]
  <1>t. TypeOK /\ OneRequest /\ SnapshotsCurrent /\ JobRowsHold /\ JobHeld(me)
    BY DEF SerialInv, JobHolds
  <1>s. me \in Session
    BY <1>t DEF TypeOK
  <1>u. UNCHANGED <<kind, made>>
    BY LoopKeepsRows
  <1>g. ASSUME NEW r, Becomes(s, r), ~At(s, "idle"), JobRowsHold', r.job = job',
               \/ r.pc = "enter" /\ job' = "RETRYING"
               \/ r.pc \in {"load", "loop", "exec"} /\ job' = "RUNNING"
        PROVE  JobHolds'
    <2>1. sess'[s] = r /\ \A t \in Sessions \ {s} : sess'[t].pc = "idle"
      BY <1>t, <1>g, Alone
    <2>2. JobHeld(sess[s])'
      BY <1>g, <2>1 DEF JobHeld, Settled
    <2> QED BY <1>g, <2>1, <2>2, OnlyJob
  <1>1. CASE RetryJob(s)
    <2> DEFINE r == [me EXCEPT !.pc = "enter", !.job = "RETRYING"]
    <2>1. r.pc = "enter" /\ r.job = "RETRYING"
      BY <1>s DEF Session
    <2> HIDE DEF r
    <2>2. Becomes(s, r) /\ ~At(s, "idle") /\ job' = "RETRYING"
      BY <1>1 DEF RetryJob, r, At
    <2>3. step'[ReviewStep] = "COMPLETED" => step[ReviewStep] = "COMPLETED" /\ review' = review
      BY <1>1 DEF RetryJob, FailedSteps, Steps
    <2>4. JobRowsHold'
      BY <1>t, <2>2, <2>3 DEF JobRowsHold, CompletedMeansCommitted
    <2> QED BY <1>g, <2>1, <2>2, <2>4
  <1>2. CASE RetryNothing(s) \/ FinishRun(s)
    BY <1>t, <1>2, SameJob, EndJob DEF RetryNothing, FinishRun, rows, At
  <1>3. CASE EnterRun(s)
    <2> DEFINE r == [me EXCEPT !.pc = "load", !.job = "RUNNING"]
    <2>1. r.pc = "load" /\ r.job = "RUNNING"
      BY <1>s DEF Session
    <2> HIDE DEF r
    <2>2. Becomes(s, r) /\ ~At(s, "idle") /\ job' = "RUNNING"
      BY <1>t, <1>3 DEF EnterRun, r, At, JobHeld, Flush
    <2>3. JobRowsHold'
      BY <1>t, <1>3, <2>2 DEF EnterRun, JobRowsHold, CompletedMeansCommitted
    <2> QED BY <1>g, <2>1, <2>2, <2>3
  <1>4. CASE LoadSteps(s)
    <2> DEFINE r == [me EXCEPT !.pc = "loop", !.pos = 1, !.step = step, !.review = review]
    <2>1. r.pc = "loop" /\ r.job = me.job
      BY <1>s DEF Session
    <2> HIDE DEF r
    <2>2. Becomes(s, r) /\ ~At(s, "idle") /\ UNCHANGED rows /\ me.pc = "load"
      BY <1>4 DEF LoadSteps, r, At
    <2>3. JobRowsHold'
      BY <1>t, <2>2, SameJob DEF rows
    <2> QED BY <1>t, <1>g, <2>1, <2>2, <2>3 DEF JobHeld, rows
  <1>5. ASSUME NEW i \in Steps, MarkStep(s, i) PROVE JobHolds'
    <2> DEFINE st == [me.step EXCEPT ![i] = "RUNNING"]
               rv == IF i = ReviewStep THEN NoReview ELSE me.review
               r  == [me EXCEPT !.pc = "exec", !.pos = i, !.step = st, !.review = rv]
    <2>1. r.pc = "exec" /\ r.job = me.job
      <3> HIDE DEF st, rv
      <3> QED BY <1>s DEF Session
    <2>2. Becomes(s, r) /\ ~At(s, "idle") /\ me.pc = "loop" /\ job' = job
      BY <1>5 DEF MarkStep, Reaches, At
    <2> HIDE DEF r
    <2>3. job = "RUNNING" /\ me.step = step
      BY <1>t, <2>2 DEF JobHeld, SnapshotsCurrent
    <2>4. step' = [step EXCEPT ![i] = "RUNNING"]
      BY <1>t, <1>5, <2>3 DEF MarkStep, Flush, TypeOK
    <2>5. JobRowsHold'
      BY <1>t, <1>5, <2>2, <2>3, <2>4
      DEF MarkStep, JobRowsHold, CompletedMeansCommitted, TypeOK, Steps
    <2> QED BY <1>t, <1>g, <2>1, <2>2, <2>3, <2>5 DEF JobHeld
  <1>6. ASSUME NEW i \in Steps, ParkAtReview(s, i) PROVE JobHolds'
    <2>1. me.pc = "loop" /\ ~At(s, "idle") /\ End(s) /\ UNCHANGED <<step, review>>
      BY <1>6 DEF ParkAtReview, Reaches, At
    <2>2. job' = "AWAITING_REVIEW"
      BY <1>t, <1>6, <2>1 DEF ParkAtReview, JobHeld, Flush
    <2>3. JobRowsHold'
      BY <1>t, <2>1, <2>2 DEF JobRowsHold, CompletedMeansCommitted
    <2> QED BY <1>t, <2>1, <2>3, EndJob
  <1>7. ASSUME NEW i \in Steps, PlainStep(s, i) PROVE JobHolds'
    <2> DEFINE st == [me.step EXCEPT ![i] = "COMPLETED"]
               r  == [me EXCEPT !.pc = "loop", !.pos = i + 1, !.step = st]
    <2>1. r.pc = "loop" /\ r.job = me.job
      <3> HIDE DEF st
      <3> QED BY <1>s DEF Session
    <2>2. Becomes(s, r) /\ ~At(s, "idle") /\ me.pc = "exec" /\ UNCHANGED <<job, review>>
      BY <1>7 DEF PlainStep, Executes, Complete, At
    <2> HIDE DEF r
    <2>3. job = "RUNNING" /\ me.job = "RUNNING" /\ step'[ReviewStep] = step[ReviewStep]
      BY <1>t, <1>7, <2>2 DEF JobHeld, PlainStep, Complete, TypeOK, Steps
    <2>4. JobRowsHold'
      BY <1>t, <2>2, <2>3 DEF JobRowsHold, CompletedMeansCommitted
    <2> QED BY <1>g, <2>1, <2>2, <2>3, <2>4
  <1> QED BY <1>1, <1>2, <1>3, <1>4, <1>5, <1>6, <1>7 DEF RunLoop

\* A commit that is done completes the job, and has dealt with the candidate
\* the review step names.
LEMMA ExecuteJob ==
  ASSUME SerialInv, CandidatesHold, JobHolds, NEW s \in Sessions, Execute(s)
  PROVE  JobHolds'
  <1> DEFINE me == sess[s]
  <1>t. /\ TypeOK /\ OneRequest /\ SnapshotsCurrent /\ CommitRecordExact
        /\ JobRowsHold /\ JobHeld(me)
    BY DEF SerialInv, JobHolds
  <1>s. me \in Session
    BY <1>t DEF TypeOK
  <1>x. ASSUME NEW i \in Steps, Executes(s, i)
        PROVE  /\ job = "RUNNING" /\ me.job = "RUNNING" /\ ~At(s, "idle")
               /\ me.review = review /\ step[i] = "RUNNING"
               /\ \A j \in Steps : j < i => step[j] = "COMPLETED"
    BY <1>t, <1>x DEF Executes, At, JobHeld, SnapshotsCurrent
  <1>c. ASSUME NEW i \in Steps \ {ReviewStep, CommitStep}, Executes(s, i), Complete(s, i),
               UNCHANGED <<job, review>>
        PROVE  JobHolds'
    <2> DEFINE st == [me.step EXCEPT ![i] = "COMPLETED"]
               r  == [me EXCEPT !.pc = "loop", !.pos = i + 1, !.step = st]
    <2>1. r.pc = "loop" /\ r.job = me.job
      <3> HIDE DEF st
      <3> QED BY <1>s DEF Session
    <2>2. Becomes(s, r)
      BY <1>c DEF Complete
    <2> HIDE DEF r
    <2>3. job' = "RUNNING" /\ me.job = "RUNNING" /\ step'[ReviewStep] = step[ReviewStep]
      BY <1>t, <1>c, <1>x DEF Complete, TypeOK, Steps
    <2>4. JobRowsHold'
      BY <1>t, <1>c, <2>3 DEF JobRowsHold, CompletedMeansCommitted
    <2>5. sess'[s] = r /\ \A t \in Sessions \ {s} : sess'[t].pc = "idle"
      BY <1>t, <1>c, <1>x, <2>2, Alone
    <2>6. JobHeld(sess[s])'
      BY <2>1, <2>3, <2>5 DEF JobHeld
    <2> QED BY <2>4, <2>5, <2>6, OnlyJob
  <1>1. CASE SkipBuild(s)
    BY <1>1, <1>c DEF SkipBuild, Steps
  <1>2. ASSUME NEW c \in Candidates, NEW opened \in SUBSET {"multi_item", "date"},
               BuildCandidate(s, c, opened)
        PROVE  JobHolds'
    BY <1>2, <1>c DEF BuildCandidate, Steps
  <1>3. ASSUME NEW c \in Candidates, NEW k \in {"new", "duplicate"},
               NEW opened \in SUBSET {"identifier_collision"}, Deduplicate(s, c, k, opened)
        PROVE  JobHolds'
    BY <1>3, <1>c DEF Deduplicate, Steps
  <1>4. CASE AwaitReview(s)
    <2>1. ~At(s, "idle") /\ End(s) /\ job' = "AWAITING_REVIEW"
      BY <1>4, <1>x DEF AwaitReview, Steps, Flush
    <2>2. step'[ReviewStep] = "AWAITING_REVIEW"
      BY <1>t, <1>4 DEF AwaitReview, TypeOK, Steps
    <2>3. JobRowsHold'
      BY <2>1, <2>2 DEF JobRowsHold, CompletedMeansCommitted
    <2> QED BY <1>t, <2>1, <2>3, EndJob
  <1>d. ASSUME Executes(s, CommitStep), CommitDone(s), UNCHANGED kind,
               review'.decided = review.decided,
               review.decided # None =>
                 made'[review.decided] = 1 \/ kind[review.decided] = "duplicate"
        PROVE  JobHolds'
    <2>1. /\ job' = "COMPLETED" /\ step' = [step EXCEPT ![CommitStep] = "COMPLETED"]
          /\ \A j \in Steps : j < CommitStep => step[j] = "COMPLETED"
          /\ End(s) /\ ~At(s, "idle")
      BY <1>d, <1>x DEF CommitDone, Flush, Steps
    <2>2. \A j \in Steps : step'[j] = "COMPLETED"
      BY <1>t, <2>1 DEF TypeOK, Steps
    <2>3. review.decided # None
      BY <1>t, <2>1 DEF JobRowsHold, Steps
    <2>4. JobRowsHold'
      BY <1>d, <2>1, <2>2, <2>3 DEF JobRowsHold, CompletedMeansCommitted
    <2> QED BY <1>t, <2>1, <2>4, EndJob
  <1>v. ASSUME Executes(s, CommitStep), Committable(s)
        PROVE  /\ CommitTarget(s) = review.decided /\ review.decided \in Candidates
               /\ RecordedAsset(s) = made[review.decided] /\ made[review.decided] <= 1
    <2>1. me.review = review /\ review.decided # None
      BY <1>t, <1>v, <1>x DEF JobRowsHold, Steps
    <2>2. review.decided \in Candidates
      BY <1>t, <2>1 DEF TypeOK, ReviewOut
    <2> QED BY <1>t, <2>1, <2>2 DEF CommitTarget, RecordedAsset, CommitRecordExact
  <1>5. CASE ReturnRecorded(s)
    <2>1. made[review.decided] = 1
      BY <1>t, <1>5, <1>v DEF ReturnRecorded, TypeOK
    <2> QED BY <1>5, <1>d, <2>1 DEF ReturnRecorded
  <1>6. ASSUME NEW dated \in BOOLEAN, LinkDuplicate(s, dated) PROVE JobHolds'
    BY <1>6, <1>d, <1>v DEF LinkDuplicate
  <1>7. CASE CreateAsset(s)
    <2>1. CommitTarget(s) = review.decided /\ made'[review.decided] = 1
      BY <1>t, <1>7, <1>v DEF CreateAsset, TypeOK
    <2>2. review'.decided = review.decided
      BY <1>7, <1>x DEF CreateAsset, Steps
    <2> QED BY <1>7, <1>d, <2>1, <2>2 DEF CreateAsset
  <1>8. CASE RefuseCommit(s)
    <2>1. End(s) /\ ~At(s, "idle") /\ job' = "FAILED" /\ review' = review
      BY <1>8, <1>x DEF RefuseCommit, RaiseStep, Steps
    <2>2. step' = [step EXCEPT ![CommitStep] = "FAILED"]
      BY <1>8 DEF RefuseCommit, RaiseStep
    <2>3. JobRowsHold'
      BY <1>t, <2>1, <2>2 DEF JobRowsHold, FailedSteps, CompletedMeansCommitted, TypeOK, Steps
    <2> QED BY <1>t, <2>1, <2>3, EndJob
  <1> QED BY <1>1, <1>2, <1>3, <1>4, <1>5, <1>6, <1>7, <1>8 DEF Execute

LEMMA NextJob ==
  Serialized /\ SerialInv /\ CandidatesHold /\ JobHolds /\ [Next]_vars => JobHolds'
  <1> SUFFICES ASSUME Serialized, SerialInv, CandidatesHold, JobHolds, [Next]_vars
               PROVE  JobHolds'
    OBVIOUS
  <1>t. TypeOK /\ OneRequest /\ JobRowsHold
    BY DEF SerialInv, JobHolds
  <1>1. CASE ResolveTask \/ UNCHANGED vars
    <2>1. UNCHANGED <<job, step, review, kind, made, sess>>
      BY <1>1 DEF ResolveTask, vars
    <2> QED BY <1>t, <2>1, SameJob DEF JobHolds, JobHeld
  <1>2. ASSUME NEW s \in Sessions, FailStep(s) PROVE JobHolds'
    <2>1. PICK i \in Steps \ {1, 2, ReviewStep} : RaiseStep(s, i)
      BY <1>2 DEF FailStep
    <2>2. /\ End(s) /\ ~At(s, "idle") /\ job' = "FAILED" /\ review' = review
          /\ step' = [step EXCEPT ![i] = "FAILED"]
      BY <2>1 DEF RaiseStep, Executes, At
    <2>3. JobRowsHold'
      BY <1>t, <2>1, <2>2 DEF JobRowsHold, FailedSteps, CompletedMeansCommitted, TypeOK, Steps
    <2> QED BY <1>t, <2>2, <2>3, EndJob
  <1>3. ASSUME NEW s \in Sessions, Crash(s) PROVE JobHolds'
    BY <1>t, <1>3, SameJob, EndJob DEF Crash, rows, At
  <1> QED
    BY <1>1, <1>2, <1>3, StartJob, ReviewJob, LoopJob, ExecuteJob
    DEF Next, Advance, Progress

\* The inductive invariant of the job's state, on top of the candidates'.
THEOREM JobInvariant == Serialized => (Spec => []JobHolds)
  <1> SUFFICES ASSUME Serialized PROVE Spec => []JobHolds
    OBVIOUS
  <1>1. Init => JobHolds
    BY InitJob
  <1>2. SerialInv /\ CandidatesHold /\ JobHolds /\ [Next]_vars => JobHolds'
    BY NextJob
  <1>3. Spec => [](SerialInv /\ CandidatesHold)
    BY CandidatesInvariant
  <1> QED BY <1>1, <1>2, <1>3, PTL DEF Spec

\* When requests arrive one at a time, a job is COMPLETED only when each of its
\* steps is and the decided candidate has its asset or its link.
THEOREM CompletedIsCommitted == Serialized => (Spec => []CompletedMeansCommitted)
  <1>1. JobHolds => CompletedMeansCommitted
    BY DEF JobHolds, JobRowsHold
  <1> QED BY <1>1, JobInvariant, PTL

\* And a FAILED job has a FAILED step for retry_job to reset, so that no
\* failure leaves it where nothing can move it.
THEOREM FailedCanRetry == Serialized => (Spec => []FailedIsRetryable)
  <1>1. JobHolds => FailedIsRetryable
    BY DEF JobHolds, JobRowsHold, FailedIsRetryable
  <1> QED BY <1>1, JobInvariant, PTL

-----------------------------------------------------------------------------
(* Requests one at a time and no mishap: every run reaches the review, and the *)
(* run of an approval has only its commit to do, and can do it.                *)

\* Whenever no run is under way the job waits or is done, or was just created.
Waits == /\ job \in {"AWAITING_REVIEW", "COMPLETED"}
         /\ \A j \in Steps : j < ReviewStep => step[j] = "COMPLETED"
Unbuilt == /\ job = "CREATED" /\ \A j \in Steps : step[j] = "PENDING"
           /\ \A c \in Candidates : cand[c] = "absent"

\* The job's first run has nothing approved and its review before it.
Building == /\ \A j \in Steps : step[j] \in {"PENDING", "RUNNING", "COMPLETED"}
            /\ step[ReviewStep] # "COMPLETED"
            /\ \A c \in Candidates : cand[c] \in {"absent", "proposed"}

\* The run of an approval has the commit of its candidate before it.
Committing == /\ \A j \in Steps : j < CommitStep => step[j] = "COMPLETED"
              /\ step[CommitStep] \in {"PENDING", "RUNNING"}

Approves(me) == me.op \in {"accept", "edit"}
Smooth(me) ==
  /\ me.pc # "retry"
  /\ me.pc \in {"decide", "prepare", "reset"} => Waits
  /\ me.pc = "enter" => Unbuilt /\ me.op = "run"
  /\ me.pc # "idle" /\ Approves(me) => Blocking(me.cand) = {}
  /\ me.pc \in {"load", "loop", "exec"} =>
       \/ me.op = "run" /\ Building
       \/ Approves(me) /\ Committing /\ review.decided = me.cand

\* An approval is answered by an asset or a link, or its request is under way.
Answered(c) == made[c] > 0 \/ kind[c] = "duplicate"
Answering(me, c) == me.pc \notin {"idle", "decide"} /\ Approves(me) /\ me.cand = c

RunsSmoothly ==
  ~mishap => /\ \A s \in Sessions : Smooth(sess[s])
             /\ AllIdle => Waits \/ Unbuilt
             /\ \A c \in Candidates : cand[c] \in Approved =>
                  Answered(c) \/ \E s \in Sessions : Answering(sess[s], c)

\* What the argument rests on: the record, the candidates and the job.
ReviewInv == SerialInv /\ CandidatesHold /\ JobHolds

LEMMA InitSmooth == Init => RunsSmoothly
  BY DEF Init, Idle, RunsSmoothly, Smooth, Unbuilt, Approved

\* The request that moved is the only one whose smoothness is to show.
LEMMA GoesOnSmoothly ==
  ASSUME TypeOK, OneRequest, NEW s \in Sessions, NEW r, Becomes(s, r),
         ~At(s, "idle") \/ AllIdle, r.pc # "idle", Smooth(sess[s])',
         \A c \in Candidates : cand'[c] \in Approved => Answered(c)' \/ Answering(r, c)
  PROVE  RunsSmoothly'
  <1>1. sess'[s] = r /\ \A t \in Sessions \ {s} : sess'[t].pc = "idle"
    BY Alone
  <1>2. ~AllIdle'
    BY <1>1 DEF AllIdle, At
  <1>3. \A t \in Sessions : Smooth(sess[t])'
    BY <1>1 DEF Smooth
  <1>4. \A c \in Candidates : cand'[c] \in Approved =>
          Answered(c)' \/ \E t \in Sessions : Answering(sess[t], c)'
    BY <1>1 DEF Answering, Approves
  <1> QED BY <1>2, <1>3, <1>4 DEF RunsSmoothly

LEMMA EndsSmoothly ==
  ASSUME TypeOK, OneRequest, NEW s \in Sessions, ~At(s, "idle"), End(s), (Waits \/ Unbuilt)',
         \A c \in Candidates : cand'[c] \in Approved => Answered(c)'
  PROVE  RunsSmoothly'
  <1>1. sess'[s].pc = "idle"
    BY DEF TypeOK, End, Becomes, Idle
  <1>2. \A t \in Sessions \ {s} : sess'[t].pc = "idle"
    BY Alone DEF End
  <1>3. \A t \in Sessions : Smooth(sess[t])'
    BY <1>1, <1>2 DEF Smooth
  <1> QED BY <1>3 DEF RunsSmoothly

\* Only the request under way can have an approval that is not answered yet.
LEMMA OthersAnswered ==
  ASSUME OneRequest, RunsSmoothly, ~mishap, NEW s \in Sessions, ~At(s, "idle"),
         NEW c \in Candidates, cand[c] \in Approved
  PROVE  Answered(c) \/ Answering(sess[s], c)
  BY DEF RunsSmoothly, OneRequest, Answering, At

\* A decision starts only on a job that waits, and a run only on a new one.
LEMMA StartSmooth ==
  ASSUME Serialized, TypeOK, OneRequest, RunsSmoothly, ~mishap, NEW s \in Sessions, Start(s)
  PROVE  RunsSmoothly'
  <1>1. ASSUME AllIdle
        PROVE  /\ Waits \/ Unbuilt
               /\ \A c \in Candidates : cand[c] \in Approved => Answered(c)
    BY <1>1 DEF RunsSmoothly, Answering, AllIdle, At
  <1>2. ASSUME NEW r, AllIdle, Becomes(s, r), UNCHANGED rows, r.pc = "decide", Waits,
               Approves(r) => Blocking(r.cand) = {}
        PROVE  RunsSmoothly'
    <2>1. sess'[s] = r
      BY <1>2, Alone
    <2>2. Smooth(sess[s])'
      BY <1>2, <2>1 DEF Smooth, Waits, Approves, Blocking, rows
    <2>3. \A c \in Candidates : cand'[c] \in Approved => Answered(c)'
      BY <1>1, <1>2 DEF Answered, rows
    <2> QED BY <1>2, <2>2, <2>3, GoesOnSmoothly
  <1>3. ASSUME NEW c \in Candidates, NEW op \in Op, BeginDecision(s, c, op) PROVE RunsSmoothly'
    <2> DEFINE r == [Idle EXCEPT !.pc = "decide", !.op = op, !.cand = c, !.seen = cand[c]]
    <2>1. r.pc = "decide" /\ r.op = op /\ r.cand = c
      BY DEF Idle
    <2>2. AllIdle /\ Becomes(s, r) /\ UNCHANGED rows
      BY <1>3 DEF BeginDecision, Quiet
    <2> HIDE DEF r
    <2>3. Waits /\ (Approves(r) => Blocking(c) = {})
      BY <1>1, <1>3, <2>1, <2>2 DEF BeginDecision, Decidable, Unbuilt, Approves
    <2> QED BY <1>2, <2>1, <2>2, <2>3
  <1>4. ASSUME NEW c \in Candidates, BeginSplit(s, c) PROVE RunsSmoothly'
    <2> DEFINE r == [Idle EXCEPT !.pc = "decide", !.op = "split", !.cand = c, !.seen = cand[c]]
    <2>1. r.pc = "decide" /\ ~Approves(r)
      BY DEF Idle, Approves
    <2>2. AllIdle /\ Becomes(s, r) /\ UNCHANGED rows
      BY <1>4 DEF BeginSplit, Quiet
    <2> HIDE DEF r
    <2>3. Waits
      BY <1>1, <1>4, <2>2 DEF BeginSplit, Splittable, Unbuilt
    <2> QED BY <1>2, <2>1, <2>2, <2>3
  <1>5. ASSUME NEW c \in Candidates, NEW losers \in SUBSET Candidates, BeginMerge(s, c, losers)
        PROVE  RunsSmoothly'
    <2> DEFINE r == [Idle EXCEPT !.pc = "decide", !.op = "merge", !.cand = c,
                                 !.losers = losers, !.seen = "proposed"]
    <2>1. r.pc = "decide" /\ ~Approves(r)
      BY DEF Idle, Approves
    <2>2. AllIdle /\ Becomes(s, r) /\ UNCHANGED rows
      BY <1>5 DEF BeginMerge, Quiet
    <2> HIDE DEF r
    <2>3. Waits
      BY <1>1, <1>5, <2>2 DEF BeginMerge, Unbuilt
    <2> QED BY <1>2, <2>1, <2>2, <2>3
  <1>6. CASE RunRequest(s)
    <2> DEFINE r == [Idle EXCEPT !.pc = "enter", !.op = "run", !.job = job]
    <2>1. r.pc = "enter" /\ r.op = "run"
      BY DEF Idle
    <2>2. AllIdle /\ Becomes(s, r) /\ UNCHANGED rows
      BY <1>6 DEF RunRequest, Quiet
    <2> HIDE DEF r
    <2>3. Unbuilt
      BY <1>1, <1>6, <2>2 DEF RunRequest, Settled, Waits
    <2>4. sess'[s] = r
      BY <2>2, Alone
    <2>5. Smooth(sess[s])'
      BY <2>1, <2>2, <2>3, <2>4 DEF Smooth, Unbuilt, Approves, rows
    <2>6. \A c \in Candidates : cand'[c] \in Approved => Answered(c)'
      BY <1>1, <2>2 DEF Answered, rows
    <2> QED BY <2>1, <2>2, <2>5, <2>6, GoesOnSmoothly
  <1>7. CASE RetryRequest(s)
    <2>1. AllIdle /\ job = "FAILED"
      BY <1>7 DEF RetryRequest, Quiet
    <2> QED BY <1>1, <2>1 DEF Waits, Unbuilt
  <1> QED BY <1>3, <1>4, <1>5, <1>6, <1>7 DEF Start, CandidateRequest

\* An approval records itself and prepares the one step it has to run.
LEMMA ReviewSmooth ==
  ASSUME ReviewInv, RunsSmoothly, ~mishap, NEW s \in Sessions, ReviewWrite(s)
  PROVE  RunsSmoothly'
  <1> DEFINE me == sess[s]
  <1>t. /\ TypeOK /\ OneRequest /\ SnapshotsCurrent
        /\ DecisionHeld(me) /\ ApprovalHeld(me) /\ JobHeld(me) /\ Smooth(me)
    BY DEF ReviewInv, SerialInv, CandidatesHold, JobHolds, RunsSmoothly
  <1>s. me \in Session
    BY <1>t DEF TypeOK
  <1>a. ASSUME ~At(s, "idle"), NEW c \in Candidates, cand[c] \in Approved
        PROVE  Answered(c) \/ Answering(me, c)
    BY <1>t, <1>a, OthersAnswered
  <1>e. ASSUME End(s), me.pc = "decide", UNCHANGED <<job, step, kind, made>>,
               \A c \in Candidates : cand'[c] \in Approved => cand[c] \in Approved
        PROVE  RunsSmoothly'
    <2>1. ~At(s, "idle") /\ Waits /\ \A c \in Candidates : ~Answering(me, c)
      BY <1>t, <1>e DEF At, Smooth, Answering
    <2>2. Waits' /\ \A c \in Candidates : cand'[c] \in Approved => Answered(c)'
      BY <1>e, <1>a, <2>1 DEF Waits, Answered
    <2> QED BY <1>t, <1>e, <2>1, <2>2, EndsSmoothly
  <1>1. CASE RecordDecision(s)
    <2> DEFINE r == [me EXCEPT !.pc = "prepare", !.seen = Decision(me.op)]
    <2>1. r.pc = "prepare" /\ r.op = me.op /\ r.cand = me.cand
      BY <1>s DEF Session
    <2> HIDE DEF r
    <2>2. /\ Becomes(s, r) /\ ~At(s, "idle") /\ me.pc = "decide" /\ Approves(me)
          /\ UNCHANGED <<job, step, tasks, kind, made>>
      BY <1>1 DEF RecordDecision, r, At, Approves
    <2>3. sess'[s] = r
      BY <1>t, <2>2, Alone
    <2>4. Smooth(sess[s])'
      BY <1>t, <2>1, <2>2, <2>3 DEF Smooth, Waits, Approves, Blocking
    <2>5. \A c \in Candidates : cand'[c] \in Approved => Answered(c)' \/ Answering(r, c)
      <3>1. \A c \in Candidates : c # me.cand => cand'[c] = cand[c]
        BY <1>t, <1>1 DEF RecordDecision, TypeOK
      <3> QED BY <1>a, <2>1, <2>2, <3>1 DEF Answered, Answering, Approves
    <2> QED BY <1>t, <2>1, <2>2, <2>4, <2>5, GoesOnSmoothly
  <1>2. CASE HoldOrReject(s)
    <2>1. me.pc = "decide" /\ Decision(me.op) \in {"held", "rejected"} /\ End(s)
          /\ UNCHANGED <<job, step, kind, made>>
      BY <1>2 DEF HoldOrReject, Decision
    <2>2. me.cand \in Candidates /\ me.seen = cand[me.cand]
      BY <1>t, <2>1 DEF DecisionHeld
    <2>3. \A c \in Candidates : cand'[c] \in Approved => cand[c] \in Approved
      BY <1>t, <1>2, <2>1, <2>2 DEF HoldOrReject, Flush, TypeOK, Approved
    <2> QED BY <1>e, <2>1, <2>3
  <1>3. CASE ReadJob(s)
    <2> DEFINE r == [me EXCEPT !.pc = "reset", !.job = job, !.step = step,
                               !.review = review, !.commit = commit]
    <2>1. r.pc = "reset" /\ r.op = me.op /\ r.cand = me.cand
      BY <1>s DEF Session
    <2> HIDE DEF r
    <2>2. Becomes(s, r) /\ ~At(s, "idle") /\ me.pc = "prepare" /\ UNCHANGED rows
      BY <1>3 DEF ReadJob, r, At
    <2>3. sess'[s] = r
      BY <1>t, <2>2, Alone
    <2>4. Smooth(sess[s])'
      BY <1>t, <2>1, <2>2, <2>3 DEF Smooth, Waits, Approves, Blocking, rows
    <2>5. \A c \in Candidates : cand'[c] \in Approved => Answered(c)' \/ Answering(r, c)
      BY <1>a, <2>1, <2>2 DEF Answered, Answering, Approves, rows
    <2> QED BY <1>t, <2>1, <2>2, <2>4, <2>5, GoesOnSmoothly
  <1>4. CASE PrepareCommit(s)
    <2> DEFINE r == [me EXCEPT !.pc = "load", !.job = "RUNNING"]
    <2>1. r.pc = "load" /\ r.op = me.op /\ r.cand = me.cand
      BY <1>s DEF Session
    <2> HIDE DEF r
    <2>2. /\ Becomes(s, r) /\ ~At(s, "idle") /\ me.pc = "reset"
          /\ UNCHANGED <<cand, tasks, kind, made>>
      BY <1>4 DEF PrepareCommit, r, At
    <2>3. me.step = step /\ me.review = review /\ Waits /\ Approves(me)
      BY <1>t, <2>2 DEF SnapshotsCurrent, Smooth, ApprovalHeld, Approves
    <2>4. step' = [step EXCEPT ![ReviewStep] = "COMPLETED", ![CommitStep] = "PENDING"]
      BY <1>t, <1>4, <2>3 DEF PrepareCommit, Flush, TypeOK
    <2>5. review'.decided = me.cand
      BY <1>4, <2>3 DEF PrepareCommit, Flush
    <2>6. Committing'
      BY <1>t, <2>3, <2>4 DEF Committing, Waits, TypeOK, Steps
    <2>7. sess'[s] = r
      BY <1>t, <2>2, Alone
    <2>8. Smooth(sess[s])'
      BY <1>t, <2>1, <2>2, <2>3, <2>5, <2>6, <2>7 DEF Smooth, Approves, Blocking
    <2>9. \A c \in Candidates : cand'[c] \in Approved => Answered(c)' \/ Answering(r, c)
      BY <1>a, <2>1, <2>2 DEF Answered, Answering, Approves
    <2> QED BY <1>t, <2>1, <2>2, <2>8, <2>9, GoesOnSmoothly
  <1>5. ASSUME NEW kids \in SUBSET Candidates, NEW undated \in SUBSET kids,
               SplitCandidate(s, kids, undated)
        PROVE  RunsSmoothly'
    BY <1>e, <1>5 DEF SplitCandidate, Approved
  <1>6. CASE MergeCandidates(s)
    BY <1>e, <1>6 DEF MergeCandidates, Approved
  <1> QED BY <1>1, <1>2, <1>3, <1>4, <1>5, <1>6 DEF ReviewWrite

\* The loop of a run goes on to the step that ends it, the review or the commit.
LEMMA LoopSmooth ==
  ASSUME ReviewInv, RunsSmoothly, ~mishap, NEW s \in Sessions, RunLoop(s)
  PROVE  RunsSmoothly'
  <1> DEFINE me == sess[s]
  <1>t. TypeOK /\ OneRequest /\ SnapshotsCurrent /\ JobHeld(me) /\ Smooth(me)
    BY DEF ReviewInv, SerialInv, JobHolds, RunsSmoothly
  <1>s. me \in Session
    BY <1>t DEF TypeOK
  <1>u. UNCHANGED <<cand, kind, multi, first, tasks, made, assetTask>>
    BY LoopKeepsRows
  <1>g. ASSUME NEW r, Becomes(s, r), me.pc \in {"enter", "load", "loop", "exec"},
               r.pc \in {"load", "loop", "exec"}, r.op = me.op, r.cand = me.cand,
               me.op = "run" /\ Building => Building',
               Approves(me) /\ Committing => Committing' /\ review'.decided = review.decided,
               me.pc = "enter" => me.op = "run" /\ Building'
        PROVE  RunsSmoothly'
    <2>1. ~At(s, "idle")
      BY <1>g DEF At
    <2>2. sess'[s] = r
      BY <1>t, <1>g, <2>1, Alone
    <2>3. \/ r.op = "run" /\ Building'
          \/ Approves(r) /\ Committing' /\ review'.decided = r.cand
      BY <1>t, <1>g DEF Smooth, Approves
    <2>4. Smooth(sess[s])'
      BY <1>t, <1>u, <1>g, <2>2, <2>3 DEF Smooth, Approves, Blocking
    <2>5. \A c \in Candidates : cand'[c] \in Approved => Answered(c)' \/ Answering(r, c)
      BY <1>t, <1>u, <1>g, <2>1, OthersAnswered DEF Answered, Answering, Approves
    <2> QED BY <1>t, <1>g, <2>1, <2>4, <2>5, GoesOnSmoothly
  <1>1. CASE RetryJob(s) \/ RetryNothing(s)
    BY <1>t, <1>1 DEF RetryJob, RetryNothing, At, Smooth
  <1>2. CASE EnterRun(s)
    <2> DEFINE r == [me EXCEPT !.pc = "load", !.job = "RUNNING"]
    <2>1. r.pc = "load" /\ r.op = me.op /\ r.cand = me.cand
      BY <1>s DEF Session
    <2> HIDE DEF r
    <2>2. Becomes(s, r) /\ me.pc = "enter" /\ UNCHANGED <<step, review>>
      BY <1>2 DEF EnterRun, r, At
    <2>3. me.op = "run" /\ Unbuilt
      BY <1>t, <2>2 DEF Smooth
    <2>4. Building'
      BY <1>u, <2>2, <2>3 DEF Unbuilt, Building, Steps
    <2> QED BY <1>g, <2>1, <2>2, <2>3, <2>4 DEF Approves
  <1>3. CASE LoadSteps(s)
    <2> DEFINE r == [me EXCEPT !.pc = "loop", !.pos = 1, !.step = step, !.review = review]
    <2>1. r.pc = "loop" /\ r.op = me.op /\ r.cand = me.cand
      BY <1>s DEF Session
    <2> HIDE DEF r
    <2>2. Becomes(s, r) /\ me.pc = "load" /\ UNCHANGED rows
      BY <1>3 DEF LoadSteps, r, At
    <2>3. (Building => Building') /\ (Committing => Committing') /\ review' = review
      BY <2>2 DEF Building, Committing, rows
    <2> QED BY <1>g, <2>1, <2>2, <2>3
  <1>4. ASSUME NEW i \in Steps, Reaches(s, i)
        PROVE  /\ me.pc = "loop" /\ me.step = step /\ step[i] # "COMPLETED"
               /\ Approves(me) /\ Committing => i = CommitStep
    <2>1. me.pc = "loop" /\ me.step = step /\ step[i] # "COMPLETED"
      BY <1>t, <1>4 DEF Reaches, At, SnapshotsCurrent
    <2> QED BY <2>1 DEF Committing, Steps
  <1>5. ASSUME NEW i \in Steps, MarkStep(s, i) PROVE RunsSmoothly'
    <2> DEFINE st == [me.step EXCEPT ![i] = "RUNNING"]
               rv == IF i = ReviewStep THEN NoReview ELSE me.review
               r  == [me EXCEPT !.pc = "exec", !.pos = i, !.step = st, !.review = rv]
    <2>1. r.pc = "exec" /\ r.op = me.op /\ r.cand = me.cand
      <3> HIDE DEF st, rv
      <3> QED BY <1>s DEF Session
    <2>2. Becomes(s, r) /\ Reaches(s, i)
      BY <1>5 DEF MarkStep
    <2> HIDE DEF r
    <2>3. step' = [step EXCEPT ![i] = "RUNNING"] /\ (i # ReviewStep => review' = review)
      BY <1>t, <1>4, <1>5, <2>2 DEF MarkStep, Flush, TypeOK
    <2>4. Building => Building'
      BY <1>t, <1>u, <2>3 DEF Building, TypeOK, Steps
    <2>5. Approves(me) /\ Committing => Committing' /\ review' = review
      BY <1>t, <1>4, <2>2, <2>3 DEF Committing, TypeOK, Steps
    <2> QED BY <1>4, <1>g, <2>1, <2>2, <2>4, <2>5
  <1>6. ASSUME NEW i \in Steps, ParkAtReview(s, i) PROVE RunsSmoothly'
    <2>1. Reaches(s, i) /\ step[i] = "AWAITING_REVIEW"
      BY <1>4, <1>6 DEF ParkAtReview
    <2> QED BY <1>t, <1>4, <2>1 DEF Smooth, Building, Committing
  <1>7. CASE FinishRun(s)
    <2>1. me.pc = "loop" /\ me.pos \in 1..9 /\ \A j \in Steps : step[j] = "COMPLETED"
      <3>1. /\ me.pc = "loop" /\ me.step = step
            /\ \A j \in Steps : j < me.pos => step[j] = "COMPLETED"
        BY <1>t, <1>7 DEF FinishRun, At, SnapshotsCurrent
      <3> QED BY <1>s, <1>7, <3>1 DEF FinishRun, Session, Steps
    <2> QED BY <1>t, <2>1 DEF Smooth, Building, Committing, Steps
  <1>8. ASSUME NEW i \in Steps, PlainStep(s, i) PROVE RunsSmoothly'
    <2> DEFINE st == [me.step EXCEPT ![i] = "COMPLETED"]
               r  == [me EXCEPT !.pc = "loop", !.pos = i + 1, !.step = st]
    <2>1. r.pc = "loop" /\ r.op = me.op /\ r.cand = me.cand
      <3> HIDE DEF st
      <3> QED BY <1>s DEF Session
    <2>2. Becomes(s, r) /\ me.pc = "exec" /\ review' = review
      BY <1>8 DEF PlainStep, Executes, Complete, At
    <2> HIDE DEF r
    <2>3. step' = [step EXCEPT ![i] = "COMPLETED"] /\ i < BuildStep
      BY <1>8 DEF PlainStep, Complete
    <2>4. (Building => Building') /\ (Committing => Committing')
      BY <1>t, <1>u, <2>3 DEF Building, Committing, TypeOK, Steps
    <2> QED BY <1>g, <2>1, <2>2, <2>4
  <1> QED BY <1>1, <1>2, <1>3, <1>5, <1>6, <1>7, <1>8 DEF RunLoop

\* The first run hands its candidates to the reviewer, and the run of an
\* approval commits: nothing blocks the candidate it holds.
LEMMA ExecuteSmooth ==
  ASSUME ReviewInv, RunsSmoothly, ~mishap, NEW s \in Sessions, Execute(s)
  PROVE  RunsSmoothly'
  <1> DEFINE me == sess[s]
  <1>t. /\ TypeOK /\ OneRequest /\ SnapshotsCurrent /\ CommitRecordExact
        /\ ApprovalHeld(me) /\ JobHeld(me) /\ Smooth(me)
    BY DEF ReviewInv, SerialInv, CandidatesHold, JobHolds, RunsSmoothly
  <1>s. me \in Session
    BY <1>t DEF TypeOK
  <1>x. ASSUME NEW i \in Steps, Executes(s, i)
        PROVE  /\ me.pc = "exec" /\ ~At(s, "idle") /\ me.review = review
               /\ job = "RUNNING" /\ me.job = "RUNNING"
               /\ step[i] = "RUNNING" /\ \A j \in Steps : j < i => step[j] = "COMPLETED"
    BY <1>t, <1>x DEF Executes, At, JobHeld, SnapshotsCurrent
  \* Only the first run gets to a step before the commit, and only the run of an
  \* approval to the commit.
  <1>r. ASSUME NEW i \in Steps, i < CommitStep, Executes(s, i) PROVE me.op = "run" /\ Building
    BY <1>t, <1>r, <1>x DEF Smooth, Committing, Steps
  <1>d. ASSUME Executes(s, CommitStep)
        PROVE  /\ Approves(me) /\ review.decided = me.cand /\ Blocking(me.cand) = {}
               /\ me.cand \in Candidates /\ me.seen \in Approved /\ CommitTarget(s) = me.cand
    <2>1. step[ReviewStep] = "COMPLETED" /\ me.pc = "exec" /\ me.review = review
      BY <1>d, <1>x DEF Steps
    <2>2. Approves(me) /\ review.decided = me.cand /\ Blocking(me.cand) = {}
      BY <1>t, <2>1 DEF Smooth, Building
    <2>3. me.cand \in Candidates /\ me.seen \in Approved
      BY <1>t, <2>1, <2>2 DEF ApprovalHeld, Approves
    <2> QED BY <2>1, <2>2, <2>3, ConstantsAssumption DEF CommitTarget
  <1>c. ASSUME NEW i \in Steps, i < ReviewStep, Executes(s, i), Complete(s, i),
               \A c \in Candidates : cand'[c] \in {cand[c], "proposed"}
        PROVE  RunsSmoothly'
    <2> DEFINE st == [me.step EXCEPT ![i] = "COMPLETED"]
               r  == [me EXCEPT !.pc = "loop", !.pos = i + 1, !.step = st]
    <2>1. r.pc = "loop" /\ r.op = me.op
      <3> HIDE DEF st
      <3> QED BY <1>s DEF Session
    <2>2. Becomes(s, r)
      BY <1>c DEF Complete
    <2> HIDE DEF r
    <2>3. me.op = "run" /\ Building /\ ~At(s, "idle")
      BY <1>c, <1>r, <1>x DEF Steps
    <2>4. Building'
      BY <1>t, <1>c, <2>3 DEF Building, Complete, TypeOK, Steps
    <2>5. sess'[s] = r
      BY <1>t, <2>2, <2>3, Alone
    <2>6. Smooth(sess[s])'
      BY <2>1, <2>3, <2>4, <2>5 DEF Smooth, Approves
    <2>7. \A c \in Candidates : cand'[c] \notin Approved
      BY <2>4 DEF Building, Approved
    <2> QED BY <1>t, <2>1, <2>2, <2>3, <2>6, <2>7, GoesOnSmoothly
  <1>1. CASE SkipBuild(s)
    BY <1>1, <1>c DEF SkipBuild, Steps
  <1>2. ASSUME NEW c \in Candidates, NEW opened \in SUBSET {"multi_item", "date"},
               BuildCandidate(s, c, opened)
        PROVE  RunsSmoothly'
    <2>1. \A x \in Candidates : cand'[x] \in {cand[x], "proposed"}
      BY <1>t, <1>2 DEF BuildCandidate, NewCandidate, TypeOK
    <2> QED BY <1>2, <1>c, <2>1 DEF BuildCandidate, Steps
  <1>3. ASSUME NEW c \in Candidates, NEW k \in {"new", "duplicate"},
               NEW opened \in SUBSET {"identifier_collision"}, Deduplicate(s, c, k, opened)
        PROVE  RunsSmoothly'
    <2>1. \A x \in Candidates : cand'[x] \in {cand[x], "proposed"}
      BY <1>t, <1>3 DEF Deduplicate, NewCandidate, TypeOK
    <2> QED BY <1>3, <1>c, <2>1 DEF Deduplicate, Steps
  <1>4. CASE AwaitReview(s)
    <2>1. /\ Executes(s, ReviewStep) /\ End(s) /\ UNCHANGED cand
          /\ step' = [step EXCEPT ![ReviewStep] = "AWAITING_REVIEW"]
      BY <1>4 DEF AwaitReview
    <2>2. Building /\ ~At(s, "idle") /\ job' = "AWAITING_REVIEW"
          /\ \A j \in Steps : j < ReviewStep => step[j] = "COMPLETED"
      BY <1>4, <1>r, <1>x, <2>1 DEF AwaitReview, Flush, Steps
    <2>3. Waits'
      BY <1>t, <2>1, <2>2 DEF Waits, TypeOK, Steps
    <2>4. \A c \in Candidates : cand'[c] \notin Approved
      BY <2>1, <2>2 DEF Building, Approved
    <2> QED BY <1>t, <2>1, <2>2, <2>3, <2>4, EndsSmoothly
  <1>5. CASE RefuseCommit(s)
    <2>1. Executes(s, CommitStep) /\ ~Committable(s)
      BY <1>5 DEF RefuseCommit
    <2>2. Committable(s)
      BY <1>d, <2>1, ConstantsAssumption DEF Committable, StateSeen, Approves
    <2> QED BY <2>1, <2>2
  <1>e. ASSUME Executes(s, CommitStep), CommitDone(s), UNCHANGED <<cand, kind>>,
               made'[me.cand] > 0 \/ kind[me.cand] = "duplicate",
               \A c \in Candidates \ {me.cand} : made'[c] = made[c]
        PROVE  RunsSmoothly'
    <2>1. /\ End(s) /\ ~At(s, "idle") /\ job' = "COMPLETED"
          /\ step' = [step EXCEPT ![CommitStep] = "COMPLETED"]
          /\ \A j \in Steps : j < CommitStep => step[j] = "COMPLETED"
      BY <1>e, <1>x DEF CommitDone, Flush, Steps
    <2>2. Waits'
      BY <1>t, <2>1 DEF Waits, TypeOK, Steps
    <2>3. \A c \in Candidates : cand'[c] \in Approved => Answered(c)'
      BY <1>t, <1>e, <2>1, OthersAnswered DEF Answered, Answering
    <2> QED BY <1>t, <2>1, <2>2, <2>3, EndsSmoothly
  <1>6. CASE ReturnRecorded(s)
    <2>1. made[me.cand] # 0 /\ made'[me.cand] = made[me.cand] /\ made[me.cand] \in Nat
      BY <1>t, <1>6, <1>d, <1>x
      DEF ReturnRecorded, RecordedAsset, CommitRecordExact, TypeOK, Steps
    <2> QED BY <1>6, <1>e, <2>1 DEF ReturnRecorded
  <1>7. ASSUME NEW dated \in BOOLEAN, LinkDuplicate(s, dated) PROVE RunsSmoothly'
    <2>1. kind[me.cand] = "duplicate"
      BY <1>7, <1>d DEF LinkDuplicate
    <2> QED BY <1>7, <1>e, <2>1 DEF LinkDuplicate
  <1>8. CASE CreateAsset(s)
    <2>1. /\ Executes(s, CommitStep) /\ CommitTarget(s) = me.cand /\ me.cand \in Candidates
          /\ made' = [made EXCEPT ![me.cand] = made[me.cand] + 1]
      BY <1>8, <1>d DEF CreateAsset
    <2>2. made'[me.cand] > 0 /\ \A c \in Candidates \ {me.cand} : made'[c] = made[c]
      BY <1>t, <2>1 DEF TypeOK
    <2> QED BY <1>8, <1>e, <2>1, <2>2 DEF CreateAsset
  <1> QED BY <1>1, <1>2, <1>3, <1>4, <1>5, <1>6, <1>7, <1>8 DEF Execute

LEMMA NextSmooth ==
  Serialized /\ ReviewInv /\ RunsSmoothly /\ [Next]_vars => RunsSmoothly'
  <1> SUFFICES ASSUME Serialized, ReviewInv, RunsSmoothly, [Next]_vars, ~mishap'
               PROVE  RunsSmoothly'
    BY DEF RunsSmoothly
  <1>t. TypeOK /\ OneRequest
    BY DEF ReviewInv, SerialInv
  <1>m. ~mishap
    BY DEF Next, Advance, vars
  <1>1. CASE ResolveTask
    <2>1. UNCHANGED <<job, step, cand, kind, made, sess>> /\ AllIdle
      BY <1>1 DEF ResolveTask, Quiet
    <2>2. \A s \in Sessions : Smooth(sess[s])'
      BY <2>1 DEF AllIdle, At, Smooth
    <2>3. (Waits \/ Unbuilt)'
      BY <1>m, <2>1 DEF RunsSmoothly, Waits, Unbuilt
    <2>4. \A c \in Candidates : cand'[c] \in Approved => Answered(c)'
      BY <1>m, <2>1 DEF RunsSmoothly, Answered, Answering, AllIdle, At
    <2> QED BY <2>2, <2>3, <2>4 DEF RunsSmoothly
  <1>2. CASE UNCHANGED vars
    BY <1>2 DEF vars, RunsSmoothly, Smooth, Waits, Unbuilt, Building, Committing, Approves,
                Blocking, Answered, Answering, AllIdle, At
  <1> QED
    BY <1>t, <1>m, <1>1, <1>2, StartSmooth, ReviewSmooth, LoopSmooth, ExecuteSmooth
    DEF Next, Advance, Progress

\* The inductive invariant of requests without a mishap.
THEOREM SmoothInvariant == Serialized => (Spec => []RunsSmoothly)
  <1> SUFFICES ASSUME Serialized PROVE Spec => []RunsSmoothly
    OBVIOUS
  <1>1. Init => RunsSmoothly
    BY InitSmooth
  <1>2. (SerialInv /\ CandidatesHold) /\ JobHolds /\ RunsSmoothly /\ [Next]_vars => RunsSmoothly'
    BY NextSmooth DEF ReviewInv
  <1>3. Spec => [](SerialInv /\ CandidatesHold)
    BY CandidatesInvariant
  <1>4. Spec => []JobHolds
    BY JobInvariant
  <1> QED BY <1>1, <1>2, <1>3, <1>4, PTL DEF Spec

\* When requests arrive one at a time and none dies or fails, each approved
\* candidate got its own commit pass by the time its request returns
\* (_prepare_commit_steps).
THEOREM ApprovedCommits == Serialized => (Spec => []ApprovedIsCommitted)
  <1>1. RunsSmoothly => ApprovedIsCommitted
    BY DEF RunsSmoothly, ApprovedIsCommitted, Answered, Answering, AllIdle, At
  <1> QED BY <1>1, SmoothInvariant, PTL

\* And no request returns with the job left RUNNING, where nobody can act on it
\* (run_job).
THEOREM RunsEnd == Serialized => (Spec => []NeverLeftRunning)
  <1>1. RunsSmoothly => NeverLeftRunning
    BY DEF RunsSmoothly, NeverLeftRunning, Waits, Unbuilt
  <1> QED BY <1>1, SmoothInvariant, PTL
=============================================================================
