------------------------- MODULE CandidateContract -------------------------
(***************************************************************************)
(* What the review workflow promises of one import job's candidates,       *)
(* without job steps, requests, snapshots or failures: a candidate is      *)
(* proposed once, decided by the reviewer, and turned into at most one     *)
(* asset, and only while its decision says so.  ImportJob implements this  *)
(* when requests on a job arrive one at a time.                            *)
(***************************************************************************)
EXTENDS Naturals

CONSTANTS Candidates    \* candidate rows of one job

VARIABLES cand,         \* review state of each candidate
          made          \* number of assets made from each candidate

cvars == <<cand, made>>

CandidateState == {"absent", "proposed", "accepted", "edited", "held",
                   "rejected", "split", "merged"}
Closed   == {"rejected", "split", "merged"}
Approved == {"accepted", "edited"}

Decidable(c) == cand[c] \notin Closed \cup {"absent"}

CInit == /\ cand = [c \in Candidates |-> "absent"]
         /\ made = [c \in Candidates |-> 0]

Propose(c) == /\ cand[c] = "absent"
              /\ cand' = [cand EXCEPT ![c] = "proposed"]
              /\ UNCHANGED made

Decide(c, d) == /\ Decidable(c)
                /\ d \in {"accepted", "edited", "held", "rejected"}
                /\ cand' = [cand EXCEPT ![c] = d]
                /\ UNCHANGED made

\* A candidate with an asset is never split or merged away.
Split(c, kids) == /\ cand[c] = "proposed"
                  /\ made[c] = 0
                  /\ \A k \in kids : cand[k] = "absent"
                  /\ cand' = [x \in Candidates |->
                                IF x = c THEN "split"
                                ELSE IF x \in kids THEN "proposed" ELSE cand[x]]
                  /\ UNCHANGED made

Merge(winner, losers) == /\ winner \notin losers
                         /\ \A x \in losers \cup {winner} : cand[x] = "proposed"
                         /\ \A x \in losers : made[x] = 0
                         /\ cand' = [x \in Candidates |->
                                       IF x \in losers THEN "merged" ELSE cand[x]]
                         /\ UNCHANGED made

Commit(c) == /\ cand[c] \in Approved
             /\ made[c] = 0
             /\ made' = [made EXCEPT ![c] = 1]
             /\ UNCHANGED cand

CNext == \/ \E c \in Candidates :
              \/ Propose(c)
              \/ \E d \in CandidateState : Decide(c, d)
              \/ \E kids \in SUBSET Candidates : Split(c, kids)
              \/ \E losers \in SUBSET Candidates : Merge(c, losers)
              \/ Commit(c)

CSpec == CInit /\ [][CNext]_cvars
=============================================================================
