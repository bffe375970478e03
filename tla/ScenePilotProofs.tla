-------------------------- MODULE ScenePilotProofs --------------------------
(***************************************************************************)
(* What holds of the scene scripts for any number of photos, sends and     *)
(* runs: types, no call without its row passed over, the row every       *)
(* linked render resolves to, the slice that a send closes and, while no   *)
(* two runs overlap, the owner's cap.                                      *)
(***************************************************************************)
EXTENDS ScenePilot, FiniteSetTheorems, WellFoundedInduction, TLAPS

\* The first photo of a slice is one of the slice, and the tightest of the
\* bounds is at most each of them.
LEMMA LeastOfPhotos ==
  ASSUME NEW T, T \subseteq Nat, T # {}
  PROVE  Least(T) \in T
<1> DEFINE R == {ss \in Nat \X Nat : ss[1] < ss[2]}
<1>1. IsWellFoundedOn(R, Nat)  BY NatLessThanWellFounded DEF OpToRel
<1>2. PICK x \in T : \A y \in T : <<y, x>> \notin R  BY <1>1, WFMin, Zenon
<1>3. \A y \in T : x <= y
  <2> TAKE y \in T
  <2>1. <<y, x>> \in Nat \X Nat  OBVIOUS
  <2>2. ~(y < x)  BY <1>2, <2>1
  <2> QED BY <2>2
<1> QED BY <1>3 DEF Least

LEMMA LeastOfTwo ==
  ASSUME NEW a \in Int, NEW b \in Int
  PROVE  Least({a, b}) \in Int /\ Least({a, b}) <= a /\ Least({a, b}) <= b
<1>1. \E x \in {a, b} : \A y \in {a, b} : x <= y
  <2>1. CASE a <= b  BY <2>1
  <2>2. CASE b <= a  BY <2>2
  <2> QED BY <2>1, <2>2
<1> QED BY <1>1 DEF Least

LEMMA LeastOfThree ==
  ASSUME NEW a \in Int, NEW b \in Int, NEW c \in Int
  PROVE  /\ Least({a, b, c}) \in Int
         /\ Least({a, b, c}) <= a /\ Least({a, b, c}) <= b /\ Least({a, b, c}) <= c
<1>1. \E x \in {a, b, c} : \A y \in {a, b, c} : x <= y
  <2>1. CASE a <= b /\ a <= c  BY <2>1
  <2>2. CASE b <= a /\ b <= c  BY <2>2
  <2>3. CASE c <= a /\ c <= b  BY <2>3
  <2> QED BY <2>1, <2>2, <2>3
<1> QED BY <1>1 DEF Least

\* Counting posts gives a number.
LEMMA CountsAreNumbers ==
  ASSUME posts \in Seq(Post), NEW T, T \subseteq DOMAIN posts
  PROVE  Cardinality(T) \in Nat
<1>1. IsFiniteSet(1..Len(posts))  BY FS_Interval
<1>2. DOMAIN posts = 1..Len(posts)  OBVIOUS
<1> QED BY <1>1, <1>2, FS_Subset, FS_CardinalityType

\* A cap is a number within the remainders that its script reads.
LEMMA CapsAreIntegers ==
  ASSUME TypeOK
  PROVE  /\ Cap217 \in Int /\ Cap219 \in Int /\ Cap225 \in Int /\ Cap226 \in Int
         /\ \A cap \in {Cap217, Cap219, Cap225, Cap226} : cap <= KeyRemainder
         /\ \A cap \in {Cap219, Cap225, Cap226} : cap <= OwnerRemainder
<1>1. posts \in Seq(Post) /\ setting.cap \in Int
  BY DEF TypeOK, Setting
<1>2. KeyRemainder \in Int
  <2>1. Cardinality({i \in DOMAIN posts : Billed(i)}) \in Nat  BY <1>1, CountsAreNumbers
  <2> QED BY <1>1, <2>1 DEF KeyRemainder, KeyUsage
<1>3. OwnerRemainder \in Int
  <2>1. Cardinality(RowsOf("priced")) \in Nat  BY <1>1, CountsAreNumbers DEF RowsOf
  <2> QED BY <1>1, <2>1 DEF OwnerRemainder
<1>4. PilotRenders - Rendered \in Int
  <2>1. Rendered \in Nat
    <3> DEFINE T == {i \in RowsOf("priced") : Pilot(i) /\ posts[i].image}
    <3>1. T \subseteq DOMAIN posts  BY DEF RowsOf
    <3>2. Cardinality(T) \in Nat  BY <1>1, <3>1, CountsAreNumbers
    <3> QED BY <3>2 DEF Rendered
  <2> QED BY <2>1, PilotAssumption
<1>5. PilotRenders - BilledSends \in Int
  <2>1. BilledSends \in Nat
    <3> DEFINE T == {i \in RowsOf("priced") \cup RowsOf("zeroed") : Pilot(i)}
    <3>1. T \subseteq DOMAIN posts  BY DEF RowsOf
    <3>2. Cardinality(T) \in Nat  BY <1>1, <3>1, CountsAreNumbers
    <3> QED BY <3>2 DEF BilledSends
  <2> QED BY <2>1, PilotAssumption
<1>6. PilotRenders - Billed225 \in Int
  <2>1. Billed225 \in Nat
    <3> DEFINE T == {i \in RowsOf("priced") : Pilot(i) /\ (~setting.byok \/ posts[i].image)}
    <3>1. T \subseteq DOMAIN posts  BY DEF RowsOf
    <3>2. Cardinality(T) \in Nat  BY <1>1, <3>1, CountsAreNumbers
    <3> QED BY <3>2 DEF Billed225
  <2> QED BY <2>1, PilotAssumption
<1>7. Cap217 \in Int /\ Cap217 <= KeyRemainder  BY <1>2, <1>4, LeastOfTwo DEF Cap217
<1>8. Cap219 \in Int /\ Cap219 <= KeyRemainder /\ Cap219 <= OwnerRemainder
  BY <1>2, <1>3, <1>5, LeastOfThree DEF Cap219
<1>9. Cap225 \in Int /\ Cap225 <= KeyRemainder /\ Cap225 <= OwnerRemainder
  BY <1>2, <1>3, <1>6, LeastOfThree DEF Cap225
<1>10. Cap226 \in Int /\ Cap226 <= KeyRemainder /\ Cap226 <= OwnerRemainder
  BY <1>2, <1>3, LeastOfTwo DEF Cap226
<1> QED BY <1>7, <1>8, <1>9, <1>10

LEMMA KeyUsageIsInteger ==
  ASSUME TypeOK
  PROVE  KeyUsage \in Int
<1>1. Cardinality({i \in DOMAIN posts : Billed(i)}) \in Nat
  BY CountsAreNumbers DEF TypeOK
<1> QED BY <1>1 DEF KeyUsage

-----------------------------------------------------------------------------
\* A run that is busy has a photo before it; only one that sent has a post.
BusyRuns == \A s \in Scripts : run[s].pc # "idle" => run[s].todo # {}
RestOK == /\ marker \in [Scripts -> [Photos -> Marks]]
          /\ wrong \in BOOLEAN /\ spendFile \in Int /\ overlapped \in BOOLEAN

\* Most steps only settle a run: it ends, or stands before a send.
Settled(r) == /\ r \in Run /\ r.post = 0 /\ r.pc \in {"idle", "leg", "armed"}
              /\ r.pc # "idle" => r.todo # {}
Settles(s) == \E r \in Run : Settled(r) /\ run' = [run EXCEPT ![s] = r]
Quiet == /\ posts' = posts /\ setting' = setting
         /\ run' = run \/ \E s \in Scripts : Settles(s)

LEMMA EndSettles ==
  ASSUME TypeOK, NEW s \in Scripts, End(s)
  PROVE  Settles(s)
<1>1. Idle \in Run /\ Idle.post = 0 /\ Idle.pc = "idle"
  BY PilotAssumption DEF Idle, Run, Pc
<1> QED BY <1>1 DEF End, Settles, Settled

LEMMA ArmSettles ==
  ASSUME TypeOK, BusyRuns, NEW s \in Scripts, NEW cap \in Int, Arm(s, cap),
         run[s].pc = "leg", run[s].post = 0
  PROVE  Settles(s)
<1> DEFINE r == [run[s] EXCEPT !.pc = "armed", !.cap = cap]
<1>1. run[s] \in Run  BY DEF TypeOK
<1>2. r \in Run /\ r.post = 0 /\ r.pc = "armed" /\ r.todo = run[s].todo
  BY <1>1 DEF Run, Pc
<1>3. run[s].todo # {}  BY DEF BusyRuns
<1>4. run' = [run EXCEPT ![s] = r]  BY DEF Arm
<1>5. Settled(r)  BY <1>2, <1>3 DEF Settled
<1> QED BY <1>2, <1>4, <1>5 DEF Settles

LEMMA BeginSettles ==
  ASSUME TypeOK, NEW s \in Scripts, NEW pc \in {"leg", "armed"},
         NEW todo \in SUBSET Photos, todo # {}, NEW cap \in Int, Begin(s, pc, todo, cap)
  PROVE  Settles(s) /\ overlapped' \in BOOLEAN
<1> DEFINE r == [pc |-> pc, todo |-> todo, cap |-> cap, post |-> 0, since |-> Len(posts)]
<1>1. Len(posts) \in 0..MaxPosts  BY PilotAssumption DEF TypeOK
<1>2. r \in Run /\ r.post = 0 /\ r.pc = pc /\ r.todo = todo
  BY <1>1, PilotAssumption DEF Run, Pc
<1>3. run' = [run EXCEPT ![s] = r]  BY DEF Begin
<1>4. Settled(r)  BY <1>2 DEF Settled
<1>5. overlapped' \in BOOLEAN
  <2>1. overlapped' = (overlapped \/ \E t \in Scripts \ {s} : run[t].pc # "idle")  BY DEF Begin
  <2> QED BY <2>1, Zenon DEF TypeOK
<1> QED BY <1>2, <1>3, <1>4, <1>5 DEF Settles

LEMMA LegIsAPhoto ==
  ASSUME TypeOK, NEW s \in Scripts, run[s].todo # {}
  PROVE  Leg(s) \in run[s].todo /\ Leg(s) \in Photos
<1>1. run[s].todo \subseteq Photos  BY DEF TypeOK, Run
<1>2. Least(run[s].todo) \in run[s].todo  BY <1>1, LeastOfPhotos, PilotAssumption
<1> QED BY <1>1, <1>2 DEF Leg

LEMMA NextRun ==
  ASSUME NEW q \in Run, NEW v \in SUBSET Photos, 0 \in 0..MaxPosts
  PROVE  LET r == [q EXCEPT !.pc = "leg", !.todo = v, !.post = 0]
         IN  r \in Run /\ r.pc = "leg" /\ r.todo = v /\ r.post = 0
BY DEF Run, Pc

LEMMA NextLegSettles ==
  ASSUME TypeOK, BusyRuns, NEW s \in Scripts, NextLeg(s), ~LastLeg(s), run[s].pc = "returned"
  PROVE  Settles(s)
<1> DEFINE r == [run[s] EXCEPT !.pc = "leg", !.todo = Rest(s), !.post = 0]
<1>1. run[s] \in Run /\ run[s].todo # {}  BY DEF TypeOK, BusyRuns
<1>2. Rest(s) \in SUBSET Photos /\ 0 \in 0..MaxPosts
  BY <1>1, PilotAssumption DEF Run, Rest
<1>3. r \in Run /\ r.pc = "leg" /\ r.todo = Rest(s) /\ r.post = 0
  BY <1>1, <1>2, NextRun, Zenon
<1>4. Rest(s) # {}  BY <1>1, LegIsAPhoto DEF LastLeg, Rest
<1>5. run' = [run EXCEPT ![s] = r]  BY DEF NextLeg
<1>6. Settled(r)  BY <1>3, <1>4 DEF Settled
<1> QED BY <1>5, <1>6, <1>3 DEF Settles

LEMMA MarksAreMarks ==
  ASSUME marker \in [Scripts -> [Photos -> Marks]], NEW s \in Scripts, NEW mark \in Marks,
         MarkLeg(s, mark)
  PROVE  marker' \in [Scripts -> [Photos -> Marks]]
<1> DEFINE f == [marker[s] EXCEPT ![Leg(s)] = mark]
<1>1. f \in [Photos -> Marks]  OBVIOUS
<1>2. marker' = [marker EXCEPT ![s] = f]  BY DEF MarkLeg
<1>3. marker' = [t \in Scripts |-> IF t = s THEN f ELSE marker[t]]  BY <1>2
<1> QED BY <1>1, <1>3

LEMMA AfreshIsMarks ==
  ASSUME marker \in [Scripts -> [Photos -> Marks]], NEW s \in Scripts, NEW b \in [Photos -> Marks],
         marker' = [marker EXCEPT ![s] = b]
  PROVE  marker' \in [Scripts -> [Photos -> Marks]]
OBVIOUS

\* Steps that touch no post: a script starts, proves a leg, or stops.
Still == Quiet /\ links' = links /\ RestOK'

LEMMA FixedStartsAreStill ==
  ASSUME TypeOK, BusyRuns, NEW s \in Scripts, StartFixed(s)
  PROVE  Still
<1>1. PICK p \in Precedent : Begin(s, "armed", {p}, FixedCap)  BY DEF StartFixed
<1>2. {p} \in SUBSET Photos /\ FixedCap \in Int  BY PilotAssumption
<1>3. Settles(s) /\ overlapped' \in BOOLEAN  BY <1>1, <1>2, BeginSettles
<1> QED BY <1>3 DEF StartFixed, Still, Quiet, RestOK, TypeOK

LEMMA MarkedStartsAreStill ==
  ASSUME TypeOK, BusyRuns, NEW s \in Scripts, NEW p \in Photos, StartMarked(s, p)
  PROVE  Still
<1>1. Settles(s) /\ overlapped' \in BOOLEAN
  BY CapsAreIntegers, BeginSettles DEF StartMarked
<1>2. [Blank EXCEPT ![p] = "unsent"] \in [Photos -> Marks]  BY DEF Blank, Marks
<1>3. marker' \in [Scripts -> [Photos -> Marks]]
  BY <1>2, AfreshIsMarks DEF StartMarked, TypeOK
<1> QED BY <1>1, <1>3 DEF StartMarked, Still, Quiet, RestOK, TypeOK

\* A script that begins with the legs of a slice and an empty marker.
LEMMA LegStartsAreStill ==
  ASSUME TypeOK, BusyRuns, NEW s \in Scripts, NEW todo \in SUBSET Photos, todo # {},
         Begin(s, "leg", todo, 0), marker' = [marker EXCEPT ![s] = Blank],
         UNCHANGED <<setting, posts, links, wrong, spendFile>>
  PROVE  Still
<1>1. Settles(s) /\ overlapped' \in BOOLEAN  BY BeginSettles
<1>2. Blank \in [Photos -> Marks]  BY DEF Blank, Marks
<1>3. marker' \in [Scripts -> [Photos -> Marks]]  BY <1>2, AfreshIsMarks DEF TypeOK
<1> QED BY <1>1, <1>3 DEF Still, Quiet, RestOK, TypeOK

LEMMA StartsAreStill ==
  ASSUME TypeOK, BusyRuns, Starts
  PROVE  Still
<1>s. Scripts = {"sg158", "sg159", "sg166", "sg217", "sg218", "sg219", "sg220",
                 "sg223", "sg225", "sg226"}
  BY PilotAssumption
<1>1. CASE Start158  BY <1>s, <1>1, FixedStartsAreStill DEF Start158
<1>2. CASE Start159  BY <1>s, <1>2, FixedStartsAreStill DEF Start159
<1>3. CASE Start166  BY <1>s, <1>3, FixedStartsAreStill DEF Start166
<1>4. CASE Start217
  <2>1. Candidates217 \subseteq Photos /\ Photos \subseteq Nat
    BY PilotAssumption DEF Candidates217
  <2>2. Least(Candidates217) \in Photos  BY <1>4, <2>1, LeastOfPhotos DEF Start217
  <2> QED BY <1>s, <1>4, <2>2, MarkedStartsAreStill DEF Start217
<1>5. CASE Start218
  <2>1. Candidates218 \subseteq Photos /\ Photos \subseteq Nat
    BY PilotAssumption DEF Candidates218, Candidates217
  <2>2. Least(Candidates218) \in Photos  BY <1>5, <2>1, LeastOfPhotos DEF Start218
  <2> QED BY <1>s, <1>5, <2>2, MarkedStartsAreStill DEF Start218
<1>6. CASE Start219
  <2>1. Picks219 \in SUBSET Photos
    BY PilotAssumption DEF Picks219, Candidates219, Candidates218, Candidates217
  <2>2. Picks219 # {}  BY <1>6, FS_EmptySet DEF Start219
  <2> QED BY <1>s, <1>6, <2>1, <2>2, LegStartsAreStill DEF Start219
<1>7. CASE Start220
  <2>1. {Costita2} \in SUBSET Photos  BY PilotAssumption
  <2> QED BY <1>s, <1>7, <2>1, LegStartsAreStill DEF Start220
<1>8. CASE Start223
  <2>1. {Costita, Miso} \in SUBSET Photos  BY PilotAssumption
  <2> QED BY <1>s, <1>8, <2>1, LegStartsAreStill DEF Start223
<1>9. CASE Start225
  <2>1. Miso \in Photos /\ {Miso} \in SUBSET Photos  BY PilotAssumption
  <2>2. Settles("sg225") /\ overlapped' \in BOOLEAN
    BY <1>s, <1>9, <2>1, CapsAreIntegers, BeginSettles DEF Start225
  <2>3. [Blank EXCEPT ![Miso] = "pending"] \in [Photos -> Marks]  BY DEF Blank, Marks
  <2>4. marker' \in [Scripts -> [Photos -> Marks]]
    BY <1>s, <1>9, <2>3, AfreshIsMarks DEF Start225, TypeOK
  <2> QED BY <1>s, <1>9, <2>2, <2>4 DEF Start225, Still, Quiet, RestOK, TypeOK
<1>10. CASE Start226
  <2>1. RenderList226 \in SUBSET Photos  BY PilotAssumption DEF RenderList226
  <2>2. RenderList226 # {}
    BY <1>10, FS_EmptySet, PilotAssumption DEF Start226, Planned226
  <2>3. CASE Fits226(BulkRenders)
    BY <1>s, <1>10, <2>1, <2>2, <2>3, LegStartsAreStill DEF Start226
  <2>4. CASE ~Fits226(BulkRenders)
    <3>1. Blank \in [Photos -> Marks]  BY DEF Blank, Marks
    <3>2. marker' \in [Scripts -> [Photos -> Marks]]
      BY <1>s, <1>10, <3>1, AfreshIsMarks DEF Start226, TypeOK
    <3> QED BY <1>10, <2>4, <3>2 DEF Start226, Still, Quiet, RestOK, TypeOK
  <2> QED BY <2>3, <2>4
<1> QED BY <1>1, <1>2, <1>3, <1>4, <1>5, <1>6, <1>7, <1>8, <1>9, <1>10 DEF Starts

\* A leg that is proved, refused or stopped.
LEMMA LegsAreStill ==
  ASSUME TypeOK, BusyRuns, NEW s \in Scripts, NEW cap \in Int,
         run[s].pc = "leg", run[s].post = 0,
         Proved(s, cap) \/ Refused(s) \/ Stops(s)
  PROVE  Settles(s) /\ marker' \in [Scripts -> [Photos -> Marks]]
<1>m. marker \in [Scripts -> [Photos -> Marks]]  BY DEF TypeOK
<1>1. CASE Proved(s, cap)
  BY <1>1, <1>m, ArmSettles, MarksAreMarks DEF Proved, Marks
<1>2. CASE Refused(s)
  BY <1>2, <1>m, EndSettles, MarksAreMarks DEF Refused, Marks
<1>3. CASE Stops(s)
  BY <1>3, <1>m, EndSettles DEF Stops
<1> QED BY <1>1, <1>2, <1>3

LEMMA ProofsAreStill ==
  ASSUME TypeOK, BusyRuns, Proofs,
         \A s \in Scripts : run[s].pc = "leg" => run[s].post = 0
  PROVE  Still
<1>s. {"sg219", "sg220", "sg223", "sg226"} \subseteq Scripts  BY PilotAssumption
<1>c. Cap219 \in Int /\ Cap226 \in Int  BY CapsAreIntegers
<1>k. KeyUsage \in Int  BY KeyUsageIsInteger
<1>1. CASE Prove219
  <2>1. Settles("sg219") /\ marker' \in [Scripts -> [Photos -> Marks]]
    BY <1>s, <1>c, <1>1, LegsAreStill DEF Prove219
  <2> QED BY <1>s, <1>1, <2>1 DEF Prove219, Still, Quiet, RestOK, TypeOK
<1>2. CASE Prove220
  <2>1. Settles("sg220") /\ marker' \in [Scripts -> [Photos -> Marks]]
    BY <1>s, <1>c, <1>2, LegsAreStill DEF Prove220
  <2> QED BY <1>s, <1>2, <2>1 DEF Prove220, Still, Quiet, RestOK, TypeOK
<1>3. CASE Prove223
  <2>1. Settles("sg223") /\ marker' \in [Scripts -> [Photos -> Marks]]
    BY <1>s, <1>c, <1>3, LegsAreStill DEF Prove223
  <2>2. spendFile' \in Int  BY <1>k, <1>3 DEF Prove223, TypeOK
  <2> QED BY <1>s, <1>3, <2>1, <2>2 DEF Prove223, Still, Quiet, RestOK, TypeOK
<1>4. CASE Prove226
  <2>1. Settles("sg226") /\ marker' \in [Scripts -> [Photos -> Marks]]
    BY <1>s, <1>c, <1>4, LegsAreStill DEF Prove226
  <2> QED BY <1>s, <1>4, <2>1 DEF Prove226, Still, Quiet, RestOK, TypeOK
<1> QED BY <1>1, <1>2, <1>3, <1>4 DEF Proofs

LEMMA OthersAreStill ==
  ASSUME TypeOK, BusyRuns,
         Unlink223 \/ \E s \in Scripts : Return(s) \/ Crash(s)
  PROVE  Still
<1>1. CASE Unlink223
  BY <1>1 DEF Unlink223, sceneVars, Still, Quiet, RestOK, TypeOK
<1>2. ASSUME NEW s \in Scripts, Return(s) \/ Crash(s)  PROVE Still
  BY <1>2, EndSettles DEF Return, Crash, pilotVars, Still, Quiet, RestOK, TypeOK
<1> QED BY <1>1, <1>2

-----------------------------------------------------------------------------
\* Each run holds its own post; the post has no row until it is recorded, and
\* has it when the call is back.
RunsOK == \A s \in Scripts :
  /\ run[s].pc \in {"idle", "leg", "armed"} => run[s].post = 0
  /\ run[s].post # 0 => run[s].post \in DOMAIN posts /\ posts[run[s].post].script = s
  /\ run[s].pc \in {"sent", "stored"} => run[s].post # 0 /\ posts[run[s].post].row = "none"
  /\ run[s].pc = "returned" /\ run[s].post # 0 => Ledgered(run[s].post)

\* What the fields of a post say of each other.
PostOK(p) == /\ p.image => p.reply \in Pictured
             /\ p.marked => p.row # "none"
             /\ p.row = "priced" => p.reply \in Priced
             /\ p.row = "zeroed" => p.reply \in Free
PostsOK == \A i \in DOMAIN posts : PostOK(posts[i])

PilotInv == TypeOK /\ BusyRuns /\ RunsOK /\ PostsOK /\ LinkedResolves

LEMMA InitInv == Init => PilotInv
<1> SUFFICES ASSUME Init PROVE PilotInv  OBVIOUS
<1>1. setting \in Setting /\ posts = <<>> /\ posts \in Seq(Post) /\ Len(posts) = 0
  BY PilotAssumption DEF Init
<1>2. Idle \in Run /\ Idle.pc = "idle" /\ Idle.post = 0
  BY PilotAssumption DEF Idle, Run, Pc
<1>3. run \in [Scripts -> Run] /\ \A s \in Scripts : run[s].pc = "idle" /\ run[s].post = 0
  BY <1>2 DEF Init
<1>4. marker \in [Scripts -> [Photos -> Marks]]  BY DEF Init, Blank, Marks
<1>5. TypeOK
  <2>1. Len(posts) <= MaxPosts  BY <1>1, PilotAssumption
  <2>2. links \subseteq DOMAIN posts /\ wrong \in BOOLEAN /\ overlapped \in BOOLEAN  BY Zenon DEF Init
  <2>3. spendFile \in Int  BY DEF Init
  <2> QED BY Zenon, <1>1, <1>3, <1>4, <2>1, <2>2, <2>3 DEF TypeOK
<1> QED BY <1>1, <1>3, <1>5 DEF PilotInv, BusyRuns, RunsOK, PostsOK, LinkedResolves, Init

LEMMA StillKeeps ==
  ASSUME PilotInv, Still
  PROVE  PilotInv'
<1>1. TypeOK'
  <2>1. run' \in [Scripts -> Run]
    BY DEF Still, Quiet, Settles, PilotInv, TypeOK
  <2> QED BY <2>1 DEF Still, Quiet, RestOK, PilotInv, TypeOK
<1>2. ASSUME NEW s \in Scripts
      PROVE  \/ run'[s] = run[s]
             \/ run'[s].post = 0 /\ run'[s].pc \in {"idle", "leg", "armed"}
                /\ (run'[s].pc # "idle" => run'[s].todo # {})
  BY <1>2 DEF Still, Quiet, Settles, Settled, PilotInv, TypeOK
<1>3. BusyRuns'  BY <1>2 DEF BusyRuns, PilotInv
<1>4. RunsOK'
  BY <1>2 DEF RunsOK, PilotInv, Ledgered, Still, Quiet
<1>5. PostsOK'  BY DEF PostsOK, PilotInv, Still, Quiet
<1>6. LinkedResolves'  BY DEF LinkedResolves, PilotInv, Still, Quiet, Ledgered
<1> QED BY <1>1, <1>3, <1>4, <1>5, <1>6 DEF PilotInv

\* The steps of the send change at most the post the run holds.
LEMMA SendKeeps ==
  ASSUME PilotInv, NEW s \in Scripts, UNCHANGED pilotVars,
         \E photo \in {Leg(s)}, brief \in {Brief(s)} : Send(s, photo, brief)
  PROVE  PilotInv'
<1>s. Send(s, Leg(s), Brief(s))  OBVIOUS
<1>1. run[s].pc = "armed" /\ run[s].todo # {} /\ run[s] \in Run
  BY <1>s DEF Send, PilotInv, BusyRuns, TypeOK
<1>2. Leg(s) \in Photos  BY <1>1, LegIsAPhoto DEF PilotInv
<1>3. Brief(s) \in Briefs  BY PilotAssumption DEF Brief
<1> DEFINE p == [script |-> s, photo |-> Leg(s), brief |-> Brief(s), since |-> run[s].since,
                 reply |-> "lost", image |-> FALSE, row |-> "none", marked |-> FALSE]
<1> DEFINE n == Len(posts) + 1
<1> DEFINE r == [run[s] EXCEPT !.pc = "sent", !.post = n]
<1>4. p \in Post  BY <1>1, <1>2, <1>3 DEF Post, Run, Replies, Rows
<1>5. posts' = Append(posts, p) /\ run' = [run EXCEPT ![s] = r] /\ setting' = setting
  BY <1>s DEF Send
<1>6. posts \in Seq(Post) /\ Len(posts) < MaxPosts /\ n \in 1..MaxPosts
  BY <1>s, PilotAssumption DEF Send, PilotInv, TypeOK, Setting
<1>7. /\ posts' \in Seq(Post) /\ Len(posts') = n /\ posts'[n] = p
      /\ DOMAIN posts' = DOMAIN posts \cup {n} /\ n \notin DOMAIN posts
      /\ \A i \in DOMAIN posts : posts'[i] = posts[i]
  <2> HIDE DEF p
  <2> QED BY <1>4, <1>5, <1>6
<1>8. r \in Run /\ r.pc = "sent" /\ r.post = n /\ r.todo = run[s].todo
  <2>1. n \in 0..MaxPosts  BY <1>6
  <2>2. PICK q : q = run[s]  OBVIOUS
  <2> HIDE DEF n
  <2>3. r = [q EXCEPT !.pc = "sent", !.post = n] /\ q \in Run  BY <1>1, <2>2
  <2> HIDE DEF r
  <2>4. r \in Run /\ r.pc = "sent" /\ r.post = n /\ r.todo = q.todo  BY <2>1, <2>3 DEF Run, Pc
  <2> QED BY <2>2, <2>4
<1>9. p.script = s /\ p.row = "none" /\ PostOK(p)  BY DEF PostOK, Pictured, Priced, Free
<1> HIDE DEF p, n, r
<1>10. TypeOK'
  <2>1. UNCHANGED <<setting, marker, links, wrong, spendFile, overlapped>>  BY <1>5 DEF pilotVars
  <2>2. TypeOK  BY DEF PilotInv
  <2>3. setting' \in Setting /\ marker' \in [Scripts -> [Photos -> Marks]] /\ wrong' \in BOOLEAN
        /\ spendFile' \in Int /\ overlapped' \in BOOLEAN
    BY Zenon, <2>1, <2>2 DEF TypeOK
  <2>4. links' \subseteq DOMAIN posts'  BY <1>7, <2>1, <2>2 DEF TypeOK
  <2>5. posts' \in Seq(Post) /\ Len(posts') <= MaxPosts  BY <1>6, <1>7
  <2>6. run' \in [Scripts -> Run]  BY <1>5, <1>8, <2>2 DEF TypeOK
  <2> QED BY Zenon, <2>3, <2>4, <2>5, <2>6 DEF TypeOK
<1>11. run'[s] = r /\ \A t \in Scripts \ {s} : run'[t] = run[t]
  BY <1>5 DEF PilotInv, TypeOK
<1>12. BusyRuns'  BY <1>1, <1>8, <1>11 DEF BusyRuns, PilotInv
<1>n. n # 0  BY <1>6
<1>13. RunsOK'
  <2> SUFFICES ASSUME NEW t \in Scripts
               PROVE  /\ run'[t].pc \in {"idle", "leg", "armed"} => run'[t].post = 0
                      /\ run'[t].post # 0 => run'[t].post \in DOMAIN posts' /\ posts'[run'[t].post].script = t
                      /\ run'[t].pc \in {"sent", "stored"} => run'[t].post # 0 /\ posts'[run'[t].post].row = "none"
                      /\ run'[t].pc = "returned" /\ run'[t].post # 0 => posts'[run'[t].post].row # "none"
    BY DEF RunsOK, Ledgered
  <2>1. CASE t = s  BY <2>1, <1>7, <1>8, <1>9, <1>11, <1>n
  <2>2. CASE t # s  BY <2>2, <1>7, <1>11 DEF PilotInv, RunsOK, Ledgered
  <2> QED BY <2>1, <2>2
<1>14. PostsOK'  BY <1>7, <1>9 DEF PostsOK, PilotInv
<1>15. LinkedResolves'
  BY <1>7 DEF LinkedResolves, PilotInv, pilotVars, Ledgered, TypeOK
<1> QED BY <1>10, <1>12, <1>13, <1>14, <1>15 DEF PilotInv

\* A step of the run s that changes its own post into p and stands at r.
LEMMA OwnPostKeeps ==
  ASSUME PilotInv, NEW s \in Scripts, NEW i, i = run[s].post, i \in DOMAIN posts,
         NEW p \in Post, NEW r \in Run,
         posts' = [posts EXCEPT ![i] = p], run' = [run EXCEPT ![s] = r],
         setting' = setting, links' = links, RestOK',
         p.script = posts[i].script, PostOK(p),
         i \in links => p.row # "none" /\ p.reply \in Pictured,
         r.pc # "idle" => r.todo # {},
         r.post \in {0, i},
         r.pc \in {"idle", "leg", "armed"} => r.post = 0,
         r.pc \in {"sent", "stored"} => r.post = i /\ p.row = "none",
         r.pc = "returned" => p.row # "none"
  PROVE  PilotInv'
<1>0. i \in Nat /\ i # 0 /\ posts \in Seq(Post)  BY DEF PilotInv, TypeOK
<1>1. /\ posts' \in Seq(Post) /\ Len(posts') = Len(posts) /\ DOMAIN posts' = DOMAIN posts
      /\ posts'[i] = p /\ \A j \in DOMAIN posts : j # i => posts'[j] = posts[j]
  BY <1>0
<1>2. run'[s] = r /\ \A t \in Scripts \ {s} : run'[t] = run[t]
  BY DEF PilotInv, TypeOK
<1>3. TypeOK'
  <2>1. run' \in [Scripts -> Run]  BY DEF PilotInv, TypeOK
  <2> QED BY <1>1, <2>1 DEF TypeOK, PilotInv, RestOK
<1>4. BusyRuns'  BY <1>2 DEF BusyRuns, PilotInv
<1>5. RunsOK'
  <2> SUFFICES ASSUME NEW t \in Scripts
               PROVE  /\ run'[t].pc \in {"idle", "leg", "armed"} => run'[t].post = 0
                      /\ run'[t].post # 0 => run'[t].post \in DOMAIN posts' /\ posts'[run'[t].post].script = t
                      /\ run'[t].pc \in {"sent", "stored"} => run'[t].post # 0 /\ posts'[run'[t].post].row = "none"
                      /\ run'[t].pc = "returned" /\ run'[t].post # 0 => posts'[run'[t].post].row # "none"
    BY DEF RunsOK, Ledgered
  <2>1. posts[i].script = s  BY <1>0 DEF PilotInv, RunsOK
  <2>2. CASE t = s  BY <2>1, <2>2, <1>0, <1>1, <1>2
  <2>3. CASE t # s
    <3>1. run'[t] = run[t]  BY <2>3, <1>2
    <3>2. run[t].post # 0 => run[t].post \in DOMAIN posts /\ run[t].post # i
      BY <2>1, <2>3 DEF PilotInv, RunsOK
    <3>3. run[t].post # 0 => posts'[run[t].post] = posts[run[t].post]  BY <3>2, <1>1
    <3> QED BY <3>1, <3>2, <3>3, <1>1 DEF PilotInv, RunsOK, Ledgered
  <2> QED BY <2>2, <2>3
<1>6. PostsOK'  BY <1>1 DEF PostsOK, PilotInv
<1>7. LinkedResolves'
  <2> SUFFICES ASSUME NEW j \in links PROVE posts'[j].row # "none" /\ posts'[j].reply \in Pictured
    BY DEF LinkedResolves, Ledgered
  <2>1. j \in DOMAIN posts  BY DEF PilotInv, TypeOK
  <2> QED BY <2>1, <1>1 DEF PilotInv, LinkedResolves, Ledgered
<1> QED BY <1>3, <1>4, <1>5, <1>6, <1>7 DEF PilotInv

\* A run that holds a post holds one of its own, and is well typed.
LEMMA HeldPost ==
  ASSUME PilotInv, NEW s \in Scripts, run[s].post # 0
  PROVE  /\ run[s].post \in DOMAIN posts /\ posts[run[s].post] \in Post
         /\ PostOK(posts[run[s].post]) /\ run[s] \in Run
BY DEF PilotInv, RunsOK, PostsOK, TypeOK

LEMMA RestStays ==
  ASSUME PilotInv, UNCHANGED pilotVars
  PROVE  RestOK' /\ links' = links
BY DEF PilotInv, TypeOK, RestOK, pilotVars

LEMMA StandsAt ==
  ASSUME NEW q \in Run, NEW pc \in Pc
  PROVE  LET r == [q EXCEPT !.pc = pc]
         IN  r \in Run /\ r.pc = pc /\ r.post = q.post /\ r.todo = q.todo
BY DEF Run

LEMMA RefuseKeeps ==
  ASSUME PilotInv, NEW s \in Scripts, Refuse(s), UNCHANGED pilotVars
  PROVE  PilotInv'
<1> DEFINE r == [run[s] EXCEPT !.pc = "returned"]
<1>1. run[s] \in Run /\ run[s].todo # {} /\ run[s].post = 0
  BY DEF Refuse, PilotInv, TypeOK, BusyRuns, RunsOK
<1>2. r \in Run /\ r.pc = "returned" /\ r.post = 0 /\ r.todo # {}
  BY <1>1, StandsAt DEF Pc
<1>3. run' = [run EXCEPT ![s] = r] /\ posts' = posts /\ setting' = setting
  BY DEF Refuse, Goto
<1> HIDE DEF r
<1>4. run'[s] = r /\ \A t \in Scripts \ {s} : run'[t] = run[t]
  BY <1>3 DEF PilotInv, TypeOK
<1>5. TypeOK'
  <2>1. run' \in [Scripts -> Run]  BY <1>2, <1>3 DEF PilotInv, TypeOK
  <2> QED BY <1>3, <2>1 DEF PilotInv, TypeOK, pilotVars
<1>6. BusyRuns'  BY <1>2, <1>4 DEF BusyRuns, PilotInv
<1>7. RunsOK'  BY <1>2, <1>3, <1>4 DEF RunsOK, PilotInv, Ledgered
<1>8. PostsOK' /\ LinkedResolves'
  BY <1>3 DEF PostsOK, LinkedResolves, PilotInv, pilotVars, Ledgered
<1> QED BY <1>5, <1>6, <1>7, <1>8 DEF PilotInv

LEMMA CaptureKeeps ==
  ASSUME PilotInv, NEW s \in Scripts, Capture(s), UNCHANGED pilotVars
  PROVE  PilotInv'
<1> DEFINE i == run[s].post
<1>1. run[s].pc = "sent" /\ i # 0 /\ posts[i].row = "none" /\ run[s].todo # {}
  BY DEF Capture, PilotInv, RunsOK, BusyRuns
<1>2. i \in DOMAIN posts /\ posts[i] \in Post /\ PostOK(posts[i]) /\ run[s] \in Run
  BY <1>1, HeldPost
<1>3. PICK reply \in Replies, kept \in BOOLEAN :
        /\ posts' = [posts EXCEPT ![i] = [posts[i] EXCEPT !.reply = reply, !.image = kept]]
        /\ kept => reply \in Pictured
  <2>1. PICK reply \in Replies : \E kept \in (IF reply \in Pictured THEN BOOLEAN ELSE {FALSE}) :
          posts' = [posts EXCEPT ![i] = [posts[i] EXCEPT !.reply = reply, !.image = kept]]
    BY DEF Capture, Becomes
  <2>2. PICK kept \in (IF reply \in Pictured THEN BOOLEAN ELSE {FALSE}) :
          posts' = [posts EXCEPT ![i] = [posts[i] EXCEPT !.reply = reply, !.image = kept]]
    BY <2>1
  <2> QED BY <2>2
<1> DEFINE p == [posts[i] EXCEPT !.reply = reply, !.image = kept]
<1>4. /\ p \in Post /\ p.script = posts[i].script /\ p.row = "none"
      /\ p.marked = posts[i].marked /\ p.reply = reply /\ p.image = kept
  BY <1>1, <1>2 DEF Post
<1>5. PostOK(p)  BY <1>1, <1>2, <1>3, <1>4 DEF PostOK
<1> DEFINE r == [run[s] EXCEPT !.pc = "stored"]
<1>6. r \in Run /\ r.pc = "stored" /\ r.post = i /\ r.todo # {}
  BY <1>1, <1>2, StandsAt DEF Pc
<1>7. run' = [run EXCEPT ![s] = r] /\ setting' = setting  BY DEF Capture, Goto
<1>8. i \notin links  BY <1>1 DEF PilotInv, LinkedResolves, Ledgered
<1>9. posts' = [posts EXCEPT ![i] = p]  BY <1>3
<1> HIDE DEF p, r
<1> QED BY <1>2, <1>4, <1>5, <1>6, <1>7, <1>8, <1>9, RestStays, OwnPostKeeps

LEMMA IdleRun == Idle \in Run /\ Idle.pc = "idle" /\ Idle.post = 0
BY PilotAssumption DEF Idle, Run, Pc

LEMMA BreakKeeps ==
  ASSUME PilotInv, NEW s \in Scripts, Break(s), UNCHANGED pilotVars
  PROVE  PilotInv'
<1> DEFINE i == run[s].post
<1>1. run[s].pc = "sent" /\ i # 0 /\ posts[i].row = "none"
  BY DEF Break, PilotInv, RunsOK
<1>2. i \in DOMAIN posts /\ posts[i] \in Post /\ PostOK(posts[i]) /\ run[s] \in Run
  BY <1>1, HeldPost
<1>3. PICK reply \in Pictured : posts' = [posts EXCEPT ![i] = [posts[i] EXCEPT !.reply = reply]]
  BY DEF Break, Becomes
<1> DEFINE p == [posts[i] EXCEPT !.reply = reply]
<1>4. /\ p \in Post /\ p.script = posts[i].script /\ p.row = "none"
      /\ p.marked = posts[i].marked /\ p.reply = reply
  BY <1>1, <1>2 DEF Post, Pictured, Replies
<1>5. PostOK(p)  BY <1>1, <1>2, <1>4 DEF PostOK
<1>6. run' = [run EXCEPT ![s] = Idle] /\ setting' = setting  BY DEF Break
<1>7. i \notin links  BY <1>1 DEF PilotInv, LinkedResolves, Ledgered
<1>8. posts' = [posts EXCEPT ![i] = p]  BY <1>3
<1> HIDE DEF p
<1> QED BY <1>2, <1>4, <1>5, <1>6, <1>7, <1>8, IdleRun, RestStays, OwnPostKeeps

LEMMA RecordKeeps ==
  ASSUME PilotInv, NEW s \in Scripts, Record(s), UNCHANGED pilotVars
  PROVE  PilotInv'
<1> DEFINE i == run[s].post
<1>1. run[s].pc = "stored" /\ i # 0 /\ posts[i].row = "none" /\ run[s].todo # {}
  BY DEF Record, PilotInv, RunsOK, BusyRuns
<1>2. i \in DOMAIN posts /\ posts[i] \in Post /\ PostOK(posts[i]) /\ run[s] \in Run
  BY <1>1, HeldPost
<1> DEFINE row == IF posts[i].reply \in Priced THEN "priced" ELSE "unpriced"
<1> DEFINE p == [posts[i] EXCEPT !.row = row]
<1>3. row \in Rows /\ row # "none" /\ row # "zeroed" /\ (row = "priced" => posts[i].reply \in Priced)
  BY DEF Rows
<1>4. posts' = [posts EXCEPT ![i] = p]  BY DEF Record, Becomes
<1>5. /\ p \in Post /\ p.script = posts[i].script /\ p.row = row
      /\ p.marked = posts[i].marked /\ p.reply = posts[i].reply /\ p.image = posts[i].image
  <2> HIDE DEF row
  <2> QED BY <1>2, <1>3 DEF Post
<1>6. PostOK(p)
  <2> HIDE DEF row, p
  <2> QED BY <1>2, <1>3, <1>5 DEF PostOK
<1> DEFINE r == [run[s] EXCEPT !.pc = "returned"]
<1>7. r \in Run /\ r.pc = "returned" /\ r.post = i /\ r.todo # {}
  BY <1>1, <1>2, StandsAt DEF Pc
<1>8. run' = [run EXCEPT ![s] = r] /\ setting' = setting  BY DEF Record, Goto
<1>9. i \notin links  BY <1>1 DEF PilotInv, LinkedResolves, Ledgered
<1> HIDE DEF p, r, row
<1> QED BY <1>2, <1>3, <1>4, <1>5, <1>6, <1>7, <1>8, <1>9, RestStays, OwnPostKeeps

LEMMA RenderKeeps ==
  ASSUME PilotInv, NEW s \in Scripts, Render(s)
  PROVE  PilotInv'
<1>1. UNCHANGED pilotVars  BY DEF Render
<1>2. CASE Send(s, Leg(s), Brief(s))  BY <1>1, <1>2, SendKeeps
<1>3. CASE Refuse(s)  BY <1>1, <1>3, RefuseKeeps
<1>4. CASE Capture(s)  BY <1>1, <1>4, CaptureKeeps
<1>5. CASE Break(s)  BY <1>1, <1>5, BreakKeeps
<1>6. CASE Record(s)  BY <1>1, <1>6, RecordKeeps
<1> QED BY <1>2, <1>3, <1>4, <1>5, <1>6 DEF Render

-----------------------------------------------------------------------------
\* A run that is back writes its mark and settles.
LEMMA ReturnedKeeps ==
  ASSUME PilotInv, NEW s \in Scripts, Returned(s), Settles(s),
         NEW mark \in Marks, MarkLeg(s, mark), spendFile' \in Int
  PROVE  PilotInv'
<1> DEFINE i == run[s].post
<1>1. PICK r \in Run : Settled(r) /\ run' = [run EXCEPT ![s] = r]  BY DEF Settles
<1>2. marker' \in [Scripts -> [Photos -> Marks]]
  BY MarksAreMarks DEF PilotInv, TypeOK
<1>3. RestOK' /\ links' = links /\ setting' = setting
  BY <1>2 DEF Returned, RestOK, PilotInv, TypeOK
<1>4. posts \in Seq(Post)  BY DEF PilotInv, TypeOK
<1>5. CASE i = 0
  <2>1. posts' = posts
    <3>1. posts' = [j \in DOMAIN posts |-> posts[j]]
      BY <1>5, <1>4 DEF Returned
    <3> QED BY <3>1, <1>4
  <2>2. Still  BY <2>1, <1>3 DEF Still, Quiet
  <2> QED BY <2>2, StillKeeps
<1>6. CASE i # 0
  <2>1. i \in DOMAIN posts /\ posts[i] \in Post /\ PostOK(posts[i])
    BY <1>6, HeldPost
  <2>2. posts[i].row # "none"  BY <1>6 DEF Returned, PilotInv, RunsOK, Ledgered
  <2> DEFINE p == [posts[i] EXCEPT !.marked = TRUE]
  <2>3. /\ p \in Post /\ p.script = posts[i].script /\ p.row = posts[i].row /\ p.row # "none"
        /\ p.reply = posts[i].reply /\ p.image = posts[i].image
    BY <2>1, <2>2 DEF Post
  <2>4. PostOK(p)  BY <2>1, <2>3 DEF PostOK
  <2>5. posts' = [posts EXCEPT ![i] = p]
    BY DEF Returned
  <2>6. i \in links => p.reply \in Pictured
    BY <2>3 DEF PilotInv, LinkedResolves
  <2> HIDE DEF p
  <2> QED BY <1>1, <1>3, <2>1, <2>3, <2>4, <2>5, <2>6, OwnPostKeeps DEF Settled
<1> QED BY <1>5, <1>6

LEMMA MarkOnceKeeps ==
  ASSUME PilotInv, NEW s \in Scripts, MarkOnce(s)
  PROVE  PilotInv'
<1>1. Settles(s)  BY EndSettles DEF MarkOnce, PilotInv
<1>2. SentMark(s) \in Marks  BY DEF SentMark, Marks
<1>3. spendFile' \in Int  BY DEF MarkOnce, PilotInv, TypeOK
<1> QED BY <1>1, <1>2, <1>3, ReturnedKeeps DEF MarkOnce

\* A run that writes the result of its post, and its marker at another time.
LEMMA NotedKeeps ==
  ASSUME PilotInv, NEW s \in Scripts, Returned(s), run[s].post # 0, UNCHANGED <<run, marker, spendFile>>
  PROVE  PilotInv'
<1>1. PICK i : i = run[s].post  OBVIOUS
<1>2. /\ run[s].pc = "returned" /\ UNCHANGED <<setting, links, wrong, overlapped>>
      /\ posts' = [j \in DOMAIN posts |-> IF j # i THEN posts[j] ELSE [posts[j] EXCEPT !.marked = TRUE]]
  BY <1>1 DEF Returned
<1>3. i \in DOMAIN posts /\ posts[i] \in Post /\ PostOK(posts[i]) /\ posts[i].row # "none"
  BY <1>1, <1>2, HeldPost DEF PilotInv, RunsOK, Ledgered
<1>4. PICK p : p = [posts[i] EXCEPT !.marked = TRUE]  OBVIOUS
<1>5. /\ p \in Post /\ p.script = posts[i].script /\ p.row = posts[i].row /\ p.row # "none"
      /\ p.reply = posts[i].reply /\ p.image = posts[i].image
  BY <1>3, <1>4 DEF Post
<1>6. PostOK(p)  BY <1>3, <1>5 DEF PostOK
<1>7. posts' = [posts EXCEPT ![i] = p]
  <2>1. posts \in Seq(Post)  BY DEF PilotInv, TypeOK
  <2> QED BY <1>2, <1>4, <2>1
<1>8. i \in links => p.reply \in Pictured  BY <1>5 DEF PilotInv, LinkedResolves
<1>9. PICK r \in Run : r = run[s]  BY DEF PilotInv, TypeOK
<1>10. run' = [run EXCEPT ![s] = r]  BY <1>9 DEF PilotInv, TypeOK
<1>11. r.pc = "returned" /\ r.todo # {} /\ r.post = i  BY <1>1, <1>2, <1>9 DEF PilotInv, BusyRuns
<1>12. RestOK' /\ links' = links /\ setting' = setting
  BY <1>2, Zenon DEF RestOK, PilotInv, TypeOK
<1> QED BY <1>1, <1>3, <1>5, <1>6, <1>7, <1>8, <1>10, <1>11, <1>12, OwnPostKeeps

\* A marker that says it already is not changed by saying it again.
LEMMA SaidAgain ==
  ASSUME PilotInv, "sg225" \in Scripts, Said225, marker' = marker
  PROVE  MarkLeg("sg225", "sent")
<1>1. PICK f : f = marker["sg225"]  OBVIOUS
<1>2. marker \in [Scripts -> [Photos -> Marks]] /\ f \in [Photos -> Marks] /\ f[Leg("sg225")] = "sent"
  BY <1>1 DEF PilotInv, TypeOK, Said225
<1>3. [f EXCEPT ![Leg("sg225")] = "sent"] = f  BY <1>2
<1>4. marker' = [marker EXCEPT !["sg225"] = [f EXCEPT ![Leg("sg225")] = "sent"]]  BY <1>1, <1>2, <1>3
<1> QED BY <1>1, <1>4 DEF MarkLeg

\* A marker that says "sent" before the result of the post is written.
LEMMA SaidKeeps ==
  ASSUME PilotInv, Mark225, "sg225" \in Scripts
  PROVE  PilotInv'
<1>1. /\ MarkLeg("sg225", "sent") /\ "sent" \in Marks
      /\ UNCHANGED <<sceneVars, links, wrong, spendFile, overlapped>>
  BY DEF Mark225, Marks
<1>2. marker' \in [Scripts -> [Photos -> Marks]]  BY <1>1, MarksAreMarks DEF PilotInv, TypeOK
<1>3. Still  BY <1>1, <1>2 DEF Still, Quiet, RestOK, PilotInv, TypeOK, sceneVars
<1> QED BY <1>3, StillKeeps

LEMMA MarksKeep ==
  ASSUME PilotInv, MarksUp
  PROVE  PilotInv'
<1>s. {"sg217", "sg218", "sg219", "sg220", "sg223", "sg225", "sg226"} \subseteq Scripts
  BY PilotAssumption
<1>t. TypeOK /\ BusyRuns /\ spendFile \in Int /\ KeyUsage \in Int
  BY KeyUsageIsInteger DEF PilotInv, TypeOK
<1>m. \A s \in Scripts : SentMark(s) \in Marks  BY DEF SentMark, Marks
<1>1. CASE Mark217 \/ Mark218 \/ Mark220
  BY <1>1, <1>s, MarkOnceKeeps DEF Mark217, Mark218, Mark220
<1>2. CASE Mark219
  <2>1. Settles("sg219")
    BY <1>2, <1>s, <1>t, EndSettles, NextLegSettles DEF Mark219, Returned
  <2>2. spendFile' \in Int  BY <1>2, <1>t DEF Mark219
  <2> QED BY <1>2, <1>s, <1>m, <2>1, <2>2, ReturnedKeeps DEF Mark219
<1>3. CASE Mark223
  <2>1. Settles("sg223")
    BY <1>3, <1>s, <1>t, EndSettles, NextLegSettles DEF Mark223, Returned
  <2>2. spendFile' \in Int  BY <1>3, <1>t DEF Mark223
  <2> QED BY <1>3, <1>s, <1>m, <2>1, <2>2, ReturnedKeeps DEF Mark223
<1>4. CASE Mark225  BY <1>4, <1>s, SaidKeeps
<1>6. CASE Note225
  <2>1. /\ Returned("sg225") /\ Said225 /\ End("sg225") /\ marker' = marker /\ spendFile' \in Int
    BY <1>6, <1>t DEF Note225
  <2>2. Settles("sg225") /\ "sent" \in Marks  BY <2>1, <1>s, <1>t, EndSettles DEF Marks
  <2> QED BY <1>s, <2>1, <2>2, SaidAgain, ReturnedKeeps
<1>7. CASE Note223
  <2>1. Returned("sg223") /\ run["sg223"].post # 0 /\ UNCHANGED <<run, marker, spendFile>>
    BY <1>7 DEF Note223, Noted223
  <2> QED BY <1>s, <2>1, NotedKeeps
<1>5. CASE Mark226
  <2>1. Settles("sg226")
    BY <1>5, <1>s, <1>t, EndSettles, NextLegSettles DEF Mark226, Returned
  <2>2. spendFile' \in Int  BY <1>5, <1>t DEF Mark226
  <2> QED BY <1>5, <1>s, <1>m, <2>1, <2>2, ReturnedKeeps DEF Mark226
<1> QED BY <1>1, <1>2, <1>3, <1>4, <1>5, <1>6, <1>7 DEF MarksUp

\* A link is made of a render that the slice wrote down, which has its row.
LEMMA LinksKeep ==
  ASSUME PilotInv, NEW i \in DOMAIN posts, Link223(i) \/ Link225(i) \/ Link226(i)
  PROVE  PilotInv'
<1>1. PICK s \in {"sg223", "sg225", "sg226"} : LinkRender(s, i)
  BY DEF Link223, Link225, Link226
<1>2. posts[i].row # "none" /\ posts[i].reply \in Pictured
  BY <1>1 DEF LinkRender, PilotInv, PostsOK, PostOK
<1>3. links' = links \cup {i} /\ UNCHANGED <<setting, posts, run, marker, wrong, spendFile, overlapped>>
  BY <1>1 DEF LinkRender, sceneVars
<1>4. TypeOK'  BY <1>3 DEF PilotInv, TypeOK
<1>5. BusyRuns' /\ RunsOK' /\ PostsOK'
  BY <1>3 DEF PilotInv, BusyRuns, RunsOK, PostsOK, Ledgered
<1>6. LinkedResolves'  BY <1>2, <1>3 DEF PilotInv, LinkedResolves, Ledgered
<1> QED BY <1>4, <1>5, <1>6 DEF PilotInv

LEMMA ClassifyKeeps ==
  ASSUME PilotInv, Classify224
  PROVE  PilotInv'
<1>0. posts \in Seq(Post)  BY DEF PilotInv, TypeOK
<1>1. UNCHANGED <<setting, run, marker, links, wrong, spendFile, overlapped>>
  BY DEF Classify224, pilotVars
<1>2. posts' = [i \in DOMAIN posts |-> Zero(i)]  BY DEF Classify224
<1>3. ASSUME NEW i \in DOMAIN posts
      PROVE  /\ Zero(i) \in Post /\ Zero(i).script = posts[i].script /\ PostOK(Zero(i))
             /\ (Zero(i).row = "none") = (posts[i].row = "none") /\ Zero(i).reply = posts[i].reply
  <2>1. posts[i] \in Post /\ PostOK(posts[i])  BY <1>0 DEF PilotInv, PostsOK
  <2>2. CASE i \in NullRows
    <3>1. posts[i].row = "unpriced" /\ posts[i].reply \in Free
      BY <2>1, <2>2 DEF Classify224, NullRows, RowsOf, ProvenFree, ErrorState, PostOK
    <3> DEFINE z == [posts[i] EXCEPT !.row = "zeroed"]
    <3>2. Zero(i) = z  BY <2>2 DEF Zero
    <3>3. /\ z \in Post /\ z.script = posts[i].script /\ z.reply = posts[i].reply
          /\ z.image = posts[i].image /\ z.marked = posts[i].marked /\ z.row = "zeroed"
      BY <2>1 DEF Post, Rows
    <3>4. PostOK(z)  BY <2>1, <3>1, <3>3 DEF PostOK
    <3> HIDE DEF z
    <3> QED BY <3>1, <3>2, <3>3, <3>4
  <2>3. CASE i \notin NullRows  BY <2>1, <2>3 DEF Zero
  <2> QED BY <2>2, <2>3
<1>4. DOMAIN posts' = DOMAIN posts /\ \A i \in DOMAIN posts : posts'[i] = Zero(i)
  BY <1>2
<1>5. posts' \in Seq(Post) /\ Len(posts') = Len(posts)
  <2>1. DOMAIN posts = 1..Len(posts) /\ Len(posts) \in Nat  BY <1>0
  <2>2. posts' \in [1..Len(posts) -> Post]  BY <1>2, <1>3, <2>1
  <2> QED BY <2>1, <2>2
<1>6. TypeOK'  BY <1>1, <1>4, <1>5 DEF PilotInv, TypeOK
<1>7. BusyRuns'  BY <1>1 DEF PilotInv, BusyRuns
<1>8. RunsOK'  BY <1>1, <1>3, <1>4 DEF PilotInv, RunsOK, Ledgered
<1>9. PostsOK'  BY <1>3, <1>4 DEF PostsOK
<1>10. LinkedResolves'
  <2> SUFFICES ASSUME NEW i \in links PROVE posts'[i].row # "none" /\ posts'[i].reply \in Pictured
    BY <1>1 DEF LinkedResolves, Ledgered
  <2>1. i \in DOMAIN posts  BY DEF PilotInv, TypeOK
  <2> QED BY <2>1, <1>3, <1>4 DEF PilotInv, LinkedResolves, Ledgered
<1> QED BY <1>6, <1>7, <1>8, <1>9, <1>10 DEF PilotInv

LEMMA NextKeeps == PilotInv /\ [Next]_vars => PilotInv'
<1> SUFFICES ASSUME PilotInv, [Next]_vars PROVE PilotInv'  OBVIOUS
<1>t. TypeOK /\ BusyRuns  BY DEF PilotInv
<1>1. CASE Starts  BY <1>1, <1>t, StartsAreStill, StillKeeps
<1>2. CASE Proofs
  <2>1. \A s \in Scripts : run[s].pc = "leg" => run[s].post = 0  BY DEF PilotInv, RunsOK
  <2> QED BY <1>2, <1>t, <2>1, ProofsAreStill, StillKeeps
<1>3. CASE MarksUp  BY <1>3, MarksKeep
<1>4. ASSUME NEW s \in Scripts, Render(s)  PROVE PilotInv'  BY <1>4, RenderKeeps
<1>5. CASE Unlink223 \/ \E s \in Scripts : Return(s) \/ Crash(s)
  BY <1>5, <1>t, OthersAreStill, StillKeeps
<1>6. ASSUME NEW i \in DOMAIN posts, Link223(i) \/ Link225(i) \/ Link226(i)  PROVE PilotInv'
  BY <1>6, LinksKeep
<1>7. CASE Classify224  BY <1>7, ClassifyKeeps
<1>8. CASE UNCHANGED vars
  <2>1. Still  BY <1>8, <1>t DEF vars, sceneVars, pilotVars, Still, Quiet, RestOK, TypeOK
  <2> QED BY <2>1, StillKeeps
<1> QED BY <1>1, <1>2, <1>3, <1>4, <1>5, <1>6, <1>7, <1>8 DEF Next

LEMMA AlwaysInv == Spec => []PilotInv
BY InitInv, NextKeeps, PTL DEF Spec

\* Every run of the scripts keeps the types of their record.
THEOREM TypesHold == Spec => []TypeOK
<1>1. PilotInv => TypeOK  BY DEF PilotInv
<1> QED BY <1>1, AlwaysInv, PTL

\* Whatever the answers, deaths and overlaps, a linked render resolves to the
\* ledger row of its own send.
THEOREM LinksAlwaysResolve == Spec => []LinkedResolves
<1>1. PilotInv => LinkedResolves  BY DEF PilotInv
<1> QED BY <1>1, AlwaysInv, PTL

LEMMA RowsAndReplies ==
  ASSUME NEW p \in Post, PostOK(p)
  PROVE  /\ p.row = "priced" => p.reply \notin Free
         /\ p.reply \notin Free => p.row \in {"none", "priced", "unpriced"}
<1>1. p.row \in Rows  BY DEF Post
<1>2. \A x \in Priced : x \notin Free  BY DEF Priced, Free
<1> QED BY <1>1, <1>2 DEF PostOK, Rows

-----------------------------------------------------------------------------
\* The inductive invariant of a slice.  An earlier post of its script is loose
\* (its answer was lost, or the run never came back, for the scripts that do not
\* notice) unless the slice is closed: by its marker, or by the ledger that knows
\* the photo.  A run that is busy started when every earlier post was loose, or
\* is barred at its first leg; it has marked what it sent, and a leg that it has
\* yet to send carries no mark that a post relies on.
Marked == {"sg217", "sg218"}
Own(s) == {i \in DOMAIN posts : posts[i].script = s}
Loose(i) == \/ posts[i].script \in Marked \cup {"sg223", "sg226"} /\ ~Answered(i)
            \/ posts[i].script \in Marked /\ ~posts[i].marked
First219 == Least(Picks219)
Closed(s) == \/ SliceSent(s)
             \/ s = "sg219" /\ PhotoLedgered(First219)
             \/ s = "sg220" /\ PhotoLedgered(Costita2)
Barred(s) == s = "sg219" /\ run[s].pc = "leg" /\ run[s].todo = Picks219 /\ PhotoLedgered(First219)
Once(s) == \A i, j \in Own(s) : i <= posts[j].since => Loose(i)
Rests(s) == /\ \A j \in Own(s) : posts[j].since <= Len(posts)
            /\ run[s].pc = "idle" => Closed(s) \/ \A i \in Own(s) : Loose(i)
Earlier(s) == run[s].pc # "idle" =>
  /\ run[s].since <= Len(posts)
  /\ \A i \in Own(s) : posts[i].since <= run[s].since /\ (i <= run[s].since => Loose(i) \/ Barred(s))
Legs(s) == run[s].pc # "idle" =>
  \A i \in Own(s) : i > run[s].since /\ i # run[s].post =>
    Loose(i) \/ (marker[s][posts[i].photo] = "sent" /\ posts[i].photo \notin run[s].todo)
Held(s) ==
  /\ run[s].post # 0 =>
       /\ run[s].post > run[s].since /\ posts[run[s].post].photo = Leg(s)
       /\ s \in Marked => ~posts[run[s].post].marked
  /\ run[s].pc = "armed" \/ run[s].post # 0 => s \in Marked \/ marker[s][Leg(s)] \in {"pending", "sent"}
Pair(s) == /\ s = "sg219" /\ run[s].pc # "idle" =>
                /\ First219 \in Picks219
                /\ \/ run[s].todo = Picks219
                   \/ First219 \notin run[s].todo /\ marker[s][First219] = "sent"
           /\ s = "sg220" /\ run[s].pc # "idle" => run[s].todo = {Costita2}
Slice(s) == Once(s) /\ Rests(s) /\ Earlier(s) /\ Legs(s) /\ Held(s) /\ Pair(s)
Slices == \A s \in Scripts \ Precedents : Slice(s)

\* A step that leaves the posts of a slice as they were, but for one at most.
Kept(s, e) ==
  /\ Own(s)' = Own(s) /\ Len(posts) <= Len(posts')
  /\ \A i \in Own(s) : posts'[i].photo = posts[i].photo /\ posts'[i].since = posts[i].since
  /\ \A i \in Own(s) : i # e => posts'[i].reply = posts[i].reply /\ posts'[i].marked = posts[i].marked
  /\ \A p : PhotoLedgered(p) => PhotoLedgered(p)'

LEMMA KeptLoose ==
  ASSUME NEW s, NEW e, Kept(s, e), NEW i \in Own(s), i # e
  PROVE  Loose(i)' <=> Loose(i)
<1>1. i \in Own(s)'  BY DEF Kept
<1>2. posts[i].script = s /\ posts'[i].script = s  BY <1>1 DEF Own
<1> QED BY <1>2 DEF Kept, Loose, Answered

LEMMA Unposted ==
  ASSUME posts' = posts, posts \in Seq(Post)
  PROVE  \A s, e : Kept(s, e)
<1>1. \A s : Own(s)' = Own(s)  BY DEF Own
<1>2. \A p : PhotoLedgered(p)' <=> PhotoLedgered(p)  BY DEF PhotoLedgered, Ledgered
<1>3. Len(posts) <= Len(posts')  OBVIOUS
<1> QED BY <1>1, <1>2, <1>3 DEF Kept

\* Facts about a script that leads a run.
LEMMA SliceRun ==
  ASSUME PilotInv, NEW s \in Scripts
  PROVE  /\ posts \in Seq(Post) /\ Len(posts) \in Nat /\ DOMAIN posts = 1..Len(posts)
         /\ Own(s) \subseteq 1..Len(posts) /\ 0 \notin Own(s)
         /\ \A i \in Own(s) : posts[i] \in Post /\ posts[i].since \in Nat /\ posts[i].photo \in Photos
         /\ run[s] \in Run /\ run[s].since \in Nat /\ run[s].post \in Nat
         /\ run[s].todo \subseteq Photos /\ marker[s] \in [Photos -> Marks]
         /\ run[s].pc # "idle" => Leg(s) \in run[s].todo /\ Leg(s) \in Photos
         /\ run[s].post # 0 => run[s].post \in Own(s) /\ run[s].pc \notin {"idle", "leg", "armed"}
<1>1. posts \in Seq(Post) /\ run[s] \in Run /\ marker[s] \in [Photos -> Marks]  BY DEF PilotInv, TypeOK
<1>2. Len(posts) \in Nat /\ DOMAIN posts = 1..Len(posts)  BY <1>1
<1>3. \A i \in DOMAIN posts : posts[i] \in Post  BY <1>1
<1>4. MaxPosts \in Nat  BY PilotAssumption
<1>5. \A p \in Post : p.since \in Nat /\ p.photo \in Photos  BY <1>4 DEF Post
<1>6. run[s].since \in Nat /\ run[s].post \in Nat /\ run[s].todo \subseteq Photos  BY <1>1, <1>4 DEF Run
<1>7. run[s].pc # "idle" => Leg(s) \in run[s].todo /\ Leg(s) \in Photos
  BY LegIsAPhoto DEF PilotInv, BusyRuns
<1>8. run[s].post # 0 => run[s].post \in Own(s) /\ run[s].pc \notin {"idle", "leg", "armed"}
  BY DEF PilotInv, RunsOK, Own
<1>9. Own(s) \subseteq 1..Len(posts) /\ 0 \notin Own(s)  BY <1>2 DEF Own
<1> QED BY <1>1, <1>2, <1>3, <1>5, <1>6, <1>7, <1>8, <1>9 DEF Own

\* Other scripts do not disturb a slice.
LEMMA SliceElsewhere ==
  ASSUME PilotInv, NEW s \in Scripts \ Precedents, Slice(s), Kept(s, 0),
         run'[s] = run[s], marker'[s] = marker[s], posts' \in Seq(Post)
  PROVE  Slice(s)'
<1>1. Once(s) /\ Rests(s) /\ Earlier(s) /\ Legs(s) /\ Held(s) /\ Pair(s)  BY DEF Slice
<1>2. /\ Own(s) \subseteq 1..Len(posts) /\ Len(posts) \in Nat /\ 0 \notin Own(s) /\ run[s].since \in Nat
      /\ run[s].post # 0 => run[s].post \in Own(s)
      /\ \A i \in Own(s) : posts[i].since \in Nat
  BY SliceRun
<1>3. /\ Own(s)' = Own(s) /\ Len(posts) <= Len(posts') /\ Len(posts') \in Nat
      /\ \A i \in Own(s) : /\ posts'[i].photo = posts[i].photo /\ posts'[i].since = posts[i].since
                           /\ posts'[i].marked = posts[i].marked
      /\ \A p : PhotoLedgered(p) => PhotoLedgered(p)'
  BY <1>2 DEF Kept
<1>4. \A i \in Own(s) : Loose(i)' <=> Loose(i)  BY <1>2, KeptLoose
<1>5. Leg(s)' = Leg(s)  BY DEF Leg
<1>6. First219' = First219  BY DEF First219, Picks219, Candidates219, Candidates218, Candidates217
<1>7. Once(s)'  BY <1>1, <1>3, <1>4 DEF Once
<1>8. Closed(s) => Closed(s)'  BY <1>3, <1>6 DEF Closed, SliceSent
<1>9. Rests(s)'  BY <1>1, <1>2, <1>3, <1>4, <1>8 DEF Rests
<1>10. Barred(s) => Barred(s)'  BY <1>3, <1>6 DEF Barred, Picks219, Candidates219, Candidates218, Candidates217
<1>11. Earlier(s)'  BY <1>1, <1>2, <1>3, <1>4, <1>10 DEF Earlier
<1>12. Legs(s)'  BY <1>1, <1>3, <1>4 DEF Legs
<1>13. Held(s)'  BY <1>1, <1>2, <1>3, <1>5 DEF Held
<1>14. Pair(s)'  BY <1>1, <1>6 DEF Pair, Picks219, Candidates219, Candidates218, Candidates217
<1> QED BY <1>7, <1>9, <1>11, <1>12, <1>13, <1>14 DEF Slice

\* Its own run: what it held is later than what any of its posts looked back on.
LEMMA OnceKept ==
  ASSUME PilotInv, NEW s \in Scripts, Slice(s), Kept(s, run[s].post), posts' \in Seq(Post)
  PROVE  /\ Once(s)' /\ \A j \in Own(s)' : posts'[j].since <= Len(posts')
         /\ Own(s)' = Own(s) /\ Len(posts) <= Len(posts') /\ Len(posts') \in Nat
         /\ \A i \in Own(s) : posts'[i].photo = posts[i].photo /\ posts'[i].since = posts[i].since
         /\ \A p : PhotoLedgered(p) => PhotoLedgered(p)'
         /\ \A i \in Own(s) : i # run[s].post => (Loose(i)' <=> Loose(i))
         /\ First219' = First219 /\ Picks219' = Picks219
<1>1. Once(s) /\ Rests(s) /\ Earlier(s) /\ Held(s)  BY DEF Slice
<1>2. /\ Own(s) \subseteq 1..Len(posts) /\ Len(posts) \in Nat /\ run[s].since \in Nat /\ run[s].post \in Nat
      /\ run[s].post # 0 => run[s].post \in Own(s) /\ run[s].pc # "idle"
      /\ \A i \in Own(s) : posts[i].since \in Nat
  BY SliceRun
<1>3. /\ Own(s)' = Own(s) /\ Len(posts) <= Len(posts') /\ Len(posts') \in Nat
      /\ \A i \in Own(s) : posts'[i].photo = posts[i].photo /\ posts'[i].since = posts[i].since
      /\ \A p : PhotoLedgered(p) => PhotoLedgered(p)'
  BY DEF Kept
<1>4. \A i \in Own(s) : i # run[s].post => (Loose(i)' <=> Loose(i))  BY KeptLoose
<1>5. ASSUME NEW i \in Own(s), NEW j \in Own(s), i <= posts[j].since PROVE Loose(i)'
  <2>1. Loose(i)  BY <1>1, <1>5 DEF Once
  <2>2. i # run[s].post
    <3>1. run[s].post # 0 => posts[j].since <= run[s].since /\ run[s].since < run[s].post
      BY <1>1, <1>2, <1>5 DEF Earlier, Held
    <3>2. i \in Nat /\ i # 0 /\ posts[j].since \in Nat  BY <1>2
    <3>3. PICK e : e = run[s].post  OBVIOUS
    <3>4. PICK k : k = posts[j].since  OBVIOUS
    <3>5. e # 0 => e \in Nat /\ k < e
      <4>1. PICK z : z = run[s].since  OBVIOUS
      <4>2. e # 0 => k <= z /\ z < e  BY <3>1, <3>3, <3>4, <4>1
      <4>3. e \in Nat /\ k \in Nat /\ z \in Nat  BY <1>2, <3>2, <3>3, <3>4, <4>1
      <4> QED BY <4>2, <4>3
    <3>6. i <= k  BY <1>5, <3>4
    <3> QED BY <3>2, <3>3, <3>4, <3>5, <3>6
  <2> QED BY <1>4, <2>1, <2>2
<1>6. Once(s)'  BY <1>3, <1>5 DEF Once
<1>7. \A j \in Own(s)' : posts'[j].since <= Len(posts')  BY <1>1, <1>2, <1>3 DEF Rests
<1>8. First219' = First219 /\ Picks219' = Picks219
  BY DEF First219, Picks219, Candidates219, Candidates218, Candidates217
<1> QED BY <1>3, <1>4, <1>6, <1>7, <1>8

LEMMA IdleFields == Idle.pc = "idle" /\ Idle.post = 0 /\ Idle.since = 0 /\ Idle.todo = {}
BY DEF Idle

\* A run that dies, stops, or breaks leaves a pending mark for what it held, if
\* it marks at all.
LEMMA EndKeepsSlice ==
  ASSUME PilotInv, NEW s \in Scripts, Slice(s), run[s].pc # "idle",
         Kept(s, run[s].post), posts' \in Seq(Post),
         run[s].post # 0 /\ s \in Marked => ~posts'[run[s].post].marked,
         marker'[s] = marker[s], run'[s] = Idle
  PROVE  Slice(s)'
<1>1. Earlier(s) /\ Legs(s) /\ Held(s)  BY DEF Slice
<1>2. PICK e : e = run[s].post  OBVIOUS
<1>3. /\ Once(s)' /\ \A j \in Own(s)' : posts'[j].since <= Len(posts')
      /\ Own(s)' = Own(s) /\ Len(posts') \in Nat
      /\ \A i \in Own(s) : posts'[i].photo = posts[i].photo /\ posts'[i].since = posts[i].since
      /\ \A p : PhotoLedgered(p) => PhotoLedgered(p)'
      /\ \A i \in Own(s) : i # e => (Loose(i)' <=> Loose(i))
      /\ First219' = First219
  BY <1>2, OnceKept
<1>4. /\ Own(s) \subseteq 1..Len(posts) /\ 0 \notin Own(s) /\ run[s].since \in Nat
      /\ \A i \in Own(s) : posts[i].photo \in Photos
      /\ Leg(s) \in Photos
  BY SliceRun
<1>5. ASSUME NEW i \in Own(s) PROVE Loose(i)' \/ Closed(s)'
  <2>1. CASE i # e /\ i <= run[s].since
    <3>1. Loose(i) \/ Barred(s)  BY <1>1, <1>5, <2>1 DEF Earlier
    <3>2. Barred(s) => Closed(s)'  BY <1>3 DEF Barred, Closed
    <3> QED BY <1>3, <2>1, <3>1, <3>2
  <2>2. CASE i # e /\ ~(i <= run[s].since)
    <3>1. i > run[s].since  BY <1>4, <2>2
    <3>2. Loose(i) \/ marker[s][posts[i].photo] = "sent"  BY <1>1, <1>2, <2>2, <3>1 DEF Legs
    <3>3. marker[s][posts[i].photo] = "sent" => Closed(s)'  BY <1>4 DEF Closed, SliceSent
    <3> QED BY <1>3, <2>2, <3>2, <3>3
  <2>3. CASE i = e
    <3>1. e # 0  BY <1>4, <2>3
    <3>2. CASE s \in Marked
      <4>1. posts'[i].script = s /\ ~posts'[i].marked  BY <1>2, <1>3, <2>3, <3>1, <3>2 DEF Own
      <4> QED BY <3>2, <4>1 DEF Loose
    <3>3. CASE s \notin Marked
      <4>1. marker[s][Leg(s)] \in {"pending", "sent"}  BY <1>1, <1>2, <3>1, <3>3 DEF Held
      <4> QED BY <1>4, <4>1 DEF Closed, SliceSent
    <3> QED BY <3>2, <3>3
  <2> QED BY <2>1, <2>2, <2>3
<1>6. Rests(s)'  BY <1>3, <1>5 DEF Rests
<1>7. Earlier(s)' /\ Legs(s)' /\ Held(s)' /\ Pair(s)'
  BY IdleFields DEF Earlier, Legs, Held, Pair
<1> QED BY <1>3, <1>6, <1>7 DEF Slice

\* A run that goes on with the leg and the post that it holds.
LEMMA GoesOnKeepsSlice ==
  ASSUME PilotInv, NEW s \in Scripts, Slice(s), run[s].pc \in {"armed", "sent", "stored", "returned"},
         Kept(s, run[s].post), posts' \in Seq(Post),
         run[s].post # 0 /\ s \in Marked => ~posts'[run[s].post].marked,
         marker'[s] = marker[s], NEW pc \in {"stored", "returned"},
         run'[s].pc = pc, run'[s].todo = run[s].todo, run'[s].post = run[s].post,
         run'[s].since = run[s].since
  PROVE  Slice(s)'
<1>1. Earlier(s) /\ Legs(s) /\ Held(s) /\ Pair(s)  BY DEF Slice
<1>2. PICK e : e = run[s].post  OBVIOUS
<1>3. /\ Once(s)' /\ \A j \in Own(s)' : posts'[j].since <= Len(posts')
      /\ Own(s)' = Own(s) /\ Len(posts) <= Len(posts') /\ Len(posts') \in Nat
      /\ \A i \in Own(s) : posts'[i].photo = posts[i].photo /\ posts'[i].since = posts[i].since
      /\ \A i \in Own(s) : i # e => (Loose(i)' <=> Loose(i))
      /\ First219' = First219 /\ Picks219' = Picks219
  BY <1>2, OnceKept
<1>4. /\ Own(s) \subseteq 1..Len(posts) /\ Len(posts) \in Nat /\ run[s].since \in Nat /\ e \in Nat
      /\ e # 0 => e \in Own(s)
  BY <1>2, SliceRun
<1>5. Leg(s)' = Leg(s)  BY DEF Leg
<1>6. Rests(s)'  BY <1>3 DEF Rests
<1>7. Earlier(s)'
  <2>1. ~Barred(s)  BY DEF Barred
  <2>2. \A i \in Own(s) : i <= run[s].since => i # e  BY <1>1, <1>2, <1>4 DEF Held
  <2> QED BY <1>1, <1>2, <1>3, <1>4, <2>1, <2>2 DEF Earlier
<1>8. Legs(s)'  BY <1>1, <1>2, <1>3 DEF Legs
<1>9. Held(s)'  BY <1>1, <1>2, <1>3, <1>4, <1>5 DEF Held
<1>10. Pair(s)'  BY <1>1, <1>3 DEF Pair
<1> QED BY <1>3, <1>6, <1>7, <1>8, <1>9, <1>10 DEF Slice

\* A leg is armed when its pending mark is written; a barred one never is.
LEMMA ProvedKeepsSlice ==
  ASSUME PilotInv, NEW s \in Scripts, Slice(s), run[s].pc = "leg", ~Barred(s),
         posts' = posts, MarkLeg(s, "pending"),
         run'[s].pc = "armed", run'[s].todo = run[s].todo, run'[s].post = run[s].post,
         run'[s].since = run[s].since
  PROVE  Slice(s)'
<1>1. Earlier(s) /\ Legs(s) /\ Held(s) /\ Pair(s)  BY DEF Slice
<1>2. posts \in Seq(Post) /\ run[s].post = 0 /\ Leg(s) \in run[s].todo /\ Leg(s) \in Photos
      /\ marker[s] \in [Photos -> Marks]
  BY SliceRun
<1>3. Kept(s, run[s].post) /\ posts' \in Seq(Post)  BY <1>2, Unposted
<1>4. /\ Once(s)' /\ \A j \in Own(s)' : posts'[j].since <= Len(posts')
      /\ Own(s)' = Own(s) /\ Len(posts') = Len(posts)
      /\ \A i \in Own(s) : i # run[s].post => (Loose(i)' <=> Loose(i))
      /\ First219' = First219 /\ Picks219' = Picks219
  BY <1>3, OnceKept
<1>5. /\ marker'[s][Leg(s)] = "pending"
      /\ \A p \in Photos : p # Leg(s) => marker'[s][p] = marker[s][p]
  BY <1>2 DEF MarkLeg, PilotInv, TypeOK
<1>6. Leg(s)' = Leg(s)  BY DEF Leg
<1>7. Rests(s)'  BY <1>4 DEF Rests
<1>8. \A i \in Own(s) : i # 0 /\ posts[i].photo \in Photos  BY SliceRun
<1>9. Earlier(s)'  BY <1>1, <1>2, <1>4, <1>8 DEF Earlier
<1>10. Legs(s)'  BY <1>1, <1>2, <1>4, <1>5, <1>8 DEF Legs
<1>11. Held(s)'  BY <1>2, <1>5, <1>6 DEF Held
<1>12. First219 \notin run[s].todo /\ marker[s][First219] = "sent" => marker'[s][First219] = "sent"
  BY <1>2 DEF MarkLeg, PilotInv, TypeOK
<1>13. Pair(s)'  BY <1>1, <1>4, <1>12 DEF Pair
<1> QED BY <1>4, <1>7, <1>9, <1>10, <1>11, <1>13 DEF Slice

\* A leg that is refused before its send.
LEMMA RefusedKeepsSlice ==
  ASSUME PilotInv, NEW s \in Scripts, Slice(s), run[s].pc = "leg",
         posts' = posts, MarkLeg(s, "unsent"), run'[s] = Idle
  PROVE  Slice(s)'
<1>1. Earlier(s) /\ Legs(s) /\ Held(s) /\ Pair(s)  BY DEF Slice
<1>2. posts \in Seq(Post) /\ run[s].post = 0 /\ Leg(s) \in run[s].todo /\ Leg(s) \in Photos
      /\ marker[s] \in [Photos -> Marks] /\ run[s].since \in Nat /\ Own(s) \subseteq 1..Len(posts)
  BY SliceRun
<1>3. Kept(s, run[s].post) /\ posts' \in Seq(Post)  BY <1>2, Unposted
<1>4. /\ Once(s)' /\ \A j \in Own(s)' : posts'[j].since <= Len(posts')
      /\ Own(s)' = Own(s) /\ Len(posts') = Len(posts)
      /\ \A p : PhotoLedgered(p) => PhotoLedgered(p)'
      /\ \A i \in Own(s) : i # run[s].post => (Loose(i)' <=> Loose(i))
      /\ First219' = First219
  BY <1>3, OnceKept
<1>5. \A p \in Photos : p # Leg(s) => marker'[s][p] = marker[s][p]
  BY <1>2 DEF MarkLeg, PilotInv, TypeOK
<1>6. ASSUME NEW i \in Own(s) PROVE Loose(i)' \/ Closed(s)'
  <2>1. i # 0 /\ posts[i].photo \in Photos  BY <1>6, SliceRun
  <2>2. CASE i <= run[s].since
    <3>1. Loose(i) \/ Barred(s)  BY <1>1, <1>6, <2>2 DEF Earlier
    <3>2. Barred(s) => Closed(s)'  BY <1>4 DEF Barred, Closed
    <3> QED BY <1>2, <1>4, <2>1, <3>1, <3>2
  <2>3. CASE ~(i <= run[s].since)
    <3>1. i > run[s].since  BY <1>2, <2>3
    <3>2. Loose(i) \/ (marker[s][posts[i].photo] = "sent" /\ posts[i].photo # Leg(s))
      BY <1>1, <1>2, <2>1, <3>1 DEF Legs
    <3>3. marker'[s][posts[i].photo] = "sent" => Closed(s)'  BY <2>1 DEF Closed, SliceSent
    <3> QED BY <1>2, <1>4, <1>5, <2>1, <3>2, <3>3
  <2> QED BY <2>2, <2>3
<1>7. Rests(s)'  BY <1>4, <1>6 DEF Rests
<1>8. Earlier(s)' /\ Legs(s)' /\ Held(s)' /\ Pair(s)'
  BY IdleFields DEF Earlier, Legs, Held, Pair
<1> QED BY <1>4, <1>7, <1>8 DEF Slice

\* A run that starts finds every earlier post loose, or the bar of its photo.
LEMMA BeginKeepsSlice ==
  ASSUME PilotInv, NEW s \in Scripts, Slice(s), run[s].pc = "idle", ~SliceSent(s), posts' = posts,
         run'[s].pc # "idle", run'[s].post = 0, run'[s].since = Len(posts),
         run'[s].pc = "armed" => s \in Marked \/ marker'[s][Leg(s)'] = "pending",
         s = "sg219" => run'[s].pc = "leg" /\ run'[s].todo = Picks219 /\ First219 \in Picks219,
         s = "sg220" => run'[s].todo = {Costita2} /\ ~PhotoLedgered(Costita2)
  PROVE  Slice(s)'
<1>1. Rests(s)  BY DEF Slice
<1>2. posts \in Seq(Post) /\ run[s].post = 0 /\ Own(s) \subseteq 1..Len(posts) /\ Len(posts) \in Nat
  BY SliceRun
<1>3. Kept(s, run[s].post) /\ posts' \in Seq(Post)  BY <1>2, Unposted
<1>4. /\ Once(s)' /\ \A j \in Own(s)' : posts'[j].since <= Len(posts')
      /\ Own(s)' = Own(s)
      /\ \A p : PhotoLedgered(p) => PhotoLedgered(p)'
      /\ \A i \in Own(s) : i # run[s].post => (Loose(i)' <=> Loose(i))
      /\ First219' = First219 /\ Picks219' = Picks219
  BY <1>3, OnceKept
<1>5. Closed(s) => Barred(s)'  BY <1>4 DEF Closed, Barred
<1>6. \A i \in Own(s) : Loose(i)' \/ Barred(s)'
  <2>1. \A i \in Own(s) : i # run[s].post  BY <1>2
  <2> QED BY <1>1, <1>4, <1>5, <2>1 DEF Rests
<1>7. Rests(s)'  BY <1>4 DEF Rests
<1>8. Earlier(s)'  BY <1>4, <1>6, <1>2 DEF Earlier
<1>9. Legs(s)'  BY <1>2, <1>4 DEF Legs
<1>10. Held(s)'  BY DEF Held
<1>11. Pair(s)'  BY <1>4 DEF Pair
<1> QED BY <1>4, <1>7, <1>8, <1>9, <1>10, <1>11 DEF Slice

\* What a run sends looks back on the loose posts alone.
LEMMA SendKeepsSlice ==
  ASSUME PilotInv, NEW s \in Scripts, Slice(s), run[s].pc = "armed",
         NEW p \in Post, p.script = s, p.photo = Leg(s), p.since = run[s].since, ~p.marked,
         NEW n, n = Len(posts) + 1, posts' = Append(posts, p), marker'[s] = marker[s],
         run'[s].pc = "sent", run'[s].post = n, run'[s].todo = run[s].todo, run'[s].since = run[s].since
  PROVE  Slice(s)'
<1>1. Once(s) /\ Rests(s) /\ Earlier(s) /\ Legs(s) /\ Held(s) /\ Pair(s)  BY DEF Slice
<1>2. /\ posts \in Seq(Post) /\ Len(posts) \in Nat /\ Own(s) \subseteq 1..Len(posts)
      /\ DOMAIN posts = 1..Len(posts) /\ run[s].since \in Nat /\ run[s].post = 0
      /\ \A i \in Own(s) : posts[i].since \in Nat
  BY SliceRun
<1>3. /\ DOMAIN posts' = 1..n /\ Len(posts') = n /\ n \in Nat /\ posts'[n] = p
      /\ \A i \in 1..Len(posts) : posts'[i] = posts[i]
  BY <1>2
<1>4. Own(s)' = Own(s) \cup {n} /\ n \notin Own(s)
  <2>1. \A i : i \in 1..n <=> i \in 1..Len(posts) \/ i = n  BY <1>2
  <2> QED BY <1>2, <1>3, <2>1 DEF Own
<1>5. ASSUME NEW i \in Own(s)
      PROVE  posts'[i] = posts[i] /\ (Loose(i)' <=> Loose(i)) /\ i < n /\ i \in Nat
  BY <1>2, <1>3 DEF Loose, Answered
<1>6. run[s].since < n /\ run[s].since <= Len(posts)  BY <1>1, <1>2 DEF Earlier
<1>7. \A i \in Own(s) : posts[i].since <= run[s].since /\ (i <= run[s].since => Loose(i))
  <2>1. ~Barred(s)  BY DEF Barred
  <2> QED BY <1>1, <2>1 DEF Earlier
<1>8. First219' = First219 /\ Picks219' = Picks219
  BY DEF First219, Picks219, Candidates219, Candidates218, Candidates217
<1>9. Leg(s)' = Leg(s)  BY DEF Leg
<1>10. Once(s)'
  <2>1. ASSUME NEW i \in Own(s)', NEW j \in Own(s)', i <= posts'[j].since PROVE Loose(i)'
    <3>1. PICK z : z = run[s].since  OBVIOUS
    <3>2. posts'[j].since <= z /\ posts'[j].since \in Nat  BY <1>2, <1>3, <1>4, <1>5, <1>7, <3>1
    <3>3. i \in Nat /\ z \in Nat /\ z < n /\ n \in Nat  BY <1>2, <1>3, <1>4, <1>5, <1>6, <3>1
    <3>4. i <= z
      <4>1. PICK k : k = posts'[j].since  OBVIOUS
      <4>2. k \in Nat /\ k <= z /\ i <= k  BY <2>1, <3>2, <4>1
      <4> QED BY <3>3, <4>2
    <3>5. i \in Own(s)  BY <1>4, <3>3, <3>4
    <3> QED BY <1>5, <1>7, <3>1, <3>4, <3>5
  <2> QED BY <2>1 DEF Once
<1>11. Rests(s)'
  <2>1. ASSUME NEW j \in Own(s) PROVE posts'[j].since <= n
    BY <1>1, <1>2, <1>3, <1>5 DEF Rests
  <2>2. posts'[n].since <= n  BY <1>2, <1>3, <1>6
  <2> QED BY <1>3, <1>4, <2>1, <2>2 DEF Rests
<1>12. Earlier(s)'
  <2>1. ASSUME NEW i \in Own(s) PROVE posts'[i].since <= run[s].since /\ (i <= run[s].since => Loose(i)')
    BY <1>5, <1>7
  <2>2. posts'[n].since <= run[s].since /\ ~(n <= run[s].since)  BY <1>2, <1>3, <1>6
  <2>3. run[s].since <= Len(posts')  BY <1>2, <1>3, <1>6
  <2> QED BY <1>4, <2>1, <2>2, <2>3 DEF Earlier
<1>13. Legs(s)'
  <2>1. ASSUME NEW i \in Own(s), i > run[s].since
        PROVE  Loose(i)' \/ (marker'[s][posts'[i].photo] = "sent" /\ posts'[i].photo \notin run[s].todo)
    <3>1. i # run[s].post  BY <1>2
    <3> QED BY <1>1, <1>5, <2>1, <3>1 DEF Legs
  <2> QED BY <1>4, <2>1 DEF Legs
<1>14. Held(s)'
  <2>1. n > run[s].since /\ posts'[n].photo = Leg(s) /\ ~posts'[n].marked  BY <1>2, <1>3, <1>6
  <2>2. s \in Marked \/ marker'[s][Leg(s)] \in {"pending", "sent"}  BY <1>1 DEF Held
  <2> QED BY <1>9, <2>1, <2>2 DEF Held
<1>15. Pair(s)'  BY <1>1, <1>8 DEF Pair
<1> QED BY <1>10, <1>11, <1>12, <1>13, <1>14, <1>15 DEF Slice

\* A run that is back writes what became of its post, and ends or goes on to the
\* next leg.
LEMMA ReturnedKeepsSlice ==
  ASSUME PilotInv, NEW s \in Scripts \ Precedents, Slice(s), run[s].pc = "returned",
         Kept(s, run[s].post), posts' \in Seq(Post),
         run[s].post # 0 => posts'[run[s].post].reply = posts[run[s].post].reply,
         NEW m, MarkLeg(s, m), run[s].post # 0 /\ (Answered(run[s].post) \/ s = "sg225") => m = "sent",
         \/ run'[s] = Idle
         \/ /\ s \notin Marked \cup {"sg220"} /\ run[s].post # 0
            /\ Answered(run[s].post) \/ s \in {"sg223", "sg226"}
            /\ run'[s].pc = "leg" /\ run'[s].todo = Rest(s) /\ run'[s].post = 0
            /\ run'[s].since = run[s].since
  PROVE  Slice(s)'
<1>1. Earlier(s) /\ Legs(s) /\ Held(s) /\ Pair(s)  BY DEF Slice
<1>2. PICK e : e = run[s].post  OBVIOUS
<1>3. /\ Once(s)' /\ \A j \in Own(s)' : posts'[j].since <= Len(posts')
      /\ Own(s)' = Own(s) /\ Len(posts) <= Len(posts') /\ Len(posts') \in Nat
      /\ \A i \in Own(s) : posts'[i].photo = posts[i].photo /\ posts'[i].since = posts[i].since
      /\ \A p : PhotoLedgered(p) => PhotoLedgered(p)'
      /\ \A i \in Own(s) : i # e => (Loose(i)' <=> Loose(i))
      /\ First219' = First219 /\ Picks219' = Picks219
  BY <1>2, OnceKept
<1>4. /\ Own(s) \subseteq 1..Len(posts) /\ Len(posts) \in Nat /\ run[s].since \in Nat /\ e \in Nat
      /\ e # 0 => e \in Own(s)
      /\ \A i \in Own(s) : posts[i].photo \in Photos /\ i # 0
      /\ Leg(s) \in run[s].todo /\ Leg(s) \in Photos /\ marker[s] \in [Photos -> Marks]
  BY <1>2, SliceRun
<1>5. /\ marker'[s][Leg(s)] = m
      /\ \A p \in Photos : p # Leg(s) => marker'[s][p] = marker[s][p]
  BY <1>4 DEF MarkLeg, PilotInv, TypeOK
<1>6. ~Barred(s)  BY DEF Barred
<1>7. ASSUME NEW i \in Own(s), i # e
      PROVE  \/ Loose(i)'
             \/ /\ i > run[s].since /\ marker'[s][posts[i].photo] = "sent"
                /\ posts[i].photo \notin run[s].todo
  <2>1. CASE i <= run[s].since  BY <1>1, <1>3, <1>6, <1>7, <2>1 DEF Earlier
  <2>2. CASE ~(i <= run[s].since)
    <3>1. i > run[s].since  BY <1>4, <2>2
    <3>2. Loose(i) \/ (marker[s][posts[i].photo] = "sent" /\ posts[i].photo \notin run[s].todo)
      BY <1>1, <1>2, <1>7, <3>1 DEF Legs
    <3> QED BY <1>3, <1>4, <1>5, <1>7, <3>1, <3>2
  <2> QED BY <2>1, <2>2
<1>8. e # 0 => posts'[e].script = s /\ posts'[e].photo = Leg(s) /\ e > run[s].since
               /\ posts'[e].reply = posts[e].reply
  BY <1>1, <1>2, <1>3, <1>4 DEF Own, Held
<1>9. e # 0 /\ m # "sent" /\ s \in Marked \cup {"sg223", "sg226"} => Loose(e)'
  BY <1>2, <1>8 DEF Loose, Answered
<1>10. s = "sg219" => Leg(s) = Least(run[s].todo)  BY DEF Leg
<1>11. s = "sg219" => \/ run[s].todo = Picks219 /\ Leg(s) = First219
                      \/ /\ First219 \notin run[s].todo /\ marker[s][First219] = "sent"
                         /\ marker'[s][First219] = "sent"
  <2>1. First219 \notin run[s].todo => marker'[s][First219] = marker[s][First219]
    BY <1>4 DEF MarkLeg, PilotInv, TypeOK
  <2> QED BY <1>1, <1>10, <2>1 DEF Pair, First219
<1>12. Rests(s)' \/ run'[s].pc # "idle"
  <2>1. ASSUME NEW p \in Photos, marker'[s][p] = "sent" PROVE Closed(s)'
    BY <2>1 DEF Closed, SliceSent
  <2>2. ASSUME NEW i \in Own(s), i # e PROVE Loose(i)' \/ Closed(s)'  BY <1>4, <1>7, <2>1, <2>2
  <2>3. ASSUME e # 0 PROVE Loose(e)' \/ Closed(s)'
    <3>1. CASE m = "sent"  BY <1>4, <1>5, <2>1, <3>1
    <3>2. CASE m # "sent" /\ s \in Marked \cup {"sg223", "sg226"}  BY <1>9, <2>3, <3>2
    <3>3. CASE m # "sent" /\ s \in {"sg219", "sg220"}
      <4>1. PhotoLedgered(Leg(s))
        BY <1>2, <1>4, <1>1, <2>3 DEF PilotInv, RunsOK, PhotoLedgered, Own, Held
      <4>2. CASE s = "sg220"
        <5>1. Leg(s) = Costita2  BY <1>1, <1>4, <4>2 DEF Pair
        <5> QED BY <1>3, <4>1, <4>2, <5>1 DEF Closed
      <4>3. CASE s = "sg219"
        <5>1. First219 \in Photos
          BY <1>1, <4>3, PilotAssumption DEF Pair, Picks219, Candidates219, Candidates218, Candidates217
        <5> QED BY <1>3, <1>11, <2>1, <4>1, <4>3, <5>1 DEF Closed
      <4> QED BY <3>3, <4>2, <4>3
    <3>4. s \in Marked \cup {"sg223", "sg226"} \cup {"sg219", "sg220"} \cup {"sg225"}
      BY PilotAssumption DEF Precedents, Marked
    <3> QED BY <1>2, <2>3, <3>1, <3>2, <3>3, <3>4
  <2> QED BY <1>3, <1>4, <2>2, <2>3 DEF Rests
<1>13. CASE run'[s] = Idle
  <2>1. Rests(s)'  BY <1>12, <1>13, IdleFields
  <2>2. Earlier(s)' /\ Legs(s)' /\ Held(s)' /\ Pair(s)'
    BY <1>13, IdleFields DEF Earlier, Legs, Held, Pair
  <2> QED BY <1>3, <2>1, <2>2 DEF Slice
<1>14. CASE /\ s \notin Marked \cup {"sg220"} /\ e # 0
            /\ m = "sent" \/ s \in {"sg223", "sg226"}
            /\ run'[s].pc = "leg" /\ run'[s].todo = Rest(s) /\ run'[s].post = 0
            /\ run'[s].since = run[s].since
  <2>1. Rests(s)'  BY <1>3, <1>14 DEF Rests
  <2>2. Earlier(s)'
    <3>1. \A i \in Own(s) : i <= run[s].since => i # e  BY <1>4, <1>8
    <3> QED BY <1>1, <1>3, <1>4, <1>6, <1>14, <3>1 DEF Earlier
  <2>3. Legs(s)'
    <3>1. ASSUME NEW i \in Own(s)
          PROVE  Loose(i)' \/ (marker'[s][posts'[i].photo] = "sent" /\ posts'[i].photo \notin Rest(s))
      <4>1. CASE i = e  BY <1>5, <1>8, <1>9, <1>14, <4>1 DEF Rest
      <4>2. CASE i # e  BY <1>3, <1>7, <4>2 DEF Rest
      <4> QED BY <4>1, <4>2
    <3> QED BY <1>3, <1>14, <3>1 DEF Legs
  <2>4. Held(s)'  BY <1>14 DEF Held
  <2>5. s = "sg219" => First219 \notin Rest(s) /\ marker'[s][First219] = "sent"
    BY <1>5, <1>11, <1>14 DEF Rest
  <2>6. s = "sg219" => First219 \in Picks219  BY <1>1 DEF Pair
  <2>7. s # "sg220"  BY <1>14
  <2>8. Pair(s)'  BY <1>3, <1>14, <2>5, <2>6, <2>7 DEF Pair
  <2> QED BY <1>3, <2>1, <2>2, <2>3, <2>4, <2>8 DEF Slice
<1> QED BY <1>2, <1>13, <1>14

\* A marker that says "sent" before the result is written keeps the slice closed.
LEMMA SaidKeepsSlice ==
  ASSUME PilotInv, NEW s \in Scripts, s = "sg225", Slice(s), run[s].pc = "returned",
         posts' = posts, run' = run, MarkLeg(s, "sent")
  PROVE  Slice(s)'
<1>1. Earlier(s) /\ Legs(s) /\ Held(s) /\ Pair(s)  BY DEF Slice
<1>2. /\ posts \in Seq(Post) /\ Leg(s) \in Photos /\ marker[s] \in [Photos -> Marks]
      /\ \A i \in Own(s) : posts[i].photo \in Photos
  BY SliceRun
<1>3. Own(s)' = Own(s) /\ \A i \in Own(s) : Loose(i)' <=> Loose(i)  BY DEF Own, Loose, Answered
<1>4. /\ marker'[s][Leg(s)] = "sent"
      /\ \A p \in Photos : p # Leg(s) => marker'[s][p] = marker[s][p]
  BY <1>2 DEF MarkLeg, PilotInv, TypeOK
<1>5. Leg(s)' = Leg(s)  BY DEF Leg
<1>6. Once(s)'  BY <1>3 DEF Once, Slice
<1>7. Rests(s)'  BY <1>3 DEF Rests, Slice
<1>8. Earlier(s)'  BY <1>1, <1>3 DEF Earlier, Barred
<1>9. Legs(s)'  BY <1>1, <1>2, <1>3, <1>4 DEF Legs
<1>10. Held(s)'  BY <1>1, <1>4, <1>5 DEF Held
<1>11. Pair(s)'  BY DEF Pair
<1> QED BY <1>6, <1>7, <1>8, <1>9, <1>10, <1>11 DEF Slice

\* One script moves; the slices of the others stay.
LEMMA OthersStay ==
  ASSUME PilotInv, Slices, posts' \in Seq(Post), NEW s \in Scripts, NEW r, run' = [run EXCEPT ![s] = r],
         marker' = marker \/ \E b : marker' = [marker EXCEPT ![s] = b],
         \A t \in Scripts \ {s} : Kept(t, 0), s \in Precedents \/ Slice(s)'
  PROVE  Slices'
<1>1. \A t \in Scripts \ {s} : run'[t] = run[t] /\ marker'[t] = marker[t]  BY DEF PilotInv, TypeOK
<1>2. ASSUME NEW t \in Scripts \ Precedents, t # s PROVE Slice(t)'
  BY <1>1, <1>2, SliceElsewhere DEF Slices
<1> QED BY <1>2 DEF Slices

LEMMA StillSlices ==
  ASSUME PilotInv, Slices, posts' = posts, NEW s \in Scripts, NEW r, run' = [run EXCEPT ![s] = r],
         marker' = marker \/ \E b : marker' = [marker EXCEPT ![s] = b], s \in Precedents \/ Slice(s)'
  PROVE  Slices'
<1>1. posts \in Seq(Post)  BY DEF PilotInv, TypeOK
<1>2. \A t : Kept(t, 0)  BY <1>1, Unposted
<1> QED BY <1>1, <1>2, OthersStay

LEMMA BeginSlices ==
  ASSUME PilotInv, Slices, NEW s \in Scripts \ Precedents, run[s].pc = "idle", ~SliceSent(s), posts' = posts,
         NEW pc, NEW todo, NEW cap, Begin(s, pc, todo, cap), pc # "idle",
         \E b : marker' = [marker EXCEPT ![s] = b],
         pc = "armed" => s \in Marked \/ (s = "sg225" /\ todo = {Miso} /\ marker'[s][Miso] = "pending"),
         s = "sg219" => pc = "leg" /\ todo = Picks219 /\ First219 \in Picks219,
         s = "sg220" => todo = {Costita2} /\ ~PhotoLedgered(Costita2)
  PROVE  Slices'
<1>1. PICK r : r = [pc |-> pc, todo |-> todo, cap |-> cap, post |-> 0, since |-> Len(posts)]  OBVIOUS
<1>2. run' = [run EXCEPT ![s] = r]  BY <1>1 DEF Begin
<1>3. run'[s] = r  BY <1>2 DEF PilotInv, TypeOK
<1>4. run'[s].pc = pc /\ run'[s].todo = todo /\ run'[s].post = 0 /\ run'[s].since = Len(posts)
  BY <1>1, <1>3
<1>5. s = "sg225" /\ todo = {Miso} => Leg(s)' = Miso
  <2>1. Miso \in Nat /\ {Miso} \subseteq Nat  BY PilotAssumption
  <2>2. Least({Miso}) \in {Miso}  BY <2>1, LeastOfPhotos
  <2> QED BY <1>4, <2>2 DEF Leg
<1>6. pc = "armed" => s \in Marked \/ marker'[s][Leg(s)'] = "pending"  BY <1>3, <1>5
<1>7. Slice(s)'  BY <1>4, <1>6, BeginKeepsSlice DEF Slices
<1> QED BY <1>2, <1>7, StillSlices

LEMMA BeginLegsSlices ==
  ASSUME PilotInv, Slices, NEW s \in Scripts \ Precedents, Ready(s), ~SliceSent(s), posts' = posts,
         NEW todo, Begin(s, "leg", todo, 0), marker' = [marker EXCEPT ![s] = Blank],
         s = "sg219" => todo = Picks219 /\ First219 \in Picks219,
         s = "sg220" => todo = {Costita2} /\ ~PhotoLedgered(Costita2)
  PROVE  Slices'
<1>1. PICK pc : pc = "leg"  OBVIOUS
<1>2. run[s].pc = "idle" /\ pc # "idle" /\ pc # "armed"  BY <1>1 DEF Ready
<1>3. Begin(s, pc, todo, 0)  BY <1>1
<1>4. \E b : marker' = [marker EXCEPT ![s] = b]  OBVIOUS
<1> QED BY <1>1, <1>2, <1>3, <1>4, BeginSlices

LEMMA StartsKeepSlices ==
  ASSUME PilotInv, Slices, Starts
  PROVE  Slices'
<1>s. /\ {"sg158", "sg159", "sg166"} \subseteq Scripts /\ {"sg158", "sg159", "sg166"} \subseteq Precedents
      /\ {"sg217", "sg218", "sg219", "sg220", "sg223", "sg225", "sg226"} \subseteq Scripts \ Precedents
  BY PilotAssumption DEF Precedents
<1>1. ASSUME NEW s \in Precedents, s \in Scripts, StartFixed(s) PROVE Slices'
  <2>1. PICK p : Begin(s, "armed", {p}, FixedCap)  BY <1>1 DEF StartFixed
  <2>2. posts' = posts /\ marker' = marker  BY <1>1 DEF StartFixed
  <2> QED BY <1>1, <2>1, <2>2, StillSlices DEF Begin
<1>2. ASSUME NEW s \in Marked, NEW p, StartMarked(s, p) PROVE Slices'
  <2>1. s \in Scripts \ Precedents /\ s \notin {"sg219", "sg220"}  BY <1>s DEF Marked
  <2>2. \E b : marker' = [marker EXCEPT ![s] = b]  BY <1>2 DEF StartMarked
  <2>3. PICK pc : pc = "armed"  OBVIOUS
  <2>4. /\ run[s].pc = "idle" /\ ~SliceSent(s) /\ posts' = posts /\ Begin(s, pc, {p}, Cap217)
    BY <1>2, <2>3 DEF StartMarked, Ready
  <2> QED BY <2>1, <2>2, <2>3, <2>4, BeginSlices
<1>3. CASE Start219
  <2>1. /\ Ready("sg219") /\ ~SliceSent("sg219") /\ posts' = posts
        /\ Begin("sg219", "leg", Picks219, 0) /\ marker' = [marker EXCEPT !["sg219"] = Blank]
        /\ Cardinality(Picks219) = 2
    BY <1>3 DEF Start219
  <2>2. First219 \in Picks219
    <3>1. Picks219 # {}  BY <2>1, FS_EmptySet
    <3>2. Picks219 \subseteq Nat
      BY PilotAssumption DEF Picks219, Candidates219, Candidates218, Candidates217
    <3> QED BY <3>1, <3>2, LeastOfPhotos DEF First219
  <2> QED BY <1>s, <2>1, <2>2, BeginLegsSlices
<1>4. CASE Start220
  <2>1. /\ Ready("sg220") /\ ~SliceSent("sg220") /\ posts' = posts
        /\ Begin("sg220", "leg", {Costita2}, 0) /\ marker' = [marker EXCEPT !["sg220"] = Blank]
        /\ ~PhotoLedgered(Costita2)
    BY <1>4 DEF Start220, Confirmed220
  <2> QED BY <1>s, <2>1, BeginLegsSlices
<1>5. CASE Start223
  <2>1. /\ Ready("sg223") /\ ~SliceSent("sg223") /\ posts' = posts
        /\ Begin("sg223", "leg", {Costita, Miso}, 0) /\ marker' = [marker EXCEPT !["sg223"] = Blank]
    BY <1>5 DEF Start223
  <2> QED BY <1>s, <2>1, BeginLegsSlices
<1>6. CASE Start225
  <2>1. PICK s \in Scripts \ Precedents : s = "sg225"  BY <1>s
  <2>2. PICK b : b = [Blank EXCEPT ![Miso] = "pending"]  OBVIOUS
  <2>3. PICK pc : pc = "armed"  OBVIOUS
  <2>4. /\ run[s].pc = "idle" /\ ~SliceSent(s) /\ posts' = posts
        /\ Begin(s, pc, {Miso}, Cap225) /\ marker' = [marker EXCEPT ![s] = b]
    BY <1>6, <2>1, <2>2, <2>3 DEF Start225, Ready
  <2>5. marker'[s][Miso] = "pending"
    <3>1. b[Miso] = "pending"  BY <2>2, PilotAssumption DEF Blank
    <3>2. marker'[s] = b  BY <2>4 DEF PilotInv, TypeOK
    <3> QED BY <3>1, <3>2
  <2>6. s # "sg219" /\ s # "sg220" /\ pc # "idle"  BY <2>1, <2>3
  <2>7. \E c : marker' = [marker EXCEPT ![s] = c]  BY <2>4
  <2> QED BY <2>1, <2>3, <2>4, <2>5, <2>6, <2>7, BeginSlices
<1>7. CASE Start226
  <2>1. /\ Ready("sg226") /\ run["sg226"].pc = "idle" /\ ~SliceSent("sg226") /\ posts' = posts
        /\ marker' = [marker EXCEPT !["sg226"] = Blank]
    BY <1>7 DEF Start226, Ready
  <2>2. CASE Fits226(BulkRenders)
    <3>1. Begin("sg226", "leg", RenderList226, 0)  BY <1>7, <2>2 DEF Start226
    <3> QED BY <1>s, <2>1, <3>1, BeginLegsSlices
  <2>3. CASE ~Fits226(BulkRenders)
    <3>1. run' = run  BY <1>7, <2>3 DEF Start226
    <3>2. PICK s \in Scripts \ Precedents : s = "sg226"  BY <1>s
    <3>3. Slice(s) /\ posts \in Seq(Post) /\ run[s].post = 0  BY <2>1, <3>2, SliceRun DEF Slices
    <3>4. /\ Once(s)' /\ \A j \in Own(s)' : posts'[j].since <= Len(posts')
          /\ Own(s)' = Own(s) /\ \A i \in Own(s) : i # 0 => (Loose(i)' <=> Loose(i))
      BY <2>1, <3>3, Unposted, OnceKept
    <3>5. \A i \in Own(s) : Loose(i)
      BY <2>1, <3>2, <3>3 DEF Slice, Rests, Closed
    <3>6. \A i \in Own(s)' : Loose(i)'
      BY <3>4, <3>5, SliceRun
    <3>7. Rests(s)'  BY <3>4, <3>6 DEF Rests
    <3>8. Earlier(s)' /\ Legs(s)' /\ Held(s)' /\ Pair(s)'
      BY <2>1, <3>1, <3>2, <3>3 DEF Earlier, Legs, Held, Pair
    <3>9. Slice(s)'  BY <3>4, <3>7, <3>8 DEF Slice
    <3>10. run' = [run EXCEPT ![s] = run[s]]  BY <3>1 DEF PilotInv, TypeOK
    <3>11. \E b : marker' = [marker EXCEPT ![s] = b]  BY <2>1, <3>2
    <3> QED BY <2>1, <3>9, <3>10, <3>11, StillSlices
  <2> QED BY <2>2, <2>3
<1>8. CASE Start158 \/ Start159 \/ Start166  BY <1>1, <1>8, <1>s DEF Start158, Start159, Start166
<1>9. CASE Start217 \/ Start218  BY <1>2, <1>9 DEF Start217, Start218, Marked
<1> QED BY <1>3, <1>4, <1>5, <1>6, <1>7, <1>8, <1>9 DEF Starts

LEMMA LegsKeepSlices ==
  ASSUME PilotInv, Slices, NEW s \in Scripts \ Precedents, run[s].pc = "leg", posts' = posts,
         \/ \E cap : Proved(s, cap) /\ ~Barred(s)
         \/ Refused(s)
         \/ Stops(s)
  PROVE  Slices'
<1>1. Slice(s) /\ posts \in Seq(Post) /\ run[s] \in Run /\ run[s].post = 0  BY SliceRun DEF Slices
<1>2. ASSUME NEW m, MarkLeg(s, m) PROVE \E b : marker' = [marker EXCEPT ![s] = b]
  BY <1>2 DEF MarkLeg
<1>3. ASSUME NEW cap, Proved(s, cap), ~Barred(s) PROVE Slices'
  <2>1. PICK r : r = [run[s] EXCEPT !.pc = "armed", !.cap = cap]  OBVIOUS
  <2>2. run' = [run EXCEPT ![s] = r] /\ MarkLeg(s, "pending")
    <3>1. Arm(s, cap) /\ MarkLeg(s, "pending")  BY <1>3 DEF Proved
    <3> QED BY <2>1, <3>1 DEF Arm
  <2>3. r.pc = "armed" /\ r.todo = run[s].todo /\ r.post = run[s].post /\ r.since = run[s].since
    BY <1>1, <2>1 DEF Run
  <2>4. run'[s] = r  BY <2>2 DEF PilotInv, TypeOK
  <2>5. Slice(s)'  BY <1>1, <1>3, <2>2, <2>3, <2>4, ProvedKeepsSlice
  <2> QED BY <1>2, <2>2, <2>5, StillSlices
<1>4. CASE Refused(s)
  <2>1. MarkLeg(s, "unsent") /\ run' = [run EXCEPT ![s] = Idle]  BY <1>4 DEF Refused, End
  <2>2. run'[s] = Idle  BY <2>1 DEF PilotInv, TypeOK
  <2>3. Slice(s)'  BY <1>1, <2>1, <2>2, RefusedKeepsSlice
  <2> QED BY <1>2, <2>1, <2>3, StillSlices
<1>5. CASE Stops(s)
  <2>1. marker' = marker /\ run' = [run EXCEPT ![s] = Idle]  BY <1>5 DEF Stops, End
  <2>2. run'[s] = Idle  BY <2>1 DEF PilotInv, TypeOK
  <2>3. Slice(s)'  BY <1>1, <2>1, <2>2, Unposted, EndKeepsSlice
  <2> QED BY <2>1, <2>3, StillSlices
<1> QED BY <1>3, <1>4, <1>5

LEMMA ProofsKeepSlices ==
  ASSUME PilotInv, Slices, Proofs
  PROVE  Slices'
<1>s. {"sg219", "sg220", "sg223", "sg226"} \subseteq Scripts \ Precedents
  BY PilotAssumption DEF Precedents
<1>1. CASE Prove219
  <2>1. run["sg219"].pc = "leg" /\ posts' = posts  BY <1>1 DEF Prove219
  <2>2. \/ Proved("sg219", Cap219) /\ ~PhotoLedgered(Leg("sg219"))
        \/ Refused("sg219") \/ Stops("sg219")
    BY <1>1 DEF Prove219
  <2>3. Barred("sg219") => PhotoLedgered(Leg("sg219"))  BY DEF Barred, Leg, First219
  <2> QED BY <1>s, <2>1, <2>2, <2>3, LegsKeepSlices
<1>2. CASE Prove220
  <2>1. /\ run["sg220"].pc = "leg" /\ posts' = posts
        /\ Proved("sg220", Cap219) \/ Refused("sg220") \/ Stops("sg220")
    BY <1>2 DEF Prove220
  <2> QED BY <1>s, <2>1, LegsKeepSlices DEF Barred
<1>3. CASE Prove223
  <2>1. /\ run["sg223"].pc = "leg" /\ posts' = posts
        /\ Proved("sg223", Cap219) \/ Refused("sg223") \/ Stops("sg223")
    BY <1>3 DEF Prove223
  <2> QED BY <1>s, <2>1, LegsKeepSlices DEF Barred
<1>4. CASE Prove226
  <2>1. /\ run["sg226"].pc = "leg" /\ posts' = posts
        /\ Proved("sg226", Cap226) \/ Stops("sg226")
    BY <1>4 DEF Prove226
  <2> QED BY <1>s, <2>1, LegsKeepSlices DEF Barred
<1> QED BY <1>1, <1>2, <1>3, <1>4 DEF Proofs

\* A run changes its own post alone, and no row is taken away.
LEMMA PostKept ==
  ASSUME PilotInv, NEW s \in Scripts, NEW i, i = run[s].post, i # 0,
         NEW p, posts' = [posts EXCEPT ![i] = p], p.script = posts[i].script, p.photo = posts[i].photo,
         p.since = posts[i].since, Ledgered(i) => p.row # "none"
  PROVE  Kept(s, i) /\ \A t \in Scripts \ {s} : Kept(t, 0)
<1>1. posts \in Seq(Post) /\ i \in Own(s)  BY SliceRun
<1>2. i \in DOMAIN posts /\ posts[i].script = s  BY <1>1 DEF Own
<1>3. /\ DOMAIN posts' = DOMAIN posts /\ Len(posts') = Len(posts) /\ Len(posts) \in Nat /\ posts'[i] = p
      /\ \A j \in DOMAIN posts : j # i => posts'[j] = posts[j]
  BY <1>1, <1>2
<1>4. \A t : Own(t)' = Own(t)  BY <1>2, <1>3 DEF Own
<1>5. ASSUME NEW q, PhotoLedgered(q) PROVE PhotoLedgered(q)'
  BY <1>3, <1>5 DEF PhotoLedgered, Ledgered
<1>6. Kept(s, i)  BY <1>2, <1>3, <1>4, <1>5 DEF Kept, Own
<1>7. ASSUME NEW t, t # s PROVE Kept(t, 0)
  <2>1. i \notin Own(t)  BY <1>2, <1>7 DEF Own
  <2>2. \A j \in Own(t) : posts'[j] = posts[j]  BY <1>3, <2>1 DEF Own
  <2> QED BY <1>3, <1>4, <1>5, <2>2 DEF Kept
<1> QED BY <1>6, <1>7

LEMMA SendKeepsSlices ==
  ASSUME PilotInv, Slices, NEW s \in Scripts, Send(s, Leg(s), Brief(s)), marker' = marker, posts' \in Seq(Post)
  PROVE  Slices'
<1>1. PICK p : p = [script |-> s, photo |-> Leg(s), brief |-> Brief(s), since |-> run[s].since,
                    reply |-> "lost", image |-> FALSE, row |-> "none", marked |-> FALSE]
  OBVIOUS
<1>2. PICK n : n = Len(posts) + 1  OBVIOUS
<1>3. PICK r : r = [run[s] EXCEPT !.pc = "sent", !.post = n]  OBVIOUS
<1>4. run[s].pc = "armed" /\ posts' = Append(posts, p) /\ run' = [run EXCEPT ![s] = r]
  BY <1>1, <1>2, <1>3 DEF Send
<1>5. run[s] \in Run /\ posts \in Seq(Post) /\ Len(posts) \in Nat /\ DOMAIN posts = 1..Len(posts)
  BY SliceRun
<1>6. r.pc = "sent" /\ r.post = n /\ r.todo = run[s].todo /\ r.since = run[s].since
  BY <1>3, <1>5 DEF Run
<1>7. run'[s] = r  BY <1>4 DEF PilotInv, TypeOK
<1>8. p.script = s /\ p.photo = Leg(s) /\ p.since = run[s].since /\ ~p.marked  BY <1>1
<1>9. /\ DOMAIN posts' = 1..n /\ Len(posts') = n /\ posts'[n] = p
      /\ \A i \in DOMAIN posts : i \in DOMAIN posts' /\ posts'[i] = posts[i]
  BY <1>2, <1>4, <1>5
<1>10. p \in Post  BY <1>2, <1>5, <1>9
<1>11. ASSUME NEW t \in Scripts \ {s} PROVE Kept(t, 0)
  <2>1. \A i : i \in 1..n <=> i \in DOMAIN posts \/ i = n  BY <1>2, <1>5
  <2>2. Own(t)' = Own(t)  BY <1>8, <1>9, <2>1 DEF Own
  <2>3. \A q : PhotoLedgered(q) => PhotoLedgered(q)'  BY <1>9 DEF PhotoLedgered, Ledgered
  <2>4. \A i \in Own(t) : posts'[i] = posts[i]  BY <1>9 DEF Own
  <2>5. Len(posts) <= Len(posts')  BY <1>2, <1>5, <1>9
  <2> QED BY <2>2, <2>3, <2>4, <2>5 DEF Kept
<1>12. s \in Precedents \/ Slice(s)'
  <2>1. ASSUME s \notin Precedents PROVE Slice(s)'
    BY <1>2, <1>4, <1>6, <1>7, <1>8, <1>10, <2>1, SendKeepsSlice DEF Slices
  <2> QED BY <2>1
<1> QED BY <1>4, <1>11, <1>12, OthersStay

\* Capture, Break and Record: the run stands at its post, which gets an answer or
\* a row.
LEMMA OwnPostKeepsSlices ==
  ASSUME PilotInv, Slices, NEW s \in Scripts, run[s].pc \in {"sent", "stored"}, marker' = marker,
         posts' \in Seq(Post), NEW i, i = run[s].post, NEW p, posts' = [posts EXCEPT ![i] = p],
         p.script = posts[i].script, p.photo = posts[i].photo, p.since = posts[i].since,
         p.marked = posts[i].marked, Ledgered(i) => p.row # "none",
         NEW r, run' = [run EXCEPT ![s] = r],
         \/ r = Idle
         \/ \E pc \in {"stored", "returned"} : r = [run[s] EXCEPT !.pc = pc]
  PROVE  Slices'
<1>1. i # 0 /\ posts \in Seq(Post) /\ i \in Own(s) /\ run[s] \in Run
  BY SliceRun DEF PilotInv, RunsOK
<1>2. Kept(s, i) /\ \A t \in Scripts \ {s} : Kept(t, 0)  BY <1>1, PostKept
<1>3. run'[s] = r  BY DEF PilotInv, TypeOK
<1>4. posts'[i] = p  BY <1>1 DEF Own
<1>5. ASSUME s \notin Precedents PROVE Slice(s)'
  <2>1. Slice(s)  BY <1>5 DEF Slices
  <2>2. s \in Marked => ~posts'[run[s].post].marked  BY <1>1, <1>4, <2>1 DEF Slice, Held
  <2>3. CASE r = Idle  BY <1>2, <1>3, <2>1, <2>2, <2>3, EndKeepsSlice
  <2>4. ASSUME NEW pc \in {"stored", "returned"}, r = [run[s] EXCEPT !.pc = pc] PROVE Slice(s)'
    <3>1. r.pc = pc /\ r.todo = run[s].todo /\ r.post = run[s].post /\ r.since = run[s].since
      BY <1>1, <2>4 DEF Run
    <3> QED BY <1>2, <1>3, <2>1, <2>2, <3>1, GoesOnKeepsSlice
  <2> QED BY <2>3, <2>4
<1> QED BY <1>2, <1>5, OthersStay

LEMMA RenderKeepsSlices ==
  ASSUME PilotInv, Slices, NEW s \in Scripts, Render(s), posts' \in Seq(Post)
  PROVE  Slices'
<1>1. marker' = marker  BY DEF Render, pilotVars
<1>2. PICK i : i = run[s].post  OBVIOUS
<1>3. run[s].pc \in {"sent", "stored"} => posts[i] \in Post
  BY <1>2, HeldPost DEF PilotInv, RunsOK
<1>4. CASE Send(s, Leg(s), Brief(s))  BY <1>1, <1>4, SendKeepsSlices
<1>5. CASE Refuse(s)
  <2>1. PICK r : r = [run[s] EXCEPT !.pc = "returned"]  OBVIOUS
  <2>2. run[s].pc = "armed" /\ posts' = posts /\ run' = [run EXCEPT ![s] = r]
    BY <1>5, <2>1 DEF Refuse, Goto
  <2>3. run[s] \in Run /\ run[s].post = 0 /\ posts \in Seq(Post)  BY <2>2, SliceRun
  <2>4. r.pc = "returned" /\ r.todo = run[s].todo /\ r.post = run[s].post /\ r.since = run[s].since
    BY <2>1, <2>3 DEF Run
  <2>5. run'[s] = r  BY <2>2 DEF PilotInv, TypeOK
  <2>6. ASSUME s \notin Precedents PROVE Slice(s)'
    <3>1. Slice(s) /\ Kept(s, run[s].post)  BY <2>2, <2>3, <2>6, Unposted DEF Slices
    <3>2. PICK pc \in {"stored", "returned"} : pc = "returned"  OBVIOUS
    <3> QED BY <1>1, <2>2, <2>3, <2>4, <2>5, <3>1, <3>2, GoesOnKeepsSlice
  <2> QED BY <1>1, <2>2, <2>6, StillSlices
<1>6. CASE Capture(s)
  <2>1. PICK reply, kept : posts' = [posts EXCEPT ![i] = [posts[i] EXCEPT !.reply = reply, !.image = kept]]
    BY Zenon, <1>2, <1>6 DEF Capture, Becomes
  <2>2. PICK p : p = [posts[i] EXCEPT !.reply = reply, !.image = kept]  OBVIOUS
  <2>3. run[s].pc = "sent" /\ run' = [run EXCEPT ![s] = [run[s] EXCEPT !.pc = "stored"]]
    BY <1>6 DEF Capture, Goto
  <2>4. /\ p.script = posts[i].script /\ p.photo = posts[i].photo /\ p.since = posts[i].since
        /\ p.marked = posts[i].marked /\ p.row = posts[i].row
    BY <1>3, <2>2, <2>3 DEF Post
  <2>5. posts' = [posts EXCEPT ![i] = p]  BY <2>1, <2>2
  <2>6. Ledgered(i) => p.row # "none"  BY <2>4 DEF Ledgered
  <2> QED BY <1>1, <1>2, <2>3, <2>4, <2>5, <2>6, OwnPostKeepsSlices
<1>7. CASE Break(s)
  <2>1. PICK reply : posts' = [posts EXCEPT ![i] = [posts[i] EXCEPT !.reply = reply]]
    BY Zenon, <1>2, <1>7 DEF Break, Becomes
  <2>2. PICK p : p = [posts[i] EXCEPT !.reply = reply]  OBVIOUS
  <2>3. run[s].pc = "sent" /\ run' = [run EXCEPT ![s] = Idle]  BY <1>7 DEF Break
  <2>4. /\ p.script = posts[i].script /\ p.photo = posts[i].photo /\ p.since = posts[i].since
        /\ p.marked = posts[i].marked /\ p.row = posts[i].row
    BY <1>3, <2>2, <2>3 DEF Post
  <2>5. posts' = [posts EXCEPT ![i] = p]  BY <2>1, <2>2
  <2>6. Ledgered(i) => p.row # "none"  BY <2>4 DEF Ledgered
  <2> QED BY <1>1, <1>2, <2>3, <2>4, <2>5, <2>6, OwnPostKeepsSlices
<1>8. CASE Record(s)
  <2>1. PICK row : row = IF posts[i].reply \in Priced THEN "priced" ELSE "unpriced"  OBVIOUS
  <2>2. PICK p : p = [posts[i] EXCEPT !.row = row]  OBVIOUS
  <2>3. /\ run[s].pc = "stored" /\ run' = [run EXCEPT ![s] = [run[s] EXCEPT !.pc = "returned"]]
        /\ posts' = [posts EXCEPT ![i] = p]
    BY <1>2, <1>8, <2>1, <2>2 DEF Record, Goto, Becomes
  <2>4. /\ p.script = posts[i].script /\ p.photo = posts[i].photo /\ p.since = posts[i].since
        /\ p.marked = posts[i].marked /\ p.row = row
    BY <1>3, <2>2, <2>3 DEF Post
  <2>5. Ledgered(i) => p.row # "none"  BY <2>1, <2>4
  <2> QED BY <1>1, <1>2, <2>3, <2>4, <2>5, OwnPostKeepsSlices
<1> QED BY <1>4, <1>5, <1>6, <1>7, <1>8 DEF Render

LEMMA BackKeepsSlices ==
  ASSUME PilotInv, Slices, NEW s \in Scripts \ Precedents, Returned(s), posts' \in Seq(Post),
         NEW m, MarkLeg(s, m), run[s].post # 0 /\ (Answered(run[s].post) \/ s = "sg225") => m = "sent",
         \/ End(s)
         \/ /\ NextLeg(s) /\ s \notin Marked \cup {"sg220"} /\ run[s].post # 0
            /\ Answered(run[s].post) \/ s \in {"sg223", "sg226"}
  PROVE  Slices'
<1>1. PICK i : i = run[s].post  OBVIOUS
<1>2. /\ run[s].pc = "returned"
      /\ posts' = [j \in DOMAIN posts |-> IF j # i THEN posts[j] ELSE [posts[j] EXCEPT !.marked = TRUE]]
  BY <1>1 DEF Returned
<1>3. Slice(s) /\ posts \in Seq(Post) /\ run[s] \in Run /\ (i # 0 => i \in DOMAIN posts /\ posts[i] \in Post)
  BY <1>1, SliceRun DEF Slices, Own
<1>4. Kept(s, i) /\ (\A t \in Scripts \ {s} : Kept(t, 0)) /\ (i # 0 => posts'[i].reply = posts[i].reply)
  <2>1. CASE i = 0
    <3>1. posts' = posts
      <4>1. 0 \notin DOMAIN posts  BY <1>3
      <4>2. posts' = [j \in DOMAIN posts |-> posts[j]]  BY <1>2, <2>1, <4>1
      <4> QED BY <1>3, <4>2
    <3> QED BY <1>3, <2>1, <3>1, Unposted
  <2>2. CASE i # 0
    <3>1. PICK p : p = [posts[i] EXCEPT !.marked = TRUE]  OBVIOUS
    <3>2. /\ p.script = posts[i].script /\ p.photo = posts[i].photo /\ p.since = posts[i].since
          /\ p.reply = posts[i].reply /\ p.row = posts[i].row
      BY <1>3, <2>2, <3>1 DEF Post
    <3>3. posts' = [posts EXCEPT ![i] = p]  BY <1>2, <1>3, <2>2, <3>1
    <3>4. Ledgered(i) => p.row # "none"  BY <3>2 DEF Ledgered
    <3>5. posts'[i] = p  BY <1>3, <2>2, <3>3
    <3> QED BY <1>1, <2>2, <3>2, <3>3, <3>4, <3>5, PostKept
  <2> QED BY <2>1, <2>2
<1>5. \E b : marker' = [marker EXCEPT ![s] = b]  BY DEF MarkLeg
<1>6. CASE End(s)
  <2>1. run' = [run EXCEPT ![s] = Idle]  BY <1>6 DEF End
  <2>2. run'[s] = Idle  BY <2>1 DEF PilotInv, TypeOK
  <2>3. Slice(s)'  BY <1>1, <1>2, <1>3, <1>4, <2>2, ReturnedKeepsSlice
  <2> QED BY <1>4, <1>5, <2>1, <2>3, OthersStay
<1>7. CASE /\ NextLeg(s) /\ s \notin Marked \cup {"sg220"} /\ run[s].post # 0
           /\ Answered(run[s].post) \/ s \in {"sg223", "sg226"}
  <2>1. PICK r : r = [run[s] EXCEPT !.pc = "leg", !.todo = Rest(s), !.post = 0]  OBVIOUS
  <2>2. run' = [run EXCEPT ![s] = r]  BY <1>7, <2>1 DEF NextLeg
  <2>3. run'[s] = r  BY <2>2 DEF PilotInv, TypeOK
  <2>4. r.pc = "leg" /\ r.todo = Rest(s) /\ r.post = 0 /\ r.since = run[s].since
    BY <1>3, <2>1 DEF Run
  <2>5. Slice(s)'  BY <1>1, <1>2, <1>3, <1>4, <1>7, <2>3, <2>4, ReturnedKeepsSlice
  <2> QED BY <1>4, <1>5, <2>2, <2>5, OthersStay
<1> QED BY <1>6, <1>7

LEMMA NotedKeepsSlices ==
  ASSUME PilotInv, Slices, Note223, posts' \in Seq(Post)
  PROVE  Slices'
<1>1. PICK s \in Scripts \ Precedents : s = "sg223"  BY PilotAssumption DEF Precedents
<1>2. PICK i : i = run[s].post  OBVIOUS
<1>3. /\ run[s].pc = "returned" /\ i # 0 /\ run' = run /\ marker' = marker
      /\ posts' = [j \in DOMAIN posts |-> IF j # i THEN posts[j] ELSE [posts[j] EXCEPT !.marked = TRUE]]
  BY <1>1, <1>2 DEF Note223, Noted223, Returned
<1>4. posts \in Seq(Post) /\ i \in DOMAIN posts /\ posts[i] \in Post  BY <1>2, <1>3, SliceRun DEF Own
<1>5. PICK p : p = [posts[i] EXCEPT !.marked = TRUE]  OBVIOUS
<1>6. /\ p.script = posts[i].script /\ p.photo = posts[i].photo /\ p.since = posts[i].since
      /\ p.row = posts[i].row
  BY <1>4, <1>5 DEF Post
<1>7. posts' = [posts EXCEPT ![i] = p]  BY <1>3, <1>4, <1>5
<1>8. Ledgered(i) => p.row # "none"  BY <1>6 DEF Ledgered
<1>9. Kept(s, i) /\ \A t \in Scripts \ {s} : Kept(t, 0)  BY <1>2, <1>3, <1>6, <1>7, <1>8, PostKept
<1>10. Slice(s)'
  <2>1. PICK pc \in {"stored", "returned"} : pc = "returned"  OBVIOUS
  <2>2. Slice(s) /\ s \notin Marked  BY <1>1 DEF Slices, Marked
  <2> QED BY <1>2, <1>3, <1>9, <2>1, <2>2, GoesOnKeepsSlice
<1>11. run' = [run EXCEPT ![s] = run[s]]  BY <1>3 DEF PilotInv, TypeOK
<1> QED BY <1>3, <1>9, <1>10, <1>11, OthersStay

LEMMA MarksKeepSlices ==
  ASSUME PilotInv, Slices, MarksUp, posts' \in Seq(Post)
  PROVE  Slices'
<1>s. {"sg217", "sg218", "sg219", "sg220", "sg223", "sg225", "sg226"} \subseteq Scripts \ Precedents
  BY PilotAssumption DEF Precedents
<1>1. ASSUME NEW s \in Scripts \ Precedents, s # "sg225", MarkOnce(s) PROVE Slices'
  <2>1. Returned(s) /\ MarkLeg(s, SentMark(s)) /\ End(s)  BY <1>1 DEF MarkOnce
  <2>2. run[s].post # 0 /\ Answered(run[s].post) => SentMark(s) = "sent"  BY DEF SentMark, Sent
  <2> QED BY <1>1, <2>1, <2>2, BackKeepsSlices
<1>2. ASSUME NEW s \in {"sg219", "sg223", "sg226"}, Returned(s), MarkLeg(s, SentMark(s)),
             \/ End(s)
             \/ NextLeg(s) /\ (RenderedNow(s) \/ (s = "sg226" /\ run[s].post # 0))
      PROVE  Slices'
  <2>1. run[s].post # 0 /\ Answered(run[s].post) => SentMark(s) = "sent"  BY DEF SentMark, Sent
  <2>2. s \in Scripts \ Precedents /\ s \notin Marked \cup {"sg220"} /\ s # "sg225"
    BY <1>s DEF Marked
  <2>3. RenderedNow(s) => run[s].post # 0 /\ Answered(run[s].post)
    BY <2>2, HeldPost DEF RenderedNow, Answered, PostOK, Pictured
  <2> QED BY <1>2, <2>1, <2>2, <2>3, BackKeepsSlices
<1>3. CASE Mark217  BY <1>s, <1>1, <1>3 DEF Mark217
<1>4. CASE Mark218  BY <1>s, <1>1, <1>4 DEF Mark218
<1>5. CASE Mark220  BY <1>s, <1>1, <1>5 DEF Mark220
<1>6. CASE Mark219  BY <1>2, <1>6 DEF Mark219
<1>7. CASE Mark223  BY <1>2, <1>7 DEF Mark223
<1>8. CASE Mark226  BY <1>2, <1>8 DEF Mark226
<1>9. CASE Mark225
  <2>1. PICK s \in Scripts \ Precedents : s = "sg225"  BY <1>s
  <2>2. run[s].pc = "returned" /\ MarkLeg(s, "sent") /\ posts' = posts /\ run' = run
    BY <1>9, <2>1 DEF Mark225, sceneVars
  <2>3. Slice(s)'  BY <2>1, <2>2, SaidKeepsSlice DEF Slices
  <2>4. run' = [run EXCEPT ![s] = run[s]]  BY <2>2 DEF PilotInv, TypeOK
  <2>5. \E b : marker' = [marker EXCEPT ![s] = b]  BY <2>2 DEF MarkLeg
  <2> QED BY <2>2, <2>3, <2>4, <2>5, StillSlices
<1>10. CASE Note225
  <2>1. PICK m : m = "sent"  OBVIOUS
  <2>2. /\ Returned("sg225") /\ MarkLeg("sg225", m) /\ End("sg225")
    BY <1>10, <1>s, <2>1, SaidAgain DEF Note225
  <2> QED BY <1>s, <2>1, <2>2, BackKeepsSlices
<1>11. CASE Note223  BY <1>11, NotedKeepsSlices
<1> QED BY <1>3, <1>4, <1>5, <1>6, <1>7, <1>8, <1>9, <1>10, <1>11 DEF MarksUp

\* A step that moves no run.
LEMMA NoRunMoves ==
  ASSUME PilotInv, Slices, posts' \in Seq(Post), run' = run, marker' = marker, \A t : Kept(t, 0)
  PROVE  Slices'
BY SliceElsewhere DEF Slices

LEMMA SlicesStep ==
  ASSUME PilotInv, Slices, [Next]_vars, posts' \in Seq(Post)
  PROVE  Slices'
<1>0. posts \in Seq(Post)  BY DEF PilotInv, TypeOK
<1>1. CASE Starts  BY <1>1, StartsKeepSlices
<1>2. CASE Proofs  BY <1>2, ProofsKeepSlices
<1>3. CASE MarksUp  BY <1>3, MarksKeepSlices
<1>4. ASSUME NEW s \in Scripts, Render(s) PROVE Slices'  BY <1>4, RenderKeepsSlices
<1>5. ASSUME NEW s \in Scripts, Return(s) \/ Crash(s) PROVE Slices'
  <2>1. /\ posts' = posts /\ marker' = marker /\ run' = [run EXCEPT ![s] = Idle]
        /\ s \in Precedents \/ run[s].pc # "idle"
    BY <1>5 DEF Return, Crash, End, pilotVars
  <2>2. run'[s] = Idle  BY <2>1 DEF PilotInv, TypeOK
  <2>3. ASSUME s \notin Precedents PROVE Slice(s)'
    <3>1. Slice(s) /\ Kept(s, run[s].post)  BY <1>0, <2>1, <2>3, Unposted DEF Slices
    <3>2. run[s].post # 0 /\ s \in Marked => ~posts'[run[s].post].marked  BY <2>1, <3>1 DEF Slice, Held
    <3> QED BY <2>1, <2>2, <2>3, <3>1, <3>2, EndKeepsSlice
  <2> QED BY <2>1, <2>3, StillSlices
<1>6. CASE Unlink223 \/ (\E i \in DOMAIN posts : Link223(i) \/ Link225(i) \/ Link226(i)) \/ UNCHANGED vars
  <2>1. posts' = posts /\ run' = run /\ marker' = marker
    BY <1>6 DEF Unlink223, Link223, Link225, Link226, LinkRender, vars, sceneVars, pilotVars
  <2> QED BY <1>0, <2>1, Unposted, NoRunMoves
<1>7. CASE Classify224
  <2>1. run' = run /\ marker' = marker /\ posts' = [i \in DOMAIN posts |-> Zero(i)]
    BY <1>7 DEF Classify224, pilotVars
  <2>2. DOMAIN posts' = DOMAIN posts /\ DOMAIN posts = 1..Len(posts) /\ \A i \in DOMAIN posts : posts[i] \in Post
    BY <1>0, <2>1
  <2>3. ASSUME NEW i \in DOMAIN posts
        PROVE  /\ posts'[i].script = posts[i].script /\ posts'[i].photo = posts[i].photo
               /\ posts'[i].since = posts[i].since /\ posts'[i].reply = posts[i].reply
               /\ posts'[i].marked = posts[i].marked /\ (posts[i].row # "none" => posts'[i].row # "none")
    <3>1. PICK p : p = posts[i]  OBVIOUS
    <3>2. p \in Post  BY <2>2, <3>1
    <3>3. posts'[i] = p \/ posts'[i] = [p EXCEPT !.row = "zeroed"]  BY <2>1, <3>1 DEF Zero
    <3> QED BY <3>1, <3>2, <3>3 DEF Post
  <2>4. Len(posts) <= Len(posts')
    <3>1. posts' \in Seq(Post) /\ DOMAIN posts' = 1..Len(posts') /\ Len(posts') \in Nat /\ Len(posts) \in Nat
      BY <1>0
    <3> QED BY <2>2, <3>1
  <2>5. \A t : Own(t)' = Own(t)  BY <2>2, <2>3 DEF Own
  <2>6. \A q : PhotoLedgered(q) => PhotoLedgered(q)'  BY <2>2, <2>3 DEF PhotoLedgered, Ledgered
  <2>7. \A t : Kept(t, 0)  BY <2>3, <2>4, <2>5, <2>6 DEF Kept, Own
  <2> QED BY <2>1, <2>7, NoRunMoves
<1> QED BY <1>1, <1>2, <1>3, <1>4, <1>5, <1>6, <1>7 DEF Next

LEMMA SlicesStart ==
  ASSUME Init
  PROVE  Slices
<1>1. posts = <<>> /\ \A s \in Scripts : run[s] = Idle  BY DEF Init
<1>2. \A s : Own(s) = {}  BY <1>1 DEF Own
<1> QED BY <1>1, <1>2, IdleFields DEF Slices, Slice, Once, Rests, Earlier, Legs, Held, Pair

\* A slice that has sent is closed for a later run of its script, through any
\* answers, deaths and overlaps, but for a lost answer that its script takes for
\* no send, or a run of sg217 or sg218 that never came back (the evidence
\* directory's marker file, slice_already_sent, and the ledger's look-ups).
THEOREM SliceAlwaysCloses == Spec => []SliceClosed
<1>1. PilotInv /\ Slices => SliceClosed
  <2> SUFFICES ASSUME PilotInv, Slices, NEW i \in DOMAIN posts, NEW j \in DOMAIN posts,
                      posts[i].script = posts[j].script, Pilot(i), i <= posts[j].since
               PROVE  \/ posts[i].script \in {"sg217", "sg218", "sg223", "sg226"} /\ ~Answered(i)
                      \/ posts[i].script \in {"sg217", "sg218"} /\ ~posts[i].marked
    BY DEF SliceClosed
  <2>1. PICK s : s = posts[i].script  OBVIOUS
  <2>2. posts[i] \in Post  BY DEF PilotInv, TypeOK
  <2>3. s \in Scripts \ Precedents  BY <2>1, <2>2 DEF Post, Pilot
  <2>4. i \in Own(s) /\ j \in Own(s)  BY <2>1 DEF Own
  <2>5. Loose(i)  BY <2>3, <2>4 DEF Slices, Slice, Once
  <2> QED BY <2>5 DEF Loose, Marked
<1>2. Init => PilotInv /\ Slices  BY InitInv, SlicesStart
<1>3. PilotInv /\ Slices /\ [Next]_vars => (PilotInv /\ Slices)'
  <2>1. PilotInv /\ [Next]_vars => PilotInv'  BY NextKeeps
  <2>2. PilotInv' => posts' \in Seq(Post)  BY DEF PilotInv, TypeOK
  <2> QED BY <2>1, <2>2, SlicesStep
<1> QED BY <1>1, <1>2, <1>3, PTL DEF Spec
-----------------------------------------------------------------------------
\* The inductive invariant of the calls that are not passed over.  A run looks
\* back on the posts there were when it started, so that the posts of one run
\* share what they look back on with no other; all but the one it holds have
\* their row, and a marker says "sent" of a photo that a row tells of.
PairsOK == \A i, j \in DOMAIN posts :
  i < j /\ posts[i].script = posts[j].script /\ posts[i].since = posts[j].since => Ledgered(i)
SaidOf(s, p) == \E i \in DOMAIN posts : posts[i].script = s /\ posts[i].photo = p /\ Ledgered(i)
SaysOK == \A s \in Scripts \ {"sg225"}, p \in Photos : marker[s][p] = "sent" => SaidOf(s, p)
LooksBack == \A i \in DOMAIN posts : posts[i].since < i
LeftBehind == \A s \in Scripts : run[s].pc # "idle" =>
  /\ run[s].since <= Len(posts)
  /\ \A i \in Own(s) : posts[i].since = run[s].since /\ i # run[s].post => Ledgered(i)
NotOver == PairsOK /\ SaysOK /\ LooksBack /\ LeftBehind

\* Every step but a send leaves the posts what they are and takes no row away; a
\* run ends, starts now, or goes on, and then what it lets go has its row; and a
\* marker comes to say "sent" only of a photo that has its row.
Rowed == /\ DOMAIN posts' = DOMAIN posts /\ Len(posts') = Len(posts)
         /\ \A i \in DOMAIN posts :
              /\ posts'[i].script = posts[i].script /\ posts'[i].photo = posts[i].photo
              /\ posts'[i].since = posts[i].since
              /\ posts[i].row # "none" => posts'[i].row # "none"
Goes(s) == \/ run'[s].pc = "idle"
           \/ run'[s].since = Len(posts)
           \/ /\ run[s].pc # "idle" /\ run'[s].since = run[s].since
              /\ \/ run'[s].post = run[s].post
                 \/ run[s].post # 0 => Ledgered(run[s].post)
Says == \A s \in Scripts \ {"sg225"}, p \in Photos :
  marker'[s][p] = "sent" => marker[s][p] = "sent" \/ SaidOf(s, p)

LEMMA NotOverKept ==
  ASSUME PilotInv, NotOver, Rowed, Says, \A s \in Scripts : Goes(s)
  PROVE  NotOver'
<1>1. PairsOK /\ SaysOK /\ LooksBack /\ LeftBehind  BY DEF NotOver
<1>2. /\ posts \in Seq(Post) /\ Len(posts) \in Nat /\ DOMAIN posts = 1..Len(posts)
      /\ \A i \in DOMAIN posts : posts[i] \in Post
  BY DEF PilotInv, TypeOK
<1>3. \A i \in DOMAIN posts : posts[i].since \in Nat
  BY <1>2, PilotAssumption DEF Post
<1>4. PairsOK'  BY <1>1 DEF Rowed, PairsOK, Ledgered
<1>5. LooksBack'  BY <1>1 DEF Rowed, LooksBack
<1>6. ASSUME NEW s, NEW p, SaidOf(s, p) PROVE SaidOf(s, p)'
  BY <1>6 DEF Rowed, SaidOf, Ledgered
<1>7. SaysOK'  BY <1>1, <1>6 DEF Says, SaysOK
<1>8. ASSUME NEW s \in Scripts, run'[s].pc # "idle"
      PROVE  /\ run'[s].since <= Len(posts')
             /\ \A i \in Own(s)' : posts'[i].since = run'[s].since /\ i # run'[s].post => Ledgered(i)'
  <2>1. Own(s)' = Own(s) /\ Own(s) \subseteq DOMAIN posts  BY DEF Rowed, Own
  <2>2. CASE run'[s].since = Len(posts)
    <3>1. \A i \in Own(s) : posts'[i].since # Len(posts)
      <4>1. ASSUME NEW i \in Own(s) PROVE posts[i].since < Len(posts)
        <5>1. i \in 1..Len(posts) /\ posts[i].since < i /\ posts[i].since \in Nat
          BY <1>1, <1>2, <1>3, <2>1 DEF LooksBack
        <5>2. PICK k : k = posts[i].since  OBVIOUS
        <5> QED BY <1>2, <5>1, <5>2
      <4>2. ASSUME NEW i \in Own(s) PROVE posts[i].since # Len(posts)
        <5>1. PICK k : k = posts[i].since  OBVIOUS
        <5>2. k \in Nat /\ k < Len(posts)  BY <1>3, <2>1, <4>1, <5>1
        <5> QED BY <1>2, <5>1, <5>2
      <4> QED BY <2>1, <4>2 DEF Rowed
    <3>2. run'[s].since <= Len(posts')  BY <1>2, <2>2 DEF Rowed
    <3> QED BY <2>1, <2>2, <3>1, <3>2
  <2>3. CASE /\ run[s].pc # "idle" /\ run'[s].since = run[s].since
             /\ \/ run'[s].post = run[s].post
                \/ run[s].post # 0 => Ledgered(run[s].post)
    <3>1. /\ run[s].since <= Len(posts)
          /\ \A i \in Own(s) : posts[i].since = run[s].since /\ i # run[s].post => Ledgered(i)
      BY <1>1, <2>3 DEF LeftBehind
    <3>2. run'[s].since <= Len(posts')  BY <2>3, <3>1 DEF Rowed
    <3>3. ASSUME NEW i \in Own(s), posts[i].since = run[s].since, i # run'[s].post PROVE Ledgered(i)
      <4>1. i # 0  BY <1>2, <2>1
      <4> QED BY <2>3, <3>1, <3>3, <4>1
    <3>4. \A i \in Own(s) : posts'[i].since = posts[i].since /\ (Ledgered(i) => Ledgered(i)')
      BY <2>1 DEF Rowed, Ledgered
    <3> QED BY <2>1, <2>3, <3>2, <3>3, <3>4
  <2> QED BY <1>8, <2>2, <2>3 DEF Goes
<1>9. LeftBehind'  BY <1>8 DEF LeftBehind
<1> QED BY <1>4, <1>5, <1>7, <1>9 DEF NotOver

\* The run of one script moves; the others stand.
LEMMA OneGoes ==
  ASSUME PilotInv, NEW s \in Scripts, NEW r, run' = [run EXCEPT ![s] = r],
         \/ r.pc = "idle"
         \/ r.since = Len(posts)
         \/ run[s].pc # "idle" /\ r.since = run[s].since /\ r.post = run[s].post
         \/ run[s].pc = "returned" /\ r.since = run[s].since
  PROVE  \A t \in Scripts : Goes(t)
<1>1. run'[s] = r /\ \A t \in Scripts \ {s} : run'[t] = run[t]  BY DEF PilotInv, TypeOK
<1>2. run[s].pc = "returned" /\ run[s].post # 0 => Ledgered(run[s].post)  BY DEF PilotInv, RunsOK
<1>3. Goes(s)  BY <1>1, <1>2 DEF Goes
<1>4. ASSUME NEW t \in Scripts \ {s} PROVE Goes(t)  BY <1>1 DEF Goes
<1> QED BY <1>3, <1>4

LEMMA StandGoes ==
  ASSUME run' = run
  PROVE  \A t \in Scripts : Goes(t)
BY DEF Goes

LEMMA EndGoes ==
  ASSUME PilotInv, NEW s \in Scripts, End(s)
  PROVE  \A t \in Scripts : Goes(t)
BY IdleFields, OneGoes DEF End

LEMMA SamePostsRowed ==
  ASSUME posts' = posts
  PROVE  Rowed
BY DEF Rowed

LEMMA SameMarksSay ==
  ASSUME marker' = marker
  PROVE  Says
BY DEF Says

\* A marker that is started afresh, or marked with anything but "sent", says
\* nothing new.
LEMMA AfreshSays ==
  ASSUME PilotInv, NEW s \in Scripts, NEW b, \A p \in Photos : b[p] # "sent",
         marker' = [marker EXCEPT ![s] = b]
  PROVE  Says
<1>1. marker'[s] = b /\ \A t \in Scripts \ {s} : marker'[t] = marker[t]  BY DEF PilotInv, TypeOK
<1>2. ASSUME NEW t \in Scripts, NEW p \in Photos, marker'[t][p] = "sent" PROVE marker[t][p] = "sent"
  BY <1>1, <1>2
<1> QED BY <1>2 DEF Says

LEMMA MarkSays ==
  ASSUME PilotInv, NEW s \in Scripts, NEW m, MarkLeg(s, m), m = "sent" => s = "sg225" \/ SaidOf(s, Leg(s))
  PROVE  Says
<1>1. PICK f : f = [marker[s] EXCEPT ![Leg(s)] = m]  OBVIOUS
<1>2. marker' = [marker EXCEPT ![s] = f]  BY <1>1 DEF MarkLeg
<1>3. marker'[s] = f /\ \A t \in Scripts \ {s} : marker'[t] = marker[t]  BY <1>2 DEF PilotInv, TypeOK
<1>4. marker[s] \in [Photos -> Marks]  BY DEF PilotInv, TypeOK
<1>5. ASSUME NEW p \in Photos, f[p] = "sent", s # "sg225" PROVE marker[s][p] = "sent" \/ SaidOf(s, p)
  <2>1. CASE p = Leg(s)
    <3>1. f[p] = m  BY <1>1, <1>4, <2>1
    <3> QED BY <1>5, <2>1, <3>1
  <2>2. CASE p # Leg(s)  BY <1>1, <1>4, <1>5, <2>2
  <2> QED BY <2>1, <2>2
<1>6. ASSUME NEW t \in Scripts \ {"sg225"}, NEW p \in Photos, marker'[t][p] = "sent"
      PROVE  marker[t][p] = "sent" \/ SaidOf(t, p)
  <2>1. CASE t = s  BY <1>3, <1>5, <1>6, <2>1
  <2>2. CASE t # s  BY <1>3, <1>6, <2>2
  <2> QED BY <2>1, <2>2
<1> QED BY <1>6 DEF Says

LEMMA BeginGoes ==
  ASSUME PilotInv, NEW s \in Scripts, NEW pc, NEW todo, NEW cap, Begin(s, pc, todo, cap)
  PROVE  \A t \in Scripts : Goes(t)
<1>1. PICK r : r = [pc |-> pc, todo |-> todo, cap |-> cap, post |-> 0, since |-> Len(posts)]  OBVIOUS
<1>2. run' = [run EXCEPT ![s] = r] /\ r.since = Len(posts)  BY <1>1 DEF Begin
<1> QED BY <1>2, OneGoes

LEMMA StartsNotOver ==
  ASSUME PilotInv, NotOver, Starts
  PROVE  NotOver'
<1>s. Scripts = {"sg158", "sg159", "sg166", "sg217", "sg218", "sg219", "sg220",
                 "sg223", "sg225", "sg226"}
  BY PilotAssumption
<1>b. /\ \A p \in Photos : Blank[p] # "sent"
      /\ \A q \in Photos, p \in Photos : [Blank EXCEPT ![q] = "unsent"][p] # "sent"
      /\ \A q \in Photos, p \in Photos : [Blank EXCEPT ![q] = "pending"][p] # "sent"
  BY DEF Blank
<1>1. ASSUME NEW s \in Scripts, NEW pc, NEW todo, NEW cap, Begin(s, pc, todo, cap), posts' = posts, Says
      PROVE  NotOver'
  BY <1>1, BeginGoes, SamePostsRowed, NotOverKept
<1>2. ASSUME NEW s \in Scripts, StartFixed(s) PROVE NotOver'
  <2>1. PICK p : Begin(s, "armed", {p}, FixedCap)  BY <1>2 DEF StartFixed
  <2>2. posts' = posts /\ marker' = marker  BY <1>2 DEF StartFixed
  <2> QED BY <1>1, <2>1, <2>2, SameMarksSay
<1>3. ASSUME NEW s \in Scripts, NEW p \in Photos, StartMarked(s, p) PROVE NotOver'
  <2>1. /\ Begin(s, "armed", {p}, Cap217) /\ posts' = posts
        /\ marker' = [marker EXCEPT ![s] = [Blank EXCEPT ![p] = "unsent"]]
    BY <1>3 DEF StartMarked
  <2>2. PICK b : b = [Blank EXCEPT ![p] = "unsent"]  OBVIOUS
  <2>3. Says  BY <1>b, <2>1, <2>2, AfreshSays
  <2> QED BY <1>1, <2>1, <2>3
<1>4. ASSUME NEW s \in Scripts, marker' = [marker EXCEPT ![s] = Blank], posts' = posts,
             run' = run \/ \E todo : Begin(s, "leg", todo, 0)
      PROVE  NotOver'
  <2>1. Says  BY <1>b, <1>4, AfreshSays
  <2>2. CASE run' = run  BY <1>4, <2>1, <2>2, StandGoes, SamePostsRowed, NotOverKept
  <2>3. ASSUME NEW todo, Begin(s, "leg", todo, 0) PROVE NotOver'  BY <1>1, <1>4, <2>1, <2>3
  <2> QED BY <1>4, <2>2, <2>3
<1>5. CASE Start217
  <2>1. Candidates217 \subseteq Photos /\ Photos \subseteq Nat /\ Candidates217 # {}
    BY <1>5, PilotAssumption DEF Candidates217, Start217
  <2>2. Least(Candidates217) \in Photos  BY <2>1, LeastOfPhotos
  <2> QED BY <1>s, <1>3, <1>5, <2>2 DEF Start217
<1>6. CASE Start218
  <2>1. Candidates218 \subseteq Photos /\ Photos \subseteq Nat /\ Candidates218 # {}
    BY <1>6, PilotAssumption DEF Candidates218, Candidates217, Start218
  <2>2. Least(Candidates218) \in Photos  BY <2>1, LeastOfPhotos
  <2> QED BY <1>s, <1>3, <1>6, <2>2 DEF Start218
<1>7. CASE Start219  BY <1>s, <1>4, <1>7 DEF Start219
<1>8. CASE Start220  BY <1>s, <1>4, <1>8 DEF Start220
<1>9. CASE Start223  BY <1>s, <1>4, <1>9 DEF Start223
<1>10. CASE Start225
  <2>1. /\ Begin("sg225", "armed", {Miso}, Cap225) /\ posts' = posts
        /\ marker' = [marker EXCEPT !["sg225"] = [Blank EXCEPT ![Miso] = "pending"]]
    BY <1>10 DEF Start225
  <2>2. PICK b : b = [Blank EXCEPT ![Miso] = "pending"]  OBVIOUS
  <2>3. Says  BY <1>s, <1>b, <2>1, <2>2, AfreshSays, PilotAssumption
  <2> QED BY <1>s, <1>1, <2>1, <2>3
<1>11. CASE Start226  BY <1>s, <1>4, <1>11 DEF Start226
<1>12. CASE Start158 \/ Start159 \/ Start166  BY <1>s, <1>2, <1>12 DEF Start158, Start159, Start166
<1> QED BY <1>5, <1>6, <1>7, <1>8, <1>9, <1>10, <1>11, <1>12 DEF Starts

LEMMA ProofsNotOver ==
  ASSUME PilotInv, NotOver, Proofs
  PROVE  NotOver'
<1>s. {"sg219", "sg220", "sg223", "sg226"} \subseteq Scripts  BY PilotAssumption
<1>1. ASSUME NEW s \in Scripts, run[s].pc = "leg", posts' = posts,
             (\E cap : Proved(s, cap)) \/ Refused(s) \/ Stops(s)
      PROVE  NotOver'
  <2>1. ASSUME NEW cap, Arm(s, cap) PROVE \A t \in Scripts : Goes(t)
    <3>1. PICK r : r = [run[s] EXCEPT !.pc = "armed", !.cap = cap]  OBVIOUS
    <3>2. run' = [run EXCEPT ![s] = r]  BY <2>1, <3>1 DEF Arm
    <3>3. run[s] \in Run  BY DEF PilotInv, TypeOK
    <3>4. r.since = run[s].since /\ r.post = run[s].post  BY <3>1, <3>3 DEF Run
    <3> QED BY <1>1, <3>2, <3>4, OneGoes
  <2>2. \A t \in Scripts : Goes(t)
    BY <1>1, <2>1, EndGoes DEF Proved, Refused, Stops
  <2>3. Says
    <3>1. CASE \E cap : Proved(s, cap)
      <4>1. PICK m : m = "pending"  OBVIOUS
      <4>2. MarkLeg(s, m) /\ m # "sent"  BY <3>1, <4>1 DEF Proved
      <4> QED BY <4>2, MarkSays
    <3>2. CASE Refused(s)
      <4>1. PICK m : m = "unsent"  OBVIOUS
      <4>2. MarkLeg(s, m) /\ m # "sent"  BY <3>2, <4>1 DEF Refused
      <4> QED BY <4>2, MarkSays
    <3>3. CASE Stops(s)  BY <3>3, SameMarksSay DEF Stops
    <3> QED BY <1>1, <3>1, <3>2, <3>3
  <2> QED BY <1>1, <2>2, <2>3, SamePostsRowed, NotOverKept
<1>2. CASE Prove219  BY <1>s, <1>1, <1>2 DEF Prove219
<1>3. CASE Prove220  BY <1>s, <1>1, <1>3 DEF Prove220
<1>4. CASE Prove223  BY <1>s, <1>1, <1>4 DEF Prove223
<1>5. CASE Prove226  BY <1>s, <1>1, <1>5 DEF Prove226
<1> QED BY <1>2, <1>3, <1>4, <1>5 DEF Proofs

\* A run that is back: its post, if it holds one, has its row.
LEMMA ReturnedRowed ==
  ASSUME PilotInv, NEW s \in Scripts, Returned(s)
  PROVE  Rowed
<1>1. PICK i : i = run[s].post  OBVIOUS
<1>2. posts' = [j \in DOMAIN posts |-> IF j # i THEN posts[j] ELSE [posts[j] EXCEPT !.marked = TRUE]]
  BY <1>1 DEF Returned
<1>3. posts \in Seq(Post)  BY DEF PilotInv, TypeOK
<1>4. ASSUME NEW j \in DOMAIN posts
      PROVE  /\ posts'[j].script = posts[j].script /\ posts'[j].photo = posts[j].photo
             /\ posts'[j].since = posts[j].since /\ posts'[j].row = posts[j].row
  <2>1. PICK p \in Post : p = posts[j]  BY <1>3
  <2>2. posts'[j] = p \/ posts'[j] = [p EXCEPT !.marked = TRUE]  BY <1>2, <2>1
  <2> QED BY <2>1, <2>2 DEF Post
<1>5. DOMAIN posts' = DOMAIN posts /\ Len(posts') = Len(posts)
  <2>1. DOMAIN posts = 1..Len(posts) /\ Len(posts) \in Nat  BY <1>3
  <2>2. posts' = [j \in 1..Len(posts) |-> posts'[j]]  BY <1>2, <2>1
  <2> QED BY <2>1, <2>2
<1> QED BY <1>4, <1>5 DEF Rowed

LEMMA BackNotOver ==
  ASSUME PilotInv, Slices, NotOver, NEW s \in Scripts \ Precedents, Returned(s),
         NEW m, MarkLeg(s, m), m = "sent" => s = "sg225" \/ run[s].post # 0,
         End(s) \/ NextLeg(s)
  PROVE  NotOver'
<1>1. Rowed /\ run[s].pc = "returned"  BY ReturnedRowed DEF Returned
<1>2. run[s].post # 0 => SaidOf(s, Leg(s))
  <2>1. Held(s)  BY DEF Slices, Slice
  <2> QED BY <1>1, <2>1 DEF Held, SaidOf, PilotInv, RunsOK
<1>3. Says  BY <1>2, MarkSays
<1>4. \A t \in Scripts : Goes(t)
  <2>1. CASE End(s)  BY <2>1, EndGoes
  <2>2. CASE NextLeg(s)
    <3>1. PICK r : r = [run[s] EXCEPT !.pc = "leg", !.todo = Rest(s), !.post = 0]  OBVIOUS
    <3>2. run' = [run EXCEPT ![s] = r]  BY <2>2, <3>1 DEF NextLeg
    <3>3. run[s] \in Run  BY DEF PilotInv, TypeOK
    <3>4. r.since = run[s].since  BY <3>1, <3>3 DEF Run
    <3> QED BY <1>1, <3>2, <3>4, OneGoes
  <2> QED BY <2>1, <2>2
<1> QED BY <1>1, <1>3, <1>4, NotOverKept

LEMMA MarksNotOver ==
  ASSUME PilotInv, Slices, NotOver, MarksUp
  PROVE  NotOver'
<1>s. {"sg217", "sg218", "sg219", "sg220", "sg223", "sg225", "sg226"} \subseteq Scripts \ Precedents
  BY PilotAssumption DEF Precedents
<1>1. ASSUME NEW s \in Scripts \ Precedents, Returned(s), MarkLeg(s, SentMark(s)), End(s) \/ NextLeg(s)
      PROVE  NotOver'
  <2>1. SentMark(s) = "sent" => run[s].post # 0  BY DEF SentMark, Sent
  <2> QED BY <1>1, <2>1, BackNotOver
<1>2. CASE Mark217 \/ Mark218 \/ Mark220  BY <1>s, <1>1, <1>2 DEF Mark217, Mark218, Mark220, MarkOnce
<1>3. CASE Mark219  BY <1>s, <1>1, <1>3 DEF Mark219
<1>4. CASE Mark223  BY <1>s, <1>1, <1>4 DEF Mark223
<1>5. CASE Mark226  BY <1>s, <1>1, <1>5 DEF Mark226
<1>6. CASE Note223
  <2>1. Returned("sg223") /\ run' = run /\ marker' = marker  BY <1>6 DEF Note223
  <2> QED BY <1>s, <2>1, ReturnedRowed, SameMarksSay, StandGoes, NotOverKept
<1>7. CASE Mark225
  <2>1. PICK m : m = "sent"  OBVIOUS
  <2>2. MarkLeg("sg225", m) /\ posts' = posts /\ run' = run  BY <1>7, <2>1 DEF Mark225, sceneVars
  <2> QED BY <1>s, <2>2, MarkSays, SamePostsRowed, StandGoes, NotOverKept
<1>8. CASE Note225
  <2>1. Returned("sg225") /\ End("sg225") /\ marker' = marker  BY <1>8 DEF Note225
  <2> QED BY <1>s, <2>1, ReturnedRowed, SameMarksSay, EndGoes, NotOverKept
<1> QED BY <1>2, <1>3, <1>4, <1>5, <1>6, <1>7, <1>8 DEF MarksUp

\* A send: every earlier post of the run has its row, and the new one looks back
\* on what was there when the run started.
LEMMA SendNotOver ==
  ASSUME PilotInv, NotOver, NEW s \in Scripts, Send(s, Leg(s), Brief(s)), marker' = marker
  PROVE  NotOver'
<1>1. PICK p : p = [script |-> s, photo |-> Leg(s), brief |-> Brief(s), since |-> run[s].since,
                    reply |-> "lost", image |-> FALSE, row |-> "none", marked |-> FALSE]
  OBVIOUS
<1>2. PICK n : n = Len(posts) + 1  OBVIOUS
<1>3. PICK r : r = [run[s] EXCEPT !.pc = "sent", !.post = n]  OBVIOUS
<1>4. run[s].pc = "armed" /\ posts' = Append(posts, p) /\ run' = [run EXCEPT ![s] = r]
  BY <1>1, <1>2, <1>3 DEF Send
<1>5. /\ run[s] \in Run /\ posts \in Seq(Post) /\ Len(posts) \in Nat /\ DOMAIN posts = 1..Len(posts)
      /\ run[s].since \in Nat /\ run[s].post = 0
  BY <1>4, SliceRun
<1>6. r.pc = "sent" /\ r.post = n /\ r.since = run[s].since  BY <1>3, <1>5 DEF Run
<1>7. run'[s] = r /\ \A t \in Scripts \ {s} : run'[t] = run[t]  BY <1>4 DEF PilotInv, TypeOK
<1>8. p.script = s /\ p.since = run[s].since  BY <1>1
<1>9. /\ DOMAIN posts' = 1..n /\ Len(posts') = n /\ posts'[n] = p /\ n \in Nat /\ n \notin DOMAIN posts
      /\ \A i \in DOMAIN posts : i \in DOMAIN posts' /\ posts'[i] = posts[i] /\ i < n /\ i # 0
      /\ \A i \in DOMAIN posts' : i \in DOMAIN posts \/ i = n
  BY <1>2, <1>4, <1>5
<1>10. PairsOK /\ SaysOK /\ LooksBack /\ LeftBehind  BY DEF NotOver
<1>11. /\ run[s].since <= Len(posts)
       /\ \A i \in Own(s) : posts[i].since = run[s].since => Ledgered(i)
  BY <1>4, <1>5, <1>9, <1>10 DEF LeftBehind, Own
<1>12. PairsOK'
  <2>1. ASSUME NEW i \in DOMAIN posts', NEW j \in DOMAIN posts', i < j,
               posts'[i].script = posts'[j].script, posts'[i].since = posts'[j].since
        PROVE  posts'[i].row # "none"
    <3>1. i \in DOMAIN posts
      <4>1. CASE j = n  BY <1>9, <2>1, <4>1
      <4>2. CASE j \in DOMAIN posts
        <5>1. i # n  BY <1>9, <2>1, <4>2
        <5> QED BY <1>9, <5>1
      <4> QED BY <1>9, <4>1, <4>2
    <3>2. CASE j \in DOMAIN posts  BY <1>9, <1>10, <2>1, <3>1, <3>2 DEF PairsOK, Ledgered
    <3>3. CASE j = n  BY <1>8, <1>9, <1>11, <2>1, <3>1, <3>3 DEF Own, Ledgered
    <3> QED BY <1>9, <3>2, <3>3
  <2> QED BY <2>1 DEF PairsOK, Ledgered
<1>13. ASSUME NEW t, NEW q, SaidOf(t, q) PROVE SaidOf(t, q)'
  BY <1>9, <1>13 DEF SaidOf, Ledgered
<1>14. SaysOK'  BY <1>10, <1>13 DEF SaysOK
<1>15. LooksBack'
  <2>1. p.since < n
    <3>1. PICK k \in Nat : k = run[s].since  BY <1>5
    <3> QED BY <1>2, <1>5, <1>8, <1>11, <3>1
  <2> QED BY <1>9, <1>10, <2>1 DEF LooksBack
<1>16. ASSUME NEW t \in Scripts, run'[t].pc # "idle"
       PROVE  /\ run'[t].since <= Len(posts')
              /\ \A i \in Own(t)' : posts'[i].since = run'[t].since /\ i # run'[t].post => Ledgered(i)'
  <2>1. \A i \in Own(t)' : i \in Own(t) \/ i = n  BY <1>9 DEF Own
  <2>2. \A i \in Own(t) : posts'[i] = posts[i] /\ (Ledgered(i)' <=> Ledgered(i))
    BY <1>9 DEF Own, Ledgered
  <2>3. CASE t = s
    <3>1. run'[t].since <= Len(posts')
      <4>1. PICK k \in Nat : k = run[s].since  BY <1>5
      <4> QED BY <1>2, <1>5, <1>6, <1>7, <1>9, <1>11, <2>3, <4>1
    <3> QED BY <1>6, <1>7, <1>11, <2>1, <2>2, <2>3, <3>1
  <2>4. CASE t # s
    <3>1. run'[t] = run[t]  BY <1>7, <2>4
    <3>2. n \notin Own(t)'  BY <1>8, <1>9, <2>4 DEF Own
    <3>3. /\ run[t].since <= Len(posts)
          /\ \A i \in Own(t) : posts[i].since = run[t].since /\ i # run[t].post => Ledgered(i)
      BY <1>10, <1>16, <3>1 DEF LeftBehind
    <3>4. run[t].since <= Len(posts')
      <4>1. PICK k \in Nat : k = run[t].since  BY SliceRun
      <4> QED BY <1>2, <1>5, <1>9, <3>3, <4>1
    <3> QED BY <2>1, <2>2, <3>1, <3>2, <3>3, <3>4
  <2> QED BY <2>3, <2>4
<1>17. LeftBehind'  BY <1>16 DEF LeftBehind
<1> QED BY <1>12, <1>14, <1>15, <1>17 DEF NotOver

\* The run stands at its post, which gets an answer or a row, or ends there.
LEMMA OwnPostRowed ==
  ASSUME PilotInv, NEW i \in DOMAIN posts, NEW p, posts' = [posts EXCEPT ![i] = p],
         p.script = posts[i].script, p.photo = posts[i].photo, p.since = posts[i].since,
         Ledgered(i) => p.row # "none"
  PROVE  Rowed
<1>1. posts \in Seq(Post)  BY DEF PilotInv, TypeOK
<1>2. /\ DOMAIN posts' = DOMAIN posts /\ Len(posts') = Len(posts) /\ posts'[i] = p
      /\ \A j \in DOMAIN posts : j # i => posts'[j] = posts[j]
  BY <1>1
<1>3. ASSUME NEW j \in DOMAIN posts
      PROVE  /\ posts'[j].script = posts[j].script /\ posts'[j].photo = posts[j].photo
             /\ posts'[j].since = posts[j].since
             /\ posts[j].row # "none" => posts'[j].row # "none"
  <2>1. CASE j = i  BY <1>2, <2>1 DEF Ledgered
  <2>2. CASE j # i  BY <1>2, <2>2
  <2> QED BY <2>1, <2>2
<1> QED BY <1>2, <1>3 DEF Rowed

LEMMA RenderNotOver ==
  ASSUME PilotInv, NotOver, NEW s \in Scripts, Render(s)
  PROVE  NotOver'
<1>1. marker' = marker /\ Says  BY SameMarksSay DEF Render, pilotVars
<1>2. PICK i : i = run[s].post  OBVIOUS
<1>3. run[s] \in Run  BY DEF PilotInv, TypeOK
<1>4. run[s].pc \in {"sent", "stored"} => i \in DOMAIN posts /\ posts[i] \in Post
  BY <1>2, HeldPost DEF PilotInv, RunsOK
<1>5. ASSUME NEW pc, run[s].pc # "idle", Goto(s, pc) PROVE \A t \in Scripts : Goes(t)
  <2>1. PICK r : r = [run[s] EXCEPT !.pc = pc]  OBVIOUS
  <2>2. run' = [run EXCEPT ![s] = r]  BY <1>5, <2>1 DEF Goto
  <2>3. r.since = run[s].since /\ r.post = run[s].post  BY <1>3, <2>1 DEF Run
  <2> QED BY <1>5, <2>2, <2>3, OneGoes
<1>6. CASE Send(s, Leg(s), Brief(s))  BY <1>1, <1>6, SendNotOver
<1>7. CASE Refuse(s)
  <2>1. posts' = posts /\ run[s].pc = "armed" /\ Goto(s, "returned")  BY <1>7 DEF Refuse
  <2> QED BY <1>1, <1>5, <2>1, SamePostsRowed, NotOverKept
<1>8. CASE Capture(s)
  <2>1. PICK reply, kept : posts' = [posts EXCEPT ![i] = [posts[i] EXCEPT !.reply = reply, !.image = kept]]
    BY Zenon, <1>2, <1>8 DEF Capture, Becomes
  <2>2. PICK p : p = [posts[i] EXCEPT !.reply = reply, !.image = kept]  OBVIOUS
  <2>3. run[s].pc = "sent" /\ Goto(s, "stored")  BY <1>8 DEF Capture
  <2>4. /\ p.script = posts[i].script /\ p.photo = posts[i].photo /\ p.since = posts[i].since
        /\ p.row = posts[i].row
    BY <1>4, <2>2, <2>3 DEF Post
  <2>5. posts' = [posts EXCEPT ![i] = p] /\ (Ledgered(i) => p.row # "none")
    BY <2>1, <2>2, <2>4 DEF Ledgered
  <2>6. Rowed  BY <1>4, <2>3, <2>4, <2>5, OwnPostRowed
  <2> QED BY <1>1, <1>5, <2>3, <2>6, NotOverKept
<1>9. CASE Break(s)
  <2>1. PICK reply : posts' = [posts EXCEPT ![i] = [posts[i] EXCEPT !.reply = reply]]
    BY Zenon, <1>2, <1>9 DEF Break, Becomes
  <2>2. PICK p : p = [posts[i] EXCEPT !.reply = reply]  OBVIOUS
  <2>3. run[s].pc = "sent" /\ End(s)  BY <1>9 DEF Break, End
  <2>4. /\ p.script = posts[i].script /\ p.photo = posts[i].photo /\ p.since = posts[i].since
        /\ p.row = posts[i].row
    BY <1>4, <2>2, <2>3 DEF Post
  <2>5. posts' = [posts EXCEPT ![i] = p] /\ (Ledgered(i) => p.row # "none")
    BY <2>1, <2>2, <2>4 DEF Ledgered
  <2>6. Rowed  BY <1>4, <2>3, <2>4, <2>5, OwnPostRowed
  <2> QED BY <1>1, <2>3, <2>6, EndGoes, NotOverKept
<1>10. CASE Record(s)
  <2>1. PICK row : row = IF posts[i].reply \in Priced THEN "priced" ELSE "unpriced"  OBVIOUS
  <2>2. PICK p : p = [posts[i] EXCEPT !.row = row]  OBVIOUS
  <2>3. run[s].pc = "stored" /\ Goto(s, "returned") /\ posts' = [posts EXCEPT ![i] = p]
    BY <1>2, <1>10, <2>1, <2>2 DEF Record, Becomes
  <2>4. /\ p.script = posts[i].script /\ p.photo = posts[i].photo /\ p.since = posts[i].since
        /\ p.row = row
    BY <1>4, <2>2, <2>3 DEF Post
  <2>5. Ledgered(i) => p.row # "none"  BY <2>1, <2>4
  <2>6. Rowed  BY <1>4, <2>3, <2>4, <2>5, OwnPostRowed
  <2> QED BY <1>1, <1>5, <2>3, <2>6, NotOverKept
<1> QED BY <1>6, <1>7, <1>8, <1>9, <1>10 DEF Render

LEMMA ClassifyNotOver ==
  ASSUME PilotInv, NotOver, Classify224
  PROVE  NotOver'
<1>1. run' = run /\ marker' = marker /\ posts' = [i \in DOMAIN posts |-> Zero(i)]
  BY DEF Classify224, pilotVars
<1>2. posts \in Seq(Post) /\ DOMAIN posts = 1..Len(posts) /\ Len(posts) \in Nat  BY DEF PilotInv, TypeOK
<1>3. ASSUME NEW i \in DOMAIN posts
      PROVE  /\ posts'[i].script = posts[i].script /\ posts'[i].photo = posts[i].photo
             /\ posts'[i].since = posts[i].since
             /\ posts[i].row # "none" => posts'[i].row # "none"
  <2>1. PICK p \in Post : p = posts[i]  BY <1>2
  <2>2. posts'[i] = p \/ posts'[i] = [p EXCEPT !.row = "zeroed"]  BY <1>1, <2>1 DEF Zero
  <2> QED BY <2>1, <2>2 DEF Post
<1>4. DOMAIN posts' = DOMAIN posts /\ Len(posts') = Len(posts)
  <2>1. posts' = [i \in 1..Len(posts) |-> posts'[i]]  BY <1>1, <1>2
  <2> QED BY <1>2, <2>1
<1>5. Rowed  BY <1>3, <1>4 DEF Rowed
<1> QED BY <1>1, <1>5, SameMarksSay, StandGoes, NotOverKept

LEMMA NotOverStep ==
  ASSUME PilotInv, Slices, NotOver, [Next]_vars
  PROVE  NotOver'
<1>1. CASE Starts  BY <1>1, StartsNotOver
<1>2. CASE Proofs  BY <1>2, ProofsNotOver
<1>3. CASE MarksUp  BY <1>3, MarksNotOver
<1>4. ASSUME NEW s \in Scripts, Render(s) PROVE NotOver'  BY <1>4, RenderNotOver
<1>5. ASSUME NEW s \in Scripts, Return(s) \/ Crash(s) PROVE NotOver'
  <2>1. posts' = posts /\ marker' = marker /\ End(s)
    BY <1>5 DEF Return, Crash, pilotVars
  <2> QED BY <2>1, SamePostsRowed, SameMarksSay, EndGoes, NotOverKept
<1>6. CASE Unlink223 \/ (\E i \in DOMAIN posts : Link223(i) \/ Link225(i) \/ Link226(i)) \/ UNCHANGED vars
  <2>1. posts' = posts /\ run' = run /\ marker' = marker
    BY <1>6 DEF Unlink223, Link223, Link225, Link226, LinkRender, vars, sceneVars, pilotVars
  <2> QED BY <2>1, SamePostsRowed, SameMarksSay, StandGoes, NotOverKept
<1>7. CASE Classify224  BY <1>7, ClassifyNotOver
<1> QED BY <1>1, <1>2, <1>3, <1>4, <1>5, <1>6, <1>7 DEF Next

LEMMA NotOverStart ==
  ASSUME Init
  PROVE  NotOver
<1>1. posts = <<>> /\ (\A s \in Scripts : run[s].pc = "idle")
      /\ \A s \in Scripts, p \in Photos : marker[s][p] = "none"
  BY IdleFields DEF Init, Blank
<1> QED BY <1>1 DEF NotOver, PairsOK, SaysOK, LooksBack, LeftBehind

\* Through any answers, refused writes, deaths and overlaps, no call that was
\* sent and has no row is passed over: its run sends nothing more, and no marker
\* says "sent" for it (the ledger row comes before render_scene returns, and an
\* exception on the way ends the script).
THEOREM CallsNeverPassedOver == Spec => []NoCallPassedOver
<1>1. NotOver => NoCallPassedOver
  BY DEF NotOver, PairsOK, SaysOK, SaidOf, NoCallPassedOver
<1>2. Init => PilotInv /\ Slices /\ NotOver  BY InitInv, SlicesStart, NotOverStart
<1>3. PilotInv /\ Slices /\ NotOver /\ [Next]_vars => (PilotInv /\ Slices /\ NotOver)'
  <2>1. PilotInv /\ [Next]_vars => PilotInv'  BY NextKeeps
  <2>2. PilotInv' => posts' \in Seq(Post)  BY DEF PilotInv, TypeOK
  <2> QED BY <2>1, <2>2, SlicesStep, NotOverStep
<1> QED BY <1>1, <1>2, <1>3, PTL DEF Spec
-----------------------------------------------------------------------------
\* The inductive invariant of the cap.  While no two runs overlap at most one
\* run is busy, and what the ledger tells of keeps the cap: with the owner's own
\* key it is paid by the cap and the sends of scripts that never read its spend,
\* with the provider's credits either every billed call is within the cap or the
\* told ones are within the fixed cap.  A run whose call is out has left room
\* for its row, and the bound of a run that is armed still stands: nothing else
\* spends until it sends.
Told == {i \in DOMAIN posts : Billed(i) /\ Ledgered(i)}
Sees(s) == s \notin Precedents \cup Marked
Alone == \A s, t \in Scripts : run[s].pc # "idle" /\ run[t].pc # "idle" => s = t
Holds(n) == IF setting.byok THEN Cardinality(Told) + n <= setting.cap + Cardinality(Blind)
            ELSE \/ Cardinality(BilledCalls) <= setting.cap
                 \/ Cardinality(Told) + n <= FixedCap
Within(s, cap) == IF setting.byok THEN Sees(s) => cap <= setting.cap - Cardinality(RowsOf("priced"))
                  ELSE IF s \in Precedents THEN cap = FixedCap
                  ELSE cap <= setting.cap - Cardinality(BilledCalls)
Stands(s) == /\ run[s].pc = "armed" => Within(s, run[s].cap)
             /\ run[s].pc = "sent" => run[s].post \in BilledCalls
             /\ run[s].pc \in {"sent", "stored"} => Holds(1)
Covered == ~overlapped => Alone /\ Holds(0) /\ \A s \in Scripts : Stands(s)

\* A set within two others counts at most what they count together.
LEMMA WithinTwo ==
  ASSUME NEW S, NEW T, NEW U, IsFiniteSet(S), IsFiniteSet(T), U \subseteq S \cup T
  PROVE  /\ Cardinality(S) \in Nat /\ Cardinality(T) \in Nat /\ Cardinality(U) \in Nat
         /\ IsFiniteSet(U) /\ Cardinality(U) <= Cardinality(S) + Cardinality(T)
<1>1. IsFiniteSet(S \cup T) /\ Cardinality(S \cup T) = Cardinality(S) + Cardinality(T) - Cardinality(S \cap T)
  BY FS_Union
<1>2. IsFiniteSet(U) /\ Cardinality(U) <= Cardinality(S \cup T)  BY <1>1, FS_Subset
<1>3. IsFiniteSet(S \cap T)  BY FS_Subset
<1>4. /\ Cardinality(S) \in Nat /\ Cardinality(T) \in Nat /\ Cardinality(U) \in Nat
      /\ Cardinality(S \cap T) \in Nat /\ Cardinality(S \cup T) \in Nat
  BY <1>1, <1>2, <1>3, FS_CardinalityType
<1> QED BY <1>1, <1>2, <1>4

\* One more element counts at most one more.
LEMMA OneMore ==
  ASSUME NEW S, NEW n, NEW U, IsFiniteSet(S), U \subseteq S \cup {n}
  PROVE  /\ Cardinality(S) \in Nat /\ Cardinality(U) \in Nat /\ Cardinality(U) <= Cardinality(S) + 1
<1>1. IsFiniteSet({n}) /\ Cardinality({n}) = 1  BY FS_Singleton
<1> QED BY <1>1, WithinTwo

LEMMA AFreshOne ==
  ASSUME NEW S, NEW n, IsFiniteSet(S), n \notin S
  PROVE  Cardinality(S) \in Nat /\ Cardinality(S \cup {n}) = Cardinality(S) + 1
BY FS_AddElement, FS_CardinalityType

LEMMA MoneyIsFinite ==
  ASSUME posts \in Seq(Post)
  PROVE  /\ IsFiniteSet(Told) /\ IsFiniteSet(BilledCalls) /\ IsFiniteSet(Blind) /\ IsFiniteSet(Untold)
         /\ IsFiniteSet(RowsOf("priced")) /\ IsFiniteSet(RowsOf("unpriced"))
<1>1. DOMAIN posts = 1..Len(posts) /\ Len(posts) \in Nat  OBVIOUS
<1>2. IsFiniteSet(DOMAIN posts)  BY <1>1, FS_Interval
<1>3. /\ Told \subseteq DOMAIN posts /\ BilledCalls \subseteq DOMAIN posts /\ Blind \subseteq DOMAIN posts
      /\ Untold \subseteq DOMAIN posts /\ \A k : RowsOf(k) \subseteq DOMAIN posts
  BY DEF Told, BilledCalls, Blind, Untold, RowsOf
<1> QED BY <1>2, <1>3, FS_Subset

LEMMA MoneyCounts ==
  ASSUME PilotInv
  PROVE  /\ Cardinality(Told) \in Nat /\ Cardinality(BilledCalls) \in Nat /\ Cardinality(Blind) \in Nat
         /\ Cardinality(RowsOf("priced")) \in Nat /\ Cardinality(RowsOf("unpriced")) \in Nat
         /\ setting.cap \in Nat /\ setting.byok \in BOOLEAN /\ FixedCap \in Nat
<1>1. posts \in Seq(Post) /\ setting \in Setting  BY DEF PilotInv, TypeOK
<1>2. setting.cap \in Nat /\ setting.byok \in BOOLEAN  BY <1>1 DEF Setting
<1> QED BY <1>1, <1>2, MoneyIsFinite, FS_CardinalityType, PilotAssumption

\* The guard charges every call that the ledger tells of.
LEMMA ToldIsCharged ==
  ASSUME PilotInv
  PROVE  Cardinality(Told) <= Cardinality(RowsOf("priced")) + Cardinality(RowsOf("unpriced"))
<1>1. posts \in Seq(Post)  BY DEF PilotInv, TypeOK
<1>2. ASSUME NEW i \in Told PROVE i \in RowsOf("priced") \cup RowsOf("unpriced")
  <2>1. i \in DOMAIN posts /\ posts[i].reply \notin Free /\ posts[i].row # "none"
    BY DEF Told, Billed, Ledgered
  <2>2. posts[i] \in Post /\ PostOK(posts[i])  BY <1>1, <2>1 DEF PilotInv, PostsOK
  <2>3. posts[i].row \in {"priced", "unpriced"}  BY <2>1, <2>2, RowsAndReplies
  <2> QED BY <2>1, <2>3 DEF RowsOf
<1>3. Told \subseteq RowsOf("priced") \cup RowsOf("unpriced")  BY <1>2
<1> QED BY <1>1, <1>3, MoneyIsFinite, WithinTwo

\* The tightest remainder that a script reads bounds its send; a script that
\* reads nothing is bound by the fixed cap.
LEMMA CapsAreWithin ==
  ASSUME PilotInv
  PROVE  /\ \A s \in Precedents : Within(s, FixedCap)
         /\ \A s \in Marked : Within(s, Cap217)
         /\ \A s \in Scripts \ Precedents : Within(s, Cap219) /\ Within(s, Cap225) /\ Within(s, Cap226)
<1>1. TypeOK  BY DEF PilotInv
<1>2. ~setting.byok => KeyRemainder = setting.cap - Cardinality(BilledCalls)
  BY DEF KeyRemainder, KeyUsage, BilledCalls
<1>3. setting.byok => OwnerRemainder = setting.cap - Cardinality(RowsOf("priced"))
  BY DEF OwnerRemainder
<1>4. /\ Cap217 <= KeyRemainder /\ Cap219 <= KeyRemainder /\ Cap225 <= KeyRemainder
      /\ Cap226 <= KeyRemainder /\ Cap219 <= OwnerRemainder /\ Cap225 <= OwnerRemainder
      /\ Cap226 <= OwnerRemainder
  BY <1>1, CapsAreIntegers
<1>5. ASSUME NEW s \in Precedents PROVE Within(s, FixedCap)  BY DEF Within, Sees
<1>6. ASSUME NEW s \in Marked PROVE Within(s, Cap217)
  <2>1. s \notin Precedents  BY DEF Marked, Precedents
  <2> QED BY <1>2, <1>4, <2>1 DEF Within, Sees
<1>7. ASSUME NEW s \in Scripts \ Precedents
      PROVE  Within(s, Cap219) /\ Within(s, Cap225) /\ Within(s, Cap226)
  BY <1>2, <1>3, <1>4 DEF Within
<1> QED BY <1>5, <1>6, <1>7

\* Steps that spend nothing: what was billed, told or sent blind stays.
Unspent == /\ setting' = setting /\ BilledCalls' = BilledCalls /\ Told' = Told /\ Blind' = Blind
           /\ RowsOf("priced")' = RowsOf("priced")

LEMMA SamePostsUnspent ==
  ASSUME posts' = posts, setting' = setting
  PROVE  Unspent
BY DEF Unspent, BilledCalls, Told, Blind, RowsOf, Billed, Ledgered

LEMMA SameRowsUnspent ==
  ASSUME setting' = setting, DOMAIN posts' = DOMAIN posts,
         \A i \in DOMAIN posts :
           /\ posts'[i].script = posts[i].script /\ posts'[i].reply = posts[i].reply
           /\ posts'[i].row = "none" <=> posts[i].row = "none"
           /\ posts'[i].row = "priced" <=> posts[i].row = "priced"
  PROVE  Unspent
<1>1. BilledCalls' = BilledCalls  BY DEF BilledCalls, Billed
<1>2. Told' = Told  BY DEF Told, Billed, Ledgered
<1>3. Blind' = Blind  BY DEF Blind
<1>4. RowsOf("priced")' = RowsOf("priced")  BY DEF RowsOf
<1> QED BY <1>1, <1>2, <1>3, <1>4 DEF Unspent

LEMMA BusyAlone ==
  ASSUME Covered, ~overlapped, NEW s \in Scripts, run[s].pc # "idle"
  PROVE  \A t \in Scripts \ {s} : run[t].pc = "idle"
BY DEF Covered, Alone

\* A run moves while the others are idle, and spends nothing.
LEMMA MoveCovered ==
  ASSUME PilotInv, Covered, ~overlapped, Unspent, NEW s \in Scripts, NEW r, run' = [run EXCEPT ![s] = r],
         \A t \in Scripts \ {s} : run[t].pc = "idle",
         r.pc \notin {"sent", "stored"}, r.pc = "armed" => Within(s, r.cap)
  PROVE  Covered'
<1>1. run'[s] = r /\ \A t \in Scripts \ {s} : run'[t] = run[t]  BY DEF PilotInv, TypeOK
<1>2. Alone'  BY <1>1 DEF Alone
<1>3. Holds(0)'  BY DEF Covered, Holds, Unspent
<1>4. r.pc = "armed" => Within(s, r.cap)'  BY DEF Within, Unspent
<1>5. ASSUME NEW t \in Scripts PROVE Stands(t)'
  BY <1>1, <1>4 DEF Stands
<1> QED BY <1>2, <1>3, <1>5 DEF Covered

\* No run moves, and nothing is spent.
LEMMA NoMoveCovered ==
  ASSUME Covered, Unspent, run' = run, overlapped' = overlapped
  PROVE  Covered'
<1>1. ASSUME ~overlapped PROVE Covered'
  <2>1. Alone'  BY <1>1 DEF Covered, Alone
  <2>2. Holds(0)'  BY <1>1 DEF Covered, Holds, Unspent
  <2>3. Holds(1)' <=> Holds(1)  BY DEF Holds, Unspent
  <2>4. ASSUME NEW s \in Scripts PROVE Stands(s)'
    <3>1. Stands(s)  BY <1>1 DEF Covered
    <3>2. Within(s, run[s].cap)' <=> Within(s, run[s].cap)  BY DEF Within, Unspent
    <3> QED BY <2>3, <3>1, <3>2 DEF Stands, Unspent
  <2> QED BY <2>1, <2>2, <2>4 DEF Covered
<1> QED BY <1>1 DEF Covered

LEMMA EndCovered ==
  ASSUME PilotInv, Covered, Unspent, NEW s \in Scripts, run[s].pc # "idle", End(s), overlapped' = overlapped
  PROVE  Covered'
<1>1. run' = [run EXCEPT ![s] = Idle] /\ Idle.pc = "idle"  BY IdleFields DEF End
<1>2. ASSUME ~overlapped PROVE Covered'
  <2>1. \A t \in Scripts \ {s} : run[t].pc = "idle"  BY <1>2, BusyAlone
  <2> QED BY <1>1, <1>2, <2>1, MoveCovered
<1> QED BY <1>2 DEF Covered

LEMMA BeginCovered ==
  ASSUME PilotInv, Covered, posts' = posts, setting' = setting, NEW s \in Scripts,
         NEW pc \in {"leg", "armed"}, NEW todo, NEW cap, Begin(s, pc, todo, cap),
         pc = "armed" => Within(s, cap)
  PROVE  Covered'
<1>1. PICK r : r = [pc |-> pc, todo |-> todo, cap |-> cap, post |-> 0, since |-> Len(posts)]  OBVIOUS
<1>2. /\ run' = [run EXCEPT ![s] = r]
      /\ ~overlapped' => ~overlapped /\ \A t \in Scripts \ {s} : run[t].pc = "idle"
  BY <1>1 DEF Begin
<1>3. r.pc = pc /\ r.cap = cap  BY <1>1
<1>4. r.pc \notin {"sent", "stored"} /\ (r.pc = "armed" => Within(s, r.cap))  BY <1>3
<1>5. Unspent  BY SamePostsUnspent
<1>6. ASSUME ~overlapped' PROVE Covered'  BY <1>2, <1>4, <1>5, <1>6, MoveCovered
<1> QED BY <1>6 DEF Covered

LEMMA StartsCovered ==
  ASSUME PilotInv, Covered, Starts
  PROVE  Covered'
<1>s. /\ Marked \subseteq Scripts /\ {"sg158", "sg159", "sg166"} \subseteq Scripts
      /\ {"sg158", "sg159", "sg166"} \subseteq Precedents
      /\ {"sg219", "sg220", "sg223", "sg225", "sg226"} \subseteq Scripts \ Precedents
  BY PilotAssumption DEF Precedents, Marked
<1>1. ASSUME NEW s \in Precedents, s \in Scripts, StartFixed(s) PROVE Covered'
  <2>1. PICK p : Begin(s, "armed", {p}, FixedCap)  BY <1>1 DEF StartFixed
  <2>2. posts' = posts /\ setting' = setting  BY <1>1 DEF StartFixed
  <2> QED BY <1>1, <2>1, <2>2, CapsAreWithin, BeginCovered
<1>2. ASSUME NEW s \in Marked, NEW p, StartMarked(s, p) PROVE Covered'
  <2>1. Begin(s, "armed", {p}, Cap217) /\ posts' = posts /\ setting' = setting  BY <1>2 DEF StartMarked
  <2> QED BY <1>s, <2>1, CapsAreWithin, BeginCovered
<1>3. ASSUME NEW s \in Scripts, NEW todo, Begin(s, "leg", todo, 0), posts' = posts, setting' = setting
      PROVE  Covered'
  <2>1. PICK pc \in {"leg", "armed"} : pc = "leg"  OBVIOUS
  <2> QED BY <1>3, <2>1, BeginCovered
<1>4. CASE Start219 \/ Start220 \/ Start223
  BY <1>s, <1>3, <1>4 DEF Start219, Start220, Start223
<1>5. CASE Start225
  <2>1. Begin("sg225", "armed", {Miso}, Cap225) /\ posts' = posts /\ setting' = setting
    BY <1>5 DEF Start225
  <2>2. PICK s \in Scripts \ Precedents : s = "sg225"  BY <1>s
  <2> QED BY <2>1, <2>2, CapsAreWithin, BeginCovered
<1>6. CASE Start226
  <2>1. posts' = posts /\ setting' = setting  BY <1>6 DEF Start226
  <2>2. CASE Fits226(BulkRenders)
    <3>1. Begin("sg226", "leg", RenderList226, 0)  BY <1>6, <2>2 DEF Start226
    <3> QED BY <1>s, <1>3, <2>1, <3>1
  <2>3. CASE ~Fits226(BulkRenders)
    BY <1>6, <2>1, <2>3, SamePostsUnspent, NoMoveCovered DEF Start226
  <2> QED BY <2>2, <2>3
<1>7. CASE Start158 \/ Start159 \/ Start166  BY <1>1, <1>7, <1>s DEF Start158, Start159, Start166
<1>8. CASE Start217 \/ Start218  BY <1>2, <1>8 DEF Start217, Start218, Marked
<1> QED BY <1>4, <1>5, <1>6, <1>7, <1>8 DEF Starts

LEMMA ProvedCovered ==
  ASSUME PilotInv, Covered, NEW s \in Scripts, run[s].pc = "leg", NEW cap, Within(s, cap), Arm(s, cap),
         posts' = posts, setting' = setting, overlapped' = overlapped
  PROVE  Covered'
<1>1. PICK r : r = [run[s] EXCEPT !.pc = "armed", !.cap = cap]  OBVIOUS
<1>2. run' = [run EXCEPT ![s] = r]  BY <1>1 DEF Arm
<1>3. run[s] \in Run  BY DEF PilotInv, TypeOK
<1>4. r.pc = "armed" /\ r.cap = cap  BY <1>1, <1>3 DEF Run
<1>5. Unspent  BY SamePostsUnspent
<1>6. ASSUME ~overlapped PROVE Covered'
  <2>1. \A t \in Scripts \ {s} : run[t].pc = "idle"  BY <1>6, BusyAlone
  <2> QED BY <1>2, <1>4, <1>5, <1>6, <2>1, MoveCovered
<1> QED BY <1>6 DEF Covered

LEMMA ProofsCovered ==
  ASSUME PilotInv, Covered, Proofs
  PROVE  Covered'
<1>1. ASSUME NEW s \in Scripts \ Precedents, run[s].pc = "leg", NEW cap \in {Cap219, Cap226},
             Proved(s, cap) \/ Refused(s) \/ Stops(s),
             posts' = posts, setting' = setting, overlapped' = overlapped
      PROVE  Covered'
  <2>1. CASE End(s)  BY <1>1, <2>1, SamePostsUnspent, EndCovered
  <2>2. CASE Arm(s, cap)  BY <1>1, <2>2, CapsAreWithin, ProvedCovered
  <2> QED BY <1>1, <2>1, <2>2 DEF Proved, Refused, Stops
<1>2. {"sg219", "sg220", "sg223", "sg226"} \subseteq Scripts \ Precedents
  BY PilotAssumption DEF Precedents
<1>3. CASE Prove219  BY <1>1, <1>2, <1>3 DEF Prove219
<1>4. CASE Prove220  BY <1>1, <1>2, <1>4 DEF Prove220
<1>5. CASE Prove223  BY <1>1, <1>2, <1>5 DEF Prove223
<1>6. CASE Prove226  BY <1>1, <1>2, <1>6 DEF Prove226
<1> QED BY <1>3, <1>4, <1>5, <1>6 DEF Proofs

\* The mark a run leaves on its post costs nothing.
LEMMA ReturnedUnspent ==
  ASSUME PilotInv, NEW s \in Scripts, Returned(s)
  PROVE  Unspent
<1>1. PICK i : i = run[s].post  OBVIOUS
<1>2. /\ setting' = setting
      /\ posts' = [j \in DOMAIN posts |-> IF j # i THEN posts[j] ELSE [posts[j] EXCEPT !.marked = TRUE]]
  BY <1>1 DEF Returned
<1>3. ASSUME NEW j \in DOMAIN posts
      PROVE  /\ posts'[j].script = posts[j].script /\ posts'[j].reply = posts[j].reply
             /\ posts'[j].row = posts[j].row
  <2>1. PICK p \in Post : p = posts[j]  BY DEF PilotInv, TypeOK
  <2>2. posts'[j] = p \/ posts'[j] = [p EXCEPT !.marked = TRUE]  BY <1>2, <2>1
  <2> QED BY <2>1, <2>2 DEF Post
<1> QED BY <1>2, <1>3, SameRowsUnspent

LEMMA BackCovered ==
  ASSUME PilotInv, Covered, NEW s \in Scripts, Returned(s), End(s) \/ NextLeg(s)
  PROVE  Covered'
<1>1. Unspent /\ run[s].pc = "returned" /\ overlapped' = overlapped
  BY ReturnedUnspent DEF Returned
<1>2. CASE End(s)  BY <1>1, <1>2, EndCovered
<1>3. CASE NextLeg(s)
  <2>1. PICK r : r = [run[s] EXCEPT !.pc = "leg", !.todo = Rest(s), !.post = 0]  OBVIOUS
  <2>2. run' = [run EXCEPT ![s] = r]  BY <1>3, <2>1 DEF NextLeg
  <2>3. run[s] \in Run  BY DEF PilotInv, TypeOK
  <2>4. r.pc = "leg"  BY <2>1, <2>3 DEF Run
  <2>5. ASSUME ~overlapped PROVE Covered'
    <3>1. \A t \in Scripts \ {s} : run[t].pc = "idle"  BY <1>1, <2>5, BusyAlone
    <3> QED BY <1>1, <2>2, <2>4, <2>5, <3>1, MoveCovered
  <2> QED BY <1>1, <2>5 DEF Covered
<1> QED BY <1>2, <1>3

LEMMA MarksCovered ==
  ASSUME PilotInv, Covered, MarksUp
  PROVE  Covered'
<1>1. {"sg217", "sg218", "sg219", "sg220", "sg223", "sg225", "sg226"} \subseteq Scripts
  BY PilotAssumption
<1>2. CASE Mark225
  <2>1. posts' = posts /\ setting' = setting /\ run' = run /\ overlapped' = overlapped
    BY <1>2 DEF Mark225, sceneVars
  <2> QED BY <2>1, SamePostsUnspent, NoMoveCovered
<1>3. CASE Note223
  <2>1. Returned("sg223") /\ run' = run /\ overlapped' = overlapped
    BY <1>3 DEF Note223, Returned
  <2> QED BY <1>1, <2>1, ReturnedUnspent, NoMoveCovered
<1> QED BY <1>1, <1>2, <1>3, BackCovered
        DEF MarksUp, Mark217, Mark218, Mark219, Mark220, Mark223, Note225, Mark226, MarkOnce

\* The run whose call is out moves on, and what it changed keeps the cap.
LEMMA CallCovered ==
  ASSUME PilotInv, Covered, ~overlapped, NEW s \in Scripts, run[s].pc # "idle",
         NEW r, run' = [run EXCEPT ![s] = r], r.pc # "armed", Holds(0)',
         r.pc \in {"sent", "stored"} => Holds(1)', r.pc = "sent" => r.post \in BilledCalls'
  PROVE  Covered'
<1>1. run'[s] = r /\ \A t \in Scripts \ {s} : run'[t] = run[t]  BY DEF PilotInv, TypeOK
<1>2. \A t \in Scripts \ {s} : run'[t].pc = "idle"  BY <1>1, BusyAlone
<1>3. Alone'  BY <1>2 DEF Alone
<1>4. Stands(s)'  BY <1>1 DEF Stands
<1>5. ASSUME NEW t \in Scripts, t # s PROVE Stands(t)'
  <2>1. run'[t].pc = "idle"  BY <1>2, <1>5
  <2> QED BY <2>1 DEF Stands
<1> QED BY <1>3, <1>4, <1>5 DEF Covered

LEMMA RoomToSpare ==
  ASSUME PilotInv, Holds(1)
  PROVE  Holds(0)
BY MoneyCounts DEF Holds

\* A send: the guard has charged what the ledger tells of, and the call that
\* goes out is the one unit that was left.
LEMMA SendCovered ==
  ASSUME PilotInv, Covered, NEW s \in Scripts, Send(s, Leg(s), Brief(s)), overlapped' = overlapped
  PROVE  Covered'
<1>1. PICK p : p = [script |-> s, photo |-> Leg(s), brief |-> Brief(s), since |-> run[s].since,
                    reply |-> "lost", image |-> FALSE, row |-> "none", marked |-> FALSE]
  OBVIOUS
<1>2. PICK n : n = Len(posts) + 1  OBVIOUS
<1>3. PICK r : r = [run[s] EXCEPT !.pc = "sent", !.post = n]  OBVIOUS
<1>4. /\ run[s].pc = "armed" /\ posts' = Append(posts, p) /\ run' = [run EXCEPT ![s] = r]
      /\ setting' = setting /\ ~GuardRefuses(run[s].cap)
  BY <1>1, <1>2, <1>3 DEF Send
<1>5. run[s] \in Run /\ posts \in Seq(Post) /\ Len(posts) \in Nat /\ DOMAIN posts = 1..Len(posts)
  BY SliceRun
<1>6. r.pc = "sent" /\ r.post = n  BY <1>3, <1>5 DEF Run
<1>7. p.script = s /\ p.reply = "lost" /\ p.row = "none"  BY <1>1
<1>8. /\ DOMAIN posts' = 1..n /\ posts'[n] = p
      /\ \A i \in DOMAIN posts : posts'[i] = posts[i]
  BY <1>2, <1>4, <1>5
<1>9. n \notin DOMAIN posts /\ \A i : i \in DOMAIN posts' <=> i \in DOMAIN posts \/ i = n
  BY <1>2, <1>5, <1>8
<1>10. BilledCalls' = BilledCalls \cup {n} /\ n \notin BilledCalls
  BY <1>7, <1>8, <1>9 DEF BilledCalls, Billed, Free
<1>11. Told' = Told  BY <1>7, <1>8, <1>9 DEF Told, Billed, Ledgered
<1>12. /\ n \notin Blind /\ Blind \subseteq Blind'
       /\ Blind' = IF Sees(s) THEN Blind ELSE Blind \cup {n}
  BY <1>7, <1>8, <1>9 DEF Blind, Sees, Marked
<1>13. /\ Cardinality(BilledCalls') = Cardinality(BilledCalls) + 1 /\ Cardinality(Told') = Cardinality(Told)
       /\ Cardinality(Blind') = Cardinality(Blind) + (IF Sees(s) THEN 0 ELSE 1)
  <2>1. IsFiniteSet(BilledCalls) /\ IsFiniteSet(Blind)  BY <1>5, MoneyIsFinite
  <2>2. Cardinality(BilledCalls') = Cardinality(BilledCalls) + 1  BY <1>10, <2>1, AFreshOne
  <2>3. CASE Sees(s)
    <3>1. Cardinality(Blind) \in Nat /\ Blind' = Blind  BY <1>12, <2>1, <2>3, FS_CardinalityType
    <3> QED BY <1>11, <2>2, <2>3, <3>1
  <2>4. CASE ~Sees(s)
    <3>1. Cardinality(Blind') = Cardinality(Blind) + 1  BY <1>12, <2>1, <2>4, AFreshOne
    <3> QED BY <1>11, <2>2, <2>4, <3>1
  <2> QED BY <2>3, <2>4
<1>14. ASSUME ~overlapped PROVE Covered'
  <2>1. Within(s, run[s].cap) /\ Holds(0)  BY <1>4, <1>14 DEF Covered, Stands
  <2>2. PICK t : t = Cardinality(Told)  OBVIOUS
  <2>3. PICK b : b = Cardinality(BilledCalls)  OBVIOUS
  <2>4. PICK d : d = Cardinality(Blind)  OBVIOUS
  <2>5. PICK k : k = Cardinality(RowsOf("priced"))  OBVIOUS
  <2>6. PICK u : u = Cardinality(RowsOf("unpriced"))  OBVIOUS
  <2>7. PICK c : c = setting.cap  OBVIOUS
  <2>8. PICK m : m = run[s].cap  OBVIOUS
  <2>9. /\ t \in Nat /\ b \in Nat /\ d \in Nat /\ k \in Nat /\ u \in Nat /\ c \in Nat /\ m \in Int
        /\ FixedCap \in Nat /\ t <= k + u
    BY <1>5, <2>2, <2>3, <2>4, <2>5, <2>6, <2>7, <2>8, MoneyCounts, ToldIsCharged DEF Run
  <2>10. ~((IF setting.byok THEN 0 ELSE k) + u + 1 > m)
    BY <1>4, <2>5, <2>6, <2>8 DEF GuardRefuses, Known, Unknown
  <2>11. Holds(1)' /\ Holds(0)'
    <3>1. CASE setting.byok
      <4>1. t <= c + d /\ (Sees(s) => m <= c - k)
        BY <2>1, <2>2, <2>4, <2>5, <2>7, <2>8, <2>9, <3>1 DEF Holds, Within
      <4>2. PICK e \in {0, 1} : e = IF Sees(s) THEN 0 ELSE 1  OBVIOUS
      <4>3. u + 1 <= m  BY <2>9, <2>10, <3>1
      <4>4. t + 1 <= c + (d + e)
        <5>1. CASE Sees(s)  BY <2>9, <4>1, <4>2, <4>3, <5>1
        <5>2. CASE ~Sees(s)  BY <2>9, <4>1, <4>2, <5>2
        <5> QED BY <5>1, <5>2
      <4>5. t + 0 <= c + (d + e)  BY <2>9, <4>2, <4>4
      <4>6. Cardinality(Told') = t /\ Cardinality(Blind') = d + e /\ setting'.cap = c /\ setting'.byok
        BY <1>4, <1>13, <2>2, <2>4, <2>7, <3>1, <4>2
      <4> QED BY <4>4, <4>5, <4>6 DEF Holds
    <3>2. CASE ~setting.byok
      <4>1. k + u + 1 <= m  BY <2>9, <2>10, <3>2
      <4>2. IF s \in Precedents THEN m = FixedCap ELSE m <= c - b
        BY <2>1, <2>3, <2>7, <2>8, <3>2 DEF Within
      <4>3. b + 1 <= c \/ t + 1 <= FixedCap
        <5>1. CASE s \in Precedents  BY <2>9, <4>1, <4>2, <5>1
        <5>2. CASE s \notin Precedents  BY <2>9, <4>1, <4>2, <5>2
        <5> QED BY <5>1, <5>2
      <4>4. b + 1 <= c \/ t + 0 <= FixedCap  BY <2>9, <4>3
      <4>5. Cardinality(BilledCalls') = b + 1 /\ Cardinality(Told') = t /\ setting'.cap = c /\ ~setting'.byok
        BY <1>4, <1>13, <2>2, <2>3, <2>7, <3>2
      <4> QED BY <4>3, <4>4, <4>5 DEF Holds
    <3> QED BY <3>1, <3>2
  <2>12. r.post \in BilledCalls'  BY <1>6, <1>10
  <2> QED BY <1>4, <1>6, <1>14, <2>11, <2>12, CallCovered
<1> QED BY <1>14 DEF Covered

\* An answer: the call stays billed, or turns out to be free.
LEMMA AnswerCovered ==
  ASSUME PilotInv, Covered, NEW s \in Scripts, run[s].pc = "sent", setting' = setting, overlapped' = overlapped,
         NEW i, i = run[s].post, NEW p, posts' = [posts EXCEPT ![i] = p],
         p.script = posts[i].script, p.row = posts[i].row,
         NEW r, run' = [run EXCEPT ![s] = r], r.pc \in {"idle", "stored"}
  PROVE  Covered'
<1>1. posts \in Seq(Post) /\ i \in DOMAIN posts /\ posts[i].row = "none"
  BY DEF PilotInv, TypeOK, RunsOK
<1>2. /\ DOMAIN posts' = DOMAIN posts /\ posts'[i] = p
      /\ \A j \in DOMAIN posts : j # i => posts'[j] = posts[j]
  BY <1>1
<1>3. ASSUME ~overlapped PROVE Covered'
  <2>1. i \in BilledCalls /\ Holds(1)  BY <1>3 DEF Covered, Stands
  <2>2. BilledCalls' \subseteq BilledCalls  BY <1>2, <2>1 DEF BilledCalls, Billed
  <2>3. Told' = Told  BY <1>1, <1>2 DEF Told, Billed, Ledgered
  <2>4. Blind' = Blind  BY <1>2 DEF Blind
  <2>5. Cardinality(BilledCalls') \in Nat /\ Cardinality(BilledCalls') <= Cardinality(BilledCalls)
    BY <1>1, <2>2, MoneyIsFinite, FS_Subset, FS_CardinalityType
  <2>6. Cardinality(BilledCalls) \in Nat /\ setting.cap \in Nat  BY MoneyCounts
  <2>7. Cardinality(BilledCalls) <= setting.cap => Cardinality(BilledCalls') <= setting'.cap
    BY <2>5, <2>6
  <2>8. Holds(0)  BY <2>1, RoomToSpare
  <2>9. Holds(1)' /\ Holds(0)'  BY <2>1, <2>3, <2>4, <2>7, <2>8 DEF Holds
  <2> QED BY <1>3, <2>9, CallCovered
<1> QED BY <1>3 DEF Covered

\* The row of a call takes the room that was left for it.
LEMMA RecordCovered ==
  ASSUME PilotInv, Covered, NEW s \in Scripts, Record(s), overlapped' = overlapped
  PROVE  Covered'
<1>1. PICK i : i = run[s].post  OBVIOUS
<1>2. PICK row : row = IF posts[i].reply \in Priced THEN "priced" ELSE "unpriced"  OBVIOUS
<1>3. PICK p : p = [posts[i] EXCEPT !.row = row]  OBVIOUS
<1>4. PICK r : r = [run[s] EXCEPT !.pc = "returned"]  OBVIOUS
<1>5. /\ run[s].pc = "stored" /\ run' = [run EXCEPT ![s] = r] /\ setting' = setting
      /\ posts' = [posts EXCEPT ![i] = p]
  BY <1>1, <1>2, <1>3, <1>4 DEF Record, Goto, Becomes
<1>6. posts \in Seq(Post) /\ i \in DOMAIN posts /\ run[s] \in Run
  BY <1>1, <1>5 DEF PilotInv, TypeOK, RunsOK
<1>7. r.pc = "returned"  BY <1>4, <1>6 DEF Run
<1>8. p.script = posts[i].script /\ p.reply = posts[i].reply
  <2>1. PICK q \in Post : q = posts[i]  BY <1>6
  <2> QED BY <1>3, <2>1 DEF Post
<1>9. /\ DOMAIN posts' = DOMAIN posts /\ posts'[i] = p
      /\ \A j \in DOMAIN posts : j # i => posts'[j] = posts[j]
  BY <1>5, <1>6
<1>10. BilledCalls' = BilledCalls  BY <1>8, <1>9 DEF BilledCalls, Billed
<1>11. Blind' = Blind  BY <1>8, <1>9 DEF Blind
<1>12. Told' \subseteq Told \cup {i}  BY <1>9 DEF Told, Billed, Ledgered
<1>13. /\ Cardinality(Told) \in Nat /\ Cardinality(Told') \in Nat
       /\ Cardinality(Told') <= Cardinality(Told) + 1
  BY <1>6, <1>12, MoneyIsFinite, OneMore
<1>14. ASSUME ~overlapped PROVE Covered'
  <2>1. Holds(1)  BY <1>5, <1>14 DEF Covered, Stands
  <2>2. ASSUME NEW room \in Int, Cardinality(Told) + 1 <= room PROVE Cardinality(Told') + 0 <= room
    BY <1>13, <2>2
  <2>3. setting.cap + Cardinality(Blind) \in Int /\ FixedCap \in Int  BY MoneyCounts
  <2>4. Holds(0)'  BY <1>5, <1>10, <1>11, <2>1, <2>2, <2>3 DEF Holds
  <2> QED BY <1>5, <1>7, <1>14, <2>4, CallCovered
<1> QED BY <1>14 DEF Covered

LEMMA RenderCovered ==
  ASSUME PilotInv, Covered, NEW s \in Scripts, Render(s)
  PROVE  Covered'
<1>1. overlapped' = overlapped  BY DEF Render, pilotVars
<1>2. PICK i : i = run[s].post  OBVIOUS
<1>3. run[s].pc = "sent" => posts[i] \in Post  BY <1>2, HeldPost DEF PilotInv, RunsOK
<1>4. run[s] \in Run  BY DEF PilotInv, TypeOK
<1>5. CASE Send(s, Leg(s), Brief(s))  BY <1>1, <1>5, SendCovered
<1>6. CASE Refuse(s)
  <2>1. PICK r : r = [run[s] EXCEPT !.pc = "returned"]  OBVIOUS
  <2>2. /\ run[s].pc = "armed" /\ run' = [run EXCEPT ![s] = r] /\ posts' = posts /\ setting' = setting
    BY <1>6, <2>1 DEF Refuse, Goto
  <2>3. r.pc = "returned"  BY <1>4, <2>1 DEF Run
  <2>4. Unspent  BY <2>2, SamePostsUnspent
  <2>5. ASSUME ~overlapped PROVE Covered'
    <3>1. \A t \in Scripts \ {s} : run[t].pc = "idle"  BY <2>2, <2>5, BusyAlone
    <3> QED BY <2>2, <2>3, <2>4, <2>5, <3>1, MoveCovered
  <2> QED BY <1>1, <2>5 DEF Covered
<1>7. CASE Capture(s)
  <2>1. PICK reply, kept : posts' = [posts EXCEPT ![i] = [posts[i] EXCEPT !.reply = reply, !.image = kept]]
    BY Zenon, <1>2, <1>7 DEF Capture, Becomes
  <2>2. PICK p : p = [posts[i] EXCEPT !.reply = reply, !.image = kept]  OBVIOUS
  <2>3. PICK r : r = [run[s] EXCEPT !.pc = "stored"]  OBVIOUS
  <2>4. run[s].pc = "sent" /\ run' = [run EXCEPT ![s] = r] /\ setting' = setting
    BY <1>7, <2>3 DEF Capture, Goto
  <2>5. p.script = posts[i].script /\ p.row = posts[i].row  BY <1>3, <2>2, <2>4 DEF Post
  <2>6. posts' = [posts EXCEPT ![i] = p]  BY <2>1, <2>2
  <2>7. r.pc \in {"idle", "stored"}  BY <1>4, <2>3 DEF Run
  <2> QED BY <1>1, <1>2, <2>4, <2>5, <2>6, <2>7, AnswerCovered
<1>8. CASE Break(s)
  <2>1. PICK reply : posts' = [posts EXCEPT ![i] = [posts[i] EXCEPT !.reply = reply]]
    BY Zenon, <1>2, <1>8 DEF Break, Becomes
  <2>2. PICK p : p = [posts[i] EXCEPT !.reply = reply]  OBVIOUS
  <2>3. run[s].pc = "sent" /\ run' = [run EXCEPT ![s] = Idle] /\ setting' = setting  BY <1>8 DEF Break
  <2>4. p.script = posts[i].script /\ p.row = posts[i].row  BY <1>3, <2>2, <2>3 DEF Post
  <2>5. posts' = [posts EXCEPT ![i] = p]  BY <2>1, <2>2
  <2>6. Idle.pc \in {"idle", "stored"}  BY IdleFields
  <2> QED BY <1>1, <1>2, <2>3, <2>4, <2>5, <2>6, AnswerCovered
<1>9. CASE Record(s)  BY <1>1, <1>9, RecordCovered
<1> QED BY <1>5, <1>6, <1>7, <1>8, <1>9 DEF Render

\* A row is zeroed only for a call that was free: no told call stops being told.
LEMMA ClassifyCovered ==
  ASSUME PilotInv, Covered, Classify224
  PROVE  Covered'
<1>1. /\ setting' = setting /\ run' = run /\ overlapped' = overlapped
      /\ posts' = [i \in DOMAIN posts |-> Zero(i)]
  BY DEF Classify224, pilotVars
<1>2. ASSUME NEW i \in DOMAIN posts
      PROVE  /\ posts'[i].script = posts[i].script /\ posts'[i].reply = posts[i].reply
             /\ (posts'[i].row = posts[i].row \/ (posts[i].row = "unpriced" /\ posts'[i].row = "zeroed"))
  <2>1. PICK p \in Post : p = posts[i]  BY DEF PilotInv, TypeOK
  <2>2. posts'[i] = p \/ (posts'[i] = [p EXCEPT !.row = "zeroed"] /\ posts[i].row = "unpriced")
    BY <1>1, <2>1 DEF Zero, NullRows, RowsOf
  <2> QED BY <2>1, <2>2 DEF Post
<1>3. DOMAIN posts' = DOMAIN posts  BY <1>1
<1>4. Unspent  BY <1>1, <1>2, <1>3, SameRowsUnspent
<1> QED BY <1>1, <1>4, NoMoveCovered

LEMMA CoveredStep ==
  ASSUME PilotInv, Covered, [Next]_vars
  PROVE  Covered'
<1>1. CASE Starts  BY <1>1, StartsCovered
<1>2. CASE Proofs  BY <1>2, ProofsCovered
<1>3. CASE MarksUp  BY <1>3, MarksCovered
<1>4. ASSUME NEW s \in Scripts, Render(s) PROVE Covered'  BY <1>4, RenderCovered
<1>5. ASSUME NEW s \in Scripts, Return(s) \/ Crash(s) PROVE Covered'
  <2>1. /\ posts' = posts /\ setting' = setting /\ overlapped' = overlapped
        /\ run[s].pc # "idle" /\ End(s)
    BY <1>5 DEF Return, Crash, pilotVars
  <2> QED BY <2>1, SamePostsUnspent, EndCovered
<1>6. CASE Unlink223 \/ (\E i \in DOMAIN posts : Link223(i) \/ Link225(i) \/ Link226(i)) \/ UNCHANGED vars
  <2>1. posts' = posts /\ setting' = setting /\ run' = run /\ overlapped' = overlapped
    BY <1>6 DEF Unlink223, Link223, Link225, Link226, LinkRender, vars, sceneVars, pilotVars
  <2> QED BY <2>1, SamePostsUnspent, NoMoveCovered
<1>7. CASE Classify224  BY <1>7, ClassifyCovered
<1> QED BY <1>1, <1>2, <1>3, <1>4, <1>5, <1>6, <1>7 DEF Next

LEMMA CoveredStart ==
  ASSUME Init
  PROVE  Covered
<1>1. PilotInv /\ posts = <<>> /\ \A s \in Scripts : run[s].pc = "idle"
  BY InitInv, IdleFields DEF Init
<1>2. Alone /\ \A s \in Scripts : Stands(s)  BY <1>1 DEF Alone, Stands
<1>3. BilledCalls = {} /\ Told = {}  BY <1>1 DEF BilledCalls, Told
<1>4. Cardinality(BilledCalls) = 0 /\ Cardinality(Told) = 0  BY <1>3, FS_EmptySet
<1>5. Holds(0)  BY <1>1, <1>4, MoneyCounts DEF Holds
<1> QED BY <1>2, <1>5 DEF Covered

\* While no two runs of the scripts overlap, no answer and no death takes the
\* spend beyond the owner's cap, but for the calls no row tells of and, with the
\* owner's own key, the sends of scripts that never read its spend (the caps the
\* scripts compute before a send, scene_spend_so_far and the guard of
\* render_scene).
THEOREM CapAlwaysKept == Spec => []CapKept
<1>1. PilotInv /\ Covered => CapKept
  <2> SUFFICES ASSUME PilotInv, Covered, ~overlapped
               PROVE  Cardinality(BilledCalls) <=
                        IF setting.byok THEN setting.cap + Cardinality(Untold) + Cardinality(Blind)
                        ELSE Larger(setting.cap, FixedCap + Cardinality(Untold))
    BY DEF CapKept
  <2>1. Holds(0)  BY DEF Covered
  <2>2. BilledCalls \subseteq Told \cup Untold  BY DEF BilledCalls, Told, Untold
  <2>3. posts \in Seq(Post)  BY DEF PilotInv, TypeOK
  <2>4. Cardinality(Untold) \in Nat /\ Cardinality(BilledCalls) <= Cardinality(Told) + Cardinality(Untold)
    BY <2>2, <2>3, MoneyIsFinite, WithinTwo
  <2>5. /\ Cardinality(Told) \in Nat /\ Cardinality(BilledCalls) \in Nat /\ Cardinality(Blind) \in Nat
        /\ setting.cap \in Nat /\ FixedCap \in Nat
    BY MoneyCounts
  <2>6. CASE setting.byok
    <3>1. Cardinality(Told) + 0 <= setting.cap + Cardinality(Blind)  BY <2>1, <2>6 DEF Holds
    <3> QED BY <2>4, <2>5, <2>6, <3>1
  <2>7. CASE ~setting.byok
    <3>1. Cardinality(BilledCalls) <= setting.cap \/ Cardinality(Told) + 0 <= FixedCap
      BY <2>1, <2>7 DEF Holds
    <3>2. Cardinality(BilledCalls) <= setting.cap
          \/ Cardinality(BilledCalls) <= FixedCap + Cardinality(Untold)
      BY <2>4, <2>5, <3>1
    <3> QED BY <2>4, <2>5, <2>7, <3>2 DEF Larger
  <2> QED BY <2>6, <2>7
<1>2. Init => PilotInv /\ Covered  BY InitInv, CoveredStart
<1>3. PilotInv /\ Covered /\ [Next]_vars => (PilotInv /\ Covered)'  BY NextKeeps, CoveredStep
<1> QED BY <1>1, <1>2, <1>3, PTL DEF Spec
=============================================================================
