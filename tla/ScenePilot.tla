----------------------------- MODULE ScenePilot -----------------------------
(***************************************************************************)
(* The scripts that spend the owner's money on scene renders, one slice of *)
(* the pilot each, and those that repair the record.  A script reads the   *)
(* provider's key usage, counts the pilot's rows, takes the tightest       *)
(* remainder as the cap of its authority, leaves a marker of what it sent  *)
(* in its evidence directory and drives SceneRender.  Runs of different    *)
(* scripts may overlap and any run may die between two effects; a script   *)
(* is not started twice at once.  The plan, verify and post modes write    *)
(* nothing that a later run reads.                                         *)
(***************************************************************************)
EXTENDS SceneRender

CONSTANTS Stored,        \* photos whose bytes are present and large enough
          Precedent,     \* photos the first, fixed-cap scripts used
          Uploads,       \* photos of active assets that were uploads
          AssetOf,       \* the asset of each photo
          Miso, Costita, Ceafa, Costita2,   \* photos that scripts name
          FixedCap,      \* cap of the scripts before the pilot
          Settings,      \* what a behaviour may start with
          PilotRenders,  \* renders of the pilot
          BilledBefore,  \* billed renders sg225 expects
          BulkRenders,   \* renders sg226 expects to plan
          NullsExpected, \* rows without a cost sg224 expects
          Crashes        \* TRUE: a run may die between two effects

ASSUME PilotAssumption ==
  /\ Scripts = {"sg158", "sg159", "sg166", "sg217", "sg218", "sg219", "sg220",
                "sg223", "sg225", "sg226"}
  /\ Photos \subseteq Nat /\ Briefs = {"scene", "cutout"}
  /\ Stored \subseteq Photos /\ Precedent \subseteq Photos /\ Uploads \subseteq Photos
  /\ {Miso, Costita, Ceafa, Costita2} \subseteq Photos
  /\ MaxPosts \in Nat /\ FixedCap \in Nat /\ PilotRenders \in Nat
  /\ BilledBefore \in Nat /\ BulkRenders \in Nat \ {0} /\ NullsExpected \in Nat \ {0}
  /\ Crashes \in BOOLEAN
  /\ Settings \subseteq Setting
  /\ Precedent # {} /\ Costita # Miso

VARIABLES marker,      \* what each script's attempt file says of each photo
          links,       \* renders linked to their asset
          wrong,       \* the link of the wrong Costita render is still there
          spendFile,   \* the key usage sg223 wrote down last, or -1
          overlapped   \* two runs overlapped at some time

pilotVars == <<marker, links, wrong, spendFile, overlapped>>
vars == <<sceneVars, pilotVars>>

Precedents == {"sg158", "sg159", "sg166"}
Marks == {"none", "pending", "unsent", "sent"}
Blank == [p \in Photos |-> "none"]

Init == /\ setting \in Settings
        /\ posts = <<>>
        /\ run = [s \in Scripts |-> Idle]
        /\ marker = [s \in Scripts |-> Blank]
        /\ links = {} /\ wrong = TRUE /\ spendFile = -1 /\ overlapped = FALSE

-----------------------------------------------------------------------------
\* The order of the photos of a slice, and the prompt of each.
Least(S) == CHOOSE x \in S : \A y \in S : x <= y
Leg(s) == IF s = "sg223" /\ Costita \in run[s].todo THEN Costita ELSE Least(run[s].todo)
Brief(s) == IF s = "sg225" \/ (s = "sg223" /\ Leg(s) = Miso) THEN "cutout" ELSE "scene"

\* Mutant: a marker whose outcome was never written does not count.
SentOnly(s) == \E p \in Photos : marker[s][p] = "sent"
\* A marker with a sent POST, or one whose outcome was never written, closes
\* the slice.
SliceSent(s) == \E p \in Photos : marker[s][p] \in {"pending", "sent"}

Ready(s) == /\ s \in setting.scripts /\ run[s].pc = "idle"
            /\ Cardinality({t \in Scripts : run[t].pc # "idle"}) < setting.runs
Begin(s, pc, todo, cap) ==
  /\ run' = [run EXCEPT ![s] = [pc |-> pc, todo |-> todo, cap |-> cap, post |-> 0, since |-> Len(posts)]]
  /\ overlapped' = (overlapped \/ \E t \in Scripts \ {s} : run[t].pc # "idle")
Arm(s, cap) == run' = [run EXCEPT ![s] = [@ EXCEPT !.pc = "armed", !.cap = cap]]
End(s) == run' = [run EXCEPT ![s] = Idle]
Rest(s) == run[s].todo \ {Leg(s)}
NextLeg(s) == run' = [run EXCEPT ![s] = [@ EXCEPT !.pc = "leg", !.todo = Rest(s), !.post = 0]]
MarkLeg(s, mark) == marker' = [marker EXCEPT ![s][Leg(s)] = mark]

-----------------------------------------------------------------------------
\* What bounds a send.  Rows of the pilot are those since its decision record.
Pilot(i) == posts[i].script \notin Precedents
KeyRemainder == setting.cap - KeyUsage
\* Mutant: the owner's own spend is not read.
OwnerIgnored == setting.cap
OwnerRemainder == setting.cap - (IF setting.byok THEN Cardinality(RowsOf("priced")) ELSE 0)

\* sg217, sg218: renders that succeeded and were billed.
Rendered == Cardinality({i \in RowsOf("priced") : Pilot(i) /\ posts[i].image})
\* sg219, sg220, sg223: every row with a cost counts, a zeroed one too.
BilledSends == Cardinality({i \in RowsOf("priced") \cup RowsOf("zeroed") : Pilot(i)})
\* sg225: a cost above zero, or no error.
Billed225 == Cardinality({i \in RowsOf("priced") : Pilot(i) /\ (~setting.byok \/ posts[i].image)})

PhotoLedgered(p) == \E i \in DOMAIN posts : Ledgered(i) /\ posts[i].photo = p

Cap217 == Least({KeyRemainder, PilotRenders - Rendered})
Cap219 == Least({KeyRemainder, PilotRenders - BilledSends, OwnerRemainder})
Cap225 == Least({KeyRemainder, PilotRenders - Billed225, OwnerRemainder})
Cap226 == Least({KeyRemainder, OwnerRemainder})

-----------------------------------------------------------------------------
\* The scripts before the pilot: a fixed cap, no marker, no live read.
StartFixed(s) == /\ Ready(s) /\ \E p \in Precedent : Begin(s, "armed", {p}, FixedCap)
                 /\ UNCHANGED <<setting, posts, marker, links, wrong, spendFile>>
Start158 == StartFixed("sg158")
Start159 == StartFixed("sg159")
Start166 == StartFixed("sg166")
Return(s) == /\ s \in Precedents /\ run[s].pc = "returned" /\ End(s)
             /\ UNCHANGED <<setting, posts, pilotVars>>

\* sg217 and sg218 prove every bound and then write post_sent = false, before
\* the send: only a run that comes back says that it sent.
StartMarked(s, p) ==
  /\ Ready(s) /\ ~SliceSent(s)
  /\ Rendered + 1 <= PilotRenders
  /\ Cap217 > 0 /\ ~GuardRefuses(Cap217)
  /\ Begin(s, "armed", {p}, Cap217)
  /\ marker' = [marker EXCEPT ![s] = [Blank EXCEPT ![p] = "unsent"]]
  /\ UNCHANGED <<setting, posts, links, wrong, spendFile>>

Candidates217 == Stored \ Precedent
Start217 == Candidates217 # {} /\ StartMarked("sg217", Least(Candidates217))
\* sg218 leaves out the photo that sg217 rendered.
Candidates218 == Candidates217 \ {Miso}
Start218 == Candidates218 # {} /\ StartMarked("sg218", Least(Candidates218))

\* sg219: the two largest photos left.  The marker is started afresh, each leg
\* proved by itself before its send.
Candidates219 == Candidates218 \ {Costita}
Picks219 == {p \in Candidates219 : Cardinality({q \in Candidates219 : q < p}) < 2}
Start219 ==
  /\ Ready("sg219") /\ ~SliceSent("sg219")
  /\ Cardinality(Picks219) = 2
  /\ Begin("sg219", "leg", Picks219, 0)
  /\ marker' = [marker EXCEPT !["sg219"] = Blank]
  /\ UNCHANGED <<setting, posts, links, wrong, spendFile>>

\* A leg proved and marked as pending, a leg refused, or a bound that stops the
\* script before it marks anything.
Proved(s, cap) == /\ ~GuardRefuses(cap) /\ MarkLeg(s, "pending") /\ Arm(s, cap)
Refused(s) == MarkLeg(s, "unsent") /\ End(s)
Stops(s) == End(s) /\ UNCHANGED marker

Bounded219(s) == BilledSends + Cardinality(run[s].todo) <= PilotRenders
Prove219 ==
  /\ run["sg219"].pc = "leg"
  /\ IF PhotoLedgered(Leg("sg219")) \/ ~Bounded219("sg219") \/ Cap219 <= 0 THEN Stops("sg219")
     ELSE IF GuardRefuses(Cap219) THEN Refused("sg219") ELSE Proved("sg219", Cap219)
  /\ UNCHANGED <<setting, posts, links, wrong, spendFile, overlapped>>

\* sg220: one named photo that no row of the ledger names.
Confirmed220 == Costita2 \in Stored /\ Costita2 # Ceafa /\ ~PhotoLedgered(Costita2)
Start220 ==
  /\ Ready("sg220") /\ ~SliceSent("sg220") /\ Confirmed220
  /\ Begin("sg220", "leg", {Costita2}, 0)
  /\ marker' = [marker EXCEPT !["sg220"] = Blank]
  /\ UNCHANGED <<setting, posts, links, wrong, spendFile>>
Prove220 ==
  /\ run["sg220"].pc = "leg"
  /\ IF BilledSends + 1 > PilotRenders \/ Cap219 <= 0 THEN Stops("sg220")
     ELSE IF GuardRefuses(Cap219) THEN Refused("sg220") ELSE Proved("sg220", Cap219)
  /\ UNCHANGED <<setting, posts, links, wrong, spendFile, overlapped>>

\* sg223: the wrong link goes first; both legs run against that link state.
Unlink223 ==
  /\ "sg223" \in setting.scripts
  /\ wrong /\ links = {} /\ wrong' = FALSE
  /\ UNCHANGED <<sceneVars, marker, links, spendFile, overlapped>>
Confirmed223 == {Costita, Miso} \subseteq Stored
Unlinked223 == links = {} /\ ~wrong
Start223 ==
  /\ Ready("sg223") /\ ~SliceSent("sg223") /\ Confirmed223 /\ Unlinked223
  /\ Begin("sg223", "leg", {Costita, Miso}, 0)
  /\ marker' = [marker EXCEPT !["sg223"] = Blank]
  /\ UNCHANGED <<setting, posts, links, wrong, spendFile>>
Prove223 ==
  /\ run["sg223"].pc = "leg"
  /\ \/ /\ ~Bounded219("sg223") /\ Stops("sg223") /\ UNCHANGED spendFile
     \/ /\ Bounded219("sg223") /\ (Cap219 <= 0 \/ GuardRefuses(Cap219)) /\ Refused("sg223")
        /\ spendFile' \in {spendFile, KeyUsage}
     \/ /\ Bounded219("sg223") /\ Cap219 > 0 /\ Proved("sg223", Cap219) /\ UNCHANGED spendFile
  /\ UNCHANGED <<setting, posts, links, wrong, overlapped>>

\* sg225: a photo that has a scene row and no cutout row, and exactly the
\* billed renders that its record expects.
CutoutUnused == /\ PhotoLedgered(Miso)
                /\ \A i \in DOMAIN posts :
                     Ledgered(i) /\ posts[i].photo = Miso => posts[i].brief # "cutout"
Confirmed225 == Miso \in Stored
Start225 ==
  /\ Ready("sg225") /\ ~SliceSent("sg225")
  /\ Confirmed225 /\ CutoutUnused
  /\ Billed225 = BilledBefore /\ Billed225 + 1 <= PilotRenders
  /\ Cap225 > 0 /\ ~GuardRefuses(Cap225)
  /\ Begin("sg225", "armed", {Miso}, Cap225)
  /\ marker' = [marker EXCEPT !["sg225"] = [Blank EXCEPT ![Miso] = "pending"]]
  /\ UNCHANGED <<setting, posts, links, wrong, spendFile>>

\* sg226: every upload that is there, whose asset has no linked scene of any of
\* its photos and whose content was not refused; the whole list must fit the
\* caps, and then each send.
Linked == {posts[i].photo : i \in links} \cup (IF wrong THEN {Costita} ELSE {})
HasScene(p) == \E q \in Linked : AssetOf[q] = AssetOf[p]
Parked(p) == \E i \in DOMAIN posts : Ledgered(i) /\ posts[i].photo = p /\ posts[i].reply = "policy"
RenderList226 == {p \in Uploads \cap Stored : ~HasScene(p) /\ ~Parked(p)}
Fits226(planned) == Known + Unknown + planned <= Cap226
Planned226 == Cardinality(RenderList226) = BulkRenders
Start226 ==
  /\ Ready("sg226") /\ ~SliceSent("sg226") /\ Planned226
  /\ IF Fits226(BulkRenders) THEN Begin("sg226", "leg", RenderList226, 0)
     ELSE UNCHANGED <<run, overlapped>>
  /\ marker' = [marker EXCEPT !["sg226"] = Blank]
  /\ UNCHANGED <<setting, posts, links, wrong, spendFile>>
Prove226 ==
  /\ run["sg226"].pc = "leg"
  /\ IF Fits226(1) THEN Proved("sg226", Cap226) ELSE Stops("sg226")
  /\ UNCHANGED <<setting, posts, links, wrong, spendFile, overlapped>>

-----------------------------------------------------------------------------
\* The send itself, for every script.
Render(s) == /\ \/ Send(s, Leg(s), Brief(s)) \/ Refuse(s)
                \/ Capture(s) \/ Break(s) \/ Record(s)
             /\ UNCHANGED pilotVars

\* What the script writes down when render_scene is back.
Sent(s) == run[s].post # 0 /\ Answered(run[s].post)
RenderedNow(s) == run[s].post # 0 /\ posts[run[s].post].image
SentMark(s) == IF Sent(s) THEN "sent" ELSE "unsent"
Returned(s) == /\ run[s].pc = "returned"
               /\ posts' = [i \in DOMAIN posts |-> IF i # run[s].post THEN posts[i]
                                                  ELSE [posts[i] EXCEPT !.marked = TRUE]]
               /\ UNCHANGED <<setting, links, wrong, overlapped>>
LastLeg(s) == run[s].todo = {Leg(s)}

MarkOnce(s) == Returned(s) /\ MarkLeg(s, SentMark(s)) /\ End(s) /\ UNCHANGED spendFile
Mark217 == MarkOnce("sg217")
Mark218 == MarkOnce("sg218")
Mark220 == MarkOnce("sg220")
\* The second leg only after the first rendered.
Mark219 == /\ Returned("sg219") /\ MarkLeg("sg219", SentMark("sg219"))
           /\ IF RenderedNow("sg219") /\ ~LastLeg("sg219") THEN NextLeg("sg219") ELSE End("sg219")
           /\ UNCHANGED spendFile
\* sg223 writes the result of a leg, and then its marker.
Noted223 == run["sg223"].post # 0 => posts[run["sg223"].post].marked
Note223 == /\ Returned("sg223") /\ ~Noted223
           /\ UNCHANGED <<run, marker, spendFile>>
\* The key usage is written down at the end, when it can be read.
Mark223 == /\ Noted223 /\ Returned("sg223") /\ MarkLeg("sg223", SentMark("sg223"))
           /\ \/ /\ RenderedNow("sg223") /\ ~LastLeg("sg223")
                 /\ NextLeg("sg223") /\ UNCHANGED spendFile
              \/ /\ ~RenderedNow("sg223") \/ LastLeg("sg223")
                 /\ End("sg223") /\ spendFile' \in {spendFile, KeyUsage}
\* sg225 calls its POST sent whatever came back, and then writes the result.
Said225 == marker["sg225"][Leg("sg225")] = "sent"
Mark225 == /\ run["sg225"].pc = "returned" /\ ~Said225
           /\ MarkLeg("sg225", "sent")
           /\ UNCHANGED <<sceneVars, links, wrong, spendFile, overlapped>>
Note225 == /\ Returned("sg225") /\ Said225 /\ End("sg225")
           /\ UNCHANGED <<marker, spendFile>>
\* sg226 goes on after a failed leg, not after a refused one.
Mark226 == /\ Returned("sg226") /\ MarkLeg("sg226", SentMark("sg226"))
           /\ IF run["sg226"].post # 0 /\ ~LastLeg("sg226") THEN NextLeg("sg226") ELSE End("sg226")
           /\ UNCHANGED spendFile

\* Review before link: a render the slice wrote down, linked once.  sg223 and
\* sg225 read it from the result file, sg226 from the marker.
LinkRender(s, i) ==
  /\ posts[i].script = s /\ posts[i].marked /\ posts[i].image /\ i \notin links
  /\ links' = links \cup {i}
  /\ UNCHANGED <<sceneVars, marker, wrong, spendFile, overlapped>>
Link223(i) == LinkRender("sg223", i)
Link225(i) == LinkRender("sg225", i)
Link226(i) == LinkRender("sg226", i)

\* sg224: the rows without a cost become 0.0 in one transaction, when they are
\* the refused calls it expects, all of them and no other, and the usage sg223
\* wrote down is the sum of the known costs.
NullRows == RowsOf("unpriced")
\* Mutant: an error state is proof enough.
FailedIsFree(i) == ErrorState(i) # "none"
ProvenFree(i) == ErrorState(i) = "http_status" /\ posts[i].script \in Precedents \cup {"sg219"}
Zero(i) == IF i \in NullRows THEN [posts[i] EXCEPT !.row = "zeroed"] ELSE posts[i]
Classify224 ==
  /\ Cardinality(NullRows) = NullsExpected /\ \A i \in NullRows : ProvenFree(i)
  /\ spendFile = Known
  /\ posts' = [i \in DOMAIN posts |-> Zero(i)]
  /\ UNCHANGED <<setting, run, pilotVars>>

Crash(s) == Crashes /\ run[s].pc # "idle" /\ End(s) /\ UNCHANGED <<setting, posts, pilotVars>>

-----------------------------------------------------------------------------
Starts == \/ Start158 \/ Start159 \/ Start166 \/ Start217 \/ Start218 \/ Start219
          \/ Start220 \/ Start223 \/ Start225 \/ Start226
Proofs == Prove219 \/ Prove220 \/ Prove223 \/ Prove226
MarksUp == \/ Mark217 \/ Mark218 \/ Mark219 \/ Mark220 \/ Mark223 \/ Mark225 \/ Mark226
          \/ Note223 \/ Note225
Next == \/ Starts \/ Proofs \/ MarksUp
        \/ \E s \in Scripts : Render(s) \/ Return(s) \/ Crash(s)
        \/ \E i \in DOMAIN posts : Link223(i) \/ Link225(i) \/ Link226(i)
        \/ Unlink223 \/ Classify224
Spec == Init /\ [][Next]_vars

-----------------------------------------------------------------------------
TypeOK == /\ setting \in Setting
          /\ posts \in Seq(Post) /\ Len(posts) <= MaxPosts
          /\ run \in [Scripts -> Run]
          /\ marker \in [Scripts -> [Photos -> Marks]]
          /\ links \subseteq DOMAIN posts /\ wrong \in BOOLEAN
          /\ spendFile \in Int /\ overlapped \in BOOLEAN

\* A slice is closed by its send.  A later run of the same script sends again
\* only when the earlier answer was lost, for the scripts that take a lost
\* answer for no send and do not look the photo up in the ledger; and, for
\* sg217 and sg218, when the earlier run never came back to say that it sent.
SliceClosed ==
  \A i, j \in DOMAIN posts :
    /\ posts[i].script = posts[j].script /\ Pilot(i)
    /\ i <= posts[j].since
    => \/ posts[i].script \in {"sg217", "sg218", "sg223", "sg226"} /\ ~Answered(i)
       \/ posts[i].script \in {"sg217", "sg218"} /\ ~posts[i].marked

\* A call without a row stops its run: "billed-but-unledgered cannot occur" as
\* far as the code keeps it.  No later call of the same run was sent over such a
\* call, and no marker says "sent" for it (sg225 says it whatever came back).
NoCallPassedOver ==
  /\ \A i, j \in DOMAIN posts :
       i < j /\ posts[i].script = posts[j].script /\ posts[i].since = posts[j].since => Ledgered(i)
  /\ \A s \in Scripts \ {"sg225"}, p \in Photos : marker[s][p] = "sent" =>
       \E i \in DOMAIN posts : posts[i].script = s /\ posts[i].photo = p /\ Ledgered(i)

\* What was billed, and the calls among it that no row tells of: one in flight,
\* or the last of a run that died.
BilledCalls == {i \in DOMAIN posts : Billed(i)}
Untold == {i \in DOMAIN posts : Billed(i) /\ ~Ledgered(i)}

\* When no two runs overlap, the owner's cap holds: the provider's credits up to
\* the fixed cap of the first scripts and the calls no row tells of; the owner's
\* own key up to those calls and the sends of scripts that never read its spend.
Larger(a, b) == IF a >= b THEN a ELSE b
Blind == {i \in DOMAIN posts : posts[i].script \in Precedents \cup {"sg217", "sg218"}}
CapKept ==
  ~overlapped =>
    Cardinality(BilledCalls) <=
      IF setting.byok THEN setting.cap + Cardinality(Untold) + Cardinality(Blind)
      ELSE Larger(setting.cap, FixedCap + Cardinality(Untold))

\* Every linked render resolves to the ledger row of its own send, from which
\* sg226 learns its source photo.
LinkedResolves == \A i \in links : Ledgered(i) /\ posts[i].reply \in Pictured
=============================================================================
