---------------------------- MODULE SceneRender ----------------------------
(***************************************************************************)
(* One paid scene render: the guard over the recorded spend, the POST, the *)
(* image kept as evidence and the ledger row of the call, each effect      *)
(* committed by itself.  The caller brings the authority: the cap it was   *)
(* granted.  Money is counted in units of the worst case of one render:    *)
(* each billed call costs one unit, the most the caller bounds it by.  An  *)
(* account pays with the provider's credits, or with the owner's own key   *)
(* (byok): then the row's cost is 0.0 and the price stands in its usage.   *)
(***************************************************************************)
EXTENDS Integers, Sequences, FiniteSets

CONSTANTS Scripts,   \* callers of render_scene
          Photos,    \* photos of products, numbered from the largest
          Briefs,    \* prompts
          MaxPosts   \* bound: POSTs that leave the machine

VARIABLES setting,   \* how the account pays, the owner's cap, and what a behaviour may run
          posts,     \* every POST sent, with what became of it
          run        \* the run of each script

sceneVars == <<setting, posts, run>>

\* One behaviour: its account, the scripts it may run, how many at once, and the
\* POSTs it may send.
Setting == [byok : BOOLEAN, cap : Nat, scripts : SUBSET Scripts, runs : Nat, posts : 0..MaxPosts]

-----------------------------------------------------------------------------
\* What the provider answers:
\*   image      a picture, with its cost
\*   uncosted   a picture without usage
\*   empty      a cost and no picture, whatever the status
\*   blank      status 200 with neither a cost nor a picture, or no JSON
\*   refused    another status, without a cost
\*   policy     the same, for what the photo shows
\*   lost       billed, and no answer came
Replies == {"image", "uncosted", "empty", "blank", "refused", "policy", "lost"}
Pictured == {"image", "uncosted"}
Priced == {"image", "empty"}
Free == {"refused", "policy"}

\* The error state that the ledger row of a call without a cost records.
ErrorState(i) == CASE posts[i].image -> "none"
                   [] posts[i].reply = "lost" -> "transport"
                   [] posts[i].reply \in Free -> "http_status"
                   [] OTHER -> "no_image"

\* A row of the ledger: priced, unpriced (cost NULL), or zeroed by hand later.
Rows == {"none", "priced", "unpriced", "zeroed"}

Billed(i) == posts[i].reply \notin Free
Answered(i) == posts[i].reply # "lost"
Ledgered(i) == posts[i].row # "none"
RowsOf(kind) == {i \in DOMAIN posts : posts[i].row = kind}

\* scene_spend_so_far: the sum of the known costs, and the rows without a cost.
Known == IF setting.byok THEN 0 ELSE Cardinality(RowsOf("priced"))
Unknown == Cardinality(RowsOf("unpriced"))

\* Mutant: a row without a cost counts as nothing.
GuardForgetsUnknown(cap) == Known + 1 > cap
\* A row without a cost is charged the worst case again.
GuardRefuses(cap) == Known + Unknown + 1 > cap

\* What the key has used upstream, whatever the ledger holds.
KeyUsage == IF setting.byok THEN 0 ELSE Cardinality({i \in DOMAIN posts : Billed(i)})

-----------------------------------------------------------------------------
Pc == {"idle", "leg", "armed", "sent", "stored", "returned"}
Run == [pc : Pc, todo : SUBSET Photos, cap : Int, post : 0..MaxPosts, since : 0..MaxPosts]
Idle == [pc |-> "idle", todo |-> {}, cap |-> 0, post |-> 0, since |-> 0]
Post == [script : Scripts, photo : Photos, brief : Briefs, since : 0..MaxPosts,
         reply : Replies, image : BOOLEAN, row : Rows, marked : BOOLEAN]

Goto(s, pc) == run' = [run EXCEPT ![s].pc = pc]
Becomes(i, post) == posts' = [posts EXCEPT ![i] = post]

\* The guard and the key precede the send: a refusal leaves nothing behind.
Refuse(s) == /\ run[s].pc = "armed" /\ GuardRefuses(run[s].cap)
             /\ Goto(s, "returned") /\ UNCHANGED <<setting, posts>>

\* Until an answer is heard the call counts as billed and lost.
Send(s, photo, brief) ==
  /\ run[s].pc = "armed" /\ ~GuardRefuses(run[s].cap)
  /\ Len(posts) < setting.posts
  /\ posts' = Append(posts, [script |-> s, photo |-> photo, brief |-> brief,
                             since |-> run[s].since, reply |-> "lost",
                             image |-> FALSE, row |-> "none", marked |-> FALSE])
  /\ run' = [run EXCEPT ![s] = [@ EXCEPT !.pc = "sent", !.post = Len(posts) + 1]]
  /\ UNCHANGED setting

\* The answer: a picture becomes evidence in a transaction of its own, or is
\* refused by the disk; an answer without a picture only sets the error state.
Capture(s) ==
  LET i == run[s].post IN
  /\ run[s].pc = "sent"
  /\ \E reply \in Replies : \E kept \in (IF reply \in Pictured THEN BOOLEAN ELSE {FALSE}) :
       Becomes(i, [posts[i] EXCEPT !.reply = reply, !.image = kept])
  /\ Goto(s, "stored") /\ UNCHANGED setting

\* Mutant: the session is fit for use again, the row is left out and the script
\* goes on.
BreakGoesOn(s) == /\ run[s].pc = "sent"
                  /\ \E reply \in Pictured :
                       Becomes(run[s].post, [posts[run[s].post] EXCEPT !.reply = reply])
                  /\ Goto(s, "returned") /\ UNCHANGED setting

\* The evidence row is refused by the database (its write lock is held too long):
\* the session is not rolled back, so the ledger row cannot be written either
\* and the caller dies with the exception.
Break(s) == /\ run[s].pc = "sent"
            /\ \E reply \in Pictured :
                 Becomes(run[s].post, [posts[run[s].post] EXCEPT !.reply = reply])
            /\ run' = [run EXCEPT ![s] = Idle]
            /\ UNCHANGED setting

\* Mutant: a call that names no cost leaves no row.
RecordPriced(s) ==
  LET i == run[s].post IN
  /\ run[s].pc = "stored"
  /\ IF posts[i].reply \in Priced THEN Becomes(i, [posts[i] EXCEPT !.row = "priced"]) ELSE UNCHANGED posts
  /\ Goto(s, "returned") /\ UNCHANGED setting
\* record_scene_call: one row per POST; no cost in the answer is cost NULL.
Record(s) ==
  LET i == run[s].post IN
  /\ run[s].pc = "stored"
  /\ Becomes(i, [posts[i] EXCEPT !.row = IF posts[i].reply \in Priced THEN "priced" ELSE "unpriced"])
  /\ Goto(s, "returned") /\ UNCHANGED setting
=============================================================================
