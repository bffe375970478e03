------------------------------- MODULE Advice -------------------------------
(***************************************************************************)
(* What the application asks other programs at a press of a button: a      *)
(* planning pass, analytics insights, a chat answer, a web enrichment of   *)
(* one asset.  A press reads what it shows, calls outside any transaction, *)
(* writes a row of the provider ledger for what it paid, and lands         *)
(* suggestions, an event or a candidate for a person to decide.  Presses   *)
(* overlap, and a request may die between any two of its commits.          *)
(***************************************************************************)
EXTENDS EnrichScoring, FiniteSets

CONSTANTS Presses, Kind,   \* the presses, and what each asks for
          Things,          \* assets of the household
          OffAnswers,      \* what Open Food Facts may return
          Deciders,        \* requests that confirm or dismiss a suggestion
          Scopes           \* what a behaviour has, and what may change in it

Kinds == {"planning", "insights", "chat", "enrich"}
ASSUME AdviceAssumption ==
  /\ Kind \in [Presses -> Kinds]
  /\ Things \cap {"statistic", "invented", "label"} = {}
  /\ OffAnswers \subseteq Seq(Product)
  /\ Scopes \subseteq [presses : SUBSET Presses, deciders : SUBSET Deciders,
                       things : SUBSET Things, labels : SUBSET WebFields]

VARIABLES scope,       \* the presses, deciders, things and labels of this behaviour
          consent,     \* setting: sg_consent
          shelf,       \* each thing: none, retired, active, or active and of the chat's category
          label,       \* fields of the enriched asset with a label assertion
          press,       \* each press under way
          ledger,      \* provider_call rows
          event,       \* guardrail events of the presses
          suggestion,  \* the suggestion of a press about a cited thing
          correction,  \* suggestions with a correction event
          shop,        \* what an enrichment has stored
          candidate,   \* where each field of its candidate comes from
          decider,     \* requests that decide on a suggestion
          sent,        \* history: the calls that left
          said,        \* history: the decisions a suggestion's requests made
          clashed      \* history: suggestions decided by overlapping requests

pressVars == <<press, ledger, event, shop, candidate, sent>>
decisionVars == <<suggestion, correction, decider, said, clashed>>
world == <<scope, consent, shelf, label>>
vars == <<world, pressVars, decisionVars>>

Shelf == {"none", "retired", "active", "category"}
Seen == Things \cup {"statistic"}
Cited == Seen \cup {"invented"}
Jina == {"none", "missing_key", "degraded", "nothing", "hit"}
Calls == {"first", "repair", "jina"}
\* The products of a degraded answer are none, as those of an empty one.
Press == [pc : {"idle", "ask", "record", "off", "jina", "store", "snapshot", "charge", "propose",
                "done", "dead"},
          call : Calls, seen : SUBSET Seen, answer : {"good", "malformed", "refused"},
          cites : SUBSET Cited, had : SUBSET WebFields, found : OffAnswers \cup {<<>>}, jina : Jina]
Fresh == [pc |-> "idle", call |-> "first", seen |-> {}, had |-> {}, answer |-> "refused", cites |-> {},
          found |-> <<>>, jina |-> "none"]
Outcomes == {"empty", "ok", "ungrounded", "correction"}
Suggestion == [status : {"none", "pending", "confirmed", "dismissed"}, ref : Seen \cup {"label"}]
NoSuggestion == [status |-> "none", ref |-> "label"]
Shop == [job : BOOLEAN, off : BOOLEAN, jina : BOOLEAN, proposed : BOOLEAN]
NoShop == [job |-> FALSE, off |-> FALSE, jina |-> FALSE, proposed |-> FALSE]
Deciding == [pc |-> "idle"]
Decider == [pc : {"idle", "done"}]
           \cup [pc : {"write"}, of : Presses \X Cited, to : {"confirmed", "dismissed"}, reason : BOOLEAN]

TypeOK ==
  /\ scope \in Scopes /\ consent \in BOOLEAN
  /\ shelf \in [Things -> Shelf] /\ label \in SUBSET WebFields
  /\ press \in [Presses -> Press] /\ shop \in [Presses -> Shop] /\ DOMAIN candidate = Presses
  /\ ledger \in SUBSET [press : Presses, call : Calls, error : BOOLEAN]
  /\ event \in SUBSET [press : Presses, outcome : Outcomes, cites : SUBSET Cited]
  /\ suggestion \in [Presses \X Cited -> Suggestion] /\ correction \subseteq Presses \X Cited
  /\ decider \in [Deciders -> Decider]
  /\ sent \subseteq Presses \X Calls
  /\ said \in [Presses \X Cited -> Nat] /\ clashed \subseteq Presses \X Cited

Init == /\ scope \in Scopes /\ consent \in BOOLEAN
        /\ shelf \in [Things -> Shelf] /\ \A t \in Things \ scope.things : shelf[t] = "none"
        /\ label \in SUBSET scope.labels
        /\ press = [p \in Presses |-> Fresh] /\ ledger = {} /\ event = {} /\ sent = {}
        /\ suggestion = [s \in Presses \X Cited |-> NoSuggestion] /\ correction = {}
        /\ shop = [p \in Presses |-> NoShop] /\ candidate = [p \in Presses |-> <<>>]
        /\ decider = [d \in Deciders |-> Deciding]
        /\ said = [s \in Presses \X Cited |-> 0] /\ clashed = {}
-----------------------------------------------------------------------------
Goes(p, r) == press' = [press EXCEPT ![p] = r]
To(p, pc) == Goes(p, [press[p] EXCEPT !.pc = pc])
Assists(p) == Kind[p] # "enrich"
\* A planning pass and an insight leave an event, a chat answer does not.
Leaves(p) == Kind[p] \in {"planning", "insights"}
Log(p, error) == ledger' = ledger \cup {[press |-> p, call |-> press[p].call, error |-> error]}
Tell(p, outcome, cites) ==
  event' = event \cup {[press |-> p, outcome |-> outcome, cites |-> cites]}

\* What a call is given to read: the active assets, those of the category
\* of the chat, or the statistics of a household that has assets.
Catalogue == {t \in Things : shelf[t] \in {"active", "category"}}
OfCategory == {t \in Things : shelf[t] = "category"}
Statistics == IF \A t \in Things : shelf[t] = "none" THEN {} ELSE {"statistic"}
Shown(p) == CASE Kind[p] = "planning" -> Catalogue
              [] Kind[p] = "insights" -> Statistics
              [] Kind[p] = "chat" -> OfCategory
              [] OTHER -> {}

\* The checks before any call: consent, the household, the cap the press
\* sends, a name or a barcode to search by.
Refuse(p) == /\ press[p].pc = "idle" /\ To(p, "done")
             /\ UNCHANGED <<world, ledger, event, shop, candidate, sent, decisionVars>>
\* An empty catalogue needs no call.
Empty(p) == /\ press[p].pc = "idle" /\ consent /\ Assists(p) /\ Shown(p) = {}
            /\ IF Leaves(p) THEN Tell(p, "empty", {}) ELSE event' = event
            /\ To(p, "done")
            /\ UNCHANGED <<world, ledger, shop, candidate, sent, decisionVars>>
Begin(p) == /\ press[p].pc = "idle" /\ consent /\ (Assists(p) => Shown(p) # {})
            /\ Goes(p, [press[p] EXCEPT !.pc = IF Assists(p) THEN "ask" ELSE "off",
                                          !.seen = Shown(p), !.had = label])
            /\ UNCHANGED <<world, ledger, event, shop, candidate, sent, decisionVars>>

\* router.execute: an answer may cite what was never shown.  A refusal may
\* have been sent, and paid for, or not.
Ask(p) ==
  /\ press[p].pc = "ask"
  /\ \E answer \in {"good", "malformed", "refused"}, cites \in SUBSET Cited, left \in BOOLEAN :
       /\ answer = "malformed" => Leaves(p)
       /\ answer # "refused" => left
       /\ answer # "good" \/ ~Leaves(p) => cites = {}
       /\ Goes(p, [press[p] EXCEPT !.pc = "record", !.answer = answer, !.cites = cites])
       /\ sent' = IF left THEN sent \cup {<<p, press[p].call>>} ELSE sent
  /\ UNCHANGED <<world, ledger, event, shop, candidate, decisionVars>>

\* Mutant: an answer that does not parse leaves no row.
RecordRefused(p) ==
  /\ press[p].pc = "record" /\ press[p].answer # "good"
  /\ IF press[p].answer = "refused" THEN Log(p, TRUE) ELSE ledger' = ledger
  /\ Goes(p, IF Leaves(p) /\ press[p].call = "first"
             THEN [press[p] EXCEPT !.pc = "ask", !.call = "repair"]
             ELSE [press[p] EXCEPT !.pc = "done"])
  /\ UNCHANGED <<world, event, shop, candidate, sent, decisionVars>>
\* A failed attempt commits its row before the one repair of a planning pass
\* or an insight.
RecordError(p) ==
  /\ press[p].pc = "record" /\ press[p].answer # "good" /\ Log(p, TRUE)
  /\ Goes(p, IF Leaves(p) /\ press[p].call = "first"
             THEN [press[p] EXCEPT !.pc = "ask", !.call = "repair"]
             ELSE [press[p] EXCEPT !.pc = "done"])
  /\ UNCHANGED <<world, event, shop, candidate, sent, decisionVars>>

\* _backing_refs: an item names an asset of the catalogue that was shown, or
\* else only repeats its own words.
Refs(p, c) == IF c \in press[p].seen THEN c ELSE "label"
\* _resolve_citations: a citation nobody supplied rejects the whole insight.
\* Mutant: one citation that resolves is enough.
SomeResolve(p) == press[p].cites \cap press[p].seen # {}
Resolve(p) == press[p].cites # {} /\ press[p].cites \subseteq press[p].seen

\* A good answer commits its row with the suggestions and the event of it.
Lands(p) == press[p].pc = "record" /\ press[p].answer = "good" /\ Log(p, FALSE) /\ To(p, "done")
LandPlan(p) ==
  /\ Kind[p] = "planning" /\ Lands(p) /\ Tell(p, "ok", press[p].cites)
  /\ suggestion' = [s \in DOMAIN suggestion |->
                      IF s[1] = p /\ s[2] \in press[p].cites
                      THEN [status |-> "pending", ref |-> Refs(p, s[2])] ELSE suggestion[s]]
  /\ UNCHANGED <<world, shop, candidate, sent, correction, decider, said, clashed>>
LandInsight(p) ==
  /\ Kind[p] = "insights" /\ Lands(p)
  /\ Tell(p, IF Resolve(p) THEN "ok" ELSE "ungrounded", press[p].cites)
  /\ UNCHANGED <<world, shop, candidate, sent, decisionVars>>
LandAnswer(p) == /\ Kind[p] = "chat" /\ Lands(p)
                 /\ UNCHANGED <<world, event, shop, candidate, sent, decisionVars>>
\* log_correction: the user says what was wrong, whatever the answer was.
Correct(p) == /\ Kind[p] = "chat" /\ Tell(p, "correction", {})
              /\ UNCHANGED <<world, press, ledger, shop, candidate, sent, decisionVars>>
-----------------------------------------------------------------------------
\* fetch_off_search and select_candidate; should_use_jina asks Jina when Open
\* Food Facts degraded, or had no product that wins.
Accepted(p) == Decision(press[p].found) = "accepted"
FetchOff(p) ==
  /\ press[p].pc = "off"
  /\ \E found \in OffAnswers \cup {<<>>} :
       Goes(p, [press[p] EXCEPT !.found = found,
                                !.pc = IF Decision(found) = "accepted" THEN "store" ELSE "jina"])
  /\ UNCHANGED <<world, ledger, event, shop, candidate, sent, decisionVars>>
\* fetch_jina_search: without a key nothing is sent.
FetchJina(p) ==
  /\ press[p].pc = "jina"
  /\ \E jina \in Jina \ {"none"} :
       /\ Goes(p, [press[p] EXCEPT !.pc = "store", !.call = "jina", !.jina = jina])
       /\ sent' = IF jina = "missing_key" THEN sent ELSE sent \cup {<<p, "jina">>}
  /\ UNCHANGED <<world, ledger, event, shop, candidate, decisionVars>>

Keep(p, r) == shop' = [shop EXCEPT ![p] = r]
\* The job is COMPLETED in the commit of the first snapshot.
StoreOff(p) ==
  /\ press[p].pc = "store" /\ Keep(p, [shop[p] EXCEPT !.job = TRUE, !.off = TRUE])
  /\ To(p, IF press[p].jina = "none" THEN "propose" ELSE "snapshot")
  /\ UNCHANGED <<world, ledger, event, candidate, sent, decisionVars>>
StoreJina(p) ==
  /\ press[p].pc = "snapshot" /\ Keep(p, [shop[p] EXCEPT !.jina = TRUE])
  /\ To(p, IF press[p].jina = "missing_key" THEN "propose" ELSE "charge")
  /\ UNCHANGED <<world, ledger, event, candidate, sent, decisionVars>>
Charge(p) ==
  /\ press[p].pc = "charge" /\ Log(p, press[p].jina = "degraded") /\ To(p, "propose")
  /\ UNCHANGED <<world, event, shop, candidate, sent, decisionVars>>

\* build_enrich_fields: the winner's fields, and the title of Jina's first
\* result where the winner has none.
OffFields(p) == IF Accepted(p) THEN press[p].found[Top(press[p].found)].fields ELSE {}
JinaFields(p) == IF press[p].jina = "hit" THEN {"display_name"} ELSE {}
\* label_existing_fields: what the rows say now, of the superseded ones too.
Existing == label
\* merge_web_fields: the label's value of a label-visible field stands.
\* Mutant: the web value replaces it.
MergeWeb(p) ==
  [f \in Existing \cup OffFields(p) \cup JinaFields(p) |->
     IF f \in OffFields(p) THEN "off" ELSE IF f \in JinaFields(p) THEN "jina" ELSE "label"]
Merge(p) ==
  [f \in Existing \cup OffFields(p) \cup JinaFields(p) |->
     IF f \in Existing THEN "label" ELSE IF f \in OffFields(p) THEN "off" ELSE "jina"]
Propose(p) ==
  /\ press[p].pc = "propose" /\ To(p, "done")
  /\ Keep(p, [shop[p] EXCEPT !.proposed = TRUE]) /\ candidate' = [candidate EXCEPT ![p] = Merge(p)]
  /\ UNCHANGED <<world, ledger, event, sent, decisionVars>>

\* The process dies, or the request does.
Dies(p) == /\ press[p].pc \notin {"idle", "done", "dead"} /\ To(p, "dead")
           /\ UNCHANGED <<world, ledger, event, shop, candidate, sent, decisionVars>>
-----------------------------------------------------------------------------
\* Confirm and dismiss read the status, then write whatever it has become.
\* Mutant: a suggestion is decided again.
LookAgain(d, s) == suggestion[s].status # "none"
Pending(d, s) == suggestion[s].status = "pending"
Look(d) ==
  /\ decider[d].pc = "idle"
  /\ \E s \in DOMAIN suggestion, to \in {"confirmed", "dismissed"}, reason \in BOOLEAN :
       /\ Pending(d, s) /\ (reason => to = "dismissed")
       /\ decider' = [decider EXCEPT ![d] = [pc |-> "write", of |-> s, to |-> to, reason |-> reason]]
  /\ UNCHANGED <<world, pressVars, suggestion, correction, said, clashed>>
Decide(d) ==
  /\ decider[d].pc = "write"
  /\ LET s == decider[d].of IN
     /\ suggestion' = [suggestion EXCEPT ![s].status = decider[d].to]
     /\ correction' = IF decider[d].reason THEN correction \cup {s} ELSE correction
     /\ said' = [said EXCEPT ![s] = @ + 1]
     /\ clashed' = IF \E e \in Deciders \ {d} : decider[e].pc = "write" /\ decider[e].of = s
                   THEN clashed \cup {s} ELSE clashed
  /\ decider' = [decider EXCEPT ![d] = [pc |-> "done"]]
  /\ UNCHANGED <<world, pressVars>>
GiveUp(d) == /\ decider[d].pc = "write" /\ decider' = [decider EXCEPT ![d] = [pc |-> "done"]]
             /\ UNCHANGED <<world, pressVars, suggestion, correction, said, clashed>>

\* Meanwhile the household changes, and label facts are asserted: their rows
\* are superseded, never deleted.
Restock == /\ \E t \in scope.things, now \in Shelf : shelf' = [shelf EXCEPT ![t] = now]
           /\ shelf' # shelf
           /\ UNCHANGED <<scope, consent, label, pressVars, decisionVars>>
Assert == /\ \E f \in scope.labels \ label : label' = label \cup {f}
          /\ UNCHANGED <<scope, consent, shelf, pressVars, decisionVars>>

Next == \/ \E p \in scope.presses :
             \/ Refuse(p) \/ Empty(p) \/ Begin(p) \/ Ask(p) \/ RecordError(p)
             \/ LandPlan(p) \/ LandInsight(p) \/ LandAnswer(p) \/ Correct(p)
             \/ FetchOff(p) \/ FetchJina(p) \/ StoreOff(p) \/ StoreJina(p) \/ Charge(p) \/ Propose(p)
             \/ Dies(p)
        \/ \E d \in scope.deciders : Look(d) \/ Decide(d) \/ GiveUp(d)
        \/ Restock \/ Assert
Spec == Init /\ [][Next]_vars
-----------------------------------------------------------------------------
Has(p, c) == \E r \in ledger : r.press = p /\ r.call = c
Good(p) == [press |-> p, call |-> press[p].call, error |-> FALSE] \in ledger
Told(p) == {e \in event : e.press = p /\ e.outcome \in {"ok", "ungrounded"}}
Unpaid(p) == {c \in Calls : <<p, c>> \in sent /\ ~Has(p, c)}

\* Every call that left has its row, but for the last one of a press that has
\* not finished or died; a repair follows a recorded failure; an answer is
\* recorded exactly when its event is told, suggestions stand on such an
\* event, and a charged search on the job that carries it to its household.
AdviceLedgered == \A p \in Presses :
  /\ Unpaid(p) \subseteq {press[p].call}
  /\ press[p].pc \in {"done", "ask", "propose"} => Unpaid(p) = {}
  /\ press[p].call = "repair" => [press |-> p, call |-> "first", error |-> TRUE] \in ledger
  /\ Leaves(p) => (Good(p) <=> Told(p) # {})
  /\ \A c \in Cited : suggestion[<<p, c>>].status # "none" =>
       \E e \in Told(p) : e.outcome = "ok" /\ c \in e.cites
  /\ Has(p, "jina") => shop[p].job /\ shop[p].jina

\* A suggestion is decided once, and has a correction event only when it was
\* dismissed, unless two requests were deciding at the same time.
DecidedOnce == \A s \in DOMAIN suggestion :
  \/ s \in clashed
  \/ said[s] <= 1 /\ (s \in correction => suggestion[s].status = "dismissed")

\* Nothing is offered without its ground: a suggestion refers to an asset the
\* model was shown, an accepted insight cites only statistics it was given,
\* and a field of a web proposal is the label's where the asset had one when the
\* press began, and else from a stored answer, the winner's before Jina's.
Grounded == \A p \in Presses :
  /\ \A c \in Cited : suggestion[<<p, c>>].ref \in press[p].seen \cup {"label"}
  /\ Kind[p] = "insights" =>
       \A e \in event : e.press = p /\ e.outcome = "ok" => e.cites # {} /\ e.cites \subseteq press[p].seen
  /\ shop[p].proposed => \A f \in DOMAIN candidate[p] :
       LET source == candidate[p][f] IN
       /\ f \in press[p].had => source = "label"
       /\ source = "off" => shop[p].off /\ Accepted(p) /\ ~Has(p, "jina")
       /\ source = "jina" => shop[p].jina /\ Has(p, "jina") /\ ~Accepted(p)
=============================================================================
