------------------------------- MODULE MCAdvice -------------------------------
(***************************************************************************)
(* An instance of Advice: a planning pass and two requests that decide on  *)
(* its suggestions, insights beside a chat, and two enrichments.           *)
(***************************************************************************)
EXTENDS Advice

MCPresses == {"plan", "insight", "chat", "enrich", "again"}
MCKind == [plan |-> "planning", insight |-> "insights", chat |-> "chat",
           enrich |-> "enrich", again |-> "enrich"]
MCThings == {"milk", "eggs"}
MCDeciders == {1, 2}
P(b, c, u, r, f) == [brand |-> b, common |-> c, union |-> u, romania |-> r, category |-> FALSE,
                     fields |-> f]
Right == P(2, 2, 3, TRUE, WebFields)
Close == P(2, 2, 4, TRUE, {"display_name"})
Wrong == P(0, 1, 4, TRUE, {"display_name", "brand"})
MCOffAnswers == {<<Right>>, <<Wrong, Right>>, <<Right, Close>>, <<Wrong>>}
MCScopes ==
  {[presses |-> {"plan"}, deciders |-> {1, 2}, things |-> {"milk"}, labels |-> {}],
   [presses |-> {"plan"}, deciders |-> {1}, things |-> {"milk", "eggs"}, labels |-> {}],
   [presses |-> {"plan", "chat"}, deciders |-> {}, things |-> {"milk"}, labels |-> {}],
   [presses |-> {"insight", "chat"}, deciders |-> {}, things |-> {"milk"}, labels |-> {}],
   [presses |-> {"enrich"}, deciders |-> {}, things |-> {}, labels |-> WebFields],
   [presses |-> {"enrich", "again"}, deciders |-> {}, things |-> {}, labels |-> {"brand"}]}
=============================================================================
