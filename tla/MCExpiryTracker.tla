--------------------------- MODULE MCExpiryTracker ---------------------------
(***************************************************************************)
(* An instance of ExpiryTracker: two requests at once on one asset, or one *)
(* request and the daily pass on two assets of two households.             *)
(***************************************************************************)
EXTENDS ExpiryTracker

MCAssets == {"a1", "a2"}
MCOrigins == {"o1"}
MCSharesEvidence == {<<"a1", "o1">>}
MCHome == [a1 |-> 1, a2 |-> 2]
MCDates == {"soon", "last"}
MCDay == [soon |-> 7, last |-> 0]   \* the edge of a window; the first day, past on the next
MCObserved == [a1 |-> "soon", a2 |-> "none"]
MCSessions == {1, 2}
MCLastDay == 1
MCScopes ==
  {[sessions |-> 2, assets |-> {"a1"}, days |-> 0, rows |-> 5,
    categories |-> {"cosmetics_personal_care", "documents_other", "non_perishable"}],
   [sessions |-> 1, assets |-> {"a1", "a2"}, days |-> 1, rows |-> 4,
    categories |-> {"food_beverages", "documents_other"}]}
=============================================================================
