---------------------------- MODULE EnrichScoring ----------------------------
(***************************************************************************)
(* How a web enrichment chooses among the products Open Food Facts         *)
(* returned: a score per product out of brand, name and context, a bar for *)
(* the best and a margin over the second.  Scores are in hundredths; a     *)
(* name score is a fraction, so every comparison is multiplied out.        *)
(***************************************************************************)
EXTENDS Integers, Sequences

\* What the score tells apart of a product: whether its brand contains the
\* brand of the asset (2) or is one or two letters off (1), the words its
\* name shares with that of the asset out of the words of both, its country
\* and its category; and the fields the answer carries for it.
WebFields == {"display_name", "identifier", "brand"}
Product == [brand : 0..2, common : Nat, union : Nat \ {0}, romania : BOOLEAN,
            category : BOOLEAN, fields : SUBSET WebFields]

BrandPoints(p) == 20 * p.brand
ContextPoints(p) == (IF p.romania THEN 10 ELSE 0) + (IF p.category THEN 5 ELSE 0)
\* score_candidate, times a hundred and the words of both names.
Points(p) == 40 * p.common + (BrandPoints(p) + ContextPoints(p)) * p.union

\* The score of p over that of q, times a hundred and both numbers of words.
Lead(p, q) == Points(p) * q.union - Points(q) * p.union
Enough(p) == Points(p) >= 60 * p.union
Beats(p, q) == Lead(p, q) >= 15 * (p.union * q.union)

\* decide: the first of the ranking, accepted only above the bar and with the
\* margin over all that follow.  Equal scores are ranked by their code, which
\* is the CHOOSE: they never have the margin.
Top(ps) == CHOOSE i \in DOMAIN ps : \A j \in DOMAIN ps : Lead(ps[i], ps[j]) >= 0
Decision(ps) ==
  IF ps = <<>> THEN "no_candidates"
  ELSE IF ~Enough(ps[Top(ps)]) THEN "below_threshold"
  ELSE IF \E j \in DOMAIN ps \ {Top(ps)} : ~Beats(ps[Top(ps)], ps[j]) THEN "ambiguous"
  ELSE "accepted"
=============================================================================
