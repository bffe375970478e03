---------------------------- MODULE MCScenePilot ----------------------------
\* Five photos, the largest one used before the pilot; an account that pays with
\* credits and one that pays with the owner's key.
EXTENDS ScenePilot

AllScripts == {"sg158", "sg159", "sg166", "sg217", "sg218", "sg219", "sg220",
               "sg223", "sg225", "sg226"}
\* Three sends of runs that do not overlap, and two sends of two runs that may.
Credits == [byok |-> FALSE, cap |-> 2]
MoreCredits == [byok |-> FALSE, cap |-> 3]
OwnKey == [byok |-> TRUE, cap |-> 2]
Behaviour(a, scripts, runs, n) ==
  [byok |-> a.byok, cap |-> a.cap, scripts |-> scripts, runs |-> runs, posts |-> n]
Serial == {Behaviour(a, scripts, 1, 3) : a \in {Credits, MoreCredits, OwnKey},
             scripts \in {{"sg158", "sg217", "sg225"}, {"sg159", "sg219", "sg220"}, {"sg166", "sg223"}, {"sg218", "sg226"}}}
          \cup {Behaviour(OwnKey, {"sg219", "sg220", "sg223"}, 1, 3)}
Overlapping == {Behaviour(OwnKey, scripts, 2, 2) :
             scripts \in {{"sg159", "sg219"}, {"sg223", "sg226"}, {"sg218", "sg225"}}}
Variants == Serial \cup Overlapping
FivePhotos == 0..4
OldPhoto == {0}
TwoUploads == {1, 4}
\* The photos 3 and 4 show one product.
Products == [p \in FivePhotos |-> IF p = 3 THEN 4 ELSE p]
TwoBriefs == {"scene", "cutout"}
=============================================================================
