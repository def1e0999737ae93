------------------------- MODULE MCRecommendations -------------------------
(* Instances of Recommendations for TLC.                                   *)
EXTENDS Recommendations

CONSTANTS r1, r2, a1

MCEvidence == {<<r1>>}
MCBriefs == {a1 :> {1}}
MCReady == <<[id |-> r1, category |-> "late", system |-> "email", urgent |-> TRUE],
              [id |-> r2, category |-> "late", system |-> "telegram", urgent |-> TRUE]>>
MCSymmetry == Permutations(Visitors) \union Permutations(Officers)
=============================================================================
