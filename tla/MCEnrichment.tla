---------------------------- MODULE MCEnrichment ----------------------------
(* Instances of Enrichment for TLC.                                        *)
EXTENDS Enrichment, TLC

CONSTANTS r1, r2, x, y, t1, t2, c1, f1, f2

MCTokens == (x :> {t1}) @@ (y :> {t2})
MCAlias == c1 :> t1
MCEarlier == r2 :> x
MCLines ==
    (f1 :> <<[id |-> r1, content |-> x, sound |-> TRUE], [id |-> r2, content |-> y, sound |-> TRUE]>>)
        @@ (f2 :> <<[id |-> r1, content |-> y, sound |-> TRUE], [id |-> r1, content |-> x, sound |-> TRUE],
                    [id |-> r2, content |-> y, sound |-> FALSE]>>)
MCDeployments == {[keys |-> {"morpheus", "gemini"}, offline |-> FALSE], [keys |-> {"gemini"}, offline |-> TRUE]}
=============================================================================
