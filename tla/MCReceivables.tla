---------------------------- MODULE MCReceivables ----------------------------
(* Instances of Receivables for TLC.                                       *)
EXTENDS Receivables, TLC

CONSTANTS c1, c2

MCNewRows ==
    {[tin |-> "given", amount |-> 5000, issue |-> 69, due |-> NoDay, buyer |-> c1],
     [tin |-> "blank", amount |-> 900, issue |-> 90, due |-> 70, buyer |-> c2]}

MCEdits == {[tin |-> "given"], [tin |-> "missing"], [amount |-> 10000], [buyer |-> c2, due |-> NoDay]}

MCLinked ==
    (c1 :> <<[action |-> TRUE, high |-> TRUE, day |-> 9], [action |-> FALSE, high |-> FALSE, day |-> NoDay]>>)
        @@ (c2 :> <<>>)

\* A slow pace with one reminder, and a daily one with two.
MCSettings == {[enabled |-> TRUE, grace |-> 0, repeat |-> 2, max |-> 1, approval |-> TRUE],
               [enabled |-> TRUE, grace |-> 0, repeat |-> 1, max |-> 2, approval |-> FALSE]}
Symmetry == Permutations(Sessions) \cup Permutations(Savers)
=============================================================================
