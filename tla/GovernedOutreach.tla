-------------------------- MODULE GovernedOutreach --------------------------
(***************************************************************************)
(* What governed outreach promises of an action, with no requests, workers *)
(* or mailboxes: an owner grants it or somebody refuses it, for good; only *)
(* what was granted is given to the customer, and once; and what the firm  *)
(* is told of it is true, or says that it is not known.                    *)
(***************************************************************************)
EXTENDS Naturals

CONSTANT Actions

VARIABLES
    granted,   \* the actions an owner approved
    given,     \* how often the customer was given each
    told       \* what the firm is told became of each

vars == <<granted, given, told>>

Init ==
    /\ granted = {}
    /\ given = [a \in Actions |-> 0]
    /\ told = [a \in Actions |-> "nothing"]

Undecided(a) == a \notin granted /\ told[a] = "nothing"

Grant(a) ==
    /\ Undecided(a)
    /\ granted' = granted \cup {a}
    /\ UNCHANGED <<given, told>>

Refuse(a) ==
    /\ Undecided(a)
    /\ told' = [told EXCEPT ![a] = "refused"]
    /\ UNCHANGED <<granted, given>>

\* Somebody may still be at work after the firm was told that nothing is
\* known of the action, but not after it was told anything else.
Give(a) ==
    /\ a \in granted /\ given[a] = 0 /\ told[a] \in {"nothing", "unknown"}
    /\ given' = [given EXCEPT ![a] = 1]
    /\ UNCHANGED <<granted, told>>

Tell(a, what) ==
    /\ a \in granted
    /\ what \in {"sent", "replied"} => given[a] = 1
    /\ what = "withheld" => given[a] = 0
    /\ told' = [told EXCEPT ![a] = what]
    /\ UNCHANGED <<granted, given>>

Next ==
    \E a \in Actions :
        \/ Grant(a) \/ Refuse(a) \/ Give(a)
        \/ \E what \in {"sent", "replied", "withheld", "unknown"} : Tell(a, what)

Spec == Init /\ [][Next]_vars
=============================================================================
