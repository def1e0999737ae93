-------------------------- MODULE DecisionJournal --------------------------
(***************************************************************************)
(* What the workflow promises of recommendations, with no sessions, locks, *)
(* rollbacks or hashes: whatever is proposed or decided is in the journal  *)
(* in the same step, the journal only grows, nothing is proposed twice,    *)
(* and a decision stands on something the journal says of what it decides. *)
(***************************************************************************)
EXTENDS Naturals, Sequences

VARIABLES
    journal,   \* what happened, in its order: a resource and its new status
    status     \* the status of every resource that was proposed

vars == <<journal, status>>

Init == journal = <<>> /\ status = <<>>

Event(resource, new) == [resource |-> resource, status |-> new]

\* The event is written and takes effect, at one time.
Record(f, new) ==
    /\ status' = [g \in DOMAIN status \cup {f} |-> IF g = f THEN new ELSE status[g]]
    /\ journal' = Append(journal, Event(f, new))

Propose(f) == f \notin DOMAIN status /\ Record(f, "proposed")

Permits(old) ==
    CASE old = "proposed" -> {"approved", "rejected"}
      [] old = "approved" -> {"implemented"}
      [] OTHER            -> {}

\* Two that decide at one time each saw the status before either decision, so
\* it need not be the last.
Decide(f, decision) ==
    /\ Record(f, decision)
    /\ \E n \in DOMAIN journal :
           journal[n].resource = f /\ decision \in Permits(journal[n].status)

\* A step is about a resource that has a status after it.
Next ==
    \E f \in DOMAIN status' :
        Propose(f) \/ \E decision \in {"approved", "rejected", "implemented"} : Decide(f, decision)

Spec == Init /\ [][Next]_vars
=============================================================================
