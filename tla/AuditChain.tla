----------------------------- MODULE AuditChain -----------------------------
(***************************************************************************)
(* The hash chains of services/workflow_audit.py and services/audit.py.    *)
(* A row has the hash of the row before it and its own, of its event and   *)
(* the former; the digest is taken as collision free, so the hash of a row *)
(* is the list of the events it stands for.                                *)
(***************************************************************************)
EXTENDS Integers, Sequences, FiniteSets

Genesis == <<>>

Hash(previous, event) == Append(previous, event)

Entry(id, previous, event) ==
    [id |-> id, prev |-> previous, hash |-> Hash(previous, event), event |-> event]

\* The rows in the order of their ids, which is the order of their flushes.
InOrder(rows) ==
    [n \in 1 .. Cardinality(rows) |->
        CHOOSE a \in rows : Cardinality({b \in rows : b.id <= a.id}) = n]

ChainTail(rows) == IF rows = {} THEN Genesis ELSE (CHOOSE a \in rows : \A b \in rows : b.id <= a.id).hash

Verifies(rows) ==
    LET chain == InOrder(rows)
        Before(n) == IF n = 1 THEN Genesis ELSE chain[n - 1].hash
    IN  \A n \in DOMAIN chain :
            chain[n].prev = Before(n) /\ chain[n].hash = Hash(Before(n), chain[n].event)

\* A tail that was anchored is looked up by its hash.
StillPresent(anchor, rows) == anchor = Genesis \/ \E row \in rows : row.hash = anchor

Events(rows) ==
    LET chain == InOrder(rows)
    IN  [n \in DOMAIN chain |-> chain[n].event]
=============================================================================
