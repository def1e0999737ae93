------------------------------ MODULE Mailbox ------------------------------
(***************************************************************************)
(* What synchronization promises of a mailbox, with no sessions, batches,  *)
(* failures or crashes: a message that is met is stored once and is not    *)
(* given back, a customer is given only to what was stored and filed, and  *)
(* the mailbox is passed only where every message was met or opened.       *)
(***************************************************************************)
EXTENDS Naturals

CONSTANT Messages

VARIABLES
    arrived,   \* the last message the mailbox has given
    opened,    \* messages a person has opened
    stage,     \* how far each message has come
    copies,    \* how often each was stored
    owned,     \* messages that have a customer
    passed     \* the last message that need not be looked for

vars == <<arrived, opened, stage, copies, owned, passed>>

Init ==
    /\ arrived = 0 /\ passed = 0
    /\ opened = {} /\ owned = {}
    /\ stage = [u \in Messages |-> "none"]
    /\ copies = [u \in Messages |-> 0]

Arrive ==
    /\ arrived' = arrived + 1
    /\ UNCHANGED <<opened, stage, copies, owned, passed>>

Open(u) ==
    /\ u \in 1..arrived
    /\ opened' = opened \cup {u}
    /\ UNCHANGED <<arrived, stage, copies, owned, passed>>

Meet(u) ==
    /\ u \in 1..arrived /\ stage[u] = "none"
    /\ stage' = [stage EXCEPT ![u] = "received"]
    /\ UNCHANGED <<arrived, opened, copies, owned, passed>>

Store(u) ==
    /\ stage[u] = "received" /\ copies[u] = 0
    /\ copies' = [copies EXCEPT ![u] = 1]
    /\ UNCHANGED <<arrived, opened, stage, owned, passed>>

File(u) ==
    /\ stage[u] = "received" /\ copies[u] = 1
    /\ stage' = [stage EXCEPT ![u] = "protected"]
    /\ UNCHANGED <<arrived, opened, copies, owned, passed>>

Own(u) ==
    /\ stage[u] = "protected"
    /\ owned' = owned \cup {u}
    /\ UNCHANGED <<arrived, opened, stage, copies, passed>>

\* Sessions that pass the mailbox each for itself may also go back.
Pass(n) ==
    /\ \A u \in 1..n : u \in opened \/ stage[u] # "none"
    /\ passed' = n
    /\ UNCHANGED <<arrived, opened, stage, copies, owned>>

Next ==
    \/ Arrive
    \/ \E u \in Messages : Open(u) \/ Meet(u) \/ Store(u) \/ File(u) \/ Own(u)
    \/ \E n \in 0..arrived : Pass(n)

Spec == Init /\ [][Next]_vars
=============================================================================
