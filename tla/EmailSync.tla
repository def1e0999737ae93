------------------------------ MODULE EmailSync ------------------------------
(***************************************************************************)
(* Synchronization of the mailbox (email_connector/service.py): a durable  *)
(* cursor over UIDs, a durable receipt per message, and stages after the   *)
(* receipt that commit one by one.  The email worker synchronizes in a     *)
(* loop; POST /integrations/email/sync does the same in a request, with no *)
(* lock between the two.                                                   *)
(*                                                                         *)
(* Left out: what a message says, enrichment after the content is stored   *)
(* (it never fails a message), the status row, and correlation, which is   *)
(* the matter of OutreachDelivery.                                         *)
(***************************************************************************)
EXTENDS Naturals, FiniteSets, FiniteSetsExt

CONSTANTS
    MaxUid,        \* bound: messages that arrive
    BatchSize,     \* email_max_messages_per_sync
    Worker,        \* email_connector.runner
    Requests,      \* threads serving the sync endpoint
    MaxFailures,   \* bound: exceptions met
    MaxCrashes     \* bound: processes killed in the middle of something

Uids == 1..MaxUid
Syncers == Requests \cup {Worker}

ASSUME BoundsAssumption == {MaxUid, MaxFailures, MaxCrashes} \subseteq Nat
ASSUME BatchSizeAssumption == BatchSize \in Nat \ {0}

VARIABLES
    arrived,     \* the last UID the mailbox has given
    read,        \* messages a person has opened
    cursor,      \* email_sync_state.last_uid
    receipt,     \* email_ingestion_receipts.status
    ingested,    \* how often each message was stored as protected content
    routed,      \* receipts with a customer_id
    routable,    \* messages whose sender has an endpoint that may be used
    sync,        \* where each synchronization is
    failures,
    crashes

mailbox == <<arrived, read>>
store == <<receipt, ingested, routed>>
bounds == <<failures, crashes>>
vars == <<mailbox, cursor, store, routable, sync, bounds>>

\* base is the last_uid the session holds, Expired after a rollback; last is
\* the cursor to write, todo what is left of the backlog or of the batch.
Expired == MaxUid + 1
NoSync == [pc |-> "idle", base |-> 0, last |-> 0, todo |-> {}]
Sync == [pc : {"idle", "backlog", "examine", "received", "ingested", "route", "close"},
         base : 0..Expired, last : 0..MaxUid, todo : SUBSET Uids]

TypeOK ==
    /\ arrived \in 0..MaxUid
    /\ read \subseteq 1..arrived
    /\ cursor \in 0..arrived
    /\ receipt \in [Uids -> {"none", "received", "protected"}]
    /\ ingested \in [Uids -> Nat]
    /\ routed \subseteq {u \in Uids : ingested[u] > 0}
    /\ routable \subseteq Uids
    /\ sync \in [Syncers -> Sync]
    /\ failures \in Nat
    /\ crashes \in Nat

Init ==
    /\ arrived = 0
    /\ read = {}
    /\ cursor = 0
    /\ receipt = [u \in Uids |-> "none"]
    /\ ingested = [u \in Uids |-> 0]
    /\ routed = {}
    /\ routable \in SUBSET Uids
    /\ sync = [p \in Syncers |-> NoSync]
    /\ failures = 0
    /\ crashes = 0

-----------------------------------------------------------------------------
(* What happens around the synchronizations.                               *)

Arrive ==
    /\ arrived < MaxUid
    /\ arrived' = arrived + 1
    /\ UNCHANGED <<read, cursor, store, routable, sync, bounds>>

\* Somebody opens a message in a mail reader.
MarkRead(u) ==
    /\ u \in 1..arrived \ read
    /\ read' = read \cup {u}
    /\ UNCHANGED <<arrived, cursor, store, routable, sync, bounds>>

\* The sender's endpoint is verified, or revoked.
EndpointChanges(u) ==
    /\ routable' = IF u \in routable THEN routable \ {u} ELSE routable \cup {u}
    /\ UNCHANGED <<mailbox, cursor, store, sync, bounds>>

-----------------------------------------------------------------------------
(* The backlog.                                                            *)

\* The first or the last of a set of UIDs, up to the batch size.
Oldest(S) == {u \in S : Cardinality({v \in S : v < u}) < BatchSize}
Newest(S) == {u \in S : Cardinality({v \in S : v > u}) < BatchSize}

Unassigned == {u \in Uids : receipt[u] = "protected"} \ routed

\* sync_mailbox reads the state, and reconcile_unassigned_receipts selects.
StartWith(p, todo) ==
    /\ sync[p].pc = "idle"
    /\ sync' = [sync EXCEPT ![p] = [NoSync EXCEPT !.pc = "backlog", !.base = cursor,
                                                  !.todo = todo]]
    /\ UNCHANGED <<mailbox, cursor, store, routable, bounds>>

\* Mutant: the backlog is not retried.
StartBlindly(p) == StartWith(p, {})

Start(p) == StartWith(p, Newest(Unassigned))

\* Mutant: a customer is given to a receipt without content.
AssignUnlinked(u) == routed' = IF u \in routable THEN routed \cup {u} ELSE routed

\* reconcile_receipt finds the content by the receipt's source_record_id, and
\* gives the receipt a customer when the sender's endpoint allows.
Assign(u) == routed' = IF receipt[u] = "protected" /\ u \in routable
                       THEN routed \cup {u} ELSE routed

\* A failure goes to the next receipt, and the state expires.
Reconcile(p) ==
    /\ sync[p].pc = "backlog" /\ sync[p].todo # {}
    /\ LET u == Max(sync[p].todo)
           rest == [sync[p] EXCEPT !.todo = @ \ {u}]
       IN \/ /\ Assign(u)
             /\ sync' = [sync EXCEPT ![p] = rest]
             /\ UNCHANGED failures
          \/ /\ failures < MaxFailures
             /\ failures' = failures + 1
             /\ sync' = [sync EXCEPT ![p] = [rest EXCEPT !.base = Expired]]
             /\ UNCHANGED routed
    /\ UNCHANGED <<mailbox, cursor, receipt, ingested, routable, crashes>>

-----------------------------------------------------------------------------
(* The mailbox.                                                            *)

SearchAfter(p, skipped) ==
    /\ sync[p].pc = "backlog" /\ sync[p].todo = {}
    /\ LET last == IF sync[p].base = Expired THEN cursor ELSE sync[p].base
       IN sync' = [sync EXCEPT ![p] =
                     [pc |-> "examine", base |-> last, last |-> last,
                      todo |-> Oldest({u \in 1..arrived \ read : u > last + skipped})]]
    /\ UNCHANGED <<mailbox, cursor, store, routable, bounds>>

\* Mutant: the search starts one message late.
SearchLate(p) == SearchAfter(p, 1)

\* Unread messages after the cursor.
Search(p) == SearchAfter(p, 0)

Closing(p) ==
    \/ sync[p].pc = "close"
    \/ sync[p].pc = "examine" /\ sync[p].todo = {}

\* The mailbox cannot be reached, selected or searched, or the commit of the
\* cursor fails: none is written.
Disconnect(p) ==
    /\ \/ Closing(p)
       \/ sync[p].pc = "backlog" /\ sync[p].todo = {}
    /\ failures < MaxFailures
    /\ failures' = failures + 1
    /\ sync' = [sync EXCEPT ![p] = NoSync]
    /\ UNCHANGED <<mailbox, cursor, store, routable, crashes>>

\* The message at hand.
Current(p) == Min(sync[p].todo)

Examining(p) == sync[p].pc = "examine" /\ sync[p].todo # {}

Advance(p) == sync' = [sync EXCEPT ![p] = [sync[p] EXCEPT !.pc = "examine", !.last = Current(p),
                                                          !.todo = @ \ {Current(p)}]]

\* A receipt there is: it is reconciled, which does nothing before the content
\* is linked to it.
Existing(p) ==
    /\ Examining(p)
    /\ receipt[Current(p)] # "none"
    /\ Assign(Current(p))
    /\ Advance(p)
    /\ UNCHANGED <<mailbox, cursor, receipt, ingested, routable, bounds>>

\* Otherwise one is inserted; its primary key admits one inserter.
ReceiveWhen(p, statuses) ==
    /\ Examining(p)
    /\ receipt[Current(p)] \in statuses
    /\ receipt' = [receipt EXCEPT ![Current(p)] = "received"]
    /\ sync' = [sync EXCEPT ![p].pc = "received"]
    /\ UNCHANGED <<mailbox, cursor, ingested, routed, routable, bounds>>

\* Mutant: a receipt that is only "received" is taken over.
ReceiveAgain(p) == ReceiveWhen(p, {"none", "received"})

Receive(p) == ReceiveWhen(p, {"none"})

\* ingest_canonical_record commits the content.
Ingest(p) ==
    /\ sync[p].pc = "received"
    /\ ingested' = [ingested EXCEPT ![Current(p)] = @ + 1]
    /\ sync' = [sync EXCEPT ![p].pc = "ingested"]
    /\ UNCHANGED <<mailbox, cursor, receipt, routed, routable, bounds>>

\* The receipt names the content.
FinishReceipt(p) ==
    /\ sync[p].pc = "ingested"
    /\ receipt' = [receipt EXCEPT ![Current(p)] = "protected"]
    /\ sync' = [sync EXCEPT ![p].pc = "route"]
    /\ UNCHANGED <<mailbox, cursor, ingested, routed, routable, bounds>>

Route(p) ==
    /\ sync[p].pc = "route"
    /\ Assign(Current(p))
    /\ Advance(p)
    /\ UNCHANGED <<mailbox, cursor, receipt, ingested, routable, bounds>>

\* An exception at the message at hand (another inserted its receipt first,
\* for one): the batch ends, without what has been committed being undone.
FailAt(p, last) ==
    /\ Examining(p) \/ sync[p].pc \in {"received", "ingested", "route"}
    /\ failures < MaxFailures
    /\ failures' = failures + 1
    /\ sync' = [sync EXCEPT ![p] = [pc |-> "close", base |-> Expired, last |-> last,
                                    todo |-> {}]]
    /\ \/ UNCHANGED routed
       \/ sync[p].pc \in {"examine", "route"} /\ Assign(Current(p))
    /\ UNCHANGED <<mailbox, cursor, receipt, ingested, routable, crashes>>

\* Mutant: the cursor goes past the message.
FailPast(p) == FailAt(p, Current(p))

Fail(p) == FailAt(p, sync[p].last)

\* The cursor is written as this synchronization left it, whatever another
\* has written; a value the session does not see changed is not sent.
Close(p) ==
    /\ Closing(p)
    /\ cursor' = IF sync[p].last = sync[p].base THEN cursor ELSE sync[p].last
    /\ sync' = [sync EXCEPT ![p] = NoSync]
    /\ UNCHANGED <<mailbox, store, routable, bounds>>

Crash(p) ==
    /\ sync[p].pc # "idle"
    /\ crashes < MaxCrashes
    /\ crashes' = crashes + 1
    /\ sync' = [sync EXCEPT ![p] = NoSync]
    /\ UNCHANGED <<mailbox, cursor, store, routable, failures>>

-----------------------------------------------------------------------------
Step(p) ==
    \/ Start(p) \/ Reconcile(p) \/ Search(p)
    \/ Existing(p) \/ Receive(p) \/ Ingest(p) \/ FinishReceipt(p) \/ Route(p)
    \/ Close(p)

Next ==
    \/ Arrive
    \/ \E u \in Uids : MarkRead(u) \/ EndpointChanges(u)
    \/ \E p \in Syncers : Step(p) \/ Disconnect(p) \/ Fail(p) \/ Crash(p)

Spec == Init /\ [][Next]_vars

\* The worker synchronizes every email_sync_interval_seconds and is restarted
\* when it dies; a request is made or not, but one that is made goes on.
Fairness ==
    /\ WF_vars(Step(Worker))
    /\ \A p \in Requests : WF_vars(sync[p].pc # "idle" /\ Step(p))

FairSpec == Spec /\ Fairness

-----------------------------------------------------------------------------
(* Properties.                                                             *)

\* "Idempotent by construction - no duplicates across restarts and re-syncs":
\* a message is stored once, whoever synchronizes it and wherever it stops.
IngestedOnce == \A u \in Uids : ingested[u] <= 1

\* The search never looks behind the cursor again: what lies there and was not
\* read by a person has a receipt, however two synchronizations write it.
CursorExamined == \A u \in 1..cursor : u \in read \/ receipt[u] # "none"

\* "The cursor must never pass a failed delivery": what lies behind it is
\* stored, unless somebody read it first or is at it.
CursorPassesIngested ==
    \A u \in 1..cursor :
        \/ u \in read
        \/ ingested[u] > 0
        \/ \E p \in Syncers : sync[p].pc = "received" /\ Current(p) = u

\* What synchronization promises of the mailbox: a message that is met is stored
\* once and filed, and never given back; only what was filed gets a customer,
\* and the cursor passes only what was met or opened.  See Mailbox.
Box == INSTANCE Mailbox WITH Messages <- Uids, opened <- read, stage <- receipt,
                             copies <- ingested, owned <- routed, passed <- cursor
MailboxSpec == Box!Spec

\* An unread message is met, sooner or later.
UnreadExamined ==
    \A u \in Uids : arrived >= u ~> u \in read \/ receipt[u] # "none"

\* "Existing receipts must be reconciled, not blindly skipped": a receipt
\* within reach of a bounded retry does not stay without a customer once the
\* endpoint of its sender may be used.
BacklogServed ==
    \A u \in Uids : []<>~(u \in Newest(Unassigned) /\ u \in routable)
=============================================================================
