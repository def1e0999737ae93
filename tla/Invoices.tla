------------------------------ MODULE Invoices ------------------------------
(***************************************************************************)
(* The operational e-invoice table (services/einvoice_readiness.py) and    *)
(* what follows every change of it: the protected mirror that chat         *)
(* searches and the attention snapshots of the buyer.                      *)
(*                                                                         *)
(* A request loads the row when it begins (db.get), commits the columns it *)
(* changed, mirrors the row it has in memory and scores the buyer: four    *)
(* transactions with no lock and no version check, so two requests on one  *)
(* row may overlap.  The session keeps what it loaded (expire_on_commit is *)
(* off): a later step of the same request sees the row as it loaded and    *)
(* changed it.                                                             *)
(***************************************************************************)
EXTENDS AttentionScore

CONSTANTS
    Sessions,      \* requests the server handles at one time
    Records,       \* rows of the table
    Customers,     \* buyers the directory resolves
    NoCustomer,    \* a buyer that no customer matches
    NewRows,       \* what an invoice may be created with: tin, amount, issue, due, buyer
    Edits,         \* what an update may set: functions from columns to values
    Linked,        \* the verified records of every customer
    Terms,         \* default_payment_terms_days
    MaxRequests,   \* bound on the requests that begin
    MaxFailures    \* bound on the requests that die between two commits

\* The columns an invoice is created with or edited, and what each may hold:
\* a TIN is missing, only white space, or given.
Columns == {"tin", "amount", "issue", "due", "buyer"}
Days    == Nat \union {NoDay}
Values  == [tin |-> {"missing", "blank", "given"}, amount |-> Nat, issue |-> Days, due |-> Days,
            buyer |-> Customers \union {NoCustomer}]

ASSUME InvoiceAssumption ==
    /\ NoCustomer \notin Customers
    /\ Terms \in Nat /\ MaxRequests \in Nat /\ MaxFailures \in Nat
    /\ \A new \in NewRows : DOMAIN new = Columns
    /\ \A edit \in Edits : DOMAIN edit \subseteq Columns
    /\ \A set \in NewRows \union Edits : \A column \in DOMAIN set : set[column] \in Values[column]
    /\ DOMAIN Linked = Customers

VARIABLES
    invoice,       \* the rows of einvoice_records
    request,       \* what every session is doing
    mirror,        \* the text of every row in the protected store
    snapshots,     \* customer_attention_snapshots, oldest first
    drafts,        \* the fix request to the supplier of every row
    submissions,   \* "einvoice_submitted" events of every row
    decisions,     \* decisions recorded on the fix request of every row
    begun,         \* requests that began
    failures,      \* requests that died
    contended,     \* rows on which two requests overlapped
    torn,          \* rows committed by a request that died before it mirrored them
    unscored       \* customers a committed change of whose invoices was not scored

invoiceVars == <<invoice, request, mirror, snapshots, drafts, submissions, decisions,
                 begun, failures, contended, torn, unscored>>

NoRow == [status |-> "absent"]
Idle  == [phase |-> "idle"]
NoText == [text |-> "none"]

Exists(i) == invoice[i].status # "absent"

\* What the mirror says of a row: neither the due date nor the payment.
Text(row) == [tin |-> row.tin, buyer |-> row.buyer, issue |-> row.issue,
              amount |-> row.amount, status |-> row.status, uin |-> row.uin]

\* The columns an operation changes in the row it loaded: the only ones
\* that its UPDATE writes.
Changed(new, loaded) ==
    [column \in {c \in DOMAIN new : new[c] # loaded[c]} |-> new[column]]

\* The row with some of its columns set.
Written(row, set) ==
    [column \in DOMAIN row |-> IF column \in DOMAIN set THEN set[column] ELSE row[column]]

HasTin(row) == row.tin = "given"

\* A row without a due date is due when the default terms end.
Created(new) ==
    [tin |-> new.tin, amount |-> new.amount, issue |-> new.issue, buyer |-> new.buyer,
     due |-> IF new.due = NoDay /\ new.issue # NoDay THEN new.issue + Terms ELSE new.due,
     status |-> IF HasTin(new) THEN "pending" ELSE "review", paid |-> FALSE, uin |-> 0]

\* An edit that gives a row in review its TIN makes it pending; one that
\* takes the TIN away leaves the status as it is.
Edited(loaded, edit) ==
    LET row == Written(loaded, edit)
    IN  [row EXCEPT !.status = IF @ = "review" /\ HasTin(row) THEN "pending" ELSE @]

\* How the readiness check classifies a row: a blank TIN counts as one.
Category(row) ==
    CASE row.tin = "missing" -> "critical"
      [] row.tin # "missing" /\ row.buyer = NoCustomer -> "warning"
      [] OTHER -> "passing"

Approved(loaded, uin) == [loaded EXCEPT !.status = "validated", !.uin = uin]

Paid(loaded) == [loaded EXCEPT !.paid = TRUE]

AcceptsApprovalAgain(op, i) ==
    CASE op \in {"update", "sync", "draft"} -> TRUE
      [] op = "approve" -> invoice[i].status # "review"
      [] op = "pay"     -> invoice[i].status = "validated" /\ ~invoice[i].paid
      [] op = "decide"  -> drafts[i] = "draft"

\* The statuses an operation accepts in the row it loaded.
Accepts(op, i) ==
    CASE op \in {"update", "sync", "draft"} -> TRUE
      [] op = "approve" -> invoice[i].status = "pending"
      [] op = "pay"     -> invoice[i].status = "validated" /\ ~invoice[i].paid
      [] op = "decide"  -> drafts[i] = "draft"

InvoiceInit ==
    /\ invoice = [i \in Records |-> NoRow]
    /\ request = [s \in Sessions |-> Idle]
    /\ mirror = [i \in Records |-> NoText]
    /\ snapshots = [c \in Customers |-> <<>>]
    /\ drafts = [i \in Records |-> "none"]
    /\ submissions = [i \in Records |-> 0]
    /\ decisions = [i \in Records |-> 0]
    /\ begun = 0 /\ failures = 0
    /\ contended = {} /\ torn = {} /\ unscored = {}

-----------------------------------------------------------------------------
(* A request begins by loading its row. *)

Busy(i) == \E s \in Sessions : request[s].phase # "idle" /\ request[s].id = i

Begin(s, op, i, edit) ==
    /\ request[s] = Idle /\ Exists(i) /\ begun < MaxRequests
    /\ Accepts(op, i)
    /\ op = "draft" => drafts[i] = "none"     \* one fix request of a row is followed
    /\ request' = [request EXCEPT ![s] = [phase |-> IF op = "sync" THEN "mirror" ELSE "write",
                                          op |-> op, id |-> i, edit |-> edit, row |-> invoice[i]]]
    /\ begun' = begun + 1
    /\ contended' = IF Busy(i) THEN contended \union {i} ELSE contended
    /\ UNCHANGED <<invoice, mirror, snapshots, drafts, submissions, decisions,
                   failures, torn, unscored>>

NoEdit == [column \in {} |-> NoDay]

\* create_record inserts and commits; what follows is as for any change.
Create(s) ==
    /\ request[s] = Idle /\ begun < MaxRequests
    /\ \E new \in NewRows, i \in Records :
        /\ ~Exists(i)
        /\ invoice' = [invoice EXCEPT ![i] = Created(new)]
        /\ request' = [request EXCEPT ![s] = [phase |-> "mirror", op |-> "create", id |-> i,
                                              edit |-> NoEdit, row |-> Created(new)]]
    /\ begun' = begun + 1
    /\ UNCHANGED <<mirror, snapshots, drafts, submissions, decisions, failures,
                   contended, torn, unscored>>

BeginUpdate(s)  == \E i \in Records, edit \in Edits : Begin(s, "update", i, edit)
BeginApprove(s) == \E i \in Records : Begin(s, "approve", i, NoEdit)
BeginPay(s)     == \E i \in Records : Begin(s, "pay", i, NoEdit)
BeginSync(s)    == \E i \in Records : Begin(s, "sync", i, NoEdit)
BeginDraft(s)   == \E i \in Records : Begin(s, "draft", i, NoEdit)
BeginDecide(s)  == \E i \in Records : Begin(s, "decide", i, NoEdit)

(* The request commits, with its workflow event in the same transaction. *)

\* The row the request has in memory after its change.
After(r) ==
    CASE r.op = "update"  -> Edited(r.row, r.edit)
      [] r.op = "approve" -> Approved(r.row, submissions[r.id] + 1)
      [] OTHER            -> Paid(r.row)

FollowingWithoutApproval(op) == IF op \in {"pay", "approve"} THEN "score" ELSE "mirror"

\* A payment is not mirrored: the text does not mention it.
Following(op) == IF op = "pay" THEN "score" ELSE "mirror"

Commit(s) ==
    LET r == request[s]
        new == After(r)
    IN  /\ r.phase = "write" /\ r.op \in {"update", "approve", "pay"}
        /\ invoice' = [invoice EXCEPT ![r.id] = Written(@, Changed(new, r.row))]
        /\ submissions' = IF r.op = "approve" THEN [submissions EXCEPT ![r.id] = @ + 1] ELSE submissions
        /\ request' = [request EXCEPT ![s] = [r EXCEPT !.phase = Following(r.op), !.row = new]]
        \* the customer the invoice is taken from is not scored
        /\ unscored' = unscored \union ({invoice[r.id].buyer} \ {invoice'[r.id].buyer, NoCustomer})
        /\ UNCHANGED <<mirror, snapshots, drafts, decisions, begun, failures, contended, torn>>

CommitDraft(s) ==
    /\ request[s].phase = "write" /\ request[s].op = "draft"
    /\ drafts' = [drafts EXCEPT ![request[s].id] = "draft"]
    /\ request' = [request EXCEPT ![s] = Idle]
    /\ UNCHANGED <<invoice, mirror, snapshots, submissions, decisions, begun, failures,
                   contended, torn, unscored>>

CommitDecision(s) ==
    /\ request[s].phase = "write" /\ request[s].op = "decide"
    /\ \E decision \in {"approved", "rejected"} :
        drafts' = [drafts EXCEPT ![request[s].id] = decision]
    /\ decisions' = [decisions EXCEPT ![request[s].id] = @ + 1]
    /\ request' = [request EXCEPT ![s] = Idle]
    /\ UNCHANGED <<invoice, mirror, snapshots, submissions, begun, failures,
                   contended, torn, unscored>>

(* What follows the commit. *)

\* sync_einvoice_tokenized_content: the row in memory, not the row stored.
Mirror(s) ==
    LET r == request[s]
    IN  /\ r.phase = "mirror"
        /\ mirror' = [mirror EXCEPT ![r.id] = Text(r.row)]
        /\ torn' = torn \ {r.id}
        /\ request' = [request EXCEPT ![s] = IF r.op # "sync" THEN [r EXCEPT !.phase = "score"] ELSE Idle]
        /\ UNCHANGED <<invoice, snapshots, drafts, submissions, decisions, begun, failures,
                       contended, unscored>>

Facts(i, row) == [id |-> i, status |-> row.status, amount |-> row.amount,
                  due |-> row.due, paid |-> row.paid]

InvoicesOf(c) == {i \in Records : Exists(i) /\ invoice[i].buyer = c}

\* What a score of customer c is calculated from.
Input(c) == {Facts(i, invoice[i]) : i \in InvoicesOf(c)}

\* The same as request r sees it: its own row is the one in memory.
SeenBy(r, c) == {Facts(i, IF i = r.id THEN r.row ELSE invoice[i]) : i \in InvoicesOf(c)}

Snapshot(c, input, now) ==
    LET score == Score(input, Linked[c], now)
    IN  [input |-> input, score |-> score, priority |-> Priority(score)]

RecalculateOnce(c, input, now) ==
    IF \E n \in DOMAIN snapshots[c] :
           {fact.id : fact \in snapshots[c][n].input} = {fact.id : fact \in input}
    THEN UNCHANGED snapshots
    ELSE snapshots' = [snapshots EXCEPT ![c] = Append(@, Snapshot(c, input, now))]

\* recalculate_customer_attention: an input that was scored before is not
\* scored again, whatever was scored in between.
Recalculate(c, input, now) ==
    IF \E n \in DOMAIN snapshots[c] : snapshots[c][n].input = input
    THEN UNCHANGED snapshots
    ELSE snapshots' = [snapshots EXCEPT ![c] = Append(@, Snapshot(c, input, now))]

RecalculateAttention(s, now) ==
    LET r == request[s]
        c == r.row.buyer
    IN  /\ r.phase = "score"
        /\ IF c = NoCustomer
           THEN UNCHANGED <<snapshots, unscored>>
           ELSE /\ Recalculate(c, SeenBy(r, c), now)
                /\ unscored' = unscored \ {c}
        /\ request' = [request EXCEPT ![s] = Idle]
        /\ UNCHANGED <<invoice, mirror, drafts, submissions, decisions, begun, failures,
                       contended, torn>>

\* An exception or the end of the process: what is committed stays.
Fail(s) ==
    LET r == request[s]
    IN  /\ r.phase # "idle" /\ failures < MaxFailures
        /\ failures' = failures + 1
        /\ torn' = IF r.phase = "mirror" /\ r.op # "sync" THEN torn \union {r.id} ELSE torn
        /\ unscored' = IF r.phase \in {"mirror", "score"} /\ r.op # "sync"
                       THEN unscored \union ({r.row.buyer} \ {NoCustomer}) ELSE unscored
        /\ request' = [request EXCEPT ![s] = Idle]
        /\ UNCHANGED <<invoice, mirror, snapshots, drafts, submissions, decisions, begun, contended>>

InvoiceNext(now) ==
    \E s \in Sessions :
        \/ Create(s) \/ BeginUpdate(s) \/ BeginApprove(s) \/ BeginPay(s)
        \/ BeginSync(s) \/ BeginDraft(s) \/ BeginDecide(s)
        \/ Commit(s) \/ CommitDraft(s) \/ CommitDecision(s) \/ Mirror(s) \/ RecalculateAttention(s, now) \/ Fail(s)

-----------------------------------------------------------------------------

Calm == Records \ contended

\* Requests that do not overlap submit an invoice at most once, record at
\* most one decision on its fix request, and never take a submitted or a
\* paid invoice back (approve_record, update_record, mark_invoice_paid and
\* decide_outreach all check the row they loaded and lock nothing); and a
\* row that waits for review is one the readiness check calls critical,
\* unless its TIN is blank.
SubmittedOnce ==
    \A i \in Calm :
        /\ submissions[i] <= 1 /\ decisions[i] <= 1
        /\ Exists(i) => /\ invoice[i].status = "validated" <=> submissions[i] = 1
                        /\ invoice[i].paid => invoice[i].status = "validated"
                        /\ invoice[i].status = "review" /\ invoice[i].tin # "blank"
                               => Category(invoice[i]) = "critical"
        /\ drafts[i] \in {"approved", "rejected"} <=> decisions[i] = 1

\* What chat cites about an invoice is what the table holds, once the
\* request that changed it has mirrored it, unless requests overlapped on
\* it or the last one died in between.
MirrorCurrent ==
    \A i \in Calm \ torn :
        \/ ~Exists(i)
        \/ \E s \in Sessions : request[s].phase = "mirror" /\ request[s].id = i
        \/ mirror[i] = Text(invoice[i])

\* Once the requests on the invoices of a customer are through, what the
\* customer owes has been scored, unless the last change took an invoice
\* away from the customer or its request died.
AttentionCurrent ==
    \A c \in Customers \ unscored :
        \/ InvoicesOf(c) = {}
        \/ \E s \in Sessions : request[s].phase \in {"mirror", "score"} /\ request[s].row.buyer = c
        \/ InvoicesOf(c) \cap contended # {}
        \/ \E n \in DOMAIN snapshots[c] : snapshots[c][n].input = Input(c)
=============================================================================
