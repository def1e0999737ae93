-------------------------- MODULE OutreachDelivery --------------------------
(***************************************************************************)
(* Governed customer outreach: the life of an action from draft to reply.  *)
(* Requests of managers and owners (services/outreach.py), the email and   *)
(* the Telegram sender (email_connector/sender.py, telegram/sender.py) and *)
(* reply correlation (email_connector/correlation.py) all write the same   *)
(* row.                                                                    *)
(*                                                                         *)
(* Approvals are compare-and-swap updates; an edit, the result of a send,  *)
(* a recovery and a correlated reply are written whatever the row holds by *)
(* then.  Protection, evidence, audit events and the composing of messages *)
(* are left out; an idempotency key is the action itself.                  *)
(***************************************************************************)
EXTENDS Naturals, Sequences

CONSTANTS
    Actions,           \* idempotency keys of outreach actions
    Texts,             \* protected subjects and bodies
    Users,             \* managers and owners at work
    Owners,            \* those with the owner_director role
    EmailWorkers,      \* email_connector.runner processes
    TelegramWorkers,   \* telegram.runner processes
    MaxCrashes         \* bound: workers killed in the middle of something

Workers == EmailWorkers \cup TelegramWorkers

ASSUME OwnersAssumption == Owners \subseteq Users
ASSUME WorkersAssumption == EmailWorkers \cap TelegramWorkers = {}
ASSUME CrashesAssumption == MaxCrashes \in Nat

VARIABLES
    status,      \* outreach_actions.status, "absent" before the row exists
    channel,     \* outreach_actions.channel
    text,        \* outreach_actions.protected_subject and protected_body
    approved,    \* history: the text the owner approved, or NoText
    delivered,   \* history: the texts the provider took for the customer
    eligible,    \* endpoint verified, customer confirmed and review clear?
    stale,       \* send_started_at before the cutoff of recover_stale_sends?
    req,         \* the request each user has in progress
    worker,      \* where each worker is
    mail,        \* answers to the message, and whether they were synchronized
    match,       \* the action correlate_reply has read, or NoMatch
    correlated,  \* actions with a receipt correlated to them
    crashes

rows == <<status, channel, text, approved, stale>>
inbox == <<mail, match, correlated>>
vars == <<rows, delivered, eligible, req, worker, inbox, crashes>>

NoText == "no text"
NoMatch == "no match"
ASSUME NoTextAssumption == NoText \notin Texts
ASSUME NoMatchAssumption == NoMatch \notin Actions

NoReq == [op |-> "none"]
Idle == [pc |-> "idle"]

Statuses == {"absent", "draft", "pending_approval", "approved", "sending", "sent", "failed",
             "delivery_unknown", "replied", "rejected", "cancelled"}
Channels == {"email", "telegram"}
Results == {"sent", "failed", "delivery_unknown", "cancelled"}
Senders == {"customer", "stranger"}

Edits == [op : {"edit"}, action : Actions, text : Texts]
Moves == [op : {"submit", "approve"}, action : Actions]
Sending == [pc : {"claimed", "ready"}, action : Actions, text : Texts]
Recording == [pc : {"recording"}, action : Actions, result : Results]
Recovering == [pc : {"recovering"}, todo : SUBSET Actions]

TypeOK ==
    /\ status \in [Actions -> Statuses]
    /\ channel \in [Actions -> Channels]
    /\ text \in [Actions -> Texts \cup {NoText}]
    /\ approved \in [Actions -> Texts \cup {NoText}]
    /\ delivered \in [Actions -> Seq(Texts)]
    /\ eligible \in [Actions -> BOOLEAN]
    /\ stale \in [Actions -> BOOLEAN]
    /\ req \in [Users -> Edits \cup Moves \cup {NoReq}]
    /\ worker \in [Workers -> Sending \cup Recording \cup Recovering \cup {Idle}]
    /\ mail \in [Actions -> [Senders -> {"none", "waiting", "synced"}]]
    /\ match \in Actions \cup {NoMatch}
    /\ correlated \subseteq Actions
    /\ crashes \in Nat

Init ==
    /\ status = [a \in Actions |-> "absent"]
    /\ channel = [a \in Actions |-> "email"]
    /\ text = [a \in Actions |-> NoText]
    /\ approved = [a \in Actions |-> NoText]
    /\ delivered = [a \in Actions |-> <<>>]
    /\ eligible = [a \in Actions |-> TRUE]
    /\ stale = [a \in Actions |-> FALSE]
    /\ req = [u \in Users |-> NoReq]
    /\ worker = [w \in Workers |-> Idle]
    /\ mail = [a \in Actions |-> [s \in Senders |-> "none"]]
    /\ match = NoMatch
    /\ correlated = {}
    /\ crashes = 0

-----------------------------------------------------------------------------
(* Requests.                                                               *)

\* create_action and generate_action.
Create(a, c, t) ==
    /\ status[a] = "absent"
    /\ status' = [status EXCEPT ![a] = "draft"]
    /\ channel' = [channel EXCEPT ![a] = c]
    /\ text' = [text EXCEPT ![a] = t]
    /\ UNCHANGED <<approved, stale, delivered, eligible, req, worker, inbox, crashes>>

\* An endpoint is revoked or verified, an identity claim raised or resolved.
EligibilityChanges(a) ==
    /\ eligible' = [eligible EXCEPT ![a] = ~@]
    /\ UNCHANGED <<rows, delivered, req, worker, inbox, crashes>>

\* update_draft checks the status, then protects the new text.
BeginEdit(u, a, t) ==
    /\ req[u] = NoReq
    /\ status[a] = "draft"
    /\ req' = [req EXCEPT ![u] = [op |-> "edit", action |-> a, text |-> t]]
    /\ UNCHANGED <<rows, delivered, eligible, worker, inbox, crashes>>

\* The rows a user may leave behind by the row-level security of PostgreSQL.
MayLeave(u, leaving) == u \in Owners \/ leaving \in {"pending_approval", "cancelled"}

\* The commit names the row by its primary key only.
FinishEdit(u) ==
    /\ req[u].op = "edit"
    /\ MayLeave(u, status[req[u].action])
    /\ text' = [text EXCEPT ![req[u].action] = req[u].text]
    /\ req' = [req EXCEPT ![u] = NoReq]
    /\ UNCHANGED <<status, channel, approved, stale, delivered, eligible, worker, inbox, crashes>>

\* transition_action, submit and approve: endpoint and customer are validated
\* before the update.
BeginMove(u, op, a) ==
    /\ req[u] = NoReq
    /\ status[a] # "absent"
    /\ op = "approve" => u \in Owners
    /\ eligible[a]
    /\ req' = [req EXCEPT ![u] = [op |-> op, action |-> a]]
    /\ UNCHANGED <<rows, delivered, eligible, worker, inbox, crashes>>

FinishSubmit(u) ==
    /\ req[u].op = "submit"
    /\ status[req[u].action] = "draft"
    /\ status' = [status EXCEPT ![req[u].action] = "pending_approval"]
    /\ req' = [req EXCEPT ![u] = NoReq]
    /\ UNCHANGED <<channel, text, approved, stale, delivered, eligible, worker, inbox, crashes>>

Approve(u, allowed) ==
    /\ req[u].op = "approve"
    /\ status[req[u].action] \in allowed
    /\ status' = [status EXCEPT ![req[u].action] = "approved"]
    /\ approved' = [approved EXCEPT ![req[u].action] = text[req[u].action]]
    /\ req' = [req EXCEPT ![u] = NoReq]
    /\ UNCHANGED <<channel, text, stale, delivered, eligible, worker, inbox, crashes>>

\* Mutant: the update names no expected status.
ApproveBlind(u) == Approve(u, Statuses)

FinishApprove(u) == Approve(u, {"pending_approval"})

\* The update matched no row or is not allowed, or the request dies.
Abandon(u) ==
    /\ req[u] # NoReq
    /\ req' = [req EXCEPT ![u] = NoReq]
    /\ UNCHANGED <<rows, delivered, eligible, worker, inbox, crashes>>

\* transition_action, reject and cancel: the update is all they do.
Refuse(a, expected, target) ==
    /\ status[a] = expected
    /\ status' = [status EXCEPT ![a] = target]
    /\ UNCHANGED <<channel, text, approved, stale, delivered, eligible, req, worker, inbox, crashes>>

Reject(a) == Refuse(a, "pending_approval", "rejected")
Cancel(a) == Refuse(a, "draft", "cancelled")

-----------------------------------------------------------------------------
(* The senders: one transaction claims an action, another records what     *)
(* became of it.                                                           *)

ChannelOf(w) == IF w \in EmailWorkers THEN "email" ELSE "telegram"

ClaimFrom(w, a, from) ==
    /\ worker[w] = Idle
    /\ status[a] \in from /\ channel[a] = ChannelOf(w)
    /\ status' = [status EXCEPT ![a] = "sending"]
    /\ stale' = [stale EXCEPT ![a] = FALSE]
    /\ worker' = [worker EXCEPT ![w] = [pc |-> "claimed", action |-> a, text |-> text[a]]]
    /\ UNCHANGED <<channel, text, approved, delivered, eligible, req, inbox, crashes>>

\* Mutant: what waits for an approval is claimed too.
ClaimEarly(w, a) == ClaimFrom(w, a, {"pending_approval", "approved"})

\* Rows locked by another claim are skipped.
Claim(w, a) == ClaimFrom(w, a, {"approved"})

Settle(w, result) ==
    worker' = [worker EXCEPT ![w] =
                 [pc |-> "recording", action |-> worker[w].action, result |-> result]]

\* Endpoint and customer are read again; then the message is composed, which
\* fails when a vault row is gone or unreadable.
Revalidate(w) ==
    /\ worker[w].pc = "claimed"
    /\ \/ /\ eligible[worker[w].action]
          /\ worker' = [worker EXCEPT ![w].pc = "ready"]
       \/ /\ ~eligible[worker[w].action]
          /\ Settle(w, IF w \in EmailWorkers THEN "failed" ELSE "cancelled")
       \/ Settle(w, "failed")
    /\ UNCHANGED <<rows, delivered, eligible, req, inbox, crashes>>

\* What the senders make of an exception in the middle of the delivery: email
\* knows that send_message was entered, Telegram that it did not return.
Uncertain(w) == IF w \in EmailWorkers THEN "delivery_unknown" ELSE "failed"

\* The provider takes the message, or not; its answer arrives, or not.
Attempt(w, uncertain) ==
    /\ worker[w].pc = "ready"
    /\ \E taken \in BOOLEAN, result \in {"sent", "failed", "uncertain"} :
         /\ result = "sent" => taken
         /\ result = "failed" => ~taken
         /\ delivered' = IF taken
                         THEN [delivered EXCEPT ![worker[w].action] = Append(@, worker[w].text)]
                         ELSE delivered
         /\ Settle(w, IF result = "uncertain" THEN uncertain ELSE result)
    /\ UNCHANGED <<rows, eligible, req, inbox, crashes>>

\* Mutant: an exception counts as a success.
DeliverAnyway(w) == Attempt(w, "sent")

Deliver(w) == Attempt(w, Uncertain(w))

\* The result is written without looking at the status.
Record(w) ==
    /\ worker[w].pc = "recording"
    /\ status' = [status EXCEPT ![worker[w].action] = worker[w].result]
    /\ worker' = [worker EXCEPT ![w] = Idle]
    /\ UNCHANGED <<channel, text, approved, stale, delivered, eligible, req, inbox, crashes>>

\* telegram/sender.py: the commit of "sent" fails, and another is tried.
RecordUnknown(w) ==
    /\ w \in TelegramWorkers
    /\ worker[w].pc = "recording" /\ worker[w].result = "sent"
    /\ status' = [status EXCEPT ![worker[w].action] = "delivery_unknown"]
    /\ worker' = [worker EXCEPT ![w] = Idle]
    /\ UNCHANGED <<channel, text, approved, stale, delivered, eligible, req, inbox, crashes>>

\* email_sending_stale_seconds after a claim.
Lapse(a) ==
    /\ status[a] = "sending" /\ ~stale[a]
    /\ stale' = [stale EXCEPT ![a] = TRUE]
    /\ UNCHANGED <<status, channel, text, approved, delivered, eligible, req, worker, inbox, crashes>>

\* recover_stale_sends reads the rows once, whatever their channel.
SweepOf(w, found) ==
    /\ w \in EmailWorkers /\ worker[w] = Idle
    /\ found # {}
    /\ worker' = [worker EXCEPT ![w] = [pc |-> "recovering", todo |-> found]]
    /\ UNCHANGED <<rows, delivered, eligible, req, inbox, crashes>>

Stale == {a \in Actions : status[a] = "sending" /\ stale[a]}

\* Mutant: only the worker's own channel is swept.
SweepOwn(w) == SweepOf(w, {a \in Stale : channel[a] = "email"})

Sweep(w) == SweepOf(w, Stale)

RecoverAs(w, target) ==
    /\ worker[w].pc = "recovering"
    /\ \E a \in worker[w].todo :
         /\ status' = [status EXCEPT ![a] = target]
         /\ worker' = [worker EXCEPT ![w] =
                         IF worker[w].todo = {a} THEN Idle
                         ELSE [pc |-> "recovering", todo |-> worker[w].todo \ {a}]]
    /\ UNCHANGED <<channel, text, approved, stale, delivered, eligible, req, inbox, crashes>>

\* Mutant: an interrupted send is tried again.
RecoverRetry(w) == RecoverAs(w, "approved")

\* recover_stale_sends writes them one by one.
Recover(w) == RecoverAs(w, "delivery_unknown")

\* A worker dies, or the commit of its result fails.
Crash(w) ==
    /\ worker[w] # Idle
    /\ crashes < MaxCrashes
    /\ crashes' = crashes + 1
    /\ worker' = [worker EXCEPT ![w] = Idle]
    /\ UNCHANGED <<rows, delivered, eligible, req, inbox>>

-----------------------------------------------------------------------------
(* Answers to a delivered email.                                           *)

\* Somebody answers with the message's reference.
Write(a, s) ==
    /\ channel[a] = "email" /\ delivered[a] # <<>>
    /\ mail[a][s] = "none"
    /\ mail' = [mail EXCEPT ![a][s] = "waiting"]
    /\ UNCHANGED <<rows, delivered, eligible, req, worker, match, correlated, crashes>>

MatchIn(a, senders, matching) ==
    /\ match = NoMatch
    /\ \E s \in Senders :
         /\ mail[a][s] = "waiting"
         /\ mail' = [mail EXCEPT ![a][s] = "synced"]
         /\ match' = IF s \in senders /\ status[a] \in matching THEN a ELSE NoMatch
    /\ UNCHANGED <<rows, delivered, eligible, req, worker, correlated, crashes>>

\* Mutants: the sender is not compared with the endpoint; a message whose
\* delivery is not recorded yet is matched.
MatchAnyone(a) == MatchIn(a, Senders, {"sent", "delivery_unknown"})
MatchSending(a) == MatchIn(a, {"customer"}, {"sending", "sent", "delivery_unknown"})

\* correlate_reply reads the action its reference names.  A sender other than
\* the endpoint is an identity_conflict and changes nothing here.
Match(a) == MatchIn(a, {"customer"}, {"sent", "delivery_unknown"})

\* ... and commits the correlation.
Attach ==
    /\ match # NoMatch
    /\ status' = [status EXCEPT ![match] = "replied"]
    /\ correlated' = correlated \cup {match}
    /\ match' = NoMatch
    /\ UNCHANGED <<channel, text, approved, stale, delivered, eligible, req, worker, mail, crashes>>

\* The synchronization dies first: the message is met again by the next one.
Interrupt ==
    /\ match # NoMatch
    /\ crashes < MaxCrashes
    /\ crashes' = crashes + 1
    /\ mail' = [mail EXCEPT ![match]["customer"] = "waiting"]
    /\ match' = NoMatch
    /\ UNCHANGED <<rows, delivered, eligible, req, worker, correlated>>

-----------------------------------------------------------------------------
UserStep(u) ==
    \/ \E a \in Actions, t \in Texts : BeginEdit(u, a, t)
    \/ \E a \in Actions, op \in {"submit", "approve"} : BeginMove(u, op, a)
    \/ FinishEdit(u) \/ FinishSubmit(u) \/ FinishApprove(u) \/ Abandon(u)

WorkerStep(w) ==
    \/ \E a \in Actions : Claim(w, a)
    \/ Revalidate(w) \/ Deliver(w) \/ Record(w) \/ RecordUnknown(w)
    \/ Sweep(w) \/ Recover(w)

Next ==
    \/ \E a \in Actions : \/ \E c \in Channels, t \in Texts : Create(a, c, t)
                          \/ EligibilityChanges(a) \/ Reject(a) \/ Cancel(a) \/ Lapse(a)
                          \/ \E s \in Senders : Write(a, s)
                          \/ Match(a)
    \/ \E u \in Users : UserStep(u)
    \/ \E w \in Workers : WorkerStep(w) \/ Crash(w)
    \/ Attach \/ Interrupt

Spec == Init /\ [][Next]_vars

\* Workers loop and are restarted when they die; time passes.
Fairness ==
    /\ \A w \in Workers : WF_vars(WorkerStep(w))
    /\ \A a \in Actions : WF_vars(Lapse(a))

FairSpec == Spec /\ Fairness

-----------------------------------------------------------------------------
(* Properties.                                                             *)

\* "FinBrain does not automatically retry": whatever crashes and recoveries do,
\* the provider is given an action at most once.
DeliveredOnce == \A a \in Actions : Len(delivered[a]) <= 1

\* "Do not mark an action sent before the channel provider succeeds."
SentWasTaken ==
    \A a \in Actions : status[a] \in {"sent", "replied"} => delivered[a] # <<>>

\* Nothing reaches a customer without an owner's approval, and what is
\* rejected, or cancelled as a draft, stays so.
OnlyApproved ==
    \A a \in Actions : /\ delivered[a] # <<>> => approved[a] # NoText
                       /\ status[a] = "rejected" => approved[a] = NoText

\* A refusal is final, whoever else acts on the action at the same time.
RefusalFinal ==
    [][\A a \in Actions :
          /\ status[a] = "rejected" => status'[a] = "rejected"
          /\ status[a] = "cancelled" /\ approved[a] = NoText => status'[a] = "cancelled"]_vars

\* "failed: error before delivery", for email.
FailedEmailNotTaken ==
    \A a \in Actions :
        status[a] = "failed" /\ channel[a] = "email" => delivered[a] = <<>>

\* The text a customer gets is the text the owner approved.
ApprovedTextSent ==
    \A a \in Actions : \A i \in DOMAIN delivered[a] : delivered[a][i] = approved[a]

\* A correlated answer shows in the action's status, and keeps showing.
CorrelatedReplied == \A a \in correlated : status[a] = "replied"

\* Only an answer from the customer's own endpoint marks an action replied.
RepliedByCustomer ==
    \A a \in Actions : status[a] = "replied" => mail[a]["customer"] = "synced"

\* An approved action is dispatched, and no action stays in "sending".
SendsSettle ==
    \A a \in Actions :
        status[a] \in {"approved", "sending"} ~> status[a] \notin {"approved", "sending"}

\* What the firm is told of an action.  A failed Telegram message may have
\* been taken.
Told(a) ==
    CASE status[a] = "rejected" \/ (status[a] = "cancelled" /\ approved[a] = NoText) -> "refused"
      [] \/ status[a] = "cancelled" /\ approved[a] # NoText
         \/ status[a] = "failed" /\ channel[a] = "email" -> "withheld"
      [] \/ status[a] = "delivery_unknown"
         \/ status[a] = "failed" /\ channel[a] # "email" -> "unknown"
      [] status[a] \in {"sent", "replied"} -> status[a]
      [] OTHER -> "nothing"

Granted  == {a \in Actions : approved[a] # NoText}
Given    == [a \in Actions |-> Len(delivered[a])]
Reported == [a \in Actions |-> Told(a)]

\* What requests, senders and recoveries together promise: see
\* GovernedOutreach.
Governed == INSTANCE GovernedOutreach WITH granted <- Granted, given <- Given, told <- Reported
GovernedSpec == Governed!Spec
=============================================================================
