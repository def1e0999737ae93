----------------------------- MODULE Receivables -----------------------------
(***************************************************************************)
(* The e-invoices together with the days that pass, the tenant's reminder  *)
(* policy, the planner of overdue reminders (services/overdue_reminders.py *)
(* run by the loop of integrations/telegram/runner.py) and the check the   *)
(* Telegram sender makes before it delivers one.                           *)
(*                                                                         *)
(* A pass of the planner loads the policy and the overdue invoices once,   *)
(* then commits one reminder at a time: payments, edits and a new policy   *)
(* that come in between are not seen by the pass.  A save of the policy    *)
(* reads the row and counts its version up, and commits what it changed    *)
(* with no lock and no version check: two saves may store one version.     *)
(***************************************************************************)
EXTENDS Invoices, FinanceReport

CONSTANTS
    FirstDay, LastDay,  \* the days of a behaviour
    Settings,           \* reminder settings: enabled, grace, repeat, max, approval
    Endpoints,          \* Telegram chats a customer may verify
    NoChat,             \* no verified chat
    Savers,             \* requests that save the policy at one time
    MaxChanges,         \* bound on the saves that begin and the changes of a chat
    MaxWork,            \* bound on both: a request on an invoice counts as two changes
    MaxReminders        \* bound on the reminders of a behaviour

ASSUME ReceivablesAssumption ==
    /\ FirstDay \in Nat /\ LastDay \in Nat /\ MaxChanges \in Nat /\ MaxWork \in Nat
    /\ MaxReminders \in Nat
    /\ NoChat \notin Endpoints
    /\ Settings \subseteq [enabled : BOOLEAN, grace : Nat, repeat : Nat \ {0}, max : Nat \ {0},
                           approval : BOOLEAN]

VARIABLES
    today,       \* the date
    policy,      \* the tenant's row of tenant_outreach_policies
    save,        \* what every saver is doing
    chat,        \* the verified Telegram endpoint of every customer
    changes,     \* saves begun and changes of a chat so far
    planner,     \* the pass of the planner
    reminders    \* the outreach actions it created, oldest first

reminderVars == <<today, policy, save, chat, changes, planner, reminders>>
vars == <<invoiceVars, reminderVars>>

NoPolicy == [version |-> 0]
Policy(set, version) ==
    [enabled |-> set.enabled, grace |-> set.grace, repeat |-> set.repeat, max |-> set.max,
     approval |-> set.approval, version |-> version]
Sleeping == [phase |-> "idle"]
NoSave == [phase |-> "none"]

Init ==
    /\ InvoiceInit
    /\ today = FirstDay
    /\ \E set \in Settings : policy \in {NoPolicy, Policy(set, 1)}
    /\ save = [s \in Savers |-> NoSave]
    /\ chat \in [Customers -> Endpoints \union {NoChat}]
    /\ \A c, d \in Customers : c # d => chat[c] = NoChat \/ chat[c] # chat[d]
    /\ changes = 0
    /\ planner = Sleeping
    /\ reminders = <<>>

NextDay ==
    /\ today < LastDay
    /\ today' = today + 1
    /\ UNCHANGED <<invoiceVars, policy, save, chat, changes, planner, reminders>>

\* PUT /outreach-policy loads the row.  Without one the version counted up
\* is None and the request fails: only a seeded policy can be saved.
BeginSave(s) ==
    /\ save[s] = NoSave
    /\ policy # NoPolicy
    /\ changes < MaxChanges /\ 2 * begun + changes < MaxWork
    /\ changes' = changes + 1
    /\ \E set \in Settings :
        save' = [save EXCEPT ![s] = [phase |-> "saving", seen |-> policy,
                                     new |-> Policy(set, policy.version + 1)]]
    /\ UNCHANGED <<invoiceVars, today, policy, chat, planner, reminders>>

\* Its commit, once write_workflow_event has had its turn: the columns that
\* differ from the row it loaded, into the row as it is by now.
CommitSave(s) ==
    /\ save[s] # NoSave
    /\ policy' = Written(policy, Changed(save[s].new, save[s].seen))
    /\ save' = [save EXCEPT ![s] = NoSave]
    /\ UNCHANGED <<invoiceVars, today, chat, changes, planner, reminders>>

\* A customer verifies a chat, or another one, or the chat is revoked.
ChangeChat ==
    /\ changes < MaxChanges /\ 2 * begun + changes < MaxWork
    /\ changes' = changes + 1
    /\ \E c \in Customers, e \in Endpoints \union {NoChat} :
        /\ e # chat[c]
        /\ \A other \in Customers \ {c} : e = NoChat \/ chat[other] # e
        /\ chat' = [chat EXCEPT ![c] = e]
    /\ UNCHANGED <<invoiceVars, today, policy, save, planner, reminders>>

-----------------------------------------------------------------------------
(* The planner. *)

PlanBegin ==
    /\ planner = Sleeping
    /\ policy # NoPolicy /\ policy.enabled
    /\ planner' = [phase |-> "pass", policy |-> policy, day |-> today, row |-> invoice,
                   left |-> {i \in Records : /\ Exists(i) /\ Overdue(invoice[i], today)
                                             /\ invoice[i].buyer # NoCustomer}]
    /\ UNCHANGED <<invoiceVars, today, policy, save, chat, changes, reminders>>

Stage(days, set) == 1 + Max({0, days - set.grace - 1}) \div set.repeat

\* Mutant: the day in place of the stage.
KeyByDay(r) == <<r.id, r.chat, r.day, r.version>>

\* The idempotency key: another chat or a saved policy makes another one.
Key(r) == <<r.id, r.chat, r.stage, r.version>>

PlanOne ==
    /\ planner.phase = "pass"
    /\ \E i \in planner.left :
        LET row == planner.row[i]
            set == planner.policy
            stage == Stage(planner.day - row.due, set)
            reminder == [id |-> i, chat |-> chat[row.buyer], stage |-> stage, version |-> set.version,
                         buyer |-> row.buyer, amount |-> row.amount, due |-> row.due, day |-> planner.day,
                         settings |-> set, status |-> IF set.approval THEN "pending_approval" ELSE "approved"]
        IN  /\ planner' = [planner EXCEPT !.left = @ \ {i}]
            /\ IF \/ planner.day - row.due <= set.grace
                  \/ chat[row.buyer] = NoChat
                  \/ stage > set.max
                  \/ \E n \in DOMAIN reminders : Key(reminders[n]) = Key(reminder)
               THEN UNCHANGED reminders
               ELSE /\ Len(reminders) < MaxReminders
                    /\ reminders' = Append(reminders, reminder)
    /\ UNCHANGED <<invoiceVars, today, policy, save, chat, changes>>

\* The pass is over, or an exception or the end of the process ends it: the
\* loop logs and sleeps, and what was committed stays.
PlanEnd ==
    /\ planner.phase = "pass"
    /\ planner' = Sleeping
    /\ UNCHANGED <<invoiceVars, today, policy, save, chat, changes, reminders>>

SetReminder(n, status) ==
    /\ reminders' = [reminders EXCEPT ![n].status = status]
    /\ UNCHANGED <<invoiceVars, today, policy, save, chat, changes, planner>>

ApproveReminder ==
    \E n \in DOMAIN reminders :
        /\ reminders[n].status = "pending_approval"
        /\ chat[reminders[n].buyer] = reminders[n].chat
        /\ SetReminder(n, "approved")

\* The sender takes an approved reminder, and cancels one whose chat is no
\* longer the customer's or whose invoice is no longer the customer's debt.
\* The amount and the due date are not looked at again.
SendReminder ==
    \E n \in DOMAIN reminders :
        LET r == reminders[n]
            row == invoice[r.id]
        IN  /\ r.status = "approved"
            /\ SetReminder(n, IF chat[r.buyer] = r.chat /\ Outstanding(row) /\ row.buyer = r.buyer
                              THEN "sent" ELSE "cancelled")

Next ==
    \/ InvoiceNext(today) /\ 2 * begun' + changes <= MaxWork /\ UNCHANGED reminderVars
    \/ NextDay \/ ChangeChat
    \/ \E s \in Savers : BeginSave(s) \/ CommitSave(s)
    \/ PlanBegin \/ PlanOne \/ PlanEnd \/ ApproveReminder \/ SendReminder

Spec == Init /\ [][Next]_vars

-----------------------------------------------------------------------------

\* Reminders of one invoice, chat, policy version and due date: no more of
\* them than max_reminders of the most generous settings that one of them was
\* planned under (two saves may leave two settings with one version), none
\* before the grace days are over, and under the same settings at most one in
\* each interval of repeat_interval_days, whatever day a pass runs on, however
\* often it is interrupted and whatever is saved meanwhile.
RemindersPaced ==
    \A n \in DOMAIN reminders :
        LET r == reminders[n]
            same == {m \in DOMAIN reminders :
                        /\ reminders[m].id = r.id /\ reminders[m].chat = r.chat
                        /\ reminders[m].version = r.version /\ reminders[m].due = r.due}
            Interval(m) == (reminders[m].day - r.due - r.settings.grace - 1) \div r.settings.repeat
        IN  /\ \E m \in same : Cardinality(same) <= reminders[m].settings.max
            /\ r.due + r.settings.grace < r.day
            /\ \A m \in same \ {n} :
                  reminders[m].settings = r.settings => Interval(m) # Interval(n)

Rows == [i \in {j \in Records : Exists(j)} |-> invoice[i]]

\* Every invoice is in one line of the status breakdown and, when it is
\* outstanding, in one age; a quarter is its three months, and the trend
\* counts a validated invoice of its months once; what a customer's profile
\* calls overdue is what the ages past "current" hold: the parts of the finance
\* summary add up to its totals on every day.
FinanceAddsUp ==
    LET aging == AgingBuckets(Rows, today)
        lines == StatusBreakdown(Rows)
        trend == RevenueTrend(Rows, 3, today)
    IN  /\ SumFunction(aging) = lines.outstanding
        /\ lines.pending + lines.outstanding + lines.paid = Total(Rows, DOMAIN Rows)
        /\ \A offset \in {-1, 0} :
            LET first == PeriodBounds("quarter", offset, today)[1] - MonthOf(today)
            IN  Revenue(Rows, "quarter", offset, today)
                    = Revenue(Rows, "month", first, today) + Revenue(Rows, "month", first + 1, today)
                          + Revenue(Rows, "month", first + 2, today)
        /\ \A c \in Customers :
            LET mine == [i \in InvoicesOf(c) |-> invoice[i]]
            IN  FinancialsOf(mine, today).overdue
                    = SumFunctionOnSet(AgingBuckets(mine, today), AgingLabels \ {"current"})
        /\ trend[1] + trend[2] + trend[3]
               = RevenueBetween(Rows, <<MonthOf(today) - 2, MonthOf(today) + 1>>)
=============================================================================
