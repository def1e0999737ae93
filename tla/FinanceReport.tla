---------------------------- MODULE FinanceReport ----------------------------
(***************************************************************************)
(* The finance summary (services/finance.py) of a table of invoices, a     *)
(* function from identifiers to rows.  A calendar month has MonthDays days *)
(* and month 0 is the January of year 0; the figures are whole ringgit.    *)
(***************************************************************************)
EXTENDS Integers, FiniteSets, Functions, AttentionScore

MonthDays == 30

MonthOf(day) == day \div MonthDays

Total(rows, ids) == SumFunctionOnSet([i \in DOMAIN rows |-> rows[i].amount], ids)

PeriodBoundsOneMonth(period, offset, today) ==
    LET width == CASE period = "month" -> 1 [] period = "quarter" -> 3 [] OTHER -> 12
        anchor == MonthOf(today) \div width + offset
    IN  <<anchor * width, anchor * width + 1>>

\* The first month of the period `offset` periods from today's, and the
\* first month after it.
PeriodBounds(period, offset, today) ==
    LET width == CASE period = "month" -> 1 [] period = "quarter" -> 3 [] OTHER -> 12
        anchor == MonthOf(today) \div width + offset
    IN  <<anchor * width, (anchor + 1) * width>>

Validated(rows) == {i \in DOMAIN rows : rows[i].status = "validated"}

IssuedBetween(rows, bounds) ==
    {i \in Validated(rows) : /\ rows[i].issue # NoDay
                             /\ MonthOf(rows[i].issue) >= bounds[1]
                             /\ MonthOf(rows[i].issue) < bounds[2]}

RevenueBetween(rows, bounds) == Total(rows, IssuedBetween(rows, bounds))

Revenue(rows, period, offset, today) == RevenueBetween(rows, PeriodBounds(period, offset, today))

RevenueTrend(rows, months, today) ==
    [n \in 1 .. months |-> Revenue(rows, "month", n - months, today)]

AgingLabels == {"current", "1-30", "31-60", "61-90", "90+"}

AgingLabel(due, today) ==
    CASE due = NoDay \/ due >= today -> "current"
      [] due # NoDay /\ today - due \in 1 .. 30  -> "1-30"
      [] due # NoDay /\ today - due \in 31 .. 60 -> "31-60"
      [] due # NoDay /\ today - due \in 61 .. 90 -> "61-90"
      [] OTHER -> "90+"

OutstandingRows(rows) == {i \in Validated(rows) : ~rows[i].paid}

Aged(rows, label, today) == {i \in OutstandingRows(rows) : AgingLabel(rows[i].due, today) = label}

AgingBuckets(rows, today) == [label \in AgingLabels |-> Total(rows, Aged(rows, label, today))]

\* "pending" is everything short of a validated invoice.
StatusBreakdown(rows) ==
    [pending     |-> Total(rows, DOMAIN rows \ Validated(rows)),
     outstanding |-> Total(rows, OutstandingRows(rows)),
     paid        |-> Total(rows, Validated(rows) \ OutstandingRows(rows))]

\* What the profile of a customer says of the customer's invoices.
FinancialsOf(rows, today) ==
    [outstanding |-> Total(rows, OutstandingRows(rows)),
     overdue     |-> Total(rows, {i \in DOMAIN rows : Overdue(rows[i], today)}),
     invoices    |-> Cardinality(DOMAIN rows)]
=============================================================================
