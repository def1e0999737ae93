--------------------------- MODULE AttentionScore ---------------------------
(***************************************************************************)
(* The deterministic attention score of a customer                         *)
(* (services/customer_attention.py): points for the oldest overdue         *)
(* invoice, for the outstanding balance and for linked records that ask    *)
(* for action.  Dates are day numbers, amounts whole ringgit.              *)
(***************************************************************************)
EXTENDS Integers, FiniteSetsExt, SequencesExt

NoDay == -1

Outstanding(row) == row.status = "validated" /\ ~row.paid

Overdue(row, day) == Outstanding(row) /\ row.due # NoDay /\ row.due < day

OverduePoints(days) ==
    CASE days <= 7  -> 10
      [] days \in 8 .. 30  -> 20
      [] days \in 31 .. 60 -> 30
      [] OTHER -> 40

BalancePoints(total) ==
    CASE total >= 10000 -> 15
      [] total \in 5000 .. 9999 -> 10
      [] total \in 1000 .. 4999 -> 5
      [] OTHER -> 0

Freshness(day, now) ==
    CASE day = NoDay -> "undated"
      [] day # NoDay /\ now - day <= 30 -> "current"
      [] day # NoDay /\ now - day \in 31 .. 90 -> "aging"
      [] OTHER -> "stale"

\* A linked record that requires action counts 15 or 8, half when stale.
RecordPoints(record, now) ==
    LET base == IF record.high THEN 15 ELSE 8
    IN  IF ~record.action THEN 0
        ELSE IF Freshness(record.day, now) = "stale" THEN base \div 2 ELSE base

\* All of them together count at most 30.
ActionPoints(linked, now) ==
    FoldLeft(LAMBDA total, record : Min({30, total + RecordPoints(record, now)}), 0, linked)

\* rows: the customer's invoices; linked: the verified records, in order.
Score(rows, linked, now) ==
    LET late == {row \in rows : Overdue(row, now)}
        oldest == Max({now - row.due : row \in late})
        balance == MapThenSumSet(LAMBDA row : row.amount, {row \in rows : Outstanding(row)})
    IN  Min({100, (IF late = {} THEN 0 ELSE OverduePoints(oldest))
                      + BalancePoints(balance) + ActionPoints(linked, now)})

Priority(score) ==
    CASE score >= 70 -> "urgent"
      [] score \in 40 .. 69 -> "high"
      [] score \in 15 .. 39 -> "monitoring"
      [] OTHER -> "healthy"
=============================================================================
