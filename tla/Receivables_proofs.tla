------------------------- MODULE Receivables_proofs -------------------------
(***************************************************************************)
(* Theorems of Receivables, for any requests, invoices, customers, days    *)
(* and settings: the invoices first, then the reminders.                   *)
(***************************************************************************)
EXTENDS Receivables, FiniteSetTheorems, TLAPS

Row == [tin : {"missing", "blank", "given"}, amount : Nat, issue : Days, due : Days,
        buyer : Customers \union {NoCustomer}, status : {"pending", "review", "validated"},
        paid : BOOLEAN, uin : Nat]

RowColumns == Columns \union {"status", "paid", "uin"}

-----------------------------------------------------------------------------
(* The columns of a row. *)

LEMMA RowIsFunction ==
    ASSUME NEW r \in Row
    PROVE  /\ DOMAIN r = RowColumns /\ r = [column \in RowColumns |-> r[column]]
           /\ r["tin"] = r.tin /\ r["amount"] = r.amount /\ r["issue"] = r.issue /\ r["due"] = r.due
           /\ r["buyer"] = r.buyer /\ r["status"] = r.status /\ r["paid"] = r.paid /\ r["uin"] = r.uin
BY DEF Row, RowColumns, Columns

LEMMA FunctionIsRow ==
    ASSUME NEW f, f = [column \in RowColumns |-> f[column]],
           f["tin"] \in {"missing", "blank", "given"}, f["amount"] \in Nat, f["issue"] \in Days,
           f["due"] \in Days, f["buyer"] \in Customers \union {NoCustomer},
           f["status"] \in {"pending", "review", "validated"}, f["paid"] \in BOOLEAN, f["uin"] \in Nat
    PROVE  f \in Row
BY DEF Row, RowColumns, Columns

\* Written sets the columns it is given, one by one.
LEMMA WrittenColumns ==
    ASSUME NEW r \in Row, NEW set
    PROVE  /\ Written(r, set) = [column \in RowColumns |-> Written(r, set)[column]]
           /\ \A column \in RowColumns :
                  Written(r, set)[column] = IF column \in DOMAIN set THEN set[column] ELSE r[column]
BY RowIsFunction DEF Written

LEMMA EditedRow ==
    ASSUME NEW r \in Row, NEW edit \in Edits
    PROVE  /\ Edited(r, edit) \in Row
           /\ Edited(r, edit).paid = r.paid /\ Edited(r, edit).uin = r.uin
           /\ Edited(r, edit).status # r.status => r.status = "review" /\ Edited(r, edit).status = "pending"
           /\ Edited(r, edit).status = "review" => Edited(r, edit).tin # "given"
<1> DEFINE w == Written(r, edit)
           e == [w EXCEPT !.status = IF @ = "review" /\ HasTin(w) THEN "pending" ELSE @]
<1>1. /\ DOMAIN edit \subseteq Columns
      /\ \A column \in DOMAIN edit : edit[column] \in Values[column]
    BY InvoiceAssumption
<1>2. /\ w = [column \in RowColumns |-> w[column]]
      /\ \A column \in RowColumns : w[column] = IF column \in DOMAIN edit THEN edit[column] ELSE r[column]
    BY WrittenColumns
<1> HIDE DEF w
<1>3. /\ r["tin"] \in {"missing", "blank", "given"} /\ r["amount"] \in Nat /\ r["issue"] \in Days
      /\ r["due"] \in Days /\ r["buyer"] \in Customers \union {NoCustomer}
      /\ r["status"] \in {"pending", "review", "validated"} /\ r["paid"] \in BOOLEAN /\ r["uin"] \in Nat
    BY DEF Row
<1>4. /\ w["tin"] \in {"missing", "blank", "given"} /\ w["amount"] \in Nat /\ w["issue"] \in Days
      /\ w["due"] \in Days /\ w["buyer"] \in Customers \union {NoCustomer}
    <2>1. \A column \in Columns : w[column] = r[column] \/ w[column] \in Values[column]
        BY <1>1, <1>2 DEF RowColumns
    <2> QED BY <2>1, <1>3 DEF Columns, Values
<1>5. w["status"] = r["status"] /\ w["paid"] = r["paid"] /\ w["uin"] = r["uin"]
    BY <1>1, <1>2 DEF RowColumns, Columns
<1>6. w \in Row BY <1>2, <1>3, <1>4, <1>5, FunctionIsRow
<1>7. w.status = r.status /\ w.paid = r.paid /\ w.uin = r.uin BY <1>5, <1>6, RowIsFunction
<1>8. /\ e \in Row /\ e.paid = w.paid /\ e.uin = w.uin /\ e.tin = w.tin
      /\ e.status = IF w.status = "review" /\ w.tin = "given" THEN "pending" ELSE w.status
    BY <1>6 DEF Row, HasTin
<1>9. Edited(r, edit) = e BY DEF Edited, w
<1> HIDE DEF e
<1> QED BY <1>7, <1>8, <1>9

LEMMA CreatedRow ==
    ASSUME NEW new \in NewRows
    PROVE  /\ Created(new) \in Row
           /\ Created(new).status \in {"pending", "review"} /\ ~Created(new).paid
           /\ Created(new).status = "review" => Created(new).tin # "given"
<1>1. DOMAIN new = Columns /\ \A column \in DOMAIN new : new[column] \in Values[column] BY InvoiceAssumption
<1>2. /\ new.tin \in {"missing", "blank", "given"} /\ new.amount \in Nat /\ new.issue \in Days
      /\ new.due \in Days /\ new.buyer \in Customers \union {NoCustomer}
    BY <1>1 DEF Columns, Values
<1>3. new.issue # NoDay => new.issue + Terms \in Nat BY <1>2, InvoiceAssumption DEF Days
<1>4. (IF new.due = NoDay /\ new.issue # NoDay THEN new.issue + Terms ELSE new.due) \in Days BY <1>2, <1>3 DEF Days
<1> QED BY <1>2, <1>4 DEF Created, Row, HasTin

\* A commit leaves a row; of one nobody else has changed, the row in memory.
LEMMA CommittedRow ==
    ASSUME NEW new \in Row, NEW loaded \in Row, NEW stored \in Row
    PROVE  /\ Written(stored, Changed(new, loaded)) \in Row
           /\ stored = loaded => Written(stored, Changed(new, loaded)) = new
<1> DEFINE ch == Changed(new, loaded)
           w == Written(stored, ch)
<1>1. DOMAIN new = RowColumns /\ new = [column \in RowColumns |-> new[column]] BY RowIsFunction
<1>2. ch = [column \in {c \in RowColumns : new[c] # loaded[c]} |-> new[column]] BY <1>1 DEF Changed
<1> HIDE DEF ch
<1>3. /\ w = [column \in RowColumns |-> w[column]]
      /\ \A column \in RowColumns : w[column] = IF column \in DOMAIN ch THEN ch[column] ELSE stored[column]
    BY WrittenColumns
<1> HIDE DEF w
<1>4. \A column \in RowColumns : w[column] = IF new[column] # loaded[column] THEN new[column] ELSE stored[column]
    BY <1>2, <1>3
<1>5. \A r \in Row : /\ r["tin"] \in {"missing", "blank", "given"} /\ r["amount"] \in Nat /\ r["issue"] \in Days
                     /\ r["due"] \in Days /\ r["buyer"] \in Customers \union {NoCustomer}
                     /\ r["status"] \in {"pending", "review", "validated"} /\ r["paid"] \in BOOLEAN /\ r["uin"] \in Nat
    BY DEF Row
<1>6. w \in Row
    <2>1. \A column \in RowColumns : w[column] = new[column] \/ w[column] = stored[column] BY <1>4
    <2>2. /\ w["tin"] = new["tin"] \/ w["tin"] = stored["tin"]
          /\ w["amount"] = new["amount"] \/ w["amount"] = stored["amount"]
          /\ w["issue"] = new["issue"] \/ w["issue"] = stored["issue"]
          /\ w["due"] = new["due"] \/ w["due"] = stored["due"]
          /\ w["buyer"] = new["buyer"] \/ w["buyer"] = stored["buyer"]
          /\ w["status"] = new["status"] \/ w["status"] = stored["status"]
          /\ w["paid"] = new["paid"] \/ w["paid"] = stored["paid"]
          /\ w["uin"] = new["uin"] \/ w["uin"] = stored["uin"]
        BY <2>1 DEF RowColumns, Columns
    <2> QED BY <1>3, <1>5, <2>2, FunctionIsRow
<1>7. stored = loaded => w = new
    <2>1. stored = loaded => \A column \in RowColumns : w[column] = new[column] BY <1>4
    <2> QED BY <1>1, <1>3, <2>1
<1> QED BY <1>6, <1>7 DEF w, ch

-----------------------------------------------------------------------------
(* The types. *)

\* A sequence of whatever it holds.
IsList(s) == s \in Seq({s[n] : n \in DOMAIN s})

LEMMA AppendedList ==
    ASSUME NEW s, IsList(s), NEW e
    PROVE  /\ IsList(Append(s, e)) /\ Len(s) \in Nat
           /\ DOMAIN s = 1 .. Len(s) /\ DOMAIN Append(s, e) = 1 .. Len(s) + 1
           /\ Append(s, e)[Len(s) + 1] = e /\ \A n \in DOMAIN s : Append(s, e)[n] = s[n]
<1> DEFINE S == {s[n] : n \in DOMAIN s}
           T == S \union {e}
           a == Append(s, e)
<1>1. s \in Seq(T) /\ s \in Seq(S) BY DEF IsList
<1>2. /\ Len(s) \in Nat /\ DOMAIN s = 1 .. Len(s) /\ DOMAIN a = 1 .. Len(s) + 1
      /\ a \in Seq(T) /\ Len(a) = Len(s) + 1
      /\ a[Len(s) + 1] = e /\ \A n \in 1 .. Len(s) : a[n] = s[n]
    BY <1>1
<1>3. IsList(a)
    <2> DEFINE U == {a[n] : n \in DOMAIN a}
    <2>1. a \in Seq(T) BY <1>2
    <2> HIDE DEF a
    <2>2. a = [n \in 1 .. Len(a) |-> a[n]] /\ Len(a) \in Nat BY <2>1
    <2>3. \A n \in 1 .. Len(a) : a[n] \in U BY <2>2
    <2> HIDE DEF U
    <2>4. a \in Seq(U) BY <2>2, <2>3
    <2> QED BY <2>4 DEF IsList, U
<1> QED BY <1>2, <1>3

Writing  == {"update", "approve", "pay", "draft", "decide"}
Changing == {"create", "update", "approve", "pay"}

Request == [phase : {"write", "mirror", "score"}, op : Writing \union {"create", "sync"}, id : Records,
            edit : Edits \union {NoEdit}, row : Row]

\* Where an operation may be.
InPhase(r) ==
    /\ r.phase = "write" => r.op \in Writing
    /\ r.op = "update" => r.edit \in Edits
    /\ r.phase = "score" => r.op \in Changing
    /\ r.phase = "mirror" => r.op \in Changing \union {"sync"}

InvoiceTypes ==
    /\ invoice \in [Records -> Row \union {NoRow}]
    /\ request \in [Sessions -> Request \union {Idle}]
    /\ \A s \in Sessions : request[s] # Idle => InPhase(request[s])
    /\ mirror = [i \in Records |-> mirror[i]]
    /\ snapshots = [c \in Customers |-> snapshots[c]] /\ \A c \in Customers : IsList(snapshots[c])
    /\ drafts \in [Records -> {"none", "draft", "approved", "rejected"}]
    /\ submissions \in [Records -> Nat]
    /\ decisions \in [Records -> Nat]

LEMMA RequestShape ==
    /\ Idle \notin Request
    /\ \A r \in Request : r.phase # "idle" /\ r # Idle
    /\ Idle.phase = "idle"
<1>1. \A r \in Request : r.phase # "idle" BY DEF Request
<1>2. Idle.phase = "idle" BY DEF Idle
<1> QED BY <1>1, <1>2

LEMMA ExistsRow ==
    ASSUME InvoiceTypes, NEW i \in Records
    PROVE  Exists(i) <=> invoice[i] \in Row
<1>1. NoRow.status = "absent" /\ \A r \in Row : r.status # "absent" BY DEF NoRow, Row
<1> QED BY <1>1 DEF InvoiceTypes, Exists

\* What is in a session that is not idle.
LEMMA Loaded ==
    ASSUME InvoiceTypes, NEW s \in Sessions, request[s] # Idle \/ request[s].phase # "idle"
    PROVE  /\ request[s] \in Request /\ request[s].id \in Records /\ request[s].row \in Row
           /\ request[s].op \in Writing \union {"create", "sync"}
           /\ request[s].phase \in {"write", "mirror", "score"}
           /\ InPhase(request[s]) /\ request[s] # Idle /\ request[s].phase # "idle"
<1>1. request[s] \in Request BY RequestShape DEF InvoiceTypes
<1>2. request[s] # Idle BY <1>1, RequestShape
<1> QED BY <1>1, <1>2, RequestShape DEF Request, InvoiceTypes

\* The row in memory after the change.
LEMMA AfterRow ==
    ASSUME InvoiceTypes, NEW s \in Sessions, request[s].phase = "write", request[s].op \in {"update", "approve", "pay"}
    PROVE  /\ After(request[s]) \in Row
           /\ request[s].op = "update" => request[s].edit \in Edits /\ After(request[s]) = Edited(request[s].row, request[s].edit)
           /\ request[s].op = "approve" =>
                  After(request[s]) = [request[s].row EXCEPT !.status = "validated", !.uin = submissions[request[s].id] + 1]
           /\ request[s].op = "pay" => After(request[s]) = [request[s].row EXCEPT !.paid = TRUE]
<1> DEFINE r == request[s]
<1>1. r \in Request /\ r.row \in Row /\ r.id \in Records /\ InPhase(r) BY Loaded
<1>2. CASE r.op = "update"
    <2>1. After(r) = Edited(r.row, r.edit) BY <1>2 DEF After
    <2>2. r.edit \in Edits BY <1>1, <1>2 DEF InPhase
    <2> QED BY <1>1, <1>2, <2>1, <2>2, EditedRow
<1>3. CASE r.op = "approve"
    <2>1. After(r) = Approved(r.row, submissions[r.id] + 1) BY <1>3 DEF After
    <2>2. submissions[r.id] + 1 \in Nat BY <1>1 DEF InvoiceTypes
    <2> DEFINE n == submissions[r.id] + 1
               row == r.row
    <2>3. n \in Nat /\ row \in Row BY <1>1, <2>2
    <2> HIDE DEF n, row
    <2>4. [row EXCEPT !.status = "validated", !.uin = n] \in Row BY <2>3 DEF Row
    <2> QED BY <1>3, <2>1, <2>4 DEF Approved, n, row
<1>4. CASE r.op = "pay"
    <2>1. After(r) = Paid(r.row) BY <1>4 DEF After
    <2> DEFINE row == r.row
    <2>3. row \in Row BY <1>1
    <2> HIDE DEF row
    <2>4. [row EXCEPT !.paid = TRUE] \in Row BY <2>3 DEF Row
    <2> QED BY <1>4, <2>1, <2>4 DEF Paid, row
<1> QED BY <1>2, <1>3, <1>4

LEMMA InitInvoiceTypes == InvoiceInit => InvoiceTypes
<1> SUFFICES ASSUME InvoiceInit PROVE InvoiceTypes OBVIOUS
<1>1. \A c \in Customers : IsList(snapshots[c]) BY DEF InvoiceInit, IsList
<1> QED BY <1>1 DEF InvoiceInit, InvoiceTypes

\* A step of one session: what it goes on with, and what it writes.
LEMMA TypesStep ==
    ASSUME InvoiceTypes, NEW s \in Sessions, NEW r,
           request' = [request EXCEPT ![s] = r], r = Idle \/ (r \in Request /\ InPhase(r)),
           invoice' \in [Records -> Row \union {NoRow}],
           mirror' = [i \in Records |-> mirror'[i]],
           snapshots' = [c \in Customers |-> snapshots'[c]], \A c \in Customers : IsList(snapshots'[c]),
           drafts' \in [Records -> {"none", "draft", "approved", "rejected"}],
           submissions' \in [Records -> Nat], decisions' \in [Records -> Nat]
    PROVE  InvoiceTypes'
<1>1. request' \in [Sessions -> Request \union {Idle}] BY DEF InvoiceTypes
<1>2. \A t \in Sessions : request'[t] # Idle => InPhase(request'[t]) BY DEF InvoiceTypes
<1> QED BY <1>1, <1>2 DEF InvoiceTypes

Same == UNCHANGED <<invoice, mirror, snapshots, drafts, submissions, decisions>>

LEMMA SameTypes ==
    ASSUME InvoiceTypes, NEW s \in Sessions, NEW r, Same,
           request' = [request EXCEPT ![s] = r], r = Idle \/ (r \in Request /\ InPhase(r))
    PROVE  InvoiceTypes'
<1>1. /\ invoice' \in [Records -> Row \union {NoRow}]
      /\ mirror' = [i \in Records |-> mirror'[i]]
      /\ snapshots' = [c \in Customers |-> snapshots'[c]] /\ \A c \in Customers : IsList(snapshots'[c])
      /\ drafts' \in [Records -> {"none", "draft", "approved", "rejected"}]
      /\ submissions' \in [Records -> Nat] /\ decisions' \in [Records -> Nat]
    BY DEF InvoiceTypes, Same
<1> QED BY <1>1, TypesStep

Begins(s) ==
    \E i \in Records, op \in Writing \union {"sync"}, edit \in Edits \union {NoEdit} :
        (op = "update" => edit \in Edits) /\ Begin(s, op, i, edit)

LEMMA BeginsIs ==
    ASSUME NEW s \in Sessions,
           BeginUpdate(s) \/ BeginApprove(s) \/ BeginPay(s) \/ BeginSync(s) \/ BeginDraft(s) \/ BeginDecide(s)
    PROVE  Begins(s)
<1>1. CASE BeginUpdate(s) BY <1>1 DEF BeginUpdate, Begins, Writing
<1>2. CASE BeginApprove(s) BY <1>2 DEF BeginApprove, Begins, Writing
<1>3. CASE BeginPay(s) BY <1>3 DEF BeginPay, Begins, Writing
<1>4. CASE BeginSync(s) BY <1>4 DEF BeginSync, Begins, Writing
<1>5. CASE BeginDraft(s) BY <1>5 DEF BeginDraft, Begins, Writing
<1>6. CASE BeginDecide(s) BY <1>6 DEF BeginDecide, Begins, Writing
<1> QED BY <1>1, <1>2, <1>3, <1>4, <1>5, <1>6

LEMMA BeginTypes == ASSUME InvoiceTypes, NEW s \in Sessions, Begins(s) PROVE InvoiceTypes'
<1>1. PICK i \in Records, op \in Writing \union {"sync"}, edit \in Edits \union {NoEdit} :
          (op = "update" => edit \in Edits) /\ Begin(s, op, i, edit)
    BY DEF Begins
<1> DEFINE r == [phase |-> IF op = "sync" THEN "mirror" ELSE "write", op |-> op, id |-> i, edit |-> edit,
                 row |-> invoice[i]]
<1>2. Same /\ request' = [request EXCEPT ![s] = r] /\ invoice[i] \in Row BY <1>1, ExistsRow DEF Begin, Same
<1>3. r \in Request /\ InPhase(r) BY <1>1, <1>2 DEF Request, InPhase, Writing
<1> QED BY <1>2, <1>3, SameTypes

LEMMA CreateTypes == ASSUME InvoiceTypes, NEW s \in Sessions, Create(s) PROVE InvoiceTypes'
<1>1. PICK new \in NewRows, i \in Records :
          /\ ~Exists(i)
          /\ invoice' = [invoice EXCEPT ![i] = Created(new)]
          /\ request' = [request EXCEPT ![s] = [phase |-> "mirror", op |-> "create", id |-> i,
                                                edit |-> NoEdit, row |-> Created(new)]]
    BY DEF Create
<1> DEFINE r == [phase |-> "mirror", op |-> "create", id |-> i, edit |-> NoEdit, row |-> Created(new)]
<1>2. Created(new) \in Row BY CreatedRow
<1>3. r \in Request /\ InPhase(r) BY <1>2 DEF Request, InPhase, Changing
<1>4. invoice' \in [Records -> Row \union {NoRow}] BY <1>1, <1>2 DEF InvoiceTypes
<1>5. /\ mirror' = [j \in Records |-> mirror'[j]]
      /\ snapshots' = [c \in Customers |-> snapshots'[c]] /\ \A c \in Customers : IsList(snapshots'[c])
      /\ drafts' \in [Records -> {"none", "draft", "approved", "rejected"}]
      /\ submissions' \in [Records -> Nat] /\ decisions' \in [Records -> Nat]
    BY DEF InvoiceTypes, Create
<1> QED BY <1>1, <1>3, <1>4, <1>5, TypesStep

\* What a session has committed and goes on with.
Committed(s) ==
    [phase |-> Following(request[s].op), op |-> request[s].op, id |-> request[s].id,
     edit |-> request[s].edit, row |-> After(request[s])]

LEMMA CommitIs ==
    ASSUME InvoiceTypes, NEW s \in Sessions, Commit(s)
    PROVE  /\ request[s].phase = "write" /\ request[s].op \in {"update", "approve", "pay"}
           /\ request[s].id \in Records /\ request[s].row \in Row
           /\ After(request[s]) \in Row
           /\ request' = [request EXCEPT ![s] = Committed(s)]
           /\ Committed(s) \in Request /\ InPhase(Committed(s))
           /\ invoice' = [invoice EXCEPT ![request[s].id] =
                              Written(invoice[request[s].id], Changed(After(request[s]), request[s].row))]
<1> DEFINE r == request[s]
           new == After(r)
           c == [r EXCEPT !.phase = Following(r.op), !.row = new]
<1>1. r.phase = "write" /\ r.op \in {"update", "approve", "pay"} /\ request' = [request EXCEPT ![s] = c]
    BY DEF Commit
<1>2. r \in Request /\ InPhase(r) /\ r.id \in Records /\ r.row \in Row BY <1>1, Loaded
<1>3. new \in Row BY <1>1, AfterRow
<1>4. Following(r.op) \in {"mirror", "score"} BY DEF Following
<1>5. c = Committed(s)
    <2> DEFINE x == r
               y == new
               z == Following(r.op)
    <2>1. x \in Request /\ y \in Row /\ z \in {"mirror", "score"} BY <1>2, <1>3, <1>4
    <2> HIDE DEF x, y, z
    <2>2. [x EXCEPT !.phase = z, !.row = y] = [phase |-> z, op |-> x.op, id |-> x.id, edit |-> x.edit, row |-> y]
        <3> DEFINE e == [x EXCEPT !.phase = z, !.row = y]
        <3>1. /\ e \in Request /\ e.phase = z /\ e.row = y
              /\ e.op = x.op /\ e.id = x.id /\ e.edit = x.edit
            BY <2>1 DEF Request
        <3> HIDE DEF e
        <3>2. e = [phase |-> e.phase, op |-> e.op, id |-> e.id, edit |-> e.edit, row |-> e.row]
            BY <3>1 DEF Request
        <3> QED BY <3>1, <3>2 DEF e
    <2> QED BY <2>2 DEF Committed, x, y, z
<1>6. Committed(s) \in Request BY <1>2, <1>3, <1>4 DEF Committed, Request
<1>7. InPhase(Committed(s)) BY <1>1, <1>2, <1>4 DEF Committed, InPhase, Changing
<1> QED BY <1>1, <1>2, <1>3, <1>5, <1>6, <1>7 DEF Commit

LEMMA CommitTypes == ASSUME InvoiceTypes, NEW s \in Sessions, Commit(s), Exists(request[s].id) PROVE InvoiceTypes'
<1> DEFINE r == request[s]
           i == r.id
           w == Written(invoice[i], Changed(After(r), r.row))
<1>1. /\ r.id \in Records /\ After(r) \in Row /\ r.row \in Row
      /\ request' = [request EXCEPT ![s] = Committed(s)]
      /\ Committed(s) \in Request /\ InPhase(Committed(s))
      /\ invoice' = [invoice EXCEPT ![i] = w]
    BY CommitIs
<1>2. invoice[i] \in Row BY <1>1, ExistsRow
<1>3. w \in Row BY <1>1, <1>2, CommittedRow
<1>4. invoice' \in [Records -> Row \union {NoRow}] BY <1>1, <1>3 DEF InvoiceTypes
<1>5. submissions' \in [Records -> Nat]
    <2>1. submissions' = submissions \/ submissions' = [submissions EXCEPT ![i] = @ + 1] BY DEF Commit
    <2> HIDE DEF i
    <2> QED BY <2>1 DEF InvoiceTypes
<1>6. /\ mirror' = [j \in Records |-> mirror'[j]]
      /\ snapshots' = [c \in Customers |-> snapshots'[c]] /\ \A c \in Customers : IsList(snapshots'[c])
      /\ drafts' \in [Records -> {"none", "draft", "approved", "rejected"}]
      /\ decisions' \in [Records -> Nat]
    BY DEF InvoiceTypes, Commit
<1> QED BY <1>1, <1>4, <1>5, <1>6, TypesStep

LEMMA DraftTypes == ASSUME InvoiceTypes, NEW s \in Sessions, CommitDraft(s) \/ CommitDecision(s) PROVE InvoiceTypes'
<1> DEFINE i == request[s].id
<1>1. request' = [request EXCEPT ![s] = Idle] BY DEF CommitDraft, CommitDecision
<1>2. \E d \in {"draft", "approved", "rejected"} : drafts' = [drafts EXCEPT ![i] = d]
    BY DEF CommitDraft, CommitDecision
<1>3. decisions' = decisions \/ decisions' = [decisions EXCEPT ![i] = @ + 1] BY DEF CommitDraft, CommitDecision
<1> HIDE DEF i
<1>4. drafts' \in [Records -> {"none", "draft", "approved", "rejected"}] BY <1>2 DEF InvoiceTypes
<1>5. decisions' \in [Records -> Nat] BY <1>3 DEF InvoiceTypes
<1>6. /\ invoice' \in [Records -> Row \union {NoRow}]
      /\ mirror' = [j \in Records |-> mirror'[j]]
      /\ snapshots' = [c \in Customers |-> snapshots'[c]] /\ \A c \in Customers : IsList(snapshots'[c])
      /\ submissions' \in [Records -> Nat]
    BY DEF InvoiceTypes, CommitDraft, CommitDecision
<1> QED BY <1>1, <1>4, <1>5, <1>6, TypesStep

\* A session that has mirrored its row goes on with the score, if it changed it.
Mirrored(s) ==
    IF request[s].op # "sync"
    THEN [phase |-> "score", op |-> request[s].op, id |-> request[s].id, edit |-> request[s].edit,
          row |-> request[s].row]
    ELSE Idle

LEMMA MirrorIs ==
    ASSUME InvoiceTypes, NEW s \in Sessions, Mirror(s)
    PROVE  /\ request' = [request EXCEPT ![s] = Mirrored(s)]
           /\ Mirrored(s) = Idle \/ (Mirrored(s) \in Request /\ InPhase(Mirrored(s)))
<1> DEFINE r == request[s]
           c == [r EXCEPT !.phase = "score"]
<1>1. r.phase = "mirror" /\ request' = [request EXCEPT ![s] = IF r.op # "sync" THEN c ELSE Idle]
    BY DEF Mirror
<1>2. r \in Request /\ InPhase(r) BY <1>1, Loaded
<1>3. c = [phase |-> "score", op |-> r.op, id |-> r.id, edit |-> r.edit, row |-> r.row] /\ c \in Request
    <2> DEFINE x == r
    <2>1. x \in Request BY <1>2
    <2> HIDE DEF x
    <2>2. /\ [x EXCEPT !.phase = "score"] = [phase |-> "score", op |-> x.op, id |-> x.id, edit |-> x.edit, row |-> x.row]
          /\ [x EXCEPT !.phase = "score"] \in Request
        BY <2>1 DEF Request
    <2> QED BY <2>2 DEF x
<1>4. r.op # "sync" => InPhase(Mirrored(s)) BY <1>1, <1>2 DEF InPhase, Mirrored
<1> QED BY <1>1, <1>3, <1>4 DEF Mirrored

LEMMA MirrorTypes == ASSUME InvoiceTypes, NEW s \in Sessions, Mirror(s) PROVE InvoiceTypes'
<1>1. mirror' = [i \in Records |-> mirror'[i]] BY DEF InvoiceTypes, Mirror
<1>2. /\ invoice' \in [Records -> Row \union {NoRow}]
      /\ snapshots' = [c \in Customers |-> snapshots'[c]] /\ \A c \in Customers : IsList(snapshots'[c])
      /\ drafts' \in [Records -> {"none", "draft", "approved", "rejected"}]
      /\ submissions' \in [Records -> Nat] /\ decisions' \in [Records -> Nat]
    BY DEF InvoiceTypes, Mirror
<1> QED BY <1>1, <1>2, MirrorIs, TypesStep

\* A score is added at the end or is there.
LEMMA Recalculated ==
    ASSUME InvoiceTypes, NEW c \in Customers, NEW input, NEW now, Recalculate(c, input, now)
    PROVE  /\ snapshots' = [d \in Customers |-> snapshots'[d]] /\ \A d \in Customers : IsList(snapshots'[d])
           /\ \A d \in Customers : \A n \in DOMAIN snapshots[d] :
                  n \in DOMAIN snapshots'[d] /\ snapshots'[d][n] = snapshots[d][n]
           /\ \E n \in DOMAIN snapshots'[c] : snapshots'[c][n].input = input
<1>1. CASE \E n \in DOMAIN snapshots[c] : snapshots[c][n].input = input
    <2>1. snapshots' = snapshots BY <1>1 DEF Recalculate
    <2> QED BY <1>1, <2>1 DEF InvoiceTypes
<1>2. CASE ~\E n \in DOMAIN snapshots[c] : snapshots[c][n].input = input
    <2> DEFINE e == Snapshot(c, input, now)
               a == Append(snapshots[c], e)
    <2>1. snapshots' = [snapshots EXCEPT ![c] = a] BY <1>2 DEF Recalculate
    <2>2. e.input = input BY DEF Snapshot
    <2>3. IsList(snapshots[c]) BY DEF InvoiceTypes
    <2> HIDE DEF e
    <2>4. /\ IsList(a) /\ Len(snapshots[c]) \in Nat
          /\ DOMAIN snapshots[c] = 1 .. Len(snapshots[c]) /\ DOMAIN a = 1 .. Len(snapshots[c]) + 1
          /\ a[Len(snapshots[c]) + 1] = e /\ \A n \in DOMAIN snapshots[c] : a[n] = snapshots[c][n]
        BY <2>3, AppendedList
    <2> HIDE DEF a
    <2>5. snapshots'[c] = a /\ \A d \in Customers : d # c => snapshots'[d] = snapshots[d] BY <2>1 DEF InvoiceTypes
    <2>6. Len(snapshots[c]) + 1 \in DOMAIN a BY <2>4
    <2>7. \A n \in DOMAIN snapshots[c] : n \in DOMAIN a BY <2>4
    <2>8. snapshots' = [d \in Customers |-> snapshots'[d]] BY <2>1 DEF InvoiceTypes
    <2>9. \E n \in DOMAIN snapshots'[c] : snapshots'[c][n].input = input BY <2>2, <2>4, <2>5, <2>6
    <2>10. \A d \in Customers : IsList(snapshots'[d]) BY <2>4, <2>5 DEF InvoiceTypes
    <2> QED BY <2>4, <2>5, <2>7, <2>8, <2>9, <2>10
<1> QED BY <1>1, <1>2

LEMMA ScoreTypes == ASSUME InvoiceTypes, NEW s \in Sessions, NEW now, RecalculateAttention(s, now) PROVE InvoiceTypes'
<1> DEFINE r == request[s]
           c == r.row.buyer
<1>1. r.row \in Row BY Loaded, RequestShape DEF RecalculateAttention
<1>2. snapshots' = [d \in Customers |-> snapshots'[d]] /\ \A d \in Customers : IsList(snapshots'[d])
    <2>1. CASE c = NoCustomer BY <2>1 DEF RecalculateAttention, InvoiceTypes
    <2>2. CASE c # NoCustomer
        <3>1. c \in Customers BY <1>1, <2>2 DEF Row
        <3>2. Recalculate(c, SeenBy(r, c), now) BY <2>2 DEF RecalculateAttention
        <3> HIDE DEF c, r
        <3> QED BY <3>1, <3>2, Recalculated
    <2> QED BY <2>1, <2>2
<1>3. request' = [request EXCEPT ![s] = Idle] BY DEF RecalculateAttention
<1>4. /\ invoice' \in [Records -> Row \union {NoRow}]
      /\ mirror' = [i \in Records |-> mirror'[i]]
      /\ drafts' \in [Records -> {"none", "draft", "approved", "rejected"}]
      /\ submissions' \in [Records -> Nat] /\ decisions' \in [Records -> Nat]
    BY DEF InvoiceTypes, RecalculateAttention
<1> QED BY <1>2, <1>3, <1>4, TypesStep

LEMMA FailTypes == ASSUME InvoiceTypes, NEW s \in Sessions, Fail(s) PROVE InvoiceTypes'
<1>1. Same /\ request' = [request EXCEPT ![s] = Idle] BY DEF Fail, Same
<1> QED BY <1>1, SameTypes

-----------------------------------------------------------------------------
(***************************************************************************)
(* Rows on which no two requests overlap.  A request that has such a row   *)
(* is alone with it, so what it loaded is what is stored and what it was   *)
(* let in for still holds when it commits.                                 *)
(***************************************************************************)

On(s, i) == request[s] # Idle /\ request[s].id = i

\* What a request holds of the row it is alone with.
Ready(r, row, draft) ==
    /\ r.row = row
    /\ r.phase = "write" =>
           /\ r.op = "approve" => row.status = "pending"
           /\ r.op = "pay" => row.status = "validated" /\ ~row.paid
           /\ r.op = "draft" => draft = "none"
           /\ r.op = "decide" => draft = "draft"

Orderly(row, submitted, decided, draft) ==
    /\ submitted \in {0, 1} /\ decided \in {0, 1}
    /\ row.status = "validated" <=> submitted = 1
    /\ row.status # "absent" => /\ row.paid => row.status = "validated"
                                /\ row.status = "review" => row.tin # "given"
    /\ draft \in {"approved", "rejected"} <=> decided = 1

\* A request that changed the row is about to mirror it.
Mirroring(i) == \E s \in Sessions : On(s, i) /\ request[s].phase = "mirror" /\ request[s].op # "sync"

CalmRow(i) ==
    /\ \A s, t \in Sessions : On(s, i) /\ On(t, i) => s = t
    /\ \A s \in Sessions : On(s, i) => Ready(request[s], invoice[i], drafts[i])
    /\ Orderly(invoice[i], submissions[i], decisions[i], drafts[i])
    /\ i \in torn \/ ~Exists(i) \/ Mirroring(i) \/ mirror[i] = Text(invoice[i])

\* The inductive invariant of the invoices, but for the scores.
RowsInv ==
    /\ InvoiceTypes
    /\ \A s \in Sessions : request[s] # Idle => Exists(request[s].id)
    /\ \A i \in Calm : CalmRow(i)

\* The session s goes on with r, and no other request begins or ends.
Moves(s, r) ==
    /\ request' = [request EXCEPT ![s] = r]
    /\ r = Idle \/ r.id \in Records

\* The rows the session is not at stay as they are.
LEMMA OtherRow ==
    ASSUME RowsInv, NEW s \in Sessions, NEW r, Moves(s, r), NEW i \in Calm, ~On(s, i), r = Idle \/ r.id # i,
           invoice'[i] = invoice[i], mirror'[i] = mirror[i], drafts'[i] = drafts[i],
           submissions'[i] = submissions[i], decisions'[i] = decisions[i], i \in torn => i \in torn'
    PROVE  CalmRow(i)'
<1>1. CalmRow(i) /\ i \in Records BY DEF RowsInv, Calm
<1>2. request'[s] = r /\ \A t \in Sessions : t # s => request'[t] = request[t]
    BY DEF Moves, RowsInv, InvoiceTypes
<1>3. \A t \in Sessions : On(t, i)' <=> On(t, i) BY <1>2 DEF On
<1>4. \A t \in Sessions : On(t, i) => request'[t] = request[t] BY <1>2
<1>5. Mirroring(i) => Mirroring(i)' BY <1>3, <1>4 DEF Mirroring
<1>6. Exists(i)' <=> Exists(i) BY DEF Exists
<1> QED BY <1>1, <1>3, <1>4, <1>5, <1>6 DEF CalmRow

\* The row the session is at, when it is the only one there.
LEMMA OwnRow ==
    ASSUME RowsInv, NEW s \in Sessions, NEW r, Moves(s, r), NEW i \in Records,
           \A t \in Sessions : On(t, i) => t = s,
           r = Idle \/ (r.id = i /\ Ready(r, invoice'[i], drafts'[i])),
           Orderly(invoice'[i], submissions'[i], decisions'[i], drafts'[i]),
           \/ i \in torn' \/ invoice'[i].status = "absent"
           \/ r # Idle /\ r.phase = "mirror" /\ r.op # "sync"
           \/ mirror'[i] = Text(invoice'[i])
    PROVE  CalmRow(i)'
<1>1. request'[s] = r /\ \A t \in Sessions : t # s => request'[t] = request[t]
    BY DEF Moves, RowsInv, InvoiceTypes
<1>2. \A t \in Sessions : On(t, i)' => t = s BY <1>1 DEF On
<1>3. On(s, i)' => Ready(r, invoice'[i], drafts'[i]) BY <1>1 DEF On
<1>4. (r # Idle /\ r.phase = "mirror" /\ r.op # "sync") => Mirroring(i)' BY <1>1 DEF Mirroring, On
<1>5. \A t \in Sessions : On(t, i)' => Ready(request'[t], invoice'[i], drafts'[i]) BY <1>1, <1>2, <1>3
<1> QED BY <1>2, <1>4, <1>5 DEF CalmRow, Exists

\* A row that two requests met stays one of those.
LEMMA AtRows ==
    ASSUME RowsInv, NEW s \in Sessions, NEW r, Moves(s, r), InvoiceTypes', contended \subseteq contended',
           r # Idle => invoice'[r.id].status # "absent",
           \A i \in Records : invoice[i].status # "absent" => invoice'[i].status # "absent",
           \A i \in Calm \ contended' : CalmRow(i)'
    PROVE  RowsInv'
<1>1. request'[s] = r /\ \A t \in Sessions : t # s => request'[t] = request[t]
    BY DEF Moves, RowsInv, InvoiceTypes
<1>2. ASSUME NEW t \in Sessions, request'[t] # Idle PROVE Exists(request[t].id)'
    <2>1. CASE t = s BY <1>1, <1>2, <2>1 DEF Exists
    <2>2. CASE t # s
        <3>1. request[t] # Idle /\ request'[t].id = request[t].id BY <1>1, <1>2, <2>2
        <3>2. request[t].id \in Records BY <3>1, Loaded DEF RowsInv
        <3>3. Exists(request[t].id) BY <3>1 DEF RowsInv
        <3>4. invoice'[request[t].id].status # "absent" BY <3>2, <3>3 DEF Exists
        <3> QED BY <3>1, <3>4 DEF Exists
    <2> QED BY <2>1, <2>2
<1>3. \A i \in Records \ contended' : CalmRow(i)' BY DEF Calm
<1> QED BY <1>2, <1>3 DEF RowsInv, Calm

\* A calm row at which the session is alone.
LEMMA AloneAt ==
    ASSUME RowsInv, NEW s \in Sessions, NEW i \in Calm, On(s, i)
    PROVE  /\ \A t \in Sessions : On(t, i) => t = s
           /\ request[s].row = invoice[i] /\ Ready(request[s], invoice[i], drafts[i])
           /\ invoice[i] \in Row /\ Exists(i) /\ i \in Records
           /\ Orderly(invoice[i], submissions[i], decisions[i], drafts[i])
<1>1. CalmRow(i) /\ i \in Records BY DEF RowsInv, Calm
<1>2. Exists(i) BY DEF On, RowsInv
<1> QED BY <1>1, <1>2, ExistsRow DEF CalmRow, Ready, RowsInv

LEMMA BeginRows == ASSUME RowsInv, NEW s \in Sessions, Begins(s) PROVE RowsInv'
<1>1. PICK k \in Records, op \in Writing \union {"sync"}, edit \in Edits \union {NoEdit} :
          (op = "update" => edit \in Edits) /\ Begin(s, op, k, edit)
    BY DEF Begins
<1> DEFINE r == [phase |-> IF op = "sync" THEN "mirror" ELSE "write", op |-> op, id |-> k, edit |-> edit,
                 row |-> invoice[k]]
<1>2. /\ request[s] = Idle /\ Exists(k) /\ Accepts(op, k) /\ (op = "draft" => drafts[k] = "none")
      /\ request' = [request EXCEPT ![s] = r]
      /\ contended' = IF Busy(k) THEN contended \union {k} ELSE contended
      /\ UNCHANGED <<invoice, mirror, snapshots, drafts, submissions, decisions, torn>>
    BY <1>1 DEF Begin
<1>3. InvoiceTypes' BY BeginTypes DEF RowsInv
<1>4. r.id = k /\ r.row = invoice[k] /\ r.op = op /\ (r.phase = "write" => op # "sync") OBVIOUS
<1>5. Moves(s, r) BY <1>2, <1>4 DEF Moves
<1>6. Ready(r, invoice'[k], drafts'[k])
    <2>1. /\ op = "approve" => invoice[k].status = "pending"
          /\ op = "pay" => invoice[k].status = "validated" /\ ~invoice[k].paid
          /\ op = "decide" => drafts[k] = "draft"
        BY <1>2 DEF Accepts
    <2> QED BY <1>2, <1>4, <2>1 DEF Ready
<1> HIDE DEF r
<1>7. ASSUME NEW i \in Calm \ contended' PROVE CalmRow(i)'
    <2>0. CalmRow(i) /\ i \in Records BY DEF RowsInv, Calm
    <2>1. CASE i = k
        <3>1. \A t \in Sessions : ~On(t, k) BY <1>2, <1>7, <2>1, Loaded DEF Busy, On, RowsInv
        <3>2. ~Mirroring(k) BY <3>1 DEF Mirroring
        <3>3. k \in torn \/ invoice[k].status = "absent" \/ mirror[k] = Text(invoice[k])
            BY <2>0, <2>1, <3>2 DEF CalmRow, Exists
        <3>4. Orderly(invoice'[k], submissions'[k], decisions'[k], drafts'[k])
            BY <1>2, <2>0, <2>1 DEF CalmRow
        <3> QED BY <1>2, <1>4, <1>5, <1>6, <2>1, <3>1, <3>3, <3>4, OwnRow
    <2>2. CASE i # k
        <3>1. ~On(s, i) BY <1>2 DEF On
        <3> QED BY <1>2, <1>4, <1>5, <2>2, <3>1, OtherRow
    <2> QED BY <2>1, <2>2
<1>8. contended \subseteq contended' BY <1>2
<1> QED BY <1>2, <1>3, <1>4, <1>5, <1>7, <1>8, AtRows DEF Exists

LEMMA CreateRows == ASSUME RowsInv, NEW s \in Sessions, Create(s) PROVE RowsInv'
<1>1. PICK new \in NewRows, k \in Records :
          /\ ~Exists(k)
          /\ invoice' = [invoice EXCEPT ![k] = Created(new)]
          /\ request' = [request EXCEPT ![s] = [phase |-> "mirror", op |-> "create", id |-> k,
                                                edit |-> NoEdit, row |-> Created(new)]]
    BY DEF Create
<1> DEFINE r == [phase |-> "mirror", op |-> "create", id |-> k, edit |-> NoEdit, row |-> Created(new)]
<1>2. /\ request[s] = Idle /\ request' = [request EXCEPT ![s] = r]
      /\ UNCHANGED <<mirror, snapshots, drafts, submissions, decisions, contended, torn>>
    BY <1>1 DEF Create
<1>3. InvoiceTypes' BY CreateTypes DEF RowsInv
<1>4. r.id = k /\ r.row = Created(new) /\ r.op = "create" /\ r.phase = "mirror" OBVIOUS
<1>5. /\ Created(new) \in Row /\ Created(new).status \in {"pending", "review"} /\ ~Created(new).paid
      /\ Created(new).status = "review" => Created(new).tin # "given"
    BY CreatedRow
<1>6. Moves(s, r) BY <1>2, <1>4 DEF Moves
<1>7. /\ invoice'[k] = Created(new)
      /\ \A i \in Records : i # k => invoice'[i] = invoice[i]
    BY <1>1 DEF RowsInv, InvoiceTypes
<1>8. Ready(r, invoice'[k], drafts'[k]) BY <1>4, <1>7 DEF Ready
<1>9. r # Idle BY <1>4, RequestShape
<1> HIDE DEF r
<1>10. ASSUME NEW i \in Calm \ contended' PROVE CalmRow(i)'
    <2>0. CalmRow(i) /\ i \in Records BY DEF RowsInv, Calm
    <2>1. CASE i = k
        <3>1. \A t \in Sessions : ~On(t, k) BY <1>1 DEF On, RowsInv
        <3>2. Orderly(invoice'[k], submissions'[k], decisions'[k], drafts'[k])
            <4>1. Orderly(invoice[k], submissions[k], decisions[k], drafts[k]) /\ invoice[k].status = "absent"
                BY <1>1, <2>0, <2>1 DEF CalmRow, Exists
            <4> QED BY <1>2, <1>5, <1>7, <4>1 DEF Orderly
        <3> QED BY <1>4, <1>6, <1>8, <1>9, <2>1, <3>1, <3>2, OwnRow
    <2>2. CASE i # k
        <3>1. ~On(s, i) BY <1>2 DEF On
        <3> QED BY <1>2, <1>4, <1>6, <1>7, <2>0, <2>2, <3>1, OtherRow
    <2> QED BY <2>1, <2>2
<1>11. \A i \in Records : invoice[i].status # "absent" => invoice'[i].status # "absent"
    BY <1>1, <1>7 DEF Exists
<1>12. invoice'[r.id].status # "absent" BY <1>4, <1>5, <1>7
<1> QED BY <1>2, <1>3, <1>6, <1>10, <1>11, <1>12, AtRows

LEMMA CommitRows == ASSUME RowsInv, NEW s \in Sessions, Commit(s) PROVE RowsInv'
<1>0. PICK k : k = request[s].id OBVIOUS
<1> DEFINE q == request[s]
           r == Committed(s)
           w == Written(invoice[k], Changed(After(q), q.row))
<1>1. /\ q.phase = "write" /\ q.op \in {"update", "approve", "pay"} /\ k \in Records /\ q.row \in Row
      /\ After(q) \in Row /\ request' = [request EXCEPT ![s] = r]
      /\ r \in Request /\ invoice' = [invoice EXCEPT ![k] = w]
    BY <1>0, CommitIs DEF RowsInv
<1>2. On(s, k) /\ Exists(k) /\ invoice[k] \in Row
    <2>1. q # Idle BY <1>1, Loaded DEF RowsInv
    <2> QED BY <1>0, <1>1, <2>1, ExistsRow DEF On, RowsInv
<1>3. InvoiceTypes' BY <1>0, <1>2, CommitTypes DEF RowsInv
<1>4. UNCHANGED <<mirror, drafts, decisions, contended, torn>> BY DEF Commit
<1>5. w \in Row /\ (invoice[k] = q.row => w = After(q)) BY <1>1, <1>2, CommittedRow
<1>6. r.id = k /\ r.row = After(q) /\ r.op = q.op /\ r.phase = Following(q.op) /\ r # Idle
    BY <1>0, <1>1, RequestShape DEF Committed
<1>7. Moves(s, r) BY <1>1, <1>6 DEF Moves
<1>8. invoice'[k] = w /\ \A i \in Records : i # k => invoice'[i] = invoice[i]
    BY <1>1 DEF RowsInv, InvoiceTypes
<1>9. /\ \A i \in Records : i # k => submissions'[i] = submissions[i]
      /\ submissions'[k] = IF q.op = "approve" THEN submissions[k] + 1 ELSE submissions[k]
    <2>1. submissions' = IF q.op = "approve" THEN [submissions EXCEPT ![k] = @ + 1] ELSE submissions BY <1>0 DEF Commit
    <2> HIDE DEF q
    <2> QED BY <1>1, <2>1 DEF RowsInv, InvoiceTypes
<1>10. ASSUME k \in Calm PROVE CalmRow(k)'
    <2>1. /\ \A t \in Sessions : On(t, k) => t = s
          /\ q.row = invoice[k] /\ Ready(q, invoice[k], drafts[k])
          /\ Orderly(invoice[k], submissions[k], decisions[k], drafts[k])
        BY <1>2, <1>10, AloneAt
    <2>2. invoice'[k] = After(q) BY <1>5, <1>8, <2>1
    <2>3. /\ q.op = "update" => q.edit \in Edits /\ After(q) = Edited(q.row, q.edit)
          /\ q.op = "approve" => After(q) = [q.row EXCEPT !.status = "validated", !.uin = submissions[k] + 1]
          /\ q.op = "pay" => After(q) = [q.row EXCEPT !.paid = TRUE]
        BY <1>0, <1>1, AfterRow DEF RowsInv
    <2>4. Ready(r, invoice'[k], drafts'[k]) BY <1>6, <2>2 DEF Ready, Following
    <2>5. Orderly(invoice'[k], submissions'[k], decisions'[k], drafts'[k])
        <3>1. CASE q.op = "update"
            <4>1. /\ Edited(q.row, q.edit).paid = q.row.paid
                  /\ Edited(q.row, q.edit).status # q.row.status =>
                         q.row.status = "review" /\ Edited(q.row, q.edit).status = "pending"
                  /\ Edited(q.row, q.edit).status = "review" => Edited(q.row, q.edit).tin # "given"
                BY <1>1, <2>3, <3>1, EditedRow
            <4>2. submissions'[k] = submissions[k] BY <1>9, <3>1
            <4> HIDE DEF q
            <4> QED BY <1>4, <2>1, <2>2, <2>3, <3>1, <4>1, <4>2 DEF Orderly
        <3>2. CASE q.op = "approve"
            <4> DEFINE row == q.row
                       n == submissions[k] + 1
                       new == [row EXCEPT !.status = "validated", !.uin = n]
            <4>1. row \in Row /\ row.status = "pending" BY <1>1, <2>1, <3>2 DEF Ready
            <4>2. submissions[k] = 0 /\ decisions[k] \in {0, 1} BY <2>1, <4>1 DEF Orderly
            <4>3. n = 1 /\ submissions'[k] = 1 BY <1>9, <3>2, <4>2
            <4> HIDE DEF row, n
            <4>4. new.status = "validated" BY <4>1 DEF Row
            <4> HIDE DEF new
            <4>5. invoice'[k] = new BY <2>2, <2>3, <3>2 DEF new, row, n
            <4> HIDE DEF q
            <4> QED BY <1>4, <2>1, <4>3, <4>4, <4>5 DEF Orderly
        <3>3. CASE q.op = "pay"
            <4> DEFINE row == q.row
                       new == [row EXCEPT !.paid = TRUE]
            <4>1. row \in Row /\ row.status = "validated" BY <1>1, <2>1, <3>3 DEF Ready
            <4> HIDE DEF row
            <4>4. new.status = "validated" BY <4>1 DEF Row
            <4> HIDE DEF new
            <4>5. invoice'[k] = new /\ invoice[k].status = "validated" BY <2>1, <2>2, <2>3, <3>3, <4>1 DEF new, row
            <4>6. submissions'[k] = submissions[k] BY <1>9, <3>3
            <4> HIDE DEF q
            <4> QED BY <1>4, <2>1, <4>4, <4>5, <4>6 DEF Orderly
        <3> QED BY <1>1, <3>1, <3>2, <3>3
    <2>6. \/ k \in torn' \/ (r.phase = "mirror" /\ r.op # "sync") \/ mirror'[k] = Text(invoice'[k])
        <3>1. CASE q.op = "pay"
            <4>1. ~Mirroring(k) BY <1>1, <2>1 DEF Mirroring, On
            <4>2. k \in torn \/ mirror[k] = Text(invoice[k]) BY <1>2, <1>10, <4>1 DEF RowsInv, CalmRow
            <4> DEFINE row == q.row
                       new == [row EXCEPT !.paid = TRUE]
            <4>3. row \in Row BY <1>1
            <4> HIDE DEF row
            <4>4. Text(new) = Text(row) BY <4>3 DEF Row, Text
            <4> HIDE DEF new
            <4>5. invoice'[k] = new BY <2>2, <2>3, <3>1 DEF new, row
            <4>6. invoice[k] = row BY <2>1 DEF row
            <4> QED BY <1>4, <4>2, <4>4, <4>5, <4>6
        <3>2. CASE q.op # "pay" BY <1>1, <1>6, <3>2 DEF Following
        <3> QED BY <3>1, <3>2
    <2> HIDE DEF r, q
    <2> QED BY <1>1, <1>6, <1>7, <2>1, <2>4, <2>5, <2>6, OwnRow
<1> HIDE DEF r, w
<1>11. ASSUME NEW i \in Calm \ contended', i # k PROVE CalmRow(i)'
    <2>1. ~On(s, i) /\ i \in Records BY <1>0, <1>11 DEF On, Calm
    <2> QED BY <1>4, <1>6, <1>7, <1>8, <1>9, <1>11, <2>1, OtherRow
<1>12. \A i \in Calm \ contended' : CalmRow(i)' BY <1>4, <1>10, <1>11 DEF Calm
<1>13. w.status # "absent" BY <1>5 DEF Row
<1>14. \A i \in Records : invoice[i].status # "absent" => invoice'[i].status # "absent" BY <1>8, <1>13
<1>15. invoice'[r.id].status # "absent" BY <1>6, <1>8, <1>13
<1> QED BY <1>3, <1>4, <1>7, <1>12, <1>14, <1>15, AtRows

\* A step at the record k that leaves the table alone.
OnlyAt(k) ==
    /\ UNCHANGED <<invoice, submissions, contended>>
    /\ \A i \in Records \ {k} : /\ drafts'[i] = drafts[i] /\ decisions'[i] = decisions[i]
                                /\ mirror'[i] = mirror[i] /\ (i \in torn => i \in torn')

\* Such are those that draft or decide a fix request, mirror the row, score the
\* buyer, or end the request.
LEMMA TableStays ==
    ASSUME RowsInv, NEW s \in Sessions, NEW r, NEW k, k = request[s].id, request[s] # Idle, InvoiceTypes',
           request' = [request EXCEPT ![s] = r],
           r = Idle \/ (r.phase = "score" /\ r.id = k /\ r.row = request[s].row),
           OnlyAt(k),
           k \in Calm =>
               /\ Orderly(invoice[k], submissions[k], decisions'[k], drafts'[k])
               /\ k \in torn' \/ mirror'[k] = Text(invoice[k])
    PROVE  RowsInv'
<1>1. k \in Records /\ On(s, k) BY Loaded DEF RowsInv, On
<1>2. Moves(s, r) BY <1>1 DEF Moves
<1>3. ASSUME NEW i \in Calm \ contended' PROVE CalmRow(i)'
    <2>1. CASE i = k
        <3>1. /\ \A t \in Sessions : On(t, k) => t = s
              /\ request[s].row = invoice[k]
            BY <1>1, <2>1, AloneAt
        <3>2. r = Idle \/ (r.id = k /\ Ready(r, invoice'[k], drafts'[k])) BY <3>1 DEF Ready, OnlyAt
        <3> QED BY <1>1, <1>2, <2>1, <3>1, <3>2, OwnRow DEF OnlyAt
    <2>2. CASE i # k
        <3>1. ~On(s, i) BY <2>2 DEF On
        <3> QED BY <1>2, <2>2, <3>1, OtherRow DEF OnlyAt, Calm
    <2> QED BY <2>1, <2>2
<1>4. r # Idle => invoice'[r.id].status # "absent" BY DEF OnlyAt, RowsInv, Exists
<1> QED BY <1>2, <1>3, <1>4, AtRows DEF OnlyAt

LEMMA DraftRows == ASSUME RowsInv, NEW s \in Sessions, CommitDraft(s) \/ CommitDecision(s) PROVE RowsInv'
<1>0. PICK k : k = request[s].id OBVIOUS
<1>1. /\ request[s].phase = "write" /\ request[s].op \in {"draft", "decide"}
      /\ request' = [request EXCEPT ![s] = Idle]
      /\ UNCHANGED <<invoice, submissions, contended, mirror, torn>>
    BY DEF CommitDraft, CommitDecision
<1>2. request[s] # Idle /\ k \in Records BY <1>0, <1>1, Loaded DEF RowsInv
<1>3. InvoiceTypes' BY DraftTypes DEF RowsInv
<1>4. \/ /\ request[s].op = "draft"
         /\ drafts' = [drafts EXCEPT ![k] = "draft"] /\ decisions' = decisions
      \/ /\ request[s].op = "decide"
         /\ \E d \in {"approved", "rejected"} : drafts' = [drafts EXCEPT ![k] = d]
         /\ decisions' = [decisions EXCEPT ![k] = @ + 1]
    BY <1>0 DEF CommitDraft, CommitDecision
<1>5. OnlyAt(k) BY <1>1, <1>4 DEF RowsInv, InvoiceTypes, OnlyAt
<1>6. ASSUME k \in Calm
      PROVE  /\ Orderly(invoice[k], submissions[k], decisions'[k], drafts'[k])
             /\ k \in torn \/ mirror[k] = Text(invoice[k])
    <2>1. /\ \A t \in Sessions : On(t, k) => t = s
          /\ Ready(request[s], invoice[k], drafts[k]) /\ Exists(k)
          /\ Orderly(invoice[k], submissions[k], decisions[k], drafts[k])
        BY <1>0, <1>2, <1>6, AloneAt DEF On
    <2>2. ~Mirroring(k) BY <1>1, <2>1 DEF Mirroring
    <2>3. k \in torn \/ mirror[k] = Text(invoice[k]) BY <1>6, <2>1, <2>2 DEF RowsInv, CalmRow
    <2>4. drafts[k] \in {"none", "draft"} /\ decisions[k] = 0
        BY <1>1, <2>1 DEF Ready, Orderly
    <2>5. \/ drafts'[k] = "draft" /\ decisions'[k] = 0
          \/ drafts'[k] \in {"approved", "rejected"} /\ decisions'[k] = 1
        BY <1>2, <1>4, <2>4 DEF RowsInv, InvoiceTypes
    <2> QED BY <2>1, <2>3, <2>5 DEF Orderly
<1> QED BY <1>0, <1>1, <1>2, <1>3, <1>5, <1>6, TableStays

LEMMA MirrorRows == ASSUME RowsInv, NEW s \in Sessions, Mirror(s) PROVE RowsInv'
<1>0. PICK k : k = request[s].id OBVIOUS
<1>1. /\ request[s].phase = "mirror"
      /\ mirror' = [mirror EXCEPT ![k] = Text(request[s].row)]
      /\ torn' = torn \ {k}
      /\ UNCHANGED <<invoice, submissions, contended, drafts, decisions>>
    BY <1>0 DEF Mirror
<1>2. request[s] # Idle /\ k \in Records BY <1>0, <1>1, Loaded DEF RowsInv
<1>3. InvoiceTypes' BY MirrorTypes DEF RowsInv
<1>4. PICK r : r = Mirrored(s) /\ request' = [request EXCEPT ![s] = r] BY MirrorIs DEF RowsInv
<1>5. r = Idle \/ (r.phase = "score" /\ r.id = k /\ r.row = request[s].row)
    BY <1>0, <1>4 DEF Mirrored
<1>6. ASSUME k \in Calm
      PROVE  /\ Orderly(invoice[k], submissions[k], decisions'[k], drafts'[k])
             /\ k \in torn' \/ mirror'[k] = Text(invoice[k])
    <2>1. /\ request[s].row = invoice[k]
          /\ Orderly(invoice[k], submissions[k], decisions[k], drafts[k])
        BY <1>0, <1>2, <1>6, AloneAt DEF On
    <2> QED BY <1>1, <1>2, <2>1 DEF RowsInv, InvoiceTypes
<1>7. OnlyAt(k) BY <1>1 DEF RowsInv, InvoiceTypes, OnlyAt
<1> QED BY <1>0, <1>2, <1>3, <1>4, <1>5, <1>6, <1>7, TableStays

LEMMA EndRows ==
    ASSUME RowsInv, NEW s \in Sessions, (\E now : RecalculateAttention(s, now)) \/ Fail(s)
    PROVE  RowsInv'
<1>0. PICK k : k = request[s].id OBVIOUS
<1>1. /\ request[s].phase # "idle" /\ request' = [request EXCEPT ![s] = Idle]
      /\ UNCHANGED <<invoice, submissions, contended, drafts, decisions, mirror>>
    BY DEF RecalculateAttention, Fail
<1>2. /\ request[s] # Idle /\ k \in Records /\ InPhase(request[s])
      /\ request[s].phase \in {"write", "mirror", "score"}
    BY <1>0, <1>1, Loaded DEF RowsInv
<1>3. InvoiceTypes' BY ScoreTypes, FailTypes DEF RowsInv
<1>4. torn \subseteq torn' BY DEF RecalculateAttention, Fail
<1>5. ASSUME k \in Calm
      PROVE  /\ Orderly(invoice[k], submissions[k], decisions[k], drafts[k])
             /\ k \in torn' \/ mirror[k] = Text(invoice[k])
    <2>1. /\ \A t \in Sessions : On(t, k) => t = s
          /\ Orderly(invoice[k], submissions[k], decisions[k], drafts[k]) /\ Exists(k)
        BY <1>0, <1>2, <1>5, AloneAt DEF On
    <2>2. CASE Mirroring(k)
        <3>1. request[s].phase = "mirror" /\ request[s].op # "sync" BY <2>1, <2>2 DEF Mirroring
        <3>2. Fail(s) BY <3>1 DEF RecalculateAttention
        <3> QED BY <1>0, <2>1, <3>1, <3>2 DEF Fail
    <2>3. CASE ~Mirroring(k) BY <1>4, <1>5, <2>1, <2>3 DEF RowsInv, CalmRow
    <2> QED BY <2>1, <2>2, <2>3
<1>6. OnlyAt(k) BY <1>1, <1>4 DEF OnlyAt
<1> QED BY <1>0, <1>1, <1>2, <1>3, <1>5, <1>6, TableStays

LEMMA QuietRows == ASSUME RowsInv, UNCHANGED invoiceVars PROVE RowsInv'
<1>1. UNCHANGED <<invoice, request, mirror, snapshots, drafts, submissions, decisions, contended, torn>>
    BY DEF invoiceVars
<1>2. InvoiceTypes' BY <1>1 DEF RowsInv, InvoiceTypes
<1>3. \A i : CalmRow(i) => CalmRow(i)'
    <2> TAKE i
    <2>1. \A t \in Sessions : On(t, i)' <=> On(t, i) BY <1>1 DEF On
    <2>2. Mirroring(i)' <=> Mirroring(i) BY <1>1, <2>1 DEF Mirroring
    <2> QED BY <1>1, <2>1, <2>2 DEF CalmRow, Exists
<1>4. \A s \in Sessions : request'[s] # Idle => Exists(request[s].id)' BY <1>1 DEF RowsInv, Exists
<1> QED BY <1>1, <1>2, <1>3, <1>4 DEF RowsInv, Calm

LEMMA InitRows == Init => RowsInv
<1> SUFFICES ASSUME Init PROVE RowsInv OBVIOUS
<1>1. InvoiceInit BY DEF Init
<1>2. InvoiceTypes BY <1>1, InitInvoiceTypes
<1>3. \A s \in Sessions : request[s] = Idle BY <1>1 DEF InvoiceInit
<1>4. ASSUME NEW i \in Records PROVE CalmRow(i)
    <2>1. /\ invoice[i].status = "absent" /\ submissions[i] = 0 /\ decisions[i] = 0 /\ drafts[i] = "none"
        BY <1>1 DEF InvoiceInit, NoRow
    <2> QED BY <1>3, <2>1 DEF CalmRow, On, Orderly, Exists
<1> QED BY <1>2, <1>3, <1>4 DEF RowsInv, Calm

\* The steps of the invoices.
LEMMA InvoiceStep ==
    ASSUME NEW now, InvoiceNext(now)
    PROVE  \E s \in Sessions : \/ Create(s) \/ Begins(s) \/ Commit(s) \/ CommitDraft(s) \/ CommitDecision(s)
                               \/ Mirror(s) \/ RecalculateAttention(s, now) \/ Fail(s)
BY BeginsIs DEF InvoiceNext

LEMMA NextRows == RowsInv /\ [Next]_vars => RowsInv'
<1> SUFFICES ASSUME RowsInv, [Next]_vars PROVE RowsInv' OBVIOUS
<1>1. CASE InvoiceNext(today)
    BY <1>1, InvoiceStep, CreateRows, BeginRows, CommitRows, DraftRows, MirrorRows, EndRows
<1>2. CASE UNCHANGED invoiceVars BY <1>2, QuietRows
<1>3. InvoiceNext(today) \/ UNCHANGED invoiceVars
    BY DEF Next, vars, NextDay, BeginSave, CommitSave, ChangeChat, PlanBegin, PlanOne, PlanEnd, ApproveReminder,
           SendReminder, SetReminder
<1> QED BY <1>1, <1>2, <1>3

\* Requests that do not overlap submit an invoice once, decide its fix
\* request once, and never take back a submission or a payment.
THEOREM SubmissionsOnce == Spec => []SubmittedOnce
<1>1. ASSUME RowsInv PROVE SubmittedOnce
    <2> SUFFICES ASSUME NEW i \in Calm
                 PROVE  /\ submissions[i] <= 1 /\ decisions[i] <= 1
                        /\ Exists(i) => /\ invoice[i].status = "validated" <=> submissions[i] = 1
                                        /\ invoice[i].paid => invoice[i].status = "validated"
                                        /\ invoice[i].status = "review" /\ invoice[i].tin # "blank"
                                               => Category(invoice[i]) = "critical"
                        /\ drafts[i] \in {"approved", "rejected"} <=> decisions[i] = 1
        BY DEF SubmittedOnce
    <2>1. Orderly(invoice[i], submissions[i], decisions[i], drafts[i]) /\ i \in Records
        BY <1>1 DEF RowsInv, Calm, CalmRow
    <2>2. Exists(i) => invoice[i] \in Row BY <1>1, <2>1, ExistsRow DEF RowsInv
    <2>3. ASSUME Exists(i), invoice[i].status = "review", invoice[i].tin # "blank"
          PROVE  Category(invoice[i]) = "critical"
        <3>1. invoice[i].tin = "missing" BY <2>1, <2>2, <2>3 DEF Orderly, Row
        <3> QED BY <3>1 DEF Category
    <2> QED BY <2>1, <2>3 DEF Orderly, Exists
<1> QED BY <1>1, InitRows, NextRows, PTL DEF Spec

\* What chat cites about an invoice is what the table holds, between the
\* requests that do not overlap and do not die.
THEOREM MirrorSound == Spec => []MirrorCurrent
<1>1. RowsInv => MirrorCurrent BY RequestShape DEF RowsInv, CalmRow, MirrorCurrent, Mirroring, On, Calm
<1> QED BY <1>1, InitRows, NextRows, PTL DEF Spec

-----------------------------------------------------------------------------
(***************************************************************************)
(* Scores.  What a customer owes has been scored, is about to be by the    *)
(* request that changed it, or it is known why it was not.                 *)
(***************************************************************************)

ToScore(s, c) ==
    /\ request[s] # Idle /\ request[s].phase \in {"mirror", "score"}
    /\ request[s].op # "sync" /\ request[s].row.buyer = c

Known(c) == \E n \in DOMAIN snapshots[c] : snapshots[c][n].input = Input(c)

Scored(c) ==
    \/ c \in unscored
    \/ InvoicesOf(c) = {} \/ InvoicesOf(c) \cap contended # {}
    \/ \E s \in Sessions : ToScore(s, c)
    \/ Known(c)

ScoresInv == RowsInv /\ \A c \in Customers : Scored(c)

\* The invoices of the customer stay what they are.
SameInvoices(c) == InvoicesOf(c)' = InvoicesOf(c) /\ Input(c)' = Input(c)

LEMMA TableSame == ASSUME NEW c, UNCHANGED invoice PROVE SameInvoices(c)
BY DEF SameInvoices, InvoicesOf, Input, Exists

LEMMA RowElsewhere ==
    ASSUME NEW c, NEW k \in Records, \A i \in Records \ {k} : invoice'[i] = invoice[i],
           ~(Exists(k) /\ invoice[k].buyer = c), invoice'[k].buyer # c
    PROVE  SameInvoices(c)
<1>1. InvoicesOf(c)' = InvoicesOf(c) /\ k \notin InvoicesOf(c) BY DEF InvoicesOf, Exists
<1>2. \A i \in InvoicesOf(c) : i \in Records \ {k} BY <1>1 DEF InvoicesOf
<1>3. {Facts(i, invoice'[i]) : i \in InvoicesOf(c)} = {Facts(i, invoice[i]) : i \in InvoicesOf(c)} BY <1>2
<1>4. Input(c)' = Input(c) BY <1>1, <1>3 DEF Input, Facts
<1> QED BY <1>1, <1>4 DEF SameInvoices

\* A customer whose invoices a step leaves alone.
LEMMA ScoredStays ==
    ASSUME NEW c, Scored(c), SameInvoices(c), unscored \subseteq unscored', contended \subseteq contended',
           snapshots'[c] = snapshots[c],
           \A s \in Sessions : ToScore(s, c) => ToScore(s, c)' \/ c \in unscored'
    PROVE  Scored(c)'
BY DEF Scored, SameInvoices, Known

LEMMA BeginScores == ASSUME ScoresInv, NEW s \in Sessions, Begins(s), NEW c \in Customers PROVE Scored(c)'
<1>1. PICK r : request[s] = Idle /\ request' = [request EXCEPT ![s] = r] BY DEF Begins, Begin
<1>2. UNCHANGED <<invoice, snapshots, unscored>> /\ contended \subseteq contended' BY DEF Begins, Begin
<1>3. \A t \in Sessions : ToScore(t, c) => ToScore(t, c)'
    BY <1>1 DEF ToScore, ScoresInv, RowsInv, InvoiceTypes
<1> QED BY <1>2, <1>3, TableSame, ScoredStays DEF ScoresInv

LEMMA CreateScores == ASSUME ScoresInv, NEW s \in Sessions, Create(s), NEW c \in Customers PROVE Scored(c)'
<1>1. PICK new \in NewRows, k \in Records :
          /\ ~Exists(k)
          /\ invoice' = [invoice EXCEPT ![k] = Created(new)]
          /\ request' = [request EXCEPT ![s] = [phase |-> "mirror", op |-> "create", id |-> k,
                                                edit |-> NoEdit, row |-> Created(new)]]
    BY DEF Create
<1>2. request[s] = Idle /\ UNCHANGED <<snapshots, unscored, contended>> BY DEF Create
<1>3. /\ request'[s] = [phase |-> "mirror", op |-> "create", id |-> k, edit |-> NoEdit, row |-> Created(new)]
      /\ \A t \in Sessions : t # s => request'[t] = request[t]
    BY <1>1 DEF ScoresInv, RowsInv, InvoiceTypes
<1>4. invoice'[k] = Created(new) /\ \A i \in Records \ {k} : invoice'[i] = invoice[i]
    BY <1>1 DEF ScoresInv, RowsInv, InvoiceTypes
<1>5. CASE Created(new).buyer = c
    <2>1. request'[s] # Idle BY <1>3, RequestShape
    <2>2. ToScore(s, c)' BY <1>3, <1>5, <2>1 DEF ToScore
    <2> QED BY <2>2 DEF Scored
<1>6. CASE Created(new).buyer # c
    <2>1. SameInvoices(c) BY <1>1, <1>4, <1>6, RowElsewhere
    <2>2. \A t \in Sessions : ToScore(t, c) => ToScore(t, c)' BY <1>2, <1>3 DEF ToScore
    <2> QED BY <1>2, <2>1, <2>2, ScoredStays DEF ScoresInv
<1> QED BY <1>5, <1>6

LEMMA CommitScores == ASSUME ScoresInv, NEW s \in Sessions, Commit(s), NEW c \in Customers PROVE Scored(c)'
<1>0. PICK k : k = request[s].id OBVIOUS
<1> DEFINE q == request[s]
           w == Written(invoice[k], Changed(After(q), q.row))
<1>1. /\ q.phase = "write" /\ q.op \in {"update", "approve", "pay"} /\ k \in Records /\ q.row \in Row
      /\ After(q) \in Row /\ request' = [request EXCEPT ![s] = Committed(s)]
      /\ Committed(s) \in Request /\ invoice' = [invoice EXCEPT ![k] = w]
    BY <1>0, CommitIs DEF ScoresInv, RowsInv
<1>2. On(s, k) /\ Exists(k) /\ invoice[k] \in Row
    <2>1. q # Idle BY <1>1, Loaded DEF ScoresInv, RowsInv
    <2> QED BY <1>0, <1>1, <2>1, ExistsRow DEF On, ScoresInv, RowsInv
<1>3. /\ UNCHANGED <<snapshots, contended>>
      /\ unscored' = unscored \union ({invoice[k].buyer} \ {invoice'[k].buyer, NoCustomer})
    BY <1>0 DEF Commit
<1>4. w \in Row /\ (invoice[k] = q.row => w = After(q)) BY <1>1, <1>2, CommittedRow
<1>5. invoice'[k] = w /\ \A i \in Records \ {k} : invoice'[i] = invoice[i]
    BY <1>1 DEF ScoresInv, RowsInv, InvoiceTypes
<1>6. request'[s] = Committed(s) /\ \A t \in Sessions : t # s => request'[t] = request[t]
    BY <1>1 DEF ScoresInv, RowsInv, InvoiceTypes
<1>7. CASE invoice'[k].buyer = c
    <2>1. CASE k \in contended
        <3>1. k \in InvoicesOf(c)' BY <1>1, <1>4, <1>5, <1>7 DEF InvoicesOf, Exists, Row
        <3> QED BY <1>3, <2>1, <3>1 DEF Scored
    <2>2. CASE k \notin contended
        <3>1. q.row = invoice[k] BY <1>1, <1>2, <2>2, AloneAt DEF ScoresInv, Calm
        <3>2. After(q).buyer = c BY <1>4, <1>5, <1>7, <3>1
        <3>3. Committed(s) # Idle BY <1>1, RequestShape
        <3>4. ToScore(s, c)' BY <1>1, <1>6, <3>2, <3>3 DEF ToScore, Committed, Following
        <3> QED BY <3>4 DEF Scored
    <2> QED BY <2>1, <2>2
<1>8. CASE invoice'[k].buyer # c /\ invoice[k].buyer = c
    <2>1. c # NoCustomer BY InvoiceAssumption
    <2>2. c \in unscored' BY <1>3, <1>8, <2>1
    <2> QED BY <2>2 DEF Scored
<1>9. CASE invoice'[k].buyer # c /\ invoice[k].buyer # c
    <2>1. SameInvoices(c) BY <1>1, <1>5, <1>9, RowElsewhere
    <2>2. ~ToScore(s, c) BY <1>1 DEF ToScore
    <2>3. \A t \in Sessions : ToScore(t, c) => ToScore(t, c)' BY <1>6, <2>2 DEF ToScore
    <2>4. unscored \subseteq unscored' BY <1>3
    <2> HIDE DEF q, w
    <2> QED BY <1>3, <2>1, <2>3, <2>4, ScoredStays DEF ScoresInv
<1> QED BY <1>7, <1>8, <1>9

LEMMA DraftScores ==
    ASSUME ScoresInv, NEW s \in Sessions, CommitDraft(s) \/ CommitDecision(s), NEW c \in Customers
    PROVE  Scored(c)'
<1>1. request[s].phase = "write" /\ request' = [request EXCEPT ![s] = Idle] BY DEF CommitDraft, CommitDecision
<1>2. UNCHANGED <<invoice, snapshots, unscored, contended>> BY DEF CommitDraft, CommitDecision
<1>3. \A t \in Sessions : ToScore(t, c) => ToScore(t, c)'
    BY <1>1 DEF ToScore, ScoresInv, RowsInv, InvoiceTypes
<1> QED BY <1>2, <1>3, TableSame, ScoredStays DEF ScoresInv

LEMMA MirrorScores == ASSUME ScoresInv, NEW s \in Sessions, Mirror(s), NEW c \in Customers PROVE Scored(c)'
<1>1. request'[s] = Mirrored(s) /\ \A t \in Sessions : t # s => request'[t] = request[t]
    BY MirrorIs DEF ScoresInv, RowsInv, InvoiceTypes
<1>2. UNCHANGED <<invoice, snapshots, unscored, contended>> BY DEF Mirror
<1>3. ToScore(s, c) => ToScore(s, c)'
    <2>1. request[s].op # "sync" => Mirrored(s) # Idle BY RequestShape DEF Mirrored
    <2> QED BY <1>1, <2>1 DEF ToScore, Mirrored
<1>4. \A t \in Sessions : ToScore(t, c) => ToScore(t, c)' BY <1>1, <1>3 DEF ToScore
<1> QED BY <1>2, <1>4, TableSame, ScoredStays DEF ScoresInv

\* The buyer the request has in memory is scored with the row it has in
\* memory: what is stored, of a calm row.
LEMMA ScoreScores ==
    ASSUME ScoresInv, NEW s \in Sessions, NEW now, RecalculateAttention(s, now), NEW c \in Customers
    PROVE  Scored(c)'
<1>0. PICK k : k = request[s].id OBVIOUS
<1> DEFINE q == request[s]
           b == q.row.buyer
<1>1. q.phase = "score" /\ request' = [request EXCEPT ![s] = Idle] /\ UNCHANGED <<invoice, contended>>
    BY DEF RecalculateAttention
<1>2. q # Idle /\ k \in Records /\ q.row \in Row BY <1>0, <1>1, Loaded DEF ScoresInv, RowsInv
<1>3. SameInvoices(c) BY <1>1, TableSame
<1>4. \A t \in Sessions : t # s => request'[t] = request[t] BY <1>1 DEF ScoresInv, RowsInv, InvoiceTypes
<1>5. CASE b = c
    <2>0. c # NoCustomer BY InvoiceAssumption
    <2>1. Recalculate(c, SeenBy(q, c), now) BY <1>5, <2>0 DEF RecalculateAttention
    <2>2. \E n \in DOMAIN snapshots'[c] : snapshots'[c][n].input = SeenBy(q, c)
        <3> HIDE DEF q, b
        <3> QED BY <2>1, Recalculated DEF ScoresInv, RowsInv
    <2>3. CASE k \in InvoicesOf(c) /\ k \in contended
        <3>1. InvoicesOf(c)' \cap contended' # {} BY <1>1, <1>3, <2>3 DEF SameInvoices
        <3> QED BY <3>1 DEF Scored
    <2>4. CASE ~(k \in InvoicesOf(c) /\ k \in contended)
        <3>1. k \in InvoicesOf(c) => q.row = invoice[k]
            BY <1>0, <1>2, <2>4, AloneAt DEF ScoresInv, Calm, On
        <3>2. \A i \in InvoicesOf(c) : (IF i = q.id THEN q.row ELSE invoice[i]) = invoice[i] BY <1>0, <3>1
        <3> HIDE DEF q
        <3>3. SeenBy(q, c) = Input(c) BY <3>2 DEF SeenBy, Input
        <3>4. SeenBy(q, c) = Input(c)' BY <1>3, <3>3 DEF SameInvoices
        <3>5. Known(c)' BY <2>2, <3>4 DEF Known
        <3> QED BY <3>5 DEF Scored
    <2> QED BY <2>3, <2>4
<1>6. CASE b # c
    <2>1. snapshots'[c] = snapshots[c]
        <3>1. CASE b = NoCustomer BY <3>1 DEF RecalculateAttention
        <3>2. CASE b # NoCustomer
            <4>1. \/ snapshots' = snapshots
                  \/ snapshots' = [snapshots EXCEPT ![b] = Append(@, Snapshot(b, SeenBy(q, b), now))]
                BY <3>2 DEF RecalculateAttention, Recalculate
            <4> HIDE DEF b, q
            <4> QED BY <1>6, <4>1 DEF ScoresInv, RowsInv, InvoiceTypes
        <3> QED BY <3>1, <3>2
    <2>2. ~ToScore(s, c) BY <1>6 DEF ToScore
    <2>3. \A t \in Sessions : ToScore(t, c) => ToScore(t, c)' BY <1>4, <2>2 DEF ToScore
    <2>4. c \in unscored => c \in unscored' BY <1>6 DEF RecalculateAttention
    <2> HIDE DEF q, b
    <2> QED BY <1>1, <1>3, <2>1, <2>3, <2>4 DEF ScoresInv, Scored, SameInvoices, Known
<1> QED BY <1>5, <1>6

LEMMA FailScores == ASSUME ScoresInv, NEW s \in Sessions, Fail(s), NEW c \in Customers PROVE Scored(c)'
<1>1. request' = [request EXCEPT ![s] = Idle] BY DEF Fail
<1>2. UNCHANGED <<invoice, snapshots, contended>> /\ unscored \subseteq unscored' BY DEF Fail
<1>3. ToScore(s, c) => c \in unscored' BY InvoiceAssumption DEF ToScore, Fail
<1>4. \A t \in Sessions : t # s => (ToScore(t, c) => ToScore(t, c)')
    BY <1>1 DEF ToScore, ScoresInv, RowsInv, InvoiceTypes
<1>5. \A t \in Sessions : ToScore(t, c) => ToScore(t, c)' \/ c \in unscored' BY <1>3, <1>4
<1> QED BY <1>2, <1>5, TableSame, ScoredStays DEF ScoresInv

LEMMA InitScores == Init => ScoresInv
<1> SUFFICES ASSUME Init PROVE ScoresInv OBVIOUS
<1>1. \A i \in Records : ~Exists(i) BY DEF Init, InvoiceInit, Exists, NoRow
<1>2. \A c \in Customers : InvoicesOf(c) = {} BY <1>1 DEF InvoicesOf
<1> QED BY <1>2, InitRows DEF ScoresInv, Scored

LEMMA NextScores == ScoresInv /\ [Next]_vars => ScoresInv'
<1> SUFFICES ASSUME ScoresInv, [Next]_vars PROVE ScoresInv' OBVIOUS
<1>1. ASSUME NEW c \in Customers PROVE Scored(c)'
    <2>1. CASE InvoiceNext(today)
        BY <2>1, InvoiceStep, CreateScores, BeginScores, CommitScores, DraftScores, MirrorScores, ScoreScores, FailScores
    <2>2. CASE UNCHANGED invoiceVars
        <3>1. UNCHANGED <<invoice, request, snapshots, contended, unscored>> BY <2>2 DEF invoiceVars
        <3>2. \A t \in Sessions : ToScore(t, c) => ToScore(t, c)' BY <3>1 DEF ToScore
        <3> QED BY <3>1, <3>2, TableSame, ScoredStays DEF ScoresInv
    <2>3. InvoiceNext(today) \/ UNCHANGED invoiceVars
        BY DEF Next, vars, NextDay, BeginSave, CommitSave, ChangeChat, PlanBegin, PlanOne, PlanEnd, ApproveReminder,
               SendReminder, SetReminder
    <2> QED BY <2>1, <2>2, <2>3
<1> QED BY <1>1, NextRows DEF ScoresInv

\* What a customer owes has been scored once the requests on the invoices of
\* the customer are through, unless they overlapped or died, or the last
\* change took an invoice away.
THEOREM AttentionSound == Spec => []AttentionCurrent
<1>1. ScoresInv => AttentionCurrent
    BY DEF ScoresInv, Scored, AttentionCurrent, ToScore, Known
<1> QED BY <1>1, InitScores, NextScores, PTL DEF Spec

-----------------------------------------------------------------------------
(***************************************************************************)
(* The reminders.  A reminder keeps the settings and the day it was        *)
(* planned with, so its stage stays the interval it was planned in, and    *)
(* keys are unique.  No more is needed of the policy's versions.           *)
(***************************************************************************)

Policies == [enabled : BOOLEAN, grace : Nat, repeat : Nat \ {0}, max : Nat \ {0}, approval : BOOLEAN,
             version : Nat]

Pass == [phase : {"pass"}, policy : Policies, day : Nat, row : [Records -> Row \union {NoRow}],
         left : SUBSET Records]

Reminder == [id : Records, chat : Endpoints, stage : Nat, version : Nat, buyer : Customers, amount : Nat,
             due : Nat, day : Nat, settings : Policies,
             status : {"pending_approval", "approved", "sent", "cancelled"}]

\* The row of an invoice that may be reminded of.
Remindable(row) == row \in Row /\ row.due \in Nat /\ row.buyer \in Customers

Saving == [phase : {"saving"}, seen : Policies, new : Policies]

Timely(r) ==
    /\ r.version = r.settings.version
    /\ r.due + r.settings.grace < r.day
    /\ r.stage = 1 + (r.day - r.due - r.settings.grace - 1) \div r.settings.repeat
    /\ r.stage <= r.settings.max

ReminderTypes ==
    /\ today \in Nat
    /\ policy \in Policies \union {NoPolicy}
    /\ chat \in [Customers -> Endpoints \union {NoChat}]
    /\ save \in [Savers -> Saving \union {NoSave}]
    /\ planner \in Pass \union {Sleeping}
    /\ reminders \in Seq(Reminder)

RemindersInv ==
    /\ ReminderTypes
    /\ \A s \in Savers : save[s] # NoSave => policy \in Policies
    /\ planner # Sleeping => \A i \in planner.left : Remindable(planner.row[i])
    /\ \A n \in DOMAIN reminders : Timely(reminders[n])
    /\ \A m, n \in DOMAIN reminders : Key(reminders[m]) = Key(reminders[n]) => m = n

-----------------------------------------------------------------------------
(* The interval of a day. *)

LEMMA QuotientNat == ASSUME NEW a \in Nat, NEW b \in Nat \ {0} PROVE a \div b \in Nat
OBVIOUS

LEMMA StageIs ==
    ASSUME NEW set \in Policies, NEW days \in Int, days > set.grace
    PROVE  /\ Stage(days, set) = 1 + (days - set.grace - 1) \div set.repeat
           /\ Stage(days, set) \in Nat \ {0}
<1> DEFINE a == days - set.grace - 1
           b == set.repeat
<1>1. a \in Nat /\ b \in Nat \ {0} BY DEF Policies
<1> HIDE DEF b
<1>2. Max({0, a}) = a
    <2> HIDE DEF a
    <2> QED BY <1>1 DEF Max
<1>3. Stage(days, set) = 1 + a \div b BY <1>2 DEF Stage, b
<1>4. a \div b \in Nat BY <1>1, QuotientNat
<1> HIDE DEF a
<1>5. 1 + a \div b \in Nat \ {0} BY <1>4
<1> QED BY <1>3, <1>5 DEF a, b

LEMMA PolicyIs ==
    ASSUME NEW set \in Settings, NEW v \in Nat
    PROVE  Policy(set, v) \in Policies
BY ReceivablesAssumption DEF Policy, Policies

LEMMA Asleep == Sleeping \notin Pass /\ Sleeping.phase = "idle" /\ \A p \in Pass : p.phase = "pass"
<1>1. Sleeping.phase = "idle" BY DEF Sleeping
<1>2. \A p \in Pass : p.phase = "pass" BY DEF Pass
<1> QED BY <1>1, <1>2

-----------------------------------------------------------------------------
(* The steps. *)

\* What changes neither the policy, its saves, the planner nor the reminders.
LEMMA QuietReminders ==
    ASSUME RemindersInv, UNCHANGED <<policy, save, planner, reminders>>, today' \in Nat,
           chat' \in [Customers -> Endpoints \union {NoChat}]
    PROVE  RemindersInv'
BY DEF RemindersInv, ReminderTypes

LEMMA BeginSaveStep == ASSUME RemindersInv, NEW s \in Savers, BeginSave(s) PROVE RemindersInv'
<1>1. UNCHANGED <<today, policy, chat, planner, reminders>> /\ policy # NoPolicy BY DEF BeginSave
<1>2. PICK set \in Settings :
          save' = [save EXCEPT ![s] = [phase |-> "saving", seen |-> policy,
                                       new |-> Policy(set, policy.version + 1)]]
    BY DEF BeginSave
<1>3. policy \in Policies BY <1>1 DEF RemindersInv, ReminderTypes
<1>4. Policy(set, policy.version + 1) \in Policies
    <2> DEFINE v == policy.version + 1
    <2>1. v \in Nat BY <1>3 DEF Policies
    <2> HIDE DEF v
    <2>2. Policy(set, v) \in Policies BY <2>1, PolicyIs
    <2> QED BY <2>2 DEF v
<1>5. save' \in [Savers -> Saving \union {NoSave}]
    <2> DEFINE new == Policy(set, policy.version + 1)
    <2>1. new \in Policies BY <1>4
    <2>2. save' = [save EXCEPT ![s] = [phase |-> "saving", seen |-> policy, new |-> new]] BY <1>2
    <2> HIDE DEF new
    <2>3. [phase |-> "saving", seen |-> policy, new |-> new] \in Saving BY <1>3, <2>1 DEF Saving
    <2> QED BY <2>2, <2>3 DEF RemindersInv, ReminderTypes
<1> QED BY <1>1, <1>3, <1>5 DEF RemindersInv, ReminderTypes

\* What a save stores is a policy again, whatever row it is stored into.
LEMMA WrittenPolicy ==
    ASSUME NEW p \in Policies, NEW seen \in Policies, NEW new \in Policies
    PROVE  Written(p, Changed(new, seen)) \in Policies
<1> DEFINE C == {"enabled", "grace", "repeat", "max", "approval", "version"}
           w == Written(p, Changed(new, seen))
<1>1. DOMAIN p = C /\ DOMAIN new = C BY DEF Policies
<1>2. w = [column \in C |-> w[column]] /\ \A column \in C : w[column] \in {new[column], p[column]}
    BY <1>1 DEF Written, Changed
<1>3. /\ w["enabled"] \in BOOLEAN /\ w["grace"] \in Nat /\ w["repeat"] \in Nat \ {0}
      /\ w["max"] \in Nat \ {0} /\ w["approval"] \in BOOLEAN /\ w["version"] \in Nat
    BY <1>2 DEF Policies
<1> DEFINE row == [enabled |-> w["enabled"], grace |-> w["grace"], repeat |-> w["repeat"],
                   max |-> w["max"], approval |-> w["approval"], version |-> w["version"]]
<1>4. w = [column \in C |-> w[column]] BY <1>2
<1>5. \A column \in C : row[column] = w[column] OBVIOUS
<1>6. row = [column \in C |-> row[column]] OBVIOUS
<1> HIDE DEF w
<1>7. row \in Policies BY <1>3 DEF Policies
<1>8. w = row
    <2> HIDE DEF row
    <2> QED BY <1>4, <1>5, <1>6
<1>9. w \in Policies BY <1>7, <1>8
<1> QED BY <1>9 DEF w

LEMMA CommitSaveStep == ASSUME RemindersInv, NEW s \in Savers, CommitSave(s) PROVE RemindersInv'
<1>1. /\ UNCHANGED <<today, chat, planner, reminders>> /\ save[s] # NoSave
      /\ policy' = Written(policy, Changed(save[s].new, save[s].seen))
      /\ save' = [save EXCEPT ![s] = NoSave]
    BY DEF CommitSave
<1>2. policy \in Policies /\ save[s] \in Saving BY <1>1 DEF RemindersInv, ReminderTypes
<1>3. policy' \in Policies
    <2>1. save[s].new \in Policies /\ save[s].seen \in Policies BY <1>2 DEF Saving
    <2> QED BY <1>1, <1>2, <2>1, WrittenPolicy
<1>4. save' \in [Savers -> Saving \union {NoSave}] BY <1>1 DEF RemindersInv, ReminderTypes
<1> QED BY <1>1, <1>3, <1>4 DEF RemindersInv, ReminderTypes

LEMMA PlanBeginStep == ASSUME RowsInv, RemindersInv, PlanBegin PROVE RemindersInv'
<1>1. /\ UNCHANGED <<today, policy, save, chat, reminders>> /\ policy # NoPolicy
      /\ planner' = [phase |-> "pass", policy |-> policy, day |-> today, row |-> invoice,
                     left |-> {i \in Records : /\ Exists(i) /\ Overdue(invoice[i], today)
                                               /\ invoice[i].buyer # NoCustomer}]
    BY DEF PlanBegin
<1>2. policy \in Policies /\ today \in Nat BY <1>1 DEF RemindersInv, ReminderTypes
<1>3. planner' \in Pass BY <1>1, <1>2 DEF Pass, RowsInv, InvoiceTypes
<1>4. \A i \in planner'.left : Remindable(planner'.row[i])
    <2> SUFFICES ASSUME NEW i \in Records, Exists(i), Overdue(invoice[i], today), invoice[i].buyer # NoCustomer
                 PROVE  Remindable(invoice[i])
        BY <1>1
    <2>1. invoice[i] \in Row BY ExistsRow DEF RowsInv
    <2>2. invoice[i].due # NoDay BY DEF Overdue
    <2> QED BY <2>1, <2>2 DEF Remindable, Row, Days
<1> QED BY <1>1, <1>3, <1>4 DEF RemindersInv, ReminderTypes

LEMMA PlanEndStep == ASSUME RemindersInv, PlanEnd PROVE RemindersInv'
BY DEF RemindersInv, ReminderTypes, PlanEnd

\* A reminder's status is the only thing of it that changes.
LEMMA SetReminderStep ==
    ASSUME RemindersInv, NEW n \in DOMAIN reminders,
           NEW status \in {"approved", "sent", "cancelled"}, SetReminder(n, status)
    PROVE  RemindersInv'
<1>1. /\ reminders' = [reminders EXCEPT ![n].status = status]
      /\ UNCHANGED <<today, policy, save, chat, planner>> /\ reminders \in Seq(Reminder)
    BY DEF SetReminder, RemindersInv, ReminderTypes
<1>2. [reminders[n] EXCEPT !.status = status] \in Reminder
    <2> DEFINE r == reminders[n]
    <2>1. r \in Reminder BY <1>1
    <2> HIDE DEF r
    <2>2. [r EXCEPT !.status = status] \in Reminder BY <2>1 DEF Reminder
    <2> QED BY <2>2 DEF r
<1>3. /\ DOMAIN reminders' = DOMAIN reminders
      /\ reminders'[n] = [reminders[n] EXCEPT !.status = status]
      /\ \A m \in DOMAIN reminders : m # n => reminders'[m] = reminders[m]
    BY <1>1
<1>4. reminders' \in Seq(Reminder)
    <2> DEFINE e == [reminders[n] EXCEPT !.status = status]
    <2>1. reminders' = [reminders EXCEPT ![n] = e] BY <1>1
    <2>2. e \in Reminder BY <1>2
    <2> HIDE DEF e
    <2> QED BY <1>1, <2>1, <2>2
<1>5. ASSUME NEW m \in DOMAIN reminders
      PROVE  /\ reminders'[m].settings = reminders[m].settings /\ reminders'[m].version = reminders[m].version
             /\ Key(reminders'[m]) = Key(reminders[m])
             /\ Timely(reminders[m]) => Timely(reminders'[m])
    <2>1. reminders[m] \in Reminder BY <1>1
    <2>2. \/ reminders'[m] = reminders[m]
          \/ reminders'[m] = [reminders[m] EXCEPT !.status = status]
        BY <1>3
    <2> DEFINE r == reminders[m]
               e == [r EXCEPT !.status = status]
    <2> HIDE DEF r
    <2>3. /\ e.id = r.id /\ e.chat = r.chat /\ e.stage = r.stage /\ e.version = r.version
          /\ e.due = r.due /\ e.day = r.day /\ e.settings = r.settings
        BY <2>1 DEF Reminder, r
    <2>4. r = reminders[m] /\ (reminders'[m] = r \/ reminders'[m] = e) BY <2>2 DEF r
    <2> HIDE DEF e
    <2> QED BY <2>3, <2>4 DEF Key, Timely
<1> QED BY <1>1, <1>3, <1>4, <1>5 DEF RemindersInv, ReminderTypes

LEMMA PlanOneStep == ASSUME RemindersInv, PlanOne PROVE RemindersInv'
<1>1. planner \in Pass /\ planner # Sleeping
    BY Asleep DEF PlanOne, RemindersInv, ReminderTypes
<1>2. PICK i \in planner.left :
          LET row == planner.row[i]
              set == planner.policy
              stage == Stage(planner.day - row.due, set)
              reminder == [id |-> i, chat |-> chat[row.buyer], stage |-> stage, version |-> set.version,
                           buyer |-> row.buyer, amount |-> row.amount, due |-> row.due, day |-> planner.day,
                           settings |-> set, status |-> IF set.approval THEN "pending_approval" ELSE "approved"]
          IN  /\ planner' = [planner EXCEPT !.left = @ \ {i}]
              /\ \/ reminders' = reminders
                 \/ /\ ~(planner.day - row.due <= set.grace) /\ chat[row.buyer] # NoChat /\ ~(stage > set.max)
                    /\ ~\E n \in DOMAIN reminders : Key(reminders[n]) = Key(reminder)
                    /\ reminders' = Append(reminders, reminder)
    BY DEF PlanOne
<1> DEFINE row == planner.row[i]
           set == planner.policy
           days == planner.day - row.due
           stage == Stage(days, set)
           new == [id |-> i, chat |-> chat[row.buyer], stage |-> stage, version |-> set.version,
                   buyer |-> row.buyer, amount |-> row.amount, due |-> row.due, day |-> planner.day,
                   settings |-> set, status |-> IF set.approval THEN "pending_approval" ELSE "approved"]
<1>3. /\ UNCHANGED <<today, policy, save, chat>> /\ reminders \in Seq(Reminder)
    BY DEF PlanOne, RemindersInv, ReminderTypes
<1>4. /\ planner' \in Pass /\ planner' # Sleeping /\ planner'.policy = set
      /\ planner'.row = planner.row /\ planner'.left \subseteq planner.left
    <2> DEFINE p == planner
               e == [p EXCEPT !.left = @ \ {i}]
    <2>1. p \in Pass BY <1>1
    <2> HIDE DEF p
    <2>2. e \in Pass /\ e.policy = p.policy /\ e.row = p.row /\ e.left = p.left \ {i} BY <2>1 DEF Pass
    <2> HIDE DEF e
    <2>3. planner' = e BY <1>2 DEF e, p
    <2> QED BY <2>2, <2>3, Asleep DEF p
<1>5. Remindable(row) /\ set \in Policies /\ planner.day \in Nat /\ i \in Records
    BY <1>1 DEF RemindersInv, Pass
<1>6. CASE reminders' = reminders
    <2>1. ReminderTypes' BY <1>3, <1>4, <1>6 DEF RemindersInv, ReminderTypes
    <2>4. \A j \in planner'.left : Remindable(planner'.row[j]) BY <1>1, <1>4 DEF RemindersInv
    <2> HIDE DEF set, new
    <2> QED BY <1>1, <1>3, <1>6, <2>1, <2>4 DEF RemindersInv
<1>7. CASE /\ ~(days <= set.grace) /\ chat[row.buyer] # NoChat /\ ~(stage > set.max)
           /\ ~\E n \in DOMAIN reminders : Key(reminders[n]) = Key(new)
           /\ reminders' = Append(reminders, new)
    <2>1. days \in Int /\ days > set.grace /\ row.due \in Nat /\ set.grace \in Nat
        BY <1>5, <1>7 DEF Remindable, Policies
    <2>2. stage = 1 + (days - set.grace - 1) \div set.repeat /\ stage \in Nat \ {0}
        BY <1>5, <2>1, StageIs
    <2>3. chat[row.buyer] \in Endpoints BY <1>5, <1>7 DEF Remindable, RemindersInv, ReminderTypes
    <2>4. set.version \in Nat /\ set.max \in Nat BY <1>5 DEF Policies
    <2> HIDE DEF stage
    <2>5. new \in Reminder BY <1>5, <2>2, <2>3, <2>4 DEF Reminder, Remindable, Row
    <2>6. /\ new.version = new.settings.version /\ new.settings = set /\ new.version = set.version
          /\ new.stage = stage /\ new.due = row.due /\ new.day = planner.day
        OBVIOUS
    <2> HIDE DEF new, row, set
    <2>7. Timely(new)
        <3>1. new.due + set.grace < new.day BY <1>5, <2>1, <2>6
        <3>2. new.stage <= set.max BY <1>7, <2>2, <2>4, <2>6
        <3>3. new.stage = 1 + (new.day - new.due - set.grace - 1) \div set.repeat BY <2>2, <2>6
        <3> QED BY <2>6, <3>1, <3>2, <3>3 DEF Timely
    <2> DEFINE N == Len(reminders)
    <2>8. /\ reminders' \in Seq(Reminder) /\ N \in Nat /\ DOMAIN reminders = 1 .. N
          /\ DOMAIN reminders' = 1 .. N + 1 /\ reminders'[N + 1] = new
          /\ \A n \in 1 .. N : reminders'[n] = reminders[n]
        BY <1>3, <1>7, <2>5
    <2> HIDE DEF N
    <2>9. ASSUME NEW n \in DOMAIN reminders'
          PROVE  \/ n \in DOMAIN reminders /\ reminders'[n] = reminders[n]
                 \/ n = N + 1 /\ reminders'[n] = new
        BY <2>8
    <2>10. \A n \in DOMAIN reminders' : Timely(reminders'[n])
        BY <2>7, <2>9 DEF RemindersInv
    <2>11. ASSUME NEW m \in DOMAIN reminders', NEW n \in DOMAIN reminders'
           PROVE  Key(reminders'[m]) = Key(reminders'[n]) => m = n
        BY <1>7, <2>9 DEF RemindersInv
    <2>12. \A j \in planner'.left : Remindable(planner'.row[j]) BY <1>1, <1>4 DEF RemindersInv
    <2>13. ReminderTypes' BY <1>3, <1>4, <2>8 DEF RemindersInv, ReminderTypes
    <2>14. \A n \in DOMAIN reminders' : Timely(reminders[n])' BY <2>10 DEF Timely
    <2> QED BY <1>3, <2>11, <2>12, <2>13, <2>14 DEF RemindersInv, Key
<1> QED BY <1>2, <1>6, <1>7

LEMMA InitReminders == Init => RemindersInv
<1> SUFFICES ASSUME Init PROVE RemindersInv OBVIOUS
<1>1. policy \in Policies \union {NoPolicy} BY PolicyIs DEF Init
<1>2. /\ today \in Nat /\ chat \in [Customers -> Endpoints \union {NoChat}]
      /\ planner = Sleeping /\ reminders = <<>> /\ save = [t \in Savers |-> NoSave]
    BY ReceivablesAssumption DEF Init
<1> QED BY <1>1, <1>2 DEF RemindersInv, ReminderTypes

LEMMA NextReminders == RowsInv /\ RemindersInv /\ [Next]_vars => RemindersInv'
<1> SUFFICES ASSUME RowsInv, RemindersInv, [Next]_vars PROVE RemindersInv' OBVIOUS
<1>1. CASE UNCHANGED reminderVars
    BY <1>1, QuietReminders DEF reminderVars, RemindersInv, ReminderTypes
<1>2. CASE NextDay BY <1>2, QuietReminders DEF NextDay, RemindersInv, ReminderTypes
<1>3. CASE ChangeChat
    <2>1. chat' \in [Customers -> Endpoints \union {NoChat}] BY <1>3 DEF ChangeChat, RemindersInv, ReminderTypes
    <2> QED BY <1>3, <2>1, QuietReminders DEF ChangeChat, RemindersInv, ReminderTypes
<1>4. CASE ApproveReminder BY <1>4, SetReminderStep DEF ApproveReminder
<1>5. CASE SendReminder BY <1>5, SetReminderStep DEF SendReminder
<1> QED BY <1>1, <1>2, <1>3, <1>4, <1>5, BeginSaveStep, CommitSaveStep, PlanBeginStep, PlanOneStep, PlanEndStep DEF Next, vars

\* Reminders of one invoice to one chat under one policy version and one due
\* date come after the grace days, under the same settings one in each
\* interval, and no more of them than the largest max_reminders among the
\* settings they were planned under, whenever the planner runs, wherever it
\* stops and however saves of the policy overlap.
THEOREM RemindersKeepPace == Spec => []RemindersPaced
<1>1. ASSUME RemindersInv PROVE RemindersPaced
    <2> DEFINE SameKey(n) == {m \in DOMAIN reminders :
                           /\ reminders[m].id = reminders[n].id /\ reminders[m].chat = reminders[n].chat
                           /\ reminders[m].version = reminders[n].version
                           /\ reminders[m].due = reminders[n].due}
               Interval(m, n) ==
                   (reminders[m].day - reminders[n].due - reminders[n].settings.grace - 1)
                       \div reminders[n].settings.repeat
    <2>1. /\ reminders \in Seq(Reminder)
          /\ \A m \in DOMAIN reminders : reminders[m] \in Reminder /\ Timely(reminders[m])
        BY <1>1 DEF RemindersInv, ReminderTypes
    <2>2. ASSUME NEW n \in DOMAIN reminders, NEW m \in SameKey(n), NEW o \in SameKey(n),
                 reminders[m].stage = reminders[o].stage
          PROVE  m = o
        BY <1>1, <2>2 DEF RemindersInv, Key
    <2>3. ASSUME NEW m \in DOMAIN reminders
          PROVE  reminders[m].settings.max \in Nat /\ reminders[m].stage \in 1 .. reminders[m].settings.max
        <3> DEFINE r == reminders[m]
                   a == r.day - r.due - r.settings.grace - 1
        <3>1. r.day \in Nat /\ r.due \in Nat /\ r.settings \in Policies /\ r.stage \in Nat
            BY <2>1 DEF Reminder
        <3>2. /\ r.due + r.settings.grace < r.day
              /\ r.stage = 1 + a \div r.settings.repeat /\ r.stage <= r.settings.max
            BY <2>1 DEF Timely
        <3> HIDE DEF r
        <3>3. a \in Nat /\ r.settings.repeat \in Nat \ {0} /\ r.settings.max \in Nat
            BY <3>1, <3>2 DEF Policies
        <3>4. a \div r.settings.repeat \in Nat BY <3>3, QuotientNat
        <3> HIDE DEF a
        <3>5. r.stage \in 1 .. r.settings.max BY <3>1, <3>2, <3>3, <3>4
        <3> QED BY <3>3, <3>5 DEF r
    <2>4. ASSUME NEW n \in DOMAIN reminders
          PROVE  \E m \in SameKey(n) : Cardinality(SameKey(n)) <= reminders[m].settings.max
        <3> DEFINE same == SameKey(n)
                   k == Cardinality(same)
                   f == [m \in same |-> reminders[m].stage]
        <3>1. n \in same /\ same \subseteq DOMAIN reminders OBVIOUS
        <3>2. IsFiniteSet(DOMAIN reminders)
            <4>1. DOMAIN reminders = 1 .. Len(reminders) /\ Len(reminders) \in Nat BY <2>1
            <4> QED BY <4>1, FS_Interval
        <3>3. \A m, o \in same : reminders[m].stage = reminders[o].stage => m = o BY <2>2
        <3> HIDE DEF same
        <3>4. IsFiniteSet(same) BY <3>1, <3>2, FS_Subset
        <3>5. k \in Nat BY <3>4, FS_CardinalityType
        <3> SUFFICES ASSUME \A m \in same : ~(k <= reminders[m].settings.max) PROVE FALSE
            BY DEF same
        <3>6. \A m \in same : reminders[m].stage \in 1 .. (k - 1)
            <4> SUFFICES ASSUME NEW m \in same PROVE reminders[m].stage \in 1 .. (k - 1) OBVIOUS
            <4> DEFINE most == reminders[m].settings.max
            <4>1. most \in Nat /\ reminders[m].stage \in 1 .. most /\ ~(k <= most) BY <2>3, <3>1
            <4> HIDE DEF most, k
            <4> QED BY <3>5, <4>1
        <3> HIDE DEF k
        <3>7. f \in Injection(same, 1 .. (k - 1)) BY <3>3, <3>6 DEF Injection, IsInjective
        <3>8. k - 1 \in Nat
            <4>1. reminders[n].stage \in 1 .. (k - 1) BY <3>1, <3>6
            <4> QED BY <3>5, <4>1
        <3>9. IsFiniteSet(1 .. (k - 1)) /\ Cardinality(1 .. (k - 1)) = k - 1 BY <3>8, FS_Interval
        <3> HIDE DEF f
        <3>10. Cardinality(same) <= k - 1 BY <3>7, <3>9, FS_Injection
        <3> QED BY <3>5, <3>10 DEF k
    <2>5. ASSUME NEW n \in DOMAIN reminders
          PROVE  reminders[n].due + reminders[n].settings.grace < reminders[n].day
        BY <2>1 DEF Timely
    <2>6. ASSUME NEW n \in DOMAIN reminders, NEW m \in SameKey(n) \ {n},
                 reminders[m].settings = reminders[n].settings
          PROVE  Interval(m, n) # Interval(n, n)
        <3>1. reminders[m].stage # reminders[n].stage BY <2>2
        <3>2. /\ reminders[m].stage = 1 + Interval(m, n)
              /\ reminders[n].stage = 1 + Interval(n, n)
            BY <2>1, <2>6 DEF Timely
        <3> QED BY <3>1, <3>2
    <2> QED BY <2>4, <2>5, <2>6 DEF RemindersPaced
<1>2. RowsInv /\ RemindersInv /\ [Next]_vars => (RowsInv /\ RemindersInv)' BY NextRows, NextReminders
<1> QED BY <1>1, <1>2, InitRows, InitReminders, PTL DEF Spec
-----------------------------------------------------------------------------
(* The finance summary: which invoices each of its sums is of. *)

\* The parts of the summary share no invoice and leave none out: an
\* outstanding invoice has one age, an overdue one an age past "current", and
\* a quarter is its three months, for any quarter.
CountedOnce ==
    /\ \A i \in OutstandingRows(Rows) : \E label \in AgingLabels :
           \A l \in AgingLabels : i \in Aged(Rows, l, today) <=> l = label
    /\ \A i \in DOMAIN Rows :
           Overdue(Rows[i], today) <=> \E l \in AgingLabels \ {"current"} : i \in Aged(Rows, l, today)
    /\ \A offset \in Int :
           LET first == PeriodBounds("quarter", offset, today)[1] - MonthOf(today)
               Month(n) == IssuedBetween(Rows, PeriodBounds("month", first + n, today))
           IN  /\ IssuedBetween(Rows, PeriodBounds("quarter", offset, today)) = Month(0) \union Month(1) \union Month(2)
               /\ \A m, n \in 0 .. 2 : m # n => Month(m) \intersect Month(n) = {}

\* Every label but "current" is an age past the due date.
LEMMA LabelIs ==
    ASSUME NEW due \in Days, NEW day \in Nat
    PROVE  /\ AgingLabel(due, day) \in AgingLabels
           /\ AgingLabel(due, day) = "current" <=> due = NoDay \/ due >= day
BY DEF AgingLabel, AgingLabels, Days, NoDay

LEMMA BoundsAre ==
    ASSUME NEW day \in Nat, NEW offset \in Int
    PROVE  /\ MonthOf(day) \in Int
           /\ PeriodBounds("month", offset, day) = <<MonthOf(day) + offset, MonthOf(day) + offset + 1>>
           /\ \E first \in Int : PeriodBounds("quarter", offset, day) = <<first, first + 3>>
<1>1. MonthOf(day) \in Int BY DEF MonthOf, MonthDays
<1> DEFINE m == MonthOf(day)
<1> HIDE DEF m
<1>2. m \in Int BY <1>1 DEF m
<1>3. m \div 1 = m /\ m \div 3 \in Int BY <1>2
<1>4. PeriodBounds("month", offset, day) = <<(m \div 1 + offset) * 1, (m \div 1 + offset + 1) * 1>>
    BY DEF PeriodBounds, m
<1>5. PeriodBounds("quarter", offset, day) = <<(m \div 3 + offset) * 3, (m \div 3 + offset + 1) * 3>>
    BY DEF PeriodBounds, m
<1> DEFINE q == m \div 3 + offset
<1>6. q \in Int BY <1>3
<1> HIDE DEF q
<1>7. (m \div 1 + offset) * 1 = m + offset /\ (m \div 1 + offset + 1) * 1 = m + offset + 1
    BY <1>2, <1>3
<1>8. q * 3 \in Int /\ (q + 1) * 3 = q * 3 + 3 BY <1>6
<1>9. PeriodBounds("quarter", offset, day) = <<q * 3, q * 3 + 3>> BY <1>5, <1>8 DEF q
<1> QED BY <1>1, <1>4, <1>7, <1>8, <1>9 DEF m

LEMMA RowsAre ==
    ASSUME InvoiceTypes
    PROVE  \A i \in DOMAIN Rows : Rows[i] \in Row
BY ExistsRow DEF Rows

\* Whatever the table holds and whatever the day, the sums of the summary
\* are over parts of it that neither overlap nor leave a gap.
THEOREM InvoicesCountedOnce == Spec => []CountedOnce
<1>1. ASSUME InvoiceTypes, today \in Nat PROVE CountedOnce
    <2>1. \A i \in DOMAIN Rows : Rows[i] \in Row /\ Rows[i].due \in Days /\ Rows[i].issue \in Days
        BY <1>1, RowsAre DEF Row
    <2>2. OutstandingRows(Rows) \subseteq DOMAIN Rows BY DEF OutstandingRows, Validated
    <2>3. ASSUME NEW i \in OutstandingRows(Rows)
          PROVE  \E label \in AgingLabels : \A l \in AgingLabels : i \in Aged(Rows, l, today) <=> l = label
        <3>1. AgingLabel(Rows[i].due, today) \in AgingLabels BY <1>1, <2>1, <2>2, LabelIs
        <3>2. \A l \in AgingLabels : i \in Aged(Rows, l, today) <=> l = AgingLabel(Rows[i].due, today)
            BY DEF Aged
        <3> QED BY <3>1, <3>2
    <2>4. ASSUME NEW i \in DOMAIN Rows
          PROVE  Overdue(Rows[i], today) <=> \E l \in AgingLabels \ {"current"} : i \in Aged(Rows, l, today)
        <3> DEFINE label == AgingLabel(Rows[i].due, today)
        <3>1. label \in AgingLabels /\ (label = "current" <=> Rows[i].due = NoDay \/ Rows[i].due >= today)
            BY <1>1, <2>1, LabelIs
        <3>2. Outstanding(Rows[i]) <=> i \in OutstandingRows(Rows)
            BY DEF Outstanding, OutstandingRows, Validated
        <3>3. Overdue(Rows[i], today) <=> i \in OutstandingRows(Rows) /\ label # "current"
            BY <1>1, <2>1, <3>1, <3>2 DEF Overdue, Days, NoDay
        <3>4. \A l : i \in Aged(Rows, l, today) <=> i \in OutstandingRows(Rows) /\ label = l BY DEF Aged
        <3> QED BY <3>1, <3>3, <3>4
    <2>5. ASSUME NEW offset \in Int
          PROVE  LET first == PeriodBounds("quarter", offset, today)[1] - MonthOf(today)
                     Month(n) == IssuedBetween(Rows, PeriodBounds("month", first + n, today))
                 IN  /\ IssuedBetween(Rows, PeriodBounds("quarter", offset, today))
                            = Month(0) \union Month(1) \union Month(2)
                     /\ \A m, n \in 0 .. 2 : m # n => Month(m) \intersect Month(n) = {}
        <3>1. PICK start \in Int : PeriodBounds("quarter", offset, today) = <<start, start + 3>>
            BY <1>1, BoundsAre
        <3> DEFINE first == PeriodBounds("quarter", offset, today)[1] - MonthOf(today)
                   Month(n) == IssuedBetween(Rows, PeriodBounds("month", first + n, today))
        <3>2. first = start - MonthOf(today) /\ MonthOf(today) \in Int BY <1>1, <3>1, BoundsAre
        <3>3. \A n \in 0 .. 2 : PeriodBounds("month", first + n, today) = <<start + n, start + n + 1>>
            <4> TAKE n \in 0 .. 2
            <4>1. first + n \in Int /\ MonthOf(today) + (first + n) = start + n BY <3>2
            <4> HIDE DEF first
            <4> QED BY <1>1, <4>1, BoundsAre
        <3>4. \A n \in 0 .. 2 : Month(n) = {i \in Validated(Rows) : /\ Rows[i].issue # NoDay
                                                                  /\ MonthOf(Rows[i].issue) >= start + n
                                                                  /\ MonthOf(Rows[i].issue) < start + n + 1}
            BY <3>3 DEF IssuedBetween
        <3>5. IssuedBetween(Rows, PeriodBounds("quarter", offset, today))
                  = {i \in Validated(Rows) : /\ Rows[i].issue # NoDay
                                             /\ MonthOf(Rows[i].issue) >= start
                                             /\ MonthOf(Rows[i].issue) < start + 3}
            BY <3>1 DEF IssuedBetween
        <3>6. \A i \in Validated(Rows) : Rows[i].issue # NoDay => MonthOf(Rows[i].issue) \in Int
            BY <2>1 DEF Validated, Days, MonthOf, MonthDays
        <3> HIDE DEF Month, first
        <3>7. IssuedBetween(Rows, PeriodBounds("quarter", offset, today)) = Month(0) \union Month(1) \union Month(2)
            BY <3>4, <3>5, <3>6
        <3>8. \A m, n \in 0 .. 2 : m # n => Month(m) \intersect Month(n) = {} BY <3>4, <3>6
        <3> QED BY <3>7, <3>8 DEF Month, first
    <2> QED BY <2>3, <2>4, <2>5 DEF CountedOnce
<1>2. RowsInv /\ RemindersInv => CountedOnce BY <1>1 DEF RowsInv, RemindersInv, ReminderTypes
<1> QED BY <1>2, InitRows, NextRows, InitReminders, NextReminders, PTL DEF Spec
-----------------------------------------------------------------------------
(* Sums over finite sets.  The recursion they are defined by has one       *)
(* solution, of which one member after the other is taken in any order.    *)
(* Induction goes by a smallest counterexample.                            *)

\* The member that a sum takes first.
Pick(s) == CHOOSE x \in s : TRUE

\* sum solves the recursion by which the sums over the subsets of S are defined.
Unfolds(sum, fun, S) ==
    sum = [s \in SUBSET S |-> IF s = {} THEN 0 ELSE fun[Pick(s)] + sum[s \ {Pick(s)}]]

\* What the library calls a sum.
LEMMA SumIs ==
    ASSUME NEW fun, NEW S
    PROVE  SumFunctionOnSet(fun, S) = (CHOOSE sum : Unfolds(sum, fun, S))[S]
BY DEF SumFunctionOnSet, FoldFunctionOnSet, MapThenFoldSet, Unfolds, Pick

\* A set of subsets of a finite set has one that no other of them is part of.
LEMMA Smallest ==
    ASSUME NEW S, IsFiniteSet(S), NEW Bad, Bad \subseteq SUBSET S, Bad # {}
    PROVE  \E T \in Bad : \A U \in SUBSET T : U # T => U \notin Bad
<1>1. FiniteSubsetsOf(S) = SUBSET S
  BY FS_FiniteSubsetsOfFinite
<1>2. IsWellFoundedOn(StrictSubsetOrdering(S), SUBSET S)
  BY <1>1, FS_StrictSubsetOrderingWellFounded
<1>3. \E T \in Bad : \A U \in Bad : <<U, T>> \notin StrictSubsetOrdering(S)
  BY <1>2, WFMin
<1> QED
  BY <1>3 DEF StrictSubsetOrdering

LEMMA PickIn ==
    ASSUME NEW s, s # {}
    PROVE  Pick(s) \in s /\ s \ {Pick(s)} \subseteq s /\ s \ {Pick(s)} # s
<1>1. Pick(s) \in s BY DEF Pick
<1> QED BY <1>1

LEMMA OneSolution ==
    ASSUME NEW fun, NEW A, NEW B, IsFiniteSet(A),
           NEW f, Unfolds(f, fun, A), NEW g, Unfolds(g, fun, B)
    PROVE  \A s \in SUBSET A : s \in SUBSET B => f[s] = g[s]
<1> DEFINE Bad == {s \in SUBSET A : s \in SUBSET B /\ f[s] # g[s]}
<1>1. Bad \subseteq SUBSET A OBVIOUS
<1>2. SUFFICES ASSUME Bad # {} PROVE FALSE OBVIOUS
<1> HIDE DEF Bad
<1>3. PICK s \in Bad : \A u \in SUBSET s : u # s => u \notin Bad BY <1>1, <1>2, Smallest
<1>4. /\ s \in SUBSET A /\ s \in SUBSET B /\ f[s] # g[s]
      /\ \A u \in SUBSET s : u # s => f[u] = g[u]
    BY <1>3 DEF Bad
<1>5. f[s] = IF s = {} THEN 0 ELSE fun[Pick(s)] + f[s \ {Pick(s)}] BY <1>4 DEF Unfolds
<1>6. g[s] = IF s = {} THEN 0 ELSE fun[Pick(s)] + g[s \ {Pick(s)}] BY <1>4 DEF Unfolds
<1> QED BY <1>4, <1>5, <1>6, PickIn

LEMMA SomeSolution ==
    ASSUME NEW fun, NEW S, IsFiniteSet(S)
    PROVE  \E f : Unfolds(f, fun, S)
<1> DEFINE Bad == {T \in SUBSET S : ~ \E f : Unfolds(f, fun, T)}
<1>1. Bad \subseteq SUBSET S OBVIOUS
<1>2. SUFFICES ASSUME Bad # {} PROVE FALSE OBVIOUS
<1> HIDE DEF Bad
<1>3. PICK T \in Bad : \A U \in SUBSET T : U # T => U \notin Bad BY <1>1, <1>2, Smallest
<1>4. /\ T \in SUBSET S /\ ~ \E f : Unfolds(f, fun, T)
      /\ \A U \in SUBSET T : U # T => \E f : Unfolds(f, fun, U)
    BY <1>3 DEF Bad
<1> DEFINE G(U) == CHOOSE f : Unfolds(f, fun, U)
<1>5. \A U \in SUBSET T : U # T => Unfolds(G(U), fun, U) BY <1>4
<1> HIDE DEF G
<1> DEFINE f == [s \in SUBSET T |-> IF s = {} THEN 0 ELSE fun[Pick(s)] + G(s \ {Pick(s)})[s \ {Pick(s)}]]
<1>6. ASSUME NEW s \in SUBSET T, s # {}
      PROVE  f[s \ {Pick(s)}] = G(s \ {Pick(s)})[s \ {Pick(s)}]
    <2> DEFINE r == s \ {Pick(s)}
               q == r \ {Pick(r)}
    <2>1. r \in SUBSET T /\ r # T BY <1>6, PickIn
    <2>2. Unfolds(G(r), fun, r) BY <1>5, <2>1
    <2>3. G(r)[r] = IF r = {} THEN 0 ELSE fun[Pick(r)] + G(r)[q] BY <2>2 DEF Unfolds
    <2>4. CASE r = {} BY <2>1, <2>3, <2>4
    <2>5. CASE r # {}
        <3>1. q \in SUBSET r /\ q \in SUBSET T /\ q # T BY <2>1, <2>5, PickIn
        <3>2. Unfolds(G(q), fun, q) BY <1>5, <3>1
        <3>3. IsFiniteSet(q)
            <4>1. q \in SUBSET S BY <1>4, <3>1
            <4> HIDE DEF q
            <4> QED BY <4>1, FS_Subset
        <3>4. G(q)[q] = G(r)[q]
            <4> HIDE DEF q, r
            <4> QED BY <2>2, <3>1, <3>2, <3>3, OneSolution
        <3>5. f[r] = fun[Pick(r)] + G(q)[q] BY <2>1, <2>5
        <3> QED BY <2>3, <2>5, <3>4, <3>5
    <2> QED BY <2>4, <2>5
<1>7. Unfolds(f, fun, T) BY <1>6 DEF Unfolds
<1> QED BY <1>4, <1>7

LEMMA SumSolves ==
    ASSUME NEW fun, NEW S, IsFiniteSet(S)
    PROVE  \E f : Unfolds(f, fun, S) /\ SumFunctionOnSet(fun, S) = f[S]
BY SumIs, SomeSolution

LEMMA SumUnfolds ==
    ASSUME NEW fun
    PROVE  /\ SumFunctionOnSet(fun, {}) = 0
           /\ \A S : IsFiniteSet(S) /\ S # {} =>
                 SumFunctionOnSet(fun, S) = fun[Pick(S)] + SumFunctionOnSet(fun, S \ {Pick(S)})
<1>1. SumFunctionOnSet(fun, {}) = 0
    <2>1. PICK f : Unfolds(f, fun, {}) /\ SumFunctionOnSet(fun, {}) = f[{}] BY SumSolves, FS_EmptySet
    <2> QED BY <2>1 DEF Unfolds
<1>2. ASSUME NEW S, IsFiniteSet(S), S # {}
      PROVE  SumFunctionOnSet(fun, S) = fun[Pick(S)] + SumFunctionOnSet(fun, S \ {Pick(S)})
    <2> DEFINE T == S \ {Pick(S)}
    <2>1. IsFiniteSet(T) BY <1>2, FS_Subset
    <2>2. PICK f : Unfolds(f, fun, S) /\ SumFunctionOnSet(fun, S) = f[S] BY <1>2, SumSolves
    <2>3. PICK g : Unfolds(g, fun, T) /\ SumFunctionOnSet(fun, T) = g[T] BY <2>1, SumSolves
    <2>4. f[T] = g[T] BY <1>2, <2>2, <2>3, OneSolution
    <2>5. f[S] = fun[Pick(S)] + f[T] BY <1>2, <2>2 DEF Unfolds
    <2> QED BY <2>2, <2>3, <2>4, <2>5
<1> QED BY <1>1, <1>2

LEMMA SumType ==
    ASSUME NEW fun, NEW S, IsFiniteSet(S), \A x \in S : fun[x] \in Int
    PROVE  SumFunctionOnSet(fun, S) \in Int
<1> DEFINE Bad == {T \in SUBSET S : SumFunctionOnSet(fun, T) \notin Int}
<1>1. Bad \subseteq SUBSET S OBVIOUS
<1>2. SUFFICES ASSUME Bad # {} PROVE FALSE BY FS_Subset
<1> HIDE DEF Bad
<1>3. PICK T \in Bad : \A U \in SUBSET T : U # T => U \notin Bad BY <1>1, <1>2, Smallest
<1>4. /\ T \in SUBSET S /\ SumFunctionOnSet(fun, T) \notin Int
      /\ \A U \in SUBSET T : U # T => SumFunctionOnSet(fun, U) \in Int
    BY <1>3 DEF Bad
<1>5. IsFiniteSet(T) BY <1>4, FS_Subset
<1>6. T # {}
    <2>1. SumFunctionOnSet(fun, {}) = 0 /\ 0 \in Int BY SumUnfolds
    <2> QED BY <1>4, <2>1
<1>7. Pick(T) \in T /\ SumFunctionOnSet(fun, T \ {Pick(T)}) \in Int BY <1>4, <1>6, PickIn
<1> QED BY <1>4, <1>5, <1>6, <1>7, SumUnfolds

\* Any member may be taken first.
LEMMA SumRemove ==
    ASSUME NEW fun, NEW S, IsFiniteSet(S), \A x \in S : fun[x] \in Int
    PROVE  \A x \in S : SumFunctionOnSet(fun, S) = fun[x] + SumFunctionOnSet(fun, S \ {x})
<1> DEFINE Sum(T) == SumFunctionOnSet(fun, T)
           Bad == {T \in SUBSET S : \E x \in T : Sum(T) # fun[x] + Sum(T \ {x})}
<1>1. Bad \subseteq SUBSET S OBVIOUS
<1>2. SUFFICES ASSUME Bad # {} PROVE FALSE OBVIOUS
<1> HIDE DEF Bad
<1>3. PICK T \in Bad : \A U \in SUBSET T : U # T => U \notin Bad BY <1>1, <1>2, Smallest
<1>4. /\ T \in SUBSET S /\ \E x \in T : Sum(T) # fun[x] + Sum(T \ {x})
      /\ \A U \in SUBSET T : U # T => \A x \in U : Sum(U) = fun[x] + Sum(U \ {x})
    BY <1>3 DEF Bad
<1>5. PICK x \in T : Sum(T) # fun[x] + Sum(T \ {x}) BY <1>4
<1> DEFINE c == Pick(T)
<1>6. IsFiniteSet(T) BY <1>4, FS_Subset
<1>7. Sum(T) = fun[c] + Sum(T \ {c}) BY <1>5, <1>6, SumUnfolds
<1>8. c \in T /\ c # x BY <1>5, <1>7, PickIn
<1> DEFINE U == T \ {c}
           V == T \ {x}
<1>9. U \in SUBSET T /\ U # T /\ x \in U /\ V \in SUBSET T /\ V # T /\ c \in V BY <1>8
<1>10. U \ {x} = V \ {c} OBVIOUS
<1>11. Sum(U \ {x}) \in Int /\ fun[x] \in Int /\ fun[c] \in Int
    <2>1. U \ {x} \in SUBSET S BY <1>4
    <2> HIDE DEF U, c
    <2> QED BY <1>4, <1>8, <2>1, FS_Subset, SumType
<1>12. Sum(U) = fun[x] + Sum(U \ {x}) BY <1>4, <1>9
<1>13. Sum(V) = fun[c] + Sum(U \ {x}) BY <1>4, <1>9, <1>10
<1> HIDE DEF Sum
<1> DEFINE rest == Sum(U \ {x})
<1>14. Sum(T) = fun[c] + (fun[x] + rest) /\ Sum(T) # fun[x] + (fun[c] + rest) BY <1>5, <1>7, <1>12, <1>13
<1> HIDE DEF rest, c
<1> QED BY <1>11, <1>14 DEF rest

LEMMA SumDisjoint ==
    ASSUME NEW fun, NEW A, NEW B, IsFiniteSet(A), IsFiniteSet(B), A \intersect B = {},
           \A x \in A \union B : fun[x] \in Int
    PROVE  SumFunctionOnSet(fun, A \union B) = SumFunctionOnSet(fun, A) + SumFunctionOnSet(fun, B)
<1> DEFINE Sum(T) == SumFunctionOnSet(fun, T)
           Bad == {T \in SUBSET B : Sum(A \union T) # Sum(A) + Sum(T)}
<1>1. Bad \subseteq SUBSET B OBVIOUS
<1>2. SUFFICES ASSUME Bad # {} PROVE FALSE OBVIOUS
<1> HIDE DEF Bad
<1>3. PICK T \in Bad : \A U \in SUBSET T : U # T => U \notin Bad BY <1>1, <1>2, Smallest
<1>4. /\ T \in SUBSET B /\ Sum(A \union T) # Sum(A) + Sum(T)
      /\ \A U \in SUBSET T : U # T => Sum(A \union U) = Sum(A) + Sum(U)
    BY <1>3 DEF Bad
<1>5. IsFiniteSet(T) /\ IsFiniteSet(A \union T) BY <1>4, FS_Subset, FS_Union
<1>6. Sum(A) \in Int BY SumType
<1>7. T # {}
    <2>1. Sum({}) = 0 BY SumUnfolds
    <2>2. A \union {} = A OBVIOUS
    <2>3. Sum(A) = Sum(A) + 0 BY <1>6
    <2> QED BY <1>4, <2>1, <2>2, <2>3
<1>8. PICK x \in T : TRUE BY <1>7
<1> DEFINE U == T \ {x}
<1>9. Sum(T) = fun[x] + Sum(U) BY <1>4, <1>5, SumRemove
<1>10. Sum(A \union T) = fun[x] + Sum((A \union T) \ {x}) BY <1>4, <1>5, SumRemove
<1>11. (A \union T) \ {x} = A \union U BY <1>4
<1>12. U \in SUBSET T /\ U # T BY <1>8
<1>13. fun[x] \in Int /\ Sum(U) \in Int BY <1>4, <1>5, <1>12, FS_Subset, SumType
<1>14. Sum(A \union U) = Sum(A) + Sum(U) BY <1>4, <1>12
<1> DEFINE a == Sum(A)
           u == Sum(U)
<1>15. fun[x] + (a + u) # a + (fun[x] + u) BY <1>4, <1>9, <1>10, <1>11, <1>14
<1>16. a \in Int /\ u \in Int /\ fun[x] \in Int BY <1>6, <1>13
<1> HIDE DEF a, u
<1> QED BY <1>15, <1>16

-----------------------------------------------------------------------------
(* The sums of the finance summary.  Only requests make invoices, so there *)
(* are finitely many of them, whatever the identifiers.                    *)

RowsFinite == IsFiniteSet({i \in Records : Exists(i)})

LEMMA InitFinite == Init => RowsFinite
<1> SUFFICES ASSUME Init PROVE RowsFinite OBVIOUS
<1>1. {i \in Records : Exists(i)} = {} BY DEF Init, InvoiceInit, Exists, NoRow
<1> QED BY <1>1, FS_EmptySet DEF RowsFinite

LEMMA NextFinite == RowsInv /\ RowsFinite /\ [Next]_vars => RowsFinite'
<1> SUFFICES ASSUME RowsInv, RowsFinite, [Next]_vars PROVE RowsFinite' OBVIOUS
<1>1. \E k : \A i \in Records : i # k => invoice'[i] = invoice[i]
    <2>1. CASE InvoiceNext(today)
        <3>1. PICK s \in Sessions : \/ Create(s) \/ Begins(s) \/ Commit(s) \/ CommitDraft(s) \/ CommitDecision(s)
                                    \/ Mirror(s) \/ RecalculateAttention(s, today) \/ Fail(s)
            BY <2>1, InvoiceStep
        <3>2. CASE Create(s) BY <3>2 DEF Create, RowsInv, InvoiceTypes
        <3>3. CASE Commit(s) BY <3>3 DEF Commit, RowsInv, InvoiceTypes
        <3>4. CASE Begins(s) BY <3>4 DEF Begins, Begin
        <3>5. CASE CommitDraft(s) \/ CommitDecision(s) BY <3>5 DEF CommitDraft, CommitDecision
        <3>6. CASE Mirror(s) BY <3>6 DEF Mirror
        <3>7. CASE RecalculateAttention(s, today) BY <3>7 DEF RecalculateAttention
        <3>8. CASE Fail(s) BY <3>8 DEF Fail
        <3> QED BY <3>1, <3>2, <3>3, <3>4, <3>5, <3>6, <3>7, <3>8
    <2>2. CASE UNCHANGED invoiceVars BY <2>2 DEF invoiceVars
    <2>3. InvoiceNext(today) \/ UNCHANGED invoiceVars
        BY DEF Next, vars, NextDay, BeginSave, CommitSave, ChangeChat, PlanBegin, PlanOne, PlanEnd, ApproveReminder,
               SendReminder, SetReminder
    <2> QED BY <2>1, <2>2, <2>3
<1> DEFINE old == {i \in Records : Exists(i)}
<1>2. PICK k : {i \in Records : Exists(i)}' \subseteq old \union {k} BY <1>1 DEF Exists
<1>3. IsFiniteSet(old \union {k}) BY FS_AddElement DEF RowsFinite
<1> HIDE DEF old
<1> QED BY <1>2, <1>3, FS_Subset DEF RowsFinite

\* A table of invoices the summary may be made of.
Table(rows) == IsFiniteSet(DOMAIN rows) /\ \A i \in DOMAIN rows : rows[i] \in Row

\* The total of two parts of a table is the sum of theirs.
LEMMA TotalParts ==
    ASSUME NEW rows, Table(rows), NEW A \in SUBSET DOMAIN rows, NEW B \in SUBSET DOMAIN rows,
           A \intersect B = {}
    PROVE  Total(rows, A \union B) = Total(rows, A) + Total(rows, B)
<1> DEFINE fun == [i \in DOMAIN rows |-> rows[i].amount]
<1>1. IsFiniteSet(A) /\ IsFiniteSet(B) BY FS_Subset DEF Table
<1>2. \A x \in A \union B : fun[x] \in Int BY DEF Table, Row
<1> HIDE DEF fun
<1>3. SumFunctionOnSet(fun, A \union B) = SumFunctionOnSet(fun, A) + SumFunctionOnSet(fun, B)
    BY <1>1, <1>2, SumDisjoint
<1> QED BY <1>3 DEF Total, fun

LEMMA TotalInt ==
    ASSUME NEW rows, Table(rows), NEW A \in SUBSET DOMAIN rows
    PROVE  Total(rows, A) \in Int
<1> DEFINE fun == [i \in DOMAIN rows |-> rows[i].amount]
<1>1. IsFiniteSet(A) BY FS_Subset DEF Table
<1>2. \A x \in A : fun[x] \in Int BY DEF Table, Row
<1> HIDE DEF fun
<1>3. SumFunctionOnSet(fun, A) \in Int BY <1>1, <1>2, SumType
<1> QED BY <1>3 DEF Total, fun

\* The sums of the ages in a set of labels are the total of the outstanding
\* invoices whose age is one of them.
LEMMA AgesAddUp ==
    ASSUME NEW rows, Table(rows), NEW day, NEW L \in SUBSET AgingLabels
    PROVE  SumFunctionOnSet(AgingBuckets(rows, day), L)
               = Total(rows, {i \in OutstandingRows(rows) : AgingLabel(rows[i].due, day) \in L})
<1> DEFINE aging == AgingBuckets(rows, day)
           Of(M) == {i \in OutstandingRows(rows) : AgingLabel(rows[i].due, day) \in M}
           Bad == {M \in SUBSET L : SumFunctionOnSet(aging, M) # Total(rows, Of(M))}
<1>1. Bad \subseteq SUBSET L OBVIOUS
<1>2. IsFiniteSet(L)
    <2>1. IsFiniteSet({"current"} \union {"1-30"}) BY FS_Singleton, FS_AddElement
    <2>2. IsFiniteSet(({"current"} \union {"1-30"}) \union {"31-60"}) BY <2>1, FS_AddElement
    <2>3. IsFiniteSet((({"current"} \union {"1-30"}) \union {"31-60"}) \union {"61-90"}) BY <2>2, FS_AddElement
    <2>4. IsFiniteSet(((({"current"} \union {"1-30"}) \union {"31-60"}) \union {"61-90"}) \union {"90+"})
        BY <2>3, FS_AddElement
    <2>5. AgingLabels = ((({"current"} \union {"1-30"}) \union {"31-60"}) \union {"61-90"}) \union {"90+"}
        BY DEF AgingLabels
    <2> QED BY <2>4, <2>5, FS_Subset
<1>3. SUFFICES ASSUME Bad # {} PROVE FALSE OBVIOUS
<1> HIDE DEF Bad
<1>4. PICK M \in Bad : \A U \in SUBSET M : U # M => U \notin Bad BY <1>1, <1>2, <1>3, Smallest
<1>5. /\ M \in SUBSET L /\ SumFunctionOnSet(aging, M) # Total(rows, Of(M))
      /\ \A U \in SUBSET M : U # M => SumFunctionOnSet(aging, U) = Total(rows, Of(U))
    BY <1>4 DEF Bad
<1>6. \A N : Of(N) \in SUBSET DOMAIN rows BY DEF OutstandingRows, Validated
<1>7. \A l \in AgingLabels : aging[l] = Total(rows, Of({l})) /\ aging[l] \in Int
    <2> TAKE l \in AgingLabels
    <2>1. Aged(rows, l, day) = Of({l}) BY DEF Aged
    <2>2. aging[l] = Total(rows, Of({l})) BY <2>1 DEF AgingBuckets
    <2> QED BY <1>6, <2>2, TotalInt
<1>8. M # {}
    <2>1. SumFunctionOnSet(aging, {}) = 0 BY SumUnfolds
    <2>2. Of({}) = {} OBVIOUS
    <2>3. Total(rows, {}) = 0 BY SumUnfolds DEF Total
    <2> QED BY <1>5, <2>1, <2>2, <2>3
<1>9. PICK l \in M : TRUE BY <1>8
<1> DEFINE U == M \ {l}
<1>10. U \in SUBSET M /\ U # M /\ l \in AgingLabels BY <1>5, <1>9
<1>11. IsFiniteSet(M) BY <1>2, <1>5, FS_Subset
<1>12. \A m \in M : aging[m] \in Int BY <1>5, <1>7
<1>13. SumFunctionOnSet(aging, M) = aging[l] + SumFunctionOnSet(aging, U)
    <2> HIDE DEF aging
    <2> QED BY <1>9, <1>11, <1>12, SumRemove
<1>14. Of(M) = Of({l}) \union Of(U) /\ Of({l}) \intersect Of(U) = {}
    <2>1. \A label : label \in M <=> label \in {l} \/ label \in U BY <1>9
    <2>2. \A label : ~(label \in {l} /\ label \in U) OBVIOUS
    <2> HIDE DEF U
    <2>3. \A N, i : i \in Of(N) <=> i \in OutstandingRows(rows) /\ AgingLabel(rows[i].due, day) \in N OBVIOUS
    <2>4. Of(M) \subseteq OutstandingRows(rows) /\ Of(U) \subseteq OutstandingRows(rows) OBVIOUS
    <2> HIDE DEF Of
    <2>5. \A i : i \in Of(M) <=> i \in Of({l}) \/ i \in Of(U) BY <2>1, <2>3
    <2>6. \A i : ~(i \in Of({l}) /\ i \in Of(U)) BY <2>2, <2>3
    <2> QED BY <2>5, <2>6
<1>15. Total(rows, Of(M)) = Total(rows, Of({l})) + Total(rows, Of(U))
    <2> HIDE DEF Of, U
    <2> QED BY <1>6, <1>14, TotalParts
<1>16. SumFunctionOnSet(aging, U) = Total(rows, Of(U)) BY <1>5, <1>10
<1> QED BY <1>5, <1>7, <1>10, <1>13, <1>15, <1>16

\* Successive months are part of the table month by month.
LEMMA MonthsAddUp ==
    ASSUME NEW rows, Table(rows), NEW a \in Int, NEW b \in Int, NEW c \in Int, a <= b, b <= c
    PROVE  RevenueBetween(rows, <<a, c>>) = RevenueBetween(rows, <<a, b>>) + RevenueBetween(rows, <<b, c>>)
<1> DEFINE A == IssuedBetween(rows, <<a, b>>)
           B == IssuedBetween(rows, <<b, c>>)
<1>1. \A i \in DOMAIN rows : rows[i].issue # NoDay => MonthOf(rows[i].issue) \in Int
    BY DEF Table, Row, Days, MonthOf, MonthDays
<1>2. A \in SUBSET DOMAIN rows /\ B \in SUBSET DOMAIN rows BY DEF IssuedBetween, Validated
<1>3. A \intersect B = {} BY <1>1 DEF IssuedBetween, Validated
<1>4. IssuedBetween(rows, <<a, c>>) = A \union B BY <1>1 DEF IssuedBetween, Validated
<1> HIDE DEF A, B
<1>5. Total(rows, A \union B) = Total(rows, A) + Total(rows, B) BY <1>2, <1>3, TotalParts
<1> QED BY <1>4, <1>5 DEF RevenueBetween, A, B

LEMMA ThreeMonths ==
    ASSUME NEW rows, Table(rows), NEW a \in Int
    PROVE  RevenueBetween(rows, <<a, a + 3>>)
               = RevenueBetween(rows, <<a, a + 1>>) + RevenueBetween(rows, <<a + 1, a + 2>>)
                     + RevenueBetween(rows, <<a + 2, a + 3>>)
<1>1. RevenueBetween(rows, <<a, a + 3>>) = RevenueBetween(rows, <<a, a + 2>>) + RevenueBetween(rows, <<a + 2, a + 3>>)
    BY MonthsAddUp
<1>2. RevenueBetween(rows, <<a, a + 2>>) = RevenueBetween(rows, <<a, a + 1>>) + RevenueBetween(rows, <<a + 1, a + 2>>)
    BY MonthsAddUp
<1> QED BY <1>1, <1>2

\* On every day the ages add up to what is outstanding, the lines of the
\* breakdown to everything, three months to their quarter and to the trend,
\* and the ages past "current" of a customer's invoices to what the profile
\* calls overdue.
THEOREM SummaryAddsUp == Spec => []FinanceAddsUp
<1>1. ASSUME InvoiceTypes, RowsFinite, today \in Nat PROVE FinanceAddsUp
    <2>1. Table(Rows) BY <1>1, RowsAre DEF Table, Rows, RowsFinite
    <2>2. /\ OutstandingRows(Rows) \subseteq Validated(Rows) /\ Validated(Rows) \subseteq DOMAIN Rows
        BY DEF OutstandingRows, Validated
    <2> DEFINE aging == AgingBuckets(Rows, today)
               lines == StatusBreakdown(Rows)
               trend == RevenueTrend(Rows, 3, today)
    <2>3. SumFunction(aging) = lines.outstanding
        <3>1. DOMAIN aging = AgingLabels BY DEF AgingBuckets
        <3>2. {i \in OutstandingRows(Rows) : AgingLabel(Rows[i].due, today) \in AgingLabels} = OutstandingRows(Rows)
            BY <1>1, <2>1, <2>2, LabelIs DEF Table, Row
        <3>3. SumFunctionOnSet(aging, AgingLabels) = Total(Rows, OutstandingRows(Rows))
            BY <2>1, <3>2, AgesAddUp
        <3>4. lines.outstanding = Total(Rows, OutstandingRows(Rows)) BY DEF StatusBreakdown
        <3> QED BY <3>1, <3>3, <3>4 DEF SumFunction
    <2>4. lines.pending + lines.outstanding + lines.paid = Total(Rows, DOMAIN Rows)
        <3> DEFINE all == DOMAIN Rows
                   valid == Validated(Rows)
                   out == OutstandingRows(Rows)
        <3>1. lines = [pending |-> Total(Rows, all \ valid), outstanding |-> Total(Rows, out),
                       paid |-> Total(Rows, valid \ out)]
            BY DEF StatusBreakdown
        <3>2. Total(Rows, (all \ valid) \union valid) = Total(Rows, all \ valid) + Total(Rows, valid)
            BY <2>1, <2>2, TotalParts
        <3>3. Total(Rows, out \union (valid \ out)) = Total(Rows, out) + Total(Rows, valid \ out)
            BY <2>1, <2>2, TotalParts
        <3>4. (all \ valid) \union valid = all /\ out \union (valid \ out) = valid BY <2>2
        <3>5. /\ Total(Rows, all \ valid) \in Int /\ Total(Rows, out) \in Int
              /\ Total(Rows, valid \ out) \in Int
            BY <2>1, <2>2, TotalInt
        <3>6. /\ lines.pending = Total(Rows, all \ valid) /\ lines.outstanding = Total(Rows, out)
              /\ lines.paid = Total(Rows, valid \ out)
            BY <3>1
        <3>7. Total(Rows, all) = Total(Rows, all \ valid) + (Total(Rows, out) + Total(Rows, valid \ out))
            BY <3>2, <3>3, <3>4
        <3> HIDE DEF lines, all, valid, out
        <3> QED BY <3>5, <3>6, <3>7 DEF all
    <2>5. ASSUME NEW offset \in Int
          PROVE  LET first == PeriodBounds("quarter", offset, today)[1] - MonthOf(today)
                 IN  Revenue(Rows, "quarter", offset, today)
                         = Revenue(Rows, "month", first, today) + Revenue(Rows, "month", first + 1, today)
                               + Revenue(Rows, "month", first + 2, today)
        <3>1. PICK start \in Int : PeriodBounds("quarter", offset, today) = <<start, start + 3>>
            BY <1>1, BoundsAre
        <3> DEFINE first == PeriodBounds("quarter", offset, today)[1] - MonthOf(today)
        <3>2. first = start - MonthOf(today) /\ MonthOf(today) \in Int BY <1>1, <3>1, BoundsAre
        <3>3. \A n \in 0 .. 2 : PeriodBounds("month", first + n, today) = <<start + n, start + n + 1>>
            <4> TAKE n \in 0 .. 2
            <4>1. first + n \in Int /\ MonthOf(today) + (first + n) = start + n BY <3>2
            <4> HIDE DEF first
            <4> QED BY <1>1, <4>1, BoundsAre
        <3> HIDE DEF first
        <3>4. /\ PeriodBounds("month", first, today) = <<start, start + 1>>
              /\ PeriodBounds("month", first + 1, today) = <<start + 1, start + 2>>
              /\ PeriodBounds("month", first + 2, today) = <<start + 2, start + 3>>
            <4>1. first \in Int BY <3>2
            <4>2. first + 0 = first /\ start + 0 = start /\ start + 1 + 1 = start + 2 /\ start + 2 + 1 = start + 3
                BY <4>1
            <4> QED BY <3>3, <4>2
        <3>5. Revenue(Rows, "quarter", offset, today)
                  = Revenue(Rows, "month", first, today) + Revenue(Rows, "month", first + 1, today)
                        + Revenue(Rows, "month", first + 2, today)
            BY <2>1, <3>1, <3>4, ThreeMonths DEF Revenue
        <3> QED BY <3>5 DEF first
    <2>6. ASSUME NEW c \in Customers
          PROVE  LET mine == [i \in InvoicesOf(c) |-> invoice[i]]
                 IN  FinancialsOf(mine, today).overdue
                         = SumFunctionOnSet(AgingBuckets(mine, today), AgingLabels \ {"current"})
        <3> DEFINE mine == [i \in InvoicesOf(c) |-> invoice[i]]
                   late == {i \in DOMAIN mine : Overdue(mine[i], today)}
        <3>1. Table(mine)
            <4>1. IsFiniteSet(InvoicesOf(c)) BY <1>1, FS_Subset DEF InvoicesOf, RowsFinite
            <4> QED BY <1>1, <4>1, ExistsRow DEF Table, InvoicesOf
        <3> HIDE DEF mine
        <3>2. \A i \in DOMAIN mine : mine[i] \in Row /\ mine[i].due \in Days BY <3>1 DEF Table, Row
        <3>3. ASSUME NEW i \in DOMAIN mine
              PROVE  i \in late <=> i \in OutstandingRows(mine)
                                    /\ AgingLabel(mine[i].due, today) \in AgingLabels \ {"current"}
            <4>1. Outstanding(mine[i]) <=> i \in OutstandingRows(mine)
                BY DEF Outstanding, OutstandingRows, Validated
            <4>2. /\ AgingLabel(mine[i].due, today) \in AgingLabels
                  /\ AgingLabel(mine[i].due, today) = "current" <=> mine[i].due = NoDay \/ mine[i].due >= today
                BY <1>1, <3>2, LabelIs
            <4>3. Overdue(mine[i], today) <=> i \in OutstandingRows(mine) /\ AgingLabel(mine[i].due, today) # "current"
                BY <1>1, <3>2, <4>1, <4>2 DEF Overdue, Days, NoDay
            <4> QED BY <4>2, <4>3
        <3>4. late = {i \in OutstandingRows(mine) : AgingLabel(mine[i].due, today) \in AgingLabels \ {"current"}}
            BY <3>3 DEF OutstandingRows, Validated
        <3>5. SumFunctionOnSet(AgingBuckets(mine, today), AgingLabels \ {"current"}) = Total(mine, late)
            BY <3>1, <3>4, AgesAddUp
        <3>6. FinancialsOf(mine, today).overdue = Total(mine, late) BY DEF FinancialsOf
        <3> QED BY <3>5, <3>6 DEF mine
    <2>7. trend[1] + trend[2] + trend[3] = RevenueBetween(Rows, <<MonthOf(today) - 2, MonthOf(today) + 1>>)
        <3> DEFINE a == MonthOf(today) - 2
        <3>1. MonthOf(today) \in Int BY <1>1, BoundsAre
        <3>2. a \in Int BY <3>1
        <3>3. /\ MonthOf(today) + (1 - 3) = a /\ MonthOf(today) + (1 - 3) + 1 = a + 1
              /\ MonthOf(today) + (2 - 3) = a + 1 /\ MonthOf(today) + (2 - 3) + 1 = a + 2
              /\ MonthOf(today) + (3 - 3) = a + 2 /\ MonthOf(today) + (3 - 3) + 1 = a + 3
              /\ MonthOf(today) + 1 = a + 3
            BY <3>1
        <3>4. \A n \in 1 .. 3 : n - 3 \in Int OBVIOUS
        <3>5. /\ PeriodBounds("month", 1 - 3, today) = <<a, a + 1>>
              /\ PeriodBounds("month", 2 - 3, today) = <<a + 1, a + 2>>
              /\ PeriodBounds("month", 3 - 3, today) = <<a + 2, a + 3>>
            BY <1>1, <3>3, <3>4, BoundsAre
        <3>6. /\ trend[1] = Revenue(Rows, "month", 1 - 3, today)
              /\ trend[2] = Revenue(Rows, "month", 2 - 3, today)
              /\ trend[3] = Revenue(Rows, "month", 3 - 3, today)
            BY DEF RevenueTrend
        <3>7. /\ trend[1] = RevenueBetween(Rows, <<a, a + 1>>)
              /\ trend[2] = RevenueBetween(Rows, <<a + 1, a + 2>>)
              /\ trend[3] = RevenueBetween(Rows, <<a + 2, a + 3>>)
            BY <3>5, <3>6 DEF Revenue
        <3>8. <<MonthOf(today) - 2, MonthOf(today) + 1>> = <<a, a + 3>> BY <3>3
        <3> HIDE DEF a
        <3> QED BY <2>1, <3>2, <3>7, <3>8, ThreeMonths
    <2>8. \A offset \in {-1, 0} : offset \in Int OBVIOUS
    <2> QED BY <2>3, <2>4, <2>5, <2>6, <2>7, <2>8 DEF FinanceAddsUp
<1>2. RowsInv /\ RemindersInv /\ RowsFinite => FinanceAddsUp BY <1>1 DEF RowsInv, RemindersInv, ReminderTypes
<1> QED BY <1>2, InitRows, NextRows, InitReminders, NextReminders, InitFinite, NextFinite, PTL DEF Spec
=============================================================================
