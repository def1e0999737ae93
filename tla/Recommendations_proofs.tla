----------------------- MODULE Recommendations_proofs -----------------------
(***************************************************************************)
(* Theorems of Recommendations, for any sessions, conversations and        *)
(* records: the chain first, then what it tells, then the conversations.   *)
(***************************************************************************)
EXTENDS Recommendations, FiniteSetTheorems, TLAPS

-----------------------------------------------------------------------------
(* Rows of a chain, in the order of their ids. *)

Enumerates(g, rows) ==
    /\ g \in Seq(rows)
    /\ \A a \in rows : \E n \in DOMAIN g : g[n] = a
    /\ \A a \in rows : a.id \in Nat
    /\ \A m, n \in DOMAIN g : m < n => g[m].id < g[n].id

InSequence(rows) == Enumerates(InOrder(rows), rows)

FirstRows(g, n) == {g[m] : m \in 1 .. n}

LEMMA FirstRowsCount ==
    ASSUME NEW rows, NEW g, Enumerates(g, rows), NEW n \in 0 .. Len(g)
    PROVE  IsFiniteSet(FirstRows(g, n)) /\ Cardinality(FirstRows(g, n)) = n
<1> DEFINE f == [m \in 1 .. n |-> g[m]]
<1>1. g \in Seq(rows) /\ DOMAIN g = 1 .. Len(g) /\ Len(g) \in Nat /\ n \in Nat
  BY DEF Enumerates
<1>2. \A m \in 1 .. n : m \in DOMAIN g /\ g[m] \in rows /\ g[m].id \in Nat
  BY <1>1 DEF Enumerates
<1>3. f \in Bijection(1 .. n, FirstRows(g, n))
  <2>1. f \in [1 .. n -> FirstRows(g, n)]
    BY DEF FirstRows
  <2>2. \A a, b \in 1 .. n : f[a] = f[b] => a = b
    BY <1>2 DEF Enumerates
  <2>3. \A t \in FirstRows(g, n) : \E s \in 1 .. n : f[s] = t
    BY DEF FirstRows
  <2> QED BY <2>1, <2>2, <2>3 DEF Bijection, Injection, Surjection, IsInjective
<1>4. ExistsBijection(1 .. n, FirstRows(g, n))
  BY <1>3 DEF ExistsBijection
<1>5. Cardinality(FirstRows(g, n)) = n
  BY <1>1, <1>4, FS_CountingElements
<1>6. IsFiniteSet(FirstRows(g, n))
  BY <1>1, <1>4, FS_NatBijection
<1> QED BY <1>5, <1>6

LEMMA RowsCount ==
    ASSUME NEW rows, NEW g, Enumerates(g, rows)
    PROVE  IsFiniteSet(rows) /\ Cardinality(rows) = Len(g) /\ Len(g) \in Nat
<1>1. g \in Seq(rows) /\ DOMAIN g = 1 .. Len(g) /\ Len(g) \in Nat
  BY DEF Enumerates
<1>2. rows = FirstRows(g, Len(g))
  BY <1>1 DEF Enumerates, FirstRows
<1> QED BY <1>1, <1>2, FirstRowsCount

\* The rank of a row is its place.
LEMMA Rank ==
    ASSUME NEW rows, NEW g, Enumerates(g, rows), NEW n \in DOMAIN g
    PROVE  Cardinality({b \in rows : b.id <= g[n].id}) = n
<1>1. g \in Seq(rows) /\ DOMAIN g = 1 .. Len(g) /\ Len(g) \in Nat
  BY DEF Enumerates
<1>2. \A m \in DOMAIN g : g[m] \in rows /\ g[m].id \in Nat
  BY <1>1 DEF Enumerates
<1>3. \A m \in DOMAIN g : (g[m].id <= g[n].id) <=> (m <= n)
  <2> SUFFICES ASSUME NEW m \in DOMAIN g PROVE (g[m].id <= g[n].id) <=> (m <= n)
    OBVIOUS
  <2>1. m < n => g[m].id < g[n].id
    BY DEF Enumerates
  <2>2. n < m => g[n].id < g[m].id
    BY DEF Enumerates
  <2> QED BY <1>1, <1>2, <2>1, <2>2
<1>4. {b \in rows : b.id <= g[n].id} = FirstRows(g, n)
  <2>1. ASSUME NEW b \in rows, b.id <= g[n].id PROVE b \in FirstRows(g, n)
    <3>1. PICK m \in DOMAIN g : g[m] = b
      BY DEF Enumerates
    <3>2. m \in 1 .. n
      BY <1>1, <1>3, <2>1, <3>1
    <3> QED BY <3>1, <3>2 DEF FirstRows
  <2>2. ASSUME NEW b \in FirstRows(g, n) PROVE b \in rows /\ b.id <= g[n].id
    <3>1. PICK m \in 1 .. n : b = g[m]
      BY <2>2 DEF FirstRows
    <3>2. m \in DOMAIN g /\ m <= n
      BY <1>1
    <3> QED BY <1>2, <1>3, <3>1, <3>2
  <2> QED BY <2>1, <2>2
<1>5. n \in 0 .. Len(g)
  BY <1>1
<1> QED BY <1>4, <1>5, FirstRowsCount

\* The enumeration is the order, and the only one.
LEMMA OrderIs ==
    ASSUME NEW rows, NEW g, Enumerates(g, rows)
    PROVE  InOrder(rows) = g
<1>1. g \in Seq(rows) /\ DOMAIN g = 1 .. Len(g) /\ Len(g) \in Nat
  BY DEF Enumerates
<1>2. g = [n \in 1 .. Len(g) |-> g[n]]
  BY <1>1
<1>3. ASSUME NEW n \in 1 .. Len(g)
      PROVE  (CHOOSE a \in rows : Cardinality({b \in rows : b.id <= a.id}) = n) = g[n]
  <2> DEFINE P(a) == Cardinality({b \in rows : b.id <= a.id}) = n
  <2>1. g[n] \in rows /\ P(g[n])
    BY <1>1, Rank
  <2>2. ASSUME NEW a \in rows, P(a) PROVE a = g[n]
    <3>1. PICK m \in DOMAIN g : g[m] = a
      BY DEF Enumerates
    <3>2. Cardinality({b \in rows : b.id <= g[m].id}) = m
      BY Rank
    <3> QED BY <2>2, <3>1, <3>2
  <2> HIDE DEF P
  <2>3. (CHOOSE a \in rows : P(a)) = g[n]
    BY <2>1, <2>2
  <2> QED BY <2>3 DEF P
<1>4. Cardinality(rows) = Len(g)
  BY RowsCount
<1> QED BY <1>2, <1>3, <1>4 DEF InOrder

LEMMA EnumerationGrows ==
    ASSUME NEW rows, NEW g, Enumerates(g, rows), NEW e, e.id \in Nat, \A a \in rows : a.id < e.id
    PROVE  Enumerates(Append(g, e), rows \union {e})
<1>1. g \in Seq(rows) /\ DOMAIN g = 1 .. Len(g) /\ Len(g) \in Nat
  BY DEF Enumerates
<1> DEFINE h == Append(g, e)
<1>2. \A n \in 1 .. Len(g) : g[n] \in rows
  BY <1>1
<1>3. h \in Seq(rows \union {e}) /\ Len(h) = Len(g) + 1 /\ DOMAIN h = 1 .. Len(g) + 1
  BY <1>1, <1>2
<1>4. (\A n \in 1 .. Len(g) : h[n] = g[n]) /\ h[Len(g) + 1] = e
  BY <1>1
<1> HIDE DEF h
<1>5. \A a \in rows \union {e} : \E n \in DOMAIN h : h[n] = a
  BY <1>1, <1>3, <1>4 DEF Enumerates
<1>6. \A a \in rows \union {e} : a.id \in Nat
  BY DEF Enumerates
<1>7. ASSUME NEW m \in DOMAIN h, NEW n \in DOMAIN h, m < n PROVE h[m].id < h[n].id
  <2>1. m \in 1 .. Len(g) /\ h[m] = g[m] /\ g[m] \in rows
    BY <1>1, <1>2, <1>3, <1>4, <1>7
  <2>2. CASE n = Len(g) + 1
    BY <1>4, <2>1, <2>2
  <2>3. CASE n # Len(g) + 1
    <3>1. n \in 1 .. Len(g) /\ h[n] = g[n]
      BY <1>1, <1>3, <1>4, <2>3
    <3> QED BY <1>1, <1>7, <2>1, <3>1 DEF Enumerates
  <2> QED BY <2>2, <2>3
<1>8. Enumerates(h, rows \union {e})
  BY <1>3, <1>5, <1>6, <1>7 DEF Enumerates
<1> QED BY <1>8 DEF h

LEMMA OrderGrows ==
    ASSUME NEW rows, InSequence(rows), NEW e, e.id \in Nat, \A a \in rows : a.id < e.id
    PROVE  InSequence(rows \union {e}) /\ InOrder(rows \union {e}) = Append(InOrder(rows), e)
<1>1. Enumerates(Append(InOrder(rows), e), rows \union {e})
  BY EnumerationGrows DEF InSequence
<1>2. InOrder(rows \union {e}) = Append(InOrder(rows), e)
  BY <1>1, OrderIs
<1> QED BY <1>1, <1>2 DEF InSequence

LEMMA OrderOfNone == InSequence({}) /\ InOrder({}) = <<>>
<1>1. Enumerates(<<>>, {})
  BY DEF Enumerates
<1>2. InOrder({}) = <<>>
  BY <1>1, OrderIs
<1> QED BY <1>1, <1>2 DEF InSequence

\* The tail is the last of them.
LEMMA TailIs ==
    ASSUME NEW rows, InSequence(rows), NEW g, g = InOrder(rows)
    PROVE  ChainTail(rows) = IF Len(g) = 0 THEN Genesis ELSE g[Len(g)].hash
<1>1. Enumerates(g, rows) /\ g \in Seq(rows) /\ DOMAIN g = 1 .. Len(g) /\ Len(g) \in Nat
  BY DEF InSequence, Enumerates
<1>2. \A n \in 1 .. Len(g) : g[n] \in rows /\ g[n].id \in Nat
  BY <1>1 DEF Enumerates
<1>3. CASE Len(g) = 0
  <2>1. rows = {}
    BY <1>1, <1>3 DEF Enumerates
  <2> QED BY <1>3, <2>1 DEF ChainTail
<1>4. CASE Len(g) # 0
  <2> DEFINE P(a) == \A b \in rows : b.id <= a.id
             last == g[Len(g)]
  <2>1. Len(g) \in DOMAIN g /\ last \in rows /\ rows # {}
    BY <1>1, <1>2, <1>4
  <2>2. P(last)
    <3> SUFFICES ASSUME NEW b \in rows PROVE b.id <= last.id
      OBVIOUS
    <3>1. PICK n \in DOMAIN g : g[n] = b
      BY <1>1 DEF Enumerates
    <3>2. n < Len(g) => g[n].id < last.id
      BY <1>1, <2>1 DEF Enumerates
    <3> QED BY <1>1, <1>2, <2>1, <3>1, <3>2
  <2>3. ASSUME NEW a \in rows, P(a) PROVE a = last
    <3>1. PICK n \in DOMAIN g : g[n] = a
      BY <1>1 DEF Enumerates
    <3>2. n < Len(g) => g[n].id < last.id
      BY <1>1, <2>1 DEF Enumerates
    <3> QED BY <1>1, <1>2, <2>1, <2>3, <3>1, <3>2
  <2> HIDE DEF P
  <2>4. (CHOOSE a \in rows : P(a)) = last
    BY <2>1, <2>2, <2>3
  <2>5. ChainTail(rows) = (CHOOSE a \in rows : P(a)).hash
    BY <2>1, Zenon DEF P, ChainTail
  <2> QED BY <1>4, <2>4, <2>5
<1> QED BY <1>3, <1>4

LEMMA ChainOfNone == Verifies({})
BY OrderOfNone DEF Verifies

\* A row that was made on the tail, with an id above the others, keeps the
\* chain whole.
LEMMA ChainGrows ==
    ASSUME NEW rows, InSequence(rows), Verifies(rows),
           NEW id \in Nat, \A a \in rows : a.id < id, NEW event,
           NEW e, e = Entry(id, ChainTail(rows), event)
    PROVE  Verifies(rows \union {e})
<1>1. PICK g : g = InOrder(rows)
  OBVIOUS
<1>2. Enumerates(g, rows) /\ g \in Seq(rows) /\ DOMAIN g = 1 .. Len(g) /\ Len(g) \in Nat
  BY <1>1 DEF InSequence, Enumerates
<1>3. e.id = id /\ e.prev = ChainTail(rows) /\ e.hash = Hash(ChainTail(rows), event) /\ e.event = event
  BY DEF Entry
<1>4. PICK h : h = Append(g, e)
  OBVIOUS
<1>5. InOrder(rows \union {e}) = h
  BY <1>1, <1>3, <1>4, OrderGrows
<1>6. Len(h) = Len(g) + 1 /\ DOMAIN h = 1 .. Len(g) + 1
      /\ (\A n \in 1 .. Len(g) : h[n] = g[n]) /\ h[Len(g) + 1] = e
  <2>1. g \in Seq(rows \union {e})
    BY <1>2
  <2> QED BY <1>4, <2>1
<1>7. ChainTail(rows) = IF Len(g) = 0 THEN Genesis ELSE g[Len(g)].hash
  BY <1>1, TailIs
<1>8. ASSUME NEW n \in DOMAIN h
      PROVE  LET before == IF n = 1 THEN Genesis ELSE h[n - 1].hash
             IN  h[n].prev = before /\ h[n].hash = Hash(before, h[n].event)
  <2>1. CASE n = Len(g) + 1
    <3>1. ChainTail(rows) = IF n = 1 THEN Genesis ELSE h[n - 1].hash
      BY <1>2, <1>6, <1>7, <2>1
    <3>2. h[n] = e
      BY <1>6, <2>1
    <3> QED BY <1>3, <3>1, <3>2
  <2>2. CASE n # Len(g) + 1
    <3>1. n \in DOMAIN g /\ h[n] = g[n] /\ (n # 1 => h[n - 1] = g[n - 1])
      BY <1>2, <1>6, <2>2
    <3>2. LET before == IF n = 1 THEN Genesis ELSE g[n - 1].hash
          IN  g[n].prev = before /\ g[n].hash = Hash(before, g[n].event)
      BY <1>1, <3>1 DEF Verifies
    <3> QED BY <3>1, <3>2
  <2> QED BY <2>1, <2>2
<1> QED BY <1>5, <1>8 DEF Verifies

\* What the rows tell, in their order.
Told(rows) == [n \in DOMAIN Events(rows) |-> Events(rows)[n].status]

LEMMA ToldOfNone == Told({}) = <<>>
<1>1. InOrder({}) = <<>>
  BY OrderOfNone
<1>2. Events({}) = <<>>
  BY <1>1 DEF Events
<1> QED BY <1>2 DEF Told

LEMMA ToldGrows ==
    ASSUME NEW rows, InSequence(rows), NEW e, e.id \in Nat, \A a \in rows : a.id < e.id
    PROVE  /\ InSequence(rows \union {e})
           /\ Told(rows \union {e}) = Append(Told(rows), e.event.status)
<1>1. PICK g : g = InOrder(rows)
  OBVIOUS
<1>2. g \in Seq(rows) /\ DOMAIN g = 1 .. Len(g) /\ Len(g) \in Nat
  BY <1>1 DEF InSequence, Enumerates
<1>3. PICK h : h = Append(g, e)
  OBVIOUS
<1>4. InOrder(rows \union {e}) = h /\ InSequence(rows \union {e})
  BY <1>1, <1>3, OrderGrows
<1>5. Len(h) = Len(g) + 1 /\ DOMAIN h = 1 .. Len(g) + 1
      /\ (\A n \in 1 .. Len(g) : h[n] = g[n]) /\ h[Len(g) + 1] = e
  <2>1. g \in Seq(rows \union {e})
    BY <1>2
  <2> QED BY <1>3, <2>1
<1>6. Told(rows) = [n \in 1 .. Len(g) |-> g[n].event.status]
  BY <1>1, <1>2 DEF Told, Events
<1>7. Told(rows \union {e}) = [n \in 1 .. Len(g) + 1 |-> h[n].event.status]
  BY <1>4, <1>5 DEF Told, Events
<1>8. Append(Told(rows), e.event.status) = [n \in 1 .. Len(g) + 1 |-> h[n].event.status]
  <2> DEFINE s == Told(rows)
             x == e.event.status
  <2>1. s \in Seq({s[n] : n \in 1 .. Len(g)} \union {x}) /\ Len(s) = Len(g)
    BY <1>2, <1>6
  <2>2. Append(s, x) = [n \in 1 .. Len(g) + 1 |-> IF n = Len(g) + 1 THEN x ELSE s[n]]
    BY <1>2, <2>1
  <2>3. \A n \in 1 .. Len(g) + 1 : (IF n = Len(g) + 1 THEN x ELSE s[n]) = h[n].event.status
    BY <1>2, <1>5, <1>6
  <2> QED BY <2>2, <2>3
<1> QED BY <1>4, <1>7, <1>8

-----------------------------------------------------------------------------
(* The chain verifies.  Who holds the lock holds the only entry that is    *)
(* made and not committed, and its id is above all that were.              *)

Due(r, rows, given) ==
    /\ r.entry = Entry(r.entry.id, ChainTail(rows), [resource |-> r.fingerprint, status |-> r.status])
    /\ r.entry.id \in 1 .. given
    /\ \A a \in rows : a.id < r.entry.id

ChainInv ==
    /\ DOMAIN office = Officers /\ events \in Nat
    /\ InSequence(log) /\ Verifies(log)
    /\ \A a \in log : a.id \in 1 .. events
    /\ \A o \in Officers : office[o].phase = "logged" => Due(office[o], log, events)
    /\ \A o, q \in Officers : office[o].phase = "logged" /\ office[q].phase = "logged" => o = q

LEMMA ChainInit == Init => ChainInv
<1> SUFFICES ASSUME Init PROVE ChainInv
  OBVIOUS
<1>1. office = [o \in Officers |-> Absent] /\ events = 0 /\ log = {}
  BY DEF Init
<1>2. \A o \in Officers : office[o].phase # "logged"
  BY <1>1 DEF Absent
<1> QED BY <1>1, <1>2, OrderOfNone, ChainOfNone DEF ChainInv

\* One session goes on, and does not hold the lock after it.
ToldOff(o) ==
    /\ DOMAIN office' = DOMAIN office
    /\ \A q \in Officers : q # o => office'[q] = office[q]

LEMMA OfficeChanges ==
    ASSUME DOMAIN office = Officers, NEW o \in Officers, NEW r, office' = [office EXCEPT ![o] = r]
    PROVE  ToldOff(o) /\ office'[o] = r
BY DEF ToldOff

LEMMA ChainUnheld ==
    ASSUME ChainInv, NEW o \in Officers, ToldOff(o), office'[o].phase # "logged", UNCHANGED <<log, events>>
    PROVE  ChainInv'
<1>1. \A q \in Officers : office'[q].phase = "logged" => office'[q] = office[q]
  BY DEF ToldOff
<1> QED BY <1>1 DEF ChainInv, ToldOff

LEMMA ChainWrite ==
    ASSUME ChainInv, NEW o \in Officers, WriteEvent(o)
    PROVE  ChainInv'
<1> DEFINE r == office[o]
<1>1. PICK x : x = [phase |-> "logged", fingerprint |-> r.fingerprint, status |-> r.status,
                    entry |-> Entry(events + 1, ChainTail(log), [resource |-> r.fingerprint, status |-> r.status])]
  OBVIOUS
<1>2. office' = [office EXCEPT ![o] = x] /\ events' = events + 1 /\ log' = log
  BY <1>1 DEF WriteEvent
<1>3. ToldOff(o) /\ office'[o] = x
  BY <1>2, OfficeChanges DEF ChainInv
<1>4. \A q \in Officers : office[q].phase # "logged"
  BY DEF WriteEvent, Locked, Lock
<1>5. x.entry.id = events + 1 /\ x.entry = Entry(events + 1, ChainTail(log), [resource |-> x.fingerprint, status |-> x.status])
  BY <1>1 DEF Entry
<1>6. Due(x, log, events + 1)
  BY <1>5 DEF Due, ChainInv
<1>7. \A q \in Officers : office'[q].phase = "logged" => q = o
  BY <1>3, <1>4 DEF ToldOff
<1> QED BY <1>2, <1>3, <1>6, <1>7 DEF ChainInv, ToldOff

LEMMA ChainCommit ==
    ASSUME ChainInv, NEW o \in Officers, Commit(o)
    PROVE  ChainInv' /\ log \subseteq log'
<1>1. PICK e : e = office[o].entry
  OBVIOUS
<1>2. PICK event : event = [resource |-> office[o].fingerprint, status |-> office[o].status]
  OBVIOUS
<1>3. log' = log \union {e} /\ events' = events /\ office[o].phase = "logged"
      /\ office' = [office EXCEPT ![o] = Absent]
  BY <1>1 DEF Commit
<1>4. e = Entry(e.id, ChainTail(log), event) /\ e.id \in 1 .. events /\ \A a \in log : a.id < e.id
  BY <1>1, <1>2, <1>3 DEF ChainInv, Due
<1>5. ToldOff(o) /\ office'[o] = Absent
  BY <1>3, OfficeChanges DEF ChainInv
<1>6. e.id \in Nat /\ InSequence(log) /\ Verifies(log) /\ events \in Nat
  BY <1>4 DEF ChainInv
<1>7. InSequence(log \union {e})
  BY <1>4, <1>6, OrderGrows
<1>8. Verifies(log \union {e})
  <2>1. PICK id : id = e.id
    OBVIOUS
  <2>2. id \in Nat /\ (\A a \in log : a.id < id) /\ e = Entry(id, ChainTail(log), event)
    BY <1>4, <1>6, <2>1
  <2> QED BY <1>6, <2>2, ChainGrows
<1>9. \A q \in Officers : office'[q].phase # "logged"
  BY <1>3, <1>5 DEF ChainInv, ToldOff, Absent
<1> QED BY <1>3, <1>4, <1>5, <1>7, <1>8, <1>9 DEF ChainInv, ToldOff

LEMMA ChainStep == ChainInv /\ [Next]_vars => ChainInv' /\ log \subseteq log'
<1> SUFFICES ASSUME ChainInv, [Next]_vars PROVE ChainInv' /\ log \subseteq log'
  OBVIOUS
<1>1. CASE UNCHANGED <<log, office, events>>
  BY <1>1 DEF ChainInv
<1>2. ASSUME NEW o \in Officers, NEW f, Propose(o, f) PROVE ChainInv' /\ log \subseteq log'
  <2>1. office' = [office EXCEPT ![o] = [phase |-> "new", fingerprint |-> f]] /\ UNCHANGED <<log, events>>
    BY <1>2 DEF Propose
  <2>2. ToldOff(o) /\ office'[o].phase = "new"
    BY <2>1, OfficeChanges DEF ChainInv
  <2> QED BY <2>1, <2>2, ChainUnheld
<1>3. ASSUME NEW o \in Officers, InsertProposal(o) PROVE ChainInv' /\ log \subseteq log'
  <2> DEFINE x == [phase |-> "logging", fingerprint |-> office[o].fingerprint, status |-> "proposed"]
  <2>1. office' = [office EXCEPT ![o] = Absent] \/ office' = [office EXCEPT ![o] = x]
    BY <1>3 DEF InsertProposal
  <2>2. UNCHANGED <<log, events>>
    BY <1>3 DEF InsertProposal
  <2>3. ToldOff(o) /\ office'[o] \in {Absent, x}
    BY <2>1, OfficeChanges DEF ChainInv
  <2>4. office'[o].phase # "logged"
    BY <2>3 DEF Absent
  <2> QED BY <2>2, <2>3, <2>4, ChainUnheld
<1>4. ASSUME NEW o \in Officers, Decide(o) PROVE ChainInv' /\ log \subseteq log'
  <2>1. PICK f, d : office' = [office EXCEPT ![o] = [phase |-> "logging", fingerprint |-> f, status |-> d]]
    BY <1>4 DEF Decide
  <2>2. UNCHANGED <<log, events>>
    BY <1>4 DEF Decide
  <2>3. ToldOff(o) /\ office'[o].phase # "logged"
    BY <2>1, OfficeChanges DEF ChainInv
  <2> QED BY <2>2, <2>3, ChainUnheld
<1>5. ASSUME NEW o \in Officers, WriteEvent(o) PROVE ChainInv' /\ log \subseteq log'
  BY <1>5, ChainWrite DEF WriteEvent
<1>6. ASSUME NEW o \in Officers, Commit(o) PROVE ChainInv' /\ log \subseteq log'
  BY <1>6, ChainCommit
<1>7. ASSUME NEW o \in Officers, Abort(o) PROVE ChainInv' /\ log \subseteq log'
  <2>1. office' = [office EXCEPT ![o] = Absent] /\ UNCHANGED <<log, events>>
    BY <1>7 DEF Abort
  <2>2. ToldOff(o) /\ office'[o].phase # "logged"
    BY <2>1, OfficeChanges DEF ChainInv, Absent
  <2> QED BY <2>1, <2>2, ChainUnheld
<1>8. ASSUME NEW o \in Officers, Analyze(o) \/ ReadTurn(o) PROVE \E f : Propose(o, f)
  BY <1>8 DEF Analyze, ReadTurn
<1>9. CASE Converse
  BY <1>1, <1>9 DEF Converse, recommendations
<1>10. ASSUME NEW v \in Visitors, NEW c \in Conversation, DeleteTurns(v, c) PROVE ChainInv' /\ log \subseteq log'
  BY <1>1, <1>10 DEF DeleteTurns, recommendations
<1>11. ASSUME NEW v \in Visitors, ForgetTurns(v) PROVE ChainInv' /\ log \subseteq log'
  BY <1>1, <1>11 DEF ForgetTurns
<1>12. CASE UNCHANGED vars
  BY <1>1, <1>12 DEF vars, recommendations
<1> QED BY <1>2, <1>3, <1>4, <1>5, <1>6, <1>7, <1>8, <1>9, <1>10, <1>11, <1>12 DEF Next

LEMMA ChainAlways == Spec => []ChainInv
BY ChainInit, ChainStep, PTL DEF Spec

\* The workflow chain verifies after every step, whatever transactions append
\* to it at one time, commit or are rolled back, and no hash that an anchor
\* may have kept is lost (append_workflow_event, verify_workflow_chain).
THEOREM ChainSound == Spec => ChainVerifies
<1>1. ChainInv /\ ChainInv' /\ log \subseteq log'
      => [Verifies(log') /\ \A row \in log : StillPresent(row.hash, log')]_log
  <2> SUFFICES ASSUME ChainInv', log \subseteq log'
               PROVE  Verifies(log') /\ \A row \in log : StillPresent(row.hash, log')
    OBVIOUS
  <2>1. Verifies(log')
    BY DEF ChainInv
  <2>2. \A row \in log : StillPresent(row.hash, log')
    BY DEF StillPresent
  <2> QED BY <2>1, <2>2
<1>2. ChainInv /\ [Next]_vars => [Verifies(log') /\ \A row \in log : StillPresent(row.hash, log')]_log
  BY <1>1, ChainStep
<1> QED BY <1>2, ChainAlways, PTL DEF Spec, ChainVerifies

-----------------------------------------------------------------------------
(* The chain tells what happened.  A fingerprint is proposed by one        *)
(* session at a time, and only while it does not exist; it is decided      *)
(* while it does.                                                          *)

Decisions == {"approved", "rejected", "implemented"}

RowsAbout(rows, f) == {row \in rows : row.event.resource = f}

Writing(r) == r.phase \in {"logging", "logged"}

Truthful(p, d, rows) ==
    /\ InSequence(rows)
    /\ d \in Seq(Decisions)
    /\ Told(rows) = <<"proposed">> \o d
    /\ p = [status |-> p.status, origin |-> p.origin]
    /\ p.status = IF d = <<>> THEN "proposed" ELSE d[Len(d)]

Courses == {<<>>, <<"approved">>, <<"rejected">>, <<"approved", "implemented">>}

Proposing(o, f) == Writing(office[o]) /\ office[o].status = "proposed" /\ office[o].fingerprint = f

Uncontended(f) ==
    /\ decided[f] \in Courses
    /\ \A o \in Officers : Deciding(o, f) => Allowed(proposal[f].status, office[o].status)
    /\ \A o, q \in Officers : Deciding(o, f) /\ Deciding(q, f) => o = q

TablesAgree ==
    /\ DOMAIN decided = DOMAIN proposal
    /\ \A row \in log : row.event.resource \in DOMAIN proposal
    /\ \A f \in DOMAIN proposal : Truthful(proposal[f], decided[f], RowsAbout(log, f))

OfficeSound ==
    /\ \A o \in Officers, f \in DOMAIN proposal : ~Proposing(o, f)
    /\ \A o, q \in Officers : \A f : Proposing(o, f) /\ Proposing(q, f) => o = q
    /\ \A o \in Officers : \A f : Deciding(o, f) => f \in DOMAIN proposal /\ office[o].status \in Decisions

ToldInv ==
    /\ TablesAgree
    /\ OfficeSound
    /\ \A f \in DOMAIN proposal \ contended : Uncontended(f)

LEMMA ToldInit == Init => ToldInv
<1> SUFFICES ASSUME Init PROVE ToldInv
  OBVIOUS
<1>1. office = [o \in Officers |-> Absent] /\ log = {} /\ proposal = <<>> /\ decided = <<>>
  BY DEF Init
<1>2. DOMAIN proposal = {} /\ DOMAIN decided = {}
  BY <1>1
<1>3. \A o \in Officers : ~Writing(office[o]) /\ office[o].phase \notin {"logging", "logged"}
  BY <1>1 DEF Absent, Writing
<1> QED BY <1>1, <1>2, <1>3 DEF ToldInv, TablesAgree, OfficeSound, Proposing, Deciding

\* A session that gives up, or only looks, disturbs nothing.
LEMMA ToldUndisturbed ==
    ASSUME ToldInv, NEW o \in Officers, ToldOff(o), ~Writing(office'[o]),
           UNCHANGED <<log, proposal, decided, contended>>
    PROVE  ToldInv'
<1>1. \A q \in Officers : \A f :
          /\ Proposing(q, f)' => Proposing(q, f) /\ office'[q] = office[q]
          /\ Deciding(q, f)' => Deciding(q, f) /\ office'[q] = office[q]
  BY DEF ToldOff, Proposing, Deciding, Writing
<1>2. TablesAgree'
  BY DEF ToldInv, TablesAgree
<1>3. OfficeSound'
  BY <1>1 DEF ToldInv, OfficeSound
<1>4. ASSUME NEW f \in DOMAIN proposal \ contended PROVE Uncontended(f)'
  BY <1>1 DEF ToldInv, Uncontended
<1> QED BY <1>2, <1>3, <1>4 DEF ToldInv

LEMMA ToldInsert ==
    ASSUME ToldInv, ChainInv, NEW o \in Officers, InsertProposal(o)
    PROVE  ToldInv'
<1>1. PICK f : f = office[o].fingerprint
  OBVIOUS
<1>2. PICK x : x = [phase |-> "logging", fingerprint |-> f, status |-> "proposed"]
  OBVIOUS
<1>3. UNCHANGED <<log, proposal, decided, contended>> /\ DOMAIN office = Officers
  BY DEF InsertProposal, ChainInv
<1>4. CASE office' = [office EXCEPT ![o] = Absent]
  <2>1. ToldOff(o) /\ office'[o] = Absent
    BY <1>3, <1>4, OfficeChanges
  <2>2. ~Writing(office'[o])
    BY <2>1 DEF Absent, Writing
  <2> QED BY <1>3, <2>1, <2>2, ToldUndisturbed
<1>5. CASE office' = [office EXCEPT ![o] = x] /\ ~Exists(f)
  <2>1. ToldOff(o) /\ office'[o] = x
    BY <1>3, <1>5, OfficeChanges
  <2>2. f \notin DOMAIN proposal
    BY <1>5 DEF Exists
  <2>3. \A q \in Officers : ~Proposing(q, f)
    BY <1>1 DEF InsertProposal, Inserting, Proposing, Writing
  <2>4. \A g : ~Deciding(o, g)' /\ (Proposing(o, g)' => g = f)
    BY <1>2, <2>1 DEF Deciding, Proposing
  <2>5. \A q \in Officers : \A g : q # o =>
            (Proposing(q, g)' => Proposing(q, g)) /\ (Deciding(q, g)' => Deciding(q, g)) /\ office'[q] = office[q]
    BY <2>1 DEF ToldOff, Proposing, Deciding
  <2>6. TablesAgree'
    BY <1>3 DEF ToldInv, TablesAgree
  <2>7. OfficeSound'
    BY <1>3, <2>2, <2>3, <2>4, <2>5 DEF ToldInv, OfficeSound
  <2>8. ASSUME NEW g \in DOMAIN proposal \ contended PROVE Uncontended(g)'
    BY <1>3, <2>4, <2>5 DEF ToldInv, Uncontended
  <2> QED BY <1>3, <2>6, <2>7, <2>8 DEF ToldInv
<1> QED BY <1>1, <1>2, <1>4, <1>5 DEF InsertProposal

LEMMA ToldDecide ==
    ASSUME ToldInv, ChainInv, NEW o \in Officers, Decide(o)
    PROVE  ToldInv'
<1>1. PICK f \in DOMAIN proposal, d \in {"approved", "rejected", "implemented"} :
          /\ Allowed(proposal[f].status, d)
          /\ office' = [office EXCEPT ![o] = [phase |-> "logging", fingerprint |-> f, status |-> d]]
          /\ contended' = IF \E other \in Officers : Deciding(other, f) THEN contended \union {f} ELSE contended
  BY DEF Decide
<1>2. PICK x : x = [phase |-> "logging", fingerprint |-> f, status |-> d]
  OBVIOUS
<1>3. UNCHANGED <<log, proposal, decided>> /\ DOMAIN office = Officers
  BY DEF Decide, ChainInv
<1>4. ToldOff(o) /\ office'[o] = x
  BY <1>1, <1>2, <1>3, OfficeChanges
<1>5. \A g : ~Proposing(o, g)' /\ (Deciding(o, g)' => g = f) /\ office'[o].status = d
  BY <1>2, <1>4 DEF Deciding, Proposing
<1>6. \A q \in Officers : \A g : q # o =>
          (Proposing(q, g)' => Proposing(q, g)) /\ (Deciding(q, g)' => Deciding(q, g)) /\ office'[q] = office[q]
  BY <1>4 DEF ToldOff, Proposing, Deciding
<1>7. TablesAgree'
  BY <1>3 DEF ToldInv, TablesAgree
<1>8. OfficeSound'
  BY <1>3, <1>5, <1>6 DEF ToldInv, OfficeSound, Decisions
<1>9. ASSUME NEW g \in DOMAIN proposal \ contended' PROVE Uncontended(g)'
  <2>1. Uncontended(g)
    BY <1>1, <1>9 DEF ToldInv
  <2>2. CASE g = f
    <3>1. \A q \in Officers : ~Deciding(q, f)
      BY <1>1, <1>9, <2>2
    <3>2. \A q \in Officers : Deciding(q, g)' => q = o
      BY <1>6, <2>2, <3>1
    <3> QED BY <1>1, <1>3, <1>5, <2>1, <2>2, <3>2 DEF Uncontended
  <2>3. CASE g # f
    <3>1. \A q \in Officers : Deciding(q, g)' => Deciding(q, g) /\ office'[q] = office[q]
      BY <1>5, <1>6, <2>3
    <3> QED BY <1>3, <2>1, <3>1 DEF Uncontended
  <2> QED BY <2>2, <2>3
<1> QED BY <1>3, <1>7, <1>8, <1>9 DEF ToldInv

LEMMA ToldWrite ==
    ASSUME ToldInv, ChainInv, NEW o \in Officers, WriteEvent(o)
    PROVE  ToldInv'
<1>1. UNCHANGED <<log, proposal, decided, contended>> /\ DOMAIN office = Officers
  BY DEF WriteEvent, ChainInv
<1>2. \A q \in Officers : Writing(office'[q]) =>
          Writing(office[q]) /\ office'[q].fingerprint = office[q].fingerprint /\ office'[q].status = office[q].status
  BY <1>1 DEF WriteEvent, Writing
<1>3. \A q \in Officers : \A f :
          /\ Proposing(q, f)' => Proposing(q, f)
          /\ Deciding(q, f)' => Deciding(q, f) /\ office'[q].status = office[q].status
  BY <1>2 DEF Proposing, Deciding, Writing
<1>4. TablesAgree'
  BY <1>1 DEF ToldInv, TablesAgree
<1>5. OfficeSound'
  BY <1>1, <1>3 DEF ToldInv, OfficeSound
<1>6. ASSUME NEW f \in DOMAIN proposal \ contended PROVE Uncontended(f)'
  BY <1>1, <1>3 DEF ToldInv, Uncontended
<1> QED BY <1>1, <1>4, <1>5, <1>6 DEF ToldInv

\* A decision goes to the end of the decisions and of the tale.
LEMMA TruthfulGrows ==
    ASSUME NEW p, NEW d, NEW rows, Truthful(p, d, rows),
           NEW e, e.id \in Nat, \A a \in rows : a.id < e.id, NEW x \in Decisions, e.event.status = x
    PROVE  Truthful([p EXCEPT !.status = x], Append(d, x), rows \union {e})
<1>1. InSequence(rows \union {e}) /\ Told(rows \union {e}) = Append(Told(rows), x)
  BY ToldGrows DEF Truthful
<1>2. d \in Seq(Decisions) /\ Append(d, x) \in Seq(Decisions) /\ Append(d, x) # <<>>
      /\ Append(d, x)[Len(Append(d, x))] = x
  BY DEF Truthful
<1>3. Append(<<"proposed">> \o d, x) = <<"proposed">> \o Append(d, x)
  <2>1. <<"proposed">> \in Seq({"proposed"} \union Decisions) /\ d \in Seq({"proposed"} \union Decisions)
        /\ x \in {"proposed"} \union Decisions
    <3>1. \A n \in 1 .. Len(d) : d[n] \in Decisions
      BY <1>2
    <3> QED BY <1>2, <3>1
  <2> QED BY <2>1
<1>4. [p EXCEPT !.status = x] = [status |-> x, origin |-> p.origin]
  BY DEF Truthful
<1> QED BY <1>1, <1>2, <1>3, <1>4 DEF Truthful

LEMMA ToldCommit ==
    ASSUME ToldInv, ChainInv, NEW o \in Officers, Commit(o)
    PROVE  ToldInv'
<1>1. PICK f : f = office[o].fingerprint
  OBVIOUS
<1>2. PICK x : x = office[o].status
  OBVIOUS
<1>3. PICK e : e = office[o].entry
  OBVIOUS
<1>3a. PICK new : new = IF Exists(f) THEN [proposal[f] EXCEPT !.status = x]
                        ELSE [status |-> "proposed", origin |-> f.turn]
  OBVIOUS
<1>3b. PICK course : course = IF Exists(f) THEN Append(decided[f], x) ELSE <<>>
  OBVIOUS
<1>4. /\ office[o].phase = "logged"
      /\ log' = log \union {e}
      /\ proposal' = With(proposal, f, new)
      /\ decided' = With(decided, f, course)
      /\ office' = [office EXCEPT ![o] = Absent]
      /\ contended' = contended
  BY <1>1, <1>2, <1>3, <1>3a, <1>3b DEF Commit
<1>5. ToldOff(o) /\ office'[o] = Absent
  BY <1>4, OfficeChanges DEF ChainInv
<1>6. e.event = [resource |-> f, status |-> x] /\ e.id \in Nat /\ \A a \in log : a.id < e.id
  <2>1. Due(office[o], log, events) /\ events \in Nat
    BY <1>4 DEF ChainInv
  <2> QED BY <1>1, <1>2, <1>3, <2>1 DEF Due, Entry
<1>7. \A q \in Officers : \A g :
          /\ Proposing(q, g)' => q # o /\ Proposing(q, g) /\ office'[q] = office[q]
          /\ Deciding(q, g)' => q # o /\ Deciding(q, g) /\ office'[q] = office[q]
  BY <1>5 DEF ToldOff, Proposing, Deciding, Writing, Absent
<1>7a. /\ DOMAIN With(proposal, f, new) = DOMAIN proposal \union {f}
       /\ With(proposal, f, new)[f] = new
       /\ \A k \in DOMAIN proposal : k # f => With(proposal, f, new)[k] = proposal[k]
  BY DEF With
<1>7b. /\ DOMAIN With(decided, f, course) = DOMAIN decided \union {f}
       /\ With(decided, f, course)[f] = course
       /\ \A k \in DOMAIN decided : k # f => With(decided, f, course)[k] = decided[k]
  BY DEF With
<1>8. /\ DOMAIN proposal' = DOMAIN proposal \union {f} /\ DOMAIN decided' = DOMAIN proposal \union {f}
      /\ \A g \in DOMAIN proposal : g # f => proposal'[g] = proposal[g] /\ decided'[g] = decided[g]
  BY <1>4, <1>7a, <1>7b DEF ToldInv, TablesAgree
<1>9. RowsAbout(log', f) = RowsAbout(log, f) \union {e} /\ \A g : g # f => RowsAbout(log', g) = RowsAbout(log, g)
  BY <1>4, <1>6 DEF RowsAbout
<1>10. \A row \in log' : row.event.resource \in DOMAIN proposal'
  BY <1>4, <1>6, <1>8 DEF ToldInv, TablesAgree
<1>11. \A a \in RowsAbout(log, f) : a.id < e.id
  BY <1>6 DEF RowsAbout
<1>12. \A g \in DOMAIN proposal : g # f => Truthful(proposal'[g], decided'[g], RowsAbout(log', g))
  BY <1>8, <1>9 DEF ToldInv, TablesAgree
<1>13. CASE f \notin DOMAIN proposal
  <2>1. proposal'[f] = [status |-> "proposed", origin |-> f.turn] /\ decided'[f] = <<>>
    BY <1>4, <1>13, <1>3a, <1>3b, <1>7a, <1>7b DEF Exists
  <2>2. ~Deciding(o, f)
    BY <1>13 DEF ToldInv, OfficeSound
  <2>3. x = "proposed" /\ Proposing(o, f)
    BY <1>1, <1>2, <1>4, <2>2 DEF Deciding, Proposing, Writing
  <2>4. RowsAbout(log, f) = {}
    BY <1>13 DEF ToldInv, TablesAgree, RowsAbout
  <2>5. InSequence({e}) /\ Told({e}) = <<"proposed">>
    <3>1. InSequence({} \union {e}) /\ Told({} \union {e}) = Append(Told({}), e.event.status)
      BY <1>6, OrderOfNone, ToldGrows
    <3>2. {} \union {e} = {e} /\ e.event.status = "proposed"
      BY <1>6, <2>3
    <3>3. InSequence({e}) /\ Told({e}) = Append(<<>>, "proposed")
      BY <3>1, <3>2, ToldOfNone
    <3> QED BY <3>3
  <2>6. Truthful(proposal'[f], decided'[f], RowsAbout(log', f))
    <3>1. RowsAbout(log', f) = {e}
      BY <1>9, <2>4
    <3>2. <<"proposed">> \o <<>> = <<"proposed">> /\ <<>> \in Seq(Decisions)
      OBVIOUS
    <3> QED BY <2>1, <2>5, <3>1, <3>2 DEF Truthful
  <2>7. TablesAgree'
    BY <1>8, <1>10, <1>12, <2>6 DEF TablesAgree
  <2>8. \A q \in Officers : ~Proposing(q, f)' /\ ~Deciding(q, f)'
    BY <1>7, <1>13, <2>3 DEF ToldInv, OfficeSound
  <2>9. OfficeSound'
    BY <1>7, <1>8, <2>8 DEF ToldInv, OfficeSound
  <2>10. Uncontended(f)'
    BY <2>1, <2>8 DEF Uncontended, Courses
  <2>11. ASSUME NEW g \in DOMAIN proposal \ contended PROVE Uncontended(g)'
    <3>1. Uncontended(g) /\ g # f
      BY <1>13 DEF ToldInv
    <3> QED BY <1>7, <1>8, <3>1 DEF Uncontended
  <2> QED BY <1>4, <1>8, <2>7, <2>9, <2>10, <2>11 DEF ToldInv
<1>14. CASE f \in DOMAIN proposal
  <2>1. proposal'[f] = [proposal[f] EXCEPT !.status = x] /\ decided'[f] = Append(decided[f], x)
    BY <1>4, <1>14, <1>3a, <1>3b, <1>7a, <1>7b DEF Exists
  <2>2. ~Proposing(o, f)
    BY <1>14 DEF ToldInv, OfficeSound
  <2>3. Deciding(o, f) /\ x \in Decisions
    BY <1>1, <1>2, <1>4, <2>2 DEF Deciding, Proposing, Writing, ToldInv, OfficeSound
  <2>4. Truthful(proposal[f], decided[f], RowsAbout(log, f))
    BY <1>14 DEF ToldInv, TablesAgree
  <2>5. Truthful(proposal'[f], decided'[f], RowsAbout(log', f))
    <3>1. Truthful([proposal[f] EXCEPT !.status = x], Append(decided[f], x), RowsAbout(log, f) \union {e})
      BY <1>6, <1>11, <2>3, <2>4, TruthfulGrows
    <3> QED BY <1>9, <2>1, <3>1
  <2>6. DOMAIN proposal' = DOMAIN proposal
    BY <1>8, <1>14
  <2>7. TablesAgree'
    BY <1>8, <1>10, <1>12, <2>5, <2>6 DEF TablesAgree
  <2>8. OfficeSound'
    BY <1>7, <2>6 DEF ToldInv, OfficeSound
  <2>9. ASSUME f \notin contended PROVE Uncontended(f)'
    <3>1. Uncontended(f)
      BY <1>14, <2>9 DEF ToldInv
    <3>2. \A q \in Officers : ~Deciding(q, f)'
      BY <1>7, <2>3, <3>1 DEF Uncontended
    <3>3. Allowed(proposal[f].status, x) /\ decided[f] \in Courses
      BY <1>2, <2>3, <3>1 DEF Uncontended
    <3>4. proposal[f].status = IF decided[f] = <<>> THEN "proposed" ELSE decided[f][Len(decided[f])]
      BY <2>4 DEF Truthful
    <3>5. Append(decided[f], x) \in Courses
      <4>1. CASE decided[f] = <<>>
        <5>1. proposal[f].status = "proposed" /\ x \in {"approved", "rejected"}
          BY <3>3, <3>4, <4>1 DEF Allowed
        <5> QED BY <4>1, <5>1 DEF Courses
      <4>2. CASE decided[f] = <<"approved">>
        <5>1. proposal[f].status = "approved" /\ x = "implemented"
          BY <3>3, <3>4, <4>2 DEF Allowed
        <5>2. Append(<<"approved">>, "implemented") = <<"approved", "implemented">>
          <6>1. <<"approved">> \in Seq({"approved", "implemented"}) /\ Len(<<"approved">>) = 1
            OBVIOUS
          <6>2. PICK a : a = Append(<<"approved">>, "implemented")
            OBVIOUS
          <6>3. PICK b : b = <<"approved", "implemented">>
            OBVIOUS
          <6>4. a \in Seq({"approved", "implemented"}) /\ Len(a) = 2 /\ a[1] = "approved" /\ a[2] = "implemented"
            BY <6>1, <6>2
          <6>5. b \in Seq({"approved", "implemented"}) /\ Len(b) = 2 /\ b[1] = "approved" /\ b[2] = "implemented"
            BY <6>3
          <6>6. a = [n \in 1 .. 2 |-> a[n]] /\ b = [n \in 1 .. 2 |-> b[n]]
            BY <6>4, <6>5
          <6>7. \A n \in 1 .. 2 : a[n] = b[n]
            BY <6>4, <6>5
          <6> QED BY <6>2, <6>3, <6>6, <6>7
        <5> QED BY <4>2, <5>1, <5>2 DEF Courses
      <4>3. CASE decided[f] = <<"rejected">>
        BY <3>3, <3>4, <4>3 DEF Allowed
      <4>4. CASE decided[f] = <<"approved", "implemented">>
        BY <3>3, <3>4, <4>4 DEF Allowed
      <4> QED BY <3>3, <4>1, <4>2, <4>3, <4>4 DEF Courses
    <3> QED BY <2>1, <3>2, <3>5 DEF Uncontended
  <2>10. ASSUME NEW g \in DOMAIN proposal \ contended, g # f PROVE Uncontended(g)'
    <3>1. Uncontended(g)
      BY DEF ToldInv
    <3> QED BY <1>7, <1>8, <2>10, <3>1 DEF Uncontended
  <2> QED BY <1>4, <2>6, <2>7, <2>8, <2>9, <2>10 DEF ToldInv
<1> QED BY <1>13, <1>14

LEMMA ToldForget ==
    ASSUME ToldInv, NEW v \in Visitors, ForgetTurns(v)
    PROVE  ToldInv'
<1>1. UNCHANGED <<decided, log, office, contended>>
  BY DEF ForgetTurns
<1>2. PICK gone : proposal' = [f \in DOMAIN proposal |->
          IF f \in gone THEN [proposal[f] EXCEPT !.origin = NoTurn] ELSE proposal[f]]
  <2> DEFINE gone == {f \in DOMAIN proposal : \E t \in visit[v].turns : t.id = proposal[f].origin}
  <2>1. proposal' = [f \in DOMAIN proposal |->
            IF f \in gone THEN [proposal[f] EXCEPT !.origin = NoTurn] ELSE proposal[f]]
    BY DEF ForgetTurns
  <2> HIDE DEF gone
  <2> QED BY <2>1
<1>3. DOMAIN proposal' = DOMAIN proposal
  BY <1>2
<1>4. ASSUME NEW f \in DOMAIN proposal
      PROVE  proposal'[f].status = proposal[f].status /\ Truthful(proposal'[f], decided[f], RowsAbout(log, f))
  <2>1. Truthful(proposal[f], decided[f], RowsAbout(log, f))
    BY DEF ToldInv, TablesAgree
  <2>2. proposal'[f] = proposal[f] \/ proposal'[f] = [proposal[f] EXCEPT !.origin = NoTurn]
    BY <1>2
  <2>3. [proposal[f] EXCEPT !.origin = NoTurn] = [status |-> proposal[f].status, origin |-> NoTurn]
    BY <2>1 DEF Truthful
  <2> QED BY <2>1, <2>2, <2>3 DEF Truthful
<1>5. TablesAgree'
  BY <1>1, <1>3, <1>4 DEF ToldInv, TablesAgree
<1>6. OfficeSound'
  BY <1>1, <1>3 DEF ToldInv, OfficeSound, Proposing, Deciding
<1>7. ASSUME NEW f \in DOMAIN proposal \ contended PROVE Uncontended(f)'
  <2>1. Uncontended(f)
    BY DEF ToldInv
  <2> QED BY <1>1, <1>4, <2>1 DEF Uncontended, Deciding
<1> QED BY <1>1, <1>3, <1>5, <1>6, <1>7 DEF ToldInv

LEMMA ToldStep == ToldInv /\ ChainInv /\ [Next]_vars => ToldInv'
<1> SUFFICES ASSUME ToldInv, ChainInv, [Next]_vars PROVE ToldInv'
  OBVIOUS
<1>1. CASE UNCHANGED <<log, office, proposal, decided, contended>>
  BY <1>1 DEF ToldInv, TablesAgree, OfficeSound, Uncontended, Proposing, Deciding
<1>2. ASSUME NEW o \in Officers, NEW f, Propose(o, f) PROVE ToldInv'
  <2>1. office' = [office EXCEPT ![o] = [phase |-> "new", fingerprint |-> f]]
        /\ UNCHANGED <<log, proposal, decided, contended>>
    BY <1>2 DEF Propose
  <2>2. ToldOff(o) /\ ~Writing(office'[o])
    BY <2>1, OfficeChanges DEF ChainInv, Writing
  <2> QED BY <2>1, <2>2, ToldUndisturbed
<1>3. ASSUME NEW o \in Officers, Abort(o) PROVE ToldInv'
  <2>1. office' = [office EXCEPT ![o] = Absent] /\ UNCHANGED <<log, proposal, decided, contended>>
    BY <1>3 DEF Abort
  <2>2. ToldOff(o) /\ ~Writing(office'[o])
    BY <2>1, OfficeChanges DEF ChainInv, Writing, Absent
  <2> QED BY <2>1, <2>2, ToldUndisturbed
<1>4. ASSUME NEW o \in Officers, Analyze(o) \/ ReadTurn(o) PROVE \E f : Propose(o, f)
  BY <1>4 DEF Analyze, ReadTurn
<1>5. CASE Converse
  BY <1>1, <1>5 DEF Converse, recommendations
<1>6. ASSUME NEW v \in Visitors, NEW c \in Conversation, DeleteTurns(v, c) PROVE ToldInv'
  BY <1>1, <1>6 DEF DeleteTurns, recommendations
<1>7. CASE UNCHANGED vars
  BY <1>1, <1>7 DEF vars, recommendations
<1> QED BY <1>2, <1>3, <1>4, <1>5, <1>6, <1>7, ToldInsert, ToldDecide, ToldWrite, ToldCommit, ToldForget DEF Next

\* What the chain tells of a recommendation is what happened to it: proposed,
\* decided as its decisions say, with the status of the last; and no decision
\* follows one that forbids it unless two were taken at one time
\* (propose_recommendation, decide_recommendation).
THEOREM DecisionsSound == Spec => []DecisionsTold
<1>1. Spec => []ToldInv
  BY ToldInit, ToldStep, ChainAlways, PTL DEF Spec
<1>2. ToldInv => DecisionsTold
  <2> SUFFICES ASSUME ToldInv, NEW f \in DOMAIN proposal
               PROVE  LET mine == Events({row \in log : row.event.resource = f})
                          told == [n \in DOMAIN mine |-> mine[n].status]
                      IN  /\ told = <<"proposed">> \o decided[f]
                          /\ proposal[f].status = Last(told)
                          /\ f \notin contended =>
                                 decided[f] \in {<<>>, <<"approved">>, <<"rejected">>, <<"approved", "implemented">>}
    BY DEF DecisionsTold
  <2>1. PICK told : told = Told(RowsAbout(log, f))
    OBVIOUS
  <2>2. Truthful(proposal[f], decided[f], RowsAbout(log, f))
    BY DEF ToldInv, TablesAgree
  <2>3. told = <<"proposed">> \o decided[f] /\ decided[f] \in Seq(Decisions)
    BY <2>1, <2>2 DEF Truthful
  <2>4. Last(told) = IF decided[f] = <<>> THEN "proposed" ELSE decided[f][Len(decided[f])]
    <3>1. decided[f] \in Seq({"proposed"} \union Decisions) /\ <<"proposed">> \in Seq({"proposed"} \union Decisions)
      <4>1. \A n \in 1 .. Len(decided[f]) : decided[f][n] \in Decisions
        BY <2>3
      <4> QED BY <2>3, <4>1
    <3>2. Len(told) = 1 + Len(decided[f]) /\ Len(decided[f]) \in Nat
          /\ told[1] = "proposed" /\ \A n \in 1 .. Len(decided[f]) : told[n + 1] = decided[f][n]
      BY <2>3, <3>1
    <3>3. CASE decided[f] = <<>>
      BY <3>2, <3>3 DEF Last
    <3>4. CASE decided[f] # <<>>
      <4>1. Len(decided[f]) \in 1 .. Len(decided[f])
        BY <2>3, <3>4
      <4>2. Len(told) = Len(decided[f]) + 1
        BY <3>2
      <4> QED BY <3>2, <3>4, <4>1, <4>2 DEF Last
    <3> QED BY <3>3, <3>4
  <2>5. f \notin contended => decided[f] \in Courses
    BY DEF ToldInv, Uncontended
  <2> QED BY <2>1, <2>2, <2>3, <2>4, <2>5 DEF Told, RowsAbout, Truthful, Courses
<1> QED BY <1>1, <1>2, PTL

-----------------------------------------------------------------------------
(* The turns are numbered.  While nothing crosses a deletion, the turns of *)
(* a conversation only grow under a query, so that the number it took is   *)
(* at most the next one, and the unique key lets one of them in.           *)

Flying(r) == r.phase \in {"answering", "numbered", "inserted"}

Carries(r) == r.phase \in {"numbered", "inserted"}

VisitsSound ==
    /\ DOMAIN visit = Visitors /\ DOMAIN conversation = Conversation
    /\ \A v \in Visitors : Flying(visit[v]) \/ visit[v].phase = "deleting" => visit[v].conversation \in Conversation
    /\ \A v \in Visitors : Carries(visit[v]) =>
          visit[v] = [phase |-> visit[v].phase, conversation |-> visit[v].turn.conversation, turn |-> visit[v].turn]
    /\ \A v \in Visitors : visit[v].phase = "deleting" => \A t \in visit[v].turns : t.conversation = visit[v].conversation
    /\ \A v, w \in Visitors : visit[v].phase = "deleting" /\ visit[w].phase = "deleting"
                              /\ visit[v].conversation = visit[w].conversation => v = w

\* A visit to a conversation that has these turns.
VisitFits(r, rows) ==
    /\ Carries(r) => r.turn.seq \in 1 .. Cardinality(rows) + 1
    /\ r.phase = "inserted" => r.turn.seq = Cardinality(rows) + 1
    /\ r.phase = "deleting" => r.turns = rows

Counted(rows) == IsFiniteSet(rows) /\ {t.seq : t \in rows} = 1 .. Cardinality(rows)

VisitsFit(c) == \A v \in Visitors : visit[v] # Away /\ visit[v].conversation = c => VisitFits(visit[v], TurnsOf(c))

OneInserted(c) ==
    \A v, w \in Visitors : visit[v].phase = "inserted" /\ visit[w].phase = "inserted"
                           /\ visit[v].conversation = c /\ visit[w].conversation = c => v = w

Closed(c) == conversation[c] = "deleted" => TurnsOf(c) = {} /\ ~InFlight(c) /\ ~BeingDeleted(c)

Orderly(c) ==
    /\ Counted(TurnsOf(c))
    /\ VisitsFit(c)
    /\ OneInserted(c)
    /\ ~(BeingDeleted(c) /\ InFlight(c))
    /\ Closed(c)

TurnsInv == VisitsSound /\ \A c \in Conversation \ crossed : Orderly(c)

LEMMA TurnsInit == Init => TurnsInv
<1> SUFFICES ASSUME Init PROVE TurnsInv
  OBVIOUS
<1>1. conversation = [c \in Conversation |-> "none"] /\ turns = {} /\ visit = [v \in Visitors |-> Away]
  BY DEF Init, InitConversations
<1>2. VisitsSound
  BY <1>1 DEF VisitsSound, Flying, Carries, Away
<1>3. ASSUME NEW c \in Conversation PROVE Orderly(c)
  <2>1. TurnsOf(c) = {}
    BY <1>1 DEF TurnsOf
  <2>2. Counted({})
    BY FS_EmptySet DEF Counted
  <2>3. \A v \in Visitors : visit[v] = Away /\ visit[v].phase = "away"
    BY <1>1 DEF Away
  <2> QED BY <1>1, <2>1, <2>2, <2>3 DEF Orderly, VisitsFit, OneInserted, Closed, InFlight, BeingDeleted
<1> QED BY <1>2, <1>3 DEF TurnsInv

\* One visit goes on.
OnlyVisit(v) ==
    /\ DOMAIN visit' = DOMAIN visit
    /\ \A w \in Visitors : w # v => visit'[w] = visit[w]

LEMMA VisitChanges ==
    ASSUME DOMAIN visit = Visitors, NEW v \in Visitors, NEW r, visit' = [visit EXCEPT ![v] = r]
    PROVE  OnlyVisit(v) /\ visit'[v] = r
BY DEF OnlyVisit

\* A conversation whose turns stay is as orderly as it was when a visit ends.
LEMMA VisitEnds ==
    ASSUME TurnsInv, NEW v \in Visitors, OnlyVisit(v), visit'[v] = Away, UNCHANGED <<conversation, turns>>,
           NEW c \in Conversation, Orderly(c)
    PROVE  Orderly(c)'
<1>1. \A w \in Visitors : visit'[w].phase # "away" => visit'[w] = visit[w]
  BY DEF OnlyVisit, Away
<1>2. \A w \in Visitors : visit'[w] # Away => visit'[w] = visit[w]
  BY DEF OnlyVisit
<1>3. TurnsOf(c)' = TurnsOf(c)
  BY DEF TurnsOf
<1>4. InFlight(c)' => InFlight(c)
  BY <1>1 DEF InFlight
<1>5. BeingDeleted(c)' => BeingDeleted(c)
  BY <1>1 DEF BeingDeleted
<1>6. VisitsFit(c)'
  BY <1>2, <1>3 DEF Orderly, VisitsFit
<1>7. OneInserted(c)'
  BY <1>1 DEF Orderly, OneInserted
<1> QED BY <1>3, <1>4, <1>5, <1>6, <1>7 DEF Orderly, Closed

\* A step of a visit to one conversation leaves the others as they were.
LEMMA Elsewhere ==
    ASSUME TurnsInv, NEW v \in Visitors, OnlyVisit(v), NEW c \in Conversation, Orderly(c),
           visit'[v] = Away \/ visit'[v].conversation # c,
           TurnsOf(c)' = TurnsOf(c), conversation'[c] = conversation[c]
    PROVE  Orderly(c)'
<1>1. \A w \in Visitors : visit'[w] # Away /\ visit'[w].conversation = c => visit'[w] = visit[w]
  BY DEF OnlyVisit
<1>2. \A w \in Visitors : visit'[w].phase # "away" => visit'[w] # Away
  BY DEF Away
<1>3. InFlight(c)' => InFlight(c)
  BY <1>1, <1>2 DEF InFlight
<1>4. BeingDeleted(c)' => BeingDeleted(c)
  BY <1>1, <1>2 DEF BeingDeleted
<1>5. VisitsFit(c)'
  BY <1>1 DEF Orderly, VisitsFit
<1>6. OneInserted(c)'
  BY <1>1, <1>2 DEF Orderly, OneInserted
<1> QED BY <1>3, <1>4, <1>5, <1>6 DEF Orderly, Closed

\* A visit that is not carrying on with a turn as another would, nor deleting
\* what another deletes.
LEMMA VisitSound ==
    ASSUME VisitsSound, NEW v \in Visitors, OnlyVisit(v), DOMAIN conversation' = DOMAIN conversation,
           Flying(visit'[v]) \/ visit'[v].phase = "deleting" => visit'[v].conversation \in Conversation,
           Carries(visit'[v]) =>
               visit'[v] = [phase |-> visit'[v].phase, conversation |-> visit'[v].turn.conversation, turn |-> visit'[v].turn],
           visit'[v].phase = "deleting" => ~BeingDeleted(visit'[v].conversation),
           visit'[v].phase = "deleting" => \A t \in visit'[v].turns : t.conversation = visit'[v].conversation
    PROVE  VisitsSound'
<1>1. \A w \in Visitors : visit'[w] = visit[w] \/ w = v
  BY DEF OnlyVisit
<1>2. ASSUME NEW w \in Visitors, NEW u \in Visitors, visit'[w].phase = "deleting", visit'[u].phase = "deleting",
             visit'[w].conversation = visit'[u].conversation
      PROVE  w = u
  <2>1. CASE w = v /\ u # v
    BY <1>1, <1>2, <2>1 DEF BeingDeleted
  <2>2. CASE u = v /\ w # v
    BY <1>1, <1>2, <2>2 DEF BeingDeleted
  <2>3. CASE u # v /\ w # v
    BY <1>1, <1>2, <2>3 DEF VisitsSound
  <2> QED BY <2>1, <2>2, <2>3
<1>3. \A w \in Visitors : Flying(visit'[w]) \/ visit'[w].phase = "deleting" => visit'[w].conversation \in Conversation
  BY <1>1 DEF VisitsSound
<1>4. \A w \in Visitors : Carries(visit'[w]) =>
          visit'[w] = [phase |-> visit'[w].phase, conversation |-> visit'[w].turn.conversation, turn |-> visit'[w].turn]
  BY <1>1 DEF VisitsSound
<1>5. \A w \in Visitors : visit'[w].phase = "deleting" => \A t \in visit'[w].turns : t.conversation = visit'[w].conversation
  BY <1>1 DEF VisitsSound
<1> QED BY <1>2, <1>3, <1>4, <1>5 DEF VisitsSound, OnlyVisit

LEMMA EndedSound ==
    ASSUME VisitsSound, NEW v \in Visitors, OnlyVisit(v), visit'[v] = Away, DOMAIN conversation' = DOMAIN conversation
    PROVE  VisitsSound'
<1>1. visit'[v].phase = "away" /\ ~Flying(visit'[v]) /\ ~Carries(visit'[v]) /\ visit'[v].phase # "deleting"
  BY DEF Away, Flying, Carries
<1> QED BY <1>1, VisitSound

LEMMA TurnsAbandon ==
    ASSUME TurnsInv, NEW v \in Visitors, Abandon(v)
    PROVE  TurnsInv'
<1>1. visit' = [visit EXCEPT ![v] = Away] /\ UNCHANGED <<conversation, turns, crossed>>
  BY DEF Abandon
<1>2. OnlyVisit(v) /\ visit'[v] = Away
  BY <1>1, VisitChanges DEF TurnsInv, VisitsSound
<1>3. VisitsSound'
  BY <1>1, <1>2, EndedSound DEF TurnsInv
<1>4. ASSUME NEW c \in Conversation \ crossed PROVE Orderly(c)'
  BY <1>1, <1>2, VisitEnds DEF TurnsInv
<1> QED BY <1>1, <1>3, <1>4 DEF TurnsInv

LEMMA TurnsAsk ==
    ASSUME TurnsInv, NEW v \in Visitors, NEW k \in Conversation, Ask(v, k)
    PROVE  TurnsInv'
<1>1. PICK hits \in Evidence :
          visit' = [visit EXCEPT ![v] = [phase |-> "answering", conversation |-> k, hits |-> hits]]
  BY DEF Ask
<1>2. PICK x : x = [phase |-> "answering", conversation |-> k, hits |-> hits]
  OBVIOUS
<1>3. OnlyVisit(v) /\ visit'[v] = x
  BY <1>1, <1>2, VisitChanges DEF TurnsInv, VisitsSound
<1>4. UNCHANGED <<conversation, turns>> /\ conversation[k] = "active" /\ visit[v] = Away
      /\ crossed' = IF BeingDeleted(k) THEN crossed \union {k} ELSE crossed
  BY DEF Ask, Live, CrossedIf
<1>5. VisitsSound'
  <2>1. ~Carries(visit'[v]) /\ visit'[v].phase # "deleting" /\ visit'[v].conversation \in Conversation
    BY <1>2, <1>3 DEF Carries
  <2> QED BY <1>3, <1>4, <2>1, VisitSound DEF TurnsInv
<1>6. ASSUME NEW c \in Conversation \ crossed', c # k PROVE Orderly(c)'
  <2>1. Orderly(c) /\ visit'[v].conversation # c
    BY <1>2, <1>3, <1>4, <1>6 DEF TurnsInv
  <2>2. TurnsOf(c)' = TurnsOf(c) /\ conversation'[c] = conversation[c]
    BY <1>4 DEF TurnsOf
  <2> QED BY <1>3, <2>1, <2>2, Elsewhere
<1>7. ASSUME k \notin crossed' PROVE Orderly(k)'
  <2>1. Orderly(k) /\ ~BeingDeleted(k)
    BY <1>4, <1>7 DEF TurnsInv
  <2>2. TurnsOf(k)' = TurnsOf(k)
    BY <1>4 DEF TurnsOf
  <2>3. ~BeingDeleted(k)'
    BY <1>2, <1>3, <2>1 DEF BeingDeleted, OnlyVisit
  <2>4. \A w \in Visitors : w # v => visit'[w] = visit[w]
    BY <1>3 DEF OnlyVisit
  <2>5. VisitsFit(k)'
    <3> SUFFICES ASSUME NEW w \in Visitors, visit'[w] # Away, visit'[w].conversation = k
                 PROVE  VisitFits(visit'[w], TurnsOf(k))
      BY <2>2 DEF VisitsFit
    <3>1. CASE w = v
      BY <1>2, <1>3, <3>1 DEF VisitFits, Carries
    <3>2. CASE w # v
      BY <2>1, <2>4, <3>2 DEF Orderly, VisitsFit
    <3> QED BY <3>1, <3>2
  <2>6. OneInserted(k)'
    BY <1>2, <1>3, <2>1, <2>4 DEF Orderly, OneInserted
  <2> QED BY <1>4, <2>1, <2>2, <2>3, <2>5, <2>6 DEF Orderly, Closed
<1> QED BY <1>5, <1>6, <1>7 DEF TurnsInv

LEMMA NextNumber ==
    ASSUME NEW c, Counted(TurnsOf(c))
    PROVE  NextSequence(c) = Cardinality(TurnsOf(c)) + 1 /\ Cardinality(TurnsOf(c)) \in Nat
<1>1. PICK n : n = Cardinality(TurnsOf(c))
  OBVIOUS
<1>2. n \in Nat
  BY <1>1, FS_CardinalityType DEF Counted
<1>3. PICK seqs : seqs = {t.seq : t \in TurnsOf(c)} \union {0}
  OBVIOUS
<1>4. seqs = 0 .. n
  <2>1. {t.seq : t \in TurnsOf(c)} = 1 .. n
    BY <1>1 DEF Counted
  <2> QED BY <1>2, <1>3, <2>1
<1>5. Max(seqs) = n
  <2>1. n \in seqs /\ \A y \in seqs : n >= y
    BY <1>2, <1>4
  <2>2. \A x \in seqs : (\A y \in seqs : x >= y) => x = n
    BY <1>2, <1>4, <2>1
  <2> QED BY <2>1, <2>2 DEF Max
<1> QED BY <1>1, <1>2, <1>3, <1>5 DEF NextSequence

LEMMA TurnsNumber ==
    ASSUME TurnsInv, NEW v \in Visitors, Number(v)
    PROVE  TurnsInv'
<1>1. PICK k : k = visit[v].conversation
  OBVIOUS
<1>2. PICK t : /\ visit' = [visit EXCEPT ![v] = [phase |-> "numbered", conversation |-> k, turn |-> t]]
               /\ t.conversation = k /\ t.seq = NextSequence(k)
  <2>1. PICK cited \in SUBSET DOMAIN visit[v].hits, brief \in Briefs :
            visit' = [visit EXCEPT ![v] = [phase |-> "numbered", conversation |-> visit[v].conversation,
                turn |-> [id |-> asked + 1, conversation |-> visit[v].conversation,
                          seq |-> NextSequence(visit[v].conversation),
                          cites |-> Restrict(visit[v].hits, cited), brief |-> brief]]]
    BY DEF Number
  <2>2. PICK t : t = [id |-> asked + 1, conversation |-> visit[v].conversation,
                      seq |-> NextSequence(visit[v].conversation),
                      cites |-> Restrict(visit[v].hits, cited), brief |-> brief]
    OBVIOUS
  <2>3. visit' = [visit EXCEPT ![v] = [phase |-> "numbered", conversation |-> k, turn |-> t]]
    BY <1>1, <2>1, <2>2
  <2>4. t.conversation = k /\ t.seq = NextSequence(k)
    BY <1>1, <2>2
  <2> QED BY <2>3, <2>4
<1>3. PICK x : x = [phase |-> "numbered", conversation |-> k, turn |-> t]
  OBVIOUS
<1>4. OnlyVisit(v) /\ visit'[v] = x /\ visit[v].phase = "answering" /\ UNCHANGED <<conversation, turns, crossed>>
  BY <1>2, <1>3, VisitChanges DEF TurnsInv, VisitsSound, Number
<1>5. k \in Conversation
  BY <1>1, <1>4 DEF TurnsInv, VisitsSound, Flying
<1>6. VisitsSound'
  BY <1>2, <1>3, <1>4, <1>5, VisitSound DEF TurnsInv
<1>7. ASSUME NEW c \in Conversation \ crossed, c # k PROVE Orderly(c)'
  <2>1. Orderly(c) /\ visit'[v].conversation # c
    BY <1>3, <1>4, <1>7 DEF TurnsInv
  <2>2. TurnsOf(c)' = TurnsOf(c) /\ conversation'[c] = conversation[c]
    BY <1>4 DEF TurnsOf
  <2> QED BY <1>4, <2>1, <2>2, Elsewhere
<1>8. ASSUME k \notin crossed PROVE Orderly(k)'
  <2>1. Orderly(k) /\ InFlight(k) /\ ~BeingDeleted(k)
    BY <1>1, <1>4, <1>5, <1>8 DEF TurnsInv, Orderly, InFlight
  <2>2. TurnsOf(k)' = TurnsOf(k)
    BY <1>4 DEF TurnsOf
  <2>3. ~BeingDeleted(k)'
    BY <1>3, <1>4, <2>1 DEF BeingDeleted, OnlyVisit
  <2>4. \A w \in Visitors : w # v => visit'[w] = visit[w]
    BY <1>4 DEF OnlyVisit
  <2>5. t.seq = Cardinality(TurnsOf(k)) + 1 /\ Cardinality(TurnsOf(k)) \in Nat
    BY <1>2, <2>1, NextNumber DEF Orderly
  <2>6. VisitsFit(k)'
    <3> SUFFICES ASSUME NEW w \in Visitors, visit'[w] # Away, visit'[w].conversation = k
                 PROVE  VisitFits(visit'[w], TurnsOf(k))
      BY <2>2 DEF VisitsFit
    <3>1. CASE w = v
      BY <1>3, <1>4, <2>5, <3>1 DEF VisitFits, Carries
    <3>2. CASE w # v
      BY <2>1, <2>4, <3>2 DEF Orderly, VisitsFit
    <3> QED BY <3>1, <3>2
  <2>7. OneInserted(k)'
    BY <1>3, <1>4, <2>1, <2>4 DEF Orderly, OneInserted
  <2>8. conversation'[k] # "deleted"
    BY <1>4, <2>1 DEF Orderly, Closed
  <2> QED BY <1>4, <2>1, <2>2, <2>3, <2>6, <2>7, <2>8 DEF Orderly, Closed
<1> QED BY <1>4, <1>6, <1>7, <1>8 DEF TurnsInv

LEMMA TurnsInsert ==
    ASSUME TurnsInv, NEW v \in Visitors, InsertTurn(v)
    PROVE  TurnsInv'
<1>1. PICK t : t = visit[v].turn
  OBVIOUS
<1>2. PICK k : k = t.conversation
  OBVIOUS
<1>3. visit[v] = [phase |-> "numbered", conversation |-> k, turn |-> t] /\ k \in Conversation
  BY <1>1, <1>2 DEF InsertTurn, TurnsInv, VisitsSound, Flying, Carries
<1>4. PICK x : x = [phase |-> "inserted", conversation |-> k, turn |-> t]
  OBVIOUS
<1>5. [visit[v] EXCEPT !.phase = "inserted"] = x
  BY <1>3, <1>4
<1>6. UNCHANGED <<conversation, turns, crossed>>
      /\ visit' = [visit EXCEPT ![v] = IF Taken(t, turns) THEN Away ELSE x]
      /\ ~Taken(t, {visit[w].turn : w \in {w \in Visitors : visit[w].phase = "inserted"}})
  BY <1>1, <1>5 DEF InsertTurn
<1>7. CASE Taken(t, turns)
  <2>1. OnlyVisit(v) /\ visit'[v] = Away
    BY <1>6, <1>7, VisitChanges DEF TurnsInv, VisitsSound
  <2>2. VisitsSound'
    BY <1>6, <2>1, EndedSound DEF TurnsInv
  <2>3. ASSUME NEW c \in Conversation \ crossed PROVE Orderly(c)'
    BY <1>6, <2>1, VisitEnds DEF TurnsInv
  <2> QED BY <1>6, <2>2, <2>3 DEF TurnsInv
<1>8. CASE ~Taken(t, turns)
  <2>1. OnlyVisit(v) /\ visit'[v] = x
    BY <1>6, <1>8, VisitChanges DEF TurnsInv, VisitsSound
  <2>2. VisitsSound'
    <3>1. visit'[v].phase = "inserted" /\ visit'[v].conversation = k /\ visit'[v].turn = t
      BY <1>4, <2>1
    <3> QED BY <1>2, <1>3, <1>4, <1>6, <2>1, <3>1, VisitSound DEF TurnsInv
  <2>3. ASSUME NEW c \in Conversation \ crossed, c # k PROVE Orderly(c)'
    <3>1. Orderly(c) /\ visit'[v].conversation # c
      BY <1>4, <2>1, <2>3 DEF TurnsInv
    <3>2. TurnsOf(c)' = TurnsOf(c) /\ conversation'[c] = conversation[c]
      BY <1>6 DEF TurnsOf
    <3> QED BY <2>1, <3>1, <3>2, Elsewhere
  <2>4. ASSUME k \notin crossed PROVE Orderly(k)'
    <3>1. Orderly(k) /\ InFlight(k) /\ ~BeingDeleted(k)
      BY <1>3, <2>4 DEF TurnsInv, Orderly, InFlight
    <3>2. TurnsOf(k)' = TurnsOf(k)
      BY <1>6 DEF TurnsOf
    <3>3. ~BeingDeleted(k)'
      BY <1>4, <2>1, <3>1 DEF BeingDeleted, OnlyVisit
    <3>4. \A w \in Visitors : w # v => visit'[w] = visit[w]
      BY <2>1 DEF OnlyVisit
    <3>5. PICK n : n = Cardinality(TurnsOf(k))
      OBVIOUS
    <3>6. n \in Nat /\ {u.seq : u \in TurnsOf(k)} = 1 .. n
      BY <3>1, <3>5, NextNumber DEF Orderly, Counted
    <3>7. t.seq \in 1 .. n + 1
      BY <1>3, <3>1, <3>5 DEF Orderly, VisitsFit, VisitFits, Carries, Away
    <3>8. t.seq = n + 1
      <4>1. t.seq \notin {u.seq : u \in TurnsOf(k)}
        BY <1>2, <1>8 DEF Taken, TurnsOf
      <4> QED BY <3>6, <3>7, <4>1
    <3>9. ASSUME NEW w \in Visitors, visit[w].phase = "inserted", visit[w].conversation = k PROVE FALSE
      <4>1. visit[w].turn.seq = n + 1
        BY <3>1, <3>5, <3>9 DEF Orderly, VisitsFit, VisitFits, Away
      <4>2. visit[w].turn.conversation = k
        <5>1. visit[w] = [phase |-> visit[w].phase, conversation |-> visit[w].turn.conversation, turn |-> visit[w].turn]
          BY <3>9 DEF TurnsInv, VisitsSound, Carries
        <5> QED BY <3>9, <5>1
      <4> QED BY <1>2, <1>6, <3>8, <3>9, <4>1, <4>2 DEF Taken
    <3>10. VisitsFit(k)'
      <4> SUFFICES ASSUME NEW w \in Visitors, visit'[w] # Away, visit'[w].conversation = k
                   PROVE  VisitFits(visit'[w], TurnsOf(k))
        BY <3>2 DEF VisitsFit
      <4>1. CASE w = v
        BY <1>4, <2>1, <3>5, <3>7, <3>8, <4>1 DEF VisitFits, Carries
      <4>2. CASE w # v
        BY <3>1, <3>4, <4>2 DEF Orderly, VisitsFit
      <4> QED BY <4>1, <4>2
    <3>11. OneInserted(k)'
      BY <3>4, <3>9 DEF OneInserted
    <3>12. conversation'[k] # "deleted"
      BY <1>6, <3>1 DEF Orderly, Closed
    <3> QED BY <3>1, <3>2, <3>3, <3>10, <3>11, <3>12 DEF Orderly, Closed
  <2> QED BY <1>6, <2>2, <2>3, <2>4 DEF TurnsInv
<1> QED BY <1>7, <1>8

LEMMA TurnsCommit ==
    ASSUME TurnsInv, NEW v \in Visitors, CommitTurn(v)
    PROVE  TurnsInv'
<1>1. PICK t : t = visit[v].turn
  OBVIOUS
<1>2. PICK k : k = t.conversation
  OBVIOUS
<1>3. visit[v] = [phase |-> "inserted", conversation |-> k, turn |-> t] /\ k \in Conversation
  BY <1>1, <1>2 DEF CommitTurn, TurnsInv, VisitsSound, Flying, Carries
<1>4. /\ turns' = turns \union {t} /\ crossed' = crossed
      /\ conversation' = [conversation EXCEPT ![k] = IF conversation[k] = "overdue" THEN "active" ELSE conversation[k]]
      /\ visit' = [visit EXCEPT ![v] = Away]
  BY <1>1, <1>2 DEF CommitTurn
<1>5. OnlyVisit(v) /\ visit'[v] = Away /\ DOMAIN conversation' = DOMAIN conversation
  BY <1>4, VisitChanges DEF TurnsInv, VisitsSound
<1>6. VisitsSound'
  BY <1>5, EndedSound DEF TurnsInv
<1>7. ASSUME NEW c \in Conversation \ crossed, c # k PROVE Orderly(c)'
  <2>1. Orderly(c) /\ TurnsOf(c)' = TurnsOf(c) /\ conversation'[c] = conversation[c]
    BY <1>2, <1>4, <1>7 DEF TurnsInv, TurnsOf, VisitsSound
  <2> QED BY <1>5, <2>1, Elsewhere
<1>8. ASSUME k \notin crossed PROVE Orderly(k)'
  <2>1. Orderly(k) /\ InFlight(k) /\ ~BeingDeleted(k)
    BY <1>3, <1>8 DEF TurnsInv, Orderly, InFlight
  <2>2. PICK rows : rows = TurnsOf(k)
    OBVIOUS
  <2>3. PICK n : n = Cardinality(rows)
    OBVIOUS
  <2>4. n \in Nat /\ {u.seq : u \in rows} = 1 .. n /\ IsFiniteSet(rows)
    BY <2>1, <2>2, <2>3, NextNumber DEF Orderly, Counted
  <2>5. t.seq = n + 1
    BY <1>3, <2>1, <2>2, <2>3 DEF Orderly, VisitsFit, VisitFits, Away
  <2>6. TurnsOf(k)' = rows \union {t}
    BY <1>2, <1>4, <2>2 DEF TurnsOf
  <2>7. t \notin rows
    <3>1. t \in rows => t.seq \in {u.seq : u \in rows}
      OBVIOUS
    <3>2. t.seq \notin 1 .. n
      BY <2>4, <2>5
    <3> QED BY <2>4, <3>1, <3>2
  <2>8. IsFiniteSet(rows \union {t}) /\ Cardinality(rows \union {t}) = n + 1
    BY <2>3, <2>4, <2>7, FS_AddElement
  <2>9. Counted(rows \union {t})
    <3>1. {u.seq : u \in rows \union {t}} = {u.seq : u \in rows} \union {n + 1}
      BY <2>5
    <3>2. (1 .. n) \union {n + 1} = 1 .. n + 1
      BY <2>4
    <3> QED BY <2>4, <2>8, <3>1, <3>2 DEF Counted
  <2>10. \A w \in Visitors : visit'[w] # Away => w # v /\ visit'[w] = visit[w]
    BY <1>5 DEF OnlyVisit
  <2>11. ~BeingDeleted(k)'
    BY <1>5, <2>1 DEF BeingDeleted, OnlyVisit, Away
  <2>12. VisitsFit(k)'
    <3> SUFFICES ASSUME NEW w \in Visitors, visit'[w] # Away, visit'[w].conversation = k
                 PROVE  VisitFits(visit'[w], rows \union {t})
      BY <2>6 DEF VisitsFit
    <3>1. visit'[w] = visit[w] /\ w # v /\ VisitFits(visit[w], rows)
      BY <2>1, <2>2, <2>10 DEF Orderly, VisitsFit
    <3>2. visit[w].phase # "inserted"
      BY <1>3, <2>1, <3>1 DEF Orderly, OneInserted
    <3>3. visit[w].phase # "deleting"
      BY <2>1, <3>1 DEF BeingDeleted
    <3>4. Carries(visit[w]) => visit[w].turn.seq \in 1 .. n + 2
      BY <2>3, <2>4, <3>1 DEF VisitFits
    <3> QED BY <2>4, <2>8, <3>1, <3>2, <3>3, <3>4 DEF VisitFits
  <2>13. OneInserted(k)'
    BY <2>1, <2>10 DEF Orderly, OneInserted, Away
  <2>14. conversation'[k] # "deleted"
    <3>1. conversation[k] # "deleted"
      BY <2>1 DEF Orderly, Closed
    <3> QED BY <1>3, <1>4, <3>1 DEF TurnsInv, VisitsSound
  <2> QED BY <2>6, <2>9, <2>11, <2>12, <2>13, <2>14 DEF Orderly, Closed
<1> QED BY <1>4, <1>6, <1>7, <1>8 DEF TurnsInv

LEMMA TurnsDelete ==
    ASSUME TurnsInv, NEW v \in Visitors, NEW k \in Conversation, Delete(v, k)
    PROVE  TurnsInv'
<1>1. PICK x : x = [phase |-> "deleting", conversation |-> k, turns |-> TurnsOf(k)]
  OBVIOUS
<1>2. /\ UNCHANGED <<conversation, turns>> /\ conversation[k] = "active" /\ ~BeingDeleted(k)
      /\ crossed' = IF InFlight(k) THEN crossed \union {k} ELSE crossed
      /\ visit' = [visit EXCEPT ![v] = x]
  BY <1>1 DEF Delete, Live, CrossedIf
<1>3. OnlyVisit(v) /\ visit'[v] = x
  BY <1>2, VisitChanges DEF TurnsInv, VisitsSound
<1>4. VisitsSound'
  <2>1. visit'[v].phase = "deleting" /\ visit'[v].conversation = k /\ ~Carries(visit'[v])
        /\ \A t \in visit'[v].turns : t.conversation = k
    BY <1>1, <1>3 DEF Carries, TurnsOf
  <2> QED BY <1>2, <1>3, <2>1, VisitSound DEF TurnsInv
<1>5. ASSUME NEW c \in Conversation \ crossed', c # k PROVE Orderly(c)'
  <2>1. Orderly(c) /\ visit'[v].conversation # c
    BY <1>1, <1>2, <1>3, <1>5 DEF TurnsInv
  <2>2. TurnsOf(c)' = TurnsOf(c) /\ conversation'[c] = conversation[c]
    BY <1>2 DEF TurnsOf
  <2> QED BY <1>3, <2>1, <2>2, Elsewhere
<1>6. ASSUME k \notin crossed' PROVE Orderly(k)'
  <2>1. Orderly(k) /\ ~InFlight(k)
    BY <1>2, <1>6 DEF TurnsInv
  <2>2. TurnsOf(k)' = TurnsOf(k)
    BY <1>2 DEF TurnsOf
  <2>3. \A w \in Visitors : w # v => visit'[w] = visit[w]
    BY <1>3 DEF OnlyVisit
  <2>4. ~InFlight(k)'
    BY <1>1, <1>3, <2>1, <2>3 DEF InFlight
  <2>5. VisitsFit(k)'
    <3> SUFFICES ASSUME NEW w \in Visitors, visit'[w] # Away, visit'[w].conversation = k
                 PROVE  VisitFits(visit'[w], TurnsOf(k))
      BY <2>2 DEF VisitsFit
    <3>1. CASE w = v
      BY <1>1, <1>3, <3>1 DEF VisitFits, Carries
    <3>2. CASE w # v
      BY <2>1, <2>3, <3>2 DEF Orderly, VisitsFit
    <3> QED BY <3>1, <3>2
  <2>6. OneInserted(k)'
    BY <2>4 DEF OneInserted, InFlight
  <2> QED BY <1>2, <2>1, <2>2, <2>4, <2>5, <2>6 DEF Orderly, Closed
<1> QED BY <1>4, <1>5, <1>6 DEF TurnsInv

LEMMA TurnsCommitDelete ==
    ASSUME TurnsInv, NEW v \in Visitors, CommitDelete(v)
    PROVE  TurnsInv'
<1>1. PICK k : k = visit[v].conversation
  OBVIOUS
<1>2. PICK gone : gone = visit[v].turns
  OBVIOUS
<1>3. /\ turns' = turns \ gone /\ crossed' = crossed /\ visit[v].phase = "deleting"
      /\ conversation' = [conversation EXCEPT ![k] = "deleted"]
      /\ visit' = [visit EXCEPT ![v] = Away]
  BY <1>1, <1>2 DEF CommitDelete
<1>4. k \in Conversation /\ \A t \in gone : t.conversation = k
  BY <1>1, <1>2, <1>3 DEF TurnsInv, VisitsSound
<1>5. OnlyVisit(v) /\ visit'[v] = Away /\ DOMAIN conversation' = DOMAIN conversation
  BY <1>3, VisitChanges DEF TurnsInv, VisitsSound
<1>6. VisitsSound'
  BY <1>5, EndedSound DEF TurnsInv
<1>7. ASSUME NEW c \in Conversation \ crossed, c # k PROVE Orderly(c)'
  <2>1. Orderly(c) /\ TurnsOf(c)' = TurnsOf(c) /\ conversation'[c] = conversation[c]
    BY <1>3, <1>4, <1>7 DEF TurnsInv, TurnsOf, VisitsSound
  <2> QED BY <1>5, <2>1, Elsewhere
<1>8. ASSUME k \notin crossed PROVE Orderly(k)'
  <2>1. Orderly(k) /\ BeingDeleted(k) /\ ~InFlight(k)
    BY <1>1, <1>3, <1>4, <1>8 DEF TurnsInv, Orderly, BeingDeleted
  <2>2. gone = TurnsOf(k)
    BY <1>1, <1>2, <1>3, <2>1 DEF Orderly, VisitsFit, VisitFits, Away
  <2>3. TurnsOf(k)' = {}
    BY <1>3, <2>2 DEF TurnsOf
  <2>4. \A w \in Visitors : visit'[w] # Away => w # v /\ visit'[w] = visit[w]
    BY <1>5 DEF OnlyVisit
  <2>5. \A w \in Visitors : visit'[w].phase # "away" => w # v /\ visit'[w] = visit[w]
    BY <2>4 DEF Away
  <2>6. ~InFlight(k)'
    BY <2>1, <2>5 DEF InFlight
  <2>7. ~BeingDeleted(k)'
    BY <1>1, <1>3, <2>5 DEF BeingDeleted, TurnsInv, VisitsSound
  <2>8. VisitsFit(k)'
    <3> SUFFICES ASSUME NEW w \in Visitors, visit'[w] # Away, visit'[w].conversation = k
                 PROVE  VisitFits(visit'[w], TurnsOf(k)')
      BY DEF VisitsFit
    <3>1. visit'[w].phase \notin {"answering", "numbered", "inserted", "deleting"}
      BY <2>6, <2>7 DEF InFlight, BeingDeleted
    <3> QED BY <3>1 DEF VisitFits, Carries
  <2>9. OneInserted(k)'
    BY <2>6 DEF OneInserted, InFlight
  <2>10. Counted({})
    BY FS_EmptySet DEF Counted
  <2> QED BY <2>3, <2>6, <2>7, <2>8, <2>9, <2>10 DEF Orderly, Closed
<1> QED BY <1>3, <1>6, <1>7, <1>8 DEF TurnsInv

\* Only the status changes, and not to deleted.
LEMMA TurnsStatus ==
    ASSUME TurnsInv, NEW k \in Conversation, NEW s, s # "deleted",
           conversation' = [conversation EXCEPT ![k] = s], UNCHANGED <<turns, visit, crossed>>
    PROVE  TurnsInv'
<1>1. DOMAIN conversation' = Conversation /\ \A c \in Conversation : conversation'[c] = "deleted" => conversation[c] = "deleted"
  BY DEF TurnsInv, VisitsSound
<1>2. VisitsSound'
  BY <1>1 DEF TurnsInv, VisitsSound
<1>3. ASSUME NEW c \in Conversation \ crossed PROVE Orderly(c)'
  <2>1. Orderly(c)
    BY DEF TurnsInv
  <2> QED BY <1>1, <2>1 DEF Orderly, VisitsFit, OneInserted, Closed, InFlight, BeingDeleted, TurnsOf
<1> QED BY <1>2, <1>3 DEF TurnsInv

LEMMA TurnsStep == TurnsInv /\ [Next]_vars => TurnsInv'
<1> SUFFICES ASSUME TurnsInv, [Next]_vars PROVE TurnsInv'
  OBVIOUS
<1>1. CASE UNCHANGED conversations
  BY <1>1 DEF conversations, TurnsInv, VisitsSound, Orderly, VisitsFit, OneInserted, Closed, InFlight, BeingDeleted, TurnsOf
<1>2. ASSUME NEW o \in Officers,
             Analyze(o) \/ ReadTurn(o) \/ InsertProposal(o) \/ Decide(o) \/ WriteEvent(o) \/ Commit(o) \/ Abort(o)
      PROVE  TurnsInv'
  BY <1>1, <1>2 DEF Analyze, ReadTurn, Propose, InsertProposal, Decide, WriteEvent, Commit, Abort
<1>3. ASSUME NEW c \in Conversation, Create(c) \/ Elapse(c) \/ MarkExpired(c) PROVE TurnsInv'
  BY <1>3, TurnsStatus DEF Create, Elapse, MarkExpired
<1>4. CASE Converse
  BY <1>3, <1>4, TurnsAsk, TurnsNumber, TurnsInsert, TurnsCommit, TurnsAbandon DEF Converse
<1>5. ASSUME NEW v \in Visitors, NEW c \in Conversation, DeleteTurns(v, c) PROVE TurnsInv'
  BY <1>5, TurnsDelete DEF DeleteTurns
<1>6. ASSUME NEW v \in Visitors, ForgetTurns(v) PROVE TurnsInv'
  BY <1>6, TurnsCommitDelete DEF ForgetTurns
<1>7. CASE UNCHANGED vars
  BY <1>1, <1>7 DEF vars
<1> QED BY <1>2, <1>4, <1>5, <1>6, <1>7 DEF Next

\* The turns of a conversation are numbered from 1 without a gap or a repeat
\* whatever requests add to it at one time, and none is left of one that was
\* deleted, unless a query crossed the deletion (record_conversation_turn,
\* delete_conversation).
THEOREM TurnsSound == Spec => []TurnsNumbered
<1>1. Spec => []TurnsInv
  BY TurnsInit, TurnsStep, PTL DEF Spec
<1>2. TurnsInv => TurnsNumbered
  BY DEF TurnsInv, TurnsNumbered, Orderly, Counted, Closed
<1> QED BY <1>1, <1>2, PTL


-----------------------------------------------------------------------------
(***************************************************************************)
(* Recommendations implements DecisionJournal.  Only a commit is a step of *)
(* the journal.  A decision is checked long before that, against a status  *)
(* that another decision may have replaced; what makes it good at the      *)
(* commit is that an event with that status is in the chain to stay.       *)
(***************************************************************************)

Stands(o, f) == \E row \in RowsAbout(log, f) : Allowed(row.event.status, office[o].status)

StandsInv == \A o \in Officers : \A f : Deciding(o, f) => Stands(o, f)

\* An event that is appended to the chain comes after those it has.
LEMMA EventsGrow ==
    ASSUME NEW rows, InSequence(rows), NEW e, e.id \in Nat, \A a \in rows : a.id < e.id
    PROVE  Events(rows \union {e}) = Append(Events(rows), e.event)
<1>1. PICK g : g = InOrder(rows)
  OBVIOUS
<1>2. g \in Seq(rows) /\ DOMAIN g = 1 .. Len(g) /\ Len(g) \in Nat
  BY <1>1 DEF InSequence, Enumerates
<1>3. PICK h : h = Append(g, e)
  OBVIOUS
<1>4. InOrder(rows \union {e}) = h
  BY <1>1, <1>3, OrderGrows
<1>5. Len(h) = Len(g) + 1 /\ DOMAIN h = 1 .. Len(g) + 1
      /\ (\A n \in 1 .. Len(g) : h[n] = g[n]) /\ h[Len(g) + 1] = e
  <2>1. g \in Seq(rows \union {e})
    BY <1>2
  <2> QED BY <1>3, <2>1
<1>6. Events(rows) = [n \in 1 .. Len(g) |-> g[n].event]
  BY <1>1, <1>2 DEF Events
<1>7. Events(rows \union {e}) = [n \in 1 .. Len(g) + 1 |-> h[n].event]
  BY <1>4, <1>5 DEF Events
<1>8. Append(Events(rows), e.event) = [n \in 1 .. Len(g) + 1 |-> h[n].event]
  <2> DEFINE s == Events(rows)
             x == e.event
  <2>1. s \in Seq({s[n] : n \in 1 .. Len(g)} \union {x}) /\ Len(s) = Len(g)
    BY <1>2, <1>6
  <2>2. Append(s, x) = [n \in 1 .. Len(g) + 1 |-> IF n = Len(g) + 1 THEN x ELSE s[n]]
    BY <1>2, <2>1
  <2>3. \A n \in 1 .. Len(g) + 1 : (IF n = Len(g) + 1 THEN x ELSE s[n]) = h[n].event
    BY <1>2, <1>5, <1>6
  <2> QED BY <2>2, <2>3
<1> QED BY <1>7, <1>8

\* Every row of a chain has its place among the events.
LEMMA EventOfRow ==
    ASSUME NEW rows, InSequence(rows), NEW row \in rows
    PROVE  \E n \in DOMAIN Events(rows) : Events(rows)[n] = row.event
<1>1. PICK n \in DOMAIN InOrder(rows) : InOrder(rows)[n] = row
  BY DEF InSequence, Enumerates
<1> QED BY <1>1 DEF Events

\* The status of a recommendation is that of an event of it.
LEMMA StatusTold ==
    ASSUME ToldInv, NEW f \in DOMAIN proposal
    PROVE  \E row \in RowsAbout(log, f) : row.event.status = proposal[f].status
<1>1. PICK rows : rows = RowsAbout(log, f)
  OBVIOUS
<1>2. PICK g : g = InOrder(rows)
  OBVIOUS
<1>3. PICK d : d = decided[f]
  OBVIOUS
<1>4. Truthful(proposal[f], d, rows)
  BY <1>1, <1>3 DEF ToldInv, TablesAgree
<1>5. g \in Seq(rows) /\ DOMAIN g = 1 .. Len(g) /\ Len(g) \in Nat
  BY <1>2, <1>4 DEF Truthful, InSequence, Enumerates
<1>6. Told(rows) = [n \in 1 .. Len(g) |-> g[n].event.status]
  BY <1>2, <1>5 DEF Told, Events
<1>7. PICK told : told = <<"proposed">> \o d
  OBVIOUS
<1>8. d \in Seq({"proposed"} \union Decisions) /\ <<"proposed">> \in Seq({"proposed"} \union Decisions)
  <2>1. d \in Seq(Decisions)
    BY <1>4 DEF Truthful
  <2>2. \A n \in 1 .. Len(d) : d[n] \in Decisions
    BY <2>1
  <2> QED BY <2>1, <2>2
<1>9. /\ Len(told) = Len(d) + 1 /\ told[1] = "proposed" /\ Len(d) \in Nat
      /\ d # <<>> => Len(d) > 0 /\ told[Len(d) + 1] = d[Len(d)]
  BY <1>7, <1>8
<1>10. DOMAIN told = 1 .. Len(d) + 1
  BY <1>7, <1>8, <1>9
<1>11. told = [n \in 1 .. Len(g) |-> g[n].event.status]
  BY <1>4, <1>6, <1>7 DEF Truthful
<1>12. \E n \in DOMAIN told : told[n] = proposal[f].status
  <2>1. proposal[f].status = IF d = <<>> THEN "proposed" ELSE d[Len(d)]
    BY <1>4 DEF Truthful
  <2>2. 1 \in DOMAIN told /\ Len(d) + 1 \in DOMAIN told
    BY <1>9, <1>10
  <2> QED BY <1>9, <2>1, <2>2
<1>13. PICK n \in 1 .. Len(g) : g[n].event.status = proposal[f].status
  BY <1>11, <1>12
<1>14. g[n] \in rows
  BY <1>5, <1>13
<1> QED BY <1>1, <1>13, <1>14

\* Whatever the chain says of a decision in hand stays in it.
LEMMA StandsStays ==
    ASSUME StandsInv, log \subseteq log', NEW o \in Officers,
           \A f : Deciding(o, f)' => Deciding(o, f) /\ office'[o].status = office[o].status
    PROVE  \A f : Deciding(o, f)' => Stands(o, f)'
<1> SUFFICES ASSUME NEW f, Deciding(o, f)'
             PROVE  Stands(o, f)'
  OBVIOUS
<1>1. PICK row \in RowsAbout(log, f) : Allowed(row.event.status, office[o].status)
  BY DEF StandsInv, Stands
<1>2. row \in RowsAbout(log', f)
  BY <1>1 DEF RowsAbout
<1> QED BY <1>1, <1>2 DEF Stands

LEMMA StandsInit == Init => StandsInv
BY DEF Init, StandsInv, Deciding, Absent

LEMMA StandsDecide ==
    ASSUME StandsInv, ToldInv, ChainInv, NEW o \in Officers, Decide(o)
    PROVE  StandsInv'
<1>1. PICK f \in DOMAIN proposal, d \in Decisions :
          /\ Allowed(proposal[f].status, d)
          /\ office' = [office EXCEPT ![o] = [phase |-> "logging", fingerprint |-> f, status |-> d]]
  BY DEF Decide, Decisions
<1>2. log' = log /\ ToldOff(o) /\ office'[o] = [phase |-> "logging", fingerprint |-> f, status |-> d]
  BY <1>1, OfficeChanges DEF Decide, ChainInv
<1>3. \A g : Deciding(o, g)' => Stands(o, g)'
  <2>1. PICK row \in RowsAbout(log, f) : row.event.status = proposal[f].status
    BY StatusTold
  <2>2. Stands(o, f)'
    BY <1>1, <1>2, <2>1 DEF Stands
  <2> QED BY <1>2, <2>2 DEF Deciding
<1>4. ASSUME NEW q \in Officers, q # o PROVE \A g : Deciding(q, g)' => Stands(q, g)'
  <2>1. office'[q] = office[q]
    BY <1>2, <1>4 DEF ToldOff
  <2> QED BY <1>2, <2>1, StandsStays DEF Deciding
<1> QED BY <1>3, <1>4 DEF StandsInv

LEMMA StandsStep == StandsInv /\ ToldInv /\ ChainInv /\ [Next]_vars => StandsInv'
<1> SUFFICES ASSUME StandsInv, ToldInv, ChainInv, [Next]_vars PROVE StandsInv'
  OBVIOUS
<1>0. log \subseteq log'
  BY ChainStep
<1>1. CASE \A o \in Officers : \A f : Deciding(o, f)' => Deciding(o, f) /\ office'[o].status = office[o].status
  BY <1>0, <1>1, StandsStays DEF StandsInv
<1>2. CASE UNCHANGED office
  BY <1>1, <1>2 DEF Deciding
<1>3. ASSUME NEW o \in Officers, ToldOff(o),
             office'[o].phase \notin {"logging", "logged"} \/ office'[o].status = "proposed"
      PROVE  StandsInv'
  BY <1>1, <1>3 DEF ToldOff, Deciding
<1>4. ASSUME NEW o \in Officers, NEW f, Propose(o, f) PROVE StandsInv'
  <2>1. ToldOff(o) /\ office'[o].phase = "new"
    BY <1>4, OfficeChanges DEF Propose, ChainInv
  <2> QED BY <1>3, <2>1
<1>5. ASSUME NEW o \in Officers, InsertProposal(o) PROVE StandsInv'
  <2> DEFINE x == [phase |-> "logging", fingerprint |-> office[o].fingerprint, status |-> "proposed"]
  <2>1. office' = [office EXCEPT ![o] = Absent] \/ office' = [office EXCEPT ![o] = x]
    BY <1>5 DEF InsertProposal
  <2>2. ToldOff(o) /\ office'[o] \in {Absent, x}
    BY <2>1, OfficeChanges DEF ChainInv
  <2>3. office'[o].phase \notin {"logging", "logged"} \/ office'[o].status = "proposed"
    BY <2>2 DEF Absent
  <2> QED BY <1>3, <2>2, <2>3
<1>6. ASSUME NEW o \in Officers, Commit(o) \/ Abort(o) PROVE StandsInv'
  <2>1. ToldOff(o) /\ office'[o] = Absent
    BY <1>6, OfficeChanges DEF Commit, Abort, ChainInv
  <2> QED BY <1>3, <2>1 DEF Absent
<1>7. ASSUME NEW o \in Officers, WriteEvent(o) PROVE StandsInv'
  <2>1. \A q \in Officers : Writing(office'[q]) =>
            Writing(office[q]) /\ office'[q].fingerprint = office[q].fingerprint /\ office'[q].status = office[q].status
    BY <1>7 DEF WriteEvent, Writing, ChainInv
  <2> QED BY <1>1, <2>1 DEF Deciding, Writing
<1>8. ASSUME NEW o \in Officers, Analyze(o) \/ ReadTurn(o) PROVE \E f : Propose(o, f)
  BY <1>8 DEF Analyze, ReadTurn
<1>9. CASE Converse
  BY <1>2, <1>9 DEF Converse, recommendations
<1>10. ASSUME NEW v \in Visitors, NEW c \in Conversation, DeleteTurns(v, c) PROVE StandsInv'
  BY <1>2, <1>10 DEF DeleteTurns, recommendations
<1>11. ASSUME NEW v \in Visitors, ForgetTurns(v) PROVE StandsInv'
  BY <1>2, <1>11 DEF ForgetTurns
<1>12. CASE UNCHANGED vars
  BY <1>2, <1>12 DEF vars, recommendations
<1> QED BY <1>4, <1>5, <1>6, <1>7, <1>8, <1>9, <1>10, <1>11, <1>12, StandsDecide DEF Next

JournalStep == [Journal!Next]_<<Events(log), Statuses>>

\* What leaves the chain and the statuses alone is no step of the journal.
LEMMA NotTold ==
    ASSUME UNCHANGED log, DOMAIN proposal' = DOMAIN proposal,
           \A f \in DOMAIN proposal : proposal'[f].status = proposal[f].status
    PROVE  JournalStep
BY DEF JournalStep, Statuses

\* A commit writes the event and the status at one time.
LEMMA CommitRecords ==
    ASSUME ToldInv, ChainInv, NEW o \in Officers, Commit(o),
           NEW f, f = office[o].fingerprint, NEW x, x = office[o].status,
           f \in DOMAIN proposal \/ x = "proposed"
    PROVE  Journal!Record(f, x)
<1>1. PICK e : e = office[o].entry
  OBVIOUS
<1>2. PICK new : new = IF Exists(f) THEN [proposal[f] EXCEPT !.status = x]
                       ELSE [status |-> "proposed", origin |-> f.turn]
  OBVIOUS
<1>3. office[o].phase = "logged" /\ log' = log \union {e} /\ proposal' = With(proposal, f, new)
  BY <1>1, <1>2 DEF Commit
<1>4. e.event = [resource |-> f, status |-> x] /\ e.id \in Nat /\ \A a \in log : a.id < e.id
  <2>1. Due(office[o], log, events) /\ events \in Nat
    BY <1>3 DEF ChainInv
  <2> QED BY <1>1, <2>1 DEF Due, Entry
<1>5. Events(log)' = Append(Events(log), [resource |-> f, status |-> x])
  <2>1. Events(log') = Append(Events(log), [resource |-> f, status |-> x])
    BY <1>3, <1>4, EventsGrow DEF ChainInv
  <2>2. Events(log)' = Events(log')
    BY DEF Events, InOrder
  <2> QED BY <2>1, <2>2
<1>6. new.status = x
  <2>1. CASE Exists(f)
    <3>1. proposal[f] = [status |-> proposal[f].status, origin |-> proposal[f].origin]
      BY <2>1 DEF Exists, ToldInv, TablesAgree, Truthful
    <3> QED BY <1>2, <2>1, <3>1
  <2>2. CASE ~Exists(f)
    BY <1>2, <2>2 DEF Exists
  <2> QED BY <2>1, <2>2
<1>7. Statuses' = [g \in DOMAIN Statuses \union {f} |-> IF g = f THEN x ELSE Statuses[g]]
  <2>1. DOMAIN proposal' = DOMAIN proposal \union {f} /\ proposal'[f] = new
        /\ \A g \in DOMAIN proposal : g # f => proposal'[g] = proposal[g]
    BY <1>3 DEF With
  <2> QED BY <1>6, <2>1 DEF Statuses
<1> QED BY <1>5, <1>7 DEF Journal!Record, Journal!Event

LEMMA CommitTold ==
    ASSUME StandsInv, ToldInv, ChainInv, NEW o \in Officers, Commit(o)
    PROVE  JournalStep
<1>1. PICK f : f = office[o].fingerprint
  OBVIOUS
<1>2. PICK x : x = office[o].status
  OBVIOUS
<1>3. office[o].phase = "logged"
  BY DEF Commit
<1>4. CASE f \notin DOMAIN proposal
  <2>1. ~Deciding(o, f)
    BY <1>4 DEF ToldInv, OfficeSound
  <2>2. x = "proposed"
    BY <1>1, <1>2, <1>3, <2>1 DEF Deciding
  <2>3. Journal!Record(f, "proposed")
    BY <1>1, <1>2, <2>2, CommitRecords
  <2>4. f \notin DOMAIN Statuses /\ f \in DOMAIN Statuses'
    BY <1>4, <2>3 DEF Journal!Record, Statuses
  <2> QED BY <2>3, <2>4 DEF JournalStep, Journal!Next, Journal!Propose
<1>5. CASE f \in DOMAIN proposal
  <2>1. ~Proposing(o, f)
    BY <1>5 DEF ToldInv, OfficeSound
  <2>2. Deciding(o, f) /\ x \in Decisions
    BY <1>1, <1>2, <1>3, <2>1 DEF Deciding, Proposing, Writing, ToldInv, OfficeSound
  <2>3. PICK row \in log : row.event.resource = f /\ Allowed(row.event.status, x)
    BY <1>2, <2>2 DEF StandsInv, Stands, RowsAbout
  <2>4. PICK n \in DOMAIN Events(log) : Events(log)[n] = row.event
    BY EventOfRow DEF ChainInv
  <2>5. x \in Journal!Permits(Events(log)[n].status)
    BY <2>3, <2>4 DEF Allowed, Journal!Permits
  <2>6. Journal!Record(f, x)
    BY <1>1, <1>2, <1>5, CommitRecords
  <2>7. Journal!Decide(f, x)
    BY <2>3, <2>4, <2>5, <2>6 DEF Journal!Decide
  <2>8. f \in DOMAIN Statuses'
    BY <2>6 DEF Journal!Record
  <2> QED BY <2>2, <2>7, <2>8 DEF JournalStep, Journal!Next, Decisions
<1> QED BY <1>4, <1>5

LEMMA JournalSteps == StandsInv /\ ToldInv /\ ChainInv /\ [Next]_vars => JournalStep
<1> SUFFICES ASSUME StandsInv, ToldInv, ChainInv, [Next]_vars PROVE JournalStep
  OBVIOUS
<1>1. CASE UNCHANGED <<log, proposal>>
  BY <1>1, NotTold
<1>2. ASSUME NEW o \in Officers,
             Analyze(o) \/ ReadTurn(o) \/ InsertProposal(o) \/ Decide(o) \/ WriteEvent(o) \/ Abort(o)
      PROVE  UNCHANGED <<log, proposal>>
  BY <1>2 DEF Analyze, ReadTurn, Propose, InsertProposal, Decide, WriteEvent, Abort
<1>3. ASSUME NEW v \in Visitors, ForgetTurns(v) PROVE JournalStep
  <2>1. log' = log
    BY <1>3 DEF ForgetTurns
  <2>2. DOMAIN proposal' = DOMAIN proposal
    BY <1>3 DEF ForgetTurns
  <2>3. ASSUME NEW f \in DOMAIN proposal PROVE proposal'[f].status = proposal[f].status
    <3>1. proposal'[f] = proposal[f] \/ proposal'[f] = [proposal[f] EXCEPT !.origin = NoTurn]
      BY <1>3 DEF ForgetTurns
    <3>2. proposal[f] = [status |-> proposal[f].status, origin |-> proposal[f].origin]
      BY DEF ToldInv, TablesAgree, Truthful
    <3> QED BY <3>1, <3>2
  <2> QED BY <2>1, <2>2, <2>3, NotTold
<1>4. CASE Converse
  BY <1>1, <1>4 DEF Converse, recommendations
<1>5. ASSUME NEW v \in Visitors, NEW c \in Conversation, DeleteTurns(v, c) PROVE JournalStep
  BY <1>1, <1>5 DEF DeleteTurns, recommendations
<1>6. CASE UNCHANGED vars
  BY <1>1, <1>6 DEF vars, recommendations
<1> QED BY <1>1, <1>2, <1>3, <1>4, <1>5, <1>6, CommitTold DEF Next

\* Every change of a status is one step of the journal together with its event:
\* nothing is proposed twice, and every decision, those taken at one time too,
\* stands on a status that was told before (propose_recommendation,
\* decide_recommendation, append_workflow_event).
THEOREM ImplementsDecisionJournal == Spec => JournalSpec
<1>1. Init => Journal!Init
  <2> SUFFICES ASSUME Init PROVE Journal!Init
    OBVIOUS
  <2>1. log = {} /\ proposal = <<>>
    BY DEF Init
  <2>2. Events(log) = <<>>
    BY <2>1, OrderOfNone DEF Events
  <2>3. Statuses = <<>>
    BY <2>1 DEF Statuses
  <2> QED BY <2>2, <2>3 DEF Journal!Init
<1>2. StandsInv /\ ToldInv /\ ChainInv /\ [Next]_vars => [Journal!Next]_(Journal!vars)
  BY JournalSteps DEF JournalStep, Journal!vars
<1> QED
  BY StandsInit, StandsStep, ToldInit, ToldStep, ChainInit, ChainStep, <1>1, <1>2, PTL
  DEF Spec, JournalSpec, Journal!Spec
=============================================================================
