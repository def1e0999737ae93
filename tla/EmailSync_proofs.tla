-------------------------- MODULE EmailSync_proofs --------------------------
(***************************************************************************)
(* Theorems of EmailSync, for any batch size, bounds and set of requests.  *)
(***************************************************************************)
EXTENDS EmailSync, FiniteSetTheorems, TLAPS

IsSync(r) == r = [pc |-> r.pc, base |-> r.base, last |-> r.last, todo |-> r.todo]

Shape ==
    /\ sync = [p \in Syncers |-> sync[p]]
    /\ \A p \in Syncers : IsSync(sync[p])
    /\ receipt = [u \in Uids |-> receipt[u]]
    /\ ingested \in [Uids -> Nat]

\* The synchronization is between the insertion of the receipt of u and the
\* commit that stores its content.
Storing(p, u) == sync[p].pc = "received" /\ Current(p) = u

\* A message has a receipt before anybody stores it, one synchronization is at
\* it, and nobody is at it any more once it is stored.
Exclusive ==
    \A u \in Uids :
        /\ ingested[u] <= 1
        /\ receipt[u] = "none" => ingested[u] = 0
        /\ \A p \in Syncers : Storing(p, u) => receipt[u] # "none" /\ ingested[u] = 0
        /\ \A p, q \in Syncers : Storing(p, u) /\ Storing(q, u) => p = q

\* The inductive invariant.
IInv == Shape /\ Exclusive

-----------------------------------------------------------------------------
LEMMA RecordIsSync ==
    ASSUME NEW pc, NEW base, NEW last, NEW todo
    PROVE  IsSync([pc |-> pc, base |-> base, last |-> last, todo |-> todo])
BY DEF IsSync

\* Another pc leaves a synchronization one, and with the same todo.
LEMMA PcChanged ==
    ASSUME NEW r, NEW pc, IsSync(r)
    PROVE  IsSync([r EXCEPT !.pc = pc]) /\ [r EXCEPT !.pc = pc].pc = pc /\ [r EXCEPT !.pc = pc].todo = r.todo
<1> DEFINE b == r.base
           l == r.last
           t == r.todo
           q == r.pc
<1>1. r = [pc |-> q, base |-> b, last |-> l, todo |-> t] BY DEF IsSync
<1> HIDE DEF b, l, t, q
<1>2. [r EXCEPT !.pc = pc] = [pc |-> pc, base |-> b, last |-> l, todo |-> t] BY <1>1
<1>3. r.todo = t BY DEF t
<1> QED BY <1>2, <1>3, RecordIsSync

Moved(r, pc, last, todo) == [r EXCEPT !.pc = pc, !.last = last, !.todo = todo]
Based(r, pc, base, todo) == [r EXCEPT !.pc = pc, !.base = base, !.todo = todo]

\* Three fields of a record at one time.
LEMMA Changed ==
    ASSUME NEW r, NEW base, NEW last, NEW todo, NEW pc, NEW pc1, NEW x, NEW y,
           r = [pc |-> pc, base |-> base, last |-> last, todo |-> todo]
    PROVE  /\ Moved(r, pc1, x, y) = [pc |-> pc1, base |-> base, last |-> x, todo |-> y]
           /\ Based(r, pc1, x, y) = [pc |-> pc1, base |-> x, last |-> last, todo |-> y]
<1> DEFINE R == [pc : {pc, pc1}, base : {base, x}, last : {last, x}, todo : {todo, y}]
           e == [r EXCEPT !.pc = pc1, !.last = x, !.todo = y]
           f == [r EXCEPT !.pc = pc1, !.base = x, !.todo = y]
<1>1. r \in R OBVIOUS
<1>2. e \in R /\ e.pc = pc1 /\ e.base = base /\ e.last = x /\ e.todo = y BY <1>1
<1>3. f \in R /\ f.pc = pc1 /\ f.base = x /\ f.last = last /\ f.todo = y BY <1>1
<1> HIDE DEF e, f
<1>4. e = [pc |-> pc1, base |-> base, last |-> x, todo |-> y] BY <1>2
<1>5. f = [pc |-> pc1, base |-> x, last |-> last, todo |-> y] BY <1>3
<1> QED BY <1>4, <1>5 DEF e, f, Moved, Based

LEMMA InitIInv == Init => IInv
<1> SUFFICES ASSUME Init PROVE IInv OBVIOUS
<1>1. \A p \in Syncers : sync[p] = NoSync BY DEF Init
<1>2. \A p \in Syncers : sync[p].pc = "idle" BY <1>1 DEF NoSync
<1>3. Shape BY <1>1, RecordIsSync DEF Init, Shape, NoSync
<1>4. Exclusive BY <1>2 DEF Init, Exclusive, Storing
<1> QED BY <1>3, <1>4 DEF IInv

\* A step of one synchronization that neither receives nor stores a message.
LEMMA QuietStep ==
    ASSUME IInv, NEW p \in Syncers, NEW pc, NEW base, NEW last, NEW todo, pc # "received",
           sync' = [sync EXCEPT ![p] = [pc |-> pc, base |-> base, last |-> last, todo |-> todo]],
           UNCHANGED <<receipt, ingested>>
    PROVE  IInv'
<1>1. /\ sync'[p] = [pc |-> pc, base |-> base, last |-> last, todo |-> todo]
      /\ \A q \in Syncers : q # p => sync'[q] = sync[q]
    BY DEF IInv, Shape
<1>2. Shape' BY <1>1, RecordIsSync DEF IInv, Shape
<1>3. \A q \in Syncers : q # p => Current(q)' = Current(q) BY <1>1 DEF Current
<1>4. sync'[p].pc # "received" BY <1>1
<1>5. Exclusive' BY <1>1, <1>3, <1>4 DEF IInv, Exclusive, Storing
<1> QED BY <1>2, <1>5 DEF IInv

LEMMA ReceiveStep == ASSUME IInv, NEW p \in Syncers, Receive(p) PROVE IInv'
<1> DEFINE v == Current(p)
<1>1. /\ receipt[v] = "none" /\ receipt' = [receipt EXCEPT ![v] = "received"] /\ ingested' = ingested
      /\ sync' = [sync EXCEPT ![p].pc = "received"]
    BY DEF Receive, ReceiveWhen
<1>2. /\ sync'[p].pc = "received" /\ sync'[p].todo = sync[p].todo
      /\ \A q \in Syncers : q # p => sync'[q] = sync[q]
    BY <1>1, PcChanged DEF IInv, Shape
<1>3. \A q \in Syncers : Current(q)' = Current(q) BY <1>2 DEF Current
<1>4. Shape' BY <1>1, PcChanged DEF IInv, Shape
<1> HIDE DEF v
<1>5. \A q \in Syncers : q # p => Current(q)' = Current(q) /\ sync'[q].pc = sync[q].pc BY <1>2, <1>3
<1>6. Current(p)' = v BY <1>3 DEF v
<1>7. ASSUME NEW u \in Uids
      PROVE  /\ ingested'[u] <= 1
             /\ receipt'[u] = "none" => ingested'[u] = 0
             /\ \A q \in Syncers : sync'[q].pc = "received" /\ Current(q)' = u => receipt'[u] # "none" /\ ingested'[u] = 0
             /\ \A q, r \in Syncers : (sync'[q].pc = "received" /\ Current(q)' = u)
                                      /\ (sync'[r].pc = "received" /\ Current(r)' = u) => q = r
    <2>1. CASE u = v
        <3>1. ingested[u] = 0 /\ receipt'[u] = "received" BY <1>1, <2>1 DEF IInv, Exclusive, Shape
        <3>2. \A q \in Syncers : ~Storing(q, u) BY <1>1, <2>1 DEF IInv, Exclusive
        <3> QED BY <1>1, <1>5, <3>1, <3>2 DEF Storing
    <2>2. CASE u # v
        <3>1. receipt'[u] = receipt[u] /\ ingested'[u] = ingested[u] BY <1>1, <2>2 DEF IInv, Shape
        <3> QED BY <1>5, <1>6, <2>2, <3>1 DEF IInv, Exclusive, Storing
    <2> QED BY <2>1, <2>2
<1>8. Exclusive' BY <1>7 DEF Exclusive, Storing
<1> QED BY <1>4, <1>8 DEF IInv

LEMMA IngestStep == ASSUME IInv, NEW p \in Syncers, Ingest(p) PROVE IInv'
<1> DEFINE v == Current(p)
<1>1. /\ sync[p].pc = "received" /\ receipt' = receipt
      /\ ingested' = [ingested EXCEPT ![v] = @ + 1]
      /\ sync' = [sync EXCEPT ![p].pc = "ingested"]
    BY DEF Ingest
<1>2. /\ sync'[p].pc = "ingested"
      /\ \A q \in Syncers : q # p => sync'[q] = sync[q]
    BY <1>1, PcChanged DEF IInv, Shape
<1>3. \A q \in Syncers : q # p => Current(q)' = Current(q) /\ sync'[q].pc = sync[q].pc BY <1>2 DEF Current
<1>4. Shape'
    <2>1. ASSUME NEW u \in Uids PROVE ingested'[u] \in Nat
        <3>1. ingested \in [Uids -> Nat] BY DEF IInv, Shape
        <3> QED BY <1>1, <3>1
    <2>2. ingested' = [u \in Uids |-> ingested'[u]] BY <1>1 DEF IInv, Shape
    <2>3. ingested' \in [Uids -> Nat] BY <2>1, <2>2
    <2> QED BY <1>1, <2>3, PcChanged DEF IInv, Shape
<1>5. Storing(p, v) BY <1>1 DEF Storing
<1> HIDE DEF v
<1>6. ASSUME NEW u \in Uids
      PROVE  /\ ingested'[u] <= 1
             /\ receipt'[u] = "none" => ingested'[u] = 0
             /\ \A q \in Syncers : sync'[q].pc = "received" /\ Current(q)' = u => receipt'[u] # "none" /\ ingested'[u] = 0
             /\ \A q, r \in Syncers : (sync'[q].pc = "received" /\ Current(q)' = u)
                                      /\ (sync'[r].pc = "received" /\ Current(r)' = u) => q = r
    <2>1. CASE u = v
        <3>1. ingested[u] = 0 /\ receipt[u] # "none" BY <1>5, <2>1 DEF IInv, Exclusive
        <3>2. ingested'[u] = 1 BY <1>1, <2>1, <3>1 DEF IInv, Shape
        <3>3. \A q \in Syncers : Storing(q, u) => q = p BY <1>5, <2>1 DEF IInv, Exclusive
        <3> QED BY <1>1, <1>2, <1>3, <3>1, <3>2, <3>3 DEF Storing
    <2>2. CASE u # v
        <3>1. receipt'[u] = receipt[u] /\ ingested'[u] = ingested[u] BY <1>1, <2>2 DEF IInv, Shape
        <3> QED BY <1>2, <1>3, <2>2, <3>1 DEF IInv, Exclusive, Storing
    <2> QED BY <2>1, <2>2
<1>7. Exclusive' BY <1>6 DEF Exclusive, Storing
<1> QED BY <1>4, <1>7 DEF IInv

LEMMA FinishReceiptStep == ASSUME IInv, NEW p \in Syncers, FinishReceipt(p) PROVE IInv'
<1> DEFINE v == Current(p)
<1>1. /\ receipt' = [receipt EXCEPT ![v] = "protected"] /\ ingested' = ingested
      /\ sync' = [sync EXCEPT ![p].pc = "route"]
    BY DEF FinishReceipt
<1>2. /\ sync'[p].pc = "route"
      /\ \A q \in Syncers : q # p => sync'[q] = sync[q]
    BY <1>1, PcChanged DEF IInv, Shape
<1>3. \A q \in Syncers : q # p => Current(q)' = Current(q) BY <1>2 DEF Current
<1>4. Shape' BY <1>1, PcChanged DEF IInv, Shape
<1> HIDE DEF v
<1>5. ASSUME NEW u \in Uids PROVE receipt'[u] = receipt[u] \/ receipt'[u] = "protected"
    BY <1>1, <1>4 DEF IInv, Shape
<1>6. Exclusive' BY <1>1, <1>2, <1>3, <1>5 DEF IInv, Exclusive, Storing
<1> QED BY <1>4, <1>6 DEF IInv

Becomes(p, pc, base, last, todo) ==
    sync' = [sync EXCEPT ![p] = [pc |-> pc, base |-> base, last |-> last, todo |-> todo]]

\* What every step but those of a message writes to its synchronization.
LEMMA Moves ==
    ASSUME Shape, NEW p \in Syncers
    PROVE  /\ Start(p) => Becomes(p, "backlog", cursor, 0, Newest(Unassigned))
           /\ Reconcile(p) => \/ Becomes(p, "backlog", sync[p].base, sync[p].last, sync[p].todo \ {Max(sync[p].todo)})
                              \/ Becomes(p, "backlog", Expired, sync[p].last, sync[p].todo \ {Max(sync[p].todo)})
           /\ Existing(p) \/ Route(p) =>
                  Becomes(p, "examine", sync[p].base, Current(p), sync[p].todo \ {Current(p)})
           /\ Close(p) \/ Disconnect(p) \/ Crash(p) => Becomes(p, "idle", 0, 0, {})
           /\ Fail(p) => Becomes(p, "close", Expired, sync[p].last, {})
<1> DEFINE pc == sync[p].pc
           base == sync[p].base
           last == sync[p].last
           todo == sync[p].todo
<1>1. sync[p] = [pc |-> pc, base |-> base, last |-> last, todo |-> todo] BY DEF Shape, IsSync
<1>2. ASSUME Start(p) PROVE Becomes(p, "backlog", cursor, 0, Newest(Unassigned))
    <2>0. NoSync = [pc |-> "idle", base |-> 0, last |-> 0, todo |-> {}] BY DEF NoSync
    <2>1. Based(NoSync, "backlog", cursor, Newest(Unassigned))
          = [pc |-> "backlog", base |-> cursor, last |-> 0, todo |-> Newest(Unassigned)]
        BY <2>0, Changed
    <2> QED BY <1>2, <2>1 DEF Start, StartWith, Becomes, Based
<1>3. ASSUME Reconcile(p)
      PROVE  \/ Becomes(p, "backlog", base, last, todo \ {Max(todo)})
             \/ Becomes(p, "backlog", Expired, last, todo \ {Max(todo)})
    <2> DEFINE u == Max(todo)
               rest == [sync[p] EXCEPT !.todo = @ \ {u}]
    <2>1. sync' = [sync EXCEPT ![p] = rest] \/ sync' = [sync EXCEPT ![p] = [rest EXCEPT !.base = Expired]]
        BY <1>3 DEF Reconcile
    <2>2. pc = "backlog" BY <1>3 DEF Reconcile
    <2> HIDE DEF u, pc, base, last, todo
    <2>3. rest = [pc |-> "backlog", base |-> base, last |-> last, todo |-> todo \ {u}] BY <1>1, <2>2
    <2> HIDE DEF rest
    <2>4. Becomes(p, "backlog", base, last, todo \ {u}) \/ Becomes(p, "backlog", Expired, last, todo \ {u})
        BY <2>1, <2>3 DEF Becomes
    <2> QED BY <2>4 DEF u
<1>4. ASSUME Existing(p) \/ Route(p) PROVE Becomes(p, "examine", base, Current(p), todo \ {Current(p)})
    <2> DEFINE u == Current(p)
               y == todo \ {u}
    <2>1. sync' = [sync EXCEPT ![p] = [sync[p] EXCEPT !.pc = "examine", !.last = u, !.todo = y]]
        BY <1>4 DEF Existing, Route, Advance
    <2> HIDE DEF u, y, pc, base, last, todo
    <2>2. Moved(sync[p], "examine", u, y) = [pc |-> "examine", base |-> base, last |-> u, todo |-> y]
        BY <1>1, Changed
    <2>3. Becomes(p, "examine", base, u, y) BY <2>1, <2>2 DEF Becomes, Moved
    <2> QED BY <2>3 DEF u, y
<1>5. Close(p) \/ Disconnect(p) \/ Crash(p) => Becomes(p, "idle", 0, 0, {})
    BY DEF Close, Disconnect, Crash, NoSync, Becomes
<1>6. Fail(p) => Becomes(p, "close", Expired, last, {}) BY DEF Fail, FailAt, Becomes
<1> QED BY <1>2, <1>3, <1>4, <1>5, <1>6

\* A search begins at the cursor, or at what the session holds of it.
From(p) == IF sync[p].base = Expired THEN cursor ELSE sync[p].base

LEMMA SearchMoves ==
    ASSUME NEW p \in Syncers, Search(p)
    PROVE  Becomes(p, "examine", From(p), From(p), Oldest({u \in 1..arrived \ read : u > From(p) + 0}))
BY DEF Search, SearchAfter, Becomes, From

\* The other steps of a synchronization.
LEMMA OtherSteps ==
    ASSUME IInv, NEW p \in Syncers,
           \/ Start(p) \/ Reconcile(p) \/ Search(p) \/ Existing(p) \/ Route(p) \/ Close(p)
           \/ Disconnect(p) \/ Fail(p) \/ Crash(p)
    PROVE  IInv'
<1>1. UNCHANGED <<receipt, ingested>>
    BY DEF Start, StartWith, store, Reconcile, Search, SearchAfter, Existing, Route, Close, Disconnect, Fail, FailAt, Crash
<1>2. \E pc \in {"idle", "backlog", "examine", "close"} : \E base, last, todo : Becomes(p, pc, base, last, todo)
    BY Moves, SearchMoves DEF IInv
<1> QED BY <1>1, <1>2, QuietStep DEF Becomes

\* What leaves the synchronizations and what they stored alone.
LEMMA AroundStep == ASSUME IInv, UNCHANGED <<sync, receipt, ingested>> PROVE IInv'
<1>1. \A p \in Syncers : Current(p)' = Current(p) BY DEF Current
<1> QED BY <1>1 DEF IInv, Shape, Exclusive, Storing

LEMMA NextIInv == IInv /\ [Next]_vars => IInv'
<1> SUFFICES ASSUME IInv, [Next]_vars PROVE IInv' OBVIOUS
<1>1. CASE Arrive BY <1>1, AroundStep DEF Arrive, store
<1>2. CASE \E u \in Uids : MarkRead(u) \/ EndpointChanges(u)
    BY <1>2, AroundStep DEF MarkRead, EndpointChanges, store
<1>3. ASSUME NEW p \in Syncers, Step(p) \/ Disconnect(p) \/ Fail(p) \/ Crash(p) PROVE IInv'
    BY <1>3, ReceiveStep, IngestStep, FinishReceiptStep, OtherSteps DEF Step
<1>4. CASE UNCHANGED vars BY <1>4, AroundStep DEF vars, store
<1> QED BY <1>1, <1>2, <1>3, <1>4 DEF Next

\* A message is stored once, whoever synchronizes it and wherever it stops.
THEOREM StoredOnce == Spec => []IngestedOnce
<1>1. IInv => IngestedOnce BY DEF IInv, Exclusive, IngestedOnce
<1> QED BY <1>1, InitIInv, NextIInv, PTL DEF Spec

-----------------------------------------------------------------------------
(***************************************************************************)
(* The cursor.  Every synchronization writes the cursor it has worked out  *)
(* by itself, so the invariant says of each, at any time, that what it has *)
(* gone past has been examined; of a batch, that what it leaves out below  *)
(* a message of it has been, too.                                          *)
(***************************************************************************)

Examined(u) == u \in read \/ receipt[u] # "none"

Past(n) == n \in 0..arrived /\ \A u \in 1..n : Examined(u)

InBatch == {"examine", "received", "ingested", "route"}

Sound(r) ==
    /\ r.pc = "backlog" => r.base = Expired \/ Past(r.base)
    /\ r.pc \in InBatch \union {"close"} => Past(r.last)
    /\ r.pc \in InBatch =>
           /\ r.todo \subseteq 1..arrived
           /\ \A w \in r.todo : \A u \in 1..w : r.last < u /\ u \notin r.todo => Examined(u)
    /\ r.pc \in {"received", "ingested", "route"} => r.todo # {} /\ receipt[Min(r.todo)] # "none"
    /\ r.pc = "ingested" => ingested[Min(r.todo)] > 0

CInv ==
    /\ TypeOK
    /\ \A u \in Uids : receipt[u] = "protected" => ingested[u] > 0
    /\ Past(cursor)
    /\ \A p \in Syncers : Sound(sync[p])

\* A set of UIDs that is not empty has a least element.
LEMMA NatMin ==
    ASSUME NEW S \in SUBSET Nat, S # {}
    PROVE  Min(S) \in S /\ \A s \in S : Min(S) <= s
<1> DEFINE R == OpToRel(<, Nat)
<1>1. PICK x \in S : \A y \in S : <<y, x>> \notin R BY NatLessThanWellFounded, WFMin
<1>2. ASSUME NEW y \in S PROVE x <= y
    <2>1. x \in Nat /\ y \in Nat OBVIOUS
    <2>2. y < x => <<y, x>> \in R BY <2>1 DEF OpToRel
    <2>3. ~(y < x) BY <1>1, <2>2
    <2> HIDE DEF R
    <2> QED BY <2>1, <2>3
<1> QED BY <1>2 DEF Min

\* The oldest of a set are closed downwards in it.
LEMMA OldestBelow ==
    ASSUME NEW n \in Nat, NEW S \in SUBSET (1..n), NEW w \in Oldest(S), NEW u \in S, u < w
    PROVE  u \in Oldest(S)
<1> DEFINE below(x) == {v \in S : v < x}
<1>1. Cardinality(below(w)) < BatchSize BY DEF Oldest
<1>2. IsFiniteSet(1..n) BY FS_Interval
<1>3. IsFiniteSet(below(w)) BY <1>2, FS_Subset
<1>4. below(u) \subseteq below(w)
    <2>1. w \in Nat /\ u \in Nat BY DEF Oldest
    <2>2. ASSUME NEW v \in S, v < u PROVE v < w
        <3>1. v \in Nat OBVIOUS
        <3> QED BY <2>1, <2>2, <3>1
    <2> QED BY <2>2
<1>5. /\ Cardinality(below(u)) <= Cardinality(below(w))
      /\ Cardinality(below(u)) \in Nat /\ Cardinality(below(w)) \in Nat
    BY <1>3, <1>4, FS_Subset, FS_CardinalityType
<1>6. Cardinality(below(u)) < BatchSize BY <1>1, <1>5, BatchSizeAssumption
<1> QED BY <1>6 DEF Oldest

\* What was examined stays so.
LEMMA PastStays ==
    ASSUME CInv, arrived' \in Nat, arrived <= arrived', read \subseteq read',
           \A u \in Uids : receipt[u] # "none" => receipt'[u] # "none"
    PROVE  \A n : Past(n) => Past(n)'
<1>1. \A u \in 1..arrived : Examined(u) => Examined(u)' BY BoundsAssumption DEF Examined, CInv, TypeOK, Uids
<1> QED BY <1>1 DEF Past, CInv, TypeOK

\* A synchronization that is not at a step stays as sound as it was.
LEMMA SoundStays ==
    ASSUME CInv, arrived' \in 0..MaxUid, arrived <= arrived', read \subseteq read',
           \A u \in Uids : receipt[u] # "none" => receipt'[u] # "none",
           \A u \in Uids : ingested[u] > 0 => ingested'[u] > 0,
           NEW q \in Syncers, sync'[q] = sync[q]
    PROVE  Sound(sync[q])'
<1> DEFINE r == sync[q]
<1>0. r \in Sync /\ Sound(r) BY DEF CInv, TypeOK
<1>1. ASSUME NEW n, Past(n) PROVE n \in 0..arrived' /\ \A u \in 1..n : u \in read' \/ receipt'[u] # "none"
    BY <1>1, PastStays DEF Past, Examined
<1>2. r.todo # {} => Min(r.todo) \in Uids BY <1>0, NatMin DEF Sync, Uids
<1>3. \A u \in Uids : Examined(u) => Examined(u)' BY DEF Examined
<1>4. r.pc \in InBatch => r.todo \subseteq 1..arrived'
    BY <1>0 DEF Sound, CInv, TypeOK
<1>5. r.pc \in InBatch =>
          \A w \in r.todo : \A u \in 1..w : r.last < u /\ u \notin r.todo => u \in read' \/ receipt'[u] # "none"
    <2>1. \A w \in r.todo : \A u \in 1..w : u \in Uids BY <1>0, BoundsAssumption DEF Sync, Uids
    <2> QED BY <1>0, <1>3, <2>1 DEF Sound, Examined
<1>6. r.pc \in {"received", "ingested", "route"} => r.todo # {} /\ receipt'[Min(r.todo)] # "none"
    BY <1>0, <1>2 DEF Sound
<1>7. r.pc = "ingested" => ingested'[Min(r.todo)] > 0
    BY <1>0, <1>2 DEF Sound
<1>8. /\ r.pc = "backlog" => r.base = Expired \/ Past(r.base)
      /\ r.pc \in InBatch \union {"close"} => Past(r.last)
    BY <1>0 DEF Sound
<1> QED BY <1>1, <1>4, <1>5, <1>6, <1>7, <1>8 DEF Sound, Past, Examined

LEMMA InitCInv == Init => CInv
<1> SUFFICES ASSUME Init PROVE CInv OBVIOUS
<1>1. NoSync \in Sync BY BoundsAssumption DEF NoSync, Sync, Expired
<1>2. \A p \in Syncers : sync[p] = NoSync BY DEF Init
<1>3. TypeOK BY <1>1, BoundsAssumption DEF Init, TypeOK
<1>4. Past(cursor) BY DEF Init, Past
<1>5. \A p \in Syncers : Sound(sync[p]) BY <1>2 DEF NoSync, Sound, InBatch
<1> QED BY <1>3, <1>4, <1>5 DEF CInv, Init

\* What has to hold of what a synchronization goes on with.
Goes(p, pc, base, last, todo) ==
    /\ Becomes(p, pc, base, last, todo)
    /\ [pc |-> pc, base |-> base, last |-> last, todo |-> todo] \in Sync
    /\ pc = "backlog" => base = Expired \/ Past(base)
    /\ pc \in InBatch \union {"close"} => Past(last)
    /\ pc \in InBatch =>
           /\ todo \subseteq 1..arrived
           /\ \A w \in todo : \A u \in 1..w : last < u /\ u \notin todo => Examined(u)
    /\ pc \in {"received", "ingested", "route"} => todo # {} /\ receipt'[Min(todo)] # "none"
    /\ pc = "ingested" => ingested'[Min(todo)] > 0

\* A step of the synchronization p.
LEMMA SyncStep ==
    ASSUME CInv, NEW p \in Syncers, NEW pc, NEW base, NEW last, NEW todo,
           Goes(p, pc, base, last, todo),
           UNCHANGED <<arrived, read, routable>>, failures' \in Nat, crashes' \in Nat,
           routed' \subseteq {u \in Uids : ingested'[u] > 0},
           cursor' = cursor \/ Past(cursor'),
           receipt' \in [Uids -> {"none", "received", "protected"}], ingested' \in [Uids -> Nat],
           \A u \in Uids : /\ receipt[u] # "none" => receipt'[u] # "none"
                           /\ ingested[u] > 0 => ingested'[u] > 0
                           /\ receipt'[u] = "protected" => ingested'[u] > 0
    PROVE  CInv'
<1> DEFINE r == [pc |-> pc, base |-> base, last |-> last, todo |-> todo]
<1>0. r \in Sync BY DEF Goes
<1>1. sync' = [sync EXCEPT ![p] = r] BY DEF Goes, Becomes
<1>2. sync'[p] = r /\ \A q \in Syncers : q # p => sync'[q] = sync[q] BY <1>1 DEF CInv, TypeOK
<1> HIDE DEF r
<1>3. sync' \in [Syncers -> Sync] BY <1>0, <1>1 DEF CInv, TypeOK
<1>4. arrived \in Nat BY BoundsAssumption DEF CInv, TypeOK
<1>5. \A n : Past(n) => n \in 0..arrived /\ \A u \in 1..n : u \in read' \/ receipt'[u] # "none"
    <2>1. ASSUME NEW n, Past(n), NEW u \in 1..n PROVE u \in Uids
        BY <1>4, <2>1, BoundsAssumption DEF Past, Uids, CInv, TypeOK
    <2> QED BY <2>1 DEF Past, Examined
<1>6. Past(cursor') BY DEF CInv
<1>7. Past(cursor)' BY <1>5, <1>6 DEF Past, Examined
<1>8. TypeOK' BY <1>3, <1>6 DEF CInv, TypeOK, Past
<1>9. ASSUME NEW q \in Syncers, q # p PROVE Sound(sync[q])'
    <2>1. arrived' \in 0..MaxUid /\ arrived <= arrived' BY <1>4 DEF CInv, TypeOK
    <2> QED BY <1>2, <1>9, <2>1, SoundStays
<1>10. Sound(sync[p])'
    <2>1. r.pc = pc /\ r.base = base /\ r.last = last /\ r.todo = todo BY DEF r
    <2>2. pc \in InBatch =>
              \A w \in todo : \A u \in 1..w : last < u /\ u \notin todo => u \in read' \/ receipt'[u] # "none"
        <3>1. ASSUME pc \in InBatch, NEW w \in todo, NEW u \in 1..w PROVE u \in Uids
            BY <1>4, <3>1, BoundsAssumption DEF Goes, Uids, CInv, TypeOK
        <3> QED BY <3>1 DEF Goes, Examined
    <2>3. /\ pc = "backlog" => base = Expired \/ Past(base)
          /\ pc \in InBatch \union {"close"} => Past(last)
          /\ pc \in InBatch => todo \subseteq 1..arrived'
          /\ pc \in {"received", "ingested", "route"} => todo # {} /\ receipt'[Min(todo)] # "none"
          /\ pc = "ingested" => ingested'[Min(todo)] > 0
        BY DEF Goes
    <2> QED BY <1>2, <1>5, <2>1, <2>2, <2>3 DEF Sound, Past, Examined
<1> QED BY <1>7, <1>8, <1>9, <1>10 DEF CInv

LEMMA CInvShape == CInv => Shape
<1> SUFFICES ASSUME CInv PROVE Shape OBVIOUS
<1>1. ASSUME NEW p \in Syncers PROVE IsSync(sync[p])
    <2> DEFINE r == sync[p]
    <2>1. r \in Sync BY DEF CInv, TypeOK
    <2> HIDE DEF r
    <2>2. IsSync(r) BY <2>1 DEF Sync, IsSync
    <2> QED BY <2>2 DEF r
<1> QED BY <1>1 DEF Shape, CInv, TypeOK

\* The message at hand.
LEMMA AtHand ==
    ASSUME CInv, NEW p \in Syncers, sync[p].pc \in InBatch, sync[p].todo # {}
    PROVE  /\ Current(p) \in Uids /\ Current(p) \in sync[p].todo
           /\ \A w \in sync[p].todo : Current(p) <= w
<1>1. sync[p].todo \in SUBSET Nat BY DEF CInv, TypeOK, Sync, Uids
<1> QED BY <1>1, NatMin DEF CInv, TypeOK, Sync, Current

\* The synchronization goes past a message that has a receipt.
LEMMA GoesPast ==
    ASSUME CInv, NEW p \in Syncers, Existing(p) \/ Route(p)
    PROVE  Goes(p, "examine", sync[p].base, Current(p), sync[p].todo \ {Current(p)})
<1> DEFINE m == Current(p)
           last == sync[p].last
           todo == sync[p].todo
           rest == todo \ {m}
<1>1. Becomes(p, "examine", sync[p].base, m, rest) BY CInvShape, Moves
<1>2. sync[p].pc \in InBatch /\ todo # {} /\ receipt[m] # "none"
    BY DEF Existing, Route, Examining, CInv, Sound, InBatch, Current
<1>3. m \in Uids /\ m \in todo /\ (\A w \in todo : m <= w) BY <1>2, AtHand
<1>4. /\ sync[p] \in Sync /\ Past(last) /\ todo \subseteq 1..arrived /\ arrived \in 0..MaxUid
      /\ \A w \in todo : \A u \in 1..w : last < u /\ u \notin todo => Examined(u)
    BY <1>2 DEF CInv, TypeOK, Sound
<1> HIDE DEF m, last, todo, rest
<1>5. Past(m)
    <2>1. m \in 0..arrived BY <1>3, <1>4, BoundsAssumption DEF Uids
    <2>2. ASSUME NEW u \in 1..m PROVE Examined(u)
        <3>1. CASE u = m BY <1>2, <3>1 DEF Examined
        <3>2. CASE u <= last BY <1>4, <3>2 DEF Past
        <3>3. CASE u # m /\ ~(u <= last)
            <4>1. u \notin todo BY <1>3, <2>1, <3>3
            <4>2. last < u BY <1>4, <3>3 DEF Past
            <4> QED BY <1>3, <1>4, <4>1, <4>2
        <3> QED BY <3>1, <3>2, <3>3
    <2> QED BY <2>1, <2>2 DEF Past
<1>6. ASSUME NEW w \in rest, NEW u \in 1..w, m < u, u \notin rest PROVE Examined(u)
    <2>1. w \in todo /\ u \notin todo BY <1>3, <1>6, <1>4 DEF rest, Uids
    <2>2. CASE last < u BY <1>4, <2>1, <2>2
    <2>3. CASE ~(last < u) BY <1>4, <2>3 DEF Past
    <2> QED BY <2>2, <2>3
<1>7. [pc |-> "examine", base |-> sync[p].base, last |-> m, todo |-> rest] \in Sync
    BY <1>3, <1>4 DEF Sync, Uids, rest, todo
<1>8. rest \subseteq 1..arrived BY <1>4 DEF rest
<1> QED BY <1>1, <1>5, <1>6, <1>7, <1>8 DEF Goes, InBatch, m, rest, todo

\* Assign gives a customer to receipts that name their content.
LEMMA Assigned ==
    ASSUME CInv, NEW u, Assign(u), UNCHANGED ingested
    PROVE  routed' \subseteq {v \in Uids : ingested'[v] > 0}
BY DEF Assign, CInv, TypeOK

\* Steps that store nothing: of a synchronization that is not at a message.
LEMMA IdleSteps ==
    ASSUME CInv, NEW p \in Syncers,
           Start(p) \/ Reconcile(p) \/ Search(p) \/ Close(p) \/ Disconnect(p) \/ Crash(p) \/ Fail(p)
    PROVE  CInv'
<1> DEFINE r == sync[p]
<1>1. Shape /\ r \in Sync /\ Sound(r) BY CInvShape DEF CInv, TypeOK
<1>2. UNCHANGED <<receipt, ingested, arrived, read, routable>>
    BY DEF Start, StartWith, store, mailbox, bounds, Reconcile, Search, SearchAfter, Close, Disconnect, Crash, Fail, FailAt
<1>3. failures' \in Nat /\ crashes' \in Nat
    BY DEF Start, StartWith, store, mailbox, bounds, Reconcile, Search, SearchAfter, Close, Disconnect, Crash, Fail, FailAt, CInv, TypeOK
<1>4. routed' = routed \/ \E u : Assign(u)
    BY DEF Start, StartWith, store, mailbox, bounds, Reconcile, Search, SearchAfter, Close, Disconnect, Crash, Fail, FailAt
<1>5. routed' \subseteq {u \in Uids : ingested'[u] > 0} BY <1>2, <1>4, Assigned DEF CInv, TypeOK
<1>6. cursor' = cursor \/ Past(cursor')
    <2>1. CASE Close(p)
        BY <1>1, <2>1 DEF Close, Closing, Sound, InBatch
    <2>2. CASE ~Close(p)
        BY <2>2 DEF Start, StartWith, store, mailbox, bounds, Reconcile, Search, SearchAfter, Disconnect, Crash, Fail, FailAt
    <2> QED BY <2>1, <2>2
<1>7. /\ receipt' \in [Uids -> {"none", "received", "protected"}] /\ ingested' \in [Uids -> Nat]
      /\ \A u \in Uids : /\ receipt[u] # "none" => receipt'[u] # "none"
                         /\ ingested[u] > 0 => ingested'[u] > 0
                         /\ receipt'[u] = "protected" => ingested'[u] > 0
    BY <1>2 DEF CInv, TypeOK
<1>8. /\ MaxUid \in Nat /\ arrived \in 0..MaxUid /\ cursor \in 0..arrived /\ Past(cursor)
    BY BoundsAssumption DEF CInv, TypeOK
<1>9. ASSUME NEW pc, NEW base, NEW last, NEW todo, Goes(p, pc, base, last, todo) PROVE CInv'
    BY <1>2, <1>3, <1>5, <1>6, <1>7, <1>9, SyncStep
<1>10. CASE Start(p)
    <2>1. Newest(Unassigned) \subseteq Uids BY DEF Newest, Unassigned
    <2>2. [pc |-> "backlog", base |-> cursor, last |-> 0, todo |-> Newest(Unassigned)] \in Sync
        BY <1>8, <2>1 DEF Sync, Expired
    <2>3. Goes(p, "backlog", cursor, 0, Newest(Unassigned))
        BY <1>1, <1>8, <1>10, <2>2, Moves DEF Goes, InBatch
    <2> QED BY <1>9, <2>3
<1>11. CASE Reconcile(p)
    <2> DEFINE todo == r.todo \ {Max(r.todo)}
    <2>1. r.pc = "backlog" BY <1>11 DEF Reconcile
    <2>2. r.base = Expired \/ Past(r.base) BY <1>1, <2>1 DEF Sound
    <2>3. [pc |-> "backlog", base |-> r.base, last |-> r.last, todo |-> todo] \in Sync
        BY <1>1 DEF Sync
    <2>4. [pc |-> "backlog", base |-> Expired, last |-> r.last, todo |-> todo] \in Sync
        BY <1>1, <1>8 DEF Sync, Expired
    <2>5. Goes(p, "backlog", r.base, r.last, todo) \/ Goes(p, "backlog", Expired, r.last, todo)
        BY <1>1, <1>11, <2>2, <2>3, <2>4, Moves DEF Goes, InBatch
    <2> QED BY <1>9, <2>5
<1>12. CASE Search(p)
    <2> DEFINE f == From(p)
               S == {u \in 1..arrived \ read : u > f + 0}
               todo == Oldest(S)
    <2>1. r.pc = "backlog" BY <1>12 DEF Search, SearchAfter
    <2>2. Past(f) /\ f \in 0..arrived BY <1>1, <1>8, <2>1 DEF Sound, From, Past
    <2>3. Becomes(p, "examine", f, f, todo) BY <1>12, SearchMoves
    <2>4. S \in SUBSET (1..arrived) /\ todo \subseteq S BY DEF Oldest
    <2> HIDE DEF f
    <2>5. ASSUME NEW w \in todo, NEW u \in 1..w, f < u, u \notin todo PROVE Examined(u)
        <3>1. w \in 1..arrived /\ u \in 1..arrived BY <1>8, <2>4
        <3>2. CASE u = w BY <2>5, <3>2
        <3>3. CASE u < w
            <4>1. u \notin S BY <1>8, <2>4, <2>5, <3>3, OldestBelow
            <4>2. u > f + 0 BY <1>8, <2>2, <2>5, <3>1
            <4> QED BY <3>1, <4>1, <4>2 DEF Examined
        <3> QED BY <3>1, <3>2, <3>3
    <2>6. [pc |-> "examine", base |-> f, last |-> f, todo |-> todo] \in Sync
        BY <1>8, <2>2, <2>4 DEF Sync, Expired, Uids
    <2> HIDE DEF todo
    <2>7. todo \subseteq 1..arrived BY <2>4
    <2>8. Goes(p, "examine", f, f, todo) BY <2>2, <2>3, <2>5, <2>6, <2>7 DEF Goes, InBatch
    <2> QED BY <1>9, <2>8
<1>13. CASE Close(p) \/ Disconnect(p) \/ Crash(p)
    <2>1. [pc |-> "idle", base |-> 0, last |-> 0, todo |-> {}] \in Sync BY <1>8 DEF Sync, Expired
    <2>2. Goes(p, "idle", 0, 0, {}) BY <1>1, <1>13, <2>1, Moves DEF Goes, InBatch
    <2> QED BY <1>9, <2>2
<1>14. CASE Fail(p)
    <2>1. Past(r.last) BY <1>1, <1>14 DEF Fail, FailAt, Examining, Sound, InBatch
    <2>2. [pc |-> "close", base |-> Expired, last |-> r.last, todo |-> {}] \in Sync BY <1>1, <1>8 DEF Sync, Expired
    <2>3. Goes(p, "close", Expired, r.last, {}) BY <1>1, <1>14, <2>1, <2>2, Moves DEF Goes, InBatch
    <2> QED BY <1>9, <2>3
<1> QED BY <1>10, <1>11, <1>12, <1>13, <1>14

\* A message that has a receipt, or gets one, is left behind.
LEMMA PastSteps == ASSUME CInv, NEW p \in Syncers, Existing(p) \/ Route(p) PROVE CInv'
<1>1. Goes(p, "examine", sync[p].base, Current(p), sync[p].todo \ {Current(p)}) BY GoesPast
<1>2. UNCHANGED <<receipt, ingested, arrived, read, routable, cursor, failures, crashes>> /\ Assign(Current(p))
    BY DEF Existing, Route, mailbox, bounds
<1>3. routed' \subseteq {u \in Uids : ingested'[u] > 0} BY <1>2, Assigned
<1>4. CInv /\ failures' \in Nat /\ crashes' \in Nat
    BY <1>2 DEF CInv, TypeOK
<1>5. /\ receipt' \in [Uids -> {"none", "received", "protected"}] /\ ingested' \in [Uids -> Nat]
      /\ \A u \in Uids : /\ receipt[u] # "none" => receipt'[u] # "none"
                         /\ ingested[u] > 0 => ingested'[u] > 0
                         /\ receipt'[u] = "protected" => ingested'[u] > 0
    BY <1>2 DEF CInv, TypeOK
<1> QED BY <1>1, <1>2, <1>3, <1>4, <1>5, SyncStep

\* The steps of one message: its receipt, its content, its content named.
LEMMA MessageSteps ==
    ASSUME CInv, NEW p \in Syncers, Receive(p) \/ Ingest(p) \/ FinishReceipt(p)
    PROVE  CInv'
<1> DEFINE m == Current(p)
           r == sync[p]
           pc == IF Receive(p) THEN "received" ELSE IF Ingest(p) THEN "ingested" ELSE "route"
<1>1. r.pc \in InBatch /\ r.todo # {}
    BY DEF Receive, ReceiveWhen, Ingest, FinishReceipt, Examining, CInv, Sound, InBatch
<1>2. m \in Uids /\ m = Min(r.todo) BY <1>1, AtHand DEF Current
<1>3. r \in Sync /\ Sound(r) BY DEF CInv, TypeOK
<1>4. UNCHANGED <<arrived, read, routable, cursor, routed, failures, crashes>>
    BY DEF Receive, ReceiveWhen, Ingest, FinishReceipt, mailbox, bounds
<1>5. sync' = [sync EXCEPT ![p] = [r EXCEPT !.pc = pc]]
    <2>1. Receive(p) => r.pc = "examine" BY DEF Receive, ReceiveWhen, Examining
    <2>2. Ingest(p) => r.pc = "received" /\ sync' = [sync EXCEPT ![p].pc = "ingested"] BY DEF Ingest
    <2>3. Receive(p) => sync' = [sync EXCEPT ![p].pc = "received"] BY DEF Receive, ReceiveWhen
    <2>4. FinishReceipt(p) => r.pc = "ingested" /\ sync' = [sync EXCEPT ![p].pc = "route"] BY DEF FinishReceipt
    <2>5. sync \in [Syncers -> Sync] BY DEF CInv, TypeOK
    <2> HIDE DEF r
    <2> QED BY <2>1, <2>2, <2>3, <2>4, <2>5 DEF r
<1>6. [r EXCEPT !.pc = pc] = [pc |-> pc, base |-> r.base, last |-> r.last, todo |-> r.todo]
    <2> DEFINE x == r
               y == pc
    <2>1. x \in Sync BY <1>3
    <2> HIDE DEF x, y
    <2>2. [x EXCEPT !.pc = y] = [pc |-> y, base |-> x.base, last |-> x.last, todo |-> x.todo]
        BY <2>1 DEF Sync
    <2> QED BY <2>2 DEF x, y
<1>7. pc \in {"received", "ingested", "route"} OBVIOUS
<1>8. /\ \/ receipt' = receipt
         \/ receipt' = [receipt EXCEPT ![m] = "received"]
         \/ receipt' = [receipt EXCEPT ![m] = "protected"]
      /\ ingested' = ingested \/ ingested' = [ingested EXCEPT ![m] = @ + 1]
    BY DEF Receive, ReceiveWhen, Ingest, FinishReceipt
<1>9. ingested \in [Uids -> Nat] /\ receipt \in [Uids -> {"none", "received", "protected"}]
    BY DEF CInv, TypeOK
<1>10. /\ receipt' \in [Uids -> {"none", "received", "protected"}] /\ ingested' \in [Uids -> Nat]
       /\ \A u \in Uids : /\ receipt[u] # "none" => receipt'[u] # "none"
                          /\ ingested[u] > 0 => ingested'[u] > 0
    <2> HIDE DEF m
    <2>1. receipt' \in [Uids -> {"none", "received", "protected"}] BY <1>8, <1>9
    <2>2. ASSUME NEW u \in Uids PROVE ingested'[u] \in Nat /\ (ingested[u] > 0 => ingested'[u] > 0)
        <3>1. ingested[u] \in Nat BY <1>9
        <3>2. ingested'[u] = ingested[u] \/ ingested'[u] = ingested[u] + 1 BY <1>8, <1>9
        <3> QED BY <3>1, <3>2
    <2>3. ingested' = [u \in Uids |-> ingested'[u]] BY <1>8, <1>9
    <2>4. ingested' \in [Uids -> Nat] BY <2>2, <2>3
    <2>5. \A u \in Uids : receipt[u] # "none" => receipt'[u] # "none" BY <1>8, <1>9
    <2> QED BY <2>1, <2>2, <2>4, <2>5
<1>11. \A u \in Uids : receipt'[u] = "protected" => ingested'[u] > 0
    <2>1. CASE FinishReceipt(p)
        <3>1. ingested[m] > 0 BY <1>2, <1>3, <2>1 DEF FinishReceipt, Sound
        <3>2. receipt' = [receipt EXCEPT ![m] = "protected"] /\ ingested' = ingested BY <2>1 DEF FinishReceipt
        <3> HIDE DEF m
        <3> QED BY <1>2, <1>9, <3>1, <3>2 DEF CInv, TypeOK
    <2>2. CASE ~FinishReceipt(p)
        <3>1. receipt' = receipt \/ receipt' = [receipt EXCEPT ![m] = "received"]
            BY <2>2 DEF Receive, ReceiveWhen, Ingest
        <3> HIDE DEF m
        <3>2. \A u \in Uids : receipt'[u] = "protected" => receipt[u] = "protected" BY <1>9, <3>1
        <3> QED BY <1>10, <3>2 DEF CInv
    <2> QED BY <2>1, <2>2
<1>12. receipt'[m] # "none"
    <2>1. CASE Receive(p)
        <3>1. receipt' = [receipt EXCEPT ![m] = "received"] BY <2>1 DEF Receive, ReceiveWhen
        <3> QED BY <1>2, <1>9, <3>1
    <2>2. CASE ~Receive(p)
        <3>1. receipt[m] # "none" BY <1>2, <1>3, <2>2 DEF Ingest, FinishReceipt, Sound
        <3> QED BY <1>2, <1>10, <3>1
    <2> QED BY <2>1, <2>2
<1>13. pc = "ingested" => ingested'[m] > 0
    <2>1. pc = "ingested" => Ingest(p) OBVIOUS
    <2>2. Ingest(p) => ingested' = [ingested EXCEPT ![m] = @ + 1] BY DEF Ingest
    <2> HIDE DEF m, pc
    <2>3. ingested[m] \in Nat BY <1>2, <1>9
    <2>4. Ingest(p) => ingested'[m] = ingested[m] + 1 BY <1>2, <1>9, <2>2
    <2> QED BY <2>1, <2>3, <2>4
<1>14. Becomes(p, pc, r.base, r.last, r.todo) BY <1>5, <1>6 DEF Becomes
<1>15. [pc |-> pc, base |-> r.base, last |-> r.last, todo |-> r.todo] \in Sync
    <2> HIDE DEF r, pc
    <2> QED BY <1>3, <1>7 DEF Sync
<1>16. Past(r.last) /\ r.todo \subseteq 1..arrived
       /\ \A w \in r.todo : \A u \in 1..w : r.last < u /\ u \notin r.todo => Examined(u)
    BY <1>1, <1>3 DEF Sound
<1> HIDE DEF pc, m
<1>17. Goes(p, pc, r.base, r.last, r.todo)
    BY <1>1, <1>2, <1>7, <1>12, <1>13, <1>14, <1>15, <1>16 DEF Goes, InBatch
<1>18. routed' \subseteq {u \in Uids : ingested'[u] > 0}
    BY <1>4, <1>10 DEF CInv, TypeOK
<1>19. failures' \in Nat /\ crashes' \in Nat BY <1>4 DEF CInv, TypeOK
<1> QED BY <1>4, <1>10, <1>11, <1>17, <1>18, <1>19, SyncStep

\* What happens around the synchronizations.
LEMMA AroundCInv ==
    ASSUME CInv, Arrive \/ (\E u \in Uids : MarkRead(u) \/ EndpointChanges(u)) \/ UNCHANGED vars
    PROVE  CInv'
<1>1. UNCHANGED <<cursor, receipt, ingested, routed, sync, failures, crashes>>
    BY DEF Arrive, MarkRead, EndpointChanges, vars, store, bounds
<1>2. arrived \in 0..MaxUid /\ MaxUid \in Nat BY BoundsAssumption DEF CInv, TypeOK
<1>3. arrived' \in 0..MaxUid /\ arrived <= arrived' /\ arrived' \in Nat
    BY <1>2 DEF Arrive, MarkRead, EndpointChanges, vars, mailbox
<1>4. read \subseteq read' /\ read' \subseteq 1..arrived'
    <2>1. read \subseteq 1..arrived' BY <1>2, <1>3 DEF CInv, TypeOK
    <2> QED BY <2>1 DEF Arrive, MarkRead, EndpointChanges, vars, mailbox
<1>5. routable' \subseteq Uids BY DEF Arrive, MarkRead, EndpointChanges, vars, CInv, TypeOK
<1>6. \A q \in Syncers : Sound(sync[q])' BY <1>1, <1>2, <1>3, <1>4, SoundStays
<1>7. cursor' \in 0..arrived' BY <1>1, <1>2, <1>3 DEF CInv, TypeOK
<1>8. TypeOK' BY <1>1, <1>3, <1>4, <1>5, <1>7 DEF CInv, TypeOK
<1>9. Past(cursor)' BY <1>1, <1>3, <1>4, PastStays DEF CInv
<1> QED BY <1>1, <1>6, <1>8, <1>9 DEF CInv

LEMMA NextCInv == CInv /\ [Next]_vars => CInv'
<1> SUFFICES ASSUME CInv, [Next]_vars PROVE CInv' OBVIOUS
<1>1. ASSUME NEW p \in Syncers, Step(p) \/ Disconnect(p) \/ Fail(p) \/ Crash(p) PROVE CInv'
    BY <1>1, IdleSteps, PastSteps, MessageSteps DEF Step
<1> QED BY <1>1, AroundCInv DEF Next

\* Every state has its type.
THEOREM TypeCorrect == Spec => []TypeOK
<1>1. CInv => TypeOK BY DEF CInv
<1> QED BY <1>1, InitCInv, NextCInv, PTL DEF Spec

\* What lies behind the cursor and was not read by a person has a receipt,
\* however many synchronizations write the cursor each for itself.
THEOREM CursorSound == Spec => []CursorExamined
<1>1. CInv => CursorExamined BY DEF CInv, Past, Examined, CursorExamined
<1> QED BY <1>1, InitCInv, NextCInv, PTL DEF Spec

-----------------------------------------------------------------------------
(***************************************************************************)
(* EmailSync implements Mailbox: sessions, batches, failures and crashes   *)
(* are stuttering steps of it.                                             *)
(***************************************************************************)

BoxStep == [Box!Next]_<<arrived, read, receipt, ingested, routed, cursor>>

\* A receipt that is given a customer, or is not, as the rest stays.
LEMMA AssignBox ==
    ASSUME NEW u \in Uids, Assign(u), UNCHANGED <<mailbox, cursor, receipt, ingested>>
    PROVE  BoxStep
<1>1. CASE routed' = routed BY <1>1 DEF BoxStep, mailbox
<1>2. CASE routed' # routed
    <2>1. receipt[u] = "protected" /\ routed' = routed \cup {u} BY <1>2 DEF Assign
    <2>2. Box!Own(u) BY <2>1 DEF Box!Own, mailbox
    <2> QED BY <2>2 DEF BoxStep, Box!Next
<1> QED BY <1>1, <1>2

\* Storing the content: once, and before the receipt is filed.
LEMMA IngestBox ==
    ASSUME IInv, CInv, NEW p \in Syncers, Ingest(p)
    PROVE  BoxStep
<1> DEFINE u == Current(p)
<1>1. sync[p].pc = "received" /\ sync[p].pc \in InBatch BY DEF Ingest, InBatch
<1>2. sync[p].todo # {} BY <1>1 DEF CInv, Sound
<1>3. u \in Uids BY <1>1, <1>2, AtHand
<1>4. Storing(p, u) BY <1>1 DEF Storing
<1>5. receipt[u] # "none" /\ ingested[u] = 0 BY <1>3, <1>4 DEF IInv, Exclusive
<1>6. receipt[u] = "received" BY <1>3, <1>5 DEF CInv, TypeOK
<1>7. ingested' = [ingested EXCEPT ![u] = 1] BY <1>3, <1>5 DEF Ingest
<1>8. Box!Store(u) BY <1>5, <1>6, <1>7 DEF Box!Store, Ingest, mailbox
<1> QED BY <1>3, <1>8 DEF BoxStep, Box!Next

\* The receipt names the content that was stored once before.
LEMMA FileBox ==
    ASSUME IInv, CInv, NEW p \in Syncers, FinishReceipt(p)
    PROVE  BoxStep
<1> DEFINE u == Current(p)
<1>1. sync[p].pc = "ingested" /\ sync[p].pc \in InBatch BY DEF FinishReceipt, InBatch
<1>2. sync[p].todo # {} BY <1>1 DEF CInv, Sound
<1>3. u \in Uids BY <1>1, <1>2, AtHand
<1>4. receipt[u] # "none" /\ ingested[u] > 0 BY <1>1 DEF CInv, Sound, Current
<1>5. ingested[u] = 1 BY <1>3, <1>4 DEF IInv, Exclusive, CInv, TypeOK
<1>6. receipt' = [receipt EXCEPT ![u] = "protected"]
      /\ UNCHANGED <<arrived, read, cursor, ingested, routed>>
    BY DEF FinishReceipt, mailbox
<1>7. CASE receipt[u] = "received"
    <2>1. Box!File(u) BY <1>5, <1>6, <1>7 DEF Box!File
    <2> QED BY <1>3, <2>1 DEF BoxStep, Box!Next
<1>8. CASE receipt[u] = "protected"
    <2>1. receipt' = receipt BY <1>3, <1>6, <1>8 DEF CInv, TypeOK
    <2> QED BY <1>6, <2>1 DEF BoxStep
<1> QED BY <1>3, <1>4, <1>7, <1>8 DEF CInv, TypeOK

\* The first to insert the receipt meets the message.
LEMMA MeetBox ==
    ASSUME CInv, NEW p \in Syncers, Receive(p)
    PROVE  BoxStep
<1> DEFINE u == Current(p)
<1>1. sync[p].pc \in InBatch /\ sync[p].todo # {} BY DEF Receive, ReceiveWhen, Examining, InBatch
<1>2. u \in Uids /\ u \in sync[p].todo BY <1>1, AtHand
<1>3. u \in 1..arrived BY <1>1, <1>2 DEF CInv, Sound
<1>4. Box!Meet(u) BY <1>3 DEF Box!Meet, Receive, ReceiveWhen, mailbox
<1> QED BY <1>2, <1>4 DEF BoxStep, Box!Next

\* The cursor a session writes, forwards or back, passes only what was
\* examined.
LEMMA PassBox ==
    ASSUME CInv, NEW p \in Syncers, Close(p)
    PROVE  BoxStep
<1> DEFINE n == sync[p].last
<1>1. UNCHANGED <<arrived, read, receipt, ingested, routed>> BY DEF Close, mailbox, store
<1>2. CASE cursor' = cursor BY <1>1, <1>2 DEF BoxStep
<1>3. CASE cursor' = n
    <2>1. Past(n) BY DEF Close, Closing, CInv, Sound, InBatch
    <2>2. n \in 0..arrived /\ Box!Pass(n) BY <1>1, <1>3, <2>1 DEF Box!Pass, Past, Examined
    <2> QED BY <2>2 DEF BoxStep, Box!Next
<1> QED BY <1>2, <1>3 DEF Close

\* A synchronization at any of its steps.
LEMMA SyncerBox ==
    ASSUME IInv, CInv, NEW p \in Syncers,
           Step(p) \/ Disconnect(p) \/ Fail(p) \/ Crash(p)
    PROVE  BoxStep
<1>1. CASE Start(p) \/ Search(p) \/ Disconnect(p) \/ Crash(p)
    BY <1>1 DEF Start, StartWith, Search, SearchAfter, Disconnect, Crash, mailbox, store, BoxStep
<1>2. CASE Reconcile(p)
    <2> DEFINE u == Max(sync[p].todo)
    <2>1. UNCHANGED <<mailbox, cursor, receipt, ingested>> BY <1>2 DEF Reconcile
    <2>2. CASE UNCHANGED routed BY <2>1, <2>2 DEF BoxStep, mailbox
    <2>3. CASE Assign(u)
        <3>1. CASE u \in Uids BY <2>1, <2>3, <3>1, AssignBox
        <3>2. CASE u \notin Uids
            <4>1. routed' = routed \/ (u \in routable /\ routable \subseteq Uids)
                BY <2>3 DEF Assign, CInv, TypeOK
            <4> QED BY <2>1, <2>2, <3>2, <4>1
        <3> QED BY <3>1, <3>2
    <2> QED BY <1>2, <2>2, <2>3 DEF Reconcile
<1>3. CASE Existing(p) \/ Route(p)
    <2>1. sync[p].pc \in InBatch /\ sync[p].todo # {}
        BY <1>3 DEF Existing, Route, Examining, CInv, Sound, InBatch
    <2>2. Current(p) \in Uids BY <2>1, AtHand
    <2> QED BY <1>3, <2>2, AssignBox DEF Existing, Route
<1>4. CASE Fail(p)
    <2>1. UNCHANGED <<mailbox, cursor, receipt, ingested>> BY <1>4 DEF Fail, FailAt
    <2>2. CASE UNCHANGED routed BY <2>1, <2>2 DEF BoxStep, mailbox
    <2>3. CASE Assign(Current(p))
        <3>1. sync[p].pc \in InBatch /\ sync[p].todo # {}
            BY <1>4 DEF Fail, FailAt, Examining, CInv, Sound, InBatch
        <3>2. Current(p) \in Uids BY <3>1, AtHand
        <3> QED BY <2>1, <2>3, <3>2, AssignBox
    <2> QED BY <1>4, <2>2, <2>3 DEF Fail, FailAt
<1> QED BY <1>1, <1>2, <1>3, <1>4, MeetBox, IngestBox, FileBox, PassBox DEF Step

LEMMA MailboxStep == IInv /\ CInv /\ [Next]_vars => BoxStep
<1> SUFFICES ASSUME IInv, CInv, [Next]_vars PROVE BoxStep OBVIOUS
<1>1. CASE Arrive
    <2>1. Box!Arrive BY <1>1 DEF Arrive, Box!Arrive, store
    <2> QED BY <2>1 DEF BoxStep, Box!Next
<1>2. ASSUME NEW u \in Uids, MarkRead(u) PROVE BoxStep
    <2>1. Box!Open(u) BY <1>2 DEF MarkRead, Box!Open, store
    <2> QED BY <2>1 DEF BoxStep, Box!Next
<1>3. ASSUME NEW u \in Uids, EndpointChanges(u) PROVE BoxStep
    BY <1>3 DEF EndpointChanges, mailbox, store, BoxStep
<1>4. CASE UNCHANGED vars BY <1>4 DEF vars, mailbox, store, BoxStep
<1> QED BY <1>1, <1>2, <1>3, <1>4, SyncerBox DEF Next

\* Whatever sessions meet, fail or die, a message is met, stored once and filed
\* in this order, gets a customer only then, and the cursor passes only what
\* was met or opened.
THEOREM ImplementsMailbox == Spec => MailboxSpec
<1>1. Init => Box!Init BY DEF Init, Box!Init
<1>2. IInv /\ CInv /\ [Next]_vars => [Box!Next]_(Box!vars)
    BY MailboxStep DEF BoxStep, Box!vars
<1> QED
    BY InitIInv, NextIInv, InitCInv, NextCInv, <1>1, <1>2, PTL DEF Spec, MailboxSpec, Box!Spec
=============================================================================
