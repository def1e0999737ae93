--------------------------- MODULE Answers_proofs ---------------------------
(***************************************************************************)
(* Theorems of Answers, for any records, questions, roles, vault and       *)
(* limits: the records a question is given first, then the answers, then   *)
(* what is restored of them.                                               *)
(***************************************************************************)
EXTENDS Answers, FiniteSetTheorems, TLAPS

-----------------------------------------------------------------------------
(* Lists of records. *)

Rank(S, n) == Cardinality({m \in S : m <= n})

\* In a finite set of naturals every place up to its size is taken once.
LEMMA Ranks ==
    ASSUME NEW S \in SUBSET Nat, IsFiniteSet(S)
    PROVE  /\ Cardinality(S) \in Nat
           /\ \A n \in S : Rank(S, n) \in 1 .. Cardinality(S)
           /\ \A m, n \in S : Rank(S, m) = Rank(S, n) => m = n
           /\ \A k \in 1 .. Cardinality(S) : \E n \in S : Rank(S, n) = k
<1> DEFINE Upto(n) == {m \in S : m <= n}
<1>1. Cardinality(S) \in Nat
  BY FS_CardinalityType
<1>2. \A n \in S : IsFiniteSet(Upto(n)) /\ Cardinality(Upto(n)) <= Cardinality(S) /\ Cardinality(Upto(n)) \in Nat
  <2> SUFFICES ASSUME NEW n \in S
               PROVE  IsFiniteSet(Upto(n)) /\ Cardinality(Upto(n)) <= Cardinality(S) /\ Cardinality(Upto(n)) \in Nat
    OBVIOUS
  <2>1. Upto(n) \in SUBSET S
    OBVIOUS
  <2>2. IsFiniteSet(Upto(n)) /\ Cardinality(Upto(n)) <= Cardinality(S)
    BY <2>1, FS_Subset
  <2> QED BY <2>2, FS_CardinalityType
<1>3. \A m, n \in S : m < n => Cardinality(Upto(m)) < Cardinality(Upto(n))
  <2> SUFFICES ASSUME NEW m \in S, NEW n \in S, m < n PROVE Cardinality(Upto(m)) < Cardinality(Upto(n))
    OBVIOUS
  <2>0. S \subseteq Nat /\ m \in Nat /\ n \in Nat
    OBVIOUS
  <2>1. Upto(m) \in SUBSET Upto(n) /\ n \in Upto(n) /\ n \notin Upto(m)
    <3>1. \A l \in S : l <= m => l <= n
      BY <2>0
    <3>2. n <= n /\ ~(n <= m)
      BY <2>0
    <3> QED BY <3>1, <3>2
  <2>2. Upto(m) # Upto(n)
    BY <2>1
  <2> QED BY <1>2, <2>1, <2>2, FS_Subset
<1>4. \A n \in S : Cardinality(Upto(n)) # 0
  <2> SUFFICES ASSUME NEW n \in S PROVE Cardinality(Upto(n)) # 0
    OBVIOUS
  <2>1. n \in Upto(n)
    OBVIOUS
  <2> QED BY <1>2, <2>1, FS_EmptySet
<1> HIDE DEF Upto
<1>5. \A n \in S : Cardinality(Upto(n)) \in 1 .. Cardinality(S)
  BY <1>1, <1>2, <1>4
<1>6. \A m, n \in S : Cardinality(Upto(m)) = Cardinality(Upto(n)) => m = n
  <2> SUFFICES ASSUME NEW m \in S, NEW n \in S, Cardinality(Upto(m)) = Cardinality(Upto(n)) PROVE m = n
    OBVIOUS
  <2>1. ~(m < n) /\ ~(n < m)
    BY <1>2, <1>3
  <2> QED BY <2>1
<1> DEFINE T == 1 .. Cardinality(S)
           f == [n \in S |-> Cardinality(Upto(n))]
<1>7. IsFiniteSet(T) /\ Cardinality(T) = Cardinality(S)
  BY <1>1, FS_Interval
<1>8. f \in [S -> T] /\ \A m, n \in S : f[m] = f[n] => m = n
  BY <1>5, <1>6
<1>9. f \in Injection(S, T)
  BY <1>8 DEF Injection, IsInjective
<1> HIDE DEF T
<1>10. f \in Surjection(S, T)
  BY <1>7, <1>9, FS_Injection
<1>11. \A k \in T : \E n \in S : f[n] = k
  BY <1>10 DEF Surjection
<1>12. \A k \in 1 .. Cardinality(S) : \E n \in S : Cardinality(Upto(n)) = k
  BY <1>11 DEF T
<1>13. \A n \in S : Rank(S, n) = Cardinality(Upto(n))
  BY DEF Rank, Upto
<1> QED BY <1>1, <1>5, <1>6, <1>12, <1>13

\* The values of a function of finitely many places make a list of them.
LEMMA InOrder ==
    ASSUME NEW values, DOMAIN values \in SUBSET Nat, IsFiniteSet(DOMAIN values)
    PROVE  InPlaceOrder(values) \in Seq(Range(values))
<1> DEFINE S == DOMAIN values
           Place(k) == CHOOSE n \in S : Rank(S, n) = k
           list == [k \in 1 .. Cardinality(S) |-> values[Place(k)]]
<1>1. Cardinality(S) \in Nat /\ \A k \in 1 .. Cardinality(S) : \E n \in S : Rank(S, n) = k
  BY Ranks
<1>2. \A k \in 1 .. Cardinality(S) : Place(k) \in S
  BY <1>1
<1> HIDE DEF Place
<1>3. \A k \in 1 .. Cardinality(S) : values[Place(k)] \in Range(values)
  BY <1>2 DEF Range
<1>4. list \in Seq(Range(values))
  BY <1>1, <1>3
<1>5. InPlaceOrder(values) = list
  BY DEF InPlaceOrder, Rank, Place
<1> QED BY <1>4, <1>5

\* A part of a list is a list, in its order.
LEMMA PartInOrder ==
    ASSUME NEW S, NEW list \in Seq(S), NEW P \in SUBSET DOMAIN list
    PROVE  InPlaceOrder([n \in P |-> list[n]]) \in Seq({list[n] : n \in P})
<1> DEFINE part == [n \in P |-> list[n]]
<1>1. DOMAIN list = 1 .. Len(list) /\ Len(list) \in Nat
  OBVIOUS
<1>2. IsFiniteSet(DOMAIN list)
  BY <1>1, FS_Interval
<1>3. DOMAIN part = P /\ Range(part) = {list[n] : n \in P}
  BY DEF Range
<1>4. IsFiniteSet(P) /\ P \in SUBSET Nat
  BY <1>1, <1>2, FS_Subset
<1> HIDE DEF part
<1>5. InPlaceOrder(part) \in Seq(Range(part))
  BY <1>3, <1>4, InOrder
<1> QED BY <1>3, <1>5 DEF part

\* A listing has eligible records only.
LEMMA ListingSound ==
    ASSUME NEW filters, NEW records
    PROVE  Listing(filters, records) \in Seq(Eligible(filters, records))
<1> DEFINE P == {m \in DOMAIN Newest : Newest[m] \in Eligible(filters, records)}
<1>1. Newest \in Seq(Range(Newest))
  BY RetrievalAssumption
<1>2. {Newest[n] : n \in P} \subseteq Eligible(filters, records)
  OBVIOUS
<1>3. P \in SUBSET DOMAIN Newest
  OBVIOUS
<1>4. Listing(filters, records) = InPlaceOrder([n \in P |-> Newest[n]])
  BY DEF Listing
<1> HIDE DEF P
<1>5. Listing(filters, records) \in Seq({Newest[n] : n \in P})
  BY <1>1, <1>3, <1>4, PartInOrder
<1> QED BY <1>2, <1>5

\* So has a search, of whatever it found.
LEMMA SearchedSound ==
    ASSUME NEW terms, NEW filters, NEW records, records \subseteq Range(Newest),
           NEW hits \in Searched(terms, filters, records)
    PROVE  hits \in Seq(Eligible(filters, records))
<1>1. PICK fitting, k : /\ fitting \subseteq Eligible(filters, records)
                        /\ \E found \in kSubset(k, fitting) : hits \in SetToSeqs(found)
  <2> DEFINE fit == IF terms = {} THEN Eligible(filters, records) \intersect Embedded
                    ELSE {r \in Eligible(filters, records) : terms \intersect Text[r] # {}}
             size == Min({TopK, Cardinality(fit)})
  <2>1. \E found \in kSubset(size, fit) : hits \in SetToSeqs(found)
    BY DEF Searched
  <2>2. fit \subseteq Eligible(filters, records)
    OBVIOUS
  <2> HIDE DEF fit, size
  <2> QED BY <2>1, <2>2
<1>2. PICK found : found \subseteq Eligible(filters, records) /\ hits \in SetToSeqs(found)
  BY <1>1 DEF kSubset
<1>3. Eligible(filters, records) \subseteq Range(Newest)
  BY DEF Eligible
<1>4. IsFiniteSet(Range(Newest))
  <2>1. Newest \in Seq(Range(Newest))
    BY RetrievalAssumption
  <2>2. DOMAIN Newest = 1 .. Len(Newest) /\ Len(Newest) \in Nat
    BY <2>1
  <2>3. IsFiniteSet(DOMAIN Newest)
    BY <2>2, FS_Interval
  <2>4. Newest \in Surjection(DOMAIN Newest, Range(Newest))
    BY <2>1, <2>2 DEF Surjection, Range
  <2> QED BY <2>3, <2>4, FS_Surjection
<1>5. Cardinality(found) \in Nat
  BY <1>2, <1>3, <1>4, FS_Subset, FS_CardinalityType
<1>6. hits \in [1 .. Cardinality(found) -> found]
  BY <1>2 DEF SetToSeqs
<1>7. hits \in Seq(found)
  BY <1>5, <1>6
<1> QED BY <1>2, <1>7

-----------------------------------------------------------------------------
(* The invariant: what is known of the turns and, phase by phase, of the   *)
(* query.                                                                  *)

\* Records of the question's systems, of the customer's verified links when
\* one is selected and, of a question that refers to earlier turns, cited
\* there.
InScope(r, records, cited) ==
    /\ records \subseteq Range(Newest)
    /\ r.selected => records \subseteq r.links
    /\ r.q.systems # {} => \A x \in records : System[x] \in r.q.systems
    /\ r.referential /\ ~AboutCustomer(r) => records \subseteq cited

CitedBy(ts) == UNION {Range(ts[n].cites) : n \in DOMAIN ts}

\* The places a turn cites are some places of a list.
IsCitation(cites) ==
    /\ DOMAIN cites \subseteq Nat /\ IsFiniteSet(DOMAIN cites)

TurnsAreLists ==
    /\ turns \in Seq(Range(turns))
    /\ \A n \in DOMAIN turns : IsCitation(turns[n].cites)

\* With a customer selected there is a restriction, to links at most.
AskedInScope ==
    request.phase = "asked" =>
        /\ request.q \in Questions
        /\ DOMAIN request.filters = {"systems", "ids"}
        /\ request.filters.systems = request.q.systems
        /\ request.selected => /\ request.filters.ids # {}
                               /\ request.filters.ids \subseteq request.links \union {NoRecord}

GatheredInScope ==
    request.phase = "gathered" =>
        /\ request.hits \in Seq(Range(request.hits))
        /\ InScope(request, Range(request.hits), CitedBy(turns))

\* A token that was restored is one the role may see, and has its row.
TextAudited(text, role) ==
    /\ DOMAIN text = {"tokens", "todo", "pass", "restored", "rows"}
    /\ \A t \in text.restored : Authorized(role, t) /\ <<t, TRUE>> \in text.rows

RestoringAudited ==
    request.phase \in {"answer", "brief"} =>
        /\ DOMAIN request = {"phase", "role", "text", "brief", "answer"}
        /\ TextAudited(request.text, request.role)

InLog(t, role) ==
    /\ Authorized(role, t)
    /\ [turn |-> Len(turns), token |-> t, authorized |-> TRUE] \in log

AnswerInLog == request.phase = "brief" => \A t \in request.answer : InLog(t, request.role)

ShownAfterwards == request # Idle => shown = Nothing

QueryInv ==
    /\ ready \subseteq Range(Newest)
    /\ TurnsAreLists
    /\ AskedInScope /\ GatheredInScope
    /\ EvidenceInScope /\ AnswerGrounded
    /\ RestoringAudited /\ AnswerInLog
    /\ ShownAfterwards /\ DisclosedIsAudited

-----------------------------------------------------------------------------
(* The evidence of a question. *)

LEMMA MinOfTwo ==
    ASSUME NEW a \in Nat, NEW b \in Nat
    PROVE  Min({a, b}) \in Nat /\ Min({a, b}) <= a /\ Min({a, b}) <= b
<1>1. \E x \in {a, b} : \A y \in {a, b} : x <= y
  <2>1. CASE a <= b
    BY <2>1
  <2>2. CASE b <= a
    BY <2>2
  <2> QED BY <2>1, <2>2
<1>2. Min({a, b}) \in {a, b} /\ \A y \in {a, b} : Min({a, b}) <= y
  BY <1>1 DEF Min
<1> QED BY <1>2

\* The recent turns are some of the last of the turns.
LEMMA RecentTurns ==
    ASSUME TurnsAreLists
    PROVE  /\ Recent \in Seq(Range(turns))
           /\ \A n \in DOMAIN Recent : \E m \in DOMAIN turns : Recent[n] = turns[m] /\ m > Len(turns) - HistoryLimit
<1> DEFINE k == Min({HistoryLimit, Len(turns)})
           part == SubSeq(turns, Len(turns) - k + 1, Len(turns))
<1>1. turns \in Seq(Range(turns)) /\ Len(turns) \in Nat /\ DOMAIN turns = 1 .. Len(turns)
  BY DEF TurnsAreLists
<1>2. k \in Nat /\ k <= Len(turns) /\ k <= HistoryLimit /\ HistoryLimit \in Nat
  BY <1>1, MinOfTwo, AnswersAssumption
<1>3. Recent = Reverse(part)
  BY DEF Recent
<1> HIDE DEF k
<1>4. part = [i \in 1 .. k |-> turns[Len(turns) - k + i]]
  BY <1>1, <1>2
<1>5. DOMAIN part = 1 .. k /\ Len(part) = k /\ \A i \in 1 .. k : part[i] = turns[Len(turns) - k + i]
  BY <1>2, <1>4
<1> HIDE DEF part
<1>6. Recent = [i \in 1 .. k |-> part[(k - i) + 1]]
  BY <1>3, <1>5 DEF Reverse
<1>7. \A i \in 1 .. k : /\ (k - i) + 1 \in 1 .. k
                        /\ Len(turns) - k + ((k - i) + 1) \in DOMAIN turns
                        /\ Len(turns) - k + ((k - i) + 1) > Len(turns) - HistoryLimit
  BY <1>1, <1>2
<1>8. \A i \in 1 .. k : \E m \in DOMAIN turns : Recent[i] = turns[m] /\ m > Len(turns) - HistoryLimit
  BY <1>5, <1>6, <1>7
<1>9. DOMAIN Recent = 1 .. k
  BY <1>6
<1>10. Recent \in Seq(Range(turns))
  BY <1>2, <1>6, <1>8, <1>9 DEF Range
<1> QED BY <1>8, <1>9, <1>10

\* What a question refers to is cited by one of the turns.
LEMMA ReferentsCited ==
    ASSUME TurnsAreLists, NEW ordinal \in Nat
    PROVE  Range(Referents(Recent, ordinal)) \subseteq CitedBy(turns)
<1> DEFINE Has(t) == IF ordinal = 0 THEN DOMAIN t.cites # {} ELSE 1 .. ordinal \subseteq DOMAIN t.cites
           P == {m \in DOMAIN Recent : Has(Recent[m])}
           fitting == InPlaceOrder([n \in P |-> Recent[n]])
<1>1. fitting \in Seq({Recent[n] : n \in P})
  <2>1. P \in SUBSET DOMAIN Recent
    OBVIOUS
  <2> HIDE DEF P
  <2> QED BY <2>1, PartInOrder, RecentTurns
<1>2. Referents(Recent, ordinal) =
        CASE fitting = <<>> -> <<>>
          [] fitting # <<>> /\ ordinal = 0 -> InPlaceOrder(fitting[1].cites)
          [] OTHER -> <<fitting[1].cites[ordinal]>>
  BY DEF Referents
<1> HIDE DEF fitting
<1>3. CASE fitting = <<>>
  <2>1. Referents(Recent, ordinal) = <<>>
    BY <1>2, <1>3
  <2> QED BY <2>1 DEF Range
<1>4. CASE fitting # <<>>
  <2>1. 1 \in DOMAIN fitting
    BY <1>1, <1>4
  <2>2. fitting[1] \in {Recent[n] : n \in P}
    BY <1>1, <2>1
  <2>3. PICK m \in DOMAIN turns : fitting[1] = turns[m] /\ Has(turns[m])
    BY <2>2, RecentTurns
  <2>4. Range(turns[m].cites) \subseteq CitedBy(turns)
    BY DEF CitedBy
  <2>5. CASE ordinal = 0
    <3>1. Referents(Recent, ordinal) = InPlaceOrder(turns[m].cites)
      BY <1>2, <1>4, <2>3, <2>5
    <3>2. DOMAIN turns[m].cites \in SUBSET Nat /\ IsFiniteSet(DOMAIN turns[m].cites)
      BY DEF TurnsAreLists, IsCitation
    <3>3. InPlaceOrder(turns[m].cites) \in Seq(Range(turns[m].cites))
      BY <3>2, InOrder
    <3>4. Range(InPlaceOrder(turns[m].cites)) \subseteq Range(turns[m].cites)
      BY <3>3 DEF Range
    <3> QED BY <2>4, <3>1, <3>4
  <2>6. CASE ordinal # 0
    <3>1. Referents(Recent, ordinal) = <<turns[m].cites[ordinal]>>
      BY <1>2, <1>4, <2>3, <2>6
    <3>2. ordinal \in DOMAIN turns[m].cites
      <4>1. 1 .. ordinal \subseteq DOMAIN turns[m].cites
        BY <2>3, <2>6
      <4>2. ordinal \in 1 .. ordinal
        BY <2>6
      <4> QED BY <4>1, <4>2
    <3>3. turns[m].cites[ordinal] \in Range(turns[m].cites)
      BY <3>2 DEF Range
    <3>4. Range(<<turns[m].cites[ordinal]>>) = {turns[m].cites[ordinal]}
      BY DEF Range
    <3> QED BY <2>4, <3>1, <3>3, <3>4
  <2> QED BY <2>5, <2>6
<1> QED BY <1>3, <1>4

\* A restriction to some ids leaves no record out of the filters or the ids.
LEMMA NarrowerIds ==
    ASSUME NEW filters, DOMAIN filters = {"systems", "ids"}, NEW ids,
           NEW records, records \subseteq Range(Newest)
    PROVE  Eligible(WithContentIds(filters, ids), records) \subseteq Eligible(filters, records) \intersect ids
<1> DEFINE narrow == WithContentIds(filters, ids)
<1>1. narrow.systems = filters.systems
  BY DEF WithContentIds
<1>2. /\ narrow.ids # {}
      /\ \/ narrow.ids = {NoRecord}
         \/ narrow.ids \subseteq ids /\ (filters.ids # {} => narrow.ids \subseteq filters.ids)
  BY DEF WithContentIds
<1> HIDE DEF narrow
<1>3. NoRecord \notin records
  BY RetrievalAssumption
<1>4. Eligible(narrow, records) \subseteq Eligible(filters, records) \intersect ids
  <2> SUFFICES ASSUME NEW x \in Eligible(narrow, records) PROVE x \in Eligible(filters, records) /\ x \in ids
    OBVIOUS
  <2>1. x \in records /\ x \in narrow.ids /\ (filters.systems # {} => System[x] \in filters.systems)
    BY <1>1, <1>2 DEF Eligible
  <2>2. x \in ids /\ (filters.ids # {} => x \in filters.ids)
    BY <1>2, <1>3, <2>1
  <2> QED BY <2>1, <2>2 DEF Eligible
<1> QED BY <1>4 DEF narrow

LEMMA PriorSound ==
    ASSUME TurnsAreLists, ready \subseteq Range(Newest), AskedInScope, request.phase = "asked",
           NEW plan \in Plans(request.q)
    PROVE  /\ PriorHits(request, plan) \in Seq(Eligible(request.filters, ready))
           /\ Range(PriorHits(request, plan)) \subseteq CitedBy(turns)
<1> DEFINE q == request.q
           cited == IF plan.turn # 0 THEN InPlaceOrder(turns[plan.turn].cites)
                    ELSE IF Refers(q, plan) THEN Referents(Recent, q.ordinal) ELSE <<>>
           present == Range(cited) \intersect ready
           prior == PriorHits(request, plan)
<1>1. q \in Questions /\ q.ordinal \in Nat /\ DOMAIN request.filters = {"systems", "ids"}
  BY AnswersAssumption DEF AskedInScope
<1>2. Range(cited) \subseteq CitedBy(turns)
  <2>1. CASE plan.turn # 0
    <3>1. plan.turn \in DOMAIN turns
      <4>1. plan.turn \in Max({1, Len(turns) - HistoryLimit + 1}) .. Len(turns)
        BY <2>1 DEF Plans, NoPlan
      <4>2. Len(turns) \in Nat /\ DOMAIN turns = 1 .. Len(turns)
        BY DEF TurnsAreLists
      <4>3. Max({1, Len(turns) - HistoryLimit + 1}) \in Nat /\ Max({1, Len(turns) - HistoryLimit + 1}) >= 1
        <5>1. PICK a \in Int : a = Len(turns) - HistoryLimit + 1
          BY <4>2, AnswersAssumption
        <5>2. \E x \in {1, a} : \A y \in {1, a} : x >= y
          <6>1. CASE a <= 1
            BY <6>1
          <6>2. CASE a > 1
            BY <6>2
          <6> QED BY <6>1, <6>2
        <5>3. Max({1, a}) \in {1, a} /\ \A y \in {1, a} : Max({1, a}) >= y
          BY <5>2 DEF Max
        <5> QED BY <5>1, <5>3
      <4> QED BY <4>1, <4>2, <4>3
    <3>2. DOMAIN turns[plan.turn].cites \in SUBSET Nat /\ IsFiniteSet(DOMAIN turns[plan.turn].cites)
      BY <3>1 DEF TurnsAreLists, IsCitation
    <3>3. InPlaceOrder(turns[plan.turn].cites) \in Seq(Range(turns[plan.turn].cites))
      BY <3>2, InOrder
    <3>4. Range(InPlaceOrder(turns[plan.turn].cites)) \subseteq Range(turns[plan.turn].cites)
      BY <3>3 DEF Range
    <3> QED BY <2>1, <3>1, <3>4 DEF CitedBy
  <2>2. CASE plan.turn = 0 /\ Refers(q, plan)
    BY <1>1, <2>2, ReferentsCited
  <2>3. CASE plan.turn = 0 /\ ~Refers(q, plan)
    <3>1. cited = <<>>
      BY <2>3
    <3> QED BY <3>1 DEF Range
  <2> QED BY <2>1, <2>2, <2>3
<1>3. prior = IF present = {} THEN <<>> ELSE Listing(WithContentIds(request.filters, present), ready)
  BY DEF PriorHits
<1>4. present \subseteq CitedBy(turns)
  BY <1>2
<1> HIDE DEF prior, present
<1>5. CASE present = {}
  <2>1. prior = <<>>
    BY <1>3, <1>5
  <2> QED BY <2>1 DEF prior, Range
<1>6. CASE present # {}
  <2>1. prior \in Seq(Eligible(WithContentIds(request.filters, present), ready))
    BY <1>3, <1>6, ListingSound
  <2>2. Eligible(WithContentIds(request.filters, present), ready)
          \subseteq Eligible(request.filters, ready) \intersect present
    BY <1>1, NarrowerIds
  <2>3. prior \in Seq(Eligible(request.filters, ready) \intersect present)
    BY <2>1, <2>2
  <2>4. Range(prior) \subseteq present /\ prior \in Seq(Eligible(request.filters, ready))
    BY <2>3 DEF Range
  <2> QED BY <1>4, <2>4 DEF prior
<1> QED BY <1>5, <1>6

LEMMA PrefixOf ==
    ASSUME NEW S, NEW list \in Seq(S), NEW m \in Nat, m <= Len(list)
    PROVE  SubSeq(list, 1, m) \in Seq(S)
<1>1. \A i \in 1 .. m : list[i] \in S
  OBVIOUS
<1>2. SubSeq(list, 1, m) = [i \in 1 .. m |-> list[i]]
  OBVIOUS
<1>3. [i \in 1 .. m |-> list[i]] \in [1 .. m -> S]
  BY <1>1
<1> QED BY <1>2, <1>3

\* Whatever its intent, a question is given eligible records only and, when it
\* refers to earlier turns, records that are cited there.
LEMMA HitsSound ==
    ASSUME TurnsAreLists, ready \subseteq Range(Newest), AskedInScope, request.phase = "asked",
           NEW plan \in Plans(request.q), NEW hits \in HitsOf(request, plan)
    PROVE  /\ hits \in Seq(Eligible(request.filters, ready))
           /\ Referential(request, plan) /\ ~AboutCustomer(request) => Range(hits) \subseteq CitedBy(turns)
<1> DEFINE listing == Listing(request.filters, ready)
           first == SubSeq(listing, 1, Min({ListLimit, Len(listing)}))
           found == Searched(request.q.terms, request.filters, ready)
<1>1. listing \in Seq(Eligible(request.filters, ready))
  BY ListingSound
<1>2. first \in Seq(Eligible(request.filters, ready))
  <2> HIDE DEF listing
  <2>1. Len(listing) \in Nat
    BY <1>1
  <2>2. Min({ListLimit, Len(listing)}) \in Nat /\ Min({ListLimit, Len(listing)}) <= Len(listing)
    BY <2>1, MinOfTwo, RetrievalAssumption
  <2>3. PICK m \in Nat : m = Min({ListLimit, Len(listing)}) /\ m <= Len(listing)
    BY <2>2
  <2> QED BY <1>1, <2>3, PrefixOf
<1>3. \A s \in found : s \in Seq(Eligible(request.filters, ready))
  BY SearchedSound
<1>4. /\ PriorHits(request, plan) \in Seq(Eligible(request.filters, ready))
      /\ Range(PriorHits(request, plan)) \subseteq CitedBy(turns)
  BY PriorSound
<1>5. Range(<<>>) \subseteq CitedBy(turns) /\ <<>> \in Seq(Eligible(request.filters, ready))
  BY DEF Range
<1>6. HitsOf(request, plan) =
        IF Lost(request, plan) THEN {<<>>}
        ELSE IF AboutCustomer(request) THEN {listing}
        ELSE IF IntentOf(request.q, plan) \in {"LIST_SOURCES", "COUNT_SOURCES"} THEN {<<>>}
        ELSE IF Referential(request, plan) THEN {PriorHits(request, plan)}
        ELSE IF IntentOf(request.q, plan) = "LIST_RECORDS" THEN {first}
        ELSE IF /\ IntentOf(request.q, plan) \in {"SEMANTIC", "LOOKUP"} /\ ~request.selected
                /\ ~(IntentOf(request.q, plan) = "LOOKUP" /\ "all contacts" \in request.q.says)
             THEN found
        ELSE {listing}
  BY DEF HitsOf
<1> HIDE DEF listing, first, found
<1>7. hits \in {<<>>, listing, PriorHits(request, plan), first} \union found
  BY <1>6
<1>8. hits \in Seq(Eligible(request.filters, ready))
  BY <1>1, <1>2, <1>3, <1>4, <1>5, <1>7
<1>9. ASSUME Referential(request, plan), ~AboutCustomer(request)
      PROVE  hits \in {<<>>, PriorHits(request, plan)}
  BY <1>6, <1>9
<1> QED BY <1>4, <1>5, <1>8, <1>9

-----------------------------------------------------------------------------
(* The answers. *)

\* What a model, a contact list, a profile or a digest of needs has comes from
\* what the question was given, and a model's answer has a citation.
Grounded(r, answer, earlier) ==
    /\ answer.tokens \subseteq TokensOf(r.hits) \union r.q.terms \union earlier
                                 \union (IF r.selected THEN ProfileTokens ELSE {})
    /\ answer.mode = "model" /\ ~answer.insufficient /\ Len(r.hits) <= BatchSize => answer.cites # {}

\* What was asked and answered in the recent ones of some turns.
TokensBefore(ts) ==
    UNION {ts[n].asked \union ts[n].tokens : n \in {m \in 1 .. Len(ts) : m > Len(ts) - HistoryLimit}}

LEMMA ShownIsGiven ==
    ASSUME TurnsAreLists, NEW r
    PROVE  Shown(r) \subseteq TokensOf(r.hits) \union r.q.terms \union TokensBefore(turns)
                                \union (IF r.selected THEN ProfileTokens ELSE {})
<1>1. HistoryTokens \subseteq TokensBefore(turns)
  <2>1. DOMAIN turns = 1 .. Len(turns)
    BY DEF TurnsAreLists
  <2>2. \A n \in DOMAIN Recent : \E m \in 1 .. Len(turns) : Recent[n] = turns[m] /\ m > Len(turns) - HistoryLimit
    BY <2>1, RecentTurns
  <2> QED BY <2>2 DEF TokensBefore, HistoryTokens
<1> QED BY <1>1 DEF Shown

LEMMA NotEmpty ==
    ASSUME NEW S, NEW list \in Seq(S), list # <<>>
    PROVE  DOMAIN list # {}
<1>1. Len(list) \in Nat /\ DOMAIN list = 1 .. Len(list)
  OBVIOUS
<1>2. Len(list) # 0
  OBVIOUS
<1>3. 1 \in DOMAIN list
  BY <1>1, <1>2
<1> QED BY <1>3

LEMMA ModelGrounded ==
    ASSUME TurnsAreLists, NEW r, r.hits \in Seq(Range(r.hits)), NEW answer \in ModelAnswers(r)
    PROVE  Grounded(r, answer, TokensBefore(turns))
<1>1. CASE r.hits = <<>>
  BY <1>1 DEF ModelAnswers, Grounded
<1>2. CASE r.hits # <<>>
  <2>1. PICK reply, citable : /\ citable \in Citable(r.hits)
                              /\ Accepted(reply, citable, Shown(r))
                              /\ answer = [cites |-> IF reply.insufficient THEN {} ELSE reply.cites,
                                           tokens |-> reply.tokens,
                                           insufficient |-> reply.insufficient, mode |-> "model"]
    BY <1>2 DEF ModelAnswers
  <2>2. answer.tokens = reply.tokens /\ answer.insufficient = reply.insufficient
    BY <2>1
  <2>3. answer.tokens \subseteq Shown(r)
    BY <2>1, <2>2 DEF Accepted
  <2>4. ASSUME ~answer.insufficient, Len(r.hits) <= BatchSize PROVE answer.cites # {}
    <3>1. citable = DOMAIN r.hits
      BY <2>1, <2>4 DEF Citable
    <3>2. DOMAIN r.hits # {}
      BY <1>2, NotEmpty
    <3>3. reply.cites # {}
      BY <2>1, <2>2, <2>4, <3>1, <3>2 DEF Accepted
    <3> QED BY <2>1, <2>2, <2>4, <3>3
  <2> QED BY <2>3, <2>4, ShownIsGiven DEF Grounded
<1> QED BY <1>1, <1>2

LEMMA ContactGrounded ==
    ASSUME NEW r, NEW earlier
    PROVE  Grounded(r, ContactAnswer(r.hits), earlier)
<1> DEFINE tokens == UNION {Text[r.hits[n]] \intersect (Names \union Phones \union Emails) : n \in ContactPlaces(r.hits)}
<1>1. ContactAnswer(r.hits).tokens = tokens /\ ContactAnswer(r.hits).mode = "structured"
  BY DEF ContactAnswer, Structured
<1>2. ContactPlaces(r.hits) \subseteq DOMAIN r.hits
  BY DEF ContactPlaces
<1>3. \A n \in ContactPlaces(r.hits) : Text[r.hits[n]] \subseteq TokensOf(r.hits)
  BY <1>2 DEF TokensOf, Range
<1>4. tokens \subseteq TokensOf(r.hits)
  BY <1>3
<1> QED BY <1>1, <1>4 DEF Grounded

LEMMA ProfileGrounded ==
    ASSUME NEW r, r.selected, NEW earlier
    PROVE  Grounded(r, ProfileAnswer(r), earlier)
<1>1. /\ ProfileAnswer(r).mode = "structured"
      /\ ProfileAnswer(r).tokens = {NameOf} \union (TokensOf(r.hits) \intersect Phones)
                                     \union (IF r.role = Owner THEN {EmailOf} ELSE {})
  BY DEF ProfileAnswer, Structured
<1>2. {NameOf, EmailOf} \subseteq ProfileTokens
  BY AnswersAssumption DEF ProfileTokens
<1> QED BY <1>1, <1>2 DEF Grounded

LEMMA AnswersGrounded ==
    ASSUME TurnsAreLists, NEW r, r.hits \in Seq(Range(r.hits)), NEW answer \in AnswersOf(r)
    PROVE  Grounded(r, answer, TokensBefore(turns))
<1>1. \/ answer \in {Structured({}, {}, TRUE), Structured({}, {}, ready = {}),
                     Structured(DOMAIN r.hits, TokensOf(r.hits), r.hits = <<>>),
                     Structured(DOMAIN r.hits, {}, r.hits = <<>>)}
      \/ r.selected /\ answer = ProfileAnswer(r)
      \/ answer = ContactAnswer(r.hits)
      \/ answer \in ModelAnswers(r)
  BY DEF AnswersOf
<1>2. CASE answer \in {Structured({}, {}, TRUE), Structured({}, {}, ready = {}),
                       Structured(DOMAIN r.hits, TokensOf(r.hits), r.hits = <<>>),
                       Structured(DOMAIN r.hits, {}, r.hits = <<>>)}
  <2>1. answer.mode = "structured" /\ answer.tokens \subseteq TokensOf(r.hits)
    BY <1>2 DEF Structured
  <2> QED BY <2>1 DEF Grounded
<1> QED BY <1>1, <1>2, ModelGrounded, ContactGrounded, ProfileGrounded

LEMMA BriefsCited ==
    ASSUME NEW r, NEW answer, NEW brief \in BriefsOf(r, answer)
    PROVE  brief.cites \subseteq answer.cites
<1>1. CASE brief.cites = {}
  BY <1>1
<1>2. CASE brief.cites # {}
  <2>1. PICK claims \in SUBSET answer.cites : brief.cites = claims
    BY <1>2 DEF BriefsOf, NoBrief
  <2> QED BY <2>1
<1> QED BY <1>1, <1>2

-----------------------------------------------------------------------------
(* The steps of a query. *)

LEMMA ListOfOwn ==
    ASSUME NEW S, NEW list \in Seq(S)
    PROVE  list \in Seq(Range(list))
<1>1. Len(list) \in Nat /\ list = [n \in 1 .. Len(list) |-> list[n]]
  OBVIOUS
<1>2. \A n \in 1 .. Len(list) : list[n] \in Range(list)
  BY DEF Range
<1> QED BY <1>1, <1>2

LEMMA AppendOf ==
    ASSUME NEW S, NEW ts \in Seq(S), NEW t
    PROVE  /\ Len(ts) \in Nat /\ DOMAIN ts = 1 .. Len(ts)
           /\ Len(Append(ts, t)) = Len(ts) + 1 /\ DOMAIN Append(ts, t) = 1 .. Len(ts) + 1
           /\ Append(ts, t) \in Seq(Range(Append(ts, t)))
           /\ \A n \in DOMAIN ts : Append(ts, t)[n] = ts[n]
           /\ Append(ts, t)[Len(ts) + 1] = t
<1>1. ts \in Seq(S \union {t})
  OBVIOUS
<1>2. Append(ts, t) \in Seq(S \union {t})
  BY <1>1
<1>3. PICK list \in Seq(S \union {t}) : list = Append(ts, t)
  BY <1>2
<1>4. list \in Seq(Range(list))
  BY ListOfOwn
<1> QED BY <1>1, <1>3, <1>4

LEMMA QueryInit == Init => QueryInv
<1> SUFFICES ASSUME Init PROVE QueryInv
  OBVIOUS
<1>1. request.phase = "idle" /\ request = Idle /\ shown = Nothing /\ turns = <<>> /\ ready = Range(Newest)
  BY DEF Init, Idle
<1>2. TurnsAreLists
  BY <1>1 DEF TurnsAreLists
<1> QED BY <1>1, <1>2 DEF QueryInv, AskedInScope, GatheredInScope, EvidenceInScope, AnswerGrounded, Answered,
                          RestoringAudited, AnswerInLog, ShownAfterwards, DisclosedIsAudited

\* The turns are as they were.
LEMMA TurnsStay ==
    ASSUME QueryInv, turns' = turns
    PROVE  TurnsAreLists'
BY DEF QueryInv, TurnsAreLists

\* A step that leaves the turns and ends the query, or begins a phase for which
\* the invariant asks nothing of the scope.
LEMMA AfterEvidence ==
    ASSUME request'.phase \notin {"asked", "gathered", "answered"}
    PROVE  AskedInScope' /\ GatheredInScope' /\ EvidenceInScope' /\ AnswerGrounded'
BY DEF AskedInScope, GatheredInScope, EvidenceInScope, AnswerGrounded, Answered

LEMMA NotRestoring ==
    ASSUME request'.phase \notin {"answer", "brief"}
    PROVE  RestoringAudited' /\ AnswerInLog'
BY DEF RestoringAudited, AnswerInLog

\* Nothing is shown while there is a query.
LEMMA NothingShown ==
    ASSUME QueryInv, request # Idle, shown' = shown
    PROVE  ShownAfterwards' /\ DisclosedIsAudited'
BY DEF QueryInv, ShownAfterwards, DisclosedIsAudited

LEMMA AskKeeps ==
    ASSUME QueryInv, NEW q \in Questions, NEW role \in Roles, Ask(q, role)
    PROVE  QueryInv'
<1> DEFINE links == IF linked = {} THEN {NoRecord} ELSE linked
           filters == [systems |-> q.systems, ids |-> {}]
<1>1. /\ request'.phase = "asked" /\ request'.q = q /\ request'.links = linked
      /\ request'.filters = IF request'.selected THEN WithContentIds(filters, links) ELSE filters
      /\ shown' = Nothing /\ ready' = ready /\ turns' = turns
  <2>1. [NoFilter EXCEPT !.systems = q.systems] = filters
    BY DEF NoFilter
  <2> QED BY <2>1 DEF Ask
<1>2. WithContentIds(filters, links) = [systems |-> q.systems, ids |-> links]
  BY DEF WithContentIds
<1>3. AskedInScope'
  <2>1. DOMAIN request'.filters = {"systems", "ids"} /\ request'.filters.systems = q.systems
    BY <1>1, <1>2
  <2>2. request'.selected => request'.filters.ids = links
    BY <1>1, <1>2
  <2> QED BY <1>1, <2>1, <2>2 DEF AskedInScope
<1>4. GatheredInScope' /\ EvidenceInScope' /\ AnswerGrounded'
  BY <1>1 DEF GatheredInScope, EvidenceInScope, AnswerGrounded, Answered
<1>5. ShownAfterwards' /\ DisclosedIsAudited'
  BY <1>1 DEF ShownAfterwards, DisclosedIsAudited
<1>6. (ready \subseteq Range(Newest))'
  BY <1>1 DEF QueryInv
<1> QED BY <1>1, <1>3, <1>4, <1>5, <1>6, TurnsStay, NotRestoring DEF QueryInv

LEMMA GatherKeeps ==
    ASSUME QueryInv, Gather
    PROVE  QueryInv'
<1>1. request.phase = "asked" /\ request # Idle /\ ready' = ready /\ turns' = turns /\ shown' = shown
  BY DEF Gather, Idle
<1>2. PICK plan \in Plans(request.q) : \E hits \in HitsOf(request, plan) :
        /\ request'.phase = "gathered" /\ request'.q = request.q /\ request'.selected = request.selected
        /\ request'.links = request.links /\ request'.referential = Referential(request, plan)
        /\ request'.hits = hits
  BY DEF Gather
<1>3. PICK hits \in HitsOf(request, plan) :
        /\ request'.phase = "gathered" /\ request'.q = request.q /\ request'.selected = request.selected
        /\ request'.links = request.links /\ request'.referential = Referential(request, plan)
        /\ request'.hits = hits
  BY <1>2
<1>4. /\ hits \in Seq(Eligible(request.filters, ready))
      /\ Referential(request, plan) /\ ~AboutCustomer(request) => Range(hits) \subseteq CitedBy(turns)
  BY <1>1, HitsSound DEF QueryInv
<1>5. Range(hits) \subseteq Eligible(request.filters, ready) /\ hits \in Seq(Range(hits))
  BY <1>4, ListOfOwn DEF Range
<1>6. ready \subseteq Range(Newest) /\ NoRecord \notin ready
  BY RetrievalAssumption DEF QueryInv
<1>7. /\ request.filters.systems = request.q.systems
      /\ request.selected => request.filters.ids # {} /\ request.filters.ids \subseteq request.links \union {NoRecord}
  BY <1>1 DEF QueryInv, AskedInScope
<1>8. \A x \in Range(hits) : /\ x \in ready
                             /\ request.q.systems # {} => System[x] \in request.q.systems
                             /\ request.selected => x \in request.links
  BY <1>5, <1>6, <1>7 DEF Eligible
<1>9. AboutCustomer(request)' = AboutCustomer(request)
  BY <1>3 DEF AboutCustomer
<1>10. CitedBy(turns)' = CitedBy(turns)
  BY <1>1
<1>11. GatheredInScope'
  <2>1. InScope(request, Range(request.hits), CitedBy(turns))'
    BY <1>3, <1>4, <1>6, <1>8, <1>9, <1>10 DEF InScope, AboutCustomer
  <2> QED BY <1>3, <1>5, <2>1 DEF GatheredInScope
<1>12. AskedInScope' /\ EvidenceInScope' /\ AnswerGrounded'
  BY <1>3 DEF AskedInScope, EvidenceInScope, AnswerGrounded, Answered
<1>13. (ready \subseteq Range(Newest))'
  BY <1>1, <1>6
<1> QED BY <1>1, <1>3, <1>11, <1>12, <1>13, TurnsStay, NotRestoring, NothingShown DEF QueryInv

LEMMA AnswerKeeps ==
    ASSUME QueryInv, Answer
    PROVE  QueryInv'
<1>1. request.phase = "gathered" /\ request # Idle /\ ready' = ready /\ shown' = shown
  BY DEF Answer, Idle
<1>2. PICK answer \in AnswersOf(request) : \E brief \in BriefsOf(request, answer) :
        /\ answer.cites \subseteq DOMAIN request.hits
        /\ turns' = Append(turns, [cites |-> [n \in answer.cites |-> request.hits[n]],
                                  asked |-> request.q.terms, tokens |-> answer.tokens])
        /\ request' = [phase |-> "answered", q |-> request.q, role |-> request.role, selected |-> request.selected,
                       links |-> request.links, referential |-> request.referential, hits |-> request.hits,
                       answer |-> answer, brief |-> brief]
  BY DEF Answer
<1>3. PICK brief \in BriefsOf(request, answer) :
        request' = [phase |-> "answered", q |-> request.q, role |-> request.role, selected |-> request.selected,
                    links |-> request.links, referential |-> request.referential, hits |-> request.hits,
                    answer |-> answer, brief |-> brief]
  BY <1>2
<1> DEFINE cites == [n \in answer.cites |-> request.hits[n]]
           turn == [cites |-> cites, asked |-> request.q.terms, tokens |-> answer.tokens]
<1>4. answer.cites \subseteq DOMAIN request.hits /\ turns' = Append(turns, turn)
  BY <1>2
<1>5. /\ request'.phase = "answered" /\ request'.q = request.q /\ request'.selected = request.selected
      /\ request'.links = request.links /\ request'.referential = request.referential
      /\ request'.hits = request.hits /\ request'.answer = answer /\ request'.brief = brief
  BY <1>3
<1>6. /\ request.hits \in Seq(Range(request.hits))
      /\ InScope(request, Range(request.hits), CitedBy(turns))
  BY <1>1 DEF QueryInv, GatheredInScope
<1>7. /\ DOMAIN cites = answer.cites /\ IsCitation(cites) /\ Range(cites) \subseteq Range(request.hits)
  <2>1. DOMAIN cites = answer.cites
    OBVIOUS
  <2>2. DOMAIN request.hits = 1 .. Len(request.hits) /\ Len(request.hits) \in Nat
    BY <1>6
  <2>3. IsFiniteSet(DOMAIN request.hits)
    BY <2>2, FS_Interval
  <2>4. answer.cites \subseteq Nat /\ IsFiniteSet(answer.cites)
    BY <1>4, <2>2, <2>3, FS_Subset
  <2>5. Range(cites) \subseteq Range(request.hits)
    BY <1>4 DEF Range
  <2> QED BY <2>1, <2>4, <2>5 DEF IsCitation
<1>8. turns \in Seq(Range(turns)) /\ \A n \in DOMAIN turns : IsCitation(turns[n].cites)
  BY DEF QueryInv, TurnsAreLists
<1>9. turn.cites = cites /\ turn.tokens = answer.tokens
  OBVIOUS
<1> HIDE DEF cites, turn
<1>10. /\ Len(turns) \in Nat /\ DOMAIN turns = 1 .. Len(turns)
       /\ Len(turns') = Len(turns) + 1 /\ DOMAIN turns' = 1 .. Len(turns) + 1
       /\ turns' \in Seq(Range(turns'))
       /\ \A n \in DOMAIN turns : turns'[n] = turns[n]
       /\ turns'[Len(turns) + 1] = turn
  BY <1>4, <1>8, AppendOf
<1>11. TurnsAreLists'
  <2>1. \A n \in DOMAIN turns' : IsCitation(turns'[n].cites)
    <3> SUFFICES ASSUME NEW n \in DOMAIN turns' PROVE IsCitation(turns'[n].cites)
      OBVIOUS
    <3>1. CASE n \in DOMAIN turns
      BY <1>8, <1>10, <3>1
    <3>2. CASE n = Len(turns) + 1
      BY <1>7, <1>9, <1>10, <3>2
    <3> QED BY <1>10, <3>1, <3>2
  <2> QED BY <1>10, <2>1 DEF TurnsAreLists
<1>12. (1 .. Len(turns') - 1) = DOMAIN turns
  BY <1>10
<1>13. /\ UNION {Range(turns'[n].cites) : n \in 1 .. Len(turns') - 1} = CitedBy(turns)
       /\ UNION {turns'[n].asked \union turns'[n].tokens :
                    n \in {m \in 1 .. Len(turns') - 1 : m > (Len(turns') - 1) - HistoryLimit}} = TokensBefore(turns)
  <2>1. UNION {Range(turns'[n].cites) : n \in 1 .. Len(turns') - 1} = CitedBy(turns)
    BY <1>10, <1>12 DEF CitedBy
  <2>2. Len(turns') - 1 = Len(turns) /\ \A n \in 1 .. Len(turns) : turns'[n] = turns[n]
    BY <1>10
  <2>3. UNION {turns'[n].asked \union turns'[n].tokens : n \in {m \in 1 .. Len(turns) : m > Len(turns) - HistoryLimit}}
          = TokensBefore(turns)
    BY <2>2 DEF TokensBefore
  <2> QED BY <2>1, <2>2, <2>3
<1>14. Last(turns') = turn
  BY <1>10 DEF Last
<1>15. EvidenceInScope'
  <2>1. Range(Last(turns').cites) \subseteq Range(request.hits)
    BY <1>7, <1>9, <1>14
  <2>2. AboutCustomer(request)' = AboutCustomer(request)
    BY <1>5 DEF AboutCustomer
  <2>3. request'.selected => Range(Last(turns').cites) \subseteq request'.links
    BY <1>5, <1>6, <2>1 DEF InScope
  <2>4. request'.q.systems # {} => \A r \in Range(Last(turns').cites) : System[r] \in request'.q.systems
    BY <1>5, <1>6, <2>1 DEF InScope
  <2>5. request'.referential /\ ~AboutCustomer(request)' => Range(Last(turns').cites) \subseteq CitedBy(turns)
    BY <1>5, <1>6, <2>1, <2>2 DEF InScope
  <2> QED BY <1>13, <2>3, <2>4, <2>5 DEF EvidenceInScope
<1>16. AnswerGrounded'
  <2>1. Grounded(request, answer, TokensBefore(turns))
    BY <1>6, AnswersGrounded DEF QueryInv
  <2>2. brief.cites \subseteq answer.cites
    BY BriefsCited
  <2> QED BY <1>5, <1>13, <2>1, <2>2 DEF AnswerGrounded, Grounded, ProfileTokens, TokensOf
<1>17. AskedInScope' /\ GatheredInScope'
  BY <1>5 DEF AskedInScope, GatheredInScope
<1>18. (ready \subseteq Range(Newest))'
  BY <1>1 DEF QueryInv
<1> QED BY <1>1, <1>5, <1>11, <1>15, <1>16, <1>17, <1>18, NotRestoring, NothingShown DEF QueryInv

LEMMA RestoreKeeps ==
    ASSUME QueryInv, Restore
    PROVE  QueryInv'
<1>1. /\ request # Idle /\ request'.phase = "answer"
      /\ request' = [phase |-> "answer", role |-> request.role, text |-> Protected(request.answer.tokens),
                     brief |-> request.brief, answer |-> {}]
      /\ ready' = ready /\ turns' = turns /\ shown' = shown
  BY DEF Restore, Idle
<1>2. RestoringAudited'
  <2>1. TextAudited(Protected(request.answer.tokens), request.role)
    BY DEF TextAudited, Protected
  <2> QED BY <1>1, <2>1 DEF RestoringAudited
<1>3. AnswerInLog'
  BY <1>1 DEF AnswerInLog
<1>4. (ready \subseteq Range(Newest))'
  BY <1>1 DEF QueryInv
<1> QED BY <1>1, <1>2, <1>3, <1>4, TurnsStay, AfterEvidence, NothingShown DEF QueryInv

LEMMA ReplacedAudited ==
    ASSUME NEW text, NEW role, TextAudited(text, role), NEW t
    PROVE  TextAudited(Replaced(text, t, role), role)
<1>1. DOMAIN text = {"tokens", "todo", "pass", "restored", "rows"}
  BY DEF TextAudited
<1>2. CASE Authorized(role, t)
  <2>1. PICK next : next = Replaced(text, t, role)
    OBVIOUS
  <2>2. /\ DOMAIN next = DOMAIN text
        /\ next.restored = text.restored \union {t} /\ next.rows = text.rows \union {<<t, TRUE>>}
    BY <1>1, <1>2, <2>1 DEF Replaced
  <2> QED BY <1>1, <1>2, <2>1, <2>2 DEF TextAudited
<1>3. CASE ~Authorized(role, t)
  <2>1. PICK next : next = Replaced(text, t, role)
    OBVIOUS
  <2>2. /\ DOMAIN next = DOMAIN text
        /\ next.restored = text.restored /\ next.rows = text.rows \union {<<t, FALSE>>}
    BY <1>1, <1>3, <2>1 DEF Replaced
  <2> QED BY <1>1, <2>1, <2>2 DEF TextAudited
<1> QED BY <1>2, <1>3

\* A text that is restored further keeps the query as it was.
LEMMA TextChanges ==
    ASSUME QueryInv, request.phase \in {"answer", "brief"}, request # Idle, NEW text,
           request' = [request EXCEPT !.text = text], TextAudited(text, request.role),
           UNCHANGED <<ready, turns, log, shown>>
    PROVE  QueryInv'
<1>1. DOMAIN request = {"phase", "role", "text", "brief", "answer"}
  BY DEF QueryInv, RestoringAudited
<1>2. /\ DOMAIN request' = DOMAIN request /\ request'.phase = request.phase /\ request'.role = request.role
      /\ request'.text = text /\ request'.answer = request.answer
  BY <1>1
<1>3. RestoringAudited'
  BY <1>1, <1>2 DEF RestoringAudited
<1>4. AnswerInLog'
  BY <1>2 DEF QueryInv, AnswerInLog, InLog
<1>5. (ready \subseteq Range(Newest))'
  BY DEF QueryInv
<1>6. request'.phase \notin {"asked", "gathered", "answered"}
  BY <1>2
<1> QED BY <1>3, <1>4, <1>5, <1>6, TurnsStay, AfterEvidence, NothingShown DEF QueryInv

\* A step that ends the query and shows nothing new.
LEMMA QueryEnds ==
    ASSUME QueryInv, request' = Idle, UNCHANGED <<ready, turns, log, shown>>
    PROVE  QueryInv'
<1>1. request'.phase = "idle"
  BY DEF Idle
<1>2. ShownAfterwards' /\ DisclosedIsAudited' /\ (ready \subseteq Range(Newest))'
  BY DEF QueryInv, ShownAfterwards, DisclosedIsAudited
<1> QED BY <1>1, <1>2, TurnsStay, AfterEvidence, NotRestoring DEF QueryInv

LEMMA RestoreTokenKeeps ==
    ASSUME QueryInv, NEW t \in Registered, RestoreToken(t)
    PROVE  QueryInv'
<1>1. /\ request.phase \in {"answer", "brief"} /\ request # Idle
      /\ UNCHANGED <<ready, turns, log, shown>>
  BY DEF RestoreToken, Idle
<1>2. CASE request' = Idle
  BY <1>1, <1>2, QueryEnds
<1>3. CASE request' = [request EXCEPT !.text = Replaced(@, t, request.role)]
  <2>1. PICK text : text = Replaced(request.text, t, request.role)
    OBVIOUS
  <2>2. TextAudited(text, request.role)
    BY <1>1, <2>1, ReplacedAudited DEF QueryInv, RestoringAudited
  <2>3. request' = [request EXCEPT !.text = text]
    BY <1>3, <2>1
  <2> QED BY <1>1, <2>2, <2>3, TextChanges
<1> QED BY <1>2, <1>3 DEF RestoreToken

LEMMA RestoreDeeperKeeps ==
    ASSUME QueryInv, RestoreDeeper
    PROVE  QueryInv'
<1>1. /\ request.phase \in {"answer", "brief"} /\ request # Idle
      /\ UNCHANGED <<ready, turns, log, shown>>
  BY DEF RestoreDeeper, Idle
<1>2. PICK text : text = NextPass(request.text)
  OBVIOUS
<1>3. TextAudited(request.text, request.role)
  BY <1>1 DEF QueryInv, RestoringAudited
<1>4. TextAudited(text, request.role)
  <2>1. DOMAIN text = DOMAIN request.text /\ text.restored = request.text.restored /\ text.rows = request.text.rows
    BY <1>2, <1>3 DEF NextPass, TextAudited
  <2> QED BY <1>3, <2>1 DEF TextAudited
<1>5. request' = [request EXCEPT !.text = text]
  BY <1>2 DEF RestoreDeeper
<1> QED BY <1>1, <1>4, <1>5, TextChanges

\* Every token that was restored in a text has its row, of this turn.
LEMMA AuditedRows ==
    ASSUME NEW text, NEW role, TextAudited(text, role), NEW t \in text.restored
    PROVE  Authorized(role, t) /\ [turn |-> Len(turns), token |-> t, authorized |-> TRUE] \in Audited(text)
<1>1. Authorized(role, t) /\ <<t, TRUE>> \in text.rows
  BY DEF TextAudited
<1>2. [turn |-> Len(turns), token |-> <<t, TRUE>>[1], authorized |-> <<t, TRUE>>[2]] \in Audited(text)
  BY <1>1 DEF Audited
<1> QED BY <1>1, <1>2

LEMMA RestoreBriefKeeps ==
    ASSUME QueryInv, RestoreBrief
    PROVE  QueryInv'
<1>1. /\ request.phase = "answer" /\ request # Idle /\ request'.phase = "brief"
      /\ request' = [phase |-> "brief", role |-> request.role, text |-> Protected(request.brief.tokens),
                     brief |-> request.brief, answer |-> request.text.restored]
      /\ log' = log \union Audited(request.text)
      /\ ready' = ready /\ turns' = turns /\ shown' = shown
  BY DEF RestoreBrief, Idle
<1>2. RestoringAudited'
  <2>1. TextAudited(Protected(request.brief.tokens), request.role)
    BY DEF TextAudited, Protected
  <2> QED BY <1>1, <2>1 DEF RestoringAudited
<1>3. AnswerInLog'
  <2>1. TextAudited(request.text, request.role)
    BY <1>1 DEF QueryInv, RestoringAudited
  <2>2. \A t \in request'.answer : /\ Authorized(request'.role, t)
                                   /\ [turn |-> Len(turns'), token |-> t, authorized |-> TRUE] \in log'
    BY <1>1, <2>1, AuditedRows
  <2> QED BY <2>2 DEF AnswerInLog, InLog
<1>4. (ready \subseteq Range(Newest))'
  BY <1>1 DEF QueryInv
<1> QED BY <1>1, <1>2, <1>3, <1>4, TurnsStay, AfterEvidence, NothingShown DEF QueryInv

LEMMA RespondKeeps ==
    ASSUME QueryInv, Respond
    PROVE  QueryInv'
<1>1. /\ request.phase = "brief" /\ request' = Idle /\ request'.phase = "idle"
      /\ log' = log \union Audited(request.text) /\ ready' = ready /\ turns' = turns
  BY DEF Respond, Idle
<1>2. PICK parses \in BOOLEAN :
        shown' = [role |-> request.role, answer |-> request.answer, brief |-> BriefShown(request.text, parses)]
  BY DEF Respond
<1>3. TextAudited(request.text, request.role)
  BY <1>1 DEF QueryInv, RestoringAudited
<1>4. \A t \in request.answer : InLog(t, request.role)
  BY <1>1 DEF QueryInv, AnswerInLog
<1>5. BriefShown(request.text, parses) \subseteq request.text.restored
  BY DEF BriefShown
<1>6. \A t \in request.answer \union BriefShown(request.text, parses) :
         /\ Authorized(request.role, t)
         /\ [turn |-> Len(turns'), token |-> t, authorized |-> TRUE] \in log'
  BY <1>1, <1>3, <1>4, <1>5, AuditedRows DEF InLog
<1>7. DisclosedIsAudited'
  BY <1>2, <1>6 DEF DisclosedIsAudited, Authorized
<1>8. ShownAfterwards' /\ (ready \subseteq Range(Newest))'
  BY <1>1 DEF QueryInv, ShownAfterwards
<1> QED BY <1>1, <1>7, <1>8, TurnsStay, AfterEvidence, NotRestoring DEF QueryInv

\* Records and links come and go beside the query.
LEMMA Beside ==
    ASSUME QueryInv, UNCHANGED <<turns, request, log, shown>>, (ready \subseteq Range(Newest))'
    PROVE  QueryInv'
<1>1. AskedInScope' /\ RestoringAudited' /\ AnswerInLog' /\ ShownAfterwards' /\ DisclosedIsAudited'
  BY DEF QueryInv, AskedInScope, RestoringAudited, AnswerInLog, InLog, ShownAfterwards, DisclosedIsAudited
<1>2. GatheredInScope'
  BY DEF QueryInv, GatheredInScope, InScope, AboutCustomer, CitedBy
<1>3. EvidenceInScope' /\ AnswerGrounded'
  BY DEF QueryInv, EvidenceInScope, AnswerGrounded, Answered, AboutCustomer, TokensOf
<1> QED BY <1>1, <1>2, <1>3, TurnsStay DEF QueryInv

LEMMA NextKeeps == QueryInv /\ [Next]_vars => QueryInv'
<1> SUFFICES ASSUME QueryInv, [Next]_vars PROVE QueryInv'
  OBVIOUS
<1>1. ASSUME NEW q \in Questions, NEW role \in Roles, Ask(q, role) PROVE QueryInv'
  BY <1>1, AskKeeps
<1>2. CASE Gather
  BY <1>2, GatherKeeps
<1>3. CASE Answer
  BY <1>3, AnswerKeeps
<1>4. CASE Restore
  BY <1>4, RestoreKeeps
<1>5. ASSUME NEW t \in Registered, RestoreToken(t) PROVE QueryInv'
  BY <1>5, RestoreTokenKeeps
<1>6. CASE RestoreDeeper
  BY <1>6, RestoreDeeperKeeps
<1>7. CASE RestoreBrief
  BY <1>7, RestoreBriefKeeps
<1>8. CASE Respond
  BY <1>8, RespondKeeps
<1>9. CASE Fail
  BY <1>9, QueryEnds DEF Fail
<1>10. ASSUME NEW r \in Range(Newest), Refresh(r) PROVE QueryInv'
  <2>1. (ready \subseteq Range(Newest))'
    BY <1>10 DEF Refresh, QueryInv
  <2> QED BY <1>10, <2>1, Beside DEF Refresh
<1>11. ASSUME NEW r \in Range(Newest), Review(r) PROVE QueryInv'
  <2>1. (ready \subseteq Range(Newest))'
    BY <1>11 DEF Review, QueryInv
  <2> QED BY <1>11, <2>1, Beside DEF Review
<1>12. CASE UNCHANGED vars
  <2>1. UNCHANGED <<ready, turns, request, log, shown>>
    BY <1>12 DEF vars
  <2> QED BY <2>1, Beside DEF QueryInv
<1> QED BY <1>1, <1>2, <1>3, <1>4, <1>5, <1>6, <1>7, <1>8, <1>9, <1>10, <1>11, <1>12 DEF Next

THEOREM QuerySound == Spec => []QueryInv
BY QueryInit, NextKeeps, PTL DEF Spec

-----------------------------------------------------------------------------

\* Whatever the records, the links and the reviews, and whichever turn the
\* planner takes a question to be about: a turn cites records of the systems
\* its question names, with a customer selected only those that were verified
\* as the customer's when it was asked, and a question that refers to earlier
\* turns is answered from what they cite (routes/query.py, the filters and
\* prior_hits).
THEOREM EvidenceSound == Spec => []EvidenceInScope
<1>1. QueryInv => EvidenceInScope
  BY DEF QueryInv
<1> QED BY <1>1, QuerySound, PTL

\* Whichever provider answers, an answer has no token but those its question
\* was given, it cites something when it says that the evidence suffices and
\* was not analyzed in batches, and its brief cites what it cites
\* (services/reasoning.py, the acceptance of a reply; services/intelligence.py).
THEOREM GroundedSound == Spec => []AnswerGrounded
<1>1. QueryInv => AnswerGrounded
  BY DEF QueryInv
<1> QED BY <1>1, QuerySound, PTL

\* However deep the values are one in another, and whenever a query fails in
\* between: each value that was shown is one the role may see, and its grant
\* was in the audit log before it was shown (security/detokenize.py).
THEOREM DisclosureSound == Spec => []DisclosedIsAudited
<1>1. QueryInv => DisclosedIsAudited
  BY DEF QueryInv
<1> QED BY <1>1, QuerySound, PTL
=============================================================================
