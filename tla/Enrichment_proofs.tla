------------------------- MODULE Enrichment_proofs -------------------------
(***************************************************************************)
(* Theorems of Enrichment, for any jobs, records, spreadsheets and         *)
(* deployments: the lines first, then the rows, then the batches.          *)
(***************************************************************************)
EXTENDS Enrichment, FiniteSetTheorems, TLAPS

-----------------------------------------------------------------------------
(* The lines that are accepted. *)

Rank(S, n) == Cardinality({m \in S : m <= n})

\* In a finite set of naturals every place up to its size is taken once.
LEMMA Ranks ==
    ASSUME NEW S \in SUBSET Nat, IsFiniteSet(S)
    PROVE  /\ Cardinality(S) \in Nat
           /\ \A n \in S : Rank(S, n) \in 1 .. Cardinality(S)
           /\ \A m, n \in S : Rank(S, m) = Rank(S, n) => m = n
           /\ \A k \in 1 .. Cardinality(S) : \E n \in S : Rank(S, n) = k
<1> DEFINE Upto(n) == {m \in S : m <= n}
<1>1. Cardinality(S) \in Nat
  BY FS_CardinalityType
<1>2. \A n \in S : IsFiniteSet(Upto(n)) /\ Cardinality(Upto(n)) <= Cardinality(S) /\ Cardinality(Upto(n)) \in Nat
  <2> SUFFICES ASSUME NEW n \in S
               PROVE  IsFiniteSet(Upto(n)) /\ Cardinality(Upto(n)) <= Cardinality(S) /\ Cardinality(Upto(n)) \in Nat
    OBVIOUS
  <2>1. Upto(n) \in SUBSET S
    OBVIOUS
  <2>2. IsFiniteSet(Upto(n)) /\ Cardinality(Upto(n)) <= Cardinality(S)
    BY <2>1, FS_Subset
  <2> QED BY <2>2, FS_CardinalityType
<1>3. \A m, n \in S : m < n => Cardinality(Upto(m)) < Cardinality(Upto(n))
  <2> SUFFICES ASSUME NEW m \in S, NEW n \in S, m < n PROVE Cardinality(Upto(m)) < Cardinality(Upto(n))
    OBVIOUS
  <2>0. S \subseteq Nat /\ m \in Nat /\ n \in Nat
    OBVIOUS
  <2>1. Upto(m) \in SUBSET Upto(n) /\ n \in Upto(n) /\ n \notin Upto(m)
    <3>1. \A l \in S : l <= m => l <= n
      BY <2>0
    <3>2. n <= n /\ ~(n <= m)
      BY <2>0
    <3> QED BY <3>1, <3>2
  <2>2. Upto(m) # Upto(n)
    BY <2>1
  <2> QED BY <1>2, <2>1, <2>2, FS_Subset
<1>4. \A n \in S : Cardinality(Upto(n)) # 0
  <2> SUFFICES ASSUME NEW n \in S PROVE Cardinality(Upto(n)) # 0
    OBVIOUS
  <2>1. n \in Upto(n)
    OBVIOUS
  <2> QED BY <1>2, <2>1, FS_EmptySet
<1> HIDE DEF Upto
<1>5. \A n \in S : Cardinality(Upto(n)) \in 1 .. Cardinality(S)
  BY <1>1, <1>2, <1>4
<1>6. \A m, n \in S : Cardinality(Upto(m)) = Cardinality(Upto(n)) => m = n
  <2> SUFFICES ASSUME NEW m \in S, NEW n \in S, Cardinality(Upto(m)) = Cardinality(Upto(n)) PROVE m = n
    OBVIOUS
  <2>1. ~(m < n) /\ ~(n < m)
    BY <1>2, <1>3
  <2> QED BY <2>1
<1> DEFINE T == 1 .. Cardinality(S)
           f == [n \in S |-> Cardinality(Upto(n))]
<1>7. IsFiniteSet(T) /\ Cardinality(T) = Cardinality(S)
  BY <1>1, FS_Interval
<1>8. f \in [S -> T] /\ \A m, n \in S : f[m] = f[n] => m = n
  BY <1>5, <1>6
<1>9. f \in Injection(S, T)
  BY <1>8 DEF Injection, IsInjective
<1> HIDE DEF T
<1>10. f \in Surjection(S, T)
  BY <1>7, <1>9, FS_Injection
<1>11. \A k \in T : \E n \in S : f[n] = k
  BY <1>10 DEF Surjection
<1>12. \A k \in 1 .. Cardinality(S) : \E n \in S : Cardinality(Upto(n)) = k
  BY <1>11 DEF T
<1>13. \A n \in S : Rank(S, n) = Cardinality(Upto(n))
  BY DEF Rank, Upto
<1> QED BY <1>1, <1>5, <1>6, <1>12, <1>13

Line == [id : Records, content : Contents, sound : BOOLEAN]

Item == [id : Records, content : Contents, refresh : BOOLEAN]

DistinctIds(s) == \A m, n \in DOMAIN s : s[m].id = s[n].id => m = n

\* No two accepted lines have one id, and there are no more of them than lines.
LEMMA ParseDistinct ==
    ASSUME NEW lines \in Seq(Line)
    PROVE  /\ Parse(lines) \in Seq(Item)
           /\ DistinctIds(Parse(lines))
           /\ Len(Parse(lines)) \in 0 .. Len(lines)
<1> DEFINE S == Accepted(lines)
           At(k) == CHOOSE l \in S : Rank(S, l) = k
<1>1. Len(lines) \in Nat /\ DOMAIN lines = 1 .. Len(lines) /\ \A n \in DOMAIN lines : lines[n] \in Line
  OBVIOUS
<1>2. S \in SUBSET (1 .. Len(lines))
  BY <1>1 DEF Accepted
<1>3. IsFiniteSet(1 .. Len(lines)) /\ Cardinality(1 .. Len(lines)) = Len(lines)
  BY <1>1, FS_Interval
<1>4. IsFiniteSet(S) /\ Cardinality(S) <= Len(lines)
  BY <1>2, <1>3, FS_Subset
<1>5. S \in SUBSET Nat
  BY <1>1, <1>2
<1>6. \A m, n \in S : lines[m].id = lines[n].id => m = n
  <2> SUFFICES ASSUME NEW m \in S, NEW n \in S, lines[m].id = lines[n].id, m < n PROVE FALSE
    BY <1>5
  <2>1. lines[m].sound /\ m \in 1 .. n - 1
    BY <1>1, <1>2 DEF Accepted
  <2> QED BY <2>1 DEF Accepted
<1> HIDE DEF S
<1>7. Cardinality(S) \in Nat /\ \A k \in 1 .. Cardinality(S) : \E n \in S : Rank(S, n) = k
  BY <1>4, <1>5, Ranks
<1>8. \A k \in 1 .. Cardinality(S) : At(k) \in S /\ Rank(S, At(k)) = k
  BY <1>7
<1> HIDE DEF At
<1> DEFINE items == [k \in 1 .. Cardinality(S) |->
                        [id |-> lines[At(k)].id, content |-> lines[At(k)].content, refresh |-> FALSE]]
<1>9. Parse(lines) = items
  BY DEF Parse, Rank, At, S
<1>10. \A k \in 1 .. Cardinality(S) : lines[At(k)] \in Line
  BY <1>1, <1>2, <1>8
<1>11. \A k \in 1 .. Cardinality(S) : items[k] \in Item /\ items[k].id = lines[At(k)].id
  BY <1>10 DEF Line, Item
<1>12. items \in Seq(Item) /\ Len(items) = Cardinality(S) /\ DOMAIN items = 1 .. Cardinality(S)
  <2>1. items \in [1 .. Cardinality(S) -> Item]
    BY <1>11
  <2> QED BY <1>7, <2>1
<1> HIDE DEF items
<1>13. DistinctIds(items)
  BY <1>6, <1>8, <1>11, <1>12 DEF DistinctIds
<1> QED BY <1>1, <1>4, <1>7, <1>9, <1>12, <1>13

LEMMA ItemsSound ==
    ASSUME NEW f \in Files
    PROVE  /\ Items[f] \in Seq(Item) /\ DistinctIds(Items[f])
           /\ Len(Items[f]) \in Nat /\ Len(Lines[f]) \in Nat /\ Len(Items[f]) <= Len(Lines[f])
           /\ Invalid(f) \in Nat /\ Invalid(f) + Len(Items[f]) = Len(Lines[f])
<1>1. Lines[f] \in Seq(Line)
  BY EnrichmentAssumption DEF Line
<1>2. Items[f] = Parse(Lines[f])
  BY DEF Items
<1>3. Items[f] \in Seq(Item) /\ DistinctIds(Items[f]) /\ Len(Items[f]) \in 0 .. Len(Lines[f])
  BY <1>1, <1>2, ParseDistinct
<1> QED BY <1>1, <1>3 DEF Invalid

\* As many ids as items.
LEMMA IdsCount ==
    ASSUME NEW s \in Seq(Item), DistinctIds(s)
    PROVE  Cardinality({s[n].id : n \in DOMAIN s}) = Len(s)
<1>1. Len(s) \in Nat /\ DOMAIN s = 1 .. Len(s)
  OBVIOUS
<1> DEFINE f == [n \in 1 .. Len(s) |-> s[n].id]
           ids == {s[n].id : n \in DOMAIN s}
<1>2. f \in [1 .. Len(s) -> ids] /\ (\A m, n \in 1 .. Len(s) : f[m] = f[n] => m = n) /\ \A i \in ids : \E n \in 1 .. Len(s) : f[n] = i
  BY <1>1 DEF DistinctIds
<1>3. f \in Bijection(1 .. Len(s), ids)
  BY <1>2 DEF Bijection, Injection, Surjection, IsInjective
<1>4. ExistsBijection(1 .. Len(s), ids)
  BY <1>3 DEF ExistsBijection
<1> QED BY <1>1, <1>4, FS_CountingElements

-----------------------------------------------------------------------------
(* The jobs. *)

JobColumns == {"phase", "held", "file", "todo", "done", "loaded", "sheet", "protected", "refused", "ready"}

Done == [id : Records, ready : BOOLEAN]

IsJob(r) ==
    /\ DOMAIN r = JobColumns
    /\ r.phase \in {"protect", "write", "link", "enrich", "model"}
    /\ r.held \in SUBSET Records
    /\ r.file \in Files \union {NoFile}
    /\ r.todo \in Seq(Item) /\ r.done \in Seq(Done)
    /\ r.protected \in Nat /\ r.refused \in Nat /\ r.ready \in Nat
    /\ r.phase \in {"write", "link"} => Len(r.todo) > 0
    /\ r.phase = "model" => Len(r.done) > 0

\* No record twice among what is to do and what was done, and the job has in
\* hand what it has done and what it writes.
Apart(r) ==
    /\ DistinctIds(r.todo) /\ DistinctIds(r.done)
    /\ \A m \in DOMAIN r.todo, n \in DOMAIN r.done : r.todo[m].id # r.done[n].id
    /\ \A n \in DOMAIN r.done : r.done[n].id \in r.held
    /\ r.phase \in {"write", "link"} => r.todo[1].id \in r.held

-----------------------------------------------------------------------------
(* The rows.  A record that is not contended is in the hand of one job,    *)
(* which knows what the row holds.                                         *)

RowColumns == {"status", "text", "derived", "mode", "print"}

IsRow(v) == DOMAIN v = RowColumns /\ v.status # "absent"

DerivedOf(v) ==
    /\ v.derived # NotDerived => v.derived.of = v.text /\ v.derived.tokens \subseteq Tokens[v.text]
    /\ v.status = "ready" => v.derived.of = v.text /\ (v.mode \in Makers \/ v.print = NoPrint)
    /\ v.status = "protected" => v.derived = NotDerived

Printed(v) == v.print # NoPrint => v.print = v.text

RowSound(i) ==
    /\ row[i] = NoText \/ (IsRow(row[i]) /\ DerivedOf(row[i]) /\ Printed(row[i]))
    /\ i \notin rewritten => \A c \in Customers : <<c, i>> \in links => IsRow(row[i]) /\ c \in Mentioned(row[i].text)

\* What the job noted of a record it is through with.
Noted(v, d) == IsRow(v) /\ (d.ready => v.status = "ready")

\* The text of the item, unless the row is older than fingerprints.
Holds(v, item) == v.print # NoPrint => v.text = item.content

Ids(s) == {s[n].id : n \in DOMAIN s}

DoneKnown(r, rows, bad) ==
    \A n \in DOMAIN r.done : r.done[n].id \notin bad => Noted(rows[r.done[n].id], r.done[n])

\* What a job has read of the records it has in hand is what they hold.
Knows(r, rows, bad) ==
    /\ r.phase = "write" /\ r.todo[1].id \notin bad => r.loaded = rows[r.todo[1].id]
    /\ r.phase = "link" /\ r.todo[1].id \notin bad =>
           r.loaded = Protected(r.todo[1].content) /\ rows[r.todo[1].id] = r.loaded
    /\ r.phase = "model" => ~r.done[1].ready
    /\ r.phase = "model" /\ r.done[1].id \notin bad => r.loaded = rows[r.done[1].id]
    /\ DoneKnown(r, rows, bad)

-----------------------------------------------------------------------------
(* The batches.  The job of a file counts every item once, and holds the   *)
(* counts of its batch unless another job took the file.                   *)

SheetColumns == {"status", "total", "valid", "failed", "protected", "ready"}

\* What is to do is the rest of the file, and the counts account for what is
\* before it.
Counted(r) ==
    r.file # NoFile =>
        /\ Len(Items[r.file]) > 0
        /\ r.protected + r.refused + Len(r.todo) = Len(Items[r.file])
        /\ \A m \in DOMAIN r.todo : r.todo[m] = Items[r.file][r.protected + r.refused + m]
        /\ DOMAIN r.sheet = SheetColumns /\ r.sheet.total = Len(Lines[r.file]) /\ r.sheet.ready = 0
        /\ r.phase \in {"protect", "write", "link"} => r.ready = 0 /\ Len(r.done) = r.protected
        /\ r.phase \in {"enrich", "model"} =>
               Len(r.todo) = 0 /\ r.ready + Len(r.done) <= r.protected /\ r.sheet.protected = r.protected

\* The row of an item the job is through with.
ItemFits(item, r, rows, bad) ==
    /\ item.id \in r.held
    /\ item.id \notin bad => /\ IsRow(rows[item.id]) /\ Holds(rows[item.id], item)
                             /\ rows[item.id].status = "ready" \/ item.id \in Ids(r.done)

\* Unless an item was refused or not enriched, the rows hold what the file says.
Fits(r, rows, bad) ==
    r.file # NoFile /\ r.refused = 0 /\ r.ready + Len(r.done) = r.protected =>
        \A n \in 1 .. r.protected : ItemFits(Items[r.file][n], r, rows, bad)

SheetSound(f, b) ==
    b = NoBatch \/
    /\ b.total = Len(Lines[f])
    /\ b.status \in {"protecting", "enriching", "ready", "partial", "failed"}
    /\ b.status = "enriching" => b.protected + b.failed = b.total /\ b.ready = 0
    /\ b.status \in Settled => b.ready + b.failed = b.total /\ b.ready <= b.protected
    /\ b.status = "ready" <=> b.ready = b.total /\ b.ready > 0

Works(q, f) == job[q] # Idle /\ job[q].file = f

BatchSound(f) ==
    /\ SheetSound(f, batch[f])
    /\ \A q \in Jobs : Works(q, f) => job[q].sheet = batch[f]
    /\ \A q, k \in Jobs : Works(q, f) /\ Works(k, f) => q = k

-----------------------------------------------------------------------------
(* The inductive invariant, and what a step of one job must show.          *)

Sound(r, rows, bad) == IsJob(r) /\ Apart(r) /\ Knows(r, rows, bad) /\ Counted(r) /\ Fits(r, rows, bad)

OneHolder(i) == \A j, k \in Jobs : i \in InHand(j) /\ i \in InHand(k) => j = k

StoreInv ==
    /\ DOMAIN row = Records /\ DOMAIN batch = Files /\ DOMAIN job = Jobs
    /\ \A j \in Jobs : job[j] = Idle \/ Sound(job[j], row, contended)
    /\ \A i \in Records \ contended : RowSound(i) /\ OneHolder(i)
    /\ \A f \in Files \ doubled : BatchSound(f)

\* A row the migration has called READY.
LEMMA MigratedRow ==
    ASSUME NEW text, NEW v, v = Migrated(text)
    PROVE  IsRow(v) /\ DerivedOf(v) /\ Printed(v)
BY DEF Migrated, IsRow, RowColumns, DerivedOf, Printed

LEMMA StoreInit == Init => StoreInv
<1> SUFFICES ASSUME Init PROVE StoreInv
  OBVIOUS
<1>1. /\ DOMAIN row = Records /\ links = {} /\ batch = [f \in Files |-> NoBatch]
      /\ job = [j \in Jobs |-> Idle]
      /\ \A i \in Records : row[i] = NoText \/ row[i] = Migrated(Earlier[i])
  BY DEF Init
<1>4. \A i \in Records : RowSound(i)
  BY <1>1, MigratedRow DEF RowSound
<1>2. \A j \in Jobs : InHand(j) = {}
  BY <1>1 DEF InHand
<1>3. \A f \in Files : BatchSound(f)
  BY <1>1 DEF BatchSound, SheetSound, Works
<1> QED BY <1>1, <1>2, <1>3, <1>4 DEF StoreInv, OneHolder

\* An UPDATE of what was loaded writes the new row.
LEMMA WrittenIsNew ==
    ASSUME NEW old, NEW new, DOMAIN old = DOMAIN new, new = [c \in DOMAIN new |-> new[c]]
    PROVE  Written(old, old, new) = new
BY DEF Written

\* One job goes on.
OnlyJob(j) ==
    /\ DOMAIN job' = DOMAIN job
    /\ \A q \in Jobs : q # j => job'[q] = job[q]

LEMMA JobChanges ==
    ASSUME DOMAIN job = Jobs, NEW j \in Jobs, NEW r, job' = [job EXCEPT ![j] = r]
    PROVE  OnlyJob(j) /\ job'[j] = r
BY DEF OnlyJob

LEMMA NotIdle ==
    ASSUME NEW r, IsJob(r)
    PROVE  r # Idle /\ r.phase # "idle"
BY DEF IsJob, Idle

LEMMA Kept ==
    ASSUME NEW r, NEW rows, NEW rows2, NEW bad, NEW bad2, Sound(r, rows, bad), bad \subseteq bad2,
           \A i \in r.held \ bad2 : rows2[i] = rows[i]
    PROVE  Sound(r, rows2, bad2)
<1>1. IsJob(r) /\ Apart(r) /\ Knows(r, rows, bad) /\ Counted(r) /\ Fits(r, rows, bad)
  BY DEF Sound
<1>2. r.phase = "model" => 1 \in DOMAIN r.done
  BY <1>1 DEF IsJob
<1>3. \A n \in DOMAIN r.done : r.done[n].id \in r.held
  BY <1>1 DEF Apart
<1>4. Knows(r, rows2, bad2)
  BY <1>1, <1>2, <1>3 DEF Knows, DoneKnown, Apart
<1>5. Fits(r, rows2, bad2)
  BY <1>1 DEF Fits, ItemFits
<1> QED BY <1>1, <1>4, <1>5 DEF Sound

\* What a step of one job must show: the records it changes are in its hand,
\* and it takes none that is not contended from another.
LEMMA JobGoesOn ==
    ASSUME StoreInv, NEW j \in Jobs, OnlyJob(j),
           DOMAIN row' = DOMAIN row, DOMAIN batch' = DOMAIN batch, contended \subseteq contended',
           job'[j] = Idle \/ Sound(job'[j], row', contended'),
           \A i \in InHand(j)' : i \in InHand(j) \/ i \in contended' \/ ~HeldByOther(i, j),
           \A i \in Records : row'[i] # row[i] => i \in InHand(j),
           \A i \in Records \ contended' : RowSound(i)',
           \A f \in Files \ doubled' : BatchSound(f)'
    PROVE  StoreInv'
<1>1. \A q \in Jobs : q # j => InHand(q)' = InHand(q)
  BY DEF OnlyJob, InHand
<1>2. ASSUME NEW i \in Records \ contended' PROVE OneHolder(i)'
  <2>1. OneHolder(i) /\ i \notin contended
    BY DEF StoreInv
  <2> SUFFICES ASSUME NEW q \in Jobs, NEW k \in Jobs, i \in InHand(q)', i \in InHand(k)', q # k PROVE FALSE
    BY DEF OneHolder
  <2>2. CASE q # j /\ k # j
    BY <1>1, <2>1, <2>2 DEF OneHolder
  <2>3. ASSUME NEW p \in Jobs, p # j, i \in InHand(p)', i \in InHand(j)' PROVE FALSE
    <3>1. i \in InHand(p) /\ p \in Jobs \ {j}
      BY <1>1, <2>3
    <3>2. HeldByOther(i, j)
      BY <3>1 DEF HeldByOther
    <3>3. i \in InHand(j)
      BY <1>2, <2>3, <3>2
    <3> QED BY <2>1, <2>3, <3>1, <3>3 DEF OneHolder
  <2> QED BY <2>2, <2>3
<1>3. ASSUME NEW q \in Jobs, q # j PROVE job'[q] = Idle \/ Sound(job'[q], row', contended')
  <2>1. job'[q] = job[q]
    BY <1>3 DEF OnlyJob
  <2>2. CASE job[q] = Idle
    BY <2>1, <2>2
  <2>3. CASE Sound(job[q], row, contended)
    <3>1. IsJob(job[q]) /\ job[q].held \in SUBSET Records
      BY <2>3 DEF Sound, IsJob
    <3>2. InHand(q) = job[q].held
      BY <3>1, NotIdle DEF InHand
    <3>3. \A i \in job[q].held \ contended' : row'[i] = row[i]
      <4> SUFFICES ASSUME NEW i \in job[q].held \ contended', row'[i] # row[i] PROVE FALSE
        OBVIOUS
      <4>1. i \in Records \ contended /\ i \in InHand(j) /\ i \in InHand(q)
        BY <3>1, <3>2
      <4>2. OneHolder(i)
        BY <4>1 DEF StoreInv
      <4> QED BY <1>3, <4>1, <4>2 DEF OneHolder
    <3>4. Sound(job[q], row', contended')
      BY <2>3, <3>3, Kept
    <3> QED BY <2>1, <3>4
  <2> QED BY <2>2, <2>3 DEF StoreInv
<1>4. \A q \in Jobs : job'[q] = Idle \/ Sound(job'[q], row', contended')
  BY <1>3
<1> QED BY <1>2, <1>4 DEF StoreInv, OnlyJob

\* When no row is written, and none is linked.
LEMMA RowsStay ==
    ASSUME StoreInv, UNCHANGED <<row, links, deployment, rewritten>>, contended \subseteq contended'
    PROVE  \A i \in Records \ contended' : RowSound(i)'
<1>1. ASSUME NEW i \in Records \ contended' PROVE RowSound(i)'
  <2>1. RowSound(i)
    BY DEF StoreInv
  <2> QED BY <2>1 DEF RowSound, DerivedOf, Printed, Makers
<1> QED BY <1>1

\* When no batch is written, and no job takes a file.
LEMMA BatchesStay ==
    ASSUME StoreInv, NEW j \in Jobs, NEW x, OnlyJob(j), job'[j] = x, batch' = batch, doubled' = doubled,
           \/ x = Idle \/ x.file = NoFile
           \/ job[j] # Idle /\ x.file = job[j].file /\ x.sheet = job[j].sheet
    PROVE  \A f \in Files \ doubled' : BatchSound(f)'
<1> SUFFICES ASSUME NEW f \in Files \ doubled' PROVE BatchSound(f)'
  OBVIOUS
<1>1. BatchSound(f)
  BY DEF StoreInv
<1>2. f # NoFile
  BY EnrichmentAssumption
<1>3. \A q \in Jobs : Works(q, f)' => Works(q, f) /\ job'[q].sheet = job[q].sheet
  BY <1>2 DEF Works, OnlyJob
<1> QED BY <1>1, <1>3 DEF BatchSound

LEMMA IngestKeeps ==
    ASSUME StoreInv, NEW j \in Jobs, Ingest(j)
    PROVE  StoreInv'
<1>1. PICK item \in Item : job' = [job EXCEPT ![j] = Fresh("protect", NoFile, <<item>>, <<>>)]
  BY DEF Ingest, Item
<1>2. PICK todo : todo = <<item>>
  OBVIOUS
<1>3. PICK x : x = Fresh("protect", NoFile, todo, <<>>)
  OBVIOUS
<1>4. todo \in Seq(Item) /\ DOMAIN todo = {1} /\ DOMAIN <<>> = {}
  BY <1>2
<1>5. IsJob(x) /\ x.phase = "protect" /\ x.todo = todo /\ x.done = <<>> /\ x.held = {} /\ x.file = NoFile
  <2>1. NoFile \in Files \union {NoFile} /\ <<>> \in Seq(Done)
    OBVIOUS
  <2>2. /\ DOMAIN x = JobColumns /\ x.phase = "protect" /\ x.todo = todo /\ x.done = <<>>
        /\ x.held = Ids(<<>>) /\ x.file = NoFile /\ x.protected = 0 /\ x.refused = 0 /\ x.ready = 0
    BY <1>3 DEF Fresh, JobColumns, Ids
  <2>3. Ids(<<>>) = {}
    BY <1>4 DEF Ids
  <2> QED BY <1>4, <2>1, <2>2, <2>3 DEF IsJob
<1>6. Sound(x, row, contended)
  BY <1>4, <1>5 DEF Sound, Apart, DistinctIds, Knows, DoneKnown, Counted, Fits
<1>7. UNCHANGED <<row, links, batch, deployment, contended, rewritten, doubled>>
  BY DEF Ingest, store, history
<1>8. OnlyJob(j) /\ job'[j] = x
  BY <1>1, <1>2, <1>3, JobChanges DEF StoreInv
<1>9. InHand(j)' = {}
  BY <1>5, <1>8 DEF InHand
<1>10. \A i1 \in Records \ contended' : RowSound(i1)'
  BY <1>7, RowsStay
<1>11. \A f \in Files \ doubled' : BatchSound(f)'
  BY <1>5, <1>7, <1>8, BatchesStay
<1> QED BY <1>6, <1>7, <1>8, <1>9, <1>10, <1>11, JobGoesOn

LEMMA EnrichLaterKeeps ==
    ASSUME StoreInv, NEW j \in Jobs, EnrichLater(j)
    PROVE  StoreInv'
<1>1. PICK i \in Records :
          /\ Exists(i)
          /\ job' = [job EXCEPT ![j] = Fresh("enrich", NoFile, <<>>, <<[id |-> i, ready |-> FALSE]>>)]
          /\ contended' = IF HeldByOther(i, j) THEN contended \union {i} ELSE contended
  BY DEF EnrichLater
<1>2. PICK done : done = <<[id |-> i, ready |-> FALSE]>>
  OBVIOUS
<1>3. PICK x : x = Fresh("enrich", NoFile, <<>>, done)
  OBVIOUS
<1>4. done \in Seq(Done) /\ DOMAIN done = {1} /\ done[1] = [id |-> i, ready |-> FALSE] 
  <2>1. [id |-> i, ready |-> FALSE] \in Done
    BY DEF Done
  <2> QED BY <1>2, <2>1
<1>5. IsJob(x) /\ x.phase = "enrich" /\ x.todo = <<>> /\ x.done = done /\ x.held = {i} /\ x.file = NoFile
  <2>1. NoFile \in Files \union {NoFile} /\ <<>> \in Seq(Item)
    OBVIOUS
  <2>2. /\ DOMAIN x = JobColumns /\ x.phase = "enrich" /\ x.todo = <<>> /\ x.done = done
        /\ x.held = Ids(done) /\ x.file = NoFile /\ x.protected = 0 /\ x.refused = 0 /\ x.ready = 0
    BY <1>3 DEF Fresh, JobColumns, Ids
  <2>3. Ids(done) = {i}
    BY <1>4 DEF Ids
  <2> QED BY <1>4, <2>1, <2>2, <2>3 DEF IsJob
<1>6. UNCHANGED <<row, links, batch, deployment, rewritten, doubled>> /\ contended \subseteq contended'
  BY <1>1 DEF EnrichLater, store
<1>7. Sound(x, row, contended')
  <2>1. i \notin contended' => IsRow(row[i])
    BY <1>1, <1>6 DEF StoreInv, RowSound, Exists, NoText
  <2>2. Apart(x)
    BY <1>4, <1>5 DEF Apart, DistinctIds
  <2>3. Knows(x, row, contended')
    BY <1>4, <1>5, <2>1 DEF Knows, DoneKnown, Noted
  <2>4. Counted(x) /\ Fits(x, row, contended')
    BY <1>5 DEF Counted, Fits
  <2> QED BY <1>5, <2>2, <2>3, <2>4 DEF Sound
<1>8. OnlyJob(j) /\ job'[j] = x
  BY <1>1, <1>2, <1>3, JobChanges DEF StoreInv
<1>9. InHand(j)' = {i}
  BY <1>5, <1>8, NotIdle DEF InHand
<1>10. \A i1 \in Records \ contended' : RowSound(i1)'
  BY <1>6, RowsStay
<1>11. \A i1 \in InHand(j)' : i1 \in InHand(j) \/ i1 \in contended' \/ ~HeldByOther(i1, j)
  BY <1>1, <1>9
<1>12. \A f \in Files \ doubled' : BatchSound(f)'
  BY <1>5, <1>6, <1>8, BatchesStay
<1> QED BY <1>6, <1>7, <1>8, <1>10, <1>11, <1>12, JobGoesOn

LEMMA FreshBatch ==
    ASSUME NEW f \in Files, NEW status, NEW b, b = NewBatch(f, status)
    PROVE  /\ DOMAIN b = SheetColumns /\ b.status = status /\ b.total = Len(Lines[f])
           /\ b.failed = Invalid(f) /\ b.protected = 0 /\ b.ready = 0
BY DEF NewBatch, SheetColumns

LEMMA UploadKeeps ==
    ASSUME StoreInv, NEW j \in Jobs, Upload(j)
    PROVE  StoreInv'
<1>1. PICK f \in Files :
          /\ batch' = [batch EXCEPT ![f] = NewBatch(f, IF Items[f] = <<>> THEN "failed" ELSE "protecting")]
          /\ job' = IF Items[f] = <<>> THEN job
                    ELSE [job EXCEPT ![j] = [Fresh("protect", f, Items[f], <<>>) EXCEPT
                             !.sheet = NewBatch(f, IF Items[f] = <<>> THEN "failed" ELSE "protecting")]]
          /\ doubled' = IF \E other \in Jobs : job[other] # Idle /\ job[other].file = f
                        THEN doubled \union {f} ELSE doubled
  BY DEF Upload
<1>2. PICK sheet : sheet = NewBatch(f, IF Items[f] = <<>> THEN "failed" ELSE "protecting")
  OBVIOUS
<1>3. UNCHANGED <<row, links, deployment, contended, rewritten>> /\ DOMAIN batch' = DOMAIN batch /\ job[j] = Idle
  BY <1>1 DEF Upload
<1>4. DOMAIN batch = Files /\ DOMAIN job = Jobs
  BY DEF StoreInv
<1>5. \A i \in Records \ contended' : RowSound(i)'
  BY <1>3, RowsStay
<1>6. /\ Items[f] \in Seq(Item) /\ DistinctIds(Items[f]) /\ Len(Items[f]) \in Nat
      /\ Invalid(f) \in Nat /\ Invalid(f) + Len(Items[f]) = Len(Lines[f]) /\ Len(Lines[f]) \in Nat
  BY ItemsSound
<1>7. /\ DOMAIN sheet = SheetColumns /\ sheet.total = Len(Lines[f])
      /\ sheet.failed = Invalid(f) /\ sheet.protected = 0 /\ sheet.ready = 0
      /\ sheet.status = IF Items[f] = <<>> THEN "failed" ELSE "protecting"
  BY <1>2, FreshBatch
<1>8. SheetSound(f, sheet)
  <2>1. CASE Items[f] = <<>>
    <3>1. Len(Items[f]) = 0
      BY <2>1
    <3>2. sheet.failed = sheet.total /\ sheet.status = "failed"
      BY <1>6, <1>7, <2>1, <3>1
    <3> QED BY <1>6, <1>7, <3>2 DEF SheetSound, Settled
  <2>2. CASE Items[f] # <<>>
    <3>1. sheet.status = "protecting"
      BY <1>7, <2>2
    <3> QED BY <1>7, <3>1 DEF SheetSound, Settled
  <2> QED BY <2>1, <2>2
<1>9. batch'[f] = sheet /\ \A g \in Files : g # f => batch'[g] = batch[g]
  BY <1>1, <1>2, <1>4
<1>10. doubled \subseteq doubled' /\ (f \notin doubled' => \A q \in Jobs : ~Works(q, f))
  BY <1>1 DEF Works
<1>11. ASSUME NEW x, OnlyJob(j), job'[j] = x, x = Idle \/ (x.file = f /\ x.sheet = sheet)
       PROVE  \A g \in Files \ doubled' : BatchSound(g)'
  <2> SUFFICES ASSUME NEW g \in Files \ doubled' PROVE BatchSound(g)'
    OBVIOUS
  <2>1. BatchSound(g)
    BY <1>10 DEF StoreInv
  <2>2. CASE g # f
    <3>1. \A q \in Jobs : Works(q, g)' => Works(q, g) /\ job'[q].sheet = job[q].sheet
      BY <1>11, <2>2 DEF Works, OnlyJob
    <3> QED BY <1>9, <2>1, <2>2, <3>1 DEF BatchSound
  <2>3. CASE g = f
    <3>1. \A q \in Jobs : Works(q, f)' => q = j /\ job'[q].sheet = sheet
      BY <1>10, <1>11, <2>3 DEF Works, OnlyJob
    <3> QED BY <1>8, <1>9, <2>3, <3>1 DEF BatchSound
  <2> QED BY <2>2, <2>3
<1>12. CASE Items[f] = <<>>
  <2>1. OnlyJob(j) /\ job'[j] = Idle /\ InHand(j)' = {}
    BY <1>1, <1>3, <1>12 DEF OnlyJob, InHand
  <2>2. \A g \in Files \ doubled' : BatchSound(g)'
    BY <1>11, <2>1
  <2> QED BY <1>3, <1>5, <2>1, <2>2, JobGoesOn
<1>13. CASE Items[f] # <<>>
  <2>1. PICK y : y = Fresh("protect", f, Items[f], <<>>)
    OBVIOUS
  <2>2. PICK x : x = [y EXCEPT !.sheet = sheet]
    OBVIOUS
  <2>4. <<>> \in Seq(Done) /\ DOMAIN <<>> = {} /\ Len(<<>>) = 0 /\ Len(Items[f]) > 0
    BY <1>6, <1>13
  <2>5. /\ DOMAIN y = JobColumns /\ y.phase = "protect" /\ y.todo = Items[f] /\ y.done = <<>>
        /\ y.held = Ids(<<>>) /\ y.file = f /\ y.protected = 0 /\ y.refused = 0 /\ y.ready = 0
    BY <2>1 DEF Fresh, JobColumns, Ids
  <2>6. Ids(<<>>) = {}
    BY <2>4 DEF Ids
  <2>7. /\ DOMAIN x = JobColumns /\ x.phase = "protect" /\ x.todo = Items[f] /\ x.done = <<>> /\ x.held = {}
        /\ x.file = f /\ x.protected = 0 /\ x.refused = 0 /\ x.ready = 0 /\ x.sheet = sheet
    BY <2>2, <2>5, <2>6 DEF JobColumns
  <2>8. IsJob(x)
    BY <1>6, <2>4, <2>7 DEF IsJob
  <2>9. Counted(x)
    BY <1>6, <1>7, <1>13, <2>4, <2>7 DEF Counted
  <2>10. Fits(x, row, contended)
    BY <2>7 DEF Fits
  <2>11. Sound(x, row, contended)
    BY <1>6, <2>4, <2>7, <2>8, <2>9, <2>10 DEF Sound, Apart, DistinctIds, Knows, DoneKnown
  <2>12. OnlyJob(j) /\ job'[j] = x
    BY <1>1, <1>2, <1>4, <1>13, <2>1, <2>2, JobChanges
  <2>13. InHand(j)' = {}
    BY <2>7, <2>12 DEF InHand
  <2>14. \A g \in Files \ doubled' : BatchSound(g)'
    BY <1>11, <2>7, <2>12
  <2> QED BY <1>3, <1>5, <2>11, <2>12, <2>13, <2>14, JobGoesOn
<1> QED BY <1>12, <1>13

LEMMA TailOf ==
    ASSUME NEW S, NEW s \in Seq(S), Len(s) > 0
    PROVE  /\ Tail(s) \in Seq(S) /\ Len(Tail(s)) = Len(s) - 1 /\ DOMAIN Tail(s) = 1 .. Len(s) - 1
           /\ \A n \in 1 .. Len(s) - 1 : Tail(s)[n] = s[n + 1]
OBVIOUS

LEMMA AppendOf ==
    ASSUME NEW S, NEW s \in Seq(S), NEW d \in S
    PROVE  /\ Append(s, d) \in Seq(S) /\ Len(Append(s, d)) = Len(s) + 1 /\ DOMAIN Append(s, d) = 1 .. Len(s) + 1
           /\ (\A n \in 1 .. Len(s) : Append(s, d)[n] = s[n]) /\ Append(s, d)[Len(s) + 1] = d
OBVIOUS

LEMMA NextItemFields ==
    ASSUME NEW r, DOMAIN r = JobColumns, NEW ready, NEW x, x = NextItem(r, ready)
    PROVE  /\ DOMAIN x = JobColumns /\ x.phase = "protect" /\ x.held = r.held /\ x.file = r.file
           /\ x.todo = Tail(r.todo) /\ x.done = Append(r.done, [id |-> Head(r.todo).id, ready |-> ready])
           /\ x.sheet = r.sheet /\ x.protected = r.protected + 1 /\ x.refused = r.refused /\ x.ready = r.ready
BY DEF NextItem, JobColumns

LEMMA Shift ==
    ASSUME NEW a \in Int, NEW b \in Int, NEW c \in Int
    PROVE  a + b + (c + 1) = a + 1 + b + c /\ a + 1 + b + (c - 1) = a + b + c /\ a + (b + 1) + (c - 1) = a + b + c
OBVIOUS

\* The next item.
LEMMA Advance ==
    ASSUME NEW r, NEW rows, NEW bad, Sound(r, rows, bad), r.phase \in {"protect", "link"}, Len(r.todo) > 0,
           NEW held \in SUBSET Records, r.held \subseteq held, NEW i, i = r.todo[1].id, i \in held,
           NEW d \in Done, d.id = i,
           i \notin bad => Noted(rows[i], d) /\ Holds(rows[i], r.todo[1]),
           NEW x, DOMAIN x = JobColumns, x.phase = "protect", x.held = held, x.file = r.file,
           x.todo = Tail(r.todo), x.done = Append(r.done, d), x.sheet = r.sheet,
           x.protected = r.protected + 1, x.refused = r.refused, x.ready = r.ready
    PROVE  Sound(x, rows, bad)
<1>0. IsJob(r) /\ Apart(r) /\ DoneKnown(r, rows, bad) /\ Counted(r) /\ Fits(r, rows, bad)
  BY DEF Sound, Knows
<1>3. r.todo \in Seq(Item) /\ r.done \in Seq(Done) /\ Len(r.todo) \in Nat /\ Len(r.done) \in Nat
  BY <1>0 DEF IsJob
<1>4. /\ x.todo \in Seq(Item) /\ DOMAIN x.todo = 1 .. Len(r.todo) - 1
      /\ \A n \in 1 .. Len(r.todo) - 1 : x.todo[n] = r.todo[n + 1]
  BY <1>3, TailOf
<1>5. /\ x.done \in Seq(Done) /\ DOMAIN x.done = 1 .. Len(r.done) + 1
      /\ (\A n \in 1 .. Len(r.done) : x.done[n] = r.done[n]) /\ x.done[Len(r.done) + 1] = d
  BY <1>3, AppendOf
<1>6. IsJob(x)
  BY <1>0, <1>4, <1>5 DEF IsJob
<1>7. DOMAIN r.todo = 1 .. Len(r.todo) /\ DOMAIN r.done = 1 .. Len(r.done)
  BY <1>3
<1>8. Apart(x)
  <2>1. DistinctIds(x.todo)
    <3> SUFFICES ASSUME NEW m \in DOMAIN x.todo, NEW n \in DOMAIN x.todo, x.todo[m].id = x.todo[n].id PROVE m = n
      BY DEF DistinctIds
    <3>1. m + 1 \in DOMAIN r.todo /\ n + 1 \in DOMAIN r.todo /\ m \in Nat /\ n \in Nat
      BY <1>3, <1>4, <1>7
    <3>2. m + 1 = n + 1
      BY <1>0, <1>4, <3>1 DEF Apart, DistinctIds
    <3> QED BY <3>1, <3>2
  <2>2. DistinctIds(x.done)
    <3> SUFFICES ASSUME NEW m \in DOMAIN x.done, NEW n \in DOMAIN x.done, x.done[m].id = x.done[n].id PROVE m = n
      BY DEF DistinctIds
    <3>1. 1 \in DOMAIN r.todo
      BY <1>3, <1>7
    <3>2. \A l \in DOMAIN r.done : r.done[l].id # i
      BY <1>0, <3>1 DEF Apart
    <3> QED BY <1>0, <1>3, <1>5, <1>7, <3>2 DEF Apart, DistinctIds
  <2>3. \A m \in DOMAIN x.todo, n \in DOMAIN x.done : x.todo[m].id # x.done[n].id
    <3> SUFFICES ASSUME NEW m \in DOMAIN x.todo, NEW n \in DOMAIN x.done PROVE x.todo[m].id # x.done[n].id
      OBVIOUS
    <3>1. m + 1 \in DOMAIN r.todo /\ m + 1 # 1 /\ 1 \in DOMAIN r.todo /\ x.todo[m] = r.todo[m + 1]
      BY <1>3, <1>4, <1>7
    <3>2. r.todo[m + 1].id # i
      BY <1>0, <3>1 DEF Apart, DistinctIds
    <3> QED BY <1>0, <1>3, <1>5, <1>7, <3>1, <3>2 DEF Apart
  <2>4. \A n \in DOMAIN x.done : x.done[n].id \in held
    BY <1>0, <1>3, <1>5, <1>7 DEF Apart
  <2> QED BY <2>1, <2>2, <2>3, <2>4 DEF Apart
<1>9. Knows(x, rows, bad)
  <2>1. DoneKnown(x, rows, bad)
    BY <1>0, <1>3, <1>5, <1>7 DEF DoneKnown
  <2> QED BY <2>1 DEF Knows
<1>10. r.protected \in Nat /\ r.refused \in Nat /\ r.ready \in Nat
  BY <1>0 DEF IsJob
<1>11. Len(x.todo) = Len(r.todo) - 1 /\ Len(x.done) = Len(r.done) + 1
  BY <1>3, TailOf, AppendOf
<1>12. Counted(x)
  <2> SUFFICES ASSUME r.file # NoFile PROVE Counted(x)
    BY DEF Counted
  <2>1. /\ Len(Items[r.file]) > 0
        /\ r.protected + r.refused + Len(r.todo) = Len(Items[r.file])
        /\ \A m \in DOMAIN r.todo : r.todo[m] = Items[r.file][r.protected + r.refused + m]
        /\ DOMAIN r.sheet = SheetColumns /\ r.sheet.total = Len(Lines[r.file]) /\ r.sheet.ready = 0
        /\ r.ready = 0 /\ Len(r.done) = r.protected
    BY <1>0 DEF Counted
  <2>2. ASSUME NEW m \in DOMAIN x.todo PROVE x.todo[m] = Items[r.file][r.protected + 1 + r.refused + m]
    <3>1. m \in Nat /\ m + 1 \in DOMAIN r.todo /\ x.todo[m] = r.todo[m + 1]
      BY <1>3, <1>4, <1>7
    <3>2. r.protected \in Int /\ r.refused \in Int /\ m \in Int
      BY <1>10, <3>1
    <3>3. r.protected + r.refused + (m + 1) = r.protected + 1 + r.refused + m
      BY <3>2, Shift
    <3> QED BY <2>1, <3>1, <3>3
  <2>3. r.protected + 1 + r.refused + Len(x.todo) = Len(Items[r.file])
    <3>1. r.protected \in Int /\ r.refused \in Int /\ Len(r.todo) \in Int
      BY <1>3, <1>10
    <3>2. r.protected + 1 + r.refused + (Len(r.todo) - 1) = r.protected + r.refused + Len(r.todo)
      BY <3>1, Shift
    <3> QED BY <1>11, <2>1, <3>2
  <2> QED BY <1>11, <2>1, <2>2, <2>3 DEF Counted
<1>13. Fits(x, rows, bad)
  <2> SUFFICES ASSUME r.file # NoFile, r.refused = 0, NEW n \in 1 .. r.protected + 1
               PROVE  ItemFits(Items[r.file][n], x, rows, bad)
    BY DEF Fits
  <2>1. /\ \A m \in DOMAIN r.todo : r.todo[m] = Items[r.file][r.protected + r.refused + m]
        /\ r.ready = 0 /\ Len(r.done) = r.protected
    BY <1>0 DEF Counted
  <2>2. \A id \in Ids(r.done) : id \in Ids(x.done)
    BY <1>3, <1>5, <1>7 DEF Ids
  <2>3. i \in Ids(x.done)
    BY <1>3, <1>5 DEF Ids
  <2>4. CASE n <= r.protected
    <3>1. n \in 1 .. r.protected /\ r.ready + Len(r.done) = r.protected
      BY <1>10, <2>1, <2>4
    <3>2. ItemFits(Items[r.file][n], r, rows, bad)
      BY <1>0, <3>1 DEF Fits
    <3> QED BY <2>2, <3>2 DEF ItemFits
  <2>5. CASE n = r.protected + 1
    <3>1. 1 \in DOMAIN r.todo /\ r.protected + r.refused + 1 = n
      BY <1>3, <1>7, <1>10, <2>5
    <3>2. Items[r.file][n] = r.todo[1]
      BY <2>1, <3>1
    <3> QED BY <2>3, <3>2 DEF ItemFits, Noted
  <2> QED BY <1>10, <2>4, <2>5
<1> QED BY <1>6, <1>8, <1>9, <1>12, <1>13 DEF Sound

\* The first item, and a job that runs.
LEMMA FirstItem ==
    ASSUME NEW r, IsJob(r), Len(r.todo) > 0
    PROVE  Head(r.todo) = r.todo[1] /\ r.todo[1] \in Item /\ r.todo[1].id \in Records /\ 1 \in DOMAIN r.todo
<1>1. r.todo \in Seq(Item)
  BY DEF IsJob
<1>2. Head(r.todo) = r.todo[1] /\ r.todo[1] \in Item /\ 1 \in DOMAIN r.todo
  BY <1>1
<1> QED BY <1>2 DEF Item

LEMMA FirstDone ==
    ASSUME NEW r, IsJob(r), Len(r.done) > 0
    PROVE  Head(r.done) = r.done[1] /\ r.done[1] \in Done /\ r.done[1].id \in Records /\ 1 \in DOMAIN r.done
<1>1. r.done \in Seq(Done)
  BY DEF IsJob
<1>2. Head(r.done) = r.done[1] /\ r.done[1] \in Done /\ 1 \in DOMAIN r.done
  BY <1>1
<1> QED BY <1>2 DEF Done

LEMMA Running ==
    ASSUME StoreInv, NEW j \in Jobs, job[j].phase # "idle"
    PROVE  Sound(job[j], row, contended) /\ IsJob(job[j]) /\ Apart(job[j]) /\ InHand(j) = job[j].held
<1>1. job[j] # Idle
  BY DEF Idle
<1>2. Sound(job[j], row, contended)
  BY <1>1 DEF StoreInv
<1> QED BY <1>1, <1>2 DEF Sound, InHand

\* The row that is read is in the hand of the job.
LEMMA Claims ==
    ASSUME NEW r, NEW rows, NEW bad, Sound(r, rows, bad), r.phase = "protect", Len(r.todo) > 0,
           NEW held \in SUBSET Records, r.held \subseteq held, r.todo[1].id \in held,
           NEW x, DOMAIN x = JobColumns, x.phase = "write", x.held = held, x.loaded = rows[r.todo[1].id],
           x.file = r.file, x.todo = r.todo, x.done = r.done, x.sheet = r.sheet,
           x.protected = r.protected, x.refused = r.refused, x.ready = r.ready
    PROVE  Sound(x, rows, bad)
<1>0. IsJob(r) /\ Apart(r) /\ Knows(r, rows, bad) /\ Counted(r) /\ Fits(r, rows, bad)
  BY DEF Sound
<1>1. IsJob(x)
  BY <1>0 DEF IsJob
<1>2. Apart(x)
  BY <1>0 DEF Apart
<1>3. Knows(x, rows, bad)
  BY <1>0 DEF Knows, DoneKnown
<1>4. Counted(x)
  BY <1>0 DEF Counted
<1>5. Fits(x, rows, bad)
  BY <1>0 DEF Fits, ItemFits
<1> QED BY <1>1, <1>2, <1>3, <1>4, <1>5 DEF Sound

LEMMA ReadKeeps ==
    ASSUME StoreInv, NEW j \in Jobs, ReadRow(j)
    PROVE  StoreInv'
<1>1. PICK r : r = job[j]
  OBVIOUS
<1>2. r.phase = "protect" /\ r.todo # <<>>
  BY <1>1 DEF ReadRow
<1>3. IsJob(r) /\ Apart(r) /\ Sound(r, row, contended) /\ InHand(j) = r.held
  BY <1>1, <1>2, Running
<1>4. Len(r.todo) > 0
  BY <1>2, <1>3 DEF IsJob
<1>5. PICK i : i = r.todo[1].id
  OBVIOUS
<1>6. Head(r.todo) = r.todo[1] /\ i \in Records
  BY <1>3, <1>4, <1>5, FirstItem
<1>7. PICK h : h = [r EXCEPT !.held = r.held \union {i}]
  OBVIOUS
<1>8. PICK x : x = IF NeedsProtection(row[i], r.todo[1]) THEN [h EXCEPT !.phase = "write", !.loaded = row[i]] ELSE NextItem(h, TRUE)
  OBVIOUS
<1>9. /\ job' = [job EXCEPT ![j] = x] /\ contended' = IF HeldByOther(i, j) THEN contended \union {i} ELSE contended
      /\ UNCHANGED <<row, links, batch, deployment, rewritten, doubled>>
  BY <1>1, <1>5, <1>6, <1>7, <1>8 DEF ReadRow, store
<1>10. OnlyJob(j) /\ job'[j] = x
  BY <1>9, JobChanges DEF StoreInv
<1>11. PICK held : held = r.held \union {i}
  OBVIOUS
<1>12. held \in SUBSET Records /\ r.held \subseteq held /\ i \in held
  BY <1>3, <1>6, <1>11 DEF IsJob
<1>13. contended \subseteq contended' /\ Sound(r, row, contended')
  <2>1. contended \subseteq contended'
    BY <1>9
  <2> QED BY <1>3, <2>1, Kept
<1>14. /\ DOMAIN h = JobColumns /\ h.phase = r.phase /\ h.held = held /\ h.file = r.file /\ h.todo = r.todo
       /\ h.done = r.done /\ h.loaded = r.loaded /\ h.sheet = r.sheet /\ h.protected = r.protected
       /\ h.refused = r.refused /\ h.ready = r.ready
  BY <1>3, <1>7, <1>11 DEF IsJob, JobColumns
<1>15. Sound(x, row, contended') /\ x.held = held /\ x.file = r.file /\ x.sheet = r.sheet
  <2>1. CASE NeedsProtection(row[i], r.todo[1])
    <3>1. x = [h EXCEPT !.phase = "write", !.loaded = row[i]]
      BY <1>8, <2>1
    <3>2. /\ DOMAIN x = JobColumns /\ x.phase = "write" /\ x.held = held /\ x.file = r.file /\ x.todo = r.todo
          /\ x.done = r.done /\ x.loaded = row[i] /\ x.sheet = r.sheet /\ x.protected = r.protected
          /\ x.refused = r.refused /\ x.ready = r.ready
      BY <1>14, <3>1 DEF JobColumns
    <3> QED BY <1>2, <1>4, <1>5, <1>12, <1>13, <3>2, Claims
  <2>2. CASE ~NeedsProtection(row[i], r.todo[1])
    <3>1. x = NextItem(h, TRUE)
      BY <1>8, <2>2
    <3>2. PICK d : d = [id |-> i, ready |-> TRUE]
      OBVIOUS
    <3>3. d \in Done /\ d.id = i /\ d.ready
      BY <1>6, <3>2 DEF Done
    <3>4. /\ DOMAIN x = JobColumns /\ x.phase = "protect" /\ x.held = held /\ x.file = r.file
          /\ x.todo = Tail(r.todo) /\ x.done = Append(r.done, d)
          /\ x.sheet = r.sheet /\ x.protected = r.protected + 1 /\ x.refused = r.refused /\ x.ready = r.ready
      <4>1. Head(h.todo).id = i
        BY <1>5, <1>6, <1>14
      <4>2. /\ DOMAIN x = JobColumns /\ x.phase = "protect" /\ x.held = h.held /\ x.file = h.file
            /\ x.todo = Tail(h.todo) /\ x.done = Append(h.done, [id |-> Head(h.todo).id, ready |-> TRUE])
            /\ x.sheet = h.sheet /\ x.protected = h.protected + 1 /\ x.refused = h.refused /\ x.ready = h.ready
        BY <1>14, <3>1 DEF NextItem, JobColumns
      <4> QED BY <1>14, <3>2, <4>1, <4>2
    <3>5. i \notin contended' => Noted(row[i], d) /\ Holds(row[i], r.todo[1])
      <4>1. row[i] # NoText /\ row[i].status = "ready" /\ row[i].print \in {NoPrint, r.todo[1].content}
        BY <2>2 DEF NeedsProtection
      <4>2. i \notin contended' => RowSound(i)
        BY <1>6, <1>13 DEF StoreInv
      <4> QED BY <3>3, <4>1, <4>2 DEF RowSound, Noted, Printed, Holds
    <3> QED BY <1>2, <1>4, <1>5, <1>12, <1>13, <3>3, <3>4, <3>5, Advance
  <2> QED BY <2>1, <2>2
<1>16. InHand(j)' = held
  <2>1. IsJob(x)
    BY <1>15 DEF Sound
  <2> QED BY <1>10, <1>15, <2>1, NotIdle DEF InHand
<1>17. \A i1 \in InHand(j)' : i1 \in InHand(j) \/ i1 \in contended' \/ ~HeldByOther(i1, j)
  BY <1>3, <1>9, <1>11, <1>16
<1>18. \A i1 \in Records \ contended' : RowSound(i1)'
  BY <1>9, <1>13, RowsStay
<1>19. \A f \in Files \ doubled' : BatchSound(f)'
  BY <1>1, <1>3, <1>9, <1>10, <1>15, NotIdle, BatchesStay
<1> QED BY <1>9, <1>10, <1>13, <1>15, <1>17, <1>18, <1>19, JobGoesOn

\* One row is written.
LEMMA RowStays ==
    ASSUME NEW i, RowSound(i), row'[i] = row[i], deployment' = deployment, rewritten \subseteq rewritten',
           \A c \in Customers : <<c, i>> \in links' => <<c, i>> \in links
    PROVE  RowSound(i)'
BY DEF RowSound, DerivedOf, Printed, Makers

LEMMA ProtectedRow ==
    ASSUME NEW text, NEW v, v = Protected(text)
    PROVE  /\ DOMAIN v = RowColumns /\ IsRow(v) /\ v.status = "protected" /\ v.text = text /\ v.derived = NotDerived
           /\ v.print = text /\ v = [c \in DOMAIN v |-> v[c]] /\ v # NoText
<1>1. /\ DOMAIN v = RowColumns /\ v.status = "protected" /\ v.text = text /\ v.derived = NotDerived
      /\ v.print = text /\ v = [c \in DOMAIN v |-> v[c]]
  BY DEF Protected, RowColumns
<1>2. v # NoText
  BY <1>1 DEF NoText
<1> QED BY <1>1, <1>2 DEF IsRow

\* The items before the first that is to do are of other records.
LEMMA BeforeFirst ==
    ASSUME NEW r, IsJob(r), Counted(r), r.file # NoFile, Len(r.todo) > 0, r.refused = 0, NEW n \in 1 .. r.protected
    PROVE  Items[r.file][n].id # r.todo[1].id /\ Items[r.file][n].id \in Records
<1>1. r.file \in Files /\ r.protected \in Nat /\ r.refused \in Nat /\ 1 \in DOMAIN r.todo /\ Len(r.todo) \in Nat
  BY FirstItem DEF IsJob
<1>2. PICK items : items = Items[r.file]
  OBVIOUS
<1>3. items \in Seq(Item) /\ DistinctIds(items) /\ Len(items) \in Nat
  BY <1>1, <1>2, ItemsSound
<1>4. r.todo[1] = items[r.protected + r.refused + 1] /\ r.protected + r.refused + Len(r.todo) = Len(items)
  BY <1>1, <1>2 DEF Counted
<1>5. r.protected + r.refused + 1 = r.protected + 1 /\ r.protected + 1 \in 1 .. Len(items) /\ n \in 1 .. Len(items) /\ n # r.protected + 1
  BY <1>1, <1>3, <1>4
<1>6. DOMAIN items = 1 .. Len(items) /\ items[n] \in Item
  BY <1>3, <1>5
<1>7. items[n].id # items[r.protected + 1].id
  BY <1>3, <1>5, <1>6 DEF DistinctIds
<1> QED BY <1>2, <1>4, <1>5, <1>6, <1>7 DEF Item

LEMMA WriteKeeps ==
    ASSUME StoreInv, NEW j \in Jobs, WriteRow(j)
    PROVE  StoreInv'
<1>1. PICK r : r = job[j]
  OBVIOUS
<1>2. r.phase = "write"
  BY <1>1 DEF WriteRow
<1>3. IsJob(r) /\ Apart(r) /\ Sound(r, row, contended) /\ InHand(j) = r.held
  BY <1>1, <1>2, Running
<1>4. Len(r.todo) > 0
  BY <1>2, <1>3 DEF IsJob
<1>5. PICK i : i = r.todo[1].id
  OBVIOUS
<1>6. Head(r.todo) = r.todo[1] /\ i \in Records /\ 1 \in DOMAIN r.todo
  BY <1>3, <1>4, <1>5, FirstItem
<1>7. PICK new : new = Protected(r.todo[1].content)
  OBVIOUS
<1>8. PICK v : v = IF r.loaded = NoText THEN new ELSE Written(row[i], r.loaded, new)
  OBVIOUS
<1>9. PICK x : x = [r EXCEPT !.phase = "link", !.loaded = new]
  OBVIOUS
<1>10. /\ r.loaded # NoText \/ ~Exists(i)
       /\ row' = [row EXCEPT ![i] = v]
       /\ rewritten' = IF Exists(i) /\ row[i].text # r.todo[1].content THEN rewritten \union {i} ELSE rewritten
       /\ UNCHANGED <<links, batch, deployment, contended, doubled>>
  BY <1>1, <1>5, <1>6, <1>7, <1>8 DEF WriteRow
<1>11. job' = [job EXCEPT ![j] = x]
  <2>1. job' = [job EXCEPT ![j].phase = "link", ![j].loaded = new]
    BY <1>1, <1>6, <1>7 DEF WriteRow
  <2>2. DOMAIN job = Jobs
    BY DEF StoreInv
  <2> QED BY <1>1, <1>9, <2>1, <2>2
<1>12. OnlyJob(j) /\ job'[j] = x
  BY <1>11, JobChanges DEF StoreInv
<1>13. /\ DOMAIN x = JobColumns /\ x.phase = "link" /\ x.held = r.held /\ x.file = r.file /\ x.todo = r.todo
       /\ x.done = r.done /\ x.loaded = new /\ x.sheet = r.sheet /\ x.protected = r.protected
       /\ x.refused = r.refused /\ x.ready = r.ready
  BY <1>3, <1>9 DEF IsJob, JobColumns
<1>14. /\ DOMAIN new = RowColumns /\ IsRow(new) /\ new.status = "protected" /\ new.text = r.todo[1].content
       /\ new.derived = NotDerived /\ new.print = new.text /\ new = [c \in DOMAIN new |-> new[c]]
  BY <1>7, ProtectedRow
<1>15. i \notin contended => row[i] = r.loaded /\ v = new
  <2> SUFFICES ASSUME i \notin contended PROVE row[i] = r.loaded /\ v = new
    OBVIOUS
  <2>1. row[i] = r.loaded
    BY <1>2, <1>3, <1>5 DEF Sound, Knows
  <2>2. RowSound(i)
    BY <1>6 DEF StoreInv
  <2>3. CASE r.loaded = NoText
    BY <1>8, <2>1, <2>3
  <2>4. CASE r.loaded # NoText
    <3>1. DOMAIN row[i] = RowColumns
      BY <2>1, <2>2, <2>4 DEF RowSound, IsRow
    <3>2. v = Written(row[i], row[i], new)
      BY <1>8, <2>1, <2>4
    <3> QED BY <1>14, <2>1, <3>1, <3>2, WrittenIsNew
  <2> QED BY <2>3, <2>4
<1>16. DOMAIN row = Records
  BY DEF StoreInv
<1>17. DOMAIN row' = Records /\ row'[i] = v /\ \A k \in Records : k # i => row'[k] = row[k]
  BY <1>6, <1>10, <1>16
<1>18. i \in r.held
  BY <1>2, <1>3, <1>5 DEF Apart
<1>19. Sound(x, row', contended')
  <2>1. IsJob(x)
    BY <1>3, <1>4, <1>13 DEF IsJob
  <2>2. Apart(x)
    BY <1>2, <1>3, <1>13 DEF Apart
  <2>3. DoneKnown(x, row', contended')
    <3> SUFFICES ASSUME NEW n \in DOMAIN r.done, r.done[n].id \notin contended
                 PROVE  Noted(row'[r.done[n].id], r.done[n])
      BY <1>10, <1>13 DEF DoneKnown
    <3>1. r.done[n].id # i /\ Noted(row[r.done[n].id], r.done[n])
      BY <1>3, <1>5, <1>6 DEF Apart, Sound, Knows, DoneKnown
    <3>2. r.done[n].id \in Records
      BY <1>3 DEF Apart, IsJob
    <3> QED BY <1>17, <3>1, <3>2
  <2>4. Knows(x, row', contended')
    BY <1>5, <1>7, <1>10, <1>13, <1>15, <1>17, <2>3 DEF Knows
  <2>5. Counted(r) /\ Fits(r, row, contended)
    BY <1>3 DEF Sound
  <2>6. Counted(x)
    BY <1>2, <1>13, <2>5 DEF Counted
  <2>7. Fits(x, row', contended')
    <3> SUFFICES ASSUME r.file # NoFile, r.refused = 0, r.ready + Len(r.done) = r.protected, NEW n \in 1 .. r.protected
                 PROVE  ItemFits(Items[r.file][n], x, row', contended')
      BY <1>13 DEF Fits
    <3>1. ItemFits(Items[r.file][n], r, row, contended)
      BY <2>5 DEF Fits
    <3>2. Items[r.file][n].id # i /\ Items[r.file][n].id \in Records
      BY <1>3, <1>4, <1>5, <2>5, BeforeFirst
    <3> QED BY <1>10, <1>13, <1>17, <3>1, <3>2 DEF ItemFits
  <2> QED BY <2>1, <2>2, <2>4, <2>6, <2>7 DEF Sound
<1>20. InHand(j)' = r.held
  <2>1. IsJob(x)
    BY <1>19 DEF Sound
  <2> QED BY <1>12, <1>13, <2>1, NotIdle DEF InHand
<1>21. rewritten \subseteq rewritten'
  BY <1>10
<1>22. ASSUME NEW k \in Records \ contended' PROVE RowSound(k)'
  <2>1. RowSound(k)
    BY <1>10 DEF StoreInv
  <2>2. CASE k # i
    BY <1>10, <1>17, <1>21, <2>1, <2>2, RowStays
  <2>3. CASE k = i
    <3>1. row'[i] = new
      BY <1>10, <1>15, <1>17, <2>3
    <3>2. (IsRow(row[i]) /\ i \notin rewritten') => row[i].text = new.text /\ i \notin rewritten
      BY <1>10, <1>14 DEF IsRow, Exists
    <3> QED BY <1>10, <1>14, <2>1, <2>3, <3>1, <3>2 DEF RowSound, DerivedOf, Printed, Makers
  <2> QED BY <2>2, <2>3
<1>23. \A k \in Records : row'[k] # row[k] => k \in InHand(j)
  BY <1>3, <1>17, <1>18
<1>24. \A k \in InHand(j)' : k \in InHand(j)
  BY <1>3, <1>20
<1>25. \A f \in Files \ doubled' : BatchSound(f)'
  BY <1>1, <1>3, <1>10, <1>12, <1>13, NotIdle, BatchesStay
<1> QED BY <1>10, <1>12, <1>16, <1>17, <1>19, <1>22, <1>23, <1>24, <1>25, JobGoesOn

\* An item that is given up.
LEMMA Skips ==
    ASSUME NEW r, NEW rows, NEW bad, Sound(r, rows, bad), r.phase = "write", Len(r.todo) > 0,
           NEW x, DOMAIN x = JobColumns, x.phase = "protect", x.held = r.held, x.file = r.file,
           x.todo = Tail(r.todo), x.done = r.done, x.sheet = r.sheet,
           x.protected = r.protected, x.refused = r.refused + 1, x.ready = r.ready
    PROVE  Sound(x, rows, bad)
<1>0. IsJob(r) /\ Apart(r) /\ Knows(r, rows, bad) /\ Counted(r)
  BY DEF Sound
<1>1. r.todo \in Seq(Item) /\ Len(r.todo) \in Nat /\ DOMAIN r.todo = 1 .. Len(r.todo)
  BY <1>0 DEF IsJob
<1>2. /\ x.todo \in Seq(Item) /\ DOMAIN x.todo = 1 .. Len(r.todo) - 1
      /\ \A n \in 1 .. Len(r.todo) - 1 : x.todo[n] = r.todo[n + 1]
  BY <1>1, TailOf
<1>3. IsJob(x)
  BY <1>0, <1>2 DEF IsJob
<1>4. \A n \in DOMAIN x.todo : n \in Nat /\ n + 1 \in DOMAIN r.todo /\ x.todo[n] = r.todo[n + 1]
  BY <1>1, <1>2
<1>5. DistinctIds(x.todo)
  <2> SUFFICES ASSUME NEW m \in DOMAIN x.todo, NEW n \in DOMAIN x.todo, x.todo[m].id = x.todo[n].id PROVE m = n
    BY DEF DistinctIds
  <2>1. m + 1 = n + 1
    BY <1>0, <1>4 DEF Apart, DistinctIds
  <2> QED BY <1>4, <2>1
<1>6. Apart(x)
  BY <1>0, <1>4, <1>5 DEF Apart
<1>7. Knows(x, rows, bad)
  BY <1>0 DEF Knows, DoneKnown
<1>8. r.protected \in Nat /\ r.refused \in Nat /\ r.refused + 1 # 0
  BY <1>0 DEF IsJob
<1>9. Counted(x)
  <2> SUFFICES ASSUME r.file # NoFile PROVE Counted(x)
    BY DEF Counted
  <2>1. /\ Len(Items[r.file]) > 0
        /\ r.protected + r.refused + Len(r.todo) = Len(Items[r.file])
        /\ \A m \in DOMAIN r.todo : r.todo[m] = Items[r.file][r.protected + r.refused + m]
        /\ DOMAIN r.sheet = SheetColumns /\ r.sheet.total = Len(Lines[r.file]) /\ r.sheet.ready = 0
        /\ r.ready = 0 /\ Len(r.done) = r.protected
    BY <1>0 DEF Counted
  <2>2. ASSUME NEW m \in DOMAIN x.todo PROVE x.todo[m] = Items[r.file][r.protected + (r.refused + 1) + m]
    <3>1. m \in Nat /\ m + 1 \in DOMAIN r.todo /\ x.todo[m] = r.todo[m + 1]
      BY <1>4
    <3>2. r.protected \in Int /\ r.refused \in Int /\ m \in Int
      BY <1>8, <3>1
    <3>3. r.protected + r.refused + (m + 1) = r.protected + (r.refused + 1) + m
      BY <3>2, Shift
    <3> QED BY <2>1, <3>1, <3>3
  <2>3. r.protected + (r.refused + 1) + Len(x.todo) = Len(Items[r.file])
    <3>1. r.protected \in Int /\ r.refused \in Int /\ Len(r.todo) \in Int
      BY <1>1, <1>8
    <3>2. r.protected + (r.refused + 1) + (Len(r.todo) - 1) = r.protected + r.refused + Len(r.todo)
      BY <3>1, Shift
    <3>3. Len(x.todo) = Len(r.todo) - 1
      BY <1>1, TailOf
    <3> QED BY <2>1, <3>2, <3>3
  <2> QED BY <2>1, <2>2, <2>3 DEF Counted
<1>10. Fits(x, rows, bad)
  BY <1>8 DEF Fits
<1> QED BY <1>3, <1>6, <1>7, <1>9, <1>10 DEF Sound

\* A step of one job that leaves the rows and the links alone.
LEMMA RowsAlone ==
    ASSUME StoreInv, NEW j \in Jobs, NEW x, job' = [job EXCEPT ![j] = x],
           UNCHANGED <<row, links, deployment, rewritten, contended>>, DOMAIN batch' = DOMAIN batch,
           x = Idle \/ (Sound(x, row, contended) /\ x.held = InHand(j)),
           \A f \in Files \ doubled' : BatchSound(f)'
    PROVE  StoreInv'
<1>1. OnlyJob(j) /\ job'[j] = x
  BY JobChanges DEF StoreInv
<1>2. \A k \in Records \ contended' : RowSound(k)'
  BY RowsStay
<1>3. \A k \in InHand(j)' : k \in InHand(j)
  <2>1. CASE x = Idle
    BY <1>1, <2>1 DEF InHand
  <2>2. CASE Sound(x, row, contended) /\ x.held = InHand(j)
    <3>1. IsJob(x)
      BY <2>2 DEF Sound
    <3> QED BY <1>1, <2>2, <3>1, NotIdle DEF InHand
  <2> QED BY <2>1, <2>2
<1> QED BY <1>1, <1>2, <1>3, JobGoesOn

LEMMA FailsKeeps ==
    ASSUME StoreInv, NEW j \in Jobs, ProtectionFails(j)
    PROVE  StoreInv'
<1>1. PICK r : r = job[j]
  OBVIOUS
<1>2. r.phase = "write"
  BY <1>1 DEF ProtectionFails
<1>3. IsJob(r) /\ Apart(r) /\ Sound(r, row, contended) /\ InHand(j) = r.held
  BY <1>1, <1>2, Running
<1>4. Len(r.todo) > 0
  BY <1>2, <1>3 DEF IsJob
<1>5. PICK x : x = IF r.file = NoFile THEN Idle
                   ELSE [r EXCEPT !.phase = "protect", !.todo = Tail(@), !.loaded = NoText, !.refused = @ + 1]
  OBVIOUS
<1>6. job' = [job EXCEPT ![j] = x] /\ UNCHANGED <<row, links, batch, deployment, rewritten, contended, doubled>>
  BY <1>1, <1>5 DEF ProtectionFails, store, history
<1>6a. OnlyJob(j) /\ job'[j] = x
  BY <1>6, JobChanges DEF StoreInv
<1>7. CASE r.file = NoFile
  <2>1. x = Idle
    BY <1>5, <1>7
  <2>2. \A f \in Files \ doubled' : BatchSound(f)'
    BY <1>6, <1>6a, <2>1, BatchesStay
  <2> QED BY <1>6, <2>1, <2>2, RowsAlone
<1>8. CASE r.file # NoFile
  <2>1. x = [r EXCEPT !.phase = "protect", !.todo = Tail(@), !.loaded = NoText, !.refused = @ + 1]
    BY <1>5, <1>8
  <2>2. /\ DOMAIN x = JobColumns /\ x.phase = "protect" /\ x.held = r.held /\ x.file = r.file
        /\ x.todo = Tail(r.todo) /\ x.done = r.done /\ x.sheet = r.sheet
        /\ x.protected = r.protected /\ x.refused = r.refused + 1 /\ x.ready = r.ready
    BY <1>3, <2>1 DEF IsJob, JobColumns
  <2>4. Sound(x, row, contended)
    BY <1>2, <1>3, <1>4, <2>2, Skips
  <2>5. \A f \in Files \ doubled' : BatchSound(f)'
    BY <1>1, <1>3, <1>6, <1>6a, <2>2, NotIdle, BatchesStay
  <2> QED BY <1>3, <1>6, <2>2, <2>4, <2>5, RowsAlone
<1> QED BY <1>7, <1>8

LEMMA LinkKeeps ==
    ASSUME StoreInv, NEW j \in Jobs, LinkRow(j)
    PROVE  StoreInv'
<1>1. PICK r : r = job[j]
  OBVIOUS
<1>2. r.phase = "link"
  BY <1>1 DEF LinkRow
<1>3. IsJob(r) /\ Apart(r) /\ Sound(r, row, contended) /\ InHand(j) = r.held
  BY <1>1, <1>2, Running
<1>4. Len(r.todo) > 0
  BY <1>2, <1>3 DEF IsJob
<1>5. PICK i : i = r.todo[1].id
  OBVIOUS
<1>6. Head(r.todo) = r.todo[1] /\ i \in Records
  BY <1>3, <1>4, <1>5, FirstItem
<1>7. UNCHANGED <<row, batch, deployment, rewritten, contended, doubled>>
  BY DEF LinkRow, history
<1>8. PICK ready \in BOOLEAN :
          /\ job' = [job EXCEPT ![j] = NextItem(r, ready)]
          /\ ready => row[i].status = "ready"
          /\ links' = links \/ links' = links \union {<<c, i>> : c \in Mentioned(r.loaded.text)}
  <2>1. CASE /\ links' = links \union {<<c, Head(r.todo).id>> : c \in Mentioned(r.loaded.text)}
             /\ job' = [job EXCEPT ![j] = NextItem(r, FALSE)]
    BY <1>5, <1>6, <2>1
  <2>2. CASE /\ UNCHANGED links
             /\ job' = [job EXCEPT ![j] = NextItem(r, r.file # NoFile /\ row[Head(r.todo).id].status = "ready")]
    BY <1>5, <1>6, <2>2
  <2> QED BY <1>1, <2>1, <2>2 DEF LinkRow
<1>9. i \notin contended => r.loaded = Protected(r.todo[1].content) /\ row[i] = r.loaded
  BY <1>2, <1>3, <1>5 DEF Sound, Knows
<1>10. i \notin contended => IsRow(row[i]) /\ row[i].status = "protected" /\ row[i].text = r.loaded.text
  BY <1>9, ProtectedRow
<1>11. PICK x : x = NextItem(r, ready)
  OBVIOUS
<1>12. OnlyJob(j) /\ job'[j] = x
  BY <1>8, <1>11, JobChanges DEF StoreInv
<1>13. PICK d : d = [id |-> i, ready |-> ready]
  OBVIOUS
<1>14. d \in Done /\ d.id = i /\ d.ready = ready
  BY <1>6, <1>13 DEF Done
<1>15. /\ DOMAIN x = JobColumns /\ x.phase = "protect" /\ x.held = r.held /\ x.file = r.file
       /\ x.todo = Tail(r.todo) /\ x.done = Append(r.done, d) /\ x.sheet = r.sheet
       /\ x.protected = r.protected + 1 /\ x.refused = r.refused /\ x.ready = r.ready
  <2>1. Head(r.todo).id = i
    BY <1>5, <1>6
  <2>2. /\ DOMAIN x = JobColumns /\ x.phase = "protect" /\ x.held = r.held /\ x.file = r.file
        /\ x.todo = Tail(r.todo) /\ x.done = Append(r.done, [id |-> Head(r.todo).id, ready |-> ready])
        /\ x.sheet = r.sheet /\ x.protected = r.protected + 1 /\ x.refused = r.refused /\ x.ready = r.ready
    BY <1>3, <1>11 DEF NextItem, IsJob, JobColumns
  <2> QED BY <1>13, <2>1, <2>2
<1>16. Sound(x, row, contended)
  <2>1. i \notin contended => Noted(row[i], d) /\ Holds(row[i], r.todo[1])
    BY <1>8, <1>9, <1>10, <1>14, ProtectedRow DEF Noted, Holds
  <2>3. i \in r.held /\ r.held \in SUBSET Records
    BY <1>2, <1>3, <1>5 DEF Apart, IsJob
  <2> QED BY <1>2, <1>3, <1>4, <1>5, <1>14, <1>15, <2>1, <2>3, Advance
<1>17. InHand(j)' = r.held
  <2>1. IsJob(x)
    BY <1>16 DEF Sound
  <2> QED BY <1>12, <1>15, <2>1, NotIdle DEF InHand
<1>18. ASSUME NEW k \in Records \ contended' PROVE RowSound(k)'
  <2>1. RowSound(k) /\ row' = row /\ deployment' = deployment /\ rewritten' = rewritten /\ contended' = contended
    BY <1>7 DEF StoreInv
  <2>2. CASE k # i
    <3>1. \A c \in Customers : <<c, k>> \in links' => <<c, k>> \in links
      BY <1>8, <2>2
    <3> QED BY <2>1, <3>1, RowStays
  <2>3. CASE k = i
    <3>1. \A c \in Customers : <<c, i>> \in links' => <<c, i>> \in links \/ c \in Mentioned(r.loaded.text)
      BY <1>8
    <3>2. IsRow(row[i]) /\ row[i].text = r.loaded.text
      BY <1>10, <2>1, <2>3
    <3> QED BY <2>1, <2>3, <3>1, <3>2 DEF RowSound, DerivedOf, Printed, Makers
  <2> QED BY <2>2, <2>3
<1>19. \A f \in Files \ doubled' : BatchSound(f)'
  BY <1>1, <1>3, <1>7, <1>12, <1>15, NotIdle, BatchesStay
<1> QED BY <1>3, <1>7, <1>12, <1>16, <1>17, <1>18, <1>19, JobGoesOn

\* The counts of a batch are written over what the job has in memory.
LEMMA SheetSaved ==
    ASSUME StoreInv, NEW j \in Jobs, NEW f \in Files, Works(j, f), NEW new,
           DOMAIN job[j].sheet = SheetColumns, DOMAIN new = SheetColumns, new = [c \in DOMAIN new |-> new[c]],
           batch' = [batch EXCEPT ![f] = Written(batch[f], job[j].sheet, new)], SheetSound(f, new),
           OnlyJob(j), job'[j] = Idle \/ (job'[j].file = f /\ job'[j].sheet = new), doubled' = doubled
    PROVE  /\ DOMAIN batch' = DOMAIN batch
           /\ \A g \in Files \ doubled' : BatchSound(g)'
           /\ f \notin doubled => batch'[f] = new
           /\ \A g \in Files : g # f => batch'[g] = batch[g]
<1>1. DOMAIN batch = Files
  BY DEF StoreInv
<1>2. \A g \in Files : g # f => batch'[g] = batch[g]
  BY <1>1
<1>3. f \notin doubled => BatchSound(f) /\ batch'[f] = new
  <2> SUFFICES ASSUME f \notin doubled PROVE BatchSound(f) /\ batch'[f] = new
    OBVIOUS
  <2>1. BatchSound(f)
    BY DEF StoreInv
  <2>2. job[j].sheet = batch[f]
    BY <2>1 DEF BatchSound
  <2>3. Written(batch[f], job[j].sheet, new) = new
    BY <2>2, WrittenIsNew
  <2> QED BY <1>1, <2>1, <2>3
<1>4. ASSUME NEW g \in Files \ doubled' PROVE BatchSound(g)'
  <2>1. BatchSound(g)
    BY DEF StoreInv
  <2>2. CASE g # f
    <3>1. \A q \in Jobs : Works(q, g)' => Works(q, g) /\ job'[q].sheet = job[q].sheet
      BY <2>2 DEF Works, OnlyJob
    <3> QED BY <1>2, <2>1, <2>2, <3>1 DEF BatchSound
  <2>3. CASE g = f
    <3>1. \A q \in Jobs : Works(q, f) => q = j
      BY <2>1, <2>3 DEF BatchSound
    <3>2. \A q \in Jobs : Works(q, f)' => q = j /\ job'[q].sheet = new
      BY <3>1 DEF Works, OnlyJob
    <3> QED BY <1>3, <2>3, <3>2 DEF BatchSound
  <2> QED BY <2>2, <2>3
<1> QED BY <1>1, <1>2, <1>3, <1>4

LEMMA Balance ==
    ASSUME NEW a \in Int, NEW p \in Int, NEW q \in Int, NEW n \in Int, NEW m \in Int, p + q = m, a + m = n, NEW k \in Int
    PROVE  k + (a + q + (p - k)) = n /\ p + (a + q) = n
OBVIOUS

\* What a job writes of its batch when all is protected.
LEMMA ProtectedCounts ==
    ASSUME NEW r, IsJob(r), Counted(r), r.file # NoFile, r.phase = "protect", Len(r.todo) = 0, NEW new,
           new.total = r.sheet.total, new.ready = r.sheet.ready, new.protected = r.protected,
           new.failed = Invalid(r.file) + r.refused, new.status = IF r.protected > 0 THEN "enriching" ELSE "failed"
    PROVE  SheetSound(r.file, new) /\ new.total = Len(Lines[r.file]) /\ new.ready = 0
<1>1. r.file \in Files /\ r.protected \in Nat /\ r.refused \in Nat
  BY DEF IsJob
<1>2. /\ Invalid(r.file) \in Nat /\ Invalid(r.file) + Len(Items[r.file]) = Len(Lines[r.file])
      /\ Len(Items[r.file]) \in Nat /\ Len(Lines[r.file]) \in Nat
  BY <1>1, ItemsSound
<1>3. /\ DOMAIN r.sheet = SheetColumns /\ r.sheet.total = Len(Lines[r.file]) /\ r.sheet.ready = 0
      /\ r.protected + r.refused = Len(Items[r.file]) /\ Len(Items[r.file]) > 0
  BY <1>1, <1>2 DEF Counted
<1>4. new.total = Len(Lines[r.file]) /\ new.ready = 0
  BY <1>3
<1>5. r.protected + (Invalid(r.file) + r.refused) = Len(Lines[r.file]) /\ Len(Lines[r.file]) > 0
  <2>1. /\ Invalid(r.file) \in Int /\ r.refused \in Int /\ r.protected \in Int
        /\ Len(Items[r.file]) \in Int /\ Len(Lines[r.file]) \in Int
    BY <1>1, <1>2
  <2>2. r.protected + (Invalid(r.file) + r.refused) = Len(Lines[r.file])
    BY <1>2, <1>3, <2>1, Balance
  <2>3. Len(Lines[r.file]) > 0
    BY <1>2, <1>3
  <2> QED BY <2>2, <2>3
<1>6. SheetSound(r.file, new)
  <2>1. CASE r.protected > 0
    BY <1>4, <1>5, <2>1 DEF SheetSound, Settled
  <2>2. CASE r.protected = 0
    <3>1. 0 + new.failed = new.total /\ new.status = "failed" /\ new.total > 0 /\ new.total \in Nat
      BY <1>1, <1>2, <1>4, <1>5, <2>2
    <3> QED BY <1>4, <2>2, <3>1 DEF SheetSound, Settled
  <2> QED BY <1>1, <2>1, <2>2
<1> QED BY <1>4, <1>6

\* What it writes when all is enriched.
LEMMA EnrichedCounts ==
    ASSUME NEW r, IsJob(r), Counted(r), r.file # NoFile, r.phase = "enrich", Len(r.done) = 0, NEW new,
           new.total = r.sheet.total, new.ready = r.ready, new.protected = r.sheet.protected,
           new.failed = Invalid(r.file) + r.refused + (r.protected - r.ready),
           new.status = Verdict(r.ready, r.sheet.total)
    PROVE  /\ SheetSound(r.file, new)
           /\ new.status = "ready" => r.refused = 0 /\ r.ready = r.protected /\ r.protected = Len(Items[r.file])
<1>1. r.file \in Files /\ r.protected \in Nat /\ r.refused \in Nat /\ r.ready \in Nat
  BY DEF IsJob
<1>2. /\ Invalid(r.file) \in Nat /\ Invalid(r.file) + Len(Items[r.file]) = Len(Lines[r.file])
      /\ Len(Items[r.file]) \in Nat /\ Len(Lines[r.file]) \in Nat
  BY <1>1, ItemsSound
<1>3. /\ DOMAIN r.sheet = SheetColumns /\ r.sheet.total = Len(Lines[r.file]) /\ r.sheet.protected = r.protected
      /\ r.protected + r.refused = Len(Items[r.file]) /\ Len(Items[r.file]) > 0 /\ r.ready <= r.protected
  BY <1>1, <1>2 DEF Counted
<1>4. /\ new.total = Len(Lines[r.file]) /\ new.protected = r.protected
      /\ new.status = Verdict(r.ready, Len(Lines[r.file]))
  BY <1>3
<1>5. r.ready + (Invalid(r.file) + r.refused + (r.protected - r.ready)) = Len(Lines[r.file])
  <2>1. /\ r.ready \in Int /\ Invalid(r.file) \in Int /\ r.refused \in Int /\ r.protected \in Int
        /\ Len(Items[r.file]) \in Int /\ Len(Lines[r.file]) \in Int
    BY <1>1, <1>2
  <2> QED BY <1>2, <1>3, <2>1, Balance
<1>5a. Len(Lines[r.file]) > 0
  BY <1>1, <1>2, <1>3
<1>6. /\ new.status \in {"ready", "partial", "failed"}
      /\ new.status = "ready" <=> r.ready = Len(Lines[r.file])
  BY <1>4 DEF Verdict
<1>7. SheetSound(r.file, new)
  BY <1>3, <1>4, <1>5, <1>5a, <1>6 DEF SheetSound, Settled
<1>8. new.status = "ready" => r.refused = 0 /\ r.ready = r.protected /\ r.protected = Len(Items[r.file])
  BY <1>1, <1>2, <1>3, <1>6
<1> QED BY <1>7, <1>8

\* A batch that becomes ready has its records READY with what the file says.
Searchable(f) ==
    batch'[f].status = "ready" /\ batch[f].status # "ready" =>
        \A n \in DOMAIN Items[f] :
            \/ Items[f][n].id \in contended'
            \/ row[Items[f][n].id].status = "ready" /\ Holds(row[Items[f][n].id], Items[f][n])

LEMMA EndProtectKeeps ==
    ASSUME StoreInv, NEW j \in Jobs, EndProtect(j)
    PROVE  StoreInv' /\ \A f \in Files \ doubled : Searchable(f)
<1>1. PICK r : r = job[j]
  OBVIOUS
<1>2. r.phase = "protect" /\ r.todo = <<>>
  BY <1>1 DEF EndProtect
<1>3. IsJob(r) /\ Apart(r) /\ Sound(r, row, contended) /\ InHand(j) = r.held
  BY <1>1, <1>2, Running
<1>4. PICK new : new = IF r.file = NoFile THEN NoBatch
                       ELSE [r.sheet EXCEPT !.protected = r.protected, !.failed = Invalid(r.file) + r.refused,
                                            !.status = IF r.protected > 0 THEN "enriching" ELSE "failed"]
  OBVIOUS
<1>5. PICK x : x = [r EXCEPT !.phase = "enrich", !.sheet = new]
  OBVIOUS
<1>6. job' = [job EXCEPT ![j] = x]
  <2>1. DOMAIN job = Jobs
    BY DEF StoreInv
  <2>2. job' = [job EXCEPT ![j].phase = "enrich", ![j].sheet = new]
    BY <1>1, <1>4 DEF EndProtect
  <2> QED BY <1>1, <1>5, <2>1, <2>2
<1>7. batch' = IF r.file = NoFile THEN batch ELSE [batch EXCEPT ![r.file] = Written(@, r.sheet, new)]
  BY <1>1, <1>4 DEF EndProtect, SaveBatch
<1>8. UNCHANGED <<row, links, deployment, rewritten, contended, doubled>>
  BY DEF EndProtect, history
<1>9. OnlyJob(j) /\ job'[j] = x
  BY <1>6, JobChanges DEF StoreInv
<1>10. /\ DOMAIN x = JobColumns /\ x.phase = "enrich" /\ x.held = r.held /\ x.file = r.file
       /\ x.todo = r.todo /\ x.done = r.done /\ x.sheet = new
       /\ x.protected = r.protected /\ x.refused = r.refused /\ x.ready = r.ready
  BY <1>3, <1>5 DEF IsJob, JobColumns
<1>11. Counted(r) /\ Fits(r, row, contended) /\ Knows(r, row, contended) /\ Len(r.todo) = 0
  BY <1>2, <1>3 DEF Sound
<1>12. r.file # NoFile =>
           /\ DOMAIN new = SheetColumns /\ new = [c \in DOMAIN new |-> new[c]] /\ SheetSound(r.file, new)
           /\ new.total = Len(Lines[r.file]) /\ new.ready = 0 /\ new.protected = r.protected
  <2> SUFFICES ASSUME r.file # NoFile
               PROVE  /\ DOMAIN new = SheetColumns /\ new = [c \in DOMAIN new |-> new[c]] /\ SheetSound(r.file, new)
                      /\ new.total = Len(Lines[r.file]) /\ new.ready = 0 /\ new.protected = r.protected
    OBVIOUS
  <2>1. new = [r.sheet EXCEPT !.protected = r.protected, !.failed = Invalid(r.file) + r.refused,
                              !.status = IF r.protected > 0 THEN "enriching" ELSE "failed"]
    BY <1>4
  <2>2. DOMAIN r.sheet = SheetColumns
    BY <1>11 DEF Counted
  <2>3. /\ DOMAIN new = SheetColumns /\ new = [c \in DOMAIN new |-> new[c]]
        /\ new.total = r.sheet.total /\ new.ready = r.sheet.ready /\ new.protected = r.protected
        /\ new.failed = Invalid(r.file) + r.refused /\ new.status = IF r.protected > 0 THEN "enriching" ELSE "failed"
    BY <2>1, <2>2 DEF SheetColumns
  <2>4. SheetSound(r.file, new) /\ new.total = Len(Lines[r.file]) /\ new.ready = 0
    BY <1>2, <1>3, <1>11, <2>3, ProtectedCounts
  <2> QED BY <2>3, <2>4
<1>13. Sound(x, row, contended)
  <2>1. IsJob(x)
    BY <1>3, <1>10 DEF IsJob
  <2>2. Apart(x)
    BY <1>3, <1>10 DEF Apart
  <2>3. Knows(x, row, contended)
    BY <1>10, <1>11 DEF Knows, DoneKnown
  <2>4. r.ready = 0 => r.ready + Len(r.done) = Len(r.done)
    BY <1>3 DEF IsJob
  <2>5. Counted(x)
    <3> SUFFICES ASSUME r.file # NoFile PROVE Counted(x)
      BY <1>10 DEF Counted
    <3>1. /\ Len(Items[r.file]) > 0
          /\ r.protected + r.refused + Len(r.todo) = Len(Items[r.file])
          /\ \A m \in DOMAIN r.todo : r.todo[m] = Items[r.file][r.protected + r.refused + m]
          /\ r.ready = 0 /\ Len(r.done) = r.protected
      BY <1>2, <1>11 DEF Counted
    <3>2. r.ready + Len(r.done) <= r.protected
      BY <1>3, <2>4, <3>1 DEF IsJob
    <3> QED BY <1>10, <1>11, <1>12, <3>1, <3>2 DEF Counted
  <2>6. Fits(x, row, contended)
    BY <1>10, <1>11 DEF Fits, ItemFits
  <2> QED BY <2>1, <2>2, <2>3, <2>5, <2>6 DEF Sound
<1>14. CASE r.file = NoFile
  <2>1. batch' = batch
    BY <1>7, <1>14
  <2>2. \A f \in Files \ doubled' : BatchSound(f)'
    BY <1>8, <1>9, <1>10, <1>14, <2>1, BatchesStay
  <2>3. StoreInv'
    BY <1>3, <1>6, <1>8, <1>10, <1>13, <2>1, <2>2, RowsAlone
  <2> QED BY <2>1, <2>3 DEF Searchable
<1>15. CASE r.file # NoFile
  <2>1. PICK f \in Files : f = r.file
    BY <1>3, <1>15 DEF IsJob
  <2>2. Works(j, f) /\ DOMAIN job[j].sheet = SheetColumns
    BY <1>1, <1>3, <1>11, <1>15, <2>1, NotIdle DEF Works, Counted
  <2>3. batch' = [batch EXCEPT ![f] = Written(batch[f], job[j].sheet, new)]
    BY <1>1, <1>7, <1>15, <2>1
  <2>4. /\ DOMAIN batch' = DOMAIN batch /\ \A g \in Files \ doubled' : BatchSound(g)'
        /\ f \notin doubled => batch'[f] = new
        /\ \A g \in Files : g # f => batch'[g] = batch[g]
    <3>1. /\ DOMAIN new = SheetColumns /\ new = [c \in DOMAIN new |-> new[c]] /\ SheetSound(f, new)
          /\ OnlyJob(j) /\ doubled' = doubled
      BY <1>8, <1>9, <1>12, <1>15, <2>1
    <3>2. job'[j] = Idle \/ (job'[j].file = f /\ job'[j].sheet = new)
      BY <1>9, <1>10, <2>1
    <3> QED BY <2>2, <2>3, <3>1, <3>2, SheetSaved
  <2>5. StoreInv'
    BY <1>3, <1>6, <1>8, <1>10, <1>13, <2>4, RowsAlone
  <2>6. new.status # "ready"
    BY <1>4, <1>11, <1>12, <1>15 DEF Counted, SheetColumns
  <2> QED BY <2>4, <2>5, <2>6 DEF Searchable
<1> QED BY <1>14, <1>15

\* The record that was summarized is let go.
LEMMA Enriches ==
    ASSUME NEW r, NEW rows, NEW bad, NEW rows2, Sound(r, rows, bad), r.phase \in {"enrich", "model"}, Len(r.done) > 0,
           \A i \in Records : i # r.done[1].id => rows2[i] = rows[i],
           NEW x, DOMAIN x = JobColumns, x.phase = "enrich", x.held = r.held, x.file = r.file,
           x.todo = r.todo, x.done = Tail(r.done), x.sheet = r.sheet,
           x.protected = r.protected, x.refused = r.refused, NEW k \in {0, 1}, x.ready = r.ready + k,
           k = 1 /\ r.done[1].id \notin bad =>
               /\ IsRow(rows2[r.done[1].id]) /\ rows2[r.done[1].id].status = "ready"
               /\ rows2[r.done[1].id].text = rows[r.done[1].id].text
               /\ rows2[r.done[1].id].print = rows[r.done[1].id].print
    PROVE  Sound(x, rows2, bad)
<1>0. IsJob(r) /\ Apart(r) /\ DoneKnown(r, rows, bad) /\ Counted(r) /\ Fits(r, rows, bad)
  BY DEF Sound, Knows
<1>1. r.done \in Seq(Done) /\ Len(r.done) \in Nat /\ DOMAIN r.done = 1 .. Len(r.done)
  BY <1>0 DEF IsJob
<1>1a. r.ready \in Nat /\ r.protected \in Nat /\ x.ready \in Nat
  BY <1>0 DEF IsJob
<1>2. /\ x.done \in Seq(Done) /\ DOMAIN x.done = 1 .. Len(r.done) - 1
      /\ \A n \in 1 .. Len(r.done) - 1 : x.done[n] = r.done[n + 1]
  BY <1>1, TailOf
<1>3. IsJob(x)
  BY <1>0, <1>1a, <1>2 DEF IsJob
<1>4. \A n \in DOMAIN x.done : n \in Nat /\ n + 1 \in DOMAIN r.done /\ n + 1 # 1 /\ x.done[n] = r.done[n + 1]
  BY <1>1, <1>2
<1>5. 1 \in DOMAIN r.done
  BY <1>1
<1>6. DistinctIds(x.done)
  <2> SUFFICES ASSUME NEW m \in DOMAIN x.done, NEW n \in DOMAIN x.done, x.done[m].id = x.done[n].id PROVE m = n
    BY DEF DistinctIds
  <2>1. m + 1 = n + 1
    BY <1>0, <1>4 DEF Apart, DistinctIds
  <2> QED BY <1>4, <2>1
<1>7. Apart(x)
  BY <1>0, <1>4, <1>6 DEF Apart
<1>8. DoneKnown(x, rows2, bad)
  <2> SUFFICES ASSUME NEW n \in DOMAIN x.done, x.done[n].id \notin bad PROVE Noted(rows2[x.done[n].id], x.done[n])
    BY DEF DoneKnown
  <2>1. x.done[n] = r.done[n + 1] /\ n + 1 \in DOMAIN r.done /\ n + 1 # 1
    BY <1>4
  <2>2. r.done[n + 1].id # r.done[1].id
    BY <1>0, <1>5, <2>1 DEF Apart, DistinctIds
  <2>3. r.done[n + 1].id \in Records
    BY <1>0, <2>1 DEF Apart, IsJob
  <2> QED BY <1>0, <2>1, <2>2, <2>3 DEF DoneKnown
<1>9. Knows(x, rows2, bad)
  BY <1>8 DEF Knows
<1>10. Len(x.done) = Len(r.done) - 1
  BY <1>1, TailOf
<1>11. Counted(x)
  <2> SUFFICES ASSUME r.file # NoFile PROVE Counted(x)
    BY DEF Counted
  <2>1. r.ready + Len(r.done) <= r.protected
    BY <1>0 DEF Counted
  <2>2. x.ready + Len(x.done) <= r.protected
    BY <1>1, <1>1a, <1>10, <2>1
  <2> QED BY <1>0, <2>2 DEF Counted
<1>12. Fits(x, rows2, bad)
  <2> SUFFICES ASSUME r.file # NoFile, r.refused = 0, x.ready + Len(x.done) = r.protected, NEW n \in 1 .. r.protected
               PROVE  ItemFits(Items[r.file][n], x, rows2, bad)
    BY DEF Fits
  <2>1. r.ready + Len(r.done) <= r.protected
    BY <1>0 DEF Counted
  <2>2. k = 1 /\ r.ready + Len(r.done) = r.protected
    BY <1>1, <1>1a, <1>10, <2>1
  <2>3. PICK item : item = Items[r.file][n]
    OBVIOUS
  <2>4. ItemFits(item, r, rows, bad)
    BY <1>0, <2>2, <2>3 DEF Fits
  <2>5. item.id \in Records
    BY <1>0, <2>4 DEF ItemFits, IsJob
  <2>6. CASE item.id = r.done[1].id
    BY <2>2, <2>3, <2>4, <2>6 DEF ItemFits, Holds
  <2>7. CASE item.id # r.done[1].id
    <3>1. item.id \in Ids(r.done) => item.id \in Ids(x.done)
      <4> SUFFICES ASSUME NEW m \in DOMAIN r.done, r.done[m].id = item.id PROVE item.id \in Ids(x.done)
        BY DEF Ids
      <4>1. m \in Int /\ m - 1 \in DOMAIN x.done /\ x.done[m - 1] = r.done[m]
        <5>1. m # 1 /\ m \in 1 .. Len(r.done)
          BY <1>1, <2>7
        <5>2. m - 1 \in 1 .. Len(r.done) - 1 /\ (m - 1) + 1 = m /\ m \in Int
          BY <1>1, <5>1
        <5> QED BY <1>2, <5>2
      <4> QED BY <4>1 DEF Ids
    <3> QED BY <2>3, <2>4, <2>5, <2>7, <3>1 DEF ItemFits
  <2> QED BY <2>6, <2>7
<1> QED BY <1>3, <1>7, <1>9, <1>11, <1>12 DEF Sound

LEMMA BeginEnrichKeeps ==
    ASSUME StoreInv, NEW j \in Jobs, BeginEnrich(j)
    PROVE  StoreInv'
<1>1. PICK r : r = job[j]
  OBVIOUS
<1>2. r.phase = "enrich" /\ r.done # <<>>
  BY <1>1 DEF BeginEnrich
<1>3. IsJob(r) /\ Apart(r) /\ Sound(r, row, contended) /\ InHand(j) = r.held
  BY <1>1, <1>2, Running
<1>4. Len(r.done) > 0
  BY <1>2, <1>3 DEF IsJob
<1>5. Head(r.done) = r.done[1] /\ r.done[1] \in Done
  BY <1>3, <1>4, FirstDone
<1>6. PICK x : x = IF r.done[1].ready THEN [r EXCEPT !.done = Tail(@), !.ready = @ + 1]
                   ELSE [r EXCEPT !.phase = "model", !.loaded = row[r.done[1].id]]
  OBVIOUS
<1>7. job' = [job EXCEPT ![j] = x] /\ UNCHANGED <<row, links, batch, deployment, rewritten, contended, doubled>>
  BY <1>1, <1>5, <1>6 DEF BeginEnrich, store, history
<1>7a. OnlyJob(j) /\ job'[j] = x
  BY <1>7, JobChanges DEF StoreInv
<1>8. DoneKnown(r, row, contended)
  BY <1>3 DEF Sound, Knows
<1>9. CASE r.done[1].ready
  <2>1. x = [r EXCEPT !.done = Tail(@), !.ready = @ + 1]
    BY <1>6, <1>9
  <2>2. /\ DOMAIN x = JobColumns /\ x.phase = "enrich" /\ x.held = r.held /\ x.file = r.file
        /\ x.todo = r.todo /\ x.done = Tail(r.done) /\ x.sheet = r.sheet
        /\ x.protected = r.protected /\ x.refused = r.refused /\ x.ready = r.ready + 1
    BY <1>2, <1>3, <2>1 DEF IsJob, JobColumns
  <2>3. r.done[1].id \notin contended => IsRow(row[r.done[1].id]) /\ row[r.done[1].id].status = "ready"
    <3>1. 1 \in DOMAIN r.done
      BY <1>3, <1>4, FirstDone
    <3> QED BY <1>8, <1>9, <3>1 DEF DoneKnown, Noted
  <2>4. Sound(x, row, contended)
    BY <1>2, <1>3, <1>4, <2>2, <2>3, Enriches
  <2>5. \A f \in Files \ doubled' : BatchSound(f)'
    BY <1>1, <1>3, <1>7, <1>7a, <2>2, NotIdle, BatchesStay
  <2> QED BY <1>3, <1>7, <2>2, <2>4, <2>5, RowsAlone
<1>10. CASE ~r.done[1].ready
  <2>1. x = [r EXCEPT !.phase = "model", !.loaded = row[r.done[1].id]]
    BY <1>6, <1>10
  <2>2. /\ DOMAIN x = JobColumns /\ x.phase = "model" /\ x.held = r.held /\ x.file = r.file
        /\ x.todo = r.todo /\ x.done = r.done /\ x.loaded = row[r.done[1].id] /\ x.sheet = r.sheet
        /\ x.protected = r.protected /\ x.refused = r.refused /\ x.ready = r.ready
    BY <1>3, <2>1 DEF IsJob, JobColumns
  <2>3. IsJob(x)
    BY <1>3, <1>4, <2>2 DEF IsJob
  <2>4. Apart(x)
    BY <1>3, <2>2 DEF Apart
  <2>5. Knows(x, row, contended)
    BY <1>8, <1>10, <2>2 DEF Knows, DoneKnown
  <2>6. Counted(r) /\ Fits(r, row, contended)
    BY <1>3 DEF Sound
  <2>7. Counted(x) /\ Fits(x, row, contended)
    BY <1>2, <2>2, <2>6 DEF Counted, Fits, ItemFits
  <2>8. Sound(x, row, contended)
    BY <2>3, <2>4, <2>5, <2>7 DEF Sound
  <2>9. \A f \in Files \ doubled' : BatchSound(f)'
    BY <1>1, <1>3, <1>7, <1>7a, <2>2, NotIdle, BatchesStay
  <2> QED BY <1>3, <1>7, <2>2, <2>8, <2>9, RowsAlone
<1> QED BY <1>9, <1>10

\* What a summary makes of a row.
LEMMA EnrichedRow ==
    ASSUME NEW loaded, IsRow(loaded), NEW summary \in Summaries(loaded.text),
           NEW v, v = Enriched(loaded, summary)
    PROVE  /\ DOMAIN v = RowColumns /\ v = [c \in DOMAIN v |-> v[c]] /\ IsRow(v)
           /\ v.status = "ready" /\ v.text = loaded.text /\ v.print = loaded.print /\ DerivedOf(v)
<1>1. /\ DOMAIN v = RowColumns /\ v = [c \in DOMAIN v |-> v[c]]
      /\ v.status = "ready" /\ v.text = loaded.text /\ v.mode = summary.mode /\ v.print = loaded.print
      /\ v.derived = [of |-> loaded.text, tokens |-> summary.tokens]
  BY DEF Enriched, IsRow, RowColumns
<1>2. summary.tokens \subseteq Tokens[loaded.text]
  BY DEF Summaries, Answers, Grounded
<1>3. summary.mode \in Makers
  BY DEF Summaries, Answers, Makers
<1> QED BY <1>1, <1>2, <1>3 DEF IsRow, DerivedOf

LEMMA EnrichKeeps ==
    ASSUME StoreInv, NEW j \in Jobs, EnrichRow(j)
    PROVE  StoreInv'
<1>1. PICK r : r = job[j]
  OBVIOUS
<1>2. r.phase = "model"
  BY <1>1 DEF EnrichRow
<1>3. IsJob(r) /\ Apart(r) /\ Sound(r, row, contended) /\ InHand(j) = r.held
  BY <1>1, <1>2, Running
<1>4. Len(r.done) > 0
  BY <1>2, <1>3 DEF IsJob
<1>5. PICK i : i = r.done[1].id
  OBVIOUS
<1>6. Head(r.done) = r.done[1] /\ i \in Records /\ 1 \in DOMAIN r.done
  BY <1>3, <1>4, <1>5, FirstDone
<1>7. UNCHANGED <<links, batch, deployment, rewritten, contended, doubled>>
  BY DEF EnrichRow, history
<1>8. DOMAIN job = Jobs /\ DOMAIN row = Records
  BY DEF StoreInv
<1>9a. PICK k \in {0, 1} : \E v :
          /\ row' = [row EXCEPT ![i] = v]
          /\ job' = [job EXCEPT ![j].phase = "enrich", ![j].done = Tail(@), ![j].ready = @ + k]
          /\ \/ k = 1 /\ \E summary \in Summaries(r.loaded.text) : v = Written(row[i], r.loaded, Enriched(r.loaded, summary))
             \/ k = 0 /\ v = [row[i] EXCEPT !.status = "failed_enrichment", !.mode = "none"]
  <2>1. CASE \E summary \in Summaries(r.loaded.text) :
                 /\ row' = [row EXCEPT ![i] = Written(@, r.loaded, Enriched(r.loaded, summary))]
                 /\ job' = [job EXCEPT ![j].phase = "enrich", ![j].done = Tail(@), ![j].ready = @ + 1]
    BY <1>6, <1>8, <2>1
  <2>2. CASE /\ row' = [row EXCEPT ![i] = [@ EXCEPT !.status = "failed_enrichment", !.mode = "none"]]
             /\ job' = [job EXCEPT ![j].phase = "enrich", ![j].done = Tail(@), ![j].ready = @ + 0]
    BY <1>6, <1>8, <2>2
  <2> QED BY <1>1, <1>5, <1>6, <2>1, <2>2 DEF EnrichRow
<1>9. PICK v :
          /\ row' = [row EXCEPT ![i] = v]
          /\ job' = [job EXCEPT ![j].phase = "enrich", ![j].done = Tail(@), ![j].ready = @ + k]
          /\ \/ k = 1 /\ \E summary \in Summaries(r.loaded.text) : v = Written(row[i], r.loaded, Enriched(r.loaded, summary))
             \/ k = 0 /\ v = [row[i] EXCEPT !.status = "failed_enrichment", !.mode = "none"]
  BY <1>9a
<1>10. PICK x : x = [r EXCEPT !.phase = "enrich", !.done = Tail(@), !.ready = @ + k]
  OBVIOUS
<1>11. job' = [job EXCEPT ![j] = x]
  BY <1>1, <1>8, <1>9, <1>10
<1>12. OnlyJob(j) /\ job'[j] = x
  BY <1>8, <1>11, JobChanges
<1>13. /\ DOMAIN x = JobColumns /\ x.phase = "enrich" /\ x.held = r.held /\ x.file = r.file
       /\ x.todo = r.todo /\ x.done = Tail(r.done) /\ x.sheet = r.sheet
       /\ x.protected = r.protected /\ x.refused = r.refused /\ x.ready = r.ready + k
  BY <1>3, <1>10 DEF IsJob, JobColumns
<1>14. DOMAIN row' = Records /\ row'[i] = v /\ \A q \in Records : q # i => row'[q] = row[q]
  BY <1>6, <1>8, <1>9
<1>15. i \in r.held
  BY <1>3, <1>5, <1>6 DEF Apart
<1>16. i \notin contended =>
           /\ IsRow(v) /\ DerivedOf(v) /\ IsRow(row[i]) /\ v.text = row[i].text /\ v.print = row[i].print
           /\ k = 1 => v.status = "ready"
  <2> SUFFICES ASSUME i \notin contended
               PROVE  /\ IsRow(v) /\ DerivedOf(v) /\ IsRow(row[i]) /\ v.text = row[i].text /\ v.print = row[i].print
                      /\ k = 1 => v.status = "ready"
    OBVIOUS
  <2>1. r.loaded = row[i] /\ Noted(row[i], r.done[1]) /\ ~r.done[1].ready
    BY <1>2, <1>3, <1>5, <1>6 DEF Sound, Knows, DoneKnown
  <2>2. IsRow(row[i]) /\ DOMAIN row[i] = RowColumns
    BY <2>1 DEF Noted, IsRow
  <2>3. RowSound(i) /\ row[i] # NoText
    BY <1>6, <2>2 DEF StoreInv, IsRow, NoText
  <2>4. DerivedOf(row[i])
    BY <2>3 DEF RowSound
  <2>5. CASE k = 1 /\ \E summary \in Summaries(r.loaded.text) : v = Written(row[i], r.loaded, Enriched(r.loaded, summary))
    <3>1. PICK summary \in Summaries(row[i].text) : v = Written(row[i], row[i], Enriched(row[i], summary))
      BY <2>1, <2>5
    <3>2. PICK new : new = Enriched(row[i], summary)
      OBVIOUS
    <3>3. /\ DOMAIN new = RowColumns /\ new = [c \in DOMAIN new |-> new[c]] /\ IsRow(new)
          /\ new.status = "ready" /\ new.text = row[i].text /\ new.print = row[i].print /\ DerivedOf(new)
      BY <2>2, <3>2, EnrichedRow
    <3>4. v = new
      BY <2>2, <3>1, <3>2, <3>3, WrittenIsNew
    <3> QED BY <2>2, <3>3, <3>4
  <2>6. CASE k = 0 /\ v = [row[i] EXCEPT !.status = "failed_enrichment", !.mode = "none"]
    <3>1. /\ DOMAIN v = RowColumns /\ v.status = "failed_enrichment" /\ v.text = row[i].text
          /\ v.derived = row[i].derived /\ v.print = row[i].print
      BY <2>2, <2>6 DEF RowColumns
    <3> QED BY <2>2, <2>4, <2>6, <3>1 DEF IsRow, DerivedOf
  <2> QED BY <1>9, <2>5, <2>6
<1>17. Sound(x, row', contended')
  <2>1. Sound(r, row, contended')
    BY <1>3, <1>7
  <2>2. k = 1 /\ i \notin contended' => /\ IsRow(row'[i]) /\ row'[i].status = "ready" /\ row'[i].text = row[i].text
                                        /\ row'[i].print = row[i].print
    BY <1>7, <1>14, <1>16
  <2>3. \A q \in Records : q # r.done[1].id => row'[q] = row[q]
    BY <1>5, <1>14
  <2> QED BY <1>2, <1>4, <1>5, <1>13, <2>1, <2>2, <2>3, Enriches
<1>18. InHand(j)' = r.held
  <2>1. IsJob(x)
    BY <1>17 DEF Sound
  <2> QED BY <1>12, <1>13, <2>1, NotIdle DEF InHand
<1>19. ASSUME NEW q \in Records \ contended' PROVE RowSound(q)'
  <2>1. RowSound(q) /\ q \notin contended
    BY <1>7 DEF StoreInv
  <2>2. CASE q # i
    BY <1>7, <1>14, <2>1, <2>2, RowStays
  <2>3. CASE q = i
    <3>1. IsRow(v) /\ DerivedOf(v) /\ IsRow(row[i]) /\ v.text = row[i].text /\ v.print = row[i].print
      BY <1>16, <2>1, <2>3
    <3>2. row'[i] = v /\ Printed(row[i]) /\ rewritten' = rewritten /\ links' = links
      <4>1. row[i] # NoText
        BY <3>1 DEF IsRow, NoText
      <4> QED BY <1>7, <1>14, <2>1, <2>3, <4>1 DEF RowSound
    <3>3. DerivedOf(v)'
      BY <1>7, <3>1 DEF DerivedOf, Makers
    <3>4. DerivedOf(row[i])' /\ Printed(row[i])' /\ IsRow(row[i])'
      BY <3>1, <3>2, <3>3 DEF Printed, DerivedOf, IsRow
    <3>5. i \notin rewritten => \A c \in Customers : <<c, i>> \in links => c \in Mentioned(row[i].text)
      BY <2>1, <2>3 DEF RowSound
    <3> QED BY <2>3, <3>1, <3>2, <3>4, <3>5 DEF RowSound
  <2> QED BY <2>2, <2>3
<1>20. \A q \in Records : row'[q] # row[q] => q \in InHand(j)
  BY <1>3, <1>14, <1>15
<1>21. \A q \in InHand(j)' : q \in InHand(j)
  BY <1>3, <1>18
<1>22. \A f \in Files \ doubled' : BatchSound(f)'
  BY <1>1, <1>3, <1>7, <1>12, <1>13, NotIdle, BatchesStay
<1> QED BY <1>7, <1>8, <1>12, <1>14, <1>17, <1>19, <1>20, <1>21, <1>22, JobGoesOn

LEMMA EndEnrichKeeps ==
    ASSUME StoreInv, NEW j \in Jobs, EndEnrich(j)
    PROVE  StoreInv' /\ \A f \in Files \ doubled : Searchable(f)
<1>1. PICK r : r = job[j]
  OBVIOUS
<1>2. r.phase = "enrich" /\ r.done = <<>>
  BY <1>1 DEF EndEnrich
<1>3. IsJob(r) /\ Sound(r, row, contended) /\ Counted(r) /\ Fits(r, row, contended) /\ Len(r.done) = 0 /\ DOMAIN r.done = {}
  BY <1>1, <1>2, Running DEF Sound
<1>4. job' = [job EXCEPT ![j] = Idle]
  BY DEF EndEnrich
<1>5. UNCHANGED <<row, links, deployment, rewritten, contended, doubled>>
  BY DEF EndEnrich, history
<1>6. OnlyJob(j) /\ job'[j] = Idle
  BY <1>4, JobChanges DEF StoreInv
<1>7. CASE r.file = NoFile
  <2>1. batch' = batch
    BY <1>1, <1>7 DEF EndEnrich, SaveBatch
  <2>2. \A f \in Files \ doubled' : BatchSound(f)'
    BY <1>5, <1>6, <2>1, BatchesStay
  <2>3. StoreInv'
    BY <1>4, <1>5, <2>1, <2>2, RowsAlone
  <2> QED BY <2>1, <2>3 DEF Searchable
<1>8. CASE r.file # NoFile
  <2>1. PICK f \in Files : f = r.file
    BY <1>3, <1>8 DEF IsJob
  <2>2. PICK new : new = [r.sheet EXCEPT !.ready = r.ready,
                              !.failed = Invalid(r.file) + r.refused + (r.protected - r.ready),
                              !.status = Verdict(r.ready, r.sheet.total)]
    OBVIOUS
  <2>3. batch' = [batch EXCEPT ![f] = Written(batch[f], job[j].sheet, new)]
    BY <1>1, <1>8, <2>1, <2>2 DEF EndEnrich, SaveBatch
  <2>4. Works(j, f) /\ DOMAIN r.sheet = SheetColumns
    BY <1>1, <1>3, <1>8, <2>1, NotIdle DEF Works, Counted
  <2>5. /\ DOMAIN new = SheetColumns /\ new = [c \in DOMAIN new |-> new[c]]
        /\ new.total = r.sheet.total /\ new.ready = r.ready /\ new.protected = r.sheet.protected
        /\ new.failed = Invalid(r.file) + r.refused + (r.protected - r.ready)
        /\ new.status = Verdict(r.ready, r.sheet.total)
    BY <2>2, <2>4 DEF SheetColumns
  <2>6. /\ SheetSound(r.file, new)
        /\ new.status = "ready" => r.refused = 0 /\ r.ready = r.protected /\ r.protected = Len(Items[r.file])
    BY <1>2, <1>3, <1>8, <2>5, EnrichedCounts
  <2>7. /\ DOMAIN batch' = DOMAIN batch /\ \A g \in Files \ doubled' : BatchSound(g)'
        /\ f \notin doubled => batch'[f] = new
        /\ \A g \in Files : g # f => batch'[g] = batch[g]
    <3>1. DOMAIN job[j].sheet = SheetColumns /\ SheetSound(f, new) /\ doubled' = doubled
      BY <1>1, <1>5, <2>1, <2>4, <2>6
    <3> QED BY <1>6, <2>3, <2>4, <2>5, <3>1, SheetSaved
  <2>8. StoreInv'
    BY <1>4, <1>5, <2>7, RowsAlone
  <2>9. ASSUME new.status = "ready", NEW n \in DOMAIN Items[f]
        PROVE  \/ Items[f][n].id \in contended'
               \/ row[Items[f][n].id].status = "ready" /\ Holds(row[Items[f][n].id], Items[f][n])
    <3>1. Items[f] \in Seq(Item) /\ r.refused = 0 /\ r.ready = r.protected /\ r.protected = Len(Items[f]) /\ r.protected \in Nat
      BY <1>3, <2>1, <2>6, <2>9, ItemsSound DEF IsJob
    <3>2. n \in 1 .. r.protected /\ r.ready + Len(r.done) = r.protected
      BY <1>3, <3>1
    <3>3. ItemFits(Items[f][n], r, row, contended)
      BY <1>3, <1>8, <2>1, <3>1, <3>2 DEF Fits
    <3>4. Ids(r.done) = {}
      BY <1>3 DEF Ids
    <3> QED BY <1>5, <3>3, <3>4 DEF ItemFits
  <2>10. \A g \in Files \ doubled : Searchable(g)
    <3> SUFFICES ASSUME NEW g \in Files \ doubled, batch'[g].status = "ready" /\ batch[g].status # "ready" PROVE Searchable(g)
      BY DEF Searchable
    <3>1. g = f /\ new.status = "ready"
      BY <2>7
    <3> QED BY <2>9, <3>1 DEF Searchable
  <2> QED BY <2>8, <2>10
<1> QED BY <1>7, <1>8

LEMMA CrashKeeps ==
    ASSUME StoreInv, NEW j \in Jobs, Crash(j)
    PROVE  StoreInv'
<1>1. job' = [job EXCEPT ![j] = Idle] /\ UNCHANGED <<row, links, batch, deployment, rewritten, contended, doubled>>
  BY DEF Crash, store
<1>2. OnlyJob(j) /\ job'[j] = Idle
  BY <1>1, JobChanges DEF StoreInv
<1>3. \A f \in Files \ doubled' : BatchSound(f)'
  BY <1>1, <1>2, BatchesStay
<1> QED BY <1>1, <1>3, RowsAlone

LEMMA StoreStep == StoreInv /\ [Next]_vars => StoreInv'
<1> SUFFICES ASSUME StoreInv, [Next]_vars PROVE StoreInv'
  OBVIOUS
<1>1. ASSUME NEW j \in Jobs, Step(j) PROVE StoreInv'
  BY <1>1, ReadKeeps, WriteKeeps, FailsKeeps, LinkKeeps, EndProtectKeeps, BeginEnrichKeeps, EnrichKeeps, EndEnrichKeeps DEF Step
<1>2. CASE Next
  BY <1>1, <1>2, IngestKeeps, EnrichLaterKeeps, UploadKeeps, CrashKeeps DEF Next
<1>3. CASE UNCHANGED vars
  BY <1>3 DEF vars, store, history, StoreInv, RowSound, DerivedOf, Printed, Makers, OneHolder, InHand, BatchSound, Works
<1> QED BY <1>2, <1>3

LEMMA StoreKept == Spec => []StoreInv
BY StoreInit, StoreStep, PTL DEF Spec

\* What search, attention and recommendations use of a record fits its
\* text (services/ingestion.py), but for the records that two jobs had in
\* hand at one time.
THEOREM DerivedSound == Spec => []DerivedFits
<1>1. StoreInv => DerivedFits
  <2> SUFFICES ASSUME StoreInv, NEW i \in Records \ contended, Exists(i)
               PROVE  /\ DerivedOf(row[i])
                      /\ i \notin rewritten => \A c \in Customers : <<c, i>> \in links => c \in Mentioned(row[i].text)
    BY DEF DerivedFits, DerivedOf
  <2>1. RowSound(i) /\ row[i] # NoText
    BY DEF StoreInv, Exists, NoText
  <2> QED BY <2>1 DEF RowSound
<1> QED BY <1>1, StoreKept, PTL

\* The counts of a batch account for every line of its file at every stage
\* (integrations/structured_csv/service.py), unless two jobs took the file
\* at one time.
THEOREM BatchSums == Spec => []BatchAddsUp
<1>1. StoreInv => BatchAddsUp
  <2> SUFFICES ASSUME StoreInv, NEW f \in Files \ doubled
               PROVE  /\ Cardinality({Items[f][n].id : n \in DOMAIN Items[f]}) = Len(Items[f])
                      /\ SheetSound(f, batch[f]) /\ (batch[f] = NoBatch => batch[f].status = "none")
    BY DEF BatchAddsUp, SheetSound, Settled
  <2>1. Items[f] \in Seq(Item) /\ DistinctIds(Items[f])
    BY ItemsSound
  <2>2. SheetSound(f, batch[f])
    BY DEF StoreInv, BatchSound
  <2> QED BY <2>1, <2>2, IdsCount DEF NoBatch
<1> QED BY <1>1, StoreKept, PTL

LEMMA ReadyStep == StoreInv /\ [Next]_vars => \A f \in Files \ doubled : Searchable(f)
<1> SUFFICES ASSUME StoreInv, [Next]_vars PROVE \A f \in Files \ doubled : Searchable(f)
  OBVIOUS
<1>1. CASE batch' = batch
  BY <1>1 DEF Searchable
<1>2. ASSUME NEW j \in Jobs, Upload(j) PROVE \A f \in Files \ doubled : Searchable(f)
  <2>1. PICK f \in Files : batch' = [batch EXCEPT ![f] = NewBatch(f, IF Items[f] = <<>> THEN "failed" ELSE "protecting")]
    BY <1>2 DEF Upload
  <2>2. DOMAIN batch = Files
    BY DEF StoreInv
  <2>3. batch'[f].status # "ready" /\ \A g \in Files : g # f => batch'[g] = batch[g]
    BY <2>1, <2>2, FreshBatch
  <2> QED BY <2>3 DEF Searchable
<1>3. CASE Next /\ batch' # batch
  BY <1>2, <1>3, EndProtectKeeps, EndEnrichKeeps
  DEF Next, Step, Ingest, EnrichLater, ReadRow, WriteRow, ProtectionFails, LinkRow, BeginEnrich, EnrichRow, Crash, store
<1>4. CASE UNCHANGED vars
  BY <1>1, <1>4 DEF vars, store
<1> QED BY <1>1, <1>3, <1>4

\* The step that calls a batch ready finds every record of the file READY with
\* what the file says of it (integrations/structured_csv/service.py).
THEOREM ReadySound == Spec => ReadyBatchSearchable
<1>1. StoreInv /\ [Next]_vars =>
          [\A f \in Files \ doubled :
               batch'[f].status = "ready" /\ batch[f].status # "ready" =>
                   \A n \in DOMAIN Items[f] :
                       LET item == Items[f][n]
                       IN  \/ item.id \in contended'
                           \/ /\ row[item.id].status = "ready"
                              /\ row[item.id].print # NoPrint => row[item.id].text = item.content]_vars
  BY ReadyStep DEF Searchable, Holds
<1> QED BY <1>1, StoreKept, PTL DEF Spec, ReadyBatchSearchable

=============================================================================
