----------------------------- MODULE Enrichment -----------------------------
(***************************************************************************)
(* The protected store (services/ingestion.py) and the spreadsheet batches *)
(* over it (integrations/structured_csv).                                  *)
(*                                                                         *)
(* A job protects its items one after the other, then enriches them: an    *)
(* ingestion is a job of one item, a spreadsheet a job of its valid rows,  *)
(* a deferred enrichment a job with nothing left to protect.  A row is     *)
(* protected and committed before any model is called, and enriched from   *)
(* the row the job read before: nothing is locked and no version is        *)
(* compared, so a job may write over what another one committed since.     *)
(***************************************************************************)
EXTENDS Integers, FiniteSets, Sequences, Functions

CONSTANTS
    Jobs,          \* sessions that run jobs
    Records,       \* source record ids
    Contents,      \* protected texts
    Tokens,        \* the tokens of every text
    Customers,     \* customers of the directory
    Alias,         \* the token of every customer's name
    Files,         \* spreadsheets
    Lines,         \* the lines of every file
    Deployments,   \* the providers that have a key, and allow_offline_demo
    NoFile,        \* a job of no spreadsheet
    Earlier,       \* the texts of the records older than fingerprints
    MaxJobs,       \* bound on the jobs that begin
    MaxCrashes     \* bound on the jobs that die

ASSUME EnrichmentAssumption ==
    /\ NoFile \notin Files
    /\ MaxJobs \in Nat /\ MaxCrashes \in Nat
    /\ DOMAIN Tokens = Contents /\ DOMAIN Alias = Customers
    /\ DOMAIN Earlier \subseteq Records /\ \A i \in DOMAIN Earlier : Earlier[i] \in Contents
    /\ Lines \in [Files -> Seq([id : Records, content : Contents, sound : BOOLEAN])]

VARIABLES
    row,           \* tokenized_content
    links,         \* customer_record_links: pairs of a customer and a record
    batch,         \* structured_ingestion_batches
    job,           \* what every session is doing
    deployment,    \* the configuration of this deployment
    begun, crashes,
    contended,     \* records that two jobs had in hand at one time
    rewritten,     \* records whose text was replaced
    doubled,       \* files that two jobs had in hand at one time
    orphaned       \* files the last job of which died

store == <<row, links, batch>>
history == <<contended, rewritten, doubled, orphaned>>
vars == <<store, job, deployment, begun, crashes, history>>

NoText == [status |-> "absent"]
NotDerived == [of |-> "nothing", tokens |-> {}]
NoPrint == "none"
NoBatch == [status |-> "none"]
Idle == [phase |-> "idle"]
AllTokens == UNION Range(Tokens)

-----------------------------------------------------------------------------
(* The lines of a spreadsheet. *)

\* A sound line is refused when one before it was accepted with its id; the
\* id of a refused line stays free, so that the first sound one has it.
Accepted(lines) ==
    {n \in DOMAIN lines : lines[n].sound /\ \A m \in 1 .. n - 1 : ~(lines[m].sound /\ lines[m].id = lines[n].id)}

\* The accepted lines in their order.
Parse(lines) ==
    [k \in 1 .. Cardinality(Accepted(lines)) |->
        LET n == CHOOSE l \in Accepted(lines) : Cardinality({m \in Accepted(lines) : m <= l}) = k
        IN  [id |-> lines[n].id, content |-> lines[n].content, refresh |-> FALSE]]

Items == [f \in Files |-> Parse(Lines[f])]

\* The lines of a file that were refused.
Invalid(f) == Len(Lines[f]) - Len(Items[f])

(* The models. *)

\* An answer is kept when it names no token the text does not have.
GroundedUnchecked(tokens, text) == TRUE

Grounded(tokens, text) == tokens \subseteq Tokens[text]

Answers(provider, text) ==
    {[mode |-> provider, tokens |-> tokens] : tokens \in {t \in SUBSET AllTokens : Grounded(t, text)}}

\* Morpheus first; Gemini when Morpheus has no key or, in a demonstration,
\* failed; the offline summary only in a demonstration.
Summaries(text) ==
    LET Uses(provider) == provider \in deployment.keys
    IN  (IF Uses("morpheus") THEN Answers("morpheus", text) ELSE {})
        \union (IF Uses("gemini") /\ (~Uses("morpheus") \/ deployment.offline)
                THEN Answers("gemini", text) ELSE {})
        \union (IF deployment.offline THEN {[mode |-> "offline-demo", tokens |-> Tokens[text]]} ELSE {})

\* A model that fails fails the enrichment, but in a demonstration.
MayFail == ~deployment.offline

(* Rows. *)

Exists(i) == row[i].status # "absent"

\* An UPDATE sets the columns that differ from what was loaded.
Written(old, loaded, new) ==
    [column \in DOMAIN old \union DOMAIN new |->
        IF column \in DOMAIN new /\ (column \notin DOMAIN loaded \/ new[column] # loaded[column])
        THEN new[column] ELSE old[column]]

NeedsProtectionOnce(loaded, item) == item.refresh \/ loaded = NoText \/ loaded.status # "ready"

\* A row that is READY with the fingerprint of this content, or with
\* none, is left alone, unless the caller asks for a refresh.
NeedsProtection(loaded, item) ==
    \/ item.refresh
    \/ loaded = NoText
    \/ loaded.status # "ready"
    \/ loaded.print \notin {NoPrint, item.content}

Protected(content) ==
    [status |-> "protected", text |-> content, derived |-> NotDerived, mode |-> "none", print |-> content]

\* The migration calls a row with an embedding READY, and has no fingerprint
\* and no enrichment mode for it.
Migrated(content) ==
    [status |-> "ready", text |-> content, derived |-> [of |-> content, tokens |-> Tokens[content]],
     mode |-> "none", print |-> NoPrint]

Enriched(loaded, summary) ==
    [loaded EXCEPT !.status = "ready", !.derived = [of |-> loaded.text, tokens |-> summary.tokens],
                   !.mode = summary.mode]

\* The records a job has read, until it ends.
InHand(j) == IF job[j] = Idle THEN {} ELSE job[j].held

HeldByOther(i, j) == \E other \in Jobs \ {j} : i \in InHand(other)

Init ==
    /\ \E old \in SUBSET DOMAIN Earlier :
           row = [i \in Records |-> IF i \in old THEN Migrated(Earlier[i]) ELSE NoText]
    /\ links = {}
    /\ batch = [f \in Files |-> NoBatch]
    /\ job = [j \in Jobs |-> Idle]
    /\ deployment \in Deployments
    /\ begun = 0 /\ crashes = 0
    /\ contended = {} /\ rewritten = {} /\ doubled = {} /\ orphaned = {}

-----------------------------------------------------------------------------
(* A job begins. *)

Fresh(phase, f, todo, done) ==
    [phase |-> phase, held |-> {done[n].id : n \in DOMAIN done}, file |-> f, todo |-> todo, done |-> done, loaded |-> NoText, sheet |-> NoBatch,
     protected |-> 0, refused |-> 0, ready |-> 0]

Ingest(j) ==
    /\ job[j] = Idle /\ begun < MaxJobs
    /\ \E i \in Records, content \in Contents, refresh \in BOOLEAN :
        LET item == [id |-> i, content |-> content, refresh |-> refresh]
        IN  job' = [job EXCEPT ![j] = Fresh("protect", NoFile, <<item>>, <<>>)]
    /\ begun' = begun + 1
    /\ UNCHANGED <<store, deployment, crashes, history>>

\* enrich_protected_record in a session of its own, whatever the status of
\* the row: a record that was READY already is summarized again.
EnrichLater(j) ==
    /\ job[j] = Idle /\ begun < MaxJobs
    /\ \E i \in Records :
        /\ Exists(i)
        /\ job' = [job EXCEPT ![j] = Fresh("enrich", NoFile, <<>>, <<[id |-> i, ready |-> FALSE]>>)]
        /\ contended' = IF HeldByOther(i, j) THEN contended \union {i} ELSE contended
    /\ begun' = begun + 1
    /\ UNCHANGED <<store, deployment, crashes, rewritten, doubled, orphaned>>

\* The counts start again when a file is uploaded again.
NewBatch(f, status) ==
    [status |-> status, total |-> Len(Lines[f]), valid |-> Len(Items[f]), failed |-> Invalid(f),
     protected |-> 0, ready |-> 0]

Upload(j) ==
    /\ job[j] = Idle /\ begun < MaxJobs
    /\ \E f \in Files :
        LET sheet == NewBatch(f, IF Items[f] = <<>> THEN "failed" ELSE "protecting")
        IN  /\ batch' = [batch EXCEPT ![f] = sheet]
            /\ job' = IF Items[f] = <<>> THEN job
                      ELSE [job EXCEPT ![j] = [Fresh("protect", f, Items[f], <<>>) EXCEPT !.sheet = sheet]]
            /\ doubled' = IF \E other \in Jobs : job[other] # Idle /\ job[other].file = f
                        THEN doubled \union {f} ELSE doubled
            /\ orphaned' = orphaned \ {f}
    /\ begun' = begun + 1
    /\ UNCHANGED <<row, links, deployment, crashes, contended, rewritten>>

(* It protects its items. *)

\* What the job does when it is through with an item it has protected.
NextItem(r, ready) ==
    [r EXCEPT !.phase = "protect", !.todo = Tail(@), !.loaded = NoText, !.protected = @ + 1,
              !.done = Append(@, [id |-> Head(r.todo).id, ready |-> ready])]

ReadRow(j) ==
    LET r == job[j]
        item == Head(r.todo)
        loaded == row[item.id]
    IN  /\ r.phase = "protect" /\ r.todo # <<>>
        /\ LET held == [r EXCEPT !.held = @ \union {item.id}]
           IN  job' = [job EXCEPT ![j] = IF NeedsProtection(loaded, item)
                                         THEN [held EXCEPT !.phase = "write", !.loaded = loaded]
                                         ELSE NextItem(held, TRUE)]
        /\ contended' = IF HeldByOther(item.id, j) THEN contended \union {item.id} ELSE contended
        /\ UNCHANGED <<store, deployment, begun, crashes, rewritten, doubled, orphaned>>

\* A row another job inserted meanwhile refuses the insert.
WriteRow(j) ==
    LET r == job[j]
        item == Head(r.todo)
        new == Protected(item.content)
    IN  /\ r.phase = "write"
        /\ r.loaded # NoText \/ ~Exists(item.id)
        /\ row' = [row EXCEPT ![item.id] = IF r.loaded = NoText THEN new
                                           ELSE Written(@, r.loaded, new)]
        /\ rewritten' = IF Exists(item.id) /\ row[item.id].text # item.content
                        THEN rewritten \union {item.id} ELSE rewritten
        /\ job' = [job EXCEPT ![j].phase = "link", ![j].loaded = new]
        /\ UNCHANGED <<links, batch, deployment, begun, crashes, contended, doubled, orphaned>>

\* The detector, the vault or the insert refuses: a spreadsheet counts the
\* row and goes on, an ingestion ends.
ProtectionFails(j) ==
    LET r == job[j]
    IN  /\ r.phase = "write"
        /\ job' = [job EXCEPT ![j] = IF r.file = NoFile THEN Idle
                                     ELSE [r EXCEPT !.phase = "protect", !.todo = Tail(@),
                                                    !.loaded = NoText, !.refused = @ + 1]]
        /\ UNCHANGED <<store, deployment, begun, crashes, history>>

Mentioned(text) == {c \in Customers : Alias[c] \in Tokens[text]}

\* link_record_from_known_aliases adds links and takes none away; when it
\* fails the record stays unlinked and the row is read again.
LinkRow(j) ==
    LET r == job[j]
        i == Head(r.todo).id
    IN  /\ r.phase = "link"
        /\ \/ /\ links' = links \union {<<c, i>> : c \in Mentioned(r.loaded.text)}
              /\ job' = [job EXCEPT ![j] = NextItem(r, FALSE)]
           \/ /\ UNCHANGED links
              /\ job' = [job EXCEPT ![j] = NextItem(r, r.file # NoFile /\ row[i].status = "ready")]
        /\ UNCHANGED <<row, batch, deployment, begun, crashes, history>>

\* The counts of the batch are written as far as they differ from what
\* the job has in memory.
SaveBatchOfReady(r, new) ==
    batch' = IF r.file = NoFile \/ (r.phase = "enrich" /\ r.ready = 0) THEN batch
             ELSE [batch EXCEPT ![r.file] = Written(@, r.sheet, new)]

SaveBatch(r, new) ==
    batch' = IF r.file = NoFile THEN batch ELSE [batch EXCEPT ![r.file] = Written(@, r.sheet, new)]

EndProtect(j) ==
    LET r == job[j]
        new == IF r.file = NoFile THEN NoBatch
               ELSE [r.sheet EXCEPT !.protected = r.protected, !.failed = Invalid(r.file) + r.refused,
                                    !.status = IF r.protected > 0 THEN "enriching" ELSE "failed"]
    IN  /\ r.phase = "protect" /\ r.todo = <<>>
        /\ SaveBatch(r, new)
        /\ job' = [job EXCEPT ![j].phase = "enrich", ![j].sheet = new]
        /\ UNCHANGED <<row, links, deployment, begun, crashes, history>>

(* It enriches them. *)

\* The row is read again, and summarized with nothing held: what the models
\* answer is of the text that was read.
BeginEnrich(j) ==
    LET r == job[j]
        item == Head(r.done)
    IN  /\ r.phase = "enrich" /\ r.done # <<>>
        /\ job' = [job EXCEPT ![j] = IF item.ready
                                     THEN [r EXCEPT !.done = Tail(@), !.ready = @ + 1]
                                     ELSE [r EXCEPT !.phase = "model", !.loaded = row[item.id]]]
        /\ UNCHANGED <<store, deployment, begun, crashes, history>>

EnrichRow(j) ==
    LET r == job[j]
        i == Head(r.done).id
        After(ready) == [job EXCEPT ![j].phase = "enrich", ![j].done = Tail(@), ![j].ready = @ + ready]
    IN  /\ r.phase = "model"
        /\ \/ /\ \E summary \in Summaries(r.loaded.text) :
                  row' = [row EXCEPT ![i] = Written(@, r.loaded, Enriched(r.loaded, summary))]
              /\ job' = After(1)
           \* a failure reads the row again and marks it, and leaves what was
           \* derived before
           \/ /\ MayFail
              /\ row' = [row EXCEPT ![i] = [@ EXCEPT !.status = "failed_enrichment", !.mode = "none"]]
              /\ job' = After(0)
        /\ UNCHANGED <<links, batch, deployment, begun, crashes, history>>

VerdictOfSome(ready, total) == IF ready > 0 THEN "ready" ELSE "failed"

Verdict(ready, total) ==
    CASE ready = total -> "ready"
      [] ready # total /\ ready > 0 -> "partial"
      [] OTHER -> "failed"

EndEnrich(j) ==
    LET r == job[j]
        new == IF r.file = NoFile THEN NoBatch
               ELSE [r.sheet EXCEPT !.ready = r.ready,
                         !.failed = Invalid(r.file) + r.refused + (r.protected - r.ready),
                         !.status = Verdict(r.ready, r.sheet.total)]
    IN  /\ r.phase = "enrich" /\ r.done = <<>>
        /\ SaveBatch(r, new)
        /\ job' = [job EXCEPT ![j] = Idle]
        /\ UNCHANGED <<row, links, deployment, begun, crashes, history>>

\* The process dies: what the job committed stays.
Crash(j) ==
    /\ job[j] # Idle /\ crashes < MaxCrashes
    /\ crashes' = crashes + 1
    /\ job' = [job EXCEPT ![j] = Idle]
    /\ orphaned' = orphaned \union ({job[j].file} \ {NoFile})
    /\ UNCHANGED <<store, deployment, begun, contended, rewritten, doubled>>

Step(j) ==
    \/ ReadRow(j) \/ WriteRow(j) \/ ProtectionFails(j) \/ LinkRow(j) \/ EndProtect(j)
    \/ BeginEnrich(j) \/ EnrichRow(j) \/ EndEnrich(j)

Next ==
    \E j \in Jobs : Ingest(j) \/ EnrichLater(j) \/ Upload(j) \/ Step(j) \/ Crash(j)

Spec == Init /\ [][Next]_vars

\* A job that runs goes on: its loop waits for nothing but the model calls,
\* which answer or time out.
FairSpec == Spec /\ \A j \in Jobs : WF_vars(Step(j))

-----------------------------------------------------------------------------

Settled == {"ready", "partial", "failed"}

\* The models that may have made a summary of this deployment.
Makers == deployment.keys \union (IF deployment.offline THEN {"offline-demo"} ELSE {})

\* What search, attention and recommendations use of a record fits its
\* text: a summary is of that very text and has no token the text lacks,
\* an old one that a failure left as much as a new one; a READY record has
\* one, made by a model that the deployment has or older than fingerprints,
\* and a record whose text is newly protected has none; and its links are
\* to customers the text mentions, unless the text was replaced.
DerivedFits ==
    \A i \in Records \ contended :
        Exists(i) =>
            /\ row[i].derived # NotDerived => /\ row[i].derived.of = row[i].text
                                              /\ row[i].derived.tokens \subseteq Tokens[row[i].text]
            /\ row[i].status = "ready" => /\ row[i].derived.of = row[i].text
                                          /\ row[i].mode \in Makers \/ row[i].print = NoPrint
            /\ row[i].status = "protected" => row[i].derived = NotDerived
            /\ i \notin rewritten => \A c \in Customers : <<c, i>> \in links => c \in Mentioned(row[i].text)

\* The counts of a batch account for every line of the file at every stage
\* that is written, for a crashed job as for a finished one, unless two
\* jobs took the file at one time.
BatchAddsUp ==
    \A f \in Files \ doubled :
        LET b == batch[f]
            items == Items[f]
        IN  /\ Cardinality({items[n].id : n \in DOMAIN items}) = Len(items)
            /\ b.status # "none" => b.total = Len(Lines[f])
            /\ b.status = "enriching" => b.protected + b.failed = b.total /\ b.ready = 0
            /\ b.status \in Settled => /\ b.ready + b.failed = b.total
                                       /\ b.ready <= b.protected
            /\ b.status = "ready" <=> b.status # "none" /\ b.ready = b.total /\ b.ready > 0

\* The step that calls a batch ready finds every one of its records READY
\* with the content of the file, unless another job had the record in hand
\* or it is older than fingerprints: then it is READY with what it had.
ReadyBatchSearchable ==
    [][\A f \in Files \ doubled :
           batch'[f].status = "ready" /\ batch[f].status # "ready" =>
               \A n \in DOMAIN Items[f] :
                   LET item == Items[f][n]
                   IN  \/ item.id \in contended'
                       \/ /\ row[item.id].status = "ready"
                          /\ row[item.id].print # NoPrint => row[item.id].text = item.content
      ]_vars

\* A batch that is protected or enriched ends as ready, partial or failed,
\* unless the process of its job dies: then only another upload of the
\* same file goes on with it.
BatchSettles ==
    \A f \in Files :
        batch[f].status \in {"protecting", "enriching"}
            ~> batch[f].status \in Settled \/ f \in orphaned
=============================================================================
