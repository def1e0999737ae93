# FinBrain: a verification project in TLA+

FinBrain is a multi-tenant backend (FastAPI, SQLAlchemy, PostgreSQL on Supabase) that keeps
a firm's finance conversations and documents in protected form: every sensitive value is
replaced by a token, the value itself lies encrypted in a vault, and everything else (search,
language models, recommendations, outreach to customers) works on tokens. Several processes
share one database: the API, an email worker, a Telegram worker, a vault rotation worker and
a recommendations scheduler, each restarted by `src/docker/entrypoint.sh` when it dies.

This directory holds TLA+ models of the parts where those processes meet and of the pure
calculations their results rest on, TLC configurations that check them on small instances, and
theorems checked by TLAPS for every instance. Paths below are relative to `src/backend/app/`
unless they start with `src/`.

| module | what it is |
|---|---|
| `VaultRotation` | keys, rotation jobs, vault rows, the transactions that add rows, the rotators |
| `VaultContents` | what the vault promises of its rows, without keys or jobs; `VaultRotation` implements it |
| `OutreachDelivery` | the life of an outreach action: requests, two senders, recovery, replies |
| `GovernedOutreach` | what the firm is promised of an action, without requests or workers; `OutreachDelivery` implements it |
| `EmailSync` | cursor, receipts and backlog of the mailbox synchronization |
| `Mailbox` | what is promised of the messages of a mailbox, without runs, batches or failures; `EmailSync` implements it |
| `Customers` | profiles, endpoints and claims as the bot, the email worker and the owner change them; the onboarding |
| `Enrichment` | protection, enrichment and links of records; spreadsheet batches |
| `AttentionScore`, `FinanceReport` | pure: the score of a customer; the sums of the finance summary |
| `Invoices` | e-invoice requests, the mirror and the snapshots that follow them; extends `AttentionScore` |
| `Receivables` | `Invoices` and `FinanceReport` with the days, the policy, the planner and the sender of reminders |
| `AuditChain` | pure: hash chains, their verification and their anchors |
| `Conversations` | conversations and turns under concurrent requests |
| `Recommendations` | `Conversations` and `AuditChain` with proposals, decisions and the workflow log |
| `DecisionJournal` | what is promised of recommendations, without sessions, locks, rollbacks or hashes; `Recommendations` implements it |
| `Retrieval` | pure: intents, filters, search, references to earlier turns |
| `Answers` | a question from its plan to the answer, the brief and what is restored of them; extends `Retrieval` |
| `VaultRotation_proofs`, `OutreachDelivery_proofs`, `EmailSync_proofs`, `Customers_proofs`, `Enrichment_proofs`, `Receivables_proofs`, `Recommendations_proofs`, `Answers_proofs` | inductive invariants and theorems |
| `MC...` | instances for TLC, one for every module that has runs, with the `.cfg` files of its name |

To check a module: `tlc -config VaultRotation_race.cfg MCVaultRotation`; to prove one:
`tlapm VaultRotation_proofs.tla`.


## 1. Inventory

For each component: the state it keeps, what changes it, what is hard about it, and what makes
it correct.

### 1.1 Vault keyring, rotation, tokenization, erasure

- *State.* `vault_key_versions` (numbered generations: active, decrypt_only, retired),
  `vault_rotation_jobs` (from, to, running or completed), `token_vault` (one row per token,
  under one generation).
- *Operations.* `encrypt_vault_value` and `persist_vault_entries` in request transactions;
  `start_rotation` and `rotate_batch`, each one transaction under an advisory lock;
  `rotate_if_due` in the worker, `run_rotation` in `scripts/rotate_vault_key.py`; `erase_token`.
- *Meets.* Everything that protects a value shares the active generation with the rotation,
  without a lock.
- *Hard.* A request that outlives a batch, a job or a whole interval; two rotators; a crash
  between batches; a page that was empty when it was read and is trusted at the commit; rows left
  under a generation no longer in use.
- *Correct when* there is one active generation, at most one job, a generation is retired only
  after it was found empty, rows that were stored before stay decryptable, and whatever is stranded
  is brought back.

### 1.2 Governed outreach: lifecycle, email sender, Telegram sender, correlation

- *State.* `outreach_actions` (status, channel, protected text, approval, send_started_at),
  endpoints and identity claims (whether the customer may be written to),
  `email_reply_correlations`.
- *Operations.* `create_action`, `generate_action`, `update_draft`, `transition_action`
  (submit, approve, reject, cancel), `dispatch_one` of both senders, `recover_stale_sends`,
  `correlate_reply`.
- *Meets.* Managers, owners, workers of an overlapping deployment, the provider and the
  customer all act on one row; only the transitions are compare-and-swap.
- *Hard.* Read-then-write requests; a crash between claim, delivery and result; a provider
  that takes a message whose answer is lost; late results over newer states.
- *Correct when* nothing unapproved is sent, nothing is sent twice, a status never claims more
  than the provider did, refusals are final, and no action stays in a send.

### 1.3 Mailbox synchronization

- *State.* `email_sync_state.last_uid`, `email_ingestion_receipts`, the stored content.
- *Operations.* `sync_mailbox` (worker loop and `POST /integrations/email/sync`),
  `reconcile_unassigned_receipts`, `reconcile_receipt`, `route_email_sender`.
- *Meets.* Another synchronization at the same time; people who read the same mailbox;
  endpoint verification; correlation.
- *Hard.* Stages that commit one by one; exceptions in the middle; two cursors.
- *Correct when* each message is stored once, none is passed by, and receipts without a
  customer get one when their sender's endpoint may be used.

### 1.4 Customer identity, email identity, Telegram onboarding

- *State.* `customers` (primary name, profile_status, identity_review_status),
  `customer_endpoints` (owner, status, origin), `customer_identity_claims`,
  `customer_record_links`, `telegram_onboarding_sessions`.
- *Operations.* `begin_onboarding` to `submit_phone`, `resolve_customer_endpoint`,
  `ingest_customer_message` (bot); `route_email_sender` (email worker);
  `resolve_identity_claim`, `register_email_endpoint`, `verify_endpoint`, `revoke_endpoint`
  (owner and managers); `reconcile_customer_identity_state` (all of them).
- *Meets.* The three write the same rows; none locks or compares.
- *Hard.* A profile read before another one writes it; an onboarding that dies between its
  commits, is cancelled or begun again; endpoints of two customers in one session.
- *Correct when* a session that takes messages has the whole profile behind it, a record's
  link follows the endpoint it came from, and names change by decision only.

### 1.5 Ingestion, enrichment, CSV batches

- *State.* `tokenized_content` (text, derived summary, processing_status), links by alias,
  `structured_ingestion_batches` (status and counts).
- *Operations.* `protect_canonical_record`, `link_record_from_known_aliases`,
  `enrich_protected_record`, `enrich_in_background`, `ingest_structured_csv`.
- *Hard.* A model that answers about a text replaced meanwhile; rows that fail one by one; a
  process that dies inside a batch; two jobs at one record or one file.
- *Correct when* what is derived of a record fits its text, and the counts and the status of a
  batch follow from its rows.

### 1.6 E-invoices, finance summary, attention, overdue reminders

- *State.* `einvoice_records`, their mirror in protected content, fix-request drafts,
  `customer_attention_snapshots`, `tenant_outreach_policies`, reminders among the actions.
- *Operations.* `create_record`, `update_record`, `approve_record`, `mark_invoice_paid`,
  `create_outreach_draft`, `decide_outreach`, `sync_einvoice_tokenized_content`,
  `recalculate_customer_attention`, `revenue_summary`, `plan_due_reminders`.
- *Hard.* Four commits per request without a lock; inputs that return to an earlier value;
  reminder keys made of endpoint, policy version and stage; days at the edge of a period.
- *Correct when* an invoice is submitted once, its mirror and score follow it, reminders keep
  their pace, and the parts of the summary add up to its totals.

### 1.7 Recommendations, conversations, workflow audit chain

- *State.* `process_recommendations`, `recommendation_decisions`, `workflow_audit_log` (a hash
  chain per tenant), `conversations`, `conversation_turns` and their citations.
- *Operations.* `analyze_processes` (analyst and scheduler), `create_recommendation_from_turn`,
  `decide_recommendation`, `write_workflow_event`; `get_or_create_conversation`,
  `persist_turn`, `delete_conversation`.
- *Hard.* Statuses and numbers read before the lock or without one; inserts that meet at a
  unique key; a deletion under a query in flight; rollback after an append.
- *Correct when* the chain verifies at every commit, it tells of every decision what the tables
  say, and turns are numbered without a gap or a repeat.

### 1.8 Query answering and disclosure

- *State.* The question, its filters and evidence, the turn, a disclosure session per text
  (grants, restored and withheld tokens), `audit_log`.
- *Operations.* `plan_query`, `apply_content_filters`, `retrieve_hybrid_hits`,
  `prior_citation_hits`, the structured and the cited answers, `build_protected_brief`,
  `detokenize_response_with_trace`, `authorize_brief_with_trace`.
- *Hard.* Empty filters against filters of nothing; references to turns whose records
  changed; providers that cite or repeat what they were not given; tokens inside plaintext.
- *Correct when* an answer draws on nothing out of its scope, cites what it was given, and
  shows a role what the role may see, with an audit row for it.

### 1.9 Telegram bot

- *State.* `telegram_update_receipts` (an update is claimed once), capture drafts in memory.
- *Operations.* `start`, `cancel_command`, `_customer_content` for customers; capture, review
  and extraction for operators.
- *Correct when* an update takes effect at most once. The customers' side is in `Customers`.

### 1.10 Not modelled

| part | why |
|---|---|
| value detection and cryptography (`security/detect.py`, `crypto.py`) | pure functions over text and bytes |
| PDF layout, OCR, extraction, object storage (`services/einvoice_pdf.py`, ...) | formats and external services; no state of their own |
| prompts, embeddings and the ranking by similarity | the models: `Retrieval` and `Answers` allow every result the checks around them admit |
| the customer overview and dashboards, read-only routes | they compute nothing that is stored |
| operators' capture on Telegram: drafts in memory, keyboards, extractors, the statuses of receipts | conversation with one person over state that a restart forgets; what it submits is an ingestion |
| aliases, merged customer listings (`entity_resolution.py` but the links), claim basis and confidence | recorded, read by no guard of what is modelled |
| `_repair_completed_identity` | for sessions of an older schema; no state of this one needs it (`ProfileComplete`) |
| the disclosure chain's hashing and the storage of anchors | the same algorithm as the workflow chain's, which is modelled |
| accounts, tenancy, JWT, row-level security context | stateless per request; one policy that contradicts the code is in `OutreachDelivery` (`MayLeave`) |
| health, observability | reported, never read by the logic |
| frontend, operational scripts | presentation; one-shot commands over the same services |

### 1.11 How the components meet

Calls: routes call services; `sync_mailbox` calls ingestion, routing and correlation;
ingestion calls tokenization, which calls the keyring; every invoice request ends in a mirror
and a score. Shared rows: `vault_key_versions` (requests and rotators), `outreach_actions`
(requests, both senders, planner, correlation), `email_ingestion_receipts` (worker, endpoint),
customers, endpoints and claims (routing, onboarding, owner), turns (queries and
recommendations), the workflow chain (everything that is governed). There are no queues and no
callbacks between processes: a worker finds what to do by reading the database, so every
hand-over is a status another process may read too early, too late or twice.


## 2. The models

In all of them a step is what one transaction, or one stretch between two points where others
may act, does. A crash loses what a process had in memory and nothing that was committed. The
session of the code does not expire its rows on commit and writes only the columns whose value
differs from the one it loaded; where two writers meet, the models do the same (`Changed`,
`Written`).

### 2.1 VaultRotation

| code | model |
|---|---|
| `vault_key_versions` | `keys`, a sequence of statuses: generation *v* is `keys[v]` |
| `token_vault` | `vault[t]`, the generation of token *t*'s row, or `NoRow` |
| `vault_rotation_jobs` | `jobs`, a sequence of records |
| a request's transaction | `txn[w]`: `Encrypt` (reads the active generation, creates the first), `Stage` (`_has_token`), `Commit` or `Rollback` |
| `start_rotation` | `StartJoin`, `StartRecover`, `StartRefused`, `StartFresh`: its four outcomes |
| `rotate_batch` | `MoveRows`, `FindEmpty` then `Retire`, `StandDown`: its outcomes |
| rows stored while a batch that found its generation empty has not committed | `late`, a history variable |
| `rotate_if_due` | `CreateFirstKey`, `Resume`, `FindDue`, then one of the starts |
| `erase_token` | `Erase` |
| `vault_rotation_interval_days` | `due`, raised by `Elapse` |

Facts of the code the model keeps:

- The due check is made before `start_rotation` takes the lock and is not repeated under it, so
  a rotator may start on a stale finding (`rot[r].pc = "due"`).
- Requests hold no lock: `Encrypt` and `Commit` are apart, and rotations may pass in between.
- A first key that a request created and did not commit holds its primary key: nobody else
  can add one (`BootOpen`).
- A batch that finds its page empty (`FindEmpty`, `security/rotation.py:126`) still has an audit
  event to append, which may wait, before it commits the retirement (`Retire`, 162). It holds the
  rotation lock all the while, so no other rotator moves (`SomeRetiring`), but requests do not take
  that lock: a row stored in between (`late`) is under a generation that is then retired. It is
  unreadable until a later rotation reopens its generation, like one stored later still.
- The start of a rotation and a batch that moves rows are single steps. What they read and what
  they write is guarded by the same lock, but for the rows of the vault, of which a start only asks
  whether any is stranded: that is the point where it takes effect. A row that is committed after
  it is found by the next rotation, as it would be if it had been committed after the start.
- The manual script starts whether or not the interval has elapsed.
- `start_rotation` reopens a stranded generation only if it is the only one and a job leads
  from it to the active one.

What is abstracted: key bytes, ciphertext, masks, counters, audit events; the order in which
`rotate_batch` pages (a batch is any set of the right size); `protect_scalar` looks for
the token before it encrypts, `tokenize_record` after, and the model's order has the behaviours
of both. SQLite has no advisory locks and one writer; the model is of PostgreSQL. On
PostgreSQL the role of the API may not delete vault rows nor insert keys by the migrations
at hand: those steps, which the code takes, are allowed here, and leaving them out only
removes behaviours.

### 2.2 OutreachDelivery

| code | model |
|---|---|
| `outreach_actions` | `status`, `channel`, `text`, `stale` (send_started_at before the cutoff) |
| approval and what the provider took | history variables `approved` and `delivered` |
| a request in progress | `req[u]`: edits, submissions and approvals read before they write |
| rejection and cancelling | one step: the compare-and-swap is all they do |
| a worker | `worker[w]`: claimed, ready, recording, or recovering a list it has read |
| endpoint verified, customer confirmed, review clear | `eligible`, changed at any time |
| answers | `mail[a][s]`: written, then synchronized; `match` is between the two halves of `correlate_reply` |

Facts of the code the model keeps:

- Submission and approval update `where status = expected`; an edit, a result, a recovery and a
  correlation write by primary key alone.
- Email knows that `send_message` was entered and records `delivery_unknown` after an
  exception; Telegram knows only that it did not return and records `failed`. Telegram
  records `delivery_unknown` when the commit of `sent` fails.
- `recover_stale_sends` reads its rows once, of both channels, and writes them one by one.
  It runs in the email worker only: where Telegram is used without outbound email, an
  interrupted send stays `sending`.
- By the row-level policy of the migration, `finance_ops` may leave an action only in
  `pending_approval` or `cancelled` (`MayLeave`).

What is abstracted: protection, composing and evidence; the idempotency key (an action is its
key); ambiguous references and the timeline links of a correlation; `failure_code`. The
reminder planner, which may create an action that is already approved when the tenant's policy
asks for no approval, is in `Receivables`. SQLite has no row policies and no
`SKIP LOCKED`; the model is of PostgreSQL.

### 2.3 EmailSync

| code | model |
|---|---|
| the mailbox | `arrived` and `read`: UIDs given so far, messages a person has opened |
| `email_sync_state.last_uid` | `cursor` |
| `email_ingestion_receipts` | `receipt[u]` and `routed` (has a customer) |
| stored content | `ingested[u]`, how often a message was stored |
| one run of `sync_mailbox` | `sync[p]`: backlog, examine, received, ingested, route, close |
| verified endpoint of the sender | `routable`, changed at any time |

Facts of the code the model keeps:

- Every stage of a message commits by itself: the receipt, the content, the receipt's link to
  it, the routing.
- The session does not expire its rows on commit, so the cursor a run goes by is the one it
  read at its start, unless a rollback expired it (`Expired`); a run that did not move its
  cursor writes none. Two runs may move the cursor back, which is harmless: receipts tell what
  was done.
- An exception at a message ends the batch before the cursor passes it. The next run finds its
  receipt, reconciles it, and goes past.

`Mailbox` is the same mailbox with one step for each thing a reader can tell of a message: it
arrives, is opened, met (`received`), stored, filed (`protected`), owned, and passed. It maps
variable by variable (`Box`); what it leaves out is who does these, in which batch, and what the
one who does them knows. A run of `EmailSync` that repeats, fails or dies is a stutter there.

What is abstracted: decoding (a message that can never be decoded blocks those behind it until
a person reads it: a hazard without a property), enrichment, the status row, correlation, the
order of receipts in time (by UID). The sync endpoint runs under the API's database role, whose
further refusals are exceptions of the kind modelled.

### 2.4 Customers

| code | model |
|---|---|
| `customers` | `customers`: primary name, profile and review flags, the unique key a profile is created under |
| `customer_endpoints`, `customer_identity_claims`, `customer_record_links` | `endpoint[t]`, `claim[<<t, name>>]`, `links` (pairs of an endpoint and a customer) |
| `telegram_onboarding_sessions` | `session[u]` |
| the bot, which handles one update after the other | `bot`: reconciling, resolving, resolved, stored |
| a message being routed; an owner's decision | `mail`, `owner`: what was read before the commit |

Facts of the code the model keeps:

- `submit_phone` commits "reconciling", resolves, and commits "awaiting_message": the bot may
  die at each place, and `begin_onboarding` takes a session in "reconciling" back to the phone.
- An address or a number that is another customer's, or revoked, ends the resolution half-way;
  the handler's update of the receipt then commits what was done so far (`ResolveRefused`).
- Endpoints of two customers in one session mark both for review and merge nothing (`Conflict`).
- Two inserts at one unique key fail one of the two writers, who may go on with the row of the
  other (`RouteTarget`) or lose the update (`BotFails`).
- Decisions and routings write what differs from what they read: `Written`. A decided claim is
  left alone by routing and onboarding, but by what they read of it: one that was decided in
  between loses its decision (`Overtaken`).

What is abstracted: the basis, confidence and times of claims; aliases; the text of messages;
which of the three channels a number is from.

### 2.5 Enrichment

| code | model |
|---|---|
| `tokenized_content` | `row[i]`: status, text, what is derived of which text, mode |
| `structured_ingestion_batches` | `batch[f]`: status and counts |
| an ingestion, a deferred enrichment, a spreadsheet | `job[j]`: one loop over items, protecting then enriching |
| keys of the providers, `allow_offline_demo` | `deployment` |
| what two jobs had in hand, or a crash cut off | `contended`, `rewritten`, `doubled`, `orphaned`: history variables |

A summary is the text it is of and the tokens it repeats; the embedding goes with it. A line of
a spreadsheet is sound or not. `READY` content with the same fingerprint is left alone, and so is, whatever comes in, a `READY`
record older than the column for fingerprints (`NeedsProtection`, `Migrated`: the records of the
constant `Earlier`). A deferred enrichment looks at no status (`EnrichLater`): a record that was
`READY` is summarized again, and a failure leaves `FAILED_ENRICHMENT` beside the earlier summary.
Content newly protected drops its summary in the same commit; links by alias are added and never taken away; a summary is committed over
whatever the row has by then.

### 2.6 Invoices, AttentionScore, FinanceReport, Receivables

| code | model |
|---|---|
| `einvoice_records` | `invoice[i]`: TIN, amount, issue and due day, buyer, status, paid, UIN |
| a request | `request[s]`: the row it loaded, then write, mirror, score |
| protected mirror, snapshots, fix requests | `mirror`, `snapshots`, `drafts` |
| policy, verified chat, planner, reminders | `policy`, `chat`, `planner` (what its pass loaded), `reminders` |
| a `PUT /outreach-policy` in progress | `save[s]`: the row it loaded and what it will write |

`Accepts` checks the row loaded, and nothing checks it again. A snapshot is found by its inputs,
however old it is. The planner loads the policy and the overdue rows once per pass and commits
reminder by reminder; the key of a reminder is invoice, chat, stage and policy version. The
sender looks at chat, payment and buyer again, not at amount and due date. Saving a policy
reads the row (`BeginSave`), counts its version up in memory, and commits later what differs from
what it read (`CommitSave`), without a lock or a comparison: two saves at one time both store the
next version, with settings of either or of both. Where no row was seeded a save fails.

What is abstracted: text of drafts and documents, tax, currency; months of thirty days
(`FinanceReport` cuts by months, whose length no sum depends on); amounts in whole ringgit.

### 2.7 AuditChain, Conversations, Recommendations

| code | model |
|---|---|
| `workflow_audit_log` | `log`: rows with id, previous hash, hash, event |
| `event_hash` | the list of the events so far: a digest taken as collision free |
| the advisory lock of a tenant | `Locked(Lock(f))`, from the read of the tail to the commit |
| `conversations`, `conversation_turns` | `conversation[c]`, `turns`, with ids and numbers |
| a query; a deletion | `visit[v]`: answering, numbered, inserted; deleting |
| an analyst, an owner or the scheduler | `office[o]`: new, logging, logged |

A number is read before the insert and protected by a unique key only; an insert waits for one
in flight and fails on one committed (`Taken`). A decision is checked against the status that
was read before the lock. An id of the log is lost by a rollback. A deletion removes the turns
it saw; a proposal made from one of them forgets it.

`DecisionJournal` is a journal and the statuses of what is in it, both changed in one step; the
mapping (`Journal`) takes the events of the committed log, without ids and hashes, and the status
column. Its `Decide` asks only for some entry of the journal that permits the decision: two
officers who read "proposed" may both decide, and the second to commit wins.

What is abstracted: the wording of drafts, their confidence and priority; the time window is a
prefix of the records; who may do what beyond the operations themselves.

### 2.8 Retrieval, Answers

| code | model |
|---|---|
| a question | what the patterns find in it: features, systems, terms, place, customer |
| READY records, verified links, selected customer | `ready`, `linked`, `context` |
| `QueryFilters` | systems and ids; the other filters narrow in the same way |
| evidence, answer, brief | sequences of records; places cited and tokens repeated |
| `detokenize_response_with_trace` | `Restore`, `RestoreToken`, `RestoreDeeper`: up to five passes, each over the tokens it finds when it begins |
| `audit_log` | `log`: turn, token, authorized |

What a model is shown (`Shown`) are the evidence and the question, with a selected customer the
name and every email and phone endpoint that is not revoked, and, unless the question refers to
something or names somebody, the last turns: what was asked (`asked`) as well as what was answered.

Language models answer anything that the checks accept (`Accepted`), plan anything the planner's
schema admits (`Plans`) or fail. Records may be refreshed and links reviewed between any two
steps. The text of a record and of plaintext is the set of tokens in it; a brief whose plaintext
breaks its JSON is shown protected (`BriefShown`).


## 3. The runs

Passing runs; states are distinct states TLC finds.

- **`race`** (`VaultRotation`, 2 tokens, 2 writers, one scheduled and one manual rotator,
  batches of 1, 4 generations, 1 crash, requests of any length; tokens and writers symmetric;
  368,030 states). `OneActiveKey`, `RunningJobUsable`, `OldKeysRetired`, `RetireLeavesOnlyLate`
  (what is under a generation at its retirement was stored since it was found empty), and
  `ContentsSpec`: the rotation implements `VaultContents`, in which a readable row stays readable
  until it is erased, unless it was stored while a generation was being closed. Four generations are what it takes for a row to be stranded two behind,
  for the refusal to recover, and for a second rotation by a stale finding.
- **`worker`** (scheduled rotator alone, requests shorter than the interval, 3 generations;
  29,631 states). `StrandedReopenable`, and under fairness `RowsReachActive` and
  `UnreadableRecovered`.
- **`deploy`** (`OutreachDelivery`, one action, two texts, a manager and two owners, one email
  worker, two Telegram workers as in an overlapping deployment, 2 crashes; 239,762 states).
  `DeliveredOnce`, `SentWasTaken`, `OnlyApproved`, `CorrelatedReplied`, `RepliedByCustomer`,
  `GovernedSpec` (it implements `GovernedOutreach`: granted or refused for good, given once and
  only when granted, and what the firm is told is true or says that nothing is known; that a
  refusal is final and that an email marked failed was not sent are part of it) and, under
  fairness, `SendsSettle`. One action is
  enough for what is checked: actions share only the workers, and a worker holds one at a time.
- **`sync`** (`EmailSync`, 2 messages, batches of 1, the worker and one request, 1 exception,
  1 crash; 398,352 states). `IngestedOnce`, `CursorExamined`, `MailboxSpec` (it implements
  `Mailbox`) and, under fairness, `UnreadExamined` and `BacklogServed`. Two messages and batches of one give a
  message behind another, a cursor that is passed and a cursor moved back.
- **`identities`** (`Customers`, one user, address and number, two names, at most 2 customers,
  2 messages routed, 2 reviews; 2,901,919 states). `ProfileComplete`, `LinksFollowEndpoints`, `DecisionsStand`.
  Two customers are what it takes for an endpoint to be somebody else's; the theorems below
  are for any number of everything.
- **`batches`** (`Enrichment`, 2 sessions, 2 records, 2 texts, 2 spreadsheets of which one
  repeats an id and has an unsound line, two deployments, 2 jobs, 1 crash; one of the records may be
  older than fingerprints; 392,778 states).
  `DerivedFits`, `BatchAddsUp`, `ReadyBatchSearchable` and, under fairness, `BatchSettles`.
- **`invoices`** (`Receivables`, 2 request sessions, 1 invoice, 2 customers, 3 requests, 1
  failure, 2 days, 2 managers who save the policy, 2 changes of policy or chat, 3 reminders;
  2,439,481 states).
  `SubmittedOnce`, `MirrorCurrent`, `AttentionCurrent`, `RemindersPaced`, `FinanceAddsUp`. The
  initial rows put the two days on both sides of a stage, an age and a month; two
  changes are two saves at one time, which store one version with two settings. One setting allows
  two reminders, one a day, the other one only, and one of the invoices is a month overdue: it is
  past `max_reminders` in both.
- **`workflow`** (`Recommendations`, 2 visitors, 2 officers, 1 conversation, 2 turns, 3 events,
  1 proposal; 2,396,708 states). `DecisionsTold`, `TurnsNumbered`, `ChainVerifies`, `JournalSpec` (it implements
  `DecisionJournal`). Two visitors
  are two inserts that meet, or a query and a deletion; three events are a proposal and two
  decisions, or a rollback between two of them.
- **`queries`** (`Answers`, 3 records, nine questions, two roles, 2 turns, 1 change of a record
  or a link, `TopK`, batches and lists of 2, a token inside another's plaintext, a second endpoint of the customer; 1,553,100
  states). `EvidenceInScope`, `AnswerGrounded`, `DisclosedIsAudited`. The second turn refers to
  the first, or may repeat a token that only the first question had; three records are one more than
  a batch.

`DecisionsStand` excepts a transaction that had read the claim before it was decided
(`Overtaken`): with three messages and three reviews TLC shows one that writes "conflicting" over
what the owner decided meanwhile. The bounds of `identities` are below that.
`CorrelatedReplied` needs one email worker: with two, a late result or recovery may overwrite
`replied` (hazard at `sender.py:33`). `SendsSettle` needs an email worker, as said above. Where a
property excepts rows that two sessions had in hand (`contended`, `doubled`, `crossed`) or that
a crash cut off (`torn`, `unscored`, `orphaned`), the code promises nothing for them: the
exceptions name exactly the hazards listed for them in `PROJECT.json`, and without one of them
TLC reports the property.

Violations: each states what the repository says of itself, and TLC shows a run of the
code that does otherwise.

| run: property | what is said | what happens |
|---|---|---|
| `edited`: `ApprovedTextSent` | "Nothing reaches a customer without explicit owner approval" (`src/README.md:158`) | an edit admitted while the action was a draft commits after its approval: the text sent is not the one approved |
| `skipped`: `CursorPassesIngested` | "The cursor must never pass a failed delivery" (`integrations/email_connector/service.py:247`) | storing a message fails after its receipt was committed; the next run finds the receipt and goes past: the message is never stored |
| `renamed`: `NeverRenamed` | "a conflicting later name triggers owner review, never a silent rename" (`src/README.md:495`) | the bot and the email worker both read a profile without a name; the later commit replaces the name of the earlier |

Every property of a passing run has a mutant in `PROJECT.json`: a plausible bug in a mapped
definition that makes TLC report it. The mutants stand beside the definitions they change.

### Read in the code, without a run

- "A generation cannot be retired while any vault row still uses it"
  (`src/SUPABASE_ARCHITECTURE.md:98`). A row that is committed between the empty page and the commit
  of the retirement is under it. `RetireLeavesOnlyLate` says that no other row is; a later
  rotation reopens the generation (`UnreadableRecovered`).
- Two saves of the outreach policy at one time both store the next `policy_version`: reminders
  planned under either have keys of one version.
- A `READY` record without a fingerprint is left as it is when its source sends new content.
- A vault row committed by a request that outlived a rotation is under a retired generation
  until a later rotation reopens it; two rotations within one request strand it, and
  `start_rotation` then raises every time (the models allow both; `ContentsSpec` and
  `StrandedReopenable` say what is left).
- The row policy of `src/supabase/migrations/202608200004_governed_outreach.sql` refuses the
  edit of a draft by `finance_ops`, which `src/README.md:382` grants; the tests run on SQLite,
  without policies.
- Telegram may take a message whose answer is lost; the action is then `failed`, which
  `src/README.md:481` calls "error before delivery".
- A message or an onboarding that read a claim before the owner decided it writes its own status
  over the decision (`integrations/email_connector/identity.py:173` looks at what was read).
- An answer synchronized while its action is still `sending` is never correlated.
- A TIN blanked while an invoice is pending leaves it pending: it may be approved.
- The first `PUT /outreach-policy` of a tenant without a seeded row fails on a version of None.
- A query in flight at a deletion adds its turn to the deleted conversation.
- A question with an ordinal or a pronoun that nothing fits is answered by a fresh search,
  where `src/PRIORITY.md:817` asks for the records of the turn.
- An answer analyzed in batches that find nothing may be accepted without a citation.
- The review flag a conflict of endpoints sets is cleared by the next reconciliation, which
  `services/customer_identity_state.py:10` says keeps conflicts.
- A claimed Telegram update is lost when the process dies before it is handled.

### Bounds

`MaxVersion`, `MaxCrashes`, `MaxUid`, `MaxFailures`, `MaxJobs`, `MaxRequests`, `MaxChanges`,
`MaxWork`, `MaxReminders`, `MaxEvents`, `MaxProposals`, `MaxTurns`, `MaxCustomers`, `MaxMails` and
`MaxReviews` bound counters that have no bound in the code; each is a guard and nothing else.
`MaxWork` bounds invoice requests and changes of policy or chat together (a request counts for two),
so that `invoices` has three requests, or two changes with fewer of them, but not all at once.
`Savers`, `Earlier` and `EndpointsOf` are parameters, not bounds: who may save a policy, which
records are older than fingerprints, which tokens are the selected customer's endpoints.
`StartFresh` stops at `MaxVersion`, so liveness in `worker` is claimed only for what remains
possible then (moving and recovering rows), which needs no new generation. The runs of
`Customers`, `Enrichment`, `Receivables`, `Recommendations` and `Answers` say
`CHECK_DEADLOCK FALSE`: a bounded number of requests, jobs, turns or events is used up, and
then these systems, which only react, really stop. The others check for deadlock.

### Fairness

- Rotators of the scheduled kind and outreach workers: weak fairness of the process's next
  step. They loop (`runner.py`, `rotation_runner.py`) and `src/docker/entrypoint.sh` restarts
  them when they die. The manual script has none.
- A request's transaction ends (`Stage`, `Finish`), and time passes (`Elapse`, `Lapse`).
- A synchronization by request has fairness only once begun.
- A job of `Enrichment` goes on once begun (`WF_vars(Step(j))`): its loop waits for nothing but
  model calls, which answer or time out. That jobs begin, and that a dead one is begun again, is
  nobody's promise.
- Users, correspondents, the provider's answer, crashes and exceptions have none. In
  `worker`, `LongTransactions = FALSE` says that requests are shorter than the rotation interval
  (days); `race` has requests of any length, for which `StrandedReopenable` would not hold.


## 4. The theorems

The assumptions are those the modules name: batch sizes above zero, bounds that are
naturals, a finite set of tokens (batches are counted), owners who are users, disjoint sets of
email and Telegram workers, disjoint sets of users, addresses and numbers, and that the values
which stand for nothing are none of the others. Everything below holds for any number of
tokens, requests, rotators, actions, users, workers, messages, customers and names.

**`VaultRotation_proofs`.** What the runs check is not inductive: `RunningJobUsable` alone does
not tell which generation a second rotator would drain. `IInv` adds how the two tables hang
together: a fresh start appends one key and one job, so job *i* moves generation *i* to
*i + 1* (`JobsFollowKeys`), and the status of every older generation is told by its job, of which
only the newest may run (`KeysFollowJobs`). Rows, open transactions and rotators refer to
generations and jobs that exist.

- `TypeCorrect`: `Spec => []TypeOK`.
- `KeyringSafe`: `[](OneActiveKey /\ RunningJobUsable /\ OldKeysRetired)`; `JobsUsable` and
  `KeysRetired` are the last two by themselves.
- `RetirementSafe`: `RetireLeavesOnlyLate`, as an action property. `LockHeld` is what it adds to
  `IInv`: one rotator at most is retiring, and while it is, every row under its generation is late.
- `ImplementsVaultContents`: `ContentsSpec`. A start maps to `Reopen` or a stutter, an empty page to
  `Close`, the end of its batch (a retirement or a crash) to `Closed`, a commit of a request to
  `Store`, erasure to `Erase`; all else stutters. `Closed` may lose late rows only, which is
  `LockHeld` again.
- `StrandedFound`: `StrandedReopenable`, for the deployment of the run `worker`
  (`OneShortRotation`: one scheduled process, no manual script, no request longer than the
  interval). Its invariant `NearCurrent` counts generations: rows and open requests are at most
  one behind the active one, and once a rotation is due no open request is behind at all. The only
  stranded generation is then the one before the active, and the job that left it leads to the
  active one.

**`OutreachDelivery_proofs`.** Results, recoveries and correlations write without looking, so
safety rests on who can still write. Call an action undispatched while it has not been claimed, or
after a refusal. `IInv` says that no worker and no correlation has an undispatched action in
hand, and that nothing was delivered of it (`UndispatchedFree`); that an action has one holder
which has not delivered before it tries (`OneHolder`: only the claim makes a holder, and no
step leads back to `approved`); that what a holder is about to record agrees with what the
provider took (`ResultsTrue`); and that texts come before approvals and deliveries before
answers.

- `TypeCorrect`: `Spec => []TypeOK`.
- `DeliverySafe`: `[](DeliveredOnce /\ SentWasTaken /\ FailedEmailNotTaken /\ OnlyApproved)`,
  with any number of email workers too; `SentTrue`, `FailedTrue` and `ApprovalNeeded` are the
  last three by themselves.
- `OnlyCustomersReply`: `[]RepliedByCustomer`.
- `RefusalIsFinal`: `RefusalFinal`, as an action property.
- `ImplementsGovernedOutreach`: `GovernedSpec`. Rejecting and cancelling map to `Refuse`, an
  approval to `Grant`, a delivery to `Give`, and every write of a result, by a sender, a recovery
  or a correlation, to `Tell`; all else stutters. It needs `Withheld` in the invariant: of an
  email that failed, or an action that was cancelled after its approval, nothing was delivered
  and nobody holds it any more.
- `RepliesStay`: `CorrelatedReplied`, with one email worker (`OneEmailWorker`; it is false with
  two). `RepliesKept` is its invariant: an email in a worker's hand is still `sending`, what a
  correlation has read was recorded, so no result is outstanding when it commits.

**`EmailSync_proofs`.** A message is stored by the synchronization that inserted its receipt.
`IInv` is the shape of the variables and `Exclusive`: a message without a receipt is not stored,
at most one synchronization is between the receipt and the content of a message, and none is
once it is stored. Whoever comes later finds the receipt.

For the cursor, `CInv` adds what each synchronization is entitled to write: all it has gone past
has been examined (`Past`), and so has what its batch leaves out below a message of it (`Sound`).
Receipts never go away and what was read stays read, so no cursor, however old, is wrong.

- `TypeCorrect`: `Spec => []TypeOK`.
- `StoredOnce`: `Spec => []IngestedOnce`.
- `CursorSound`: `Spec => []CursorExamined`, for any number of synchronizations, each with a cursor
  of its own.
- `ImplementsMailbox`: `MailboxSpec`. The insert of a receipt maps to `Meet`, the commit of the
  content to `Store`, the update of the receipt to `File`, routing to `Own`, a cursor that is
  written to `Pass`; everything else stutters. `Exclusive` is what `Store` needs (nothing is stored
  of the message yet, and nobody else is about to store it), `CInv` what `Pass` needs.

**`Customers_proofs`.** No writer locks, so each carries what it read; the invariant says what of
it is still true. Its heart is `Keeps`: no step takes an endpoint from its customer or lets a
claim vanish, although all three actors write both. `IInv` then says what a session has been
given by each step (`SessionsOK`), what the bot knows in the middle of an update (`BotOK`), that
what the email worker and the owner have read exists still (`MailOK`, `OwnerOK`), and that links
follow their endpoints (`LinksOK`). `Written` stores nothing but what is there or what was
assigned, and neither is "none".

- `SpecLinksFollowEndpoints`: `Spec => []LinksFollowEndpoints`.
- `SpecProfileComplete`: `Spec => []ProfileComplete`.
- `DecisionsKept`: `DecisionsStand`, an action property. A writer that finds a claim missing must
  not write over one that was made and decided meanwhile. `ReadsOK` excludes it: the claims of a
  user are the bot's to make and those of an address the email worker's (`WhoMakes`), the owner
  decides only claims that exist, and so what the bot or the worker found missing is missing until
  it commits. What they found decided they leave alone, and what they found open is the exception.

**`Enrichment_proofs`.** Nothing keeps two jobs from one record or one file, so everything is said
of records that are not `contended` and files that are not `doubled`. `StoreInv`: such a record is
in the hand of one job at most (`OneHolder`), and what that job has read of it is what the row
holds (`Knows`); the job of a file has the rest of the file before it, and its counts account for
what lies behind (`Counted`), the rows of which say what the file says (`Fits`).

What is derived of such a record is of its text, whatever its status, and a record with a
fingerprint has that of its text (`DerivedOf`, `Printed`).

- `DerivedSound`: `Spec => []DerivedFits`.
- `BatchSums`: `Spec => []BatchAddsUp`.
- `ReadySound`: `Spec => ReadyBatchSearchable`, as an action property.

**`Receivables_proofs`.** `RowsInv` says of a row on which no two requests overlapped that at most
one request is at it, that what it loaded is what is stored (`Ready`), that its status, payment
and submissions agree (`Orderly`), and that its mirror is current or about to be written.
`ScoresInv` adds who will score what a customer owes, or why nobody does (`Scored`).
`RemindersInv` says that keys are unique and that each reminder was planned by some settings, is of
the stage its day has by them, and of none past their `max_reminders` (`Timely`). It does not say
that a version number is one policy, which two saves at one time contradict.

- `SubmissionsOnce`: `Spec => []SubmittedOnce`; `MirrorSound`: `Spec => []MirrorCurrent`;
  `AttentionSound`: `Spec => []AttentionCurrent`.
- `RemindersKeepPace`: `Spec => []RemindersPaced`. Reminders of one chat, version and due date
  have stages of their own, as their keys differ: their number is at most the largest stage, which
  is at most the `max_reminders` of the settings it was planned by. Under the same settings one
  stage is one interval.
- `InvoicesCountedOnce`: `Spec => []CountedOnce`. The parts of the finance summary (ages, overdue
  amounts, the months of a quarter) share no invoice and leave none out, for any table, day
  and quarter.
- `SummaryAddsUp`: `Spec => []FinanceAddsUp`: the sums over such parts agree, in ringgit. A sum
  is a fold whose value is the last of a recursive function, so it is known by what that function
  does at each number (`SumFunctionOnSet`, unfolded); two sums that do the same at every number
  are equal, by the smallest number at which they would differ. The invariant it needs is that
  there are finitely many invoices, which holds as only requests make rows.

**`Recommendations_proofs`.** Three invariants. `ChainInv`: the committed log verifies, and the one
session past the lock holds an entry that follows its tail, with an id above all of it (`Due`).
`ToldInv`: the log says of each recommendation what its decisions say, and the last of them is
its status (`Truthful`); a decision that is being written is about a recommendation that exists,
and, unless two were taken at one time, its status allows it. `TurnsInv`: unless a query crossed a
deletion, the turns of a conversation are numbered from 1 to their count, a number in flight is
at most the next one, the one inserted is the next one, and only one is inserted at a time.

- `ImplementsDecisionJournal`: `JournalSpec`. A commit maps to `Propose` or `Decide`, everything
  else, rollbacks and the whole of conversations included, stutters. `StandsInv` is what `Decide`
  needs: the decision an officer holds stands on a status that the log tells, for a log only
  grows; that the status read was told is `ToldInv`.
- `ChainSound`: `Spec => ChainVerifies`; `DecisionsSound`: `Spec => []DecisionsTold`;
  `TurnsSound`: `Spec => []TurnsNumbered`.

**`Answers_proofs`.** `QueryInv` follows a query phase by phase: which restriction its filters are
(`AskedInScope`: an empty list of ids never stands for "no restriction"), of what the gathered
records are a subset (`GatheredInScope`, `InScope`), that a restored token has its row among those
to be written (`RestoringAudited`), that those of the answer are in the log before the brief is
begun (`AnswerInLog`), and that nothing is shown while a query is under way. That an answer has no
token but those its question was given (`Grounded`) needs of the history that the turns a model is
shown are among the last `HistoryLimit` (`RecentTurns`), and of every way to answer, that it takes
from the evidence or from the customer's row.

- `EvidenceSound`: `Spec => []EvidenceInScope`; `GroundedSound`: `Spec => []AnswerGrounded`;
  `DisclosureSound`: `Spec => []DisclosedIsAudited`.

### What the proofs changed

- `EvidenceInScope` used to say of every question with an ordinal or a pronoun that it is answered
  from the records of earlier turns. The proof attempt failed on a question about the selected
  customer's profile or needs, which `routes/query.py:329` answers from the customer's whole
  listing: the property now excepts it (`AboutCustomer`), and the instance has such a question.
- The history variable `unscored` (`Invoices`) was redefined, because no invariant over one state
  could be stated about it. It follows the invoice that leaves a customer, the request that dies
  before it scored, and the score that makes up for either.
- Restoring a text was one step that folded over its tokens. It is now a step per token
  (`RestoreToken`, `RestoreDeeper`), which is what the code's loop does, with failures between
  any two, and can be reasoned about. For the same reason the lines of a spreadsheet and the order
  of retrieved records are given by rank (a `CHOOSE` and a count) instead of by folds and sorts, and
  records are built with `Written` instead of `@@` and `:>`, of which the prover knows nothing.

- The totals of the finance summary were folds with a `LAMBDA` (`MapThenSumSet`), which no prover
  here can unfold; they are now `SumFunctionOnSet` over a function of the rows, the same sums.
- `RemindersPaced` used to count by the policy of a version, which its proof took from "a version is
  one policy". That holds only while saves do not overlap; with `BeginSave` and `CommitSave` apart
  it is counted by the settings each reminder was planned with.
- `ContentsSpec` used to keep every readable row readable. With the empty page and the retirement
  apart that is false, and `VaultContents` says which rows a retirement may lose.
- That no decision is ever written over was false: the attempt to state what the bot and the worker
  leave alone led to `Overtaken`, the exception in `DecisionsStand`.

### What stays with TLC

- Liveness, which is out of the prover's reach: `RowsReachActive`, `UnreadableRecovered`,
  `SendsSettle`, `UnreadExamined`, `BacklogServed`, `BatchSettles`.
- What the score of a customer is (`ActionPoints`) and the stages of a reminder: the calculations
  themselves, which the properties only compare at two times or places.
- The three violations, of which a theorem could only say what the code does not promise.

Every invariant, action property and refinement of the passing runs is a theorem.
Where the theorem has a hypothesis on the deployment (`OneShortRotation`, `OneEmailWorker`) it is
that of the run; with requests of any length, or with two email workers, TLC finds the property
violated.


## 5. Plan

1. `MailboxLoop`, composing `EmailSync` with `OutreachDelivery`: whether an answer of the
   customer is eventually correlated. `Mailbox` and `GovernedOutreach` are the halves it would be
   stated over.
2. What is left of the rows that two sessions had in hand (`contended`, `doubled`, `crossed`): the
   weaker invariants that hold of those too.
3. An abstract conversation (numbered turns, deleted once), implemented by `Recommendations`.
4. The operators' capture on Telegram, with the statuses of receipts.
