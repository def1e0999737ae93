--------------------------- MODULE VaultRotation ---------------------------
(***************************************************************************)
(* The versioned token vault of backend/app/security: generation keys      *)
(* (keyring.py), the rotation job that moves every vault row from one      *)
(* generation to the next (rotation.py, rotation_runner.py), the request   *)
(* transactions that add rows (tokenize.py) and the erasure of one row     *)
(* (services/privacy.py).                                                  *)
(*                                                                         *)
(* start_rotation and rotate_batch each run in one transaction under the   *)
(* advisory lock.  A request takes no such lock: it reads the active       *)
(* generation, encrypts, stages the row and commits, and anything may      *)
(* happen between these.  So the batch that finds no row is two steps: the *)
(* page it reads, and the commit that retires the generation, with         *)
(* requests between them.  The other transactions are one step, at the     *)
(* point where they read the vault: a row that is committed before they    *)
(* commit is as good as one committed right after.  Ciphertext, masks,     *)
(* counters and audit events are left out: a row is the generation it is   *)
(* encrypted under.                                                        *)
(***************************************************************************)
EXTENDS Naturals, Sequences, FiniteSets

CONSTANTS
    Tokens,            \* deterministic protected tokens
    Writers,           \* request transactions that may store a token
    Scheduled,         \* rotation_runner processes (rotate_if_due)
    Manual,            \* scripts/rotate_vault_key.py processes (run_rotation)
    BatchSize,         \* vault_rotation_batch_size
    MaxVersion,        \* bound: generations ever created
    MaxCrashes,        \* bound: rotator processes killed
    LongTransactions   \* may a request outlive a whole rotation interval?

Rotators == Scheduled \cup Manual

ASSUME BatchSizeAssumption == BatchSize \in Nat \ {0}
ASSUME BoundsAssumption == MaxVersion \in Nat /\ MaxCrashes \in Nat
ASSUME TokensAssumption == IsFiniteSet(Tokens)

VARIABLES
    keys,      \* vault_key_versions: keys[v] is the status of generation v
    vault,     \* token_vault: the generation a row is under, or NoRow
    jobs,      \* vault_rotation_jobs, by id
    txn,       \* the open transaction of each writer
    rot,       \* where each rotator process is
    due,       \* has the rotation interval of the active key elapsed?
    crashes,   \* rotator processes killed so far
    late       \* history: rows stored since a generation was found empty

vars == <<keys, vault, jobs, txn, rot, due, crashes, late>>

NoRow == 0
NoTxn == [stage |-> "none"]
AtRest == [pc |-> "idle", job |-> 0]

KeyStatus == {"active", "decrypt_only", "retired"}
Job == [from : Nat, to : Nat, status : {"running", "completed"}]
Txn == [stage : {"encrypted", "adding", "known"}, token : Tokens,
        version : Nat, boot : BOOLEAN]

TypeOK ==
    /\ keys \in Seq(KeyStatus)
    /\ vault \in [Tokens -> Nat]
    /\ jobs \in Seq(Job)
    /\ txn \in [Writers -> Txn \cup {NoTxn}]
    /\ rot \in [Rotators -> [pc : {"idle", "due", "batching", "retiring"},
                          job : Nat]]
    /\ due \in BOOLEAN
    /\ crashes \in Nat
    /\ late \subseteq Tokens

-----------------------------------------------------------------------------
Current == Len(keys)     \* create_key_version numbers generations upwards

Stored == {t \in Tokens : vault[t] # NoRow}

\* unwrap_generation_key refuses a retired generation.
Readable == {t \in Stored : keys[vault[t]] # "retired"}

Running == {i \in DOMAIN jobs : jobs[i].status = "running"}

\* Rows outside the active generation, when start_rotation looks for them.
StrandedVersions == {vault[t] : t \in Stored} \ {Current}

\* Mutant: only a job that never completed can be reopened.
ReopensUnfinished(i, v) ==
    /\ jobs[i].from = v /\ jobs[i].to = Current
    /\ jobs[i].status # "completed"

\* The job start_rotation reopens for a stranded generation: the newest one
\* from it to the active generation.
Reopens(i, v) ==
    LET Candidates == {k \in DOMAIN jobs : /\ jobs[k].from = v
                                           /\ jobs[k].to = Current}
    IN i \in Candidates /\ \A k \in Candidates : k <= i

CanReopen == \E v \in StrandedVersions :
                /\ StrandedVersions = {v}
                /\ \E i \in DOMAIN jobs : Reopens(i, v)

Open == {w \in Writers : txn[w] # NoTxn}

\* An uncommitted first key holds its primary key: nobody else can add one.
BootOpen == \E w \in Open : txn[w].boot

\* A rotate_batch holds the advisory lock from the page it reads to its commit.
Retiring(r) == rot[r].pc = "retiring"
SomeRetiring == \E r \in Rotators : Retiring(r)

\* Every open request began under the active generation.
OpenAreRecent == \A w \in Open : txn[w].version = Current

Init ==
    /\ keys = <<>>
    /\ vault = [t \in Tokens |-> NoRow]
    /\ jobs = <<>>
    /\ txn = [w \in Writers |-> NoTxn]
    /\ rot = [r \in Rotators |-> AtRest]
    /\ due = FALSE
    /\ crashes = 0
    /\ late = {}

-----------------------------------------------------------------------------
(* A request that protects a value: tokenize_record, persist_vault_entries *)
(* and protect_scalar.                                                     *)

\* encrypt_vault_value: ensure_active_key, then encrypt under that generation.
Encrypt(w, t) ==
    /\ txn[w] = NoTxn
    /\ keys # <<>> \/ ~BootOpen
    /\ txn' = [txn EXCEPT ![w] =
                 [stage |-> "encrypted", token |-> t,
                  version |-> IF keys = <<>> THEN 1 ELSE Current,
                  boot |-> keys = <<>>]]
    /\ UNCHANGED <<keys, vault, jobs, rot, due, crashes, late>>

\* _has_token decides whether the session adds a row.
Stage(w) ==
    /\ txn[w].stage = "encrypted"
    /\ txn' = [txn EXCEPT ![w].stage =
                 IF vault[txn[w].token] = NoRow THEN "adding" ELSE "known"]
    /\ UNCHANGED <<keys, vault, jobs, rot, due, crashes, late>>

\* The commit writes the staged row, and the first key when it created one.
Commit(w) ==
    /\ \/ /\ txn[w].stage = "adding"
          /\ vault[txn[w].token] = NoRow
          /\ vault' = [vault EXCEPT ![txn[w].token] = txn[w].version]
       \/ /\ txn[w].stage = "known"
          /\ vault' = vault
    /\ keys' = IF txn[w].boot THEN <<"active">> ELSE keys
    /\ late' = IF SomeRetiring /\ txn[w].stage = "adding"
               THEN late \cup {txn[w].token} ELSE late
    /\ txn' = [txn EXCEPT ![w] = NoTxn]
    /\ UNCHANGED <<jobs, rot, due, crashes>>

\* Rollback: another error of the request, or the primary key of a row some
\* other transaction has added since.
Rollback(w) ==
    /\ w \in Open
    /\ txn' = [txn EXCEPT ![w] = NoTxn]
    /\ UNCHANGED <<keys, vault, jobs, rot, due, crashes, late>>

\* erase_token deletes the row; the token's registry entry stays.
Erase(t) ==
    /\ t \in Stored
    /\ vault' = [vault EXCEPT ![t] = NoRow]
    /\ late' = late \ {t}
    /\ UNCHANGED <<keys, jobs, txn, rot, due, crashes>>

-----------------------------------------------------------------------------
(* The rotation worker: rotate_if_due, start_rotation, rotate_batch.       *)

\* vault_rotation_interval_days after the active key was activated.
Elapse ==
    /\ keys # <<>> /\ ~due
    /\ LongTransactions \/ OpenAreRecent
    /\ due' = TRUE
    /\ UNCHANGED <<keys, vault, jobs, txn, rot, crashes, late>>

\* Mutant: the first key is created without activate=True.
CreatePendingKey(r) ==
    /\ rot[r] = AtRest
    /\ keys = <<>> /\ ~BootOpen
    /\ keys' = <<"pending">>
    /\ UNCHANGED <<vault, jobs, txn, rot, due, crashes, late>>

\* rotation_due's ensure_active_key on an empty key table, committed by
\* rotate_if_due because a key just made is not due.
CreateFirstKey(r) ==
    /\ rot[r] = AtRest
    /\ keys = <<>> /\ ~BootOpen
    /\ keys' = <<"active">>
    /\ UNCHANGED <<vault, jobs, txn, rot, due, crashes, late>>

\* Mutant: a process looks only for the job it was working on itself.
ResumeOwn(r) ==
    /\ rot[r] = AtRest
    /\ rot[r].job \in Running
    /\ rot' = [rot EXCEPT ![r].pc = "batching"]
    /\ UNCHANGED <<keys, vault, jobs, txn, due, crashes, late>>

\* rotate_if_due with an unfinished job.
Resume(r) ==
    /\ rot[r] = AtRest
    /\ \E i \in Running : rot' = [rot EXCEPT ![r] = [pc |-> "batching", job |-> i]]
    /\ UNCHANGED <<keys, vault, jobs, txn, due, crashes, late>>

\* Mutant: the interval is not looked at.
FindAlways(r) ==
    /\ rot[r] = AtRest
    /\ Running = {}
    /\ rot' = [rot EXCEPT ![r].pc = "due"]
    /\ UNCHANGED <<keys, vault, jobs, txn, due, crashes, late>>

\* rotate_if_due without one, once rotation_due holds.  The check is made
\* before start_rotation takes the lock and is not repeated under it.
FindDue(r) ==
    /\ rot[r] = AtRest
    /\ Running = {} /\ due
    /\ rot' = [rot EXCEPT ![r].pc = "due"]
    /\ UNCHANGED <<keys, vault, jobs, txn, due, crashes, late>>

\* start_rotation takes the advisory lock first.
MayStart(r) == /\ ~SomeRetiring
               /\ \/ rot[r].pc = "due"
                  \/ r \in Manual /\ rot[r].pc = "idle"

\* start_rotation finds a job already running.
StartJoin(r) ==
    /\ MayStart(r)
    /\ \E i \in Running : rot' = [rot EXCEPT ![r] = [pc |-> "batching", job |-> i]]
    /\ UNCHANGED <<keys, vault, jobs, txn, due, crashes, late>>

\* start_rotation finds one stranded generation and its job: it reopens both.
StartRecover(r) ==
    /\ MayStart(r)
    /\ Running = {} /\ keys # <<>>
    /\ \E v \in StrandedVersions, i \in DOMAIN jobs :
         /\ StrandedVersions = {v}
         /\ Reopens(i, v)
         /\ keys' = [keys EXCEPT ![v] = "decrypt_only"]
         /\ jobs' = [jobs EXCEPT ![i].status = "running"]
         /\ rot' = [rot EXCEPT ![r] = [pc |-> "batching", job |-> i]]
    /\ UNCHANGED <<vault, txn, due, crashes, late>>

\* start_rotation raises: several stranded generations, or one without a job.
\* The process ends and entrypoint.sh starts it again.
StartRefused(r) ==
    /\ MayStart(r)
    /\ Running = {} /\ StrandedVersions # {} /\ ~CanReopen
    /\ rot' = [rot EXCEPT ![r] = AtRest]
    /\ UNCHANGED <<keys, vault, jobs, txn, due, crashes, late>>

\* start_rotation opens a new generation.
StartFresh(r) ==
    /\ MayStart(r)
    /\ Running = {} /\ StrandedVersions = {}
    /\ keys # <<>> \/ ~BootOpen
    /\ LET current == IF keys = <<>> THEN 1 ELSE Current
           demoted == IF keys = <<>> THEN <<"decrypt_only">>
                      ELSE [keys EXCEPT ![Current] = "decrypt_only"]
       IN /\ current < MaxVersion
          /\ keys' = Append(demoted, "active")
          /\ jobs' = Append(jobs, [from |-> current, to |-> current + 1,
                                   status |-> "running"])
    /\ rot' = [rot EXCEPT ![r] = [pc |-> "batching", job |-> Len(jobs) + 1]]
    /\ due' = FALSE
    /\ UNCHANGED <<vault, txn, crashes, late>>

RowsUnder(v) == {t \in Tokens : vault[t] = v}

\* rotate_batch gets the lock, re-reads the job and finds it running.
Batches(r) == ~SomeRetiring /\ rot[r].pc = "batching" /\ rot[r].job \in Running

\* One rotate_batch that finds rows: at most BatchSize of them move on.
\* generation_key raises on a retired generation, which would end the process.
MoveRows(r) ==
    /\ Batches(r)
    /\ LET job == jobs[rot[r].job]
       IN \E rows \in SUBSET RowsUnder(job.from) :
            /\ rows # {}
            /\ \/ Cardinality(rows) = BatchSize
               \/ /\ rows = RowsUnder(job.from)
                  /\ Cardinality(rows) <= BatchSize
            /\ keys[job.from] # "retired" /\ keys[job.to] # "retired"
            /\ vault' = [t \in Tokens |-> IF t \in rows THEN job.to ELSE vault[t]]
    /\ UNCHANGED <<keys, jobs, txn, rot, due, crashes, late>>

\* Mutant: a page that is not full ends the job.
FindLastPage(r) ==
    /\ Batches(r)
    /\ Cardinality(RowsUnder(jobs[rot[r].job].from)) <= BatchSize
    /\ rot' = [rot EXCEPT ![r].pc = "retiring"]
    /\ late' = {}
    /\ UNCHANGED <<keys, vault, jobs, txn, due, crashes>>

\* One rotate_batch that finds none.
FindEmpty(r) ==
    /\ Batches(r)
    /\ RowsUnder(jobs[rot[r].job].from) = {}
    /\ rot' = [rot EXCEPT ![r].pc = "retiring"]
    /\ late' = {}
    /\ UNCHANGED <<keys, vault, jobs, txn, due, crashes>>

RetireWith(r, newKeys, newStatus) ==
    /\ Retiring(r)
    /\ keys' = newKeys
    /\ jobs' = [jobs EXCEPT ![rot[r].job].status = newStatus]
    /\ rot' = [rot EXCEPT ![r] = AtRest]
    /\ late' = {}
    /\ UNCHANGED <<vault, txn, due, crashes>>

\* Mutants: the wrong generation is retired; the job is not completed; the
\* generation is not retired.
RetireTarget(r) ==
    RetireWith(r, [keys EXCEPT ![jobs[rot[r].job].to] = "retired"], "completed")
RetireKeyOnly(r) ==
    RetireWith(r, [keys EXCEPT ![jobs[rot[r].job].from] = "retired"], "running")
RetireJobOnly(r) == RetireWith(r, keys, "completed")

\* Its commit, once write_workflow_event has had its turn: the generation is
\* retired, whatever requests have stored under it meanwhile.
Retire(r) ==
    /\ Retiring(r)
    /\ keys' = [keys EXCEPT ![jobs[rot[r].job].from] = "retired"]
    /\ jobs' = [jobs EXCEPT ![rot[r].job].status = "completed"]
    /\ rot' = [rot EXCEPT ![r] = AtRest]
    /\ late' = {}
    /\ UNCHANGED <<vault, txn, due, crashes>>

\* One rotate_batch that finds its job completed by another process.
StandDown(r) ==
    /\ ~SomeRetiring /\ rot[r].pc = "batching" /\ rot[r].job \notin Running
    /\ rot' = [rot EXCEPT ![r] = AtRest]
    /\ UNCHANGED <<keys, vault, jobs, txn, due, crashes, late>>

\* The process dies, and what it has not committed is rolled back;
\* entrypoint.sh starts it again.
Crash(r) ==
    /\ rot[r] # AtRest
    /\ crashes < MaxCrashes
    /\ crashes' = crashes + 1
    /\ rot' = [rot EXCEPT ![r] = AtRest]
    /\ late' = IF Retiring(r) THEN {} ELSE late
    /\ UNCHANGED <<keys, vault, jobs, txn, due>>

-----------------------------------------------------------------------------
Finish(w) == Commit(w) \/ Rollback(w)

WorkerStep(r) ==
    \/ r \in Scheduled /\ (CreateFirstKey(r) \/ Resume(r) \/ FindDue(r))
    \/ StartJoin(r) \/ StartRecover(r) \/ StartRefused(r) \/ StartFresh(r)
    \/ MoveRows(r) \/ FindEmpty(r) \/ Retire(r) \/ StandDown(r)

Next ==
    \/ \E w \in Writers : Stage(w) \/ Finish(w) \/ \E t \in Tokens : Encrypt(w, t)
    \/ \E t \in Tokens : Erase(t)
    \/ Elapse
    \/ \E r \in Rotators : WorkerStep(r) \/ Crash(r)

Spec == Init /\ [][Next]_vars

\* A request's transaction ends; the scheduled worker loops every
\* vault_rotation_check_seconds and is restarted when it dies; days pass.
Fairness ==
    /\ WF_vars(Elapse)
    /\ \A w \in Writers : WF_vars(Stage(w)) /\ WF_vars(Finish(w))
    /\ \A r \in Scheduled : WF_vars(WorkerStep(r))

FairSpec == Spec /\ Fairness

-----------------------------------------------------------------------------
(* Properties.                                                             *)

\* Once a key exists exactly one generation is active, the newest, whatever
\* processes start rotations together (ensure_active_key relies on it).
OneActiveKey ==
    keys # <<>> => /\ keys[Current] = "active"
                   /\ \A v \in 1..(Current - 1) : keys[v] # "active"

\* At most one job runs, and it drains a generation that can still be
\* decrypted into the active one (rotate_batch decrypts under "from" and
\* encrypts under "to").
RunningJobUsable ==
    \A i \in Running : /\ Running = {i}
                       /\ keys[jobs[i].from] = "decrypt_only"
                       /\ jobs[i].to = Current

\* A retirement leaves rows behind only when they were committed after its
\* batch had found the generation empty: no page, no crash and no second
\* process lets it pass over a row that was there when it looked.
RetireLeavesOnlyLate ==
    [][\A v \in DOMAIN keys :
          keys[v] # "retired" /\ keys'[v] = "retired" => RowsUnder(v)' \subseteq late]_vars

\* When no job runs, start_rotation can reopen what is stranded.
StrandedReopenable ==
    Running = {} => StrandedVersions = {} \/ CanReopen

\* Only the active, the draining and the retired generations exist between
\* jobs: once no job runs, every older generation is retired.
OldKeysRetired ==
    Running = {} => \A v \in 1..(Current - 1) : keys[v] = "retired"

\* A row outside the active generation is eventually moved to it, or erased.
RowsReachActive ==
    \A t \in Tokens :
        (t \in Stored /\ vault[t] # Current) ~> (t \notin Stored \/ vault[t] = Current)

\* An undecryptable row does not stay so.
UnreadableRecovered ==
    \A t \in Tokens : (t \in Stored \ Readable) ~> (t \notin Stored \/ t \in Readable)

\* What the rotation promises of the rows: see VaultContents.
Contents == INSTANCE VaultContents
    WITH stored <- Stored, readable <- Readable, closing <- SomeRetiring
ContentsSpec == Contents!Spec
=============================================================================
