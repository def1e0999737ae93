------------------------ MODULE VaultRotation_proofs ------------------------
(***************************************************************************)
(* Theorems of VaultRotation, for any tokens, processes, batch size and    *)
(* bounds.                                                                 *)
(***************************************************************************)
EXTENDS VaultRotation, SequenceTheorems, TLAPS

\* Job i moves generation i to i + 1: a fresh start appends one key and one
\* job, and nothing else adds either.
JobsFollowKeys ==
    /\ keys = <<>> => jobs = <<>>
    /\ keys # <<>> => Len(keys) = Len(jobs) + 1 /\ keys[Len(keys)] = "active"
    /\ \A i \in DOMAIN jobs : jobs[i].from = i /\ jobs[i].to = i + 1

\* The status of every older generation is told by its job, and only the
\* newest job may run.
KeysFollowJobs ==
    \A i \in DOMAIN jobs :
        \/ jobs[i].status = "completed" /\ keys[i] = "retired"
        \/ jobs[i].status = "running" /\ keys[i] = "decrypt_only" /\ i = Len(jobs)

RowsUnderKeys == \A t \in Tokens : vault[t] <= Len(keys)

\* An open transaction encrypted under a generation that exists, or holds
\* the only uncommitted first key.
TxnsUnderKeys ==
    \A w \in Writers : txn[w] # NoTxn =>
        \/ ~txn[w].boot /\ txn[w].version \in 1..Len(keys)
        \/ /\ txn[w].boot /\ txn[w].version = 1 /\ keys = <<>>
           /\ \A x \in Writers : txn[x] # NoTxn => x = w

RotatorsHoldJobs ==
    \A r \in Rotators : rot[r].pc \in {"batching", "retiring"} => rot[r].job \in DOMAIN jobs

\* The inductive invariant.
IInv ==
    /\ TypeOK
    /\ JobsFollowKeys
    /\ KeysFollowJobs
    /\ RowsUnderKeys
    /\ TxnsUnderKeys
    /\ RotatorsHoldJobs

-----------------------------------------------------------------------------
LEMMA InitIInv == Init => IInv
  <1> SUFFICES ASSUME Init PROVE IInv
    OBVIOUS
  <1>1. /\ keys = <<>> /\ keys \in Seq(KeyStatus) /\ Len(keys) = 0
        /\ jobs = <<>> /\ jobs \in Seq(Job) /\ DOMAIN jobs = {}
    BY DEF Init
  <1>2. TypeOK
    BY <1>1 DEF Init, TypeOK, NoRow, AtRest
  <1>3. JobsFollowKeys /\ KeysFollowJobs
    BY <1>1 DEF JobsFollowKeys, KeysFollowJobs
  <1>4. RowsUnderKeys
    BY <1>1 DEF Init, RowsUnderKeys, NoRow
  <1>5. TxnsUnderKeys /\ RotatorsHoldJobs
    BY DEF Init, TxnsUnderKeys, RotatorsHoldJobs, AtRest
  <1> QED
    BY <1>2, <1>3, <1>4, <1>5 DEF IInv

\* The two tables' invariants speak of keys and jobs only.
LEMMA TablesUnchanged ==
  ASSUME JobsFollowKeys, KeysFollowJobs, UNCHANGED <<keys, jobs>>
  PROVE  JobsFollowKeys' /\ KeysFollowJobs'
  BY DEF JobsFollowKeys, KeysFollowJobs

\* Changing the status of one generation and of one job keeps both tables
\* well formed.
LEMMA KeyChange ==
  ASSUME TypeOK, NEW v \in DOMAIN keys, NEW k \in KeyStatus
  PROVE  /\ [keys EXCEPT ![v] = k] \in Seq(KeyStatus)
         /\ Len([keys EXCEPT ![v] = k]) = Len(keys)
         /\ \A u \in 1..Len(keys) :
              [keys EXCEPT ![v] = k][u] = IF u = v THEN k ELSE keys[u]
  <1>1. keys \in Seq(KeyStatus) /\ v \in 1..Len(keys)
    BY DEF TypeOK
  <1> QED
    BY <1>1, ExceptSeq

LEMMA JobChange ==
  ASSUME TypeOK, NEW i \in DOMAIN jobs, NEW st \in {"running", "completed"}
  PROVE  /\ [jobs EXCEPT ![i].status = st] \in Seq(Job)
         /\ Len([jobs EXCEPT ![i].status = st]) = Len(jobs)
         /\ \A k \in 1..Len(jobs) :
              [jobs EXCEPT ![i].status = st][k] =
                 IF k = i THEN [jobs[i] EXCEPT !.status = st] ELSE jobs[k]
  <1>1. jobs \in Seq(Job) /\ i \in 1..Len(jobs) /\ jobs[i] \in Job
    BY DEF TypeOK
  <1>2. [jobs[i] EXCEPT !.status = st] \in Job
    BY <1>1 DEF Job
  <1> QED
    BY <1>1, <1>2, ExceptSeq

LEMMA NextIInv == IInv /\ [Next]_vars => IInv'
  <1> SUFFICES ASSUME IInv, [Next]_vars PROVE IInv'
    OBVIOUS
  <1> USE DEF IInv
  <1>typed. /\ keys \in Seq(KeyStatus) /\ Len(keys) \in Nat
            /\ DOMAIN keys = 1..Len(keys)
            /\ jobs \in Seq(Job) /\ Len(jobs) \in Nat
            /\ DOMAIN jobs = 1..Len(jobs)
            /\ \A i \in DOMAIN jobs : jobs[i] \in Job
            /\ keys = <<>> <=> Len(keys) = 0
            /\ jobs = <<>> <=> Len(jobs) = 0
    BY EmptySeq DEF TypeOK
  <1>counts. /\ keys = <<>> => Len(jobs) = 0
             /\ keys # <<>> => Len(keys) = Len(jobs) + 1
             /\ \A i \in 1..Len(jobs) : keys # <<>> /\ i < Len(keys)
    <2>1. keys = <<>> => Len(jobs) = 0
      BY <1>typed DEF JobsFollowKeys
    <2>2. keys # <<>> => Len(keys) = Len(jobs) + 1
      BY DEF JobsFollowKeys
    <2>3. Len(jobs) \in Nat /\ Len(keys) \in Nat
      BY <1>typed
    <2> QED
      BY <2>1, <2>2, <2>3
  <1>pairs. \A i \in 1..Len(jobs) : jobs[i].from = i /\ jobs[i].to = i + 1
    BY <1>typed DEF JobsFollowKeys
  <1>1. ASSUME NEW w \in Writers, NEW t \in Tokens, Encrypt(w, t) PROVE IInv'
    <2>1. TypeOK'
      BY <1>1 DEF Encrypt, TypeOK, Txn, NoTxn, Current
    <2>2. JobsFollowKeys' /\ KeysFollowJobs'
      BY <1>1, TablesUnchanged DEF Encrypt
    <2>3. RowsUnderKeys'
      BY <1>1 DEF Encrypt, TypeOK, RowsUnderKeys
    <2>4. TxnsUnderKeys'
      <3>1. /\ txn' = [txn EXCEPT ![w] =
                 [stage |-> "encrypted", token |-> t,
                  version |-> IF keys = <<>> THEN 1 ELSE Current, boot |-> keys = <<>>]]
            /\ keys' = keys /\ txn \in [Writers -> Txn \cup {NoTxn}]
        BY <1>1 DEF Encrypt, TypeOK
      <3>2. CASE keys = <<>>
        <4>1. \A x \in Writers : txn[x] # NoTxn => FALSE
          BY <1>1, <1>typed, <3>2 DEF Encrypt, BootOpen, Open, TxnsUnderKeys
        <4> QED
          BY <3>1, <3>2, <4>1 DEF TxnsUnderKeys
      <3>3. CASE keys # <<>>
        <4>1. Current \in 1..Len(keys)
          BY <1>typed, <3>3 DEF Current
        <4> QED
          BY <3>1, <3>3, <4>1 DEF TxnsUnderKeys
      <3> QED
        BY <3>2, <3>3
    <2>5. RotatorsHoldJobs'
      BY <1>1 DEF Encrypt, TypeOK, RotatorsHoldJobs
    <2> QED
      BY <2>1, <2>2, <2>3, <2>4, <2>5
  <1>2. ASSUME NEW w \in Writers, Stage(w) PROVE IInv'
    <2>1. TypeOK'
      <3>1. txn[w] \in Txn
        BY <1>2 DEF Stage, TypeOK, NoTxn
      <3>2. \A st \in {"adding", "known"} : [txn[w] EXCEPT !.stage = st] \in Txn
        BY <3>1 DEF Txn
      <3> QED
        BY <1>2, <3>2 DEF Stage, TypeOK
    <2>2. JobsFollowKeys' /\ KeysFollowJobs'
      BY <1>2, TablesUnchanged DEF Stage
    <2>3. RowsUnderKeys'
      BY <1>2 DEF Stage, TypeOK, RowsUnderKeys
    <2>4. TxnsUnderKeys'
      BY <1>2 DEF Stage, TypeOK, TxnsUnderKeys, Txn, NoTxn, Open, BootOpen, Current
    <2>5. RotatorsHoldJobs'
      BY <1>2 DEF Stage, TypeOK, RotatorsHoldJobs
    <2> QED
      BY <2>1, <2>2, <2>3, <2>4, <2>5
  <1>3. ASSUME NEW w \in Writers, Commit(w) PROVE IInv'
    <2>1. txn[w] # NoTxn /\ txn[w] \in Txn
      BY <1>3 DEF Commit, TypeOK, NoTxn
    <2>2. vault' \in [Tokens -> Nat] /\ late' \subseteq Tokens
      BY <1>3, <2>1 DEF Commit, TypeOK, Txn
    <2>3. CASE txn[w].boot
      <3>1. /\ keys = <<>> /\ jobs = <<>> /\ keys' = <<"active">> /\ Len(keys') = 1
            /\ keys' \in Seq(KeyStatus) /\ jobs' = jobs /\ DOMAIN jobs' = {}
            /\ keys'[1] = "active" /\ Len(jobs') = 0
        BY <1>3, <2>1, <2>3 DEF Commit, TxnsUnderKeys, JobsFollowKeys, KeyStatus
      <3>2. TypeOK'
        BY <1>3, <2>2, <3>1 DEF Commit, TypeOK
      <3>3. JobsFollowKeys' /\ KeysFollowJobs' /\ RotatorsHoldJobs'
        BY <1>3, <3>1 DEF Commit, JobsFollowKeys, KeysFollowJobs, RotatorsHoldJobs
      <3>4. RowsUnderKeys'
        BY <1>3, <2>1, <3>1 DEF Commit, RowsUnderKeys, TypeOK, TxnsUnderKeys, Txn
      <3>5. TxnsUnderKeys'
        BY <1>3, <2>1, <2>3, <3>1 DEF Commit, TxnsUnderKeys, TypeOK
      <3> QED
        BY <3>2, <3>3, <3>4, <3>5
    <2>4. CASE ~txn[w].boot
      <3>1. keys' = keys /\ jobs' = jobs /\ txn[w].version \in 1..Len(keys)
        BY <1>3, <2>1, <2>4 DEF Commit, TxnsUnderKeys
      <3>2. TypeOK'
        BY <1>3, <2>2, <3>1 DEF Commit, TypeOK
      <3>3. JobsFollowKeys' /\ KeysFollowJobs' /\ RotatorsHoldJobs'
        BY <1>3, <3>1, TablesUnchanged DEF Commit, RotatorsHoldJobs
      <3>4. RowsUnderKeys'
        <4>1. txn[w].version <= Len(keys)
          BY <3>1, <1>typed
        <4>2. \A t \in Tokens : vault'[t] = vault[t] \/ vault'[t] = txn[w].version
          BY <1>3 DEF Commit, TypeOK
        <4> QED
          BY <3>1, <4>1, <4>2 DEF RowsUnderKeys
      <3>5. TxnsUnderKeys'
        BY <1>3, <3>1 DEF Commit, TxnsUnderKeys, TypeOK
      <3> QED
        BY <3>2, <3>3, <3>4, <3>5
    <2> QED
      BY <2>1, <2>3, <2>4 DEF Txn
  <1>4. ASSUME NEW w \in Writers, Rollback(w) PROVE IInv'
    <2>1. TypeOK'
      BY <1>4 DEF Rollback, TypeOK, Txn, NoTxn, Open
    <2>2. JobsFollowKeys' /\ KeysFollowJobs'
      BY <1>4, TablesUnchanged DEF Rollback
    <2>3. RowsUnderKeys'
      BY <1>4 DEF Rollback, TypeOK, RowsUnderKeys
    <2>4. TxnsUnderKeys'
      BY <1>4 DEF Rollback, TypeOK, TxnsUnderKeys, Txn, NoTxn, Open, BootOpen, Current
    <2>5. RotatorsHoldJobs'
      BY <1>4 DEF Rollback, TypeOK, RotatorsHoldJobs
    <2> QED
      BY <2>1, <2>2, <2>3, <2>4, <2>5
  <1>5. ASSUME NEW t \in Tokens, Erase(t) PROVE IInv'
    <2>1. TypeOK'
      BY <1>5 DEF Erase, TypeOK, NoRow
    <2>2. JobsFollowKeys' /\ KeysFollowJobs'
      BY <1>5, TablesUnchanged DEF Erase
    <2>3. RowsUnderKeys'
      BY <1>5 DEF Erase, TypeOK, RowsUnderKeys, NoRow
    <2>4. TxnsUnderKeys'
      BY <1>5 DEF Erase, TypeOK, TxnsUnderKeys
    <2>5. RotatorsHoldJobs'
      BY <1>5 DEF Erase, TypeOK, RotatorsHoldJobs
    <2> QED
      BY <2>1, <2>2, <2>3, <2>4, <2>5
  <1>6. ASSUME Elapse PROVE IInv'
    <2>1. TypeOK'
      BY <1>6 DEF Elapse, TypeOK
    <2>2. JobsFollowKeys' /\ KeysFollowJobs'
      BY <1>6, TablesUnchanged DEF Elapse
    <2>3. RowsUnderKeys'
      BY <1>6 DEF Elapse, TypeOK, RowsUnderKeys
    <2>4. TxnsUnderKeys'
      BY <1>6 DEF Elapse, TypeOK, TxnsUnderKeys
    <2>5. RotatorsHoldJobs'
      BY <1>6 DEF Elapse, TypeOK, RotatorsHoldJobs
    <2> QED
      BY <2>1, <2>2, <2>3, <2>4, <2>5
  <1>7. ASSUME NEW r \in Rotators, CreateFirstKey(r) PROVE IInv'
    BY <1>7, <1>typed DEF CreateFirstKey, TypeOK, JobsFollowKeys, KeysFollowJobs, RowsUnderKeys,
       TxnsUnderKeys, RotatorsHoldJobs, KeyStatus, BootOpen, Open
  <1>8. ASSUME NEW r \in Rotators, Resume(r) PROVE IInv'
    <2>1. TypeOK'
      BY <1>8 DEF Resume, TypeOK, Running
    <2>2. JobsFollowKeys' /\ KeysFollowJobs'
      BY <1>8, TablesUnchanged DEF Resume
    <2>3. RowsUnderKeys'
      BY <1>8 DEF Resume, TypeOK, RowsUnderKeys
    <2>4. TxnsUnderKeys'
      BY <1>8 DEF Resume, TypeOK, TxnsUnderKeys
    <2>5. RotatorsHoldJobs'
      BY <1>8 DEF Resume, TypeOK, RotatorsHoldJobs, AtRest, Running
    <2> QED
      BY <2>1, <2>2, <2>3, <2>4, <2>5
  <1>9. ASSUME NEW r \in Rotators, FindDue(r) PROVE IInv'
    <2>1. TypeOK'
      BY <1>9 DEF FindDue, TypeOK
    <2>2. JobsFollowKeys' /\ KeysFollowJobs'
      BY <1>9, TablesUnchanged DEF FindDue
    <2>3. RowsUnderKeys'
      BY <1>9 DEF FindDue, TypeOK, RowsUnderKeys
    <2>4. TxnsUnderKeys'
      BY <1>9 DEF FindDue, TypeOK, TxnsUnderKeys
    <2>5. RotatorsHoldJobs'
      BY <1>9 DEF FindDue, TypeOK, RotatorsHoldJobs, AtRest, Running
    <2> QED
      BY <2>1, <2>2, <2>3, <2>4, <2>5
  <1>10. ASSUME NEW r \in Rotators, StartJoin(r) PROVE IInv'
    <2>1. TypeOK'
      BY <1>10 DEF StartJoin, TypeOK, Running
    <2>2. JobsFollowKeys' /\ KeysFollowJobs'
      BY <1>10, TablesUnchanged DEF StartJoin
    <2>3. RowsUnderKeys'
      BY <1>10 DEF StartJoin, TypeOK, RowsUnderKeys
    <2>4. TxnsUnderKeys'
      BY <1>10 DEF StartJoin, TypeOK, TxnsUnderKeys
    <2>5. RotatorsHoldJobs'
      BY <1>10 DEF StartJoin, TypeOK, RotatorsHoldJobs, AtRest, Running
    <2> QED
      BY <2>1, <2>2, <2>3, <2>4, <2>5
  <1>11. ASSUME NEW r \in Rotators, StartRecover(r) PROVE IInv'
    <2>1. PICK v \in StrandedVersions, i \in DOMAIN jobs :
            /\ Reopens(i, v)
            /\ keys' = [keys EXCEPT ![v] = "decrypt_only"]
            /\ jobs' = [jobs EXCEPT ![i].status = "running"]
            /\ rot' = [rot EXCEPT ![r] = [pc |-> "batching", job |-> i]]
      BY <1>11 DEF StartRecover
    <2>2. i = v /\ v = Len(jobs) /\ v \in DOMAIN keys /\ keys # <<>>
      BY <1>11, <2>1, <1>typed DEF StartRecover, Reopens, JobsFollowKeys, Current
    <2>3. /\ keys' \in Seq(KeyStatus) /\ Len(keys') = Len(keys)
          /\ \A u \in 1..Len(keys) : keys'[u] = IF u = v THEN "decrypt_only" ELSE keys[u]
      BY <2>1, <2>2, KeyChange DEF KeyStatus
    <2>4. /\ jobs' \in Seq(Job) /\ Len(jobs') = Len(jobs)
          /\ \A k \in 1..Len(jobs) :
               jobs'[k] = IF k = i THEN [jobs[i] EXCEPT !.status = "running"] ELSE jobs[k]
      BY <2>1, JobChange
    <2>5. TypeOK'
      BY <1>11, <2>1, <2>3, <2>4, <1>typed DEF TypeOK, StartRecover
    <2>6. DOMAIN jobs' = 1..Len(jobs) /\ keys' # <<>>
      BY <2>2, <2>3, <2>4, <1>typed
    <2>7. JobsFollowKeys'
      <3>1. \A k \in 1..Len(jobs) : jobs'[k].from = jobs[k].from /\ jobs'[k].to = jobs[k].to
        BY <2>4, <1>typed DEF Job
      <3> QED
        BY <2>2, <2>3, <2>4, <2>6, <3>1, <1>typed DEF JobsFollowKeys
    <2>8. KeysFollowJobs'
      BY <2>2, <2>3, <2>4, <2>6, <1>typed DEF KeysFollowJobs, JobsFollowKeys, Job
    <2>9. RowsUnderKeys' /\ TxnsUnderKeys'
      BY <1>11, <2>2, <2>3 DEF StartRecover, RowsUnderKeys, TxnsUnderKeys
    <2>10. RotatorsHoldJobs'
      BY <2>1, <2>6, <1>typed DEF RotatorsHoldJobs, TypeOK
    <2> QED
      BY <2>5, <2>7, <2>8, <2>9, <2>10
  <1>12. ASSUME NEW r \in Rotators, StartRefused(r) PROVE IInv'
    <2>1. TypeOK'
      BY <1>12 DEF StartRefused, TypeOK, AtRest
    <2>2. JobsFollowKeys' /\ KeysFollowJobs'
      BY <1>12, TablesUnchanged DEF StartRefused
    <2>3. RowsUnderKeys'
      BY <1>12 DEF StartRefused, TypeOK, RowsUnderKeys
    <2>4. TxnsUnderKeys'
      BY <1>12 DEF StartRefused, TypeOK, TxnsUnderKeys
    <2>5. RotatorsHoldJobs'
      BY <1>12 DEF StartRefused, TypeOK, RotatorsHoldJobs, AtRest, Running
    <2> QED
      BY <2>1, <2>2, <2>3, <2>4, <2>5
  <1>13. ASSUME NEW r \in Rotators, StartFresh(r) PROVE IInv'
    <2> DEFINE current == IF keys = <<>> THEN 1 ELSE Current
               demoted == IF keys = <<>> THEN <<"decrypt_only">>
                          ELSE [keys EXCEPT ![Current] = "decrypt_only"]
               job == [from |-> current, to |-> current + 1, status |-> "running"]
    <2>1. /\ keys' = Append(demoted, "active") /\ jobs' = Append(jobs, job)
          /\ rot' = [rot EXCEPT ![r] = [pc |-> "batching", job |-> Len(jobs) + 1]]
          /\ due' = FALSE /\ UNCHANGED <<vault, txn, crashes, late>>
      BY <1>13 DEF StartFresh
    <2>2. current \in Nat /\ current = Len(jobs) + 1 /\ job \in Job
      <3>1. current \in Nat /\ current = Len(jobs) + 1
        <4>1. Len(jobs) \in Nat
          BY <1>typed
        <4> QED
          BY <4>1, <1>counts DEF Current
      <3> HIDE DEF current
      <3> QED
        BY <3>1 DEF Job
    <2>3. /\ demoted \in Seq(KeyStatus) /\ Len(demoted) = current
          /\ demoted[current] = "decrypt_only"
          /\ \A u \in 1..(current - 1) : demoted[u] = keys[u]
      <3>1. CASE keys = <<>>
        BY <3>1 DEF KeyStatus
      <3>2. CASE keys # <<>>
        <4>1. Current \in DOMAIN keys /\ "decrypt_only" \in KeyStatus /\ current = Current
          BY <3>2, <1>typed DEF Current, KeyStatus
        <4>2. /\ demoted \in Seq(KeyStatus) /\ Len(demoted) = Len(keys)
              /\ \A u \in 1..Len(keys) :
                   demoted[u] = IF u = Current THEN "decrypt_only" ELSE keys[u]
          BY <3>2, <4>1, KeyChange
        <4> QED
          <5> HIDE DEF demoted
          <5> QED
            BY <4>1, <4>2, <1>typed DEF Current
      <3> QED
        BY <3>1, <3>2
    <2>4. /\ keys' \in Seq(KeyStatus) /\ Len(keys') = current + 1 /\ keys' # <<>>
          /\ keys'[current + 1] = "active" /\ keys'[current] = "decrypt_only"
          /\ \A u \in 1..(current - 1) : keys'[u] = keys[u]
      <3>1. "active" \in KeyStatus
        BY DEF KeyStatus
      <3> HIDE DEF demoted, current
      <3>2. /\ Append(demoted, "active") \in Seq(KeyStatus)
            /\ Append(demoted, "active") # <<>>
            /\ Len(Append(demoted, "active")) = current + 1
            /\ \A i \in 1..current : Append(demoted, "active")[i] = demoted[i]
            /\ Append(demoted, "active")[current + 1] = "active"
        BY <2>3, <3>1, AppendProperties
      <3> QED
        BY <2>1, <2>2, <2>3, <3>2
    <2>5. /\ jobs' \in Seq(Job) /\ Len(jobs') = current /\ jobs'[current] = job
          /\ \A i \in 1..(current - 1) : jobs'[i] = jobs[i]
      <3> HIDE DEF job, current
      <3>1. /\ Append(jobs, job) \in Seq(Job) /\ Len(Append(jobs, job)) = Len(jobs) + 1
            /\ \A i \in 1..Len(jobs) : Append(jobs, job)[i] = jobs[i]
            /\ Append(jobs, job)[Len(jobs) + 1] = job
        BY <1>typed, <2>2, AppendProperties
      <3> QED
        BY <2>1, <2>2, <3>1, <1>typed
    <2>6. DOMAIN jobs' = 1..current /\ Len(keys) <= current /\ Len(jobs) = current - 1
      <3>1. Len(keys) <= current
        BY <1>typed DEF Current
      <3>2. DOMAIN jobs' = 1..Len(jobs')
        BY <2>5, LenProperties
      <3> HIDE DEF current
      <3> QED
        BY <2>2, <2>5, <3>1, <3>2, <1>typed
    <2>7. TypeOK'
      <3> HIDE DEF current
      <3> QED
        BY <2>1, <2>2, <2>4, <2>5, <1>typed DEF TypeOK
    <2>8. JobsFollowKeys'
      <3>1. \A i \in 1..(current - 1) : jobs[i].from = i /\ jobs[i].to = i + 1
        BY <2>6, <1>typed DEF JobsFollowKeys
      <3>2. job.from = current /\ job.to = current + 1
        OBVIOUS
      <3> HIDE DEF current, job
      <3> QED
        BY <2>2, <2>4, <2>5, <2>6, <3>1, <3>2 DEF JobsFollowKeys
    <2>9. KeysFollowJobs'
      <3>1. \A i \in 1..(current - 1) : jobs[i].status = "completed" /\ keys[i] = "retired"
        BY <1>13, <2>6, <1>typed DEF StartFresh, Running, KeysFollowJobs
      <3>2. job.status = "running"
        OBVIOUS
      <3> HIDE DEF current, job
      <3> QED
        BY <2>2, <2>4, <2>5, <2>6, <3>1, <3>2 DEF KeysFollowJobs
    <2>10. RowsUnderKeys'
      <3> HIDE DEF current
      <3> QED
        BY <2>1, <2>2, <2>4, <2>6, <1>typed DEF RowsUnderKeys, TypeOK
    <2>11. TxnsUnderKeys'
      <3>1. \A w \in Writers : txn[w] # NoTxn => ~txn[w].boot /\ txn[w].version \in 1..Len(keys)
        BY <1>13 DEF StartFresh, BootOpen, Open, TxnsUnderKeys
      <3> HIDE DEF current
      <3> QED
        BY <2>1, <2>2, <2>4, <2>6, <3>1, <1>typed DEF TxnsUnderKeys
    <2>12. RotatorsHoldJobs'
      <3> HIDE DEF current
      <3> QED
        BY <2>1, <2>2, <2>5, <2>6, <1>typed DEF RotatorsHoldJobs, TypeOK
    <2> QED
      BY <2>7, <2>8, <2>9, <2>10, <2>11, <2>12
  <1>19. ASSUME NEW r \in Rotators, FindEmpty(r) PROVE IInv'
    <2>1. TypeOK'
      BY <1>19 DEF FindEmpty, Batches, TypeOK
    <2>2. JobsFollowKeys' /\ KeysFollowJobs'
      BY <1>19, TablesUnchanged DEF FindEmpty
    <2>3. RowsUnderKeys'
      BY <1>19 DEF FindEmpty, TypeOK, RowsUnderKeys
    <2>4. TxnsUnderKeys'
      BY <1>19 DEF FindEmpty, TypeOK, TxnsUnderKeys
    <2>5. RotatorsHoldJobs'
      BY <1>19 DEF FindEmpty, Batches, Running, TypeOK, RotatorsHoldJobs
    <2> QED
      BY <2>1, <2>2, <2>3, <2>4, <2>5
  <1>14. ASSUME NEW r \in Rotators, MoveRows(r) PROVE IInv'
    <2>1. PICK rows \in SUBSET RowsUnder(jobs[rot[r].job].from) :
            vault' = [t \in Tokens |-> IF t \in rows THEN jobs[rot[r].job].to ELSE vault[t]]
      BY <1>14 DEF MoveRows
    <2>2. /\ rot[r].job \in DOMAIN jobs
          /\ jobs[rot[r].job].to \in Nat /\ jobs[rot[r].job].to <= Len(keys)
      <3>1. rot[r].job \in 1..Len(jobs) /\ jobs[rot[r].job] \in Job
        BY <1>14, <1>typed DEF MoveRows, Batches, Running
      <3> QED
        <4>1. jobs[rot[r].job].to = rot[r].job + 1 /\ rot[r].job < Len(keys)
          BY <3>1, <1>counts, <1>pairs
        <4>2. Len(keys) \in Nat /\ Len(jobs) \in Nat /\ DOMAIN jobs = 1..Len(jobs)
          BY <1>typed
        <4> QED
          BY <3>1, <4>1, <4>2
    <2> QED
      BY <1>14, <2>1, <2>2, <1>typed DEF MoveRows, Batches, TypeOK, JobsFollowKeys, KeysFollowJobs,
         RowsUnderKeys, TxnsUnderKeys, RotatorsHoldJobs
  <1>15. ASSUME NEW r \in Rotators, Retire(r) PROVE IInv'
    <2> DEFINE i == rot[r].job
    <2>1. /\ i \in DOMAIN jobs /\ jobs[i].from = i
          /\ keys' = [keys EXCEPT ![i] = "retired"]
          /\ jobs' = [jobs EXCEPT ![i].status = "completed"]
          /\ rot' = [rot EXCEPT ![r] = AtRest]
      BY <1>15 DEF Retire, Retiring, RotatorsHoldJobs, JobsFollowKeys
    <2>2. i \in DOMAIN keys /\ i < Len(keys) /\ keys # <<>>
      <3>1. /\ Len(keys) \in Nat /\ Len(jobs) \in Nat
            /\ DOMAIN jobs = 1..Len(jobs) /\ DOMAIN keys = 1..Len(keys)
        BY <1>typed
      <3>2. i \in 1..Len(jobs)
        BY <2>1, <3>1
      <3>3. keys # <<>> /\ i < Len(keys)
        BY <3>2, <1>counts
      <3> HIDE DEF i
      <3> QED
        BY <3>1, <3>2, <3>3
    <2>3. /\ keys' \in Seq(KeyStatus) /\ Len(keys') = Len(keys)
          /\ \A u \in 1..Len(keys) : keys'[u] = IF u = i THEN "retired" ELSE keys[u]
      BY <2>1, <2>2, KeyChange DEF KeyStatus
    <2>4. /\ jobs' \in Seq(Job) /\ Len(jobs') = Len(jobs)
          /\ \A k \in 1..Len(jobs) :
               jobs'[k] = IF k = i THEN [jobs[i] EXCEPT !.status = "completed"] ELSE jobs[k]
      BY <2>1, JobChange
    <2> HIDE DEF i
    <2>5. TypeOK'
      BY <1>15, <2>1, <2>3, <2>4, <1>typed DEF TypeOK, Retire, AtRest
    <2>6. DOMAIN jobs' = 1..Len(jobs) /\ keys' # <<>>
      BY <2>2, <2>3, <2>4, <1>typed
    <2>7. JobsFollowKeys'
      BY <2>1, <2>2, <2>3, <2>4, <2>6, <1>typed DEF JobsFollowKeys, Job
    <2>8. KeysFollowJobs'
      BY <2>1, <2>2, <2>3, <2>4, <2>6, <1>typed DEF KeysFollowJobs, JobsFollowKeys, Job
    <2>9. RowsUnderKeys' /\ TxnsUnderKeys'
      BY <1>15, <2>2, <2>3 DEF Retire, RowsUnderKeys, TxnsUnderKeys
    <2>10. RotatorsHoldJobs'
      BY <2>1, <2>6, <1>typed DEF RotatorsHoldJobs, TypeOK, AtRest
    <2> QED
      BY <2>5, <2>7, <2>8, <2>9, <2>10
  <1>16. ASSUME NEW r \in Rotators, StandDown(r) PROVE IInv'
    <2>1. TypeOK'
      BY <1>16 DEF StandDown, TypeOK, AtRest
    <2>2. JobsFollowKeys' /\ KeysFollowJobs'
      BY <1>16, TablesUnchanged DEF StandDown
    <2>3. RowsUnderKeys'
      BY <1>16 DEF StandDown, TypeOK, RowsUnderKeys
    <2>4. TxnsUnderKeys'
      BY <1>16 DEF StandDown, TypeOK, TxnsUnderKeys
    <2>5. RotatorsHoldJobs'
      BY <1>16 DEF StandDown, TypeOK, RotatorsHoldJobs, AtRest, Running
    <2> QED
      BY <2>1, <2>2, <2>3, <2>4, <2>5
  <1>17. ASSUME NEW r \in Rotators, Crash(r) PROVE IInv'
    <2>1. TypeOK'
      BY <1>17 DEF Crash, TypeOK, AtRest
    <2>2. JobsFollowKeys' /\ KeysFollowJobs'
      BY <1>17, TablesUnchanged DEF Crash
    <2>3. RowsUnderKeys'
      BY <1>17 DEF Crash, TypeOK, RowsUnderKeys
    <2>4. TxnsUnderKeys'
      BY <1>17 DEF Crash, TypeOK, TxnsUnderKeys
    <2>5. RotatorsHoldJobs'
      BY <1>17 DEF Crash, TypeOK, RotatorsHoldJobs, AtRest, Running
    <2> QED
      BY <2>1, <2>2, <2>3, <2>4, <2>5
  <1>18. CASE UNCHANGED vars
    BY <1>18, <1>typed DEF vars, TypeOK, JobsFollowKeys, KeysFollowJobs, RowsUnderKeys,
       TxnsUnderKeys, RotatorsHoldJobs
  <1> QED
    BY <1>1, <1>2, <1>3, <1>4, <1>5, <1>6, <1>7, <1>8, <1>9, <1>10, <1>11, <1>12, <1>13,
       <1>14, <1>15, <1>16, <1>17, <1>18, <1>19 DEF Next, Finish, WorkerStep
-----------------------------------------------------------------------------
\* The three safety invariants follow from the inductive one.
LEMMA IInvSafety == IInv => OneActiveKey /\ RunningJobUsable /\ OldKeysRetired
  <1> SUFFICES ASSUME IInv PROVE OneActiveKey /\ RunningJobUsable /\ OldKeysRetired
    OBVIOUS
  <1> USE DEF IInv
  <1>1. /\ Len(keys) \in Nat /\ Len(jobs) \in Nat
        /\ DOMAIN jobs = 1..Len(jobs) /\ DOMAIN keys = 1..Len(keys)
    BY DEF TypeOK
  <1>2. keys # <<>> => Len(keys) = Len(jobs) + 1 /\ keys[Len(keys)] = "active"
    BY DEF JobsFollowKeys
  <1>3. keys = <<>> => Len(keys) = 0 /\ Len(jobs) = 0
    BY <1>1 DEF JobsFollowKeys
  <1>4. \A v \in 1..(Len(keys) - 1) : v \in DOMAIN jobs
    <2>1. Len(keys) \in Nat /\ Len(jobs) \in Nat /\ DOMAIN jobs = 1..Len(jobs)
      BY <1>1
    <2>2. Len(keys) = Len(jobs) + 1 \/ Len(keys) = 0
      BY <1>2, <1>3
    <2> QED
      BY <2>1, <2>2
  <1>5. OneActiveKey
    BY <1>2, <1>4 DEF OneActiveKey, Current, KeysFollowJobs
  <1>6. RunningJobUsable
    <2> SUFFICES ASSUME NEW i \in Running
                 PROVE  /\ Running = {i} /\ keys[jobs[i].from] = "decrypt_only"
                        /\ jobs[i].to = Current
      BY DEF RunningJobUsable
    <2>1. i \in DOMAIN jobs /\ keys[i] = "decrypt_only" /\ i = Len(jobs)
      BY DEF Running, KeysFollowJobs
    <2>2. \A k \in Running : k = Len(jobs)
      BY DEF Running, KeysFollowJobs
    <2>3. jobs[i].from = i /\ jobs[i].to = i + 1
      BY <2>1 DEF JobsFollowKeys
    <2>4. keys # <<>>
      BY <1>1, <1>3, <2>1
    <2> QED
      BY <2>1, <2>2, <2>3, <2>4, <1>2 DEF Current
  <1>7. OldKeysRetired
    BY <1>4 DEF OldKeysRetired, Current, KeysFollowJobs, Running
  <1> QED
    BY <1>5, <1>6, <1>7

\* The state of the two tables and of every process is well formed.
THEOREM TypeCorrect == Spec => []TypeOK
  <1>1. IInv => TypeOK
    BY DEF IInv
  <1> QED
    BY InitIInv, NextIInv, <1>1, PTL DEF Spec

\* However many processes start rotations, and wherever they die, there is one
\* active generation, at most one running job that can decrypt what it drains,
\* and no older generation left open between jobs.
THEOREM KeyringSafe == Spec => [](OneActiveKey /\ RunningJobUsable /\ OldKeysRetired)
  BY InitIInv, NextIInv, IInvSafety, PTL DEF Spec

\* A process that dies in the middle of a rotation leaves a job that another can
\* take up: its source can be decrypted and its target is the current generation.
THEOREM JobsUsable == Spec => []RunningJobUsable
  BY KeyringSafe, PTL

\* Between rotations no generation but the current one is left open.
THEOREM KeysRetired == Spec => []OldKeysRetired
  BY KeyringSafe, PTL

-----------------------------------------------------------------------------
(* What a step does to the status of generations, and to the rows.         *)

\* The steps that leave every key and every row alone.
Quiet == UNCHANGED <<keys, vault>>

LEMMA Tables ==
  ASSUME IInv
  PROVE  /\ Len(keys) \in Nat /\ Len(jobs) \in Nat
         /\ DOMAIN keys = 1..Len(keys) /\ DOMAIN jobs = 1..Len(jobs)
         /\ \A t \in Stored : vault[t] \in 1..Len(keys)
         /\ keys = <<>> => Stored = {}
         /\ \A i \in DOMAIN jobs : /\ i \in DOMAIN keys /\ i < Len(keys)
                                  /\ jobs[i].from = i /\ jobs[i].to = i + 1
  <1> USE DEF IInv
  <1>1. /\ Len(keys) \in Nat /\ Len(jobs) \in Nat
        /\ DOMAIN keys = 1..Len(keys) /\ DOMAIN jobs = 1..Len(jobs)
        /\ vault \in [Tokens -> Nat]
    BY DEF TypeOK
  <1>2. /\ keys # <<>> => Len(keys) = Len(jobs) + 1
        /\ keys = <<>> => Len(keys) = 0 /\ Len(jobs) = 0
    BY <1>1 DEF JobsFollowKeys
  <1>3. \A t \in Stored : vault[t] \in 1..Len(keys)
    <2> TAKE t \in Stored
    <2>1. vault[t] \in Nat /\ vault[t] # 0 /\ vault[t] <= Len(keys)
      BY <1>1 DEF Stored, NoRow, RowsUnderKeys
    <2>2. Len(keys) \in Nat
      BY <1>1
    <2> QED
      BY <2>1, <2>2
  <1>4. ASSUME NEW i \in DOMAIN jobs PROVE i \in DOMAIN keys /\ i < Len(keys)
    <2>1. i \in 1..Len(jobs) /\ Len(jobs) \in Nat /\ Len(keys) \in Nat /\ DOMAIN keys = 1..Len(keys)
      BY <1>1
    <2>2. Len(jobs) # 0
      BY <2>1
    <2>3. Len(keys) = Len(jobs) + 1
      BY <1>2, <2>2
    <2> QED
      BY <2>1, <2>3
  <1>5. keys = <<>> => Stored = {}
    BY <1>2, <1>3
  <1>6. \A i \in DOMAIN jobs : jobs[i].from = i /\ jobs[i].to = i + 1
    BY DEF JobsFollowKeys
  <1> QED
    BY <1>1, <1>3, <1>4, <1>5, <1>6

\* A fresh start demotes the active generation and appends the new one.
LEMMA FreshKeys ==
  ASSUME IInv, NEW r \in Rotators, StartFresh(r)
  PROVE  \A v \in DOMAIN keys :
           keys'[v] = IF v = Current THEN "decrypt_only" ELSE keys[v]
  <1>1. CASE keys = <<>>
    BY <1>1
  <1>2. CASE keys # <<>>
    <2> DEFINE demoted == [keys EXCEPT ![Current] = "decrypt_only"]
    <2>1. keys' = Append(demoted, "active")
      BY <1>2 DEF StartFresh
    <2>2. TypeOK /\ Current \in DOMAIN keys /\ DOMAIN keys = 1..Len(keys)
      <3>1. keys \in Seq(KeyStatus)
        BY DEF IInv, TypeOK
      <3> QED
        BY <1>2, <3>1, LenProperties, EmptySeq DEF IInv, Current
    <2>3. /\ demoted \in Seq(KeyStatus) /\ Len(demoted) = Len(keys)
          /\ \A u \in 1..Len(keys) : demoted[u] = IF u = Current THEN "decrypt_only" ELSE keys[u]
      BY <2>2, KeyChange DEF KeyStatus
    <2> HIDE DEF demoted
    <2>4. \A u \in 1..Len(keys) : Append(demoted, "active")[u] = demoted[u]
      BY <2>3, AppendProperties DEF KeyStatus
    <2> QED
      BY <2>1, <2>2, <2>3, <2>4
  <1> QED
    BY <1>1, <1>2

\* Every step is one of these, as far as keys and rows are concerned.
LEMMA KeysAndRows ==
  ASSUME IInv, [Next]_vars
  PROVE  \/ Quiet
         \/ \E w \in Writers : Commit(w)
         \/ \E t \in Tokens : Erase(t)
         \/ \E r \in Rotators : \/ CreateFirstKey(r) \/ StartRecover(r) \/ StartFresh(r)
                               \/ MoveRows(r) \/ Retire(r)
  BY DEF Next, Finish, WorkerStep, Quiet, vars, Encrypt, Stage, Rollback, Elapse, Resume,
     FindDue, StartJoin, StartRefused, StandDown, Crash, FindEmpty

\* A recovery reopens the generation of the one job that leads out of it.
LEMMA RecoverKeys ==
  ASSUME IInv, NEW r \in Rotators, StartRecover(r)
  PROVE  \E v \in DOMAIN keys :
           /\ vault' = vault
           /\ \A u \in DOMAIN keys : keys'[u] = IF u = v THEN "decrypt_only" ELSE keys[u]
  <1>1. PICK v \in StrandedVersions, i \in DOMAIN jobs :
          Reopens(i, v) /\ keys' = [keys EXCEPT ![v] = "decrypt_only"]
    BY DEF StartRecover
  <1>2. v \in DOMAIN keys
    BY <1>1, Tables DEF StrandedVersions
  <1> QED
    BY <1>1, <1>2 DEF StartRecover

\* The rotator that has found its generation empty holds the lock alone, and
\* whatever is under the generation by now was stored since.
LockHeld ==
    \A r \in Rotators : Retiring(r) =>
        /\ RowsUnder(jobs[rot[r].job].from) \subseteq late
        /\ \A s \in Rotators : Retiring(s) => s = r

\* A step that leaves the rows and the jobs, and lets nobody start to retire.
LEMMA LockKept ==
  ASSUME LockHeld, UNCHANGED <<vault, jobs>>,
         \A r \in Rotators : Retiring(r)' => rot'[r] = rot[r] /\ late' = late
  PROVE  LockHeld'
  BY DEF LockHeld, Retiring, RowsUnder

LEMMA NextLockHeld == IInv /\ LockHeld /\ [Next]_vars => LockHeld'
  <1> SUFFICES ASSUME IInv, LockHeld, [Next]_vars PROVE LockHeld'
    OBVIOUS
  <1>1. ASSUME NEW w \in Writers, Stage(w) \/ Rollback(w) \/ \E t \in Tokens : Encrypt(w, t)
        PROVE  LockHeld'
    BY <1>1, LockKept DEF Stage, Rollback, Encrypt
  <1>2. ASSUME NEW w \in Writers, Commit(w) PROVE LockHeld'
    <2> SUFFICES ASSUME NEW r \in Rotators, Retiring(r)'
                 PROVE  /\ (RowsUnder(jobs[rot[r].job].from) \subseteq late)'
                        /\ \A s \in Rotators : Retiring(s)' => s = r
      BY DEF LockHeld
    <2>1. UNCHANGED <<jobs, rot>> /\ Retiring(r) /\ SomeRetiring
      BY <1>2 DEF Commit, Retiring, SomeRetiring
    <2>2. late' = IF txn[w].stage = "adding" THEN late \cup {txn[w].token} ELSE late
      BY <1>2, <2>1 DEF Commit
    <2>3. \A t \in Tokens : vault'[t] = vault[t] \/ t \in late'
      <3>1. CASE vault' = vault
        BY <3>1
      <3>2. CASE txn[w].stage = "adding" /\ vault' = [vault EXCEPT ![txn[w].token] = txn[w].version]
        BY <2>2, <3>2 DEF IInv, TypeOK
      <3> QED
        BY <1>2, <3>1, <3>2 DEF Commit
    <2> QED
      BY <2>1, <2>2, <2>3 DEF LockHeld, Retiring, RowsUnder
  <1>3. ASSUME NEW t \in Tokens, Erase(t) PROVE LockHeld'
    <2> SUFFICES ASSUME NEW r \in Rotators, Retiring(r)'
                 PROVE  /\ (RowsUnder(jobs[rot[r].job].from) \subseteq late)'
                        /\ \A s \in Rotators : Retiring(s)' => s = r
      BY DEF LockHeld
    <2>1. UNCHANGED <<jobs, rot>> /\ Retiring(r)
      BY <1>3 DEF Erase, Retiring
    <2>2. jobs[rot[r].job].from # NoRow
      BY <2>1, Tables DEF IInv, RotatorsHoldJobs, Retiring, NoRow
    <2>3. late' = late \ {t} /\ \A x \in Tokens : vault'[x] = IF x = t THEN NoRow ELSE vault[x]
      BY <1>3 DEF Erase, IInv, TypeOK
    <2> QED
      BY <2>1, <2>2, <2>3 DEF LockHeld, Retiring, RowsUnder
  <1>4. CASE Elapse
    BY <1>4, LockKept DEF Elapse
  <1>5. ASSUME NEW r \in Rotators, CreateFirstKey(r) \/ Resume(r) \/ FindDue(r) PROVE LockHeld'
    <2>1. UNCHANGED <<vault, jobs, late>> /\ ~Retiring(r)'
      BY <1>5 DEF CreateFirstKey, Resume, FindDue, AtRest, Retiring, IInv, TypeOK
    <2>2. \A s \in Rotators \ {r} : rot'[s] = rot[s]
      BY <1>5 DEF CreateFirstKey, Resume, FindDue, IInv, TypeOK
    <2> QED
      BY <2>1, <2>2, LockKept
  <1>6. ASSUME NEW r \in Rotators,
               \/ StartJoin(r) \/ StartRecover(r) \/ StartRefused(r) \/ StartFresh(r)
               \/ MoveRows(r) \/ StandDown(r)
        PROVE  LockHeld'
    <2>1. \A s \in Rotators : ~Retiring(s)
      BY <1>6 DEF StartJoin, StartRecover, StartRefused, StartFresh, MoveRows, StandDown,
         MayStart, Batches, SomeRetiring
    <2>2. ~Retiring(r)'
      <3>1. rot' = rot \/ \E i : rot' = [rot EXCEPT ![r] = [pc |-> "batching", job |-> i]]
                      \/ rot' = [rot EXCEPT ![r] = AtRest]
        BY <1>6 DEF StartJoin, StartRecover, StartRefused, StartFresh, MoveRows, StandDown
      <3> QED
        BY <2>1, <3>1 DEF Retiring, AtRest, IInv, TypeOK
    <2>3. \A s \in Rotators \ {r} : rot'[s] = rot[s]
      BY <1>6 DEF StartJoin, StartRecover, StartRefused, StartFresh, MoveRows, StandDown,
         IInv, TypeOK
    <2>4. \A s \in Rotators : ~Retiring(s)'
      BY <2>1, <2>2, <2>3 DEF Retiring
    <2> QED
      BY <2>4 DEF LockHeld
  <1>7. ASSUME NEW r \in Rotators, FindEmpty(r) PROVE LockHeld'
    <2>1. /\ UNCHANGED <<vault, jobs>> /\ RowsUnder(jobs[rot[r].job].from) = {}
          /\ \A s \in Rotators : ~Retiring(s)
      BY <1>7 DEF FindEmpty, Batches, SomeRetiring
    <2>2. /\ rot'[r].job = rot[r].job
          /\ \A s \in Rotators \ {r} : rot'[s] = rot[s]
      BY <1>7 DEF FindEmpty, IInv, TypeOK
    <2>3. \A s \in Rotators : Retiring(s)' => s = r
      BY <2>1, <2>2 DEF Retiring
    <2> QED
      BY <2>1, <2>2, <2>3 DEF LockHeld, RowsUnder
  <1>8. ASSUME NEW r \in Rotators, Retire(r) \/ Crash(r) PROVE LockHeld'
    <2>1. ~Retiring(r)' /\ \A s \in Rotators \ {r} : rot'[s] = rot[s]
      BY <1>8 DEF Retire, Crash, AtRest, Retiring, IInv, TypeOK
    <2>2. CASE Retiring(r)
      BY <2>1, <2>2 DEF LockHeld, Retiring
    <2>3. CASE ~Retiring(r)
      BY <1>8, <2>1, <2>3, LockKept DEF Retire, Crash
    <2> QED
      BY <2>2, <2>3
  <1>9. CASE UNCHANGED vars
    BY <1>9, LockKept DEF vars
  <1> QED
    BY <1>1, <1>2, <1>3, <1>4, <1>5, <1>6, <1>7, <1>8, <1>9 DEF Next, Finish, WorkerStep

LEMMA InitLockHeld == Init => LockHeld
  BY DEF Init, LockHeld, Retiring, AtRest

LEMMA RetireStep ==
  ASSUME IInv, LockHeld, [Next]_vars
  PROVE  \A v \in DOMAIN keys :
           keys[v] # "retired" /\ keys'[v] = "retired" => RowsUnder(v)' \subseteq late
  <1> SUFFICES ASSUME NEW v \in DOMAIN keys, keys[v] # "retired", keys'[v] = "retired"
               PROVE  RowsUnder(v)' \subseteq late
    OBVIOUS
  <1>1. CASE Quiet
    BY <1>1 DEF Quiet
  <1>2. ASSUME NEW w \in Writers, Commit(w) PROVE FALSE
    <2>1. keys' = keys \/ keys = <<>>
      BY <1>2 DEF Commit, IInv, TxnsUnderKeys, NoTxn
    <2> QED
      BY <2>1
  <1>3. ASSUME NEW t \in Tokens, Erase(t) PROVE FALSE
    BY <1>3 DEF Erase
  <1>4. ASSUME NEW r \in Rotators, CreateFirstKey(r) PROVE FALSE
    BY <1>4 DEF CreateFirstKey
  <1>5. ASSUME NEW r \in Rotators, StartRecover(r) PROVE FALSE
    BY <1>5, RecoverKeys
  <1>6. ASSUME NEW r \in Rotators, StartFresh(r) PROVE FALSE
    BY <1>6, FreshKeys
  <1>7. ASSUME NEW r \in Rotators, MoveRows(r) PROVE FALSE
    BY <1>7 DEF MoveRows
  <1>8. ASSUME NEW r \in Rotators, Retire(r) PROVE RowsUnder(v)' \subseteq late
    <2>1. v = jobs[rot[r].job].from
      BY <1>8 DEF Retire
    <2> QED
      BY <1>8, <2>1 DEF Retire, RowsUnder, LockHeld
  <1> QED
    BY <1>1, <1>2, <1>3, <1>4, <1>5, <1>6, <1>7, <1>8, KeysAndRows

\* Whatever a retirement leaves behind was stored after its batch found the
\* generation empty, the only time at which no lock keeps requests out.
THEOREM RetirementSafe == Spec => RetireLeavesOnlyLate
  <1>1. IInv /\ LockHeld /\ [Next]_vars =>
          [\A v \in DOMAIN keys :
             keys[v] # "retired" /\ keys'[v] = "retired" => RowsUnder(v)' \subseteq late]_vars
    BY RetireStep
  <1> QED
    BY InitIInv, NextIInv, InitLockHeld, NextLockHeld, <1>1, PTL DEF Spec, RetireLeavesOnlyLate

-----------------------------------------------------------------------------
(* VaultRotation implements VaultContents.                                 *)

\* Steps that keep the rows and give no row's generation another readability
\* are stuttering steps of VaultContents.
LEMMA SameReadable ==
  ASSUME vault' = vault,
         \A t \in Stored : keys'[vault[t]] = "retired" <=> keys[vault[t]] = "retired"
  PROVE  Stored' = Stored /\ Readable' = Readable
  BY DEF Stored, Readable

\* Whether a generation is being retired changes only where a batch has found
\* it empty, and at its commit or its crash.
LEMMA LockStill ==
  ASSUME IInv, LockHeld, [Next]_vars
  PROVE  \/ SomeRetiring' = SomeRetiring
         \/ \E r \in Rotators : FindEmpty(r) \/ Retire(r) \/ (Crash(r) /\ Retiring(r))
  <1>1. CASE rot' = rot
    BY <1>1 DEF SomeRetiring, Retiring
  <1>2. ASSUME NEW r \in Rotators,
               \/ Resume(r) \/ FindDue(r) \/ StartJoin(r) \/ StartRecover(r) \/ StartRefused(r)
               \/ StartFresh(r) \/ StandDown(r) \/ (Crash(r) /\ ~Retiring(r))
        PROVE  SomeRetiring' = SomeRetiring
    <2>1. \A s \in Rotators \ {r} : rot'[s] = rot[s]
      BY <1>2 DEF Resume, FindDue, StartJoin, StartRecover, StartRefused, StartFresh, StandDown,
         Crash, IInv, TypeOK
    <2>2. ~Retiring(r)
      BY <1>2 DEF Resume, FindDue, StartJoin, StartRecover, StartRefused, StartFresh, StandDown,
         MayStart, SomeRetiring, Retiring, AtRest
    <2>3. ~Retiring(r)'
      BY <1>2 DEF Resume, FindDue, StartJoin, StartRecover, StartRefused, StartFresh, StandDown,
         Crash, Retiring, AtRest, IInv, TypeOK
    <2>4. \A s \in Rotators : Retiring(s)' <=> Retiring(s)
      BY <2>1, <2>2, <2>3 DEF Retiring
    <2> QED
      BY <2>4 DEF SomeRetiring
  <1>3. \/ rot' = rot
        \/ \E r \in Rotators :
             \/ Resume(r) \/ FindDue(r) \/ StartJoin(r) \/ StartRecover(r) \/ StartRefused(r)
             \/ StartFresh(r) \/ StandDown(r) \/ FindEmpty(r) \/ Retire(r) \/ Crash(r)
    BY DEF Next, Finish, WorkerStep, vars, Encrypt, Stage, Commit, Rollback, Erase, Elapse,
       CreateFirstKey, MoveRows
  <1> QED
    BY <1>1, <1>2, <1>3

\* Only a commit or an erasure while it is, and those steps, change what was
\* stored meanwhile.
LEMMA LateStill ==
  ASSUME [Next]_vars
  PROVE  \/ late' = late
         \/ \E w \in Writers : Commit(w)
         \/ \E t \in Tokens : Erase(t)
         \/ \E r \in Rotators : FindEmpty(r) \/ Retire(r) \/ (Crash(r) /\ Retiring(r))
  BY DEF Next, Finish, WorkerStep, vars, Encrypt, Stage, Rollback, Elapse, CreateFirstKey,
     Resume, FindDue, StartJoin, StartRecover, StartRefused, StartFresh, MoveRows, StandDown,
     Crash

LEMMA ContentsStep ==
  ASSUME IInv, LockHeld, [Next]_vars
  PROVE  [Contents!Next]_<<Stored, Readable, SomeRetiring, late>>
  <1> DEFINE Goal == [Contents!Next]_<<Stored, Readable, SomeRetiring, late>>
  <1> USE DEF NoRow
  <1>2. ASSUME NEW w \in Writers, Commit(w) PROVE Goal
    <2> DEFINE t == txn[w].token
    <2>1. /\ txn[w] \in Txn /\ t \in Tokens /\ txn[w].version \in Nat \ {0}
          /\ keys' = keys \/ keys = <<>>
          /\ txn[w].boot <=> keys = <<>>
      <3>1. txn[w] \in Txn /\ txn[w] # NoTxn
        BY <1>2 DEF Commit, IInv, TypeOK, NoTxn
      <3>2. txn[w].boot \/ txn[w].version \in 1..Len(keys)
        BY <3>1 DEF IInv, TxnsUnderKeys
      <3>3. txn[w].boot => txn[w].version = 1 /\ keys = <<>>
        BY <3>1 DEF IInv, TxnsUnderKeys
      <3>4. keys = <<>> => Len(keys) = 0
        OBVIOUS
      <3>5. txn[w].version \in Nat \ {0} /\ (keys = <<>> => txn[w].boot)
        BY <3>1, <3>2, <3>3, <3>4, Tables DEF Txn
      <3> QED
        BY <1>2, <3>1, <3>3, <3>5 DEF Commit, Txn
    <2>2. \A x \in Stored : keys'[vault[x]] = keys[vault[x]]
      BY <2>1, Tables
    <2>5. SomeRetiring' = SomeRetiring
      BY <1>2 DEF Commit, SomeRetiring, Retiring
    <2>3. CASE txn[w].stage = "known" /\ vault' = vault
      <3>1. late' = late
        BY <1>2, <2>3 DEF Commit
      <3> QED
        BY <2>2, <2>3, <2>5, <3>1, SameReadable
    <2>4. CASE /\ txn[w].stage = "adding" /\ vault[t] = NoRow
               /\ vault' = [vault EXCEPT ![t] = txn[w].version]
      <3>1. t \notin Stored /\ Stored' = Stored \cup {t}
        BY <2>1, <2>4 DEF Stored, IInv, TypeOK
      <3>2. \A x \in Stored : vault'[x] = vault[x] /\ x # t
        BY <2>1, <2>4, <3>1 DEF IInv, TypeOK, Stored
      <3>3. Readable' = Readable \/ Readable' = Readable \cup {t}
        BY <3>1, <3>2, <2>2 DEF Readable
      <3>5. late' = IF SomeRetiring THEN late \cup {t} ELSE late
        BY <1>2, <2>4 DEF Commit
      <3>4. Contents!Store(t)
        BY <2>5, <3>1, <3>3, <3>5 DEF Contents!Store
      <3> QED
        BY <2>1, <3>4 DEF Contents!Next
    <2> QED
      BY <1>2, <2>3, <2>4 DEF Commit
  <1>3. ASSUME NEW t \in Tokens, Erase(t) PROVE Goal
    <2>1. Stored' = Stored \ {t} /\ Readable' = Readable \ {t} /\ t \in Stored
      BY <1>3 DEF Erase, Stored, Readable, IInv, TypeOK
    <2>2. SomeRetiring' = SomeRetiring /\ late' = late \ {t}
      BY <1>3 DEF Erase, SomeRetiring, Retiring
    <2> QED
      BY <2>1, <2>2 DEF Contents!Next, Contents!Erase
  <1>4. ASSUME NEW r \in Rotators, CreateFirstKey(r) PROVE Goal
    BY <1>4, Tables, SameReadable DEF CreateFirstKey, SomeRetiring, Retiring
  <1>5. ASSUME NEW r \in Rotators, StartRecover(r) PROVE Goal
    <2>1. PICK v \in DOMAIN keys :
            /\ vault' = vault
            /\ \A u \in DOMAIN keys : keys'[u] = IF u = v THEN "decrypt_only" ELSE keys[u]
      BY <1>5, RecoverKeys
    <2> DEFINE rows == {t \in Stored : vault[t] = v}
    <2>2. Stored' = Stored /\ Readable' = Readable \cup rows
      BY <2>1, Tables DEF Stored, Readable
    <2>4. ~SomeRetiring /\ SomeRetiring' = SomeRetiring /\ late' = late
      <3>1. ~SomeRetiring /\ late' = late
        BY <1>5 DEF StartRecover, MayStart
      <3>2. \A s \in Rotators : ~Retiring(s)'
        BY <1>5, <3>1 DEF StartRecover, Retiring, SomeRetiring, IInv, TypeOK
      <3> QED
        BY <3>1, <3>2 DEF SomeRetiring
    <2>3. Contents!Reopen(rows) /\ rows \in SUBSET Tokens
      BY <2>2, <2>4 DEF Contents!Reopen, Stored
    <2> QED
      BY <2>3 DEF Contents!Next
  <1>6. ASSUME NEW r \in Rotators, StartFresh(r) PROVE Goal
    <2>1. \A t \in Stored : keys'[vault[t]] = "retired" <=> keys[vault[t]] = "retired"
      <3> SUFFICES ASSUME NEW t \in Stored
                   PROVE  keys'[vault[t]] = "retired" <=> keys[vault[t]] = "retired"
        OBVIOUS
      <3>1. vault[t] \in DOMAIN keys /\ keys # <<>>
        BY Tables
      <3>2. keys[Current] = "active"
        BY <3>1 DEF IInv, JobsFollowKeys, Current
      <3> QED
        BY <1>6, <3>1, <3>2, FreshKeys
    <2>2. SomeRetiring' = SomeRetiring /\ late' = late
      <3>1. ~SomeRetiring /\ late' = late
        BY <1>6 DEF StartFresh, MayStart
      <3>2. \A s \in Rotators : ~Retiring(s)'
        BY <1>6, <3>1 DEF StartFresh, Retiring, SomeRetiring, IInv, TypeOK
      <3> QED
        BY <3>1, <3>2 DEF SomeRetiring
    <2> QED
      BY <1>6, <2>1, <2>2, SameReadable DEF StartFresh
  <1>7. ASSUME NEW r \in Rotators, MoveRows(r) PROVE Goal
    <2> DEFINE from == jobs[rot[r].job].from
               to == jobs[rot[r].job].to
    <2>1. PICK rows \in SUBSET RowsUnder(from) :
            vault' = [t \in Tokens |-> IF t \in rows THEN to ELSE vault[t]]
      BY <1>7 DEF MoveRows
    <2>2. /\ from \in 1..Len(keys) /\ to = from + 1 /\ Len(keys) \in Nat
          /\ keys[from] # "retired" /\ keys[to] # "retired" /\ keys' = keys
      BY <1>7, Tables DEF MoveRows, Batches, Running
    <2>8. SomeRetiring' = SomeRetiring /\ late' = late
      BY <1>7 DEF MoveRows, SomeRetiring, Retiring
    <2> HIDE DEF from, to
    <2>3. from # 0 /\ to # 0
      BY <2>2
    <2>4. \A t \in Tokens : t \in Stored' <=> t \in Stored
      BY <2>1, <2>3 DEF Stored, RowsUnder
    <2>5. \A t \in Stored : keys[vault'[t]] = "retired" <=> keys[vault[t]] = "retired"
      BY <2>1, <2>2 DEF Stored, RowsUnder
    <2>6. Stored' = Stored
      BY <2>4 DEF Stored
    <2>7. Readable' = Readable
      BY <2>2, <2>5, <2>6 DEF Readable
    <2> QED
      BY <2>6, <2>7, <2>8
  <1>8. ASSUME NEW r \in Rotators, Retire(r) PROVE Goal
    <2> DEFINE from == jobs[rot[r].job].from
               lost == RowsUnder(from) \cap Readable
    <2>1. /\ RowsUnder(from) \subseteq late /\ vault' = vault /\ late' = {}
          /\ keys' = [keys EXCEPT ![from] = "retired"]
      BY <1>8 DEF Retire, LockHeld
    <2>2. SomeRetiring /\ SomeRetiring' = FALSE
      <3>1. \A s \in Rotators : ~Retiring(s)'
        BY <1>8 DEF Retire, Retiring, AtRest, LockHeld, IInv, TypeOK
      <3> QED
        BY <1>8, <3>1 DEF Retire, SomeRetiring
    <2> HIDE DEF from
    <2>3. Stored' = Stored /\ Readable' = Readable \ lost
      <3>1. \A t \in Stored : keys'[vault[t]] = IF vault[t] = from THEN "retired" ELSE keys[vault[t]]
        BY <2>1, Tables
      <3> QED
        BY <2>1, <3>1 DEF Stored, Readable, RowsUnder
    <2>4. Contents!Closed(lost) /\ lost \in SUBSET Tokens
      BY <2>1, <2>2, <2>3 DEF Contents!Closed, RowsUnder
    <2> QED
      BY <2>4 DEF Contents!Next
  <1>9. CASE Quiet
    <2>1. Stored' = Stored /\ Readable' = Readable
      BY <1>9 DEF Quiet, Stored, Readable
    <2>2. CASE UNCHANGED <<SomeRetiring, late>>
      BY <2>1, <2>2
    <2>3. ASSUME NEW r \in Rotators, FindEmpty(r) PROVE Goal
      <3>1. ~SomeRetiring /\ SomeRetiring' /\ late' = {}
        BY <2>3 DEF FindEmpty, Batches, SomeRetiring, Retiring, IInv, TypeOK
      <3>2. Contents!Close
        BY <2>1, <3>1 DEF Contents!Close
      <3> QED
        BY <3>2 DEF Contents!Next
    <2>4. ASSUME NEW r \in Rotators, Crash(r), Retiring(r) PROVE Goal
      <3>1. SomeRetiring /\ ~SomeRetiring' /\ late' = {}
        BY <2>4 DEF Crash, SomeRetiring, Retiring, AtRest, LockHeld, IInv, TypeOK
      <3>2. Contents!Closed({}) /\ {} \in SUBSET Tokens
        BY <2>1, <3>1 DEF Contents!Closed
      <3> QED
        BY <3>2 DEF Contents!Next
    <2>5. ASSUME NEW r \in Rotators, Retire(r) PROVE Goal
      BY <1>8, <2>5
    <2>6. ASSUME NEW w \in Writers, Commit(w) PROVE Goal
      BY <1>2, <2>6
    <2>7. ASSUME NEW t \in Tokens, Erase(t) PROVE Goal
      BY <1>3, <2>7
    <2> QED
      BY <1>9, <2>2, <2>3, <2>4, <2>5, <2>6, <2>7, LockStill, LateStill
  <1> QED
    BY <1>2, <1>3, <1>4, <1>5, <1>6, <1>7, <1>8, <1>9, KeysAndRows

\* Rotation, crashes and recoveries are invisible in what the vault holds: a
\* row that can be decrypted stays so until erase_token deletes it, unless it
\* was stored while its generation was being retired.
THEOREM ImplementsVaultContents == Spec => ContentsSpec
  <1>1. Init => Contents!Init
    BY DEF Init, Contents!Init, Stored, Readable, NoRow, SomeRetiring, Retiring, AtRest
  <1>2. IInv /\ LockHeld /\ [Next]_vars => [Contents!Next]_(Contents!vars)
    BY ContentsStep DEF Contents!vars
  <1> QED
    BY InitIInv, NextIInv, InitLockHeld, NextLockHeld, <1>1, <1>2,
       PTL DEF Spec, ContentsSpec, Contents!Spec
-----------------------------------------------------------------------------
(* One scheduled process, and requests shorter than its interval: what is  *)
(* stranded is never more than one generation behind, and its job is the   *)
(* newest.                                                                 *)

\* One rotation_runner, nobody runs scripts/rotate_vault_key.py, and no
\* request lasts vault_rotation_interval_days.
OneShortRotation ==
    /\ Manual = {} /\ \A r, s \in Scheduled : r = s
    /\ ~LongTransactions

\* Once a rotation is due every open request began under the active
\* generation, and only then can another be opened.
NearCurrent ==
    /\ \A t \in Stored : vault[t] + 1 >= Current
    /\ \A w \in Open : ~txn[w].boot => txn[w].version + 1 >= Current
    /\ due => keys # <<>> /\ OpenAreRecent
    /\ \A r \in Rotators : rot[r].pc = "due" => due

LEMMA InitNear == Init => NearCurrent
  BY DEF Init, NearCurrent, Stored, Open, NoRow, NoTxn, AtRest

\* A step that leaves the rows and the number of generations, and opens no
\* request.
LEMMA NearTables ==
  ASSUME NearCurrent, UNCHANGED <<vault, txn, due>>, Len(keys') = Len(keys),
         keys # <<>> => keys' # <<>>,
         \A r \in Rotators : rot'[r].pc = "due" => due
  PROVE  NearCurrent'
  BY DEF NearCurrent, Stored, Open, OpenAreRecent, Current

LEMMA NearRequests ==
  ASSUME IInv, IInv', NearCurrent, NEW w \in Writers,
         Stage(w) \/ Rollback(w) \/ \E t \in Tokens : Encrypt(w, t)
  PROVE  NearCurrent'
  <1>1. /\ UNCHANGED <<keys, vault, due, rot>>
        /\ \A x \in Writers \ {w} : txn'[x] = txn[x]
    BY DEF IInv, TypeOK, Stage, Rollback, Encrypt
  <1>2. w \in Open' => \/ /\ txn'[w].version = txn[w].version /\ txn'[w].boot = txn[w].boot
                          /\ w \in Open
                       \/ /\ txn'[w].boot <=> keys = <<>>
                          /\ keys # <<>> => txn'[w].version = Current
    <2>1. CASE Stage(w)
      <3>1. txn[w] \in Txn
        BY <2>1 DEF Stage, IInv, TypeOK, NoTxn
      <3>2. \E st : txn'[w] = [txn[w] EXCEPT !.stage = st]
        BY <2>1 DEF Stage, IInv, TypeOK
      <3> QED
        BY <2>1, <3>1, <3>2 DEF Stage, Open, NoTxn, Txn
    <2>2. CASE Rollback(w)
      BY <2>2 DEF Rollback, Open, IInv, TypeOK
    <2>3. CASE \E t \in Tokens : Encrypt(w, t)
      <3>1. PICK t \in Tokens : Encrypt(w, t)
        BY <2>3
      <3>2. txn'[w] = [stage |-> "encrypted", token |-> t,
                       version |-> IF keys = <<>> THEN 1 ELSE Current,
                       boot |-> keys = <<>>]
        BY <3>1 DEF Encrypt, IInv, TypeOK
      <3>3. txn'[w].version = IF keys = <<>> THEN 1 ELSE Current
        BY <3>2
      <3>4. txn'[w] # NoTxn
        BY <3>2 DEF NoTxn
      <3>5. \/ ~txn'[w].boot /\ txn'[w].version \in 1..Len(keys)
            \/ txn'[w].boot /\ keys = <<>>
        BY <1>1, <3>4 DEF IInv, TxnsUnderKeys
      <3>6. txn'[w].boot <=> keys = <<>>
        BY <3>5, Tables
      <3> QED
        BY <3>3, <3>6
    <2> QED
      BY <2>1, <2>2, <2>3
  <1>3. Current \in Nat /\ Current' = Current
    BY <1>1, Tables DEF Current
  <1>4. Open' \subseteq Open \cup {w}
    BY <1>1 DEF Open
  <1>5. \A x \in Open' : ~txn'[x].boot => txn'[x].version + 1 >= Current
    BY <1>1, <1>2, <1>3, <1>4 DEF NearCurrent, Open
  <1>6. due => \A x \in Open' : txn'[x].version = Current
    BY <1>1, <1>2, <1>4 DEF NearCurrent, OpenAreRecent, Open
  <1> QED
    BY <1>1, <1>3, <1>5, <1>6 DEF NearCurrent, OpenAreRecent, Stored

LEMMA NearCommit ==
  ASSUME IInv, NearCurrent, NEW w \in Writers, Commit(w)
  PROVE  NearCurrent'
  <1>1. txn[w] \in Txn /\ w \in Open
    BY DEF Commit, IInv, TypeOK, NoTxn, Open
  <1>2. /\ \A x \in Writers : txn'[x] = IF x = w THEN NoTxn ELSE txn[x]
        /\ UNCHANGED <<due, rot>>
    BY DEF Commit, IInv, TypeOK
  <1>3. \A t \in Tokens : vault'[t] = vault[t] \/ vault'[t] = txn[w].version
    BY <1>1 DEF Commit, IInv, TypeOK
  <1>4. CASE txn[w].boot
    <2>1. /\ keys = <<>> /\ keys' = <<"active">> /\ txn[w].version = 1
          /\ \A x \in Open : x = w
      BY <1>1, <1>4 DEF Commit, IInv, TxnsUnderKeys, Open
    <2>2. Open' = {} /\ Stored = {} /\ ~due
      BY <1>2, <2>1, Tables DEF Open, NearCurrent
    <2>3. Current' = 1
      BY <2>1 DEF Current
    <2>4. \A t \in Stored' : vault'[t] = 1
      BY <1>3, <2>1, <2>2 DEF Stored
    <2> QED
      BY <1>2, <2>2, <2>3, <2>4 DEF NearCurrent
  <1>5. CASE ~txn[w].boot
    <2>1. keys' = keys /\ Current' = Current
      BY <1>5 DEF Commit, Current
    <2>2. Open' \subseteq Open /\ \A x \in Open' : txn'[x] = txn[x]
      BY <1>2 DEF Open
    <2>3. txn[w].version + 1 >= Current
      BY <1>1, <1>5 DEF NearCurrent
    <2>4. \A t \in Stored' : vault'[t] + 1 >= Current
      BY <1>3, <2>3 DEF NearCurrent, Stored
    <2> QED
      BY <1>2, <2>1, <2>2, <2>4 DEF NearCurrent, OpenAreRecent
  <1> QED
    BY <1>1, <1>4, <1>5 DEF Txn

LEMMA NearErase ==
  ASSUME IInv, NearCurrent, NEW t \in Tokens, Erase(t)
  PROVE  NearCurrent'
  <1>1. \A x \in Stored' : x \in Stored /\ vault'[x] = vault[x]
    BY DEF Erase, Stored, IInv, TypeOK
  <1>2. UNCHANGED <<keys, txn, due, rot>>
    BY DEF Erase
  <1> QED
    BY <1>1, <1>2 DEF NearCurrent, Open, OpenAreRecent, Current

LEMMA NearElapse ==
  ASSUME OneShortRotation, NearCurrent, Elapse
  PROVE  NearCurrent'
  BY DEF OneShortRotation, NearCurrent, Elapse, Stored, Open, OpenAreRecent, Current

\* The process looks for work, or stops, and touches no table.
LEMMA NearQuiet ==
  ASSUME IInv, NearCurrent, NEW r \in Rotators,
         \/ Resume(r) \/ FindDue(r) \/ StartJoin(r) \/ StartRefused(r) \/ StandDown(r) \/ Crash(r)
         \/ FindEmpty(r)
  PROVE  NearCurrent'
  <1>1. UNCHANGED <<keys, vault, txn, due>>
    BY DEF Resume, FindDue, StartJoin, StartRefused, StandDown, Crash, FindEmpty
  <1>2. rot'[r].pc = "due" => due
    BY DEF Resume, FindDue, StartJoin, StartRefused, StandDown, Crash, FindEmpty, IInv, TypeOK, AtRest
  <1>3. \A s \in Rotators \ {r} : rot'[s] = rot[s]
    BY DEF Resume, FindDue, StartJoin, StartRefused, StandDown, Crash, FindEmpty, IInv, TypeOK
  <1>4. \A s \in Rotators : rot'[s].pc = "due" => due
    BY <1>2, <1>3 DEF NearCurrent
  <1> QED
    BY <1>1, <1>4, NearTables

LEMMA NearFirstKey ==
  ASSUME IInv, NearCurrent, NEW r \in Rotators, CreateFirstKey(r)
  PROVE  NearCurrent'
  <1>1. keys = <<>> /\ ~BootOpen /\ keys' = <<"active">> /\ UNCHANGED <<vault, txn, due, rot>>
    BY DEF CreateFirstKey
  <1>2. Stored' = {} /\ Open' = {} /\ ~due
    <2>1. Open = {}
      <3> SUFFICES ASSUME NEW w \in Open PROVE FALSE
        OBVIOUS
      <3>1. ~txn[w].boot
        BY <1>1 DEF BootOpen
      <3>2. txn[w].version \in 1..Len(keys) /\ Len(keys) = 0
        BY <1>1, <3>1 DEF IInv, TxnsUnderKeys, Open
      <3> QED
        BY <3>2
    <2> QED
      BY <1>1, <2>1, Tables DEF Stored, Open, NearCurrent
  <1> QED
    BY <1>1, <1>2 DEF NearCurrent

\* A recovery, a retirement: one key and one job change their status.
LEMMA NearStatuses ==
  ASSUME IInv, NearCurrent, NEW r \in Rotators, StartRecover(r) \/ Retire(r)
  PROVE  NearCurrent'
  <1>1. UNCHANGED <<vault, txn, due>>
    BY DEF StartRecover, Retire
  <1>2. Len(keys') = Len(keys) /\ (keys # <<>> => keys' # <<>>)
    <2>1. PICK v \in DOMAIN keys, k \in KeyStatus : keys' = [keys EXCEPT ![v] = k]
      <3>1. CASE StartRecover(r)
        BY <3>1, Tables DEF StartRecover, StrandedVersions, KeyStatus
      <3>2. CASE Retire(r)
        BY <3>2, Tables DEF Retire, Retiring, IInv, RotatorsHoldJobs, KeyStatus
      <3> QED
        BY <3>1, <3>2
    <2>2. Len(keys') = Len(keys) /\ keys' \in Seq(KeyStatus)
      BY <2>1, KeyChange DEF IInv
    <2> QED
      BY <2>1, <2>2, Tables, EmptySeq
  <1>3. \A s \in Rotators : rot'[s].pc = "due" => due
    <2>1. rot'[r].pc # "due" /\ \A s \in Rotators \ {r} : rot'[s] = rot[s]
      BY DEF StartRecover, Retire, AtRest, IInv, TypeOK
    <2> QED
      BY <2>1 DEF NearCurrent
  <1> QED
    BY <1>1, <1>2, <1>3, NearTables

\* A fresh start finds nothing stranded and every open request recent.
LEMMA NearFresh ==
  ASSUME OneShortRotation, IInv, NearCurrent, NEW r \in Rotators, StartFresh(r)
  PROVE  NearCurrent'
  <1>1. rot[r].pc = "due" /\ due /\ keys # <<>> /\ OpenAreRecent
    BY DEF StartFresh, MayStart, OneShortRotation, NearCurrent
  <1>2. Current' = Current + 1 /\ Current \in Nat /\ keys' # <<>>
    <2>1. Current \in DOMAIN keys /\ Current \in Nat
      BY <1>1, Tables, EmptySeq DEF Current, IInv, TypeOK
    <2>2. /\ [keys EXCEPT ![Current] = "decrypt_only"] \in Seq(KeyStatus)
          /\ Len([keys EXCEPT ![Current] = "decrypt_only"]) = Len(keys)
      BY <2>1, KeyChange DEF IInv, KeyStatus
    <2>3. keys' = Append([keys EXCEPT ![Current] = "decrypt_only"], "active")
      BY <1>1 DEF StartFresh
    <2> QED
      BY <2>1, <2>2, <2>3, AppendProperties DEF Current, KeyStatus
  <1>3. UNCHANGED <<vault, txn>> /\ due' = FALSE
    BY DEF StartFresh
  <1>4. \A t \in Stored : vault[t] = Current
    BY DEF StartFresh, StrandedVersions
  <1>5. \A w \in Open : txn[w].version = Current
    BY <1>1 DEF OpenAreRecent
  <1>6. \A s \in Rotators : rot'[s].pc # "due"
    <2>1. \A s \in Rotators : s = r
      BY DEF OneShortRotation, Rotators
    <2>2. rot'[r].pc = "batching"
      BY DEF StartFresh, IInv, TypeOK
    <2> QED
      BY <2>1, <2>2
  <1> QED
    BY <1>2, <1>3, <1>4, <1>5, <1>6 DEF NearCurrent, Stored, Open

\* A batch moves rows to the active generation.
LEMMA NearMoves ==
  ASSUME IInv, NearCurrent, NEW r \in Rotators, MoveRows(r)
  PROVE  NearCurrent'
  <1> DEFINE job == jobs[rot[r].job]
  <1>1. UNCHANGED <<keys, txn, rot, due>>
    BY DEF MoveRows
  <1>2. PICK rows \in SUBSET RowsUnder(job.from) :
          vault' = [t \in Tokens |-> IF t \in rows THEN job.to ELSE vault[t]]
    BY DEF MoveRows
  <1>3. job.to = Current /\ Current \in Nat
    <2>1. rot[r].job \in DOMAIN jobs /\ jobs[rot[r].job].status = "running"
      BY DEF MoveRows, Batches, Running
    <2>2. rot[r].job = Len(jobs) /\ job.to = rot[r].job + 1
      BY <2>1, Tables DEF IInv, KeysFollowJobs
    <2>3. keys # <<>> /\ Len(keys) = Len(jobs) + 1
      BY <2>1, Tables DEF IInv, JobsFollowKeys
    <2> QED
      BY <2>2, <2>3, Tables DEF Current
  <1> HIDE DEF job
  <1>4. \A t \in Stored' : vault'[t] = Current \/ (t \in Stored /\ vault'[t] = vault[t])
    BY <1>2, <1>3 DEF Stored
  <1>5. \A t \in Stored' : vault'[t] + 1 >= Current
    BY <1>3, <1>4 DEF NearCurrent
  <1> QED
    BY <1>1, <1>5 DEF NearCurrent, Open, OpenAreRecent, Current

LEMMA NextNear == OneShortRotation /\ IInv /\ NearCurrent /\ [Next]_vars => NearCurrent'
  <1> SUFFICES ASSUME OneShortRotation, IInv, NearCurrent, [Next]_vars PROVE NearCurrent'
    OBVIOUS
  <1>1. ASSUME NEW w \in Writers, Stage(w) \/ Finish(w) \/ \E t \in Tokens : Encrypt(w, t)
        PROVE  NearCurrent'
    BY <1>1, NextIInv, NearRequests, NearCommit DEF Finish, Next
  <1>2. ASSUME NEW r \in Rotators, WorkerStep(r) \/ Crash(r) PROVE NearCurrent'
    BY <1>2, NearQuiet, NearFirstKey, NearStatuses, NearFresh, NearMoves DEF WorkerStep
  <1>3. CASE UNCHANGED vars
    BY <1>3, NearTables DEF vars, NearCurrent
  <1> QED
    BY <1>1, <1>2, <1>3, NearErase, NearElapse DEF Next

\* With one scheduled process and no request that outlives its interval,
\* start_rotation always finds the job it reopens: what commits late, under a
\* generation retired meanwhile, waits for the next rotation and no longer.
THEOREM StrandedFound ==
  ASSUME OneShortRotation
  PROVE  Spec => []StrandedReopenable
  <1>1. IInv /\ NearCurrent /\ [Next]_vars => NearCurrent'
    BY NextNear
  <1>2. IInv /\ NearCurrent => StrandedReopenable
    <2> SUFFICES ASSUME IInv, NearCurrent, NEW v \in StrandedVersions PROVE CanReopen
      BY DEF StrandedReopenable
    <2>1. \A u \in StrandedVersions : u \in 1..Len(keys) /\ u + 1 = Len(keys)
      BY Tables DEF StrandedVersions, NearCurrent, Current
    <2>2. StrandedVersions = {v}
      BY <2>1, Tables
    <2>3. v \in DOMAIN jobs /\ jobs[v].from = v /\ jobs[v].to = Current
      BY <2>1, Tables DEF IInv, JobsFollowKeys, Current
    <2>4. \A k \in DOMAIN jobs : jobs[k].from = v => k <= v
      BY <2>1, Tables
    <2>5. Reopens(v, v)
      BY <2>3, <2>4 DEF Reopens
    <2> QED
      BY <2>2, <2>3, <2>5 DEF CanReopen
  <1> QED
    BY <1>1, <1>2, InitIInv, NextIInv, InitNear, PTL DEF Spec
=============================================================================
