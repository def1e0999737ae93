-------------------------- MODULE Recommendations --------------------------
(***************************************************************************)
(* Process recommendations (services/recommendations.py), which analysts,  *)
(* the scheduler and the turns of conversations propose and owners decide, *)
(* and the workflow chain their events are appended to.                    *)
(*                                                                         *)
(* A transaction inserts or reads its recommendation first and appends to  *)
(* the chain last: the advisory lock of the chain is held from the read of *)
(* the tail to the commit.  A decision is checked against the status that  *)
(* was read before the lock.                                               *)
(***************************************************************************)
EXTENDS Conversations, AuditChain

CONSTANTS
    Officers,      \* sessions of owners and of the scheduler
    Ready,         \* the READY records, the newest first: id, category, system, urgent
    Minimum,       \* minimum_evidence
    MaxEvents, MaxProposals

ASSUME RecommendationsAssumption ==
    MaxEvents \in Nat /\ MaxProposals \in Nat /\ Minimum \in Nat \ {0}

VARIABLES
    proposal,      \* process_recommendations, by their fingerprints
    decided,       \* recommendation_decisions of every one, in the order of their ids
    log,           \* workflow_audit_log
    office,        \* what every session is doing
    events,        \* ids of the log given out
    contended      \* recommendations that two decisions had in hand at one time

recommendations == <<proposal, decided, log, office, events, contended>>
vars == <<conversations, recommendations>>

Absent == [phase |-> "absent"]
NoTurn == 0

Init ==
    /\ InitConversations
    /\ proposal = <<>> /\ decided = <<>>
    /\ log = {}
    /\ office = [o \in Officers |-> Absent]
    /\ events = 0 /\ contended = {}

-----------------------------------------------------------------------------
(* What is proposed. *)

\* The records of the window and the systems asked for.
Candidates(window, systems) == SelectSeq(SubSeq(Ready, 1, window), LAMBDA r : r.system \in systems)

\* Of the categories with enough urgent records, the one of the most systems,
\* then of the most records, then the one met first.
Pattern(rows) ==
    LET Group(category) == SelectSeq(rows, LAMBDA r : r.urgent /\ r.category = category)
        Systems(category) == Cardinality({r.system : r \in Range(Group(category))})
        First(category) == Min({n \in DOMAIN rows : rows[n].urgent /\ rows[n].category = category})
        eligible == {c \in {r.category : r \in Range(rows)} : Len(Group(c)) >= Minimum}
        Before(a, b) == \/ Systems(a) > Systems(b)
                        \/ /\ Systems(a) = Systems(b)
                           /\ \/ Len(Group(a)) > Len(Group(b))
                              \/ Len(Group(a)) = Len(Group(b)) /\ First(a) < First(b)
    IN  IF eligible = {} THEN <<>>
        ELSE Group(CHOOSE a \in eligible : \A b \in eligible \ {a} : Before(a, b))

\* A draft names enough of the evidence it was given, and nothing else.
Drafts(pattern) ==
    {[category |-> pattern[1].category, turn |-> NoTurn, action |-> "pattern",
      records |-> {pattern[n].id : n \in named}] :
        named \in {s \in SUBSET DOMAIN pattern : Cardinality(s) >= Minimum}}

\* An action or a verification gap of the turn's brief, all of whose
\* citations the turn has, and at least one.
FromTurn(t) ==
    {[category |-> "query", turn |-> t.id, action |-> a,
      records |-> {t.cites[n] : n \in t.brief[a]}] :
        a \in {a \in DOMAIN t.brief : t.brief[a] # {} /\ t.brief[a] \subseteq DOMAIN t.cites}}

(* The sessions. *)

Exists(f) == f \in DOMAIN proposal

\* An owner whose session is free may begin one.
CanPropose(o) == office[o] = Absent /\ Cardinality(DOMAIN proposal) < MaxProposals

\* What is proposed already is returned as it is.
Propose(o, f) ==
    /\ ~Exists(f)
    /\ office' = [office EXCEPT ![o] = [phase |-> "new", fingerprint |-> f]]
    /\ UNCHANGED <<conversations, proposal, decided, log, events, contended>>

\* The scheduler asks for all the systems, an analyst for some.
Analyze(o) ==
    /\ CanPropose(o)
    /\ \E window \in 1 .. Len(Ready), systems \in SUBSET {r.system : r \in Range(Ready)} :
        LET pattern == Pattern(Candidates(window, systems))
        IN  pattern # <<>> /\ \E f \in Drafts(pattern) : Propose(o, f)

ReadTurn(o) == CanPropose(o) /\ \E t \in turns : \E f \in FromTurn(t) : Propose(o, f)

\* Mutant: the fingerprint is not unique.
NobodyInserting(f) == FALSE

Inserting(f) ==
    \E o \in Officers : office[o].phase \in {"logging", "logged"} /\ office[o].fingerprint = f
                            /\ office[o].status = "proposed"

\* The insert waits for one of the same fingerprint and for a deletion of its
\* turn; it fails when that was committed.
InsertProposal(o) ==
    LET f == office[o].fingerprint
        ThisTurn(t) == t.id = f.turn
        Fails == Exists(f) \/ (f.turn # NoTurn /\ ~\E t \in turns : ThisTurn(t))
    IN  /\ office[o].phase = "new"
        /\ ~Inserting(f)
        /\ ~\E v \in Visitors : visit[v].phase = "deleting" /\ \E t \in visit[v].turns : ThisTurn(t)
        /\ office' = [office EXCEPT ![o] = IF Fails THEN Absent
                          ELSE [phase |-> "logging", fingerprint |-> f, status |-> "proposed"]]
        /\ UNCHANGED <<conversations, proposal, decided, log, events, contended>>

AllowedWhateverDecided(status, decision) == decision # status

Allowed(status, decision) ==
    <<status, decision>> \in {<<"proposed", "approved">>, <<"proposed", "rejected">>, <<"approved", "implemented">>}

Deciding(o, f) ==
    office[o].phase \in {"logging", "logged"} /\ office[o].fingerprint = f /\ office[o].status # "proposed"

Decide(o) ==
    /\ office[o] = Absent
    /\ \E f \in DOMAIN proposal, decision \in {"approved", "rejected", "implemented"} :
        /\ Allowed(proposal[f].status, decision)
        /\ office' = [office EXCEPT ![o] = [phase |-> "logging", fingerprint |-> f, status |-> decision]]
        /\ contended' = IF \E other \in Officers : Deciding(other, f) THEN contended \union {f} ELSE contended
    /\ UNCHANGED <<conversations, proposal, decided, log, events>>

(* The chain. *)

LockOfResource(f) == f

\* The advisory lock is of the tenant.
Lock(f) == "tenant"

Locked(key) == \E o \in Officers : office[o].phase = "logged" /\ Lock(office[o].fingerprint) = key

WriteEvent(o) ==
    LET r == office[o]
    IN  /\ r.phase = "logging" /\ events < MaxEvents
        /\ ~Locked(Lock(r.fingerprint))
        /\ office' = [office EXCEPT ![o] =
               [phase |-> "logged", fingerprint |-> r.fingerprint, status |-> r.status,
                entry |-> Entry(events + 1, ChainTail(log), [resource |-> r.fingerprint, status |-> r.status])]]
        /\ events' = events + 1
        /\ UNCHANGED <<conversations, proposal, decided, log, contended>>

\* A table with one row written.
With(table, key, row) == [k \in DOMAIN table \union {key} |-> IF k = key THEN row ELSE table[k]]

Commit(o) ==
    LET r == office[o]
        f == r.fingerprint
    IN  /\ r.phase = "logged"
        /\ log' = log \union {r.entry}
        /\ proposal' = With(proposal, f, IF Exists(f) THEN [proposal[f] EXCEPT !.status = r.status]
                                         ELSE [status |-> "proposed", origin |-> f.turn])
        /\ decided' = With(decided, f, IF Exists(f) THEN Append(decided[f], r.status) ELSE <<>>)
        /\ office' = [office EXCEPT ![o] = Absent]
        /\ UNCHANGED <<conversations, events, contended>>

\* The model fails, or the process dies: the transaction is rolled back and
\* the id it took of the log is lost.
Abort(o) ==
    /\ office[o] # Absent
    /\ office' = [office EXCEPT ![o] = Absent]
    /\ UNCHANGED <<conversations, proposal, decided, log, events, contended>>

(* A conversation and the recommendations that came from it. *)

\* The delete of a turn waits for an insert that refers to it, and forgets the
\* turn in those that do.
DeleteTurns(v, c) ==
    /\ Delete(v, c)
    /\ ~\E t \in TurnsOf(c), o \in Officers :
            office[o].phase \in {"logging", "logged"} /\ office[o].status = "proposed" /\ office[o].fingerprint.turn = t.id
    /\ UNCHANGED recommendations

ForgetTurns(v) ==
    /\ CommitDelete(v)
    /\ proposal' = [f \in DOMAIN proposal |->
                       IF \E t \in visit[v].turns : t.id = proposal[f].origin
                       THEN [proposal[f] EXCEPT !.origin = NoTurn] ELSE proposal[f]]
    /\ UNCHANGED <<decided, log, office, events, contended>>

Converse ==
    /\ \/ \E c \in Conversation : Create(c) \/ Elapse(c) \/ MarkExpired(c)
       \/ \E v \in Visitors, c \in Conversation : Ask(v, c)
       \/ \E v \in Visitors : Number(v) \/ InsertTurn(v) \/ CommitTurn(v) \/ Abandon(v)
    /\ UNCHANGED recommendations

Next ==
    \/ Converse
    \/ \E v \in Visitors, c \in Conversation : DeleteTurns(v, c)
    \/ \E v \in Visitors : ForgetTurns(v)
    \/ \E o \in Officers :
        \/ Analyze(o) \/ ReadTurn(o) \/ InsertProposal(o)
        \/ Decide(o) \/ WriteEvent(o) \/ Commit(o) \/ Abort(o)

Spec == Init /\ [][Next]_vars

-----------------------------------------------------------------------------

\* The chain of a tenant verifies after every step, whichever transactions
\* append at one time, commit or die, and keeps every hash that may have
\* been anchored.
ChainVerifies ==
    [][Verifies(log') /\ \A row \in log : StillPresent(row.hash, log')]_log

\* What the chain tells of a recommendation is what happened to it: it was
\* proposed, then decided as the decisions say, the last of which is its
\* status, and, when no two owners decided at one time, no decision was
\* taken of one that was decided otherwise.
DecisionsTold ==
    \A f \in DOMAIN proposal :
        LET mine == Events({row \in log : row.event.resource = f})
            told == [n \in DOMAIN mine |-> mine[n].status]
        IN  /\ told = <<"proposed">> \o decided[f]
            /\ proposal[f].status = Last(told)
            /\ f \notin contended =>
                   decided[f] \in {<<>>, <<"approved">>, <<"rejected">>, <<"approved", "implemented">>}

\* What the workflow promises of recommendations: a status changes in the step
\* that appends the event of it, nothing is proposed twice, and a decision
\* stands on a status that was told before.  See DecisionJournal.
Statuses == [f \in DOMAIN proposal |-> proposal[f].status]
Journal == INSTANCE DecisionJournal WITH journal <- Events(log), status <- Statuses
JournalSpec == Journal!Spec
=============================================================================
