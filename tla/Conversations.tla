--------------------------- MODULE Conversations ---------------------------
(***************************************************************************)
(* Conversations and their turns (services/conversations.py) under the     *)
(* requests of the query and conversation routes.                          *)
(*                                                                         *)
(* A query looks at its conversation once, at the start.  The models then  *)
(* take their time, and the turn is numbered, inserted and committed in    *)
(* three steps that look at the conversation no more.                      *)
(***************************************************************************)
EXTENDS Integers, FiniteSets, FiniteSetsExt, Sequences, SequencesExt, Functions

CONSTANTS
    Conversation,  \* conversation ids
    Visitors,      \* sessions of the query and conversation routes
    Evidence,      \* what retrieval may find: sequences of records
    Briefs,        \* the briefs a turn may have: action id -> cited ordinals
    MaxTurns

ASSUME ConversationsAssumption ==
    MaxTurns \in Nat

VARIABLES
    conversation,  \* conversations
    turns,         \* conversation_turns and conversation_turn_citations
    visit,         \* what every session is doing
    asked,         \* turn ids given out
    crossed        \* conversations deleted while a query was in flight

conversations == <<conversation, turns, visit, asked, crossed>>

Away == [phase |-> "away"]

TurnsOf(c) == {t \in turns : t.conversation = c}

InitConversations ==
    /\ conversation = [c \in Conversation |-> "none"]
    /\ turns = {}
    /\ visit = [v \in Visitors |-> Away]
    /\ asked = 0 /\ crossed = {}

-----------------------------------------------------------------------------

\* CONVERSATION_TTL has passed since the last turn: "overdue" is an active
\* row whose expires_at is in the past.
Elapse(c) ==
    /\ conversation[c] = "active"
    /\ conversation' = [conversation EXCEPT ![c] = "overdue"]
    /\ UNCHANGED <<turns, visit, asked, crossed>>

Live(c) == conversation[c] = "active"

\* get_active_conversation marks a conversation that is past its time.
MarkExpired(c) ==
    /\ conversation[c] = "overdue"
    /\ conversation' = [conversation EXCEPT ![c] = "expired"]
    /\ UNCHANGED <<turns, visit, asked, crossed>>

Create(c) ==
    /\ conversation[c] = "none"
    /\ conversation' = [conversation EXCEPT ![c] = "active"]
    /\ UNCHANGED <<turns, visit, asked, crossed>>

InFlight(c) ==
    \E v \in Visitors : visit[v].phase \in {"answering", "numbered", "inserted"} /\ visit[v].conversation = c

BeingDeleted(c) == \E v \in Visitors : visit[v].phase = "deleting" /\ visit[v].conversation = c

CrossedIf(condition, c) == crossed' = IF condition THEN crossed \union {c} ELSE crossed

\* What the question is given to cite is the matter of Answers.
Ask(v, c) ==
    /\ visit[v] = Away /\ Live(c) /\ asked < MaxTurns
    /\ \E hits \in Evidence :
        visit' = [visit EXCEPT ![v] = [phase |-> "answering", conversation |-> c, hits |-> hits]]
    /\ CrossedIf(BeingDeleted(c), c)
    /\ UNCHANGED <<conversation, turns, asked>>

NextSequence(c) == Max({t.seq : t \in TurnsOf(c)} \union {0}) + 1

Number(v) ==
    LET r == visit[v]
    IN  /\ r.phase = "answering"
        /\ \E cited \in SUBSET DOMAIN r.hits, brief \in Briefs :
            LET turn == [id |-> asked + 1, conversation |-> r.conversation, seq |-> NextSequence(r.conversation),
                         cites |-> Restrict(r.hits, cited), brief |-> brief]
            IN  visit' = [visit EXCEPT ![v] = [phase |-> "numbered", conversation |-> r.conversation, turn |-> turn]]
        /\ asked' = asked + 1
        /\ UNCHANGED <<conversation, turns, crossed>>

NeverTaken(t, others) == FALSE

\* The unique key of a conversation and a number: an insert waits for one
\* that is not committed yet, and fails on one that is.
Taken(t, others) == \E other \in others : other.conversation = t.conversation /\ other.seq = t.seq

InsertTurn(v) ==
    LET t == visit[v].turn
    IN  /\ visit[v].phase = "numbered"
        /\ ~Taken(t, {visit[w].turn : w \in {w \in Visitors : visit[w].phase = "inserted"}})
        /\ visit' = [visit EXCEPT ![v] = IF Taken(t, turns) THEN Away ELSE [@ EXCEPT !.phase = "inserted"]]
        /\ UNCHANGED <<conversation, turns, asked, crossed>>

CommitTurn(v) ==
    LET t == visit[v].turn
    IN  /\ visit[v].phase = "inserted"
        /\ turns' = turns \union {t}
        /\ conversation' = [conversation EXCEPT ![t.conversation] = IF @ = "overdue" THEN "active" ELSE @]
        /\ visit' = [visit EXCEPT ![v] = Away]
        /\ UNCHANGED <<asked, crossed>>

\* The delete statements see the turns that are committed; the status
\* follows with the commit.
Delete(v, c) ==
    /\ visit[v] = Away /\ Live(c)
    /\ ~BeingDeleted(c)
    /\ visit' = [visit EXCEPT ![v] = [phase |-> "deleting", conversation |-> c, turns |-> TurnsOf(c)]]
    /\ CrossedIf(InFlight(c), c)
    /\ UNCHANGED <<conversation, turns, asked>>

CommitDelete(v) ==
    LET r == visit[v]
    IN  /\ r.phase = "deleting"
        /\ turns' = turns \ r.turns
        /\ conversation' = [conversation EXCEPT ![r.conversation] = "deleted"]
        /\ visit' = [visit EXCEPT ![v] = Away]
        /\ UNCHANGED <<asked, crossed>>

\* A model does not answer, or the process dies: nothing is committed.
Abandon(v) ==
    /\ visit[v] # Away
    /\ visit' = [visit EXCEPT ![v] = Away]
    /\ UNCHANGED <<conversation, turns, asked, crossed>>

-----------------------------------------------------------------------------

\* The turns of a conversation are numbered from 1 without a gap or a repeat,
\* whatever requests add to it at one time, and a deleted one has none:
\* unless a query was in flight when it was deleted.
TurnsNumbered ==
    \A c \in Conversation \ crossed :
        /\ {t.seq : t \in TurnsOf(c)} = 1 .. Cardinality(TurnsOf(c))
        /\ conversation[c] = "deleted" => TurnsOf(c) = {}
=============================================================================
