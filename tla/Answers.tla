------------------------------ MODULE Answers ------------------------------
(***************************************************************************)
(* A question in a conversation, from its tokenization to the answer that  *)
(* is shown (routes/query.py, services/reasoning.py,                       *)
(* services/intelligence.py, security/detokenize.py).                      *)
(*                                                                         *)
(* The question is committed first, the turn after the models answered,    *)
(* and what is restored in the answer and in its brief after that, each    *)
(* with its rows of the audit log; in between records are protected anew   *)
(* and customer links come and go.                                         *)
(***************************************************************************)
EXTENDS Retrieval

CONSTANTS
    InitiallyLinked, \* the links there may be at first
    ReplyTokens,   \* the tokens a model may repeat: sets
    Questions,     \* says, systems, terms, ordinal, customer: what the patterns find in a question
    Roles,
    Owner,         \* the role owner_director
    NameOf, EmailOf, \* the tokens of the selected customer's name and verified address
    EndpointsOf,   \* the tokens of the addresses and numbers of the customer that are not revoked
    Names, Phones, Emails, \* the tokens of people and organizations, of numbers, of addresses
    Registered,    \* the tokens of protected_token_registry
    Allowed,       \* token -> the roles of its vault entry
    Plain,         \* token -> the tokens in its plaintext
    HistoryLimit,  \* HISTORY_TURN_LIMIT
    BatchSize,     \* ANALYZE_ALL_BATCH_SIZE
    BriefLimit,    \* the claims of a brief
    MaxTurns, MaxChanges

ASSUME AnswersAssumption ==
    /\ HistoryLimit \in Nat \ {0} /\ BatchSize \in Nat \ {0} /\ BriefLimit \in Nat \ {0}
    /\ MaxTurns \in Nat /\ MaxChanges \in Nat
    /\ \A q \in Questions : q.ordinal \in Nat
    /\ EmailOf \in EndpointsOf

VARIABLES
    ready,     \* the records of tokenized_content that are ready
    linked,    \* the records with a verified link to the customer
    context,   \* context_customer_id: whether the customer is selected
    turns,     \* conversation_turns and conversation_turn_citations, the oldest first
    request,   \* the query
    log,       \* audit_log
    shown,     \* the last response
    changes    \* refreshes and reviews so far

vars == <<ready, linked, context, turns, request, log, shown, changes>>

Idle == [phase |-> "idle"]
Nothing == [role |-> "none"]
NoBrief == [cites |-> {}, tokens |-> {}]

Init ==
    /\ ready = Range(Newest)
    /\ linked \in InitiallyLinked
    /\ context = FALSE
    /\ turns = <<>>
    /\ request = Idle
    /\ log = {} /\ shown = Nothing /\ changes = 0

TokensOf(hits) == UNION {Text[r] : r \in Range(hits)}

-----------------------------------------------------------------------------
(* The question. *)

\* A selection outlives its question, until it is cleared.
Ask(q, role) ==
    LET selected == CASE q.customer = "select" -> TRUE
                      [] q.customer = "clear" -> FALSE
                      [] OTHER -> context
        filters == [NoFilter EXCEPT !.systems = q.systems]
    IN  /\ request = Idle /\ Len(turns) < MaxTurns
        /\ context' = selected
        /\ request' = [phase |-> "asked", q |-> q, role |-> role, selected |-> selected, links |-> linked,
                       filters |-> IF selected
                                   THEN WithContentIds(filters, IF linked = {} THEN {NoRecord} ELSE linked)
                                   ELSE filters]
        /\ shown' = Nothing
        /\ UNCHANGED <<ready, linked, turns, log, changes>>

(* What it is answered from. *)

Recent == Reverse(SubSeq(turns, Len(turns) - Min({HistoryLimit, Len(turns)}) + 1, Len(turns)))

NoPlan == [turn |-> 0, intent |-> "none", clarify |-> FALSE]

\* The planner may read a question that names nobody and no place: it says a
\* recent turn, an intent and whether it is lost, or fails.
Plans(q) ==
    {NoPlan} \union
    IF turns # <<>> /\ q.ordinal = 0 /\ "entity" \notin q.says
           /\ Intent(q.says, q.systems) \in {"SEMANTIC", "LOOKUP"}
    THEN [turn : {0} \union (Max({1, Len(turns) - HistoryLimit + 1}) .. Len(turns)), intent : {"SEMANTIC", "LOOKUP"}, clarify : BOOLEAN] ELSE {}

IntentOf(q, plan) ==
    IF q.ordinal # 0 THEN "LOOKUP"
    ELSE IF plan = NoPlan THEN Intent(q.says, q.systems)
    ELSE IF "LOOKUP" \in {plan.intent, Intent(q.says, q.systems)} THEN "LOOKUP" ELSE "SEMANTIC"

Refers(q, plan) == plan.turn # 0 \/ q.ordinal # 0 \/ "reference" \in q.says

\* What the question refers to, as far as it is ready and passes its filters,
\* the newest first.
PriorHits(r, plan) ==
    LET q == r.q
        cited == IF plan.turn # 0 THEN InPlaceOrder(turns[plan.turn].cites)
                 ELSE IF Refers(q, plan) THEN Referents(Recent, q.ordinal) ELSE <<>>
        present == Range(cited) \intersect ready
    IN  IF present = {} THEN <<>> ELSE Listing(WithContentIds(r.filters, present), ready)

Referential(r, plan) == PriorHits(r, plan) # <<>> /\ (~r.selected \/ r.q.ordinal # 0)

Lost(r, plan) ==
    /\ ~r.selected
    /\ \/ plan.clarify
       \/ Referential(r, plan) /\ "person" \in r.q.says /\ Len(PriorHits(r, plan)) # 1

AboutCustomer(r) == r.selected /\ {"profile", "needs"} \intersect r.q.says # {}

\* The evidence of a question, by its intent.
HitsOf(r, plan) ==
    LET intent == IntentOf(r.q, plan)
        listing == Listing(r.filters, ready)
    IN  IF Lost(r, plan) THEN {<<>>}
        ELSE IF AboutCustomer(r) THEN {listing}
        ELSE IF intent \in {"LIST_SOURCES", "COUNT_SOURCES"} THEN {<<>>}
        ELSE IF Referential(r, plan) THEN {PriorHits(r, plan)}
        ELSE IF intent = "LIST_RECORDS" THEN {SubSeq(listing, 1, Min({ListLimit, Len(listing)}))}
        ELSE IF intent \in {"SEMANTIC", "LOOKUP"} /\ ~r.selected
                  /\ ~(intent = "LOOKUP" /\ "all contacts" \in r.q.says)
             THEN Searched(r.q.terms, r.filters, ready)
        ELSE {listing}

\* The identity evidence that is put beside a selected customer's records is
\* of the same listing, so that nothing is left to put.
Gather ==
    /\ request.phase = "asked"
    /\ \E plan \in Plans(request.q) : \E hits \in HitsOf(request, plan) :
        request' = [phase |-> "gathered", q |-> request.q, role |-> request.role,
                    selected |-> request.selected, links |-> request.links,
                    intent |-> IntentOf(request.q, plan), lost |-> Lost(request, plan),
                    referential |-> Referential(request, plan), hits |-> hits]
    /\ UNCHANGED <<ready, linked, context, turns, log, shown, changes>>

(* The answer: what it cites, by place, and the tokens it has. *)

\* What was asked and answered in the recent turns.
HistoryTokens == UNION {Recent[n].asked \union Recent[n].tokens : n \in DOMAIN Recent}

\* The customer's name and endpoints, verified or not.
ProfileTokens == {NameOf} \union EndpointsOf

\* A model is shown the evidence, the question and, when nothing is referred
\* to, the turns so far, if the question names nobody, and the customer selected.
Shown(r) ==
    TokensOf(r.hits) \union r.q.terms
        \union (IF r.referential \/ "entity" \in r.q.says THEN {} ELSE HistoryTokens)
        \union (IF r.selected /\ ~r.referential THEN ProfileTokens ELSE {})

\* Every batch cites some of its own records, or none when it finds nothing
\* in them; the synthesis may cite what they cite.
Citable(hits) == IF Len(hits) <= BatchSize THEN {DOMAIN hits} ELSE SUBSET DOMAIN hits

AcceptedWithAnyCitation(reply, citable, tokens) == reply.tokens \subseteq tokens

Accepted(reply, citable, tokens) ==
    /\ reply.cites \subseteq citable
    /\ ~reply.insufficient /\ citable # {} => reply.cites # {}
    /\ reply.tokens \subseteq tokens

\* A provider that fails or whose reply is not accepted leaves the question
\* to the next, the last of which cites everything.
ModelAnswers(r) ==
    IF r.hits = <<>> THEN {[cites |-> {}, tokens |-> {}, insufficient |-> TRUE, mode |-> "no-evidence"]}
    ELSE {[cites |-> IF reply.insufficient THEN {} ELSE reply.cites, tokens |-> reply.tokens,
           insufficient |-> reply.insufficient, mode |-> "model"] :
             reply \in {x \in [cites : SUBSET (1 .. Len(r.hits) + 1), tokens : ReplyTokens,
                               insufficient : BOOLEAN] :
                           \E citable \in Citable(r.hits) : Accepted(x, citable, Shown(r))}}

Structured(cites, tokens, insufficient) ==
    [cites |-> cites, tokens |-> tokens, insufficient |-> insufficient, mode |-> "structured"]

\* The contacts of the records, those of one name and one list once.
ContactPlaces(hits) ==
    LET Contacts(n) == Text[hits[n]] \intersect (Phones \union Emails)
        Row(n) == <<Text[hits[n]] \intersect Names, Contacts(n)>>
    IN  {n \in DOMAIN hits : Contacts(n) # {} /\ \A m \in 1 .. n - 1 : Row(m) # Row(n)}

ContactAnswer(hits) ==
    Structured(ContactPlaces(hits),
               UNION {Text[hits[n]] \intersect (Names \union Phones \union Emails) : n \in ContactPlaces(hits)},
               FALSE)

\* The name and the address are of the customer's own row, the address for
\* the owner only; the numbers are of its records.
ProfileAnswer(r) ==
    LET phones == TokensOf(r.hits) \intersect Phones
    IN  Structured({n \in DOMAIN r.hits : Text[r.hits[n]] \intersect ({NameOf, EmailOf} \union phones) # {}},
                   {NameOf} \union phones \union (IF r.role = Owner THEN {EmailOf} ELSE {}),
                   FALSE)

AnswersOf(r) ==
    IF r.lost THEN {Structured({}, {}, TRUE)}
    ELSE IF r.selected /\ "profile" \in r.q.says THEN {ProfileAnswer(r)}
    ELSE IF r.selected /\ "needs" \in r.q.says THEN {Structured(DOMAIN r.hits, TokensOf(r.hits), r.hits = <<>>)}
    ELSE IF r.intent \in {"LIST_SOURCES", "COUNT_SOURCES"} THEN {Structured({}, {}, ready = {})}
    ELSE IF r.intent \in {"LIST_RECORDS", "COUNT_RECORDS"} THEN {Structured(DOMAIN r.hits, {}, r.hits = <<>>)}
    ELSE IF r.intent = "LOOKUP" /\ "contact" \in r.q.says /\ ContactPlaces(r.hits) # {}
         THEN {ContactAnswer(r.hits)}
    ELSE ModelAnswers(r)

\* A brief has claims of some cited records and, unless its summary is the one
\* of approvals, the text of the answer.
BriefsOf(r, answer) ==
    IF answer.mode # "model" \/ r.intent \notin {"SEMANTIC", "ANALYZE_ALL"} THEN {NoBrief}
    ELSE IF answer.insufficient THEN {[cites |-> {}, tokens |-> answer.tokens]}
    ELSE {[cites |-> claims, tokens |-> summary \union UNION {Text[r.hits[n]] : n \in claims}] :
             claims \in {c \in SUBSET answer.cites : /\ Cardinality(c) <= BriefLimit
                                                    /\ answer.cites # {} => c # {}},
             summary \in {{}, answer.tokens}}

Answer ==
    /\ request.phase = "gathered"
    /\ \E answer \in AnswersOf(request) : \E brief \in BriefsOf(request, answer) :
        /\ answer.tokens \subseteq Registered
        /\ answer.cites \subseteq DOMAIN request.hits
        /\ turns' = Append(turns, [cites |-> [n \in answer.cites |-> request.hits[n]],
                                  asked |-> request.q.terms, tokens |-> answer.tokens])
        /\ request' = [phase |-> "answered", q |-> request.q, role |-> request.role, selected |-> request.selected,
                       links |-> request.links, referential |-> request.referential, hits |-> request.hits,
                       answer |-> answer, brief |-> brief]
    /\ UNCHANGED <<ready, linked, context, log, shown, changes>>

-----------------------------------------------------------------------------
(* What is restored of it. *)

Depth == 5

AuthorizedInVault(role, t) == Allowed[t] # {}

Authorized(role, t) == role \in Allowed[t]

\* A text before its first pass; a pass takes the tokens it finds when it begins.
Protected(tokens) ==
    [tokens |-> tokens, todo |-> tokens \intersect Registered, pass |-> 1, restored |-> {}, rows |-> {}]

NextPass(text) == [text EXCEPT !.pass = @ + 1, !.todo = text.tokens \intersect Registered]

Ended(text) == text.todo = {} /\ (text.pass = Depth \/ text.tokens \intersect Registered = {})

\* A token is replaced everywhere at once, by its plaintext, which may have
\* tokens, or by its mask.
Replaced(text, t, role) ==
    IF Authorized(role, t)
    THEN [text EXCEPT !.todo = @ \ {t}, !.tokens = (@ \ {t}) \union Plain[t],
                      !.restored = @ \union {t}, !.rows = @ \union {<<t, TRUE>>}]
    ELSE [text EXCEPT !.todo = @ \ {t}, !.tokens = @ \ {t}, !.rows = @ \union {<<t, FALSE>>}]

\* The vault is read for every token anew.  A grant is for one time: the
\* second one of a token fails the query.  Of the order, the longest first,
\* the lengths are left out.
RestoreToken(t) ==
    /\ request.phase \in {"answer", "brief"}
    /\ t \in request.text.todo
    /\ request' = IF Authorized(request.role, t) /\ t \in request.text.restored THEN Idle
                  ELSE [request EXCEPT !.text = Replaced(@, t, request.role)]
    /\ UNCHANGED <<ready, linked, context, turns, log, shown, changes>>

RestoreDeeper ==
    /\ request.phase \in {"answer", "brief"}
    /\ request.text.todo = {} /\ ~Ended(request.text)
    /\ request' = [request EXCEPT !.text = NextPass(@)]
    /\ UNCHANGED <<ready, linked, context, turns, log, shown, changes>>

Restore ==
    /\ request.phase = "answered"
    /\ request' = [phase |-> "answer", role |-> request.role, text |-> Protected(request.answer.tokens),
                   brief |-> request.brief, answer |-> {}]
    /\ UNCHANGED <<ready, linked, context, turns, log, shown, changes>>

\* The rows of a text are committed before the text is given on.
Audited(text) == {[turn |-> Len(turns), token |-> row[1], authorized |-> row[2]] : row \in text.rows}

RestoreBrief ==
    /\ request.phase = "answer" /\ Ended(request.text)
    /\ log' = log \union Audited(request.text)
    /\ request' = [phase |-> "brief", role |-> request.role, text |-> Protected(request.brief.tokens),
                   brief |-> request.brief, answer |-> request.text.restored]
    /\ UNCHANGED <<ready, linked, context, turns, shown, changes>>

\* A brief whose plaintext breaks it is shown as it was protected.
BriefShown(text, parses) == IF parses THEN text.restored ELSE {}

Respond ==
    /\ request.phase = "brief" /\ Ended(request.text)
    /\ log' = log \union Audited(request.text)
    /\ \E parses \in BOOLEAN :
        shown' = [role |-> request.role, answer |-> request.answer, brief |-> BriefShown(request.text, parses)]
    /\ request' = Idle
    /\ UNCHANGED <<ready, linked, context, turns, changes>>

-----------------------------------------------------------------------------

\* A provider fails and there is no other, or the process dies.
Fail ==
    /\ request # Idle
    /\ request' = Idle
    /\ UNCHANGED <<ready, linked, context, turns, log, shown, changes>>

\* A record is protected anew, and ready again; a link is reviewed.
Refresh(r) ==
    /\ changes < MaxChanges
    /\ changes' = changes + 1
    /\ ready' = IF r \in ready THEN ready \ {r} ELSE ready \union {r}
    /\ UNCHANGED <<linked, context, turns, request, log, shown>>

Review(r) ==
    /\ changes < MaxChanges
    /\ changes' = changes + 1
    /\ linked' = IF r \in linked THEN linked \ {r} ELSE linked \union {r}
    /\ UNCHANGED <<ready, context, turns, request, log, shown>>

Next ==
    \/ \E q \in Questions, role \in Roles : Ask(q, role)
    \/ Gather \/ Answer \/ Restore \/ RestoreDeeper \/ RestoreBrief \/ Respond \/ Fail
    \/ \E t \in Registered : RestoreToken(t)
    \/ \E r \in Range(Newest) : Refresh(r) \/ Review(r)

Spec == Init /\ [][Next]_vars

-----------------------------------------------------------------------------

Answered == request.phase = "answered"

\* A turn cites records of the systems its question names; with a customer
\* selected, those that were verified as the customer's when it was asked,
\* none of them included; of a question that refers to an earlier turn,
\* those that the turns so far cite, unless it asks for the profile or the
\* needs of the customer, which are answered from all of the customer's.
EvidenceInScope ==
    Answered =>
        LET cited == Range(Last(turns).cites)
        IN  /\ request.selected => cited \subseteq request.links
            /\ request.q.systems # {} => \A r \in cited : System[r] \in request.q.systems
            /\ request.referential /\ ~AboutCustomer(request) =>
                cited \subseteq UNION {Range(turns[n].cites) : n \in 1 .. Len(turns) - 1}

\* An answer has no token but of its evidence, its question, the recent turns
\* before it (what was asked and what was answered) and, with a customer
\* selected, the customer's name and endpoints; one that says it has enough
\* evidence cites some, unless that was analyzed in batches.
AnswerGrounded ==
    Answered =>
        LET a == request.answer
            last == Len(turns) - 1
            earlier == UNION {turns[n].asked \union turns[n].tokens :
                                 n \in {m \in 1 .. last : m > last - HistoryLimit}}
        IN  /\ a.tokens \subseteq TokensOf(request.hits) \union request.q.terms \union earlier
                                     \union (IF request.selected THEN {NameOf} \union EndpointsOf ELSE {})
            /\ a.mode = "model" /\ ~a.insufficient /\ Len(request.hits) <= BatchSize => a.cites # {}
            /\ request.brief.cites \subseteq a.cites

\* What a role is shown it may see, to the last of the values that were inside
\* others, and a row of the audit log says so.
DisclosedIsAudited ==
    shown # Nothing =>
        \A t \in shown.answer \union shown.brief :
            /\ shown.role \in Allowed[t]
            /\ [turn |-> Len(turns), token |-> t, authorized |-> TRUE] \in log
=============================================================================
