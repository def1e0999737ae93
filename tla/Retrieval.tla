----------------------------- MODULE Retrieval -----------------------------
(***************************************************************************)
(* How a question is planned and which records it is given: the intent     *)
(* (services/query_planning.py), the filters (services/query_filters.py),  *)
(* the search (services/retrieval.py) and the references to earlier turns  *)
(* (services/conversations.py).                                            *)
(*                                                                         *)
(* A question is what the patterns of these modules find in it: `says`, a  *)
(* set of features, the systems and terms it names and the place it refers *)
(* to.  The filters by type, date, category, priority and metadata narrow  *)
(* the records as the one by system does, which stands for them all.       *)
(***************************************************************************)
EXTENDS Integers, FiniteSets, FiniteSetsExt, Sequences, SequencesExt, Functions

CONSTANTS
    Newest,     \* all the records, ordered by occurred_at and id, the newest first
    System,     \* the system a record is of
    Text,       \* the protected tokens in the text and summary of a record
    Embedded,   \* the records that have an embedding
    TopK,       \* SEMANTIC_TOP_K
    ListLimit   \* the limit of LIST_RECORDS

\* No record has the id that stands for none.
NoRecord == -1

ASSUME RetrievalAssumption ==
    /\ TopK \in Nat \ {0} /\ ListLimit \in Nat \ {0}
    /\ Newest \in Seq(Range(Newest)) /\ NoRecord \notin Range(Newest)

(* The intent: the first rule that fits. *)

Intent(says, systems) ==
    LET Says(features) == features \subseteq says
    IN  IF Says({"count", "source word"}) /\ systems = {} THEN "COUNT_SOURCES"
        ELSE IF Says({"count"}) /\ (systems # {} \/ Says({"record word"})) THEN "COUNT_RECORDS"
        ELSE IF Says({"every", "analyze"}) THEN "ANALYZE_ALL"
        ELSE IF Says({"show", "scope", "type"}) THEN "LIST_RECORDS"
        ELSE IF Says({"contact"}) THEN "LOOKUP"
        ELSE IF Says({"show", "linked"}) THEN "LIST_RECORDS"
        ELSE IF systems # {} /\ (Says({"column"}) \/ Says({"show", "scope"})) THEN "LIST_RECORDS"
        ELSE IF systems = {} /\ Says({"show", "source word"}) THEN "LIST_SOURCES"
        ELSE IF Says({"find"}) THEN "LOOKUP"
        ELSE "SEMANTIC"

(* The filters. *)

NoFilter == [systems |-> {}, ids |-> {}]

\* No ids is no restriction: a restriction to nothing names a record that is
\* not.
WithContentIdsOrAll(filters, ids) ==
    [filters EXCEPT !.ids = IF @ = {} THEN ids ELSE @ \intersect ids]

WithContentIds(filters, ids) ==
    LET selected == IF filters.ids = {} THEN ids ELSE filters.ids \intersect ids
    IN  [filters EXCEPT !.ids = IF selected = {} THEN {NoRecord} ELSE selected]

Eligible(filters, ready) ==
    {r \in ready : /\ filters.systems # {} => System[r] \in filters.systems
                   /\ filters.ids # {} => r \in filters.ids}

\* The values of a function of places, in the order of the places.
InPlaceOrder(values) ==
    LET Place(k) == CHOOSE n \in DOMAIN values : Cardinality({m \in DOMAIN values : m <= n}) = k
    IN  [k \in 1 .. Cardinality(DOMAIN values) |-> values[Place(k)]]

Listing(filters, ready) ==
    InPlaceOrder([n \in {m \in DOMAIN Newest : Newest[m] \in Eligible(filters, ready)} |-> Newest[n]])

\* What a search may find: a question that names tokens or identifiers is
\* given the records that have one, in no order, another the nearest.
Searched(terms, filters, ready) ==
    LET fitting == IF terms = {} THEN Eligible(filters, ready) \intersect Embedded
                   ELSE {r \in Eligible(filters, ready) : terms \intersect Text[r] # {}}
    IN  UNION {SetToSeqs(found) : found \in kSubset(Min({TopK, Cardinality(fitting)}), fitting)}

(* The references to earlier turns. *)

\* "The second result" is of the newest turn that cites a first and a second;
\* "it" is all that the newest turn cites that cites anything, in the places
\* its sources had in its evidence.
Referents(newestTurns, ordinal) ==
    LET Answers(t) == IF ordinal = 0 THEN DOMAIN t.cites # {} ELSE 1 .. ordinal \subseteq DOMAIN t.cites
        fitting == InPlaceOrder([n \in {m \in DOMAIN newestTurns : Answers(newestTurns[m])} |-> newestTurns[n]])
    IN  CASE fitting = <<>> -> <<>>
          [] fitting # <<>> /\ ordinal = 0 -> InPlaceOrder(fitting[1].cites)
          [] OTHER -> <<fitting[1].cites[ordinal]>>
=============================================================================
