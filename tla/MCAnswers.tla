----------------------------- MODULE MCAnswers -----------------------------
(* An instance of Answers for TLC.                                          *)
EXTENDS Answers

CONSTANTS r1, r2, r3, name, phone, desk, note, staff, owner

Question(says, systems, terms, ordinal, customer) ==
    [says |-> says, systems |-> systems, terms |-> terms, ordinal |-> ordinal, customer |-> customer]

MCNewest == <<r3, r2, r1>>
MCSystem == r1 :> "email" @@ r2 :> "email" @@ r3 :> "telegram"
MCText == r1 :> {name, phone} @@ r2 :> {note} @@ r3 :> {}
MCAllowed == name :> {staff, owner} @@ phone :> {owner} @@ desk :> {owner} @@ note :> {staff, owner}
MCPlain == name :> {} @@ phone :> {} @@ desk :> {} @@ note :> {phone}
MCInitiallyLinked == {{}, {r1}}
MCReplyTokens == {{}, {name, note}, {desk}}
MCQuestions == {
    Question({"show", "scope"}, {"email"}, {}, 0, "keep"),
    Question({"find", "reference"}, {}, {}, 2, "keep"),
    Question({"reference", "person"}, {}, {}, 0, "clear"),
    Question({"every", "analyze"}, {}, {}, 0, "select"),
    Question({"contact", "profile"}, {}, {}, 0, "keep"),
    Question({"find", "entity"}, {}, {name}, 0, "keep"),
    Question({"count", "record word"}, {}, {}, 0, "keep"),
    Question({"needs", "reference"}, {}, {}, 1, "keep"),
    Question({"show", "source word"}, {}, {}, 0, "keep")}
=============================================================================
