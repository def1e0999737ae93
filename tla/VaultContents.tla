--------------------------- MODULE VaultContents ---------------------------
(***************************************************************************)
(* What the vault promises of its rows, with no generations and no jobs: a *)
(* row that can be decrypted stays so until it is erased, whatever the     *)
(* rotation does, with one exception.  While a generation is being closed  *)
(* no lock keeps requests out, and a row stored then may be lost when the  *)
(* closing ends.  A row stored later still may be stored unreadable.  Both *)
(* become readable when their generation is reopened.                      *)
(***************************************************************************)
CONSTANT Tokens

VARIABLES
    stored, readable,
    closing,   \* is a generation being closed?
    late       \* rows stored while it is

vars == <<stored, readable, closing, late>>

Init == stored = {} /\ readable = {} /\ closing = FALSE /\ late = {}

Store(t) ==
    /\ t \notin stored
    /\ stored' = stored \cup {t}
    /\ readable' = readable \/ readable' = readable \cup {t}
    /\ late' = IF closing THEN late \cup {t} ELSE late
    /\ closing' = closing

Erase(t) ==
    /\ t \in stored
    /\ stored' = stored \ {t}
    /\ readable' = readable \ {t}
    /\ late' = late \ {t}
    /\ closing' = closing

Reopen(rows) ==
    /\ ~closing
    /\ rows \subseteq stored
    /\ readable' = readable \cup rows
    /\ UNCHANGED <<stored, closing, late>>

Close ==
    /\ ~closing
    /\ closing' = TRUE /\ late' = {}
    /\ UNCHANGED <<stored, readable>>

\* The closing ends, or is given up (nothing is lost then).
Closed(lost) ==
    /\ closing /\ lost \subseteq late
    /\ closing' = FALSE /\ late' = {}
    /\ readable' = readable \ lost
    /\ stored' = stored

Next ==
    \/ \E t \in Tokens : Store(t) \/ Erase(t)
    \/ \E rows \in SUBSET Tokens : Reopen(rows) \/ Closed(rows)
    \/ Close

Spec == Init /\ [][Next]_vars
=============================================================================
