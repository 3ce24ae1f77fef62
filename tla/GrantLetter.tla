----------------------------- MODULE GrantLetter ------------------------------
(***************************************************************************)
(* What the e-mail of a grant promises: one letter is written, then it is  *)
(* mailed as it was written, once or never, and the row says SENT for good *)
(* and of nothing else than a letter that was mailed.                      *)
(***************************************************************************)
EXTENDS Sequences

CONSTANTS Letter, NoLetter

VARIABLES
    letter,   \* the letter of the grant, once it is written
    mailed,   \* what the customer was sent
    status    \* what the row says of it

Init == letter = NoLetter /\ mailed = <<>> /\ status = "PENDING"

Write ==
    /\ letter = NoLetter
    /\ letter' \in Letter
    /\ UNCHANGED <<mailed, status>>

Mail ==
    /\ letter # NoLetter
    /\ mailed = <<>>
    /\ mailed' = <<letter>>
    /\ UNCHANGED <<letter, status>>

Say ==
    /\ status # "SENT"
    /\ status' \in {"SENT", "FAILED", "UNKNOWN", "SKIPPED"}
    /\ status' = "SENT" => mailed # <<>>
    /\ UNCHANGED <<letter, mailed>>

Next == Write \/ Mail \/ Say

Spec == Init /\ [][Next]_<<letter, mailed, status>>
===============================================================================
