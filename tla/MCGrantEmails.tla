----------------------------- MODULE MCGrantEmails -----------------------------
(***************************************************************************)
(* Instances of GrantEmails for TLC.                                       *)
(***************************************************************************)
EXTENDS GrantEmails, TLC

MailSymmetry == Permutations(Workers) \cup Permutations(Addresses) \cup Permutations(Wordings)
===============================================================================
