---------------------------- MODULE MCRefundLedger ----------------------------
(***************************************************************************)
(* Instances of RefundLedger for TLC.                                      *)
(***************************************************************************)
EXTENDS RefundLedger, TLC

LedgerEndpoints == {"collect", "capture", "hold", "cancel", "close", "request",
                    "kdsRequest", "approve", "reject", "crash", "discount"}

\* The endpoints that disagree with what the repository says.
CancelAfterRefund == {"cancel", "kdsRequest", "approve"}

TwoAmounts == {1, 2}

RequestsAndWorkers == Permutations(Requests) \cup Permutations(Workers)
=============================================================================
