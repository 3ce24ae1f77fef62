------------------------------ MODULE OrderMoney ------------------------------
(***************************************************************************)
(* What the money of one order comes to, kept with one hand: taking up to  *)
(* its price of the moment while it is not cancelled, and paying each      *)
(* refund that was asked for once or never, as it was asked for and from   *)
(* what was taken.                                                         *)
(***************************************************************************)
EXTENDS Naturals

CONSTANTS Requests, Price

VARIABLES
    status,   \* of the order
    price,    \* what it costs, discounts given
    taken,    \* what was collected
    given,    \* what was paid back in money
    refund    \* refunds asked for: what became of them, how much, how paid

Init ==
    /\ status = "OPEN"
    /\ price = Price
    /\ taken \in {0, Price}
    /\ given = 0
    /\ refund = [r \in Requests |-> [status |-> "NONE", amount |-> 0, paid |-> "no"]]

Close ==
    /\ status = "OPEN"
    /\ status' \in {"DELIVERED", "NO_SHOW", "CANCELLED"}
    /\ UNCHANGED <<price, taken, given, refund>>

\* Not even a price computed from an old one is above the first.
Discount ==
    /\ price' \in 0 .. Price
    /\ UNCHANGED <<status, taken, given, refund>>

Take ==
    /\ status # "CANCELLED"
    /\ taken' \in taken + 1 .. price
    /\ UNCHANGED <<status, price, given, refund>>

Ask(r) ==
    /\ refund[r].status = "NONE"
    /\ refund' = [refund EXCEPT ![r].status = "PENDING", ![r].amount = refund'[r].amount]
    /\ UNCHANGED <<status, price, taken, given>>

Decide(r, s, paid) ==
    /\ refund[r].status = "PENDING"
    /\ refund' = [refund EXCEPT ![r].status = s, ![r].paid = paid]
    /\ UNCHANGED <<status, price, taken>>

Refuse(r) == Decide(r, "REJECTED", "no") /\ UNCHANGED given

Credit(r) == Decide(r, "ISSUED", "credit") /\ UNCHANGED given

GiveBack(r) ==
    /\ given + refund[r].amount <= taken
    /\ Decide(r, "ISSUED", "money")
    /\ given' = given + refund[r].amount

Next ==
    \/ Close \/ Discount \/ Take
    \/ \E r \in Requests : Ask(r) \/ Refuse(r) \/ Credit(r) \/ GiveBack(r)

Spec == Init /\ [][Next]_<<status, price, taken, given, refund>>
=============================================================================
