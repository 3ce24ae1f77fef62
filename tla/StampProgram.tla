----------------------------- MODULE StampProgram -----------------------------
(***************************************************************************)
(* What the stamp program promises, kept with one hand: buying with a      *)
(* reward takes its price off the card, finishing an order puts the whole  *)
(* pounds paid for on it as far as they fit, and stamps given are given    *)
(* whole, a grant once. Each is one step.                                  *)
(***************************************************************************)
EXTENDS Integers

CONSTANTS Customers, Orders, Grants, Cap, Cost, Guest

VARIABLES
    balance,   \* stamps on each card
    sale,      \* orders, and whether they were paid with a reward
    given      \* courtesy grants made

Init ==
    /\ balance = [c \in Customers |-> 0]
    /\ sale = [o \in Orders |-> [status |-> "NONE", customer |-> Guest, weight |-> 0,
                                 reward |-> FALSE]]
    /\ given = {}

Buy(o) ==
    LET s == sale'[o] IN
    /\ sale[o].status = "NONE" /\ s.status = "OPEN"
    /\ sale' = [sale EXCEPT ![o] = s]
    /\ IF s.reward
       THEN /\ s.customer # Guest /\ s.weight >= 2
            /\ balance[s.customer] >= Cost
            /\ balance' = [balance EXCEPT ![s.customer] = @ - Cost]
       ELSE balance' = balance
    /\ UNCHANGED given

\* A reward is a pound, two halves of it.
Earned(s) == (s.weight - (IF s.reward THEN 2 ELSE 0)) \div 2

Full(n) == IF n <= Cap THEN n ELSE Cap

Finish(o) ==
    LET c == sale[o].customer IN
    /\ sale[o].status = "OPEN"
    /\ sale' = [sale EXCEPT ![o].status = "COMPLETED"]
    /\ balance' = IF c = Guest THEN balance
                  ELSE [balance EXCEPT ![c] = Full(@ + Earned(sale[o]))]
    /\ UNCHANGED given

Cancel(o) ==
    /\ sale[o].status = "OPEN"
    /\ sale' = [sale EXCEPT ![o].status = "CLOSED"]
    /\ UNCHANGED <<balance, given>>

Give(c) ==
    /\ balance'[c] > balance[c] /\ balance'[c] <= Cap
    /\ balance' = [balance EXCEPT ![c] = balance'[c]]
    /\ UNCHANGED sale

Issue(c) == Give(c) /\ UNCHANGED given

Grant(c, g) == Give(c) /\ g \notin given /\ given' = given \cup {g}

Next ==
    \/ \E o \in Orders : Buy(o) \/ Finish(o) \/ Cancel(o)
    \/ \E c \in Customers : Issue(c) \/ \E g \in Grants : Grant(c, g)

Spec == Init /\ [][Next]_<<balance, sale, given>>
=============================================================================
