--------------------------------- MODULE Sales ---------------------------------
(***************************************************************************)
(* What the shop promises: a book of sales kept by one careful cashier.    *)
(* A sale is one step. It takes the next number, pays from a purse that    *)
(* has the money, uses up its card payment and the customer's attempt, and *)
(* is never made or paid for somebody who has left.                        *)
(***************************************************************************)
EXTENDS Integers

CONSTANTS Customers, Orders, NoKey, NoIntent, NoSale, FirstNumber

VARIABLES sale, purse, gone

Sold == {o \in Orders : sale[o] # NoSale}

IsNext(n) ==
    \/ n = FirstNumber /\ Sold = {}
    \/ /\ \E o \in Sold : sale[o].number + 1 = n
       /\ \A o \in Sold : sale[o].number < n

Init ==
    /\ sale = [o \in Orders |-> NoSale]
    /\ purse = [c \in Customers |-> 0]
    /\ gone = {}

\* An attempt, named by its customer's key, sells once; so does a card payment.
Fresh(s) ==
    /\ s.key # NoKey => \A p \in Sold : ~ (sale[p].customer = s.customer /\ sale[p].key = s.key)
    /\ s.cart.intent # NoIntent => \A p \in Sold : sale[p].cart.intent # s.cart.intent

Pay(c, amount) ==
    IF c \in Customers
    THEN amount <= purse[c] /\ purse' = [purse EXCEPT ![c] = @ - amount]
    ELSE amount = 0 /\ purse' = purse

Sell(o) ==
    LET s == sale'[o] IN
    /\ sale[o] = NoSale /\ s # NoSale
    /\ sale' = [sale EXCEPT ![o] = s]
    /\ s.customer \notin gone
    /\ IsNext(s.number)
    /\ Fresh(s)
    /\ Pay(s.customer, s.cart.spend)
    /\ gone' = gone

Deposit(c) ==
    /\ c \notin gone
    /\ purse'[c] > purse[c]
    /\ purse' = [purse EXCEPT ![c] = purse'[c]]
    /\ UNCHANGED <<sale, gone>>

Leave(c) == c \notin gone /\ gone' = gone \cup {c} /\ UNCHANGED <<sale, purse>>

Next ==
    \/ \E o \in Orders : Sell(o)
    \/ \E c \in Customers : Deposit(c) \/ Leave(c)

Spec == Init /\ [][Next]_<<sale, purse, gone>>
=============================================================================
