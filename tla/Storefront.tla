------------------------------ MODULE Storefront ------------------------------
(***************************************************************************)
(* Checkouts, the till, deletions, the wallet service and what becomes of  *)
(* an order afterwards, all at once; and what must hold of them together.  *)
(***************************************************************************)
EXTENDS Till, AccountDeletion

\* WalletsService.creditInTransaction, for a refund or an admin's credit.
Credit(c, amount) ==
    /\ MayWriteFor(c)
    /\ \A v \in Workers : ~ HoldsWallet(v, c)
    /\ wallets[c].balance + amount <= MaxBalance
    /\ wallets' = [wallets EXCEPT ![c] = [open |-> TRUE, balance |-> wallets[c].balance + amount]]
    /\ UNCHANGED <<orders, keys, deleted, online, pc, req, num, ans, snap>>

\* WalletsService.getBalance creates the row it does not find.
OpenWallet(c) ==
    /\ MayWriteFor(c)
    /\ ~ wallets[c].open
    /\ wallets' = [wallets EXCEPT ![c].open = TRUE]
    /\ UNCHANGED <<orders, keys, deleted, online, pc, req, num, ans, snap>>

\* The order's own lifecycle, which OrderLifecycle models, closes it.
CloseOrder(o, status) ==
    /\ orders[o].status = "OPEN"
    /\ orders' = [orders EXCEPT ![o].status = status]
    /\ UNCHANGED <<keys, wallets, deleted, online, pc, req, num, ans, snap>>

\* The window of the allowance moves past the order.
AgeOrder(o) ==
    /\ Placed(o) /\ orders[o].recent
    /\ orders' = [orders EXCEPT ![o].recent = FALSE]
    /\ UNCHANGED <<keys, wallets, deleted, online, pc, req, num, ans, snap>>

Init ==
    /\ orders = [o \in Orders |-> NotPlaced]
    /\ keys = [k \in Keys |-> NoRow]
    /\ wallets = [c \in Customers |-> NoWallet]
    /\ deleted = {}
    /\ online \in BOOLEAN
    /\ pc = [w \in Workers |-> "idle"]
    /\ req = [w \in Workers |-> NoRequest]
    /\ num = [w \in Workers |-> 0]
    /\ ans = [w \in Workers |-> NoOrder]
    /\ snap = [w \in Workers |-> NoSnapshot]

Next ==
    \/ \E w \in Workers : CheckoutStep(w) \/ TillStep(w) \/ DeletionStep(w) \/ Fail(w)
    \/ \E c \in Customers : OpenWallet(c) \/ \E n \in 1 .. MaxBalance : Credit(c, n)
    \/ \E o \in Orders : AgeOrder(o) \/ \E s \in Outcomes : CloseOrder(o, s)

Spec == Init /\ [][Next]_vars

-----------------------------------------------------------------------------
(* Properties *)

Phases == InCheckout \cup
    {"idle", "claim", "answer", "tillNumber", "tillCommit", "ask", "erase"}
Wallet == [open : BOOLEAN, balance : Nat]
RequestType == [customer : Customers \cup {NoCustomer}, key : Keys \cup {NoKey}, cart : Cart]

TypeOK ==
    /\ orders \in [Orders -> [status : {"NONE", "OPEN", "DELIVERED", "CANCELLED"},
                              customer : Customers \cup {NoCustomer}, number : Nat,
                              key : Keys \cup {NoKey}, cart : Cart, recent : BOOLEAN]]
    /\ keys \in [Keys -> [customer : Customers \cup {NoCustomer}, cart : Cart,
                          order : Orders \cup {NoOrder}]]
    /\ wallets \in [Customers -> Wallet]
    /\ deleted \subseteq Customers
    /\ online \in BOOLEAN
    /\ pc \in [Workers -> Phases]
    /\ req \in [Workers -> RequestType]
    /\ num \in [Workers -> Nat]
    /\ ans \in [Workers -> Orders \cup {NoOrder}]
    /\ snap \in [Workers -> [clear : BOOLEAN, wallet : Wallet, keys : SUBSET Keys]]

\* The order a request is answered with, whether it made it or found it made
\* by an earlier or a concurrent attempt, is its own customer's and is the one
\* the attempt's key names or its card payment paid for.
Answers(o, r) ==
    /\ o \in Orders /\ Placed(o) /\ orders[o].customer = r.customer
    /\ \/ orders[o].key = r.key /\ orders[o].cart = r.cart
       \/ r.cart.intent # NoIntent /\ orders[o].cart.intent = r.cart.intent

AnswerIsYours == \A w \in Workers : pc[w] = "answer" => Answers(ans[w], req[w])

\* However many attempts run at once, a customer has no more recent online
\* orders than his allowance, one live first-order deal, and one use of a
\* one-time code; a code's total limit, counted without a lock, is passed by
\* no more than the other checkouts that can be in flight.
CustomerLimits ==
    /\ \A c \in Customers : Cardinality(Recent(c)) <= Allowance
    /\ \A o, p \in Orders : Placed(o) /\ Placed(p) /\ orders[o].customer = orders[p].customer =>
         \/ o = p
         \/ orders[o].cart.deal # "first" \/ ~ Live(o)
         \/ orders[p].cart.deal # "first" \/ ~ Live(p)
    /\ \A o, p \in Redeemed : orders[o].customer = orders[p].customer => o = p
    /\ Cardinality(Redeemed) <= CodeLimit - 1 + Cardinality(Workers)

\* The database keeps the book of one careful cashier: see Sales.
Book == [o \in Orders |-> [customer |-> orders[o].customer, number |-> orders[o].number,
                           key |-> orders[o].key, cart |-> orders[o].cart]]
Balances == [c \in Customers |-> wallets[c].balance]
Shop == INSTANCE Sales WITH
    sale <- Book, purse <- Balances, gone <- deleted, FirstNumber <- FirstOrderNumber,
    NoSale <- [customer |-> NoCustomer, number |-> 0, key |-> NoKey, cart |-> NoCart]

ImplementsSales == Shop!Spec

\* A deleted account leaves no open order and no store credit behind.
DeletionLeavesNothingOpen == \A c \in deleted : NothingOpen(c)
=============================================================================
