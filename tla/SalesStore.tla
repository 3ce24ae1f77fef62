------------------------------ MODULE SalesStore ------------------------------
(***************************************************************************)
(* The rows and locks that the three ways to change a customer's account   *)
(* share: the web checkout (Checkout), the till (Till) and the deletion of *)
(* the account (AccountDeletion). Storefront composes them.                *)
(*                                                                         *)
(* Every request runs in one database transaction. Its own writes are      *)
(* invisible until it commits, so they appear in its last step; what other *)
(* transactions see of it before is the locks it holds, and those follow   *)
(* from the statement it has reached (pc).                                 *)
(***************************************************************************)
EXTENDS Integers, FiniteSets

CONSTANTS
    Customers, Orders,
    Keys,          \* idempotency keys minted by clients
    Intents,       \* card payments the processor holds as succeeded
    Payer,         \* the customer each of them was authorised by
    Carts,         \* what may be ordered
    Workers,       \* requests served at the same time
    Allowance,     \* RATE_LIMITS.checkoutOrdersCustomer.limit
    CodeLimit,     \* usageLimitTotal of the promotion code
    MaxBalance,    \* bound: store credit of a customer
    Outcomes,      \* how orders may end: DELIVERED stands for every end but CANCELLED
    NoCustomer, NoOrder, NoKey, NoIntent

Deals == {"none", "first", "code"}
Cart == [spend : Nat, deal : Deals, intent : Intents \cup {NoIntent}]

ASSUME SalesAssumption ==
    /\ Carts \subseteq Cart
    /\ Payer \in [Intents -> Customers]
    /\ Allowance \in Nat \ {0} /\ CodeLimit \in Nat \ {0} /\ MaxBalance \in Nat
    /\ Outcomes \subseteq {"DELIVERED", "CANCELLED"}
    /\ NoCustomer \notin Customers /\ NoOrder \notin Orders
    /\ NoKey \notin Keys /\ NoIntent \notin Intents

ASSUME FiniteAssumption == IsFiniteSet(Orders) /\ IsFiniteSet(Workers)

VARIABLES
    orders,    \* orders, their payments and their promotion redemptions
    keys,      \* checkout_idempotency_keys
    wallets,   \* customer_wallets
    deleted,   \* users with account_deleted_at
    online,    \* the deployment takes card payments, and deletes no account
    pc,        \* the statement each request has reached
    req,       \* what it asks for
    num,       \* the order number allocated to it
    ans,       \* the order it answers with
    snap       \* what a deletion's serializable snapshot shows it

rows == <<orders, keys, wallets, deleted>>
vars == <<orders, keys, wallets, deleted, online, pc, req, num, ans, snap>>

-----------------------------------------------------------------------------
(* Rows *)

NoCart == [spend |-> 0, deal |-> "none", intent |-> NoIntent]
Order(status, c, n, k, cart, recent) ==
    [status |-> status, customer |-> c, number |-> n, key |-> k, cart |-> cart, recent |-> recent]
NotPlaced == Order("NONE", NoCustomer, 0, NoKey, NoCart, FALSE)

KeyRow(c, cart, o) == [customer |-> c, cart |-> cart, order |-> o]
NoRow == KeyRow(NoCustomer, NoCart, NoOrder)
NoWallet == [open |-> FALSE, balance |-> 0]

Placed(o) == orders[o].status # "NONE"
Live(o) == Placed(o) /\ orders[o].status # "CANCELLED"
Of(c) == {o \in Orders : Placed(o) /\ orders[o].customer = c}

\* Only online orders count: "recent" is an online order's place in the window.
Recent(c) == {o \in Of(c) : orders[o].recent}

\* Redemption rows outlive the cancellation of their order.
Redeemed == {o \in Orders : Placed(o) /\ orders[o].cart.deal = "code"}

PaidWith(i) == {o \in Orders : Placed(o) /\ orders[o].cart.intent = i}

FirstOrderNumber == 1001

\* orderNumber of the latest order, plus one.
IsNextNumber(n) ==
    \/ n = FirstOrderNumber /\ \A o \in Orders : ~ Placed(o)
    \/ /\ \E o \in Orders : Placed(o) /\ orders[o].number + 1 = n
       /\ \A o \in Orders : Placed(o) => orders[o].number < n

-----------------------------------------------------------------------------
(* Requests and the locks they hold *)

Request(c, k, cart) == [customer |-> c, key |-> k, cart |-> cart]
NoRequest == Request(NoCustomer, NoKey, NoCart)
NoSnapshot == [clear |-> FALSE, wallet |-> NoWallet, keys |-> {}]

InCheckout == {"check", "number", "wallet", "commit"}

\* The uncommitted row under the unique index of the key.
HoldsKey(w, k) == pc[w] \in InCheckout /\ req[w].key = k

\* pg_advisory_xact_lock('checkout-orders:' user)
HoldsCheckout(w, c) == pc[w] \in InCheckout \ {"check"} /\ req[w].customer = c

\* pg_advisory_xact_lock('w4u_order_number', location)
HoldsNumber(w) == pc[w] \in {"wallet", "commit", "tillCommit"}

\* The wallet's row, FOR UPDATE.
HoldsWallet(w, c) ==
    /\ pc[w] \in {"commit", "tillNumber", "tillCommit"}
    /\ req[w].cart.spend > 0 /\ req[w].customer = c

\* The user's row FOR KEY SHARE, which the triggers of owned rows take.
SharesAccount(w, c) ==
    /\ \/ pc[w] \in InCheckout
       \/ pc[w] \in {"tillNumber", "tillCommit"} /\ req[w].cart.spend > 0
    /\ req[w].customer = c

\* The user's row FOR UPDATE.
LocksAccount(w, c) == pc[w] = "erase" /\ req[w].customer = c

\* Mutant: the triggers are not installed.
NoTriggers(c) == TRUE

\* guard_deleted_account_owner and guard_deleted_account_order: a write for a
\* customer waits for the account's deletion, and is refused after it.
MayWriteFor(c) ==
    c \in Customers => c \notin deleted /\ \A v \in Workers : ~ LocksAccount(v, c)

Start(w, phase, r) ==
    /\ pc[w] = "idle"
    /\ pc' = [pc EXCEPT ![w] = phase]
    /\ req' = [req EXCEPT ![w] = r]

Go(w, from, to) == pc[w] = from /\ pc' = [pc EXCEPT ![w] = to]

\* The request ends: what it held is released.
Finish(w) ==
    /\ pc' = [pc EXCEPT ![w] = "idle"]
    /\ req' = [req EXCEPT ![w] = NoRequest]
    /\ num' = [num EXCEPT ![w] = 0]
    /\ ans' = [ans EXCEPT ![w] = NoOrder]
    /\ snap' = [snap EXCEPT ![w] = NoSnapshot]

\* A refusal, a unique index, a deadlock's victim, the transaction timeout or
\* a crash: at any statement the transaction may roll back whole.
Fail(w) ==
    /\ pc[w] \notin {"idle", "answer"}
    /\ Finish(w)
    /\ UNCHANGED <<rows, online>>

Spend(c, amount) ==
    wallets' = IF c \in Customers
               THEN [wallets EXCEPT ![c].balance = @ - amount] ELSE wallets
=============================================================================
