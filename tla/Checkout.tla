------------------------------- MODULE Checkout -------------------------------
(***************************************************************************)
(* CheckoutService.placeOrder. Each action is what one request does from   *)
(* the wait for a lock to the next wait: what it reads meanwhile could as  *)
(* well have been read at once, since no step of another request that the  *)
(* lock lets through can come between and tell the difference. A           *)
(* validation that refuses is a Fail of SalesStore.                        *)
(***************************************************************************)
EXTENDS SalesStore

AnswerWith(w, o) ==
    /\ pc' = [pc EXCEPT ![w] = "answer"]
    /\ ans' = [ans EXCEPT ![w] = o]

\* Mutant: any request with the key is answered.
AnybodysKey(k, c, cart) == TRUE

\* assertIdempotencyOwnership
OwnKey(k, c, cart) == keys[k].customer = c /\ keys[k].cart = cart

\* findOwnedStripePaymentOrderId
OwnPaid(c, i) == {o \in PaidWith(i) : orders[o].customer = c}

\* The key, then the card payment, read before the transaction; the key once
\* more as the transaction's first statement.
PlaceOrder(w, c, k, cart) ==
    LET paid == IF cart.intent = NoIntent THEN {} ELSE PaidWith(cart.intent) IN
    /\ pc[w] = "idle" /\ c \notin deleted
    /\ cart.intent # NoIntent => online
    /\ req' = [req EXCEPT ![w] = Request(c, k, cart)]
    /\ \/ keys[k] # NoRow /\ OwnKey(k, c, cart) /\ AnswerWith(w, keys[k].order)
       \/ /\ keys[k] = NoRow
          /\ \E o \in paid : orders[o].customer = c /\ AnswerWith(w, o)
       \/ /\ keys[k] = NoRow /\ paid = {}
          /\ pc' = [pc EXCEPT ![w] = "claim"]
          /\ UNCHANGED ans
    /\ UNCHANGED <<rows, online, num, snap>>

\* The key's unique index: free, once no transaction holds it uncommitted.
KeyFree(w) ==
    LET k == req[w].key IN
    keys[k] = NoRow /\ \A v \in Workers \ {w} : ~ HoldsKey(v, k)

ClaimKey(w) ==
    /\ Go(w, "claim", "check")
    /\ MayWriteFor(req[w].customer)
    /\ KeyFree(w)
    /\ UNCHANGED <<rows, online, req, num, ans, snap>>

\* Mutant: the customer's attempts run beside each other.
CheckoutUnlocked(w) == TRUE

\* The advisory lock of the customer's checkouts.
CheckoutFree(w) == \A v \in Workers \ {w} : ~ HoldsCheckout(v, req[w].customer)

\* assertCustomerOrderAllowance
AllowanceLeft(c) == Cardinality(Recent(c)) < Allowance

\* isFirstOrderCustomer, and evaluatePromo for a code with a total limit that
\* each customer may use once.
FirstOrderCustomer(c) == \A o \in Of(c) : ~ Live(o)
CodeUsable(c) == Cardinality(Redeemed) < CodeLimit /\ Redeemed \cap Of(c) = {}

MayOrder(r) ==
    /\ AllowanceLeft(r.customer)
    /\ r.cart.deal = "first" => FirstOrderCustomer(r.customer)
    /\ r.cart.deal = "code" => CodeUsable(r.customer)

\* The validations under that lock; the last is verifySucceededPaymentIntent,
\* of a payment no order was made from yet.
Validate(w) ==
    LET r == req[w] IN
    /\ Go(w, "check", "number")
    /\ CheckoutFree(w)
    /\ MayOrder(r)
    /\ r.cart.intent # NoIntent => PaidWith(r.cart.intent) = {} /\ Payer[r.cart.intent] = r.customer
    /\ UNCHANGED <<rows, online, req, num, ans, snap>>

\* Or the customer's other attempt has made the order of this payment: the
\* new key is committed as a name of that order.
ReplayPayment(w) ==
    LET r == req[w] IN
    /\ pc[w] = "check" /\ r.cart.intent # NoIntent
    /\ CheckoutFree(w)
    /\ MayOrder(r)
    /\ \E o \in OwnPaid(r.customer, r.cart.intent) :
         /\ keys' = [keys EXCEPT ![r.key] = KeyRow(r.customer, r.cart, o)]
         /\ AnswerWith(w, o)
    /\ UNCHANGED <<orders, wallets, deleted, online, req, num, snap>>

\* allocateNextOrderNumber, which the till calls as well.
NumberFree(w) == \A v \in Workers \ {w} : ~ HoldsNumber(v)
Candidates == {FirstOrderNumber} \cup {orders[o].number + 1 : o \in {p \in Orders : Placed(p)}}

TakeNumber(w) ==
    /\ NumberFree(w)
    /\ \E n \in Candidates : IsNextNumber(n) /\ num' = [num EXCEPT ![w] = n]

AllocateNumber(w) ==
    /\ Go(w, "number", IF req[w].cart.spend > 0 THEN "wallet" ELSE "commit")
    /\ TakeNumber(w)
    /\ UNCHANGED <<rows, online, req, ans, snap>>

\* Mutant: the balance is read without FOR UPDATE.
SpendsUnlocked(w, c, amount) == amount <= wallets[c].balance

\* lockAndReadWalletBalanceCents, which the till calls as well.
CanSpend(w, c, amount) ==
    /\ \A v \in Workers \ {w} : ~ HoldsWallet(v, c)
    /\ amount <= wallets[c].balance

LockWallet(w) ==
    /\ Go(w, "wallet", "commit")
    /\ CanSpend(w, req[w].customer, req[w].cart.spend)
    /\ UNCHANGED <<rows, online, req, num, ans, snap>>

\* The unique indexes of order numbers and of card payments.
IndexesAllow(w) ==
    /\ \A p \in Orders : Placed(p) => orders[p].number # num[w]
    /\ req[w].cart.intent # NoIntent => PaidWith(req[w].cart.intent) = {}

\* The order, its payment and redemption, the debit and the key commit at once.
CommitOrder(w, o) ==
    LET r == req[w] IN
    /\ pc[w] = "commit"
    /\ ~ Placed(o)
    /\ IndexesAllow(w)
    /\ orders' = [orders EXCEPT ![o] = Order("OPEN", r.customer, num[w], r.key, r.cart, TRUE)]
    /\ keys' = [keys EXCEPT ![r.key] = KeyRow(r.customer, r.cart, o)]
    /\ Spend(r.customer, r.cart.spend)
    /\ AnswerWith(w, o)
    /\ num' = [num EXCEPT ![w] = 0]
    /\ UNCHANGED <<deleted, online, req, snap>>

\* The answer reaches the client, or is lost on the way.
Tell(w) == pc[w] = "answer" /\ Finish(w) /\ UNCHANGED <<rows, online>>

CheckoutStep(w) ==
    \/ \E c \in Customers, k \in Keys, cart \in Carts : PlaceOrder(w, c, k, cart)
    \/ ClaimKey(w) \/ Validate(w) \/ ReplayPayment(w)
    \/ AllocateNumber(w) \/ LockWallet(w)
    \/ \E o \in Orders : CommitOrder(w, o)
    \/ Tell(w)
=============================================================================
