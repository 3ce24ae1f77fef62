--------------------------------- MODULE Till ---------------------------------
(***************************************************************************)
(* PosService.createPosOrder. The till has no idempotency key and no       *)
(* allowance; it debits store credit before it takes the number lock,      *)
(* the checkout after.                                                     *)
(***************************************************************************)
EXTENDS Checkout

\* A customer is found by id or phone, or nobody is. A deleted account is
\* still found by its id: the triggers refuse what is written for it.
TillOrder(c, credit) == Request(c, NoKey, [NoCart EXCEPT !.spend = credit])

\* Paid with cash or by terminal: the number lock comes first.
TillSale(w, c) ==
    /\ Start(w, "tillCommit", TillOrder(c, 0))
    /\ TakeNumber(w)
    /\ UNCHANGED <<rows, online, ans, snap>>

\* STORE_CREDIT: lockAndReadWalletBalanceCents, and the debit.
TillDebit(w, c, credit) ==
    /\ Start(w, "tillNumber", TillOrder(c, credit))
    /\ MayWriteFor(c)
    /\ CanSpend(w, c, credit)
    /\ UNCHANGED <<rows, online, num, ans, snap>>

TillNumber(w) ==
    /\ Go(w, "tillNumber", "tillCommit")
    /\ TakeNumber(w)
    /\ UNCHANGED <<rows, online, req, ans, snap>>

TillCommit(w, o) ==
    LET r == req[w] IN
    /\ pc[w] = "tillCommit"
    /\ MayWriteFor(r.customer)
    /\ ~ Placed(o)
    /\ IndexesAllow(w)
    /\ orders' = [orders EXCEPT ![o] = Order("OPEN", r.customer, num[w], NoKey, r.cart, FALSE)]
    /\ Spend(r.customer, r.cart.spend)
    /\ Finish(w)
    /\ UNCHANGED <<keys, deleted, online>>

TillStep(w) ==
    \/ \E c \in Customers \cup {NoCustomer} : TillSale(w, c)
    \/ \E c \in Customers, credit \in {cart.spend : cart \in Carts} \ {0} : TillDebit(w, c, credit)
    \/ TillNumber(w)
    \/ \E o \in Orders : TillCommit(w, o)
=============================================================================
