--------------------------- MODULE StorefrontProofs ---------------------------
(***************************************************************************)
(* Proofs about Storefront: the account data that checkout, till and       *)
(* deletion write together (CheckoutService.placeOrder, PosService,        *)
(* AccountDeletionService) stay consistent however their statements        *)
(* interleave, for every number of customers, requests, keys and orders.   *)
(*                                                                         *)
(* The invariant says what each request relies on between its statements:  *)
(* its locks (Locks), the rows they guard (Accounts, Purses), what it has  *)
(* read (Numbers, KeysHeld) and what its checks found (Allowances).        *)
(***************************************************************************)
EXTENDS Storefront, TLAPS, FiniteSetTheorems

-----------------------------------------------------------------------------
(* The inductive invariant *)

OrderRow == [status : {"NONE", "OPEN", "DELIVERED", "CANCELLED"},
             customer : Customers \cup {NoCustomer}, number : Nat,
             key : Keys \cup {NoKey}, cart : Cart, recent : BOOLEAN]
KeyRecord == [customer : Customers \cup {NoCustomer}, cart : Cart, order : Orders \cup {NoOrder}]
Seen == [clear : BOOLEAN, wallet : Wallet, keys : SUBSET Keys]

Tills == {"tillNumber", "tillCommit"}
Deletes == {"ask", "erase"}
Allowed == {"number", "wallet", "commit"}

\* Who a request is for, and what it may ask for, at the statement it reached.
Asked(w) ==
    /\ pc[w] \in InCheckout \cup {"claim", "answer"} =>
          req[w].customer \in Customers /\ req[w].key \in Keys
    /\ pc[w] \in Deletes => req[w].customer \in Customers
    /\ pc[w] \in Tills =>
          /\ req[w].key = NoKey
          /\ req[w].cart.deal = "none" /\ req[w].cart.intent = NoIntent
          /\ req[w].cart.spend > 0 => req[w].customer \in Customers
    /\ pc[w] \in {"wallet", "tillNumber"} => req[w].cart.spend > 0
    /\ snap[w].clear => snap[w].wallet.balance = 0

Requests == \A w \in Workers : Asked(w)

\* No lock is held twice.
Apart(v, w) ==
    /\ \A k \in Keys : ~ (HoldsKey(v, k) /\ HoldsKey(w, k))
    /\ ~ (HoldsNumber(v) /\ HoldsNumber(w))
    /\ \A c \in Customers :
         /\ ~ (HoldsCheckout(v, c) /\ HoldsCheckout(w, c))
         /\ ~ (HoldsWallet(v, c) /\ HoldsWallet(w, c))
         /\ ~ (LocksAccount(v, c) /\ (SharesAccount(w, c) \/ LocksAccount(w, c)))

Locks == \A v, w \in Workers : v # w => Apart(v, w)

\* Whoever holds a customer's row, nobody has deleted it.
Accounts ==
    \A w \in Workers, c \in Customers :
        SharesAccount(w, c) \/ LocksAccount(w, c) => c \notin deleted

\* Money that a request is about to take is there.
Purses ==
    \A w \in Workers, c \in Customers :
        HoldsWallet(w, c) => req[w].cart.spend <= wallets[c].balance

\* An order that is not placed is blank, and the number that a request holds
\* is still the next one.
Numbers ==
    /\ \A o \in Orders : IF Placed(o) THEN orders[o].number > 0 ELSE orders[o] = NotPlaced
    /\ \A w \in Workers : HoldsNumber(w) => IsNextNumber(num[w])

\* The key of a request under way is unused; the key of a placed order is in
\* its customer's hands until the customer is deleted; and what a deletion has
\* seen of keys is still so.
KeysHeld ==
    /\ \A w \in Workers : pc[w] \in InCheckout => keys[req[w].key] = NoRow
    /\ \A o \in Orders : Placed(o) /\ orders[o].key # NoKey =>
         /\ orders[o].customer \in Customers
         /\ orders[o].customer \in deleted \/ keys[orders[o].key].customer = orders[o].customer
    /\ \A w \in Workers : pc[w] \in Deletes /\ req[w].customer \notin deleted =>
         \A k \in snap[w].keys : keys[k].customer = req[w].customer

\* A key names an order that answers it.
KeysAnswer ==
    \A k \in Keys : keys[k] # NoRow =>
        Answers(keys[k].order, Request(keys[k].customer, k, keys[k].cart))

\* What a request was allowed to order, it still is when it commits; and the
\* code's uses, with those under way, are no more than the check lets through.
LiveFirst(c) == {o \in Of(c) : Live(o) /\ orders[o].cart.deal = "first"}
UsingCode == {w \in Workers : pc[w] \in Allowed /\ req[w].cart.deal = "code"}

StillAllowed(w) ==
    LET r == req[w] IN
    /\ AllowanceLeft(r.customer)
    /\ r.cart.deal = "first" => LiveFirst(r.customer) = {}
    /\ r.cart.deal = "code" => Redeemed \cap Of(r.customer) = {}

Allowances ==
    /\ CustomerLimits
    /\ \A w \in Workers : pc[w] \in Allowed => StillAllowed(w)
    /\ Cardinality(Redeemed) + Cardinality(UsingCode) <= CodeLimit - 1 + Cardinality(Workers)

Rows == /\ Numbers /\ KeysHeld /\ KeysAnswer /\ AnswerIsYours

IInv == TypeOK /\ Requests /\ Locks /\ Accounts /\ Purses /\ Rows /\ Allowances


-----------------------------------------------------------------------------
(* Facts about single steps *)

\* What the assumptions on the constants say, one by one.
LEMMA Outcome ==
  /\ Outcomes \subseteq {"DELIVERED", "CANCELLED"}
  /\ Carts \subseteq Cart
  /\ \A x \in {y.spend : y \in Carts} : x \in Nat
  /\ MaxBalance \in Nat /\ Payer \in [Intents -> Customers]
  /\ NoCustomer \notin Customers /\ NoOrder \notin Orders
  /\ NoKey \notin Keys /\ NoIntent \notin Intents
BY SalesAssumption DEF Cart

\* A number taken is a natural one, and the next.
LEMMA NumberTaken ==
  ASSUME TypeOK, NEW w \in Workers, TakeNumber(w)
  PROVE  num' \in [Workers -> Nat] /\ IsNextNumber(num'[w])
<1>1. PICK n \in Candidates : IsNextNumber(n) /\ num' = [num EXCEPT ![w] = n]
  BY DEF TakeNumber
<1>2. n \in Nat
  BY <1>1 DEF IsNextNumber, FirstOrderNumber, TypeOK
<1> QED
  BY <1>1, <1>2 DEF TypeOK

\* A payment takes its amount from one wallet, and no other is touched.
Paid(c, amount) ==
    \A d \in Customers :
        wallets'[d].balance = IF d = c THEN wallets[d].balance - amount ELSE wallets[d].balance

\* Spending from a card leaves the wallet well typed and every other wallet alone.
LEMMA SpendTakes ==
  ASSUME TypeOK, NEW c, NEW amount \in Nat, Spend(c, amount),
         c \in Customers => amount <= wallets[c].balance
  PROVE  wallets' \in [Customers -> Wallet] /\ Paid(c, amount)
<1>1. CASE c \in Customers
  <2>1. /\ wallets[c] \in Wallet
        /\ wallets' = [wallets EXCEPT ![c] = [wallets[c] EXCEPT !.balance = wallets[c].balance - amount]]
    BY <1>1 DEF Spend, TypeOK
  <2>2. [wallets[c] EXCEPT !.balance = wallets[c].balance - amount] \in Wallet
    BY <1>1, <2>1 DEF Wallet
  <2> QED
    BY <1>1, <2>1, <2>2 DEF TypeOK, Paid, Wallet
<1>2. CASE c \notin Customers
  BY <1>2 DEF Spend, TypeOK, Paid
<1> QED
  BY <1>1, <1>2

\* What a request commits to pay is in the wallet it holds.
LEMMA CommitPays ==
  ASSUME TypeOK, Requests, Purses, NEW w \in Workers, pc[w] \in {"commit", "tillCommit"},
         req[w].customer \in Customers
  PROVE  req[w].cart.spend <= wallets[req[w].customer].balance
<1> DEFINE c == req[w].customer
<1>1. req[w].cart.spend \in Nat /\ wallets[c].balance \in Nat
  BY DEF TypeOK, RequestType, Cart, Wallet
<1>2. CASE req[w].cart.spend > 0
  BY <1>2 DEF Purses, HoldsWallet
<1> QED
  BY <1>1, <1>2

\* Opening a wallet changes no balance.
LEMMA WalletOpens ==
  ASSUME TypeOK, NEW c \in Customers, OpenWallet(c)
  PROVE  wallets' \in [Customers -> Wallet] /\ Paid(c, 0)
<1>1. /\ wallets[c] \in Wallet
      /\ wallets' = [wallets EXCEPT ![c] = [wallets[c] EXCEPT !.open = TRUE]]
  BY DEF OpenWallet, TypeOK
<1>2. [wallets[c] EXCEPT !.open = TRUE] \in Wallet
  BY <1>1 DEF Wallet
<1> QED
  BY <1>1, <1>2 DEF TypeOK, Paid, Wallet

\* Closing an order, or its leaving the window, rewrites no sale.
Unsold ==
    \A p \in Orders :
        /\ Placed(p)' <=> Placed(p)
        /\ ~ Placed(p) => orders'[p] = orders[p]
        /\ orders'[p].customer = orders[p].customer /\ orders'[p].number = orders[p].number
        /\ orders'[p].key = orders[p].key /\ orders'[p].cart = orders[p].cart
        /\ orders'[p].recent => orders[p].recent
        /\ Live(p)' => Live(p)

\* Closing an order sells nothing and moves no money.
LEMMA OrderCloses ==
  ASSUME TypeOK, NEW o \in Orders, NEW s \in Outcomes, CloseOrder(o, s)
  PROVE  orders' \in [Orders -> OrderRow] /\ Unsold
<1>1. /\ orders[o] \in OrderRow /\ orders[o].status = "OPEN"
      /\ orders' = [orders EXCEPT ![o] = [orders[o] EXCEPT !.status = s]]
      /\ s \in {"DELIVERED", "CANCELLED"}
  BY Outcome DEF CloseOrder, TypeOK, OrderRow
<1>2. [orders[o] EXCEPT !.status = s] \in OrderRow
  BY <1>1 DEF OrderRow
<1> QED
  BY <1>1, <1>2 DEF TypeOK, OrderRow, Unsold, Placed, Live

\* An order leaving the customer's allowance window sells nothing.
LEMMA OrderAges ==
  ASSUME TypeOK, NEW o \in Orders, AgeOrder(o)
  PROVE  orders' \in [Orders -> OrderRow] /\ Unsold
<1>1. /\ orders[o] \in OrderRow /\ Placed(o)
      /\ orders' = [orders EXCEPT ![o] = [orders[o] EXCEPT !.recent = FALSE]]
  BY DEF AgeOrder, TypeOK, OrderRow
<1>2. [orders[o] EXCEPT !.recent = FALSE] \in OrderRow
  BY <1>1 DEF OrderRow
<1> QED
  BY <1>1, <1>2 DEF TypeOK, OrderRow, Unsold, Placed, Live

-----------------------------------------------------------------------------
(* The invariant is kept *)

\* Rows and requests stay well typed: a balance never goes below nothing.
LEMMA TypesKept ==
  ASSUME TypeOK, Requests, Purses, Next
  PROVE  TypeOK'
<1>1. ASSUME NEW w \in Workers, NEW c \in Customers, NEW k \in Keys, NEW cart \in Carts,
             PlaceOrder(w, c, k, cart)
      PROVE  TypeOK'
  <2>1. UNCHANGED <<orders, keys, wallets, deleted, online, num, snap>>
    BY <1>1 DEF PlaceOrder, rows
  <2>2. pc' \in [Workers -> Phases]
    BY <1>1, Outcome DEF PlaceOrder, AnswerWith, OwnKey, PaidWith, TypeOK, rows, Phases
  <2>3. req' \in [Workers -> RequestType]
    BY <1>1, Outcome DEF PlaceOrder, AnswerWith, OwnKey, PaidWith, TypeOK, rows,
       RequestType, Request
  <2>4. ans' \in [Workers -> Orders \cup {NoOrder}]
    BY <1>1, Outcome DEF PlaceOrder, AnswerWith, OwnKey, PaidWith, TypeOK
  <2> QED
    BY <2>1, <2>2, <2>3, <2>4 DEF TypeOK, OrderRow, KeyRecord, Seen
<1>2. ASSUME NEW w \in Workers,
             ClaimKey(w)
      PROVE  TypeOK'
  BY <1>2, Outcome DEF ClaimKey, Go, MayWriteFor, KeyFree, TypeOK, rows, Phases, InCheckout
<1>3. ASSUME NEW w \in Workers,
             Validate(w)
      PROVE  TypeOK'
  BY <1>3, Outcome DEF Validate, Go, CheckoutFree, TypeOK, rows, OrderRow, Phases,
     InCheckout
<1>4. ASSUME NEW w \in Workers,
             ReplayPayment(w)
      PROVE  TypeOK'
  <2>1. UNCHANGED <<orders, wallets, deleted, online, req, num, snap>>
    BY <1>4 DEF ReplayPayment
  <2>2. keys' \in [Keys -> KeyRecord]
    <3>1. PICK p \in OwnPaid(req[w].customer, req[w].cart.intent) :
               keys' = [keys EXCEPT ![req[w].key] = KeyRow(req[w].customer, req[w].cart, p)]
      BY <1>4 DEF ReplayPayment
    <3>2. KeyRow(req[w].customer, req[w].cart, p) \in KeyRecord
      BY <3>1 DEF OwnPaid, PaidWith, KeyRow, KeyRecord, TypeOK, RequestType
    <3> QED
      BY <3>1, <3>2 DEF TypeOK, KeyRecord
  <2>3. pc' \in [Workers -> Phases]
    BY <1>4, Outcome DEF ReplayPayment, CheckoutFree, OwnPaid, PaidWith, AnswerWith, TypeOK,
       Phases
  <2>4. ans' \in [Workers -> Orders \cup {NoOrder}]
    BY <1>4, Outcome DEF ReplayPayment, CheckoutFree, OwnPaid, PaidWith, AnswerWith, TypeOK
  <2> QED
    BY <2>1, <2>2, <2>3, <2>4 DEF TypeOK, OrderRow, KeyRecord, Seen
<1>5. ASSUME NEW w \in Workers,
             AllocateNumber(w)
      PROVE  TypeOK'
  <2>1. UNCHANGED <<orders, keys, wallets, deleted, online, req, ans, snap>>
    BY <1>5 DEF AllocateNumber, rows
  <2>2. pc' \in [Workers -> Phases]
    BY <1>5, Outcome DEF AllocateNumber, Go, TakeNumber, NumberFree, Candidates, TypeOK,
       Phases, InCheckout
  <2>3. num' \in [Workers -> Nat]
    BY <1>5, NumberTaken DEF AllocateNumber
  <2> QED
    BY <2>1, <2>2, <2>3 DEF TypeOK, OrderRow, KeyRecord, Seen
<1>6. ASSUME NEW w \in Workers,
             LockWallet(w)
      PROVE  TypeOK'
  BY <1>6, Outcome DEF LockWallet, Go, CanSpend, TypeOK, rows, OrderRow, Phases, InCheckout
<1>7. ASSUME NEW w \in Workers, NEW o \in Orders,
             CommitOrder(w, o)
      PROVE  TypeOK'
  <2>1. UNCHANGED <<deleted, online, req, snap>>
    BY <1>7 DEF CommitOrder, AnswerWith, rows
  <2>2. orders' \in [Orders -> OrderRow]
    BY <1>7, Outcome DEF CommitOrder, AnswerWith, TypeOK, rows, Phases, InCheckout,
       RequestType, OrderRow, Order
  <2>3. keys' \in [Keys -> KeyRecord]
    BY <1>7, Outcome DEF CommitOrder, AnswerWith, TypeOK, rows, Phases, InCheckout,
       RequestType, Request, KeyRecord, KeyRow
  <2>4. wallets' \in [Customers -> Wallet]
    <3>1. pc[w] \in {"commit", "tillCommit"} /\ Spend(req[w].customer, req[w].cart.spend)
      BY <1>7 DEF CommitOrder
    <3>2. req[w].cart.spend \in Nat
      BY DEF TypeOK, RequestType, Cart
    <3> QED
      BY <3>1, <3>2, CommitPays, SpendTakes
  <2>5. pc' \in [Workers -> Phases]
    BY <1>7, Outcome DEF CommitOrder, AnswerWith, TypeOK, Phases
  <2>6. num' \in [Workers -> Nat]
    BY <1>7, Outcome DEF CommitOrder, TypeOK
  <2>7. ans' \in [Workers -> Orders \cup {NoOrder}]
    BY <1>7, Outcome DEF CommitOrder, AnswerWith, TypeOK
  <2> QED
    BY <2>1, <2>2, <2>3, <2>4, <2>5, <2>6, <2>7 DEF TypeOK, OrderRow, KeyRecord, Seen
<1>8. ASSUME NEW w \in Workers,
             Tell(w)
      PROVE  TypeOK'
  BY <1>8, Outcome DEF Tell, Finish, TypeOK, rows, OrderRow, KeyRecord, Seen, Phases,
     InCheckout, RequestType, Request, NoRequest, NoSnapshot, Wallet, NoWallet, NoRow, Cart,
     Deals, NoCart
<1>9. ASSUME NEW w \in Workers, NEW c \in Customers \cup {NoCustomer},
             TillSale(w, c)
      PROVE  TypeOK'
  <2>1. UNCHANGED <<orders, keys, wallets, deleted, online, ans, snap>>
    BY <1>9 DEF TillSale, rows
  <2>2. pc' \in [Workers -> Phases]
    BY <1>9, Outcome DEF TillSale, Start, TillOrder, TakeNumber, NumberFree, Candidates,
       TypeOK, Phases
  <2>3. req' \in [Workers -> RequestType]
    BY <1>9, Outcome DEF TillSale, Start, TillOrder, TakeNumber, NumberFree, Candidates,
       TypeOK, rows, Phases, InCheckout, RequestType, Request, NoRequest, Cart, Deals,
       NoCart
  <2>4. num' \in [Workers -> Nat]
    BY <1>9, NumberTaken DEF TillSale
  <2> QED
    BY <2>1, <2>2, <2>3, <2>4 DEF TypeOK, OrderRow, KeyRecord, Seen
<1>10. ASSUME NEW w \in Workers, NEW c \in Customers, NEW credit \in {x.spend : x \in Carts} \ {0},
             TillDebit(w, c, credit)
      PROVE  TypeOK'
  BY <1>10, Outcome DEF TillDebit, Start, TillOrder, MayWriteFor, CanSpend, TypeOK, rows,
     OrderRow, KeyRecord, Seen, Phases, InCheckout, RequestType, Request, Cart, Deals,
     NoCart
<1>11. ASSUME NEW w \in Workers,
             TillNumber(w)
      PROVE  TypeOK'
  <2>1. UNCHANGED <<orders, keys, wallets, deleted, online, req, ans, snap>>
    BY <1>11 DEF TillNumber, rows
  <2>2. pc' \in [Workers -> Phases]
    BY <1>11, Outcome DEF TillNumber, Go, TakeNumber, NumberFree, Candidates, TypeOK, Phases
  <2>3. num' \in [Workers -> Nat]
    BY <1>11, NumberTaken DEF TillNumber
  <2> QED
    BY <2>1, <2>2, <2>3 DEF TypeOK, OrderRow, KeyRecord, Seen
<1>12. ASSUME NEW w \in Workers, NEW o \in Orders,
             TillCommit(w, o)
      PROVE  TypeOK'
  <2>1. UNCHANGED <<keys, deleted, online>>
    BY <1>12 DEF TillCommit, MayWriteFor, Finish, rows
  <2>2. orders' \in [Orders -> OrderRow]
    BY <1>12, Outcome DEF TillCommit, MayWriteFor, Finish, TypeOK, rows, Phases, InCheckout,
       RequestType, OrderRow, Order
  <2>3. wallets' \in [Customers -> Wallet]
    <3>1. pc[w] \in {"commit", "tillCommit"} /\ Spend(req[w].customer, req[w].cart.spend)
      BY <1>12 DEF TillCommit
    <3>2. req[w].cart.spend \in Nat
      BY DEF TypeOK, RequestType, Cart
    <3> QED
      BY <3>1, <3>2, CommitPays, SpendTakes
  <2>4. pc' \in [Workers -> Phases]
    BY <1>12, Outcome DEF TillCommit, MayWriteFor, Finish, TypeOK, Phases
  <2>5. req' \in [Workers -> RequestType]
    BY <1>12, Outcome DEF TillCommit, MayWriteFor, Finish, TypeOK, rows, Phases, InCheckout,
       RequestType, Request, NoRequest, NoSnapshot, Cart, Deals, NoCart
  <2>6. num' \in [Workers -> Nat]
    BY <1>12, Outcome DEF TillCommit, Finish, TypeOK
  <2>7. ans' \in [Workers -> Orders \cup {NoOrder}]
    BY <1>12, Outcome DEF TillCommit, Finish, TypeOK
  <2>8. snap' \in [Workers -> Seen]
    BY <1>12, Outcome DEF TillCommit, MayWriteFor, Finish, TypeOK, rows, Phases, InCheckout,
       RequestType, Request, NoRequest, NoSnapshot, Seen, Wallet, NoWallet
  <2> QED
    BY <2>1, <2>2, <2>3, <2>4, <2>5, <2>6, <2>7, <2>8 DEF TypeOK, OrderRow, KeyRecord, Seen
<1>13. ASSUME NEW w \in Workers, NEW c \in Customers,
             RequestDeletion(w, c)
      PROVE  TypeOK'
  BY <1>13, Outcome DEF RequestDeletion, Start, Snapshot, NothingOpen, TypeOK, rows,
     OrderRow, KeyRecord, Seen, Phases, InCheckout, RequestType, Request, Cart, Deals,
     NoCart
<1>14. ASSUME NEW w \in Workers,
             LockAccount(w)
      PROVE  TypeOK'
  BY <1>14, Outcome DEF LockAccount, Go, TypeOK, rows, Phases
<1>15. ASSUME NEW w \in Workers,
             Retry(w)
      PROVE  TypeOK'
  <2>1. UNCHANGED <<orders, keys, wallets, deleted, online, req, num, ans>>
    BY <1>15 DEF Retry, rows
  <2>2. pc' \in [Workers -> Phases]
    BY <1>15, Outcome DEF Retry, Go, Snapshot, NothingOpen, TypeOK, rows, Phases
  <2>3. snap' \in [Workers -> Seen]
    <3>1. Snapshot(req[w].customer) \in Seen
      BY <1>15 DEF Retry, Go, Requests, Asked, Deletes, Snapshot, Seen, NothingOpen, TypeOK
    <3> QED
      BY <1>15, <3>1 DEF Retry, TypeOK, Seen
  <2> QED
    BY <2>1, <2>2, <2>3 DEF TypeOK, OrderRow, KeyRecord, Seen
<1>16. ASSUME NEW w \in Workers,
             Erase(w)
      PROVE  TypeOK'
  <2>1. UNCHANGED <<orders, online>>
    BY <1>16 DEF Erase, Stale, Finish, rows
  <2>2. keys' \in [Keys -> KeyRecord]
    BY <1>16, Outcome DEF Erase, Stale, Finish, TypeOK, rows, Phases, InCheckout,
       RequestType, Request, NoRequest, NoSnapshot, Seen, Wallet, NoWallet, KeyRecord,
       KeyRow, NoRow, Cart, Deals, NoCart
  <2>3. wallets' \in [Customers -> Wallet]
    BY <1>16, Outcome DEF Erase, Stale, Finish, TypeOK, rows, Phases, Wallet, NoWallet
  <2>4. deleted' \subseteq Customers
    BY <1>16 DEF Erase, Requests, Asked, Deletes, TypeOK
  <2>5. pc' \in [Workers -> Phases]
    BY <1>16, Outcome DEF Erase, Stale, Finish, TypeOK, Phases
  <2>6. req' \in [Workers -> RequestType]
    BY <1>16, Outcome DEF Erase, Stale, Finish, TypeOK, rows, Phases, InCheckout,
       RequestType, Request, NoRequest, NoSnapshot, Cart, Deals, NoCart
  <2>7. num' \in [Workers -> Nat]
    BY <1>16, Outcome DEF Erase, Finish, TypeOK
  <2>8. ans' \in [Workers -> Orders \cup {NoOrder}]
    BY <1>16, Outcome DEF Erase, Finish, TypeOK
  <2>9. snap' \in [Workers -> Seen]
    BY <1>16, Outcome DEF Erase, Stale, Finish, TypeOK, rows, Phases, InCheckout,
       RequestType, Request, NoRequest, NoSnapshot, Seen, Wallet, NoWallet
  <2> QED
    BY <2>1, <2>2, <2>3, <2>4, <2>5, <2>6, <2>7, <2>8, <2>9 DEF TypeOK, OrderRow, KeyRecord,
       Seen
<1>17. ASSUME NEW w \in Workers,
             Fail(w)
      PROVE  TypeOK'
  BY <1>17, Outcome DEF Fail, Finish, TypeOK, rows, OrderRow, KeyRecord, Seen, Phases,
     InCheckout, RequestType, Request, NoRequest, NoSnapshot, Wallet, NoWallet, NoRow, Cart,
     Deals, NoCart
<1>18. ASSUME NEW c \in Customers,
             OpenWallet(c)
      PROVE  TypeOK'
  <2>1. UNCHANGED <<orders, keys, deleted, online, pc, req, num, ans, snap>>
    BY <1>18 DEF OpenWallet, rows
  <2>2. wallets' \in [Customers -> Wallet]
    BY <1>18, WalletOpens
  <2> QED
    BY <2>1, <2>2 DEF TypeOK, OrderRow, KeyRecord, Seen
<1>19. ASSUME NEW c \in Customers, NEW n \in 1 .. MaxBalance,
             Credit(c, n)
      PROVE  TypeOK'
  BY <1>19, Outcome DEF Credit, TypeOK, Wallet
<1>20. ASSUME NEW o \in Orders,
             AgeOrder(o)
      PROVE  TypeOK'
  <2>1. UNCHANGED <<keys, wallets, deleted, online, pc, req, num, ans, snap>>
    BY <1>20 DEF AgeOrder, rows
  <2>2. orders' \in [Orders -> OrderRow]
    BY <1>20, OrderAges
  <2> QED
    BY <2>1, <2>2 DEF TypeOK, OrderRow, KeyRecord, Seen
<1>21. ASSUME NEW o \in Orders, NEW s \in Outcomes,
             CloseOrder(o, s)
      PROVE  TypeOK'
  <2>1. UNCHANGED <<keys, wallets, deleted, online, pc, req, num, ans, snap>>
    BY <1>21 DEF CloseOrder, rows
  <2>2. orders' \in [Orders -> OrderRow]
    BY <1>21, OrderCloses
  <2> QED
    BY <2>1, <2>2 DEF TypeOK, OrderRow, KeyRecord, Seen
<1> QED
  BY <1>1, <1>2, <1>3, <1>4, <1>5, <1>6, <1>7, <1>8, <1>9, <1>10, <1>11, <1>12, <1>13,
     <1>14, <1>15, <1>16, <1>17, <1>18, <1>19, <1>20, <1>21 DEF Next, CheckoutStep,
     TillStep, DeletionStep

\* No step makes a request under way ask for what its kind may not ask: a key
\* and a customer for the checkout, neither deal nor card at the till.
LEMMA RequestsKept ==
  ASSUME TypeOK, Requests, Next
  PROVE  Requests'
<1>1. ASSUME NEW w \in Workers, NEW c \in Customers, NEW k \in Keys, NEW cart \in Carts,
             PlaceOrder(w, c, k, cart)
      PROVE  Requests'
  BY <1>1, Outcome DEF PlaceOrder, AnswerWith, OwnKey, PaidWith, Requests, Asked, Tills,
     TypeOK, Request
<1>2. ASSUME NEW w \in Workers,
             ClaimKey(w)
      PROVE  Requests'
  BY <1>2, Outcome DEF ClaimKey, Go, MayWriteFor, Requests, Asked, Tills
<1>3. ASSUME NEW w \in Workers,
             Validate(w)
      PROVE  Requests'
  BY <1>3, Outcome DEF Validate, Go, CheckoutFree, Requests, Asked, Tills, InCheckout
<1>4. ASSUME NEW w \in Workers,
             ReplayPayment(w)
      PROVE  Requests'
  BY <1>4, Outcome DEF ReplayPayment, CheckoutFree, OwnPaid, PaidWith, AnswerWith, Requests,
     Asked, Tills, InCheckout
<1>5. ASSUME NEW w \in Workers,
             AllocateNumber(w)
      PROVE  Requests'
  BY <1>5, Outcome DEF AllocateNumber, Go, TakeNumber, NumberFree, Candidates, Requests,
     Asked, Tills, InCheckout
<1>6. ASSUME NEW w \in Workers,
             LockWallet(w)
      PROVE  Requests'
  BY <1>6, Outcome DEF LockWallet, Go, CanSpend, Requests, Asked, Tills, InCheckout
<1>7. ASSUME NEW w \in Workers, NEW o \in Orders,
             CommitOrder(w, o)
      PROVE  Requests'
  BY <1>7, Outcome DEF CommitOrder, AnswerWith, Requests, Asked, Tills, InCheckout
<1>8. ASSUME NEW w \in Workers,
             Tell(w)
      PROVE  Requests'
  BY <1>8, Outcome DEF Tell, Finish, Requests, Asked, Tills, Deletes, TypeOK, InCheckout,
     NoSnapshot
<1>9. ASSUME NEW w \in Workers, NEW c \in Customers \cup {NoCustomer},
             TillSale(w, c)
      PROVE  Requests'
  BY <1>9, Outcome DEF TillSale, Start, TillOrder, TakeNumber, NumberFree, Candidates,
     Requests, Asked, Tills, Deletes, TypeOK, InCheckout, NoCart, Request
<1>10. ASSUME NEW w \in Workers, NEW c \in Customers, NEW credit \in {x.spend : x \in Carts} \ {0},
             TillDebit(w, c, credit)
      PROVE  Requests'
  BY <1>10, Outcome DEF TillDebit, Start, TillOrder, MayWriteFor, CanSpend, Requests, Asked,
     Tills, Deletes, TypeOK, InCheckout, Cart, NoCart, Request
<1>11. ASSUME NEW w \in Workers,
             TillNumber(w)
      PROVE  Requests'
  BY <1>11, Outcome DEF TillNumber, Go, TakeNumber, NumberFree, Candidates, Requests, Asked,
     Tills, InCheckout
<1>12. ASSUME NEW w \in Workers, NEW o \in Orders,
             TillCommit(w, o)
      PROVE  Requests'
  BY <1>12, Outcome DEF TillCommit, MayWriteFor, Finish, Requests, Asked, Tills, Deletes,
     TypeOK, InCheckout, NoSnapshot
<1>13. ASSUME NEW w \in Workers, NEW c \in Customers,
             RequestDeletion(w, c)
      PROVE  Requests'
  BY <1>13, Outcome DEF RequestDeletion, Start, Snapshot, NothingOpen, Requests, Asked,
     Tills, Deletes, TypeOK, InCheckout, Request
<1>14. ASSUME NEW w \in Workers,
             LockAccount(w)
      PROVE  Requests'
  BY <1>14, Outcome DEF LockAccount, Go, Requests, Asked, Tills, Deletes, InCheckout
<1>15. ASSUME NEW w \in Workers,
             Retry(w)
      PROVE  Requests'
  <2>1. pc[w] = "erase" /\ pc' = [pc EXCEPT ![w] = "ask"] /\ req' = req
    BY <1>15 DEF Retry, Go
  <2>2. snap' = [snap EXCEPT ![w] = Snapshot(req[w].customer)] /\ UNCHANGED wallets
    BY <1>15 DEF Retry, rows
  <2>3. /\ snap'[w].clear => snap'[w].wallet.balance = 0
        /\ \A v \in Workers \ {w} : snap'[v] = snap[v]
    BY <2>2 DEF Snapshot, NothingOpen, TypeOK
  <2>4. Asked(w)'
    BY <2>1, <2>3 DEF Requests, Asked, Tills, Deletes, InCheckout
  <2>5. \A v \in Workers \ {w} : Asked(v)'
    BY <2>1, <2>3 DEF Requests, Asked, TypeOK
  <2> QED
    BY <2>4, <2>5 DEF Requests
<1>16. ASSUME NEW w \in Workers,
             Erase(w)
      PROVE  Requests'
  BY <1>16, Outcome DEF Erase, Stale, Finish, Requests, Asked, Tills, Deletes, TypeOK,
     InCheckout, NoSnapshot
<1>17. ASSUME NEW w \in Workers,
             Fail(w)
      PROVE  Requests'
  BY <1>17, Outcome DEF Fail, Finish, Requests, Asked, Tills, Deletes, TypeOK, InCheckout,
     NoSnapshot
<1>18. ASSUME NEW c \in Customers,
             OpenWallet(c)
      PROVE  Requests'
  BY <1>18, Outcome DEF OpenWallet, Requests, Asked
<1>19. ASSUME NEW c \in Customers, NEW n \in 1 .. MaxBalance,
             Credit(c, n)
      PROVE  Requests'
  BY <1>19, Outcome DEF Credit, Requests, Asked
<1>20. ASSUME NEW o \in Orders,
             AgeOrder(o)
      PROVE  Requests'
  BY <1>20, Outcome DEF AgeOrder, Requests, Asked
<1>21. ASSUME NEW o \in Orders, NEW s \in Outcomes,
             CloseOrder(o, s)
      PROVE  Requests'
  BY <1>21, Outcome DEF CloseOrder, Requests, Asked
<1> QED
  BY <1>1, <1>2, <1>3, <1>4, <1>5, <1>6, <1>7, <1>8, <1>9, <1>10, <1>11, <1>12, <1>13,
     <1>14, <1>15, <1>16, <1>17, <1>18, <1>19, <1>20, <1>21 DEF Next, CheckoutStep,
     TillStep, DeletionStep

\* No step gives two requests the same lock: an idempotency key, the counter of
\* order numbers, a customer's checkout, his wallet or his account row.
LEMMA LocksKept ==
  ASSUME TypeOK, Requests, Locks, Accounts, Next
  PROVE  Locks'
<1>1. ASSUME NEW w \in Workers, NEW c \in Customers, NEW k \in Keys, NEW cart \in Carts,
             PlaceOrder(w, c, k, cart)
      PROVE  Locks'
  BY <1>1 DEF PlaceOrder, AnswerWith, OwnKey, PaidWith, Locks, Apart, HoldsKey, HoldsNumber,
     HoldsCheckout, HoldsWallet, SharesAccount, LocksAccount, InCheckout, TypeOK
<1>2. ASSUME NEW w \in Workers,
             ClaimKey(w)
      PROVE  Locks'
  BY <1>2 DEF ClaimKey, Go, MayWriteFor, KeyFree, Locks, Apart, HoldsKey, HoldsNumber,
     HoldsCheckout, HoldsWallet, SharesAccount, LocksAccount
<1>3. ASSUME NEW w \in Workers,
             Validate(w)
      PROVE  Locks'
  BY <1>3 DEF Validate, Go, CheckoutFree, Locks, Apart, HoldsKey, HoldsNumber,
     HoldsCheckout, HoldsWallet, SharesAccount, LocksAccount, InCheckout
<1>4. ASSUME NEW w \in Workers,
             ReplayPayment(w)
      PROVE  Locks'
  BY <1>4 DEF ReplayPayment, CheckoutFree, OwnPaid, PaidWith, AnswerWith, Locks, Apart,
     HoldsKey, HoldsNumber, HoldsCheckout, HoldsWallet, SharesAccount, LocksAccount,
     InCheckout
<1>5. ASSUME NEW w \in Workers,
             AllocateNumber(w)
      PROVE  Locks'
  BY <1>5 DEF AllocateNumber, Go, TakeNumber, NumberFree, Candidates, Locks, Apart,
     HoldsKey, HoldsNumber, HoldsCheckout, HoldsWallet, SharesAccount, LocksAccount,
     InCheckout
<1>6. ASSUME NEW w \in Workers,
             LockWallet(w)
      PROVE  Locks'
  BY <1>6 DEF LockWallet, Go, CanSpend, Locks, Apart, HoldsKey, HoldsNumber, HoldsCheckout,
     HoldsWallet, SharesAccount, LocksAccount, InCheckout
<1>7. ASSUME NEW w \in Workers, NEW o \in Orders,
             CommitOrder(w, o)
      PROVE  Locks'
  BY <1>7 DEF CommitOrder, AnswerWith, Locks, Apart, HoldsKey, HoldsNumber, HoldsCheckout,
     HoldsWallet, SharesAccount, LocksAccount, InCheckout
<1>8. ASSUME NEW w \in Workers,
             Tell(w)
      PROVE  Locks'
  BY <1>8 DEF Tell, Finish, Locks, Apart, HoldsKey, HoldsNumber, HoldsCheckout, HoldsWallet,
     SharesAccount, LocksAccount, InCheckout
<1>9. ASSUME NEW w \in Workers, NEW c \in Customers \cup {NoCustomer},
             TillSale(w, c)
      PROVE  Locks'
  BY <1>9 DEF TillSale, Start, TillOrder, TakeNumber, NumberFree, Candidates, Locks, Apart,
     HoldsKey, HoldsNumber, HoldsCheckout, HoldsWallet, SharesAccount, LocksAccount,
     InCheckout, Requests, TypeOK, Request
<1>10. ASSUME NEW w \in Workers, NEW c \in Customers, NEW credit \in {x.spend : x \in Carts} \ {0},
             TillDebit(w, c, credit)
      PROVE  Locks'
  BY <1>10 DEF TillDebit, Start, TillOrder, MayWriteFor, CanSpend, Locks, Apart, HoldsKey,
     HoldsNumber, HoldsCheckout, HoldsWallet, SharesAccount, LocksAccount, InCheckout,
     TypeOK, Request
<1>11. ASSUME NEW w \in Workers,
             TillNumber(w)
      PROVE  Locks'
  BY <1>11 DEF TillNumber, Go, TakeNumber, NumberFree, Candidates, Locks, Apart, HoldsKey,
     HoldsNumber, HoldsCheckout, HoldsWallet, SharesAccount, LocksAccount, InCheckout
<1>12. ASSUME NEW w \in Workers, NEW o \in Orders,
             TillCommit(w, o)
      PROVE  Locks'
  BY <1>12 DEF TillCommit, MayWriteFor, Finish, Locks, Apart, HoldsKey, HoldsNumber,
     HoldsCheckout, HoldsWallet, SharesAccount, LocksAccount, InCheckout, TypeOK
<1>13. ASSUME NEW w \in Workers, NEW c \in Customers,
             RequestDeletion(w, c)
      PROVE  Locks'
  BY <1>13 DEF RequestDeletion, Start, Snapshot, NothingOpen, Locks, Apart, HoldsKey,
     HoldsNumber, HoldsCheckout, HoldsWallet, SharesAccount, LocksAccount, InCheckout
<1>14. ASSUME NEW w \in Workers,
             LockAccount(w)
      PROVE  Locks'
  BY <1>14 DEF LockAccount, Go, Locks, Apart, HoldsKey, HoldsNumber, HoldsCheckout,
     HoldsWallet, SharesAccount, LocksAccount, InCheckout
<1>15. ASSUME NEW w \in Workers,
             Retry(w)
      PROVE  Locks'
  BY <1>15 DEF Retry, Go, Snapshot, NothingOpen, Locks, Apart, HoldsKey, HoldsNumber,
     HoldsCheckout, HoldsWallet, SharesAccount, LocksAccount, InCheckout
<1>16. ASSUME NEW w \in Workers,
             Erase(w)
      PROVE  Locks'
  BY <1>16 DEF Erase, Stale, Finish, Locks, Apart, HoldsKey, HoldsNumber, HoldsCheckout,
     HoldsWallet, SharesAccount, LocksAccount, InCheckout, TypeOK
<1>17. ASSUME NEW w \in Workers,
             Fail(w)
      PROVE  Locks'
  BY <1>17 DEF Fail, Finish, Locks, Apart, HoldsKey, HoldsNumber, HoldsCheckout,
     HoldsWallet, SharesAccount, LocksAccount, InCheckout, TypeOK
<1>18. ASSUME NEW c \in Customers,
             OpenWallet(c)
      PROVE  Locks'
  BY <1>18 DEF OpenWallet, Locks, Apart, HoldsKey, HoldsNumber, HoldsCheckout, HoldsWallet,
     SharesAccount, LocksAccount
<1>19. ASSUME NEW c \in Customers, NEW n \in 1 .. MaxBalance,
             Credit(c, n)
      PROVE  Locks'
  BY <1>19 DEF Credit, Locks, Apart, HoldsKey, HoldsNumber, HoldsCheckout, HoldsWallet,
     SharesAccount, LocksAccount
<1>20. ASSUME NEW o \in Orders,
             AgeOrder(o)
      PROVE  Locks'
  BY <1>20 DEF AgeOrder, Locks, Apart, HoldsKey, HoldsNumber, HoldsCheckout, HoldsWallet,
     SharesAccount, LocksAccount
<1>21. ASSUME NEW o \in Orders, NEW s \in Outcomes,
             CloseOrder(o, s)
      PROVE  Locks'
  BY <1>21 DEF CloseOrder, Locks, Apart, HoldsKey, HoldsNumber, HoldsCheckout, HoldsWallet,
     SharesAccount, LocksAccount
<1> QED
  BY <1>1, <1>2, <1>3, <1>4, <1>5, <1>6, <1>7, <1>8, <1>9, <1>10, <1>11, <1>12, <1>13,
     <1>14, <1>15, <1>16, <1>17, <1>18, <1>19, <1>20, <1>21 DEF Next, CheckoutStep,
     TillStep, DeletionStep

\* No step deletes a customer whose row another request holds.
LEMMA AccountsKept ==
  ASSUME TypeOK, Requests, Locks, Accounts, Next
  PROVE  Accounts'
<1>1. ASSUME NEW w \in Workers, NEW c \in Customers, NEW k \in Keys, NEW cart \in Carts,
             PlaceOrder(w, c, k, cart)
      PROVE  Accounts'
  BY <1>1 DEF PlaceOrder, AnswerWith, OwnKey, PaidWith, Accounts, Locks, Apart, HoldsKey,
     HoldsNumber, HoldsCheckout, HoldsWallet, SharesAccount, LocksAccount, InCheckout,
     TypeOK, rows
<1>2. ASSUME NEW w \in Workers,
             ClaimKey(w)
      PROVE  Accounts'
  BY <1>2 DEF ClaimKey, Go, MayWriteFor, KeyFree, Accounts, Locks, Apart, HoldsKey,
     HoldsNumber, HoldsCheckout, HoldsWallet, SharesAccount, LocksAccount, rows
<1>3. ASSUME NEW w \in Workers,
             Validate(w)
      PROVE  Accounts'
  BY <1>3 DEF Validate, Go, CheckoutFree, Accounts, Locks, Apart, HoldsKey, HoldsNumber,
     HoldsCheckout, HoldsWallet, SharesAccount, LocksAccount, InCheckout, rows
<1>4. ASSUME NEW w \in Workers,
             ReplayPayment(w)
      PROVE  Accounts'
  BY <1>4 DEF ReplayPayment, CheckoutFree, OwnPaid, PaidWith, AnswerWith, Accounts, Locks,
     Apart, HoldsKey, HoldsNumber, HoldsCheckout, HoldsWallet, SharesAccount, LocksAccount,
     InCheckout
<1>5. ASSUME NEW w \in Workers,
             AllocateNumber(w)
      PROVE  Accounts'
  BY <1>5 DEF AllocateNumber, Go, TakeNumber, NumberFree, Candidates, Accounts, Locks,
     Apart, HoldsKey, HoldsNumber, HoldsCheckout, HoldsWallet, SharesAccount, LocksAccount,
     InCheckout, Requests, rows
<1>6. ASSUME NEW w \in Workers,
             LockWallet(w)
      PROVE  Accounts'
  BY <1>6 DEF LockWallet, Go, CanSpend, Accounts, Locks, Apart, HoldsKey, HoldsNumber,
     HoldsCheckout, HoldsWallet, SharesAccount, LocksAccount, InCheckout, rows
<1>7. ASSUME NEW w \in Workers, NEW o \in Orders,
             CommitOrder(w, o)
      PROVE  Accounts'
  BY <1>7 DEF CommitOrder, AnswerWith, Accounts, Locks, Apart, HoldsKey, HoldsNumber,
     HoldsCheckout, HoldsWallet, SharesAccount, LocksAccount, InCheckout
<1>8. ASSUME NEW w \in Workers,
             Tell(w)
      PROVE  Accounts'
  BY <1>8 DEF Tell, Finish, Accounts, Locks, Apart, HoldsKey, HoldsNumber, HoldsCheckout,
     HoldsWallet, SharesAccount, LocksAccount, InCheckout, rows
<1>9. ASSUME NEW w \in Workers, NEW c \in Customers \cup {NoCustomer},
             TillSale(w, c)
      PROVE  Accounts'
  BY <1>9 DEF TillSale, Start, TillOrder, TakeNumber, NumberFree, Candidates, Accounts,
     Locks, Apart, HoldsKey, HoldsNumber, HoldsCheckout, HoldsWallet, SharesAccount,
     LocksAccount, InCheckout, Requests, Asked, Tills, Deletes, TypeOK, rows, Request
<1>10. ASSUME NEW w \in Workers, NEW c \in Customers, NEW credit \in {x.spend : x \in Carts} \ {0},
             TillDebit(w, c, credit)
      PROVE  Accounts'
  BY <1>10 DEF TillDebit, Start, TillOrder, MayWriteFor, CanSpend, Accounts, Locks, Apart,
     HoldsKey, HoldsNumber, HoldsCheckout, HoldsWallet, SharesAccount, LocksAccount,
     InCheckout, Requests, TypeOK, rows, Request
<1>11. ASSUME NEW w \in Workers,
             TillNumber(w)
      PROVE  Accounts'
  BY <1>11 DEF TillNumber, Go, TakeNumber, NumberFree, Candidates, Accounts, Locks, Apart,
     HoldsKey, HoldsNumber, HoldsCheckout, HoldsWallet, SharesAccount, LocksAccount,
     InCheckout, Requests, rows
<1>12. ASSUME NEW w \in Workers, NEW o \in Orders,
             TillCommit(w, o)
      PROVE  Accounts'
  BY <1>12 DEF TillCommit, MayWriteFor, Finish, Accounts, Locks, Apart, HoldsKey,
     HoldsNumber, HoldsCheckout, HoldsWallet, SharesAccount, LocksAccount, InCheckout,
     TypeOK
<1>13. ASSUME NEW w \in Workers, NEW c \in Customers,
             RequestDeletion(w, c)
      PROVE  Accounts'
  BY <1>13 DEF RequestDeletion, Start, Snapshot, NothingOpen, Accounts, Locks, Apart,
     HoldsKey, HoldsNumber, HoldsCheckout, HoldsWallet, SharesAccount, LocksAccount,
     InCheckout, rows
<1>14. ASSUME NEW w \in Workers,
             LockAccount(w)
      PROVE  Accounts'
  BY <1>14 DEF LockAccount, Go, Accounts, Locks, Apart, HoldsKey, HoldsNumber,
     HoldsCheckout, HoldsWallet, SharesAccount, LocksAccount, rows
<1>15. ASSUME NEW w \in Workers,
             Retry(w)
      PROVE  Accounts'
  BY <1>15 DEF Retry, Go, Snapshot, NothingOpen, Accounts, Locks, Apart, HoldsKey,
     HoldsNumber, HoldsCheckout, HoldsWallet, SharesAccount, LocksAccount, rows
<1>16. ASSUME NEW w \in Workers,
             Erase(w)
      PROVE  Accounts'
  BY <1>16 DEF Erase, Stale, Finish, Accounts, Locks, Apart, HoldsKey, HoldsNumber,
     HoldsCheckout, HoldsWallet, SharesAccount, LocksAccount, InCheckout, TypeOK
<1>17. ASSUME NEW w \in Workers,
             Fail(w)
      PROVE  Accounts'
  BY <1>17 DEF Fail, Finish, Accounts, Locks, Apart, HoldsKey, HoldsNumber, HoldsCheckout,
     HoldsWallet, SharesAccount, LocksAccount, InCheckout, Requests, TypeOK, rows
<1>18. ASSUME NEW c \in Customers,
             OpenWallet(c)
      PROVE  Accounts'
  BY <1>18 DEF OpenWallet, Accounts, Locks, SharesAccount, LocksAccount
<1>19. ASSUME NEW c \in Customers, NEW n \in 1 .. MaxBalance,
             Credit(c, n)
      PROVE  Accounts'
  BY <1>19 DEF Credit, Accounts, Locks, SharesAccount, LocksAccount
<1>20. ASSUME NEW o \in Orders,
             AgeOrder(o)
      PROVE  Accounts'
  BY <1>20 DEF AgeOrder, Accounts, Locks, SharesAccount, LocksAccount
<1>21. ASSUME NEW o \in Orders, NEW s \in Outcomes,
             CloseOrder(o, s)
      PROVE  Accounts'
  BY <1>21 DEF CloseOrder, Accounts, Locks, SharesAccount, LocksAccount
<1> QED
  BY <1>1, <1>2, <1>3, <1>4, <1>5, <1>6, <1>7, <1>8, <1>9, <1>10, <1>11, <1>12, <1>13,
     <1>14, <1>15, <1>16, <1>17, <1>18, <1>19, <1>20, <1>21 DEF Next, CheckoutStep,
     TillStep, DeletionStep

\* No step takes from a locked wallet the money its holder is about to spend.
LEMMA PursesKept ==
  ASSUME TypeOK, Requests, Locks, Accounts, Purses, Next
  PROVE  Purses'
<1>1. ASSUME NEW w \in Workers, NEW c \in Customers, NEW k \in Keys, NEW cart \in Carts,
             PlaceOrder(w, c, k, cart)
      PROVE  Purses'
  BY <1>1, Outcome DEF PlaceOrder, AnswerWith, OwnKey, PaidWith, Purses, Spend, Locks,
     Apart, HoldsKey, HoldsNumber, HoldsCheckout, HoldsWallet, SharesAccount, LocksAccount,
     InCheckout, Requests, Asked, Tills, Deletes, TypeOK, RequestType, rows, Request, Wallet
<1>2. ASSUME NEW w \in Workers,
             ClaimKey(w)
      PROVE  Purses'
  BY <1>2, Outcome DEF ClaimKey, Go, MayWriteFor, KeyFree, Purses, Spend, Locks, Apart,
     HoldsKey, HoldsNumber, HoldsCheckout, HoldsWallet, SharesAccount, rows
<1>3. ASSUME NEW w \in Workers,
             Validate(w)
      PROVE  Purses'
  BY <1>3, Outcome DEF Validate, Go, CheckoutFree, Purses, Spend, Locks, Apart, HoldsKey,
     HoldsNumber, HoldsCheckout, HoldsWallet, SharesAccount, LocksAccount, rows
<1>4. ASSUME NEW w \in Workers,
             ReplayPayment(w)
      PROVE  Purses'
  BY <1>4, Outcome DEF ReplayPayment, CheckoutFree, OwnPaid, PaidWith, AnswerWith, Purses,
     Spend, HoldsWallet
<1>5. ASSUME NEW w \in Workers,
             AllocateNumber(w)
      PROVE  Purses'
  BY <1>5, Outcome DEF AllocateNumber, Go, TakeNumber, NumberFree, Candidates, Purses,
     Spend, Locks, Apart, HoldsKey, HoldsNumber, HoldsCheckout, HoldsWallet, rows
<1>6. ASSUME NEW w \in Workers,
             LockWallet(w)
      PROVE  Purses'
  BY <1>6, Outcome DEF LockWallet, Go, CanSpend, Purses, Spend, Locks, Apart, HoldsKey,
     HoldsNumber, HoldsCheckout, HoldsWallet, SharesAccount, LocksAccount, rows
<1>7. ASSUME NEW w \in Workers, NEW o \in Orders,
             CommitOrder(w, o)
      PROVE  Purses'
  <2>1. pc[w] \in {"commit", "tillCommit"} /\ Spend(req[w].customer, req[w].cart.spend)
    BY <1>7 DEF CommitOrder
  <2>2. req[w].cart.spend \in Nat /\ \A d \in Customers : wallets[d].balance \in Nat
    BY DEF TypeOK, RequestType, Cart, Wallet
  <2>3. Paid(req[w].customer, req[w].cart.spend)
    BY <2>1, <2>2, CommitPays, SpendTakes
  <2>4. SUFFICES ASSUME NEW v \in Workers, NEW d \in Customers, HoldsWallet(v, d)'
                 PROVE  (req[v].cart.spend <= wallets[d].balance)'
    BY DEF Purses
  <2>5. v # w /\ HoldsWallet(v, d) /\ req'[v] = req[v]
    BY <1>7, <2>4 DEF CommitOrder, AnswerWith, HoldsWallet, TypeOK
  <2>6. CASE d = req[w].customer /\ req[w].cart.spend > 0
    BY <2>1, <2>5, <2>6 DEF Locks, Apart, HoldsWallet
  <2>7. CASE d # req[w].customer \/ req[w].cart.spend = 0
    BY <2>2, <2>3, <2>5, <2>7 DEF Paid, Purses
  <2> QED
    BY <2>2, <2>6, <2>7
<1>8. ASSUME NEW w \in Workers,
             Tell(w)
      PROVE  Purses'
  BY <1>8, Outcome DEF Tell, Finish, Purses, Spend, Locks, Apart, HoldsKey, HoldsNumber,
     HoldsCheckout, HoldsWallet, rows
<1>9. ASSUME NEW w \in Workers, NEW c \in Customers \cup {NoCustomer},
             TillSale(w, c)
      PROVE  Purses'
  BY <1>9, Outcome DEF TillSale, Start, TillOrder, TakeNumber, NumberFree, Candidates,
     Purses, Spend, Locks, Apart, HoldsKey, HoldsNumber, HoldsCheckout, HoldsWallet,
     SharesAccount, LocksAccount, InCheckout, Requests, Asked, Tills, Deletes, TypeOK,
     RequestType, rows, Request, NoCart, Wallet
<1>10. ASSUME NEW w \in Workers, NEW c \in Customers, NEW credit \in {x.spend : x \in Carts} \ {0},
             TillDebit(w, c, credit)
      PROVE  Purses'
  BY <1>10, Outcome DEF TillDebit, Start, TillOrder, MayWriteFor, CanSpend, Purses, Spend,
     Locks, Apart, HoldsKey, HoldsNumber, HoldsCheckout, HoldsWallet, SharesAccount,
     LocksAccount, InCheckout, Requests, Asked, Tills, Deletes, TypeOK, RequestType, rows,
     Request, NoCart
<1>11. ASSUME NEW w \in Workers,
             TillNumber(w)
      PROVE  Purses'
  BY <1>11, Outcome DEF TillNumber, Go, TakeNumber, NumberFree, Candidates, Purses, Spend,
     Locks, Apart, HoldsKey, HoldsNumber, HoldsCheckout, HoldsWallet, SharesAccount,
     LocksAccount, InCheckout, Requests, Asked, Tills, Deletes, TypeOK, RequestType, rows,
     Request, NoRequest, NoCart, Wallet, NoWallet
<1>12. ASSUME NEW w \in Workers, NEW o \in Orders,
             TillCommit(w, o)
      PROVE  Purses'
  <2>1. pc[w] \in {"commit", "tillCommit"} /\ Spend(req[w].customer, req[w].cart.spend)
    BY <1>12 DEF TillCommit
  <2>2. req[w].cart.spend \in Nat /\ \A d \in Customers : wallets[d].balance \in Nat
    BY DEF TypeOK, RequestType, Cart, Wallet
  <2>3. Paid(req[w].customer, req[w].cart.spend)
    BY <2>1, <2>2, CommitPays, SpendTakes
  <2>4. SUFFICES ASSUME NEW v \in Workers, NEW d \in Customers, HoldsWallet(v, d)'
                 PROVE  (req[v].cart.spend <= wallets[d].balance)'
    BY DEF Purses
  <2>5. v # w /\ HoldsWallet(v, d) /\ req'[v] = req[v]
    BY <1>12, <2>4 DEF TillCommit, Finish, HoldsWallet, TypeOK
  <2>6. CASE d = req[w].customer /\ req[w].cart.spend > 0
    BY <2>1, <2>5, <2>6 DEF Locks, Apart, HoldsWallet
  <2>7. CASE d # req[w].customer \/ req[w].cart.spend = 0
    BY <2>2, <2>3, <2>5, <2>7 DEF Paid, Purses
  <2> QED
    BY <2>2, <2>6, <2>7
<1>13. ASSUME NEW w \in Workers, NEW c \in Customers,
             RequestDeletion(w, c)
      PROVE  Purses'
  BY <1>13, Outcome DEF RequestDeletion, Start, Snapshot, NothingOpen, Purses, Spend, Locks,
     Apart, HoldsKey, HoldsNumber, HoldsCheckout, HoldsWallet, SharesAccount, rows
<1>14. ASSUME NEW w \in Workers,
             LockAccount(w)
      PROVE  Purses'
  BY <1>14, Outcome DEF LockAccount, Go, Purses, Spend, Locks, Apart, HoldsKey, HoldsNumber,
     HoldsCheckout, HoldsWallet, rows
<1>15. ASSUME NEW w \in Workers,
             Retry(w)
      PROVE  Purses'
  BY <1>15, Outcome DEF Retry, Go, Snapshot, NothingOpen, Purses, Spend, Locks, Apart,
     HoldsKey, HoldsNumber, HoldsCheckout, HoldsWallet, SharesAccount, rows
<1>16. ASSUME NEW w \in Workers,
             Erase(w)
      PROVE  Purses'
  <2>1. SUFFICES ASSUME NEW v \in Workers, NEW d \in Customers, HoldsWallet(v, d)'
                 PROVE  (req[v].cart.spend <= wallets[d].balance)'
    BY DEF Purses
  <2>2. v # w /\ HoldsWallet(v, d) /\ SharesAccount(v, d) /\ req'[v] = req[v]
    BY <1>16, <2>1 DEF Erase, Finish, HoldsWallet, SharesAccount, InCheckout
  <2>3. LocksAccount(w, req[w].customer)
    BY <1>16 DEF Erase, LocksAccount
  <2>4. d # req[w].customer
    BY <2>2, <2>3 DEF Locks, Apart
  <2>5. wallets'[d] = wallets[d]
    BY <1>16, <2>4 DEF Erase, TypeOK
  <2> QED
    BY <2>2, <2>5 DEF Purses
<1>17. ASSUME NEW w \in Workers,
             Fail(w)
      PROVE  Purses'
  BY <1>17, Outcome DEF Fail, Finish, Purses, Spend, Locks, Apart, HoldsKey, HoldsNumber,
     HoldsCheckout, HoldsWallet, SharesAccount, LocksAccount, InCheckout, Requests, Asked,
     Tills, TypeOK, rows
<1>18. ASSUME NEW c \in Customers,
             OpenWallet(c)
      PROVE  Purses'
  <2>1. Paid(c, 0)
    BY <1>18, WalletOpens
  <2>2. UNCHANGED <<pc, req>> /\ \A d \in Customers : wallets[d].balance \in Nat
    BY <1>18 DEF OpenWallet, TypeOK, Wallet
  <2>3. \A d \in Customers : wallets'[d].balance = wallets[d].balance
    BY <2>1, <2>2 DEF Paid
  <2>4. \A v \in Workers, d \in Customers : HoldsWallet(v, d)' = HoldsWallet(v, d)
    BY <2>2 DEF HoldsWallet
  <2> QED
    BY <2>2, <2>3, <2>4 DEF Purses
<1>19. ASSUME NEW c \in Customers, NEW n \in 1 .. MaxBalance,
             Credit(c, n)
      PROVE  Purses'
  BY <1>19, Outcome DEF Credit, Purses, Spend, HoldsWallet
<1>20. ASSUME NEW o \in Orders,
             AgeOrder(o)
      PROVE  Purses'
  BY <1>20, Outcome DEF AgeOrder, Purses, Spend, HoldsWallet
<1>21. ASSUME NEW o \in Orders, NEW s \in Outcomes,
             CloseOrder(o, s)
      PROVE  Purses'
  BY <1>21, Outcome DEF CloseOrder, Purses, Spend, HoldsWallet
<1> QED
  BY <1>1, <1>2, <1>3, <1>4, <1>5, <1>6, <1>7, <1>8, <1>9, <1>10, <1>11, <1>12, <1>13,
     <1>14, <1>15, <1>16, <1>17, <1>18, <1>19, <1>20, <1>21 DEF Next, CheckoutStep,
     TillStep, DeletionStep

\* Numbers are kept by a step that leaves orders alone and lets nobody take one.
LEMMA NumbersStay ==
  ASSUME Numbers, orders' = orders,
         \A v \in Workers : HoldsNumber(v)' => HoldsNumber(v) /\ num'[v] = num[v]
  PROVE  Numbers'
BY DEF Numbers, IsNextNumber, Placed

\* No step numbers an order while another request holds the next number, and
\* placed orders keep theirs.
LEMMA NumbersKept ==
  ASSUME TypeOK, Requests, Locks, Numbers, Next
  PROVE  Numbers'
<1>1. ASSUME NEW w \in Workers, NEW c \in Customers, NEW k \in Keys, NEW cart \in Carts,
             PlaceOrder(w, c, k, cart)
      PROVE  Numbers'
  BY <1>1, NumbersStay DEF PlaceOrder, AnswerWith, HoldsNumber, TypeOK, rows
<1>2. ASSUME NEW w \in Workers,
             ClaimKey(w)
      PROVE  Numbers'
  BY <1>2, NumbersStay DEF ClaimKey, Go, HoldsNumber, rows
<1>3. ASSUME NEW w \in Workers,
             Validate(w)
      PROVE  Numbers'
  BY <1>3, NumbersStay DEF Validate, Go, HoldsNumber, rows
<1>4. ASSUME NEW w \in Workers,
             ReplayPayment(w)
      PROVE  Numbers'
  BY <1>4, NumbersStay DEF ReplayPayment, AnswerWith, HoldsNumber
<1>5. ASSUME NEW w \in Workers,
             AllocateNumber(w)
      PROVE  Numbers'
  BY <1>5, Outcome DEF AllocateNumber, Go, TakeNumber, NumberFree, Candidates, Numbers,
     IsNextNumber, FirstOrderNumber, Placed, NotPlaced, Order, Locks, Apart, HoldsKey,
     HoldsNumber, HoldsCheckout, HoldsWallet, SharesAccount, LocksAccount, InCheckout,
     Requests, Asked, Tills, TypeOK, rows
<1>6. ASSUME NEW w \in Workers,
             LockWallet(w)
      PROVE  Numbers'
  BY <1>6, NumbersStay DEF LockWallet, Go, HoldsNumber, rows
<1>7. ASSUME NEW w \in Workers, NEW o \in Orders,
             CommitOrder(w, o)
      PROVE  Numbers'
  <2>1. pc[w] \in {"commit", "tillCommit"} /\ HoldsNumber(w) /\ IsNextNumber(num[w])
    BY <1>7 DEF CommitOrder, HoldsNumber, Numbers
  <2>2. num[w] > 0
    BY <2>1 DEF IsNextNumber, FirstOrderNumber, Numbers, TypeOK
  <2>3. \A v \in Workers : ~ HoldsNumber(v)'
    BY <1>7, <2>1 DEF CommitOrder, AnswerWith, HoldsNumber, Locks, Apart, TypeOK
  <2>4. \A p \in Orders : IF p = o THEN Placed(p)' /\ orders'[p].number = num[w]
                                    ELSE orders'[p] = orders[p]
    BY <1>7 DEF CommitOrder, Order, Placed, TypeOK
  <2> QED
    BY <2>2, <2>3, <2>4 DEF Numbers, Placed
<1>8. ASSUME NEW w \in Workers,
             Tell(w)
      PROVE  Numbers'
  BY <1>8, NumbersStay DEF Tell, Finish, HoldsNumber, rows
<1>9. ASSUME NEW w \in Workers, NEW c \in Customers \cup {NoCustomer},
             TillSale(w, c)
      PROVE  Numbers'
  BY <1>9, Outcome DEF TillSale, Start, TillOrder, TakeNumber, NumberFree, Candidates,
     Numbers, IsNextNumber, FirstOrderNumber, Placed, NotPlaced, Order, Locks, Apart,
     HoldsKey, HoldsNumber, HoldsCheckout, HoldsWallet, SharesAccount, LocksAccount,
     InCheckout, Requests, TypeOK, rows
<1>10. ASSUME NEW w \in Workers, NEW c \in Customers, NEW credit \in {x.spend : x \in Carts} \ {0},
             TillDebit(w, c, credit)
      PROVE  Numbers'
  BY <1>10, NumbersStay DEF TillDebit, Start, HoldsNumber, rows
<1>11. ASSUME NEW w \in Workers,
             TillNumber(w)
      PROVE  Numbers'
  BY <1>11, Outcome DEF TillNumber, Go, TakeNumber, NumberFree, Candidates, Numbers,
     IsNextNumber, FirstOrderNumber, Placed, NotPlaced, Order, Locks, Apart, HoldsKey,
     HoldsNumber, HoldsCheckout, HoldsWallet, SharesAccount, LocksAccount, InCheckout,
     Requests, Asked, Tills, TypeOK, rows
<1>12. ASSUME NEW w \in Workers, NEW o \in Orders,
             TillCommit(w, o)
      PROVE  Numbers'
  <2>1. pc[w] \in {"commit", "tillCommit"} /\ HoldsNumber(w) /\ IsNextNumber(num[w])
    BY <1>12 DEF TillCommit, HoldsNumber, Numbers
  <2>2. num[w] > 0
    BY <2>1 DEF IsNextNumber, FirstOrderNumber, Numbers, TypeOK
  <2>3. \A v \in Workers : ~ HoldsNumber(v)'
    BY <1>12, <2>1 DEF TillCommit, Finish, HoldsNumber, Locks, Apart, TypeOK
  <2>4. \A p \in Orders : IF p = o THEN Placed(p)' /\ orders'[p].number = num[w]
                                    ELSE orders'[p] = orders[p]
    BY <1>12 DEF TillCommit, Order, Placed, TypeOK
  <2> QED
    BY <2>2, <2>3, <2>4 DEF Numbers, Placed
<1>13. ASSUME NEW w \in Workers, NEW c \in Customers,
             RequestDeletion(w, c)
      PROVE  Numbers'
  BY <1>13, NumbersStay DEF RequestDeletion, Start, HoldsNumber, rows
<1>14. ASSUME NEW w \in Workers,
             LockAccount(w)
      PROVE  Numbers'
  BY <1>14, NumbersStay DEF LockAccount, Go, HoldsNumber, rows
<1>15. ASSUME NEW w \in Workers,
             Retry(w)
      PROVE  Numbers'
  BY <1>15, NumbersStay DEF Retry, Go, HoldsNumber, rows
<1>16. ASSUME NEW w \in Workers,
             Erase(w)
      PROVE  Numbers'
  BY <1>16, NumbersStay DEF Erase, Finish, HoldsNumber
<1>17. ASSUME NEW w \in Workers,
             Fail(w)
      PROVE  Numbers'
  BY <1>17, NumbersStay DEF Fail, Finish, HoldsNumber, TypeOK, rows
<1>18. ASSUME NEW c \in Customers,
             OpenWallet(c)
      PROVE  Numbers'
  BY <1>18, NumbersStay DEF OpenWallet, HoldsNumber
<1>19. ASSUME NEW c \in Customers, NEW n \in 1 .. MaxBalance,
             Credit(c, n)
      PROVE  Numbers'
  BY <1>19, NumbersStay DEF Credit, HoldsNumber
<1>20. ASSUME NEW o \in Orders,
             AgeOrder(o)
      PROVE  Numbers'
  <2>1. Unsold
    BY <1>20, OrderAges
  <2>2. UNCHANGED <<pc, num>>
    BY <1>20 DEF AgeOrder
  <2>3. \A n \in Nat : IsNextNumber(n) => IsNextNumber(n)'
    BY <2>1 DEF Unsold, IsNextNumber
  <2>4. \A v \in Workers : num[v] \in Nat /\ HoldsNumber(v)' = HoldsNumber(v)
    BY <2>2 DEF HoldsNumber, TypeOK
  <2> QED
    BY <2>1, <2>2, <2>3, <2>4 DEF Numbers, Unsold
<1>21. ASSUME NEW o \in Orders, NEW s \in Outcomes,
             CloseOrder(o, s)
      PROVE  Numbers'
  <2>1. Unsold
    BY <1>21, OrderCloses
  <2>2. UNCHANGED <<pc, num>>
    BY <1>21 DEF CloseOrder
  <2>3. \A n \in Nat : IsNextNumber(n) => IsNextNumber(n)'
    BY <2>1 DEF Unsold, IsNextNumber
  <2>4. \A v \in Workers : num[v] \in Nat /\ HoldsNumber(v)' = HoldsNumber(v)
    BY <2>2 DEF HoldsNumber, TypeOK
  <2> QED
    BY <2>1, <2>2, <2>3, <2>4 DEF Numbers, Unsold
<1> QED
  BY <1>1, <1>2, <1>3, <1>4, <1>5, <1>6, <1>7, <1>8, <1>9, <1>10, <1>11, <1>12, <1>13,
     <1>14, <1>15, <1>16, <1>17, <1>18, <1>19, <1>20, <1>21 DEF Next, CheckoutStep,
     TillStep, DeletionStep

\* No step moves the idempotency key of a placed order to somebody else, or uses
\* the key of a request under way.
LEMMA KeysKept ==
  ASSUME TypeOK, Requests, Locks, Accounts, KeysHeld, Next
  PROVE  KeysHeld'
<1>1. ASSUME NEW w \in Workers, NEW c \in Customers, NEW k \in Keys, NEW cart \in Carts,
             PlaceOrder(w, c, k, cart)
      PROVE  KeysHeld'
  BY <1>1, Outcome DEF PlaceOrder, AnswerWith, OwnKey, PaidWith, KeysHeld, KeyRow, NoRow,
     Placed, NotPlaced, Order, Locks, Apart, HoldsKey, HoldsNumber, HoldsCheckout,
     HoldsWallet, SharesAccount, LocksAccount, InCheckout, Requests, Asked, Tills, Deletes,
     TypeOK, rows
<1>2. ASSUME NEW w \in Workers,
             ClaimKey(w)
      PROVE  KeysHeld'
  BY <1>2, Outcome DEF ClaimKey, Go, MayWriteFor, KeyFree, KeysHeld, KeyRow, NoRow, Placed,
     NotPlaced, Order, Locks, Apart, HoldsKey, HoldsNumber, HoldsCheckout, Deletes, rows
<1>3. ASSUME NEW w \in Workers,
             Validate(w)
      PROVE  KeysHeld'
  BY <1>3, Outcome DEF Validate, Go, CheckoutFree, KeysHeld, KeyRow, NoRow, Placed,
     NotPlaced, Order, Locks, Apart, HoldsKey, HoldsNumber, HoldsCheckout, HoldsWallet,
     SharesAccount, LocksAccount, InCheckout, Requests, Asked, Tills, Deletes, rows
<1>4. ASSUME NEW w \in Workers,
             ReplayPayment(w)
      PROVE  KeysHeld'
  BY <1>4, Outcome DEF ReplayPayment, CheckoutFree, OwnPaid, PaidWith, AnswerWith, KeysHeld,
     KeyRow, NoRow, Placed, NotPlaced, Order, Locks, Apart, HoldsKey, HoldsNumber,
     HoldsCheckout, HoldsWallet, SharesAccount, LocksAccount, InCheckout, Requests, Asked,
     Deletes, TypeOK
<1>5. ASSUME NEW w \in Workers,
             AllocateNumber(w)
      PROVE  KeysHeld'
  BY <1>5, Outcome DEF AllocateNumber, Go, TakeNumber, NumberFree, Candidates, KeysHeld,
     KeyRow, NoRow, Placed, NotPlaced, Order, Locks, Apart, HoldsKey, HoldsNumber,
     HoldsCheckout, HoldsWallet, SharesAccount, LocksAccount, InCheckout, Requests, Asked,
     Tills, Deletes, rows
<1>6. ASSUME NEW w \in Workers,
             LockWallet(w)
      PROVE  KeysHeld'
  BY <1>6, Outcome DEF LockWallet, Go, CanSpend, KeysHeld, KeyRow, NoRow, Placed, NotPlaced,
     Order, Locks, Apart, HoldsKey, HoldsNumber, HoldsCheckout, HoldsWallet, SharesAccount,
     LocksAccount, InCheckout, Requests, Asked, Tills, Deletes, rows
<1>7. ASSUME NEW w \in Workers, NEW o \in Orders,
             CommitOrder(w, o)
      PROVE  KeysHeld'
  BY <1>7, Outcome DEF CommitOrder, AnswerWith, KeysHeld, KeyRow, NoRow, Placed, NotPlaced,
     Order, Locks, Apart, HoldsKey, HoldsNumber, HoldsCheckout, HoldsWallet, SharesAccount,
     LocksAccount, InCheckout, Requests, Asked, Deletes, TypeOK
<1>8. ASSUME NEW w \in Workers,
             Tell(w)
      PROVE  KeysHeld'
  BY <1>8, Outcome DEF Tell, Finish, KeysHeld, KeyRow, NoRow, Placed, NotPlaced, Order,
     Locks, Apart, HoldsKey, HoldsNumber, HoldsCheckout, HoldsWallet, SharesAccount,
     LocksAccount, InCheckout, Requests, Asked, Tills, Deletes, rows
<1>9. ASSUME NEW w \in Workers, NEW c \in Customers \cup {NoCustomer},
             TillSale(w, c)
      PROVE  KeysHeld'
  BY <1>9, Outcome DEF TillSale, Start, TillOrder, TakeNumber, NumberFree, Candidates,
     KeysHeld, KeyRow, NoRow, Placed, NotPlaced, Order, Locks, Apart, HoldsKey, HoldsNumber,
     HoldsCheckout, HoldsWallet, SharesAccount, LocksAccount, InCheckout, Requests, Asked,
     Deletes, rows
<1>10. ASSUME NEW w \in Workers, NEW c \in Customers, NEW credit \in {x.spend : x \in Carts} \ {0},
             TillDebit(w, c, credit)
      PROVE  KeysHeld'
  BY <1>10, Outcome DEF TillDebit, Start, TillOrder, MayWriteFor, CanSpend, KeysHeld,
     KeyRow, NoRow, Placed, NotPlaced, Order, Locks, Apart, HoldsKey, HoldsNumber,
     HoldsCheckout, HoldsWallet, SharesAccount, LocksAccount, InCheckout, Requests, Asked,
     Tills, Deletes, rows
<1>11. ASSUME NEW w \in Workers,
             TillNumber(w)
      PROVE  KeysHeld'
  BY <1>11, Outcome DEF TillNumber, Go, TakeNumber, NumberFree, Candidates, KeysHeld,
     KeyRow, NoRow, Placed, NotPlaced, Order, Locks, Apart, HoldsKey, HoldsNumber,
     HoldsCheckout, HoldsWallet, SharesAccount, LocksAccount, InCheckout, Requests, Asked,
     Tills, Deletes, rows
<1>12. ASSUME NEW w \in Workers, NEW o \in Orders,
             TillCommit(w, o)
      PROVE  KeysHeld'
  BY <1>12, Outcome DEF TillCommit, MayWriteFor, Finish, KeysHeld, KeyRow, NoRow, Placed,
     NotPlaced, Order, Locks, Apart, HoldsKey, HoldsNumber, HoldsCheckout, HoldsWallet,
     SharesAccount, InCheckout, Deletes
<1>13. ASSUME NEW w \in Workers, NEW c \in Customers,
             RequestDeletion(w, c)
      PROVE  KeysHeld'
  BY <1>13, Outcome DEF RequestDeletion, Start, Snapshot, NothingOpen, KeysHeld, KeyRow,
     NoRow, Placed, NotPlaced, Order, Locks, Apart, HoldsKey, HoldsNumber, HoldsCheckout,
     HoldsWallet, SharesAccount, LocksAccount, InCheckout, Requests, Asked, Tills, Deletes,
     TypeOK, rows, Request
<1>14. ASSUME NEW w \in Workers,
             LockAccount(w)
      PROVE  KeysHeld'
  BY <1>14, Outcome DEF LockAccount, Go, KeysHeld, KeyRow, NoRow, Placed, NotPlaced, Order,
     Locks, Apart, HoldsKey, HoldsNumber, HoldsCheckout, HoldsWallet, SharesAccount,
     LocksAccount, InCheckout, Requests, Asked, Tills, Deletes, rows
<1>15. ASSUME NEW w \in Workers,
             Retry(w)
      PROVE  KeysHeld'
  BY <1>15, Outcome DEF Retry, Go, Snapshot, NothingOpen, KeysHeld, KeyRow, NoRow, Placed,
     NotPlaced, Order, Locks, Apart, HoldsKey, HoldsNumber, HoldsCheckout, HoldsWallet,
     SharesAccount, LocksAccount, InCheckout, Requests, Asked, Tills, Deletes, rows
<1>16. ASSUME NEW w \in Workers,
             Erase(w)
      PROVE  KeysHeld'
  <2> DEFINE c == req[w].customer
  <2>1. /\ c \in Customers /\ c \notin deleted
        /\ \A k \in snap[w].keys : keys[k].customer = c
        /\ snap[w].keys \subseteq Keys
    BY <1>16 DEF Erase, Requests, Asked, Deletes, Accounts, LocksAccount, KeysHeld, TypeOK
  <2>2. /\ deleted' = deleted \cup {c} /\ UNCHANGED orders
        /\ \A k \in Keys : IF k \in snap[w].keys THEN keys'[k] = NoRow ELSE keys'[k] = keys[k]
        /\ \A v \in Workers \ {w} : pc'[v] = pc[v] /\ req'[v] = req[v] /\ snap'[v] = snap[v]
        /\ pc'[w] = "idle"
    BY <1>16 DEF Erase, Finish, TypeOK
  <2>3. \A v \in Workers : pc'[v] \in InCheckout => keys'[req'[v].key] = NoRow
    BY <2>2 DEF KeysHeld, Requests, Asked, InCheckout
  <2>4. ASSUME NEW p \in Orders, Placed(p), orders[p].key # NoKey
        PROVE  /\ orders[p].customer \in Customers
               /\ \/ orders[p].customer \in deleted \cup {c}
                  \/ keys'[orders[p].key].customer = orders[p].customer
    <3>1. /\ orders[p].key \in Keys /\ orders[p].customer \in Customers
          /\ \/ orders[p].customer \in deleted
             \/ keys[orders[p].key].customer = orders[p].customer
      BY <2>4 DEF KeysHeld, TypeOK
    <3>2. CASE orders[p].key \in snap[w].keys
      BY <2>1, <3>1, <3>2
    <3>3. CASE orders[p].key \notin snap[w].keys
      BY <2>2, <3>1, <3>3
    <3> QED
      BY <3>2, <3>3
  <2>5. ASSUME NEW v \in Workers, pc'[v] \in Deletes, req'[v].customer \notin deleted',
               NEW k \in snap'[v].keys
        PROVE  keys'[k].customer = req'[v].customer
    BY <2>1, <2>2, <2>5 DEF KeysHeld, Deletes, TypeOK
  <2> QED
    BY <2>2, <2>3, <2>4, <2>5 DEF KeysHeld, Placed
<1>17. ASSUME NEW w \in Workers,
             Fail(w)
      PROVE  KeysHeld'
  BY <1>17, Outcome DEF Fail, Finish, KeysHeld, KeyRow, NoRow, Placed, NotPlaced, Order,
     Locks, Apart, HoldsKey, HoldsNumber, HoldsCheckout, HoldsWallet, SharesAccount,
     LocksAccount, InCheckout, Requests, Asked, Tills, Deletes, TypeOK, rows
<1>18. ASSUME NEW c \in Customers,
             OpenWallet(c)
      PROVE  KeysHeld'
  BY <1>18, Outcome DEF OpenWallet, KeysHeld, Placed
<1>19. ASSUME NEW c \in Customers, NEW n \in 1 .. MaxBalance,
             Credit(c, n)
      PROVE  KeysHeld'
  BY <1>19, Outcome DEF Credit, KeysHeld, Placed
<1>20. ASSUME NEW o \in Orders,
             AgeOrder(o)
      PROVE  KeysHeld'
  BY <1>20, Outcome DEF AgeOrder, KeysHeld, Placed
<1>21. ASSUME NEW o \in Orders, NEW s \in Outcomes,
             CloseOrder(o, s)
      PROVE  KeysHeld'
  BY <1>21, Outcome DEF CloseOrder, KeysHeld, Placed
<1> QED
  BY <1>1, <1>2, <1>3, <1>4, <1>5, <1>6, <1>7, <1>8, <1>9, <1>10, <1>11, <1>12, <1>13,
     <1>14, <1>15, <1>16, <1>17, <1>18, <1>19, <1>20, <1>21 DEF Next, CheckoutStep,
     TillStep, DeletionStep

\* No step makes a key, or an answer given, name an order other than the one its
\* request placed.
LEMMA AnswersKept ==
  ASSUME TypeOK, Requests, KeysAnswer, AnswerIsYours, Next
  PROVE  KeysAnswer' /\ AnswerIsYours'
<1>1. ASSUME NEW w \in Workers, NEW c \in Customers, NEW k \in Keys, NEW cart \in Carts,
             PlaceOrder(w, c, k, cart)
      PROVE  KeysAnswer' /\ AnswerIsYours'
  BY <1>1 DEF PlaceOrder, AnswerWith, OwnKey, PaidWith, KeysAnswer, AnswerIsYours, Answers,
     Placed, Order, NotPlaced, KeyRow, Deletes, TypeOK, rows, Request
<1>2. ASSUME NEW w \in Workers,
             ClaimKey(w)
      PROVE  KeysAnswer' /\ AnswerIsYours'
  BY <1>2 DEF ClaimKey, Go, MayWriteFor, KeyFree, KeysAnswer, AnswerIsYours, Answers,
     Placed, rows
<1>3. ASSUME NEW w \in Workers,
             Validate(w)
      PROVE  KeysAnswer' /\ AnswerIsYours'
  BY <1>3 DEF Validate, Go, CheckoutFree, KeysAnswer, AnswerIsYours, Answers, Placed, rows
<1>4. ASSUME NEW w \in Workers,
             ReplayPayment(w)
      PROVE  KeysAnswer' /\ AnswerIsYours'
  <2> DEFINE r == req[w]
  <2>1. PICK p \in OwnPaid(r.customer, r.cart.intent) :
           /\ keys' = [keys EXCEPT ![r.key] = KeyRow(r.customer, r.cart, p)]
           /\ ans' = [ans EXCEPT ![w] = p]
           /\ pc' = [pc EXCEPT ![w] = "answer"]
    BY <1>4 DEF ReplayPayment, AnswerWith
  <2>2. UNCHANGED <<orders, req>> /\ r.cart.intent # NoIntent
    BY <1>4 DEF ReplayPayment
  <2>3. p \in Orders /\ Answers(p, r) /\ Answers(p, Request(r.customer, r.key, r.cart))
    BY <2>1, <2>2 DEF OwnPaid, PaidWith, Answers, Request
  <2>4. KeysAnswer'
    BY <2>1, <2>2, <2>3 DEF KeysAnswer, KeyRow, Answers, Request, Placed
  <2>5. AnswerIsYours'
    BY <2>1, <2>2, <2>3 DEF AnswerIsYours, Answers, Placed, TypeOK
  <2> QED
    BY <2>4, <2>5
<1>5. ASSUME NEW w \in Workers,
             AllocateNumber(w)
      PROVE  KeysAnswer' /\ AnswerIsYours'
  BY <1>5 DEF AllocateNumber, Go, TakeNumber, NumberFree, Candidates, KeysAnswer,
     AnswerIsYours, Answers, Placed, Order, NotPlaced, rows
<1>6. ASSUME NEW w \in Workers,
             LockWallet(w)
      PROVE  KeysAnswer' /\ AnswerIsYours'
  BY <1>6 DEF LockWallet, Go, CanSpend, KeysAnswer, AnswerIsYours, Answers, Placed, rows
<1>7. ASSUME NEW w \in Workers, NEW o \in Orders,
             CommitOrder(w, o)
      PROVE  KeysAnswer' /\ AnswerIsYours'
  BY <1>7 DEF CommitOrder, AnswerWith, KeysAnswer, AnswerIsYours, Answers, Placed, Order,
     NotPlaced, KeyRow, NoRow, InCheckout, Requests, Asked, Tills, Deletes, TypeOK, Request
<1>8. ASSUME NEW w \in Workers,
             Tell(w)
      PROVE  KeysAnswer' /\ AnswerIsYours'
  BY <1>8 DEF Tell, Finish, KeysAnswer, AnswerIsYours, Answers, Placed, Order, NotPlaced,
     KeyRow, NoRow, InCheckout, Requests, Asked, TypeOK, rows
<1>9. ASSUME NEW w \in Workers, NEW c \in Customers \cup {NoCustomer},
             TillSale(w, c)
      PROVE  KeysAnswer' /\ AnswerIsYours'
  BY <1>9 DEF TillSale, Start, TillOrder, TakeNumber, NumberFree, Candidates, KeysAnswer,
     AnswerIsYours, Answers, Placed, rows
<1>10. ASSUME NEW w \in Workers, NEW c \in Customers, NEW credit \in {x.spend : x \in Carts} \ {0},
             TillDebit(w, c, credit)
      PROVE  KeysAnswer' /\ AnswerIsYours'
  BY <1>10 DEF TillDebit, Start, TillOrder, MayWriteFor, CanSpend, KeysAnswer,
     AnswerIsYours, Answers, Placed, Order, NotPlaced, rows
<1>11. ASSUME NEW w \in Workers,
             TillNumber(w)
      PROVE  KeysAnswer' /\ AnswerIsYours'
  BY <1>11 DEF TillNumber, Go, TakeNumber, NumberFree, Candidates, KeysAnswer,
     AnswerIsYours, Answers, Placed, Order, NotPlaced, rows
<1>12. ASSUME NEW w \in Workers, NEW o \in Orders,
             TillCommit(w, o)
      PROVE  KeysAnswer' /\ AnswerIsYours'
  <2>1. UNCHANGED keys /\ \A p \in Orders : Placed(p) => orders'[p] = orders[p]
    BY <1>12 DEF TillCommit, TypeOK
  <2>2. ASSUME NEW p, NEW r, Answers(p, r)
        PROVE  Answers(p, r)'
    BY <2>1, <2>2 DEF Answers, Placed
  <2>3. ASSUME NEW v \in Workers, pc'[v] = "answer"
        PROVE  pc[v] = "answer" /\ ans'[v] = ans[v] /\ req'[v] = req[v]
    BY <1>12, <2>3 DEF TillCommit, Finish, TypeOK
  <2> QED
    BY <2>1, <2>2, <2>3 DEF KeysAnswer, AnswerIsYours
<1>13. ASSUME NEW w \in Workers, NEW c \in Customers,
             RequestDeletion(w, c)
      PROVE  KeysAnswer' /\ AnswerIsYours'
  BY <1>13 DEF RequestDeletion, Start, Snapshot, NothingOpen, KeysAnswer, AnswerIsYours,
     Answers, Placed, rows
<1>14. ASSUME NEW w \in Workers,
             LockAccount(w)
      PROVE  KeysAnswer' /\ AnswerIsYours'
  BY <1>14 DEF LockAccount, Go, KeysAnswer, AnswerIsYours, Answers, Placed, rows
<1>15. ASSUME NEW w \in Workers,
             Retry(w)
      PROVE  KeysAnswer' /\ AnswerIsYours'
  BY <1>15 DEF Retry, Go, Snapshot, NothingOpen, KeysAnswer, AnswerIsYours, Answers, Placed,
     rows
<1>16. ASSUME NEW w \in Workers,
             Erase(w)
      PROVE  KeysAnswer' /\ AnswerIsYours'
  BY <1>16 DEF Erase, Stale, Finish, KeysAnswer, AnswerIsYours, Answers, Placed
<1>17. ASSUME NEW w \in Workers,
             Fail(w)
      PROVE  KeysAnswer' /\ AnswerIsYours'
  BY <1>17 DEF Fail, Finish, KeysAnswer, AnswerIsYours, Answers, Placed, rows
<1>18. ASSUME NEW c \in Customers,
             OpenWallet(c)
      PROVE  KeysAnswer' /\ AnswerIsYours'
  BY <1>18 DEF OpenWallet, KeysAnswer, AnswerIsYours, Answers, Placed
<1>19. ASSUME NEW c \in Customers, NEW n \in 1 .. MaxBalance,
             Credit(c, n)
      PROVE  KeysAnswer' /\ AnswerIsYours'
  BY <1>19 DEF Credit, KeysAnswer, AnswerIsYours, Answers, Placed
<1>20. ASSUME NEW o \in Orders,
             AgeOrder(o)
      PROVE  KeysAnswer' /\ AnswerIsYours'
  <2>1. Unsold /\ UNCHANGED <<keys, pc, req, ans>>
    BY <1>20, OrderAges DEF AgeOrder
  <2>2. ASSUME NEW p, NEW r, Answers(p, r)
        PROVE  Answers(p, r)'
    BY <2>1, <2>2 DEF Unsold, Answers
  <2> QED
    BY <2>1, <2>2 DEF KeysAnswer, AnswerIsYours
<1>21. ASSUME NEW o \in Orders, NEW s \in Outcomes,
             CloseOrder(o, s)
      PROVE  KeysAnswer' /\ AnswerIsYours'
  <2>1. Unsold /\ UNCHANGED <<keys, pc, req, ans>>
    BY <1>21, OrderCloses DEF CloseOrder
  <2>2. ASSUME NEW p, NEW r, Answers(p, r)
        PROVE  Answers(p, r)'
    BY <2>1, <2>2 DEF Unsold, Answers
  <2> QED
    BY <2>1, <2>2 DEF KeysAnswer, AnswerIsYours
<1> QED
  BY <1>1, <1>2, <1>3, <1>4, <1>5, <1>6, <1>7, <1>8, <1>9, <1>10, <1>11, <1>12, <1>13,
     <1>14, <1>15, <1>16, <1>17, <1>18, <1>19, <1>20, <1>21 DEF Next, CheckoutStep,
     TillStep, DeletionStep

\* The sets that the limits count are finite.
LEMMA Counted ==
  /\ IsFiniteSet(Workers) /\ IsFiniteSet(UsingCode) /\ IsFiniteSet(Redeemed)
  /\ \A c : IsFiniteSet(Recent(c))
  /\ Cardinality(Workers) \in Nat /\ Cardinality(UsingCode) \in Nat
  /\ Cardinality(Redeemed) \in Nat /\ \A c : Cardinality(Recent(c)) \in Nat
  /\ Cardinality(UsingCode) <= Cardinality(Workers)
<1>1. /\ UsingCode \subseteq Workers /\ Redeemed \subseteq Orders
      /\ \A c : Recent(c) \subseteq Orders
  BY DEF UsingCode, Redeemed, Recent, Of
<1>2. /\ IsFiniteSet(Workers) /\ IsFiniteSet(UsingCode) /\ IsFiniteSet(Redeemed)
      /\ \A c : IsFiniteSet(Recent(c))
      /\ Cardinality(UsingCode) <= Cardinality(Workers)
  BY <1>1, FiniteAssumption, FS_Subset
<1> QED
  BY <1>2, FS_CardinalityType

\* Nothing new is sold, and nobody is allowed more: the limits stay.
Quiet ==
    /\ Unsold
    /\ \A v \in Workers : pc'[v] \in Allowed => pc[v] \in Allowed /\ req'[v] = req[v]

\* A step that sells nothing and allows nobody more keeps every limit.
LEMMA QuietKeeps ==
  ASSUME Quiet, Allowances
  PROVE  Allowances'
<1>1. /\ \A c : Recent(c)' \subseteq Recent(c) /\ LiveFirst(c)' \subseteq LiveFirst(c)
      /\ \A c : (Redeemed \cap Of(c))' = Redeemed \cap Of(c)
      /\ Redeemed' = Redeemed /\ UsingCode' \subseteq UsingCode
  BY DEF Quiet, Unsold, Recent, Of, LiveFirst, Redeemed, UsingCode
<1>2. /\ \A c : Cardinality(Recent(c)') <= Cardinality(Recent(c)) /\ Cardinality(Recent(c)') \in Nat
      /\ Cardinality(UsingCode') <= Cardinality(UsingCode) /\ Cardinality(UsingCode') \in Nat
  BY <1>1, Counted, FS_Subset, FS_CardinalityType
<1>3. \A w \in Workers : pc'[w] \in Allowed => StillAllowed(w)'
  <2>1. SUFFICES ASSUME NEW w \in Workers, pc'[w] \in Allowed
                 PROVE  StillAllowed(w)'
    OBVIOUS
  <2>2. StillAllowed(w) /\ req'[w] = req[w]
    BY <2>1 DEF Quiet, Allowances
  <2>3. Cardinality(Recent(req[w].customer)') < Allowance
    BY <1>2, <2>2, Counted, SalesAssumption DEF StillAllowed, AllowanceLeft
  <2> QED
    BY <1>1, <2>2, <2>3 DEF StillAllowed, AllowanceLeft
<1>4. CustomerLimits'
  <2>1. \A c \in Customers : Cardinality(Recent(c)') <= Allowance
    BY <1>2, Counted, SalesAssumption DEF Allowances, CustomerLimits
  <2>2. \A o, p \in Redeemed : orders'[o].customer = orders'[p].customer => o = p
    BY DEF Allowances, CustomerLimits, Quiet, Unsold, Redeemed
  <2>3. ASSUME NEW o \in Orders, NEW p \in Orders, Placed(o)', Placed(p)',
               orders'[o].customer = orders'[p].customer, o # p
        PROVE  (\/ orders[o].cart.deal # "first" \/ ~ Live(o)
                \/ orders[p].cart.deal # "first" \/ ~ Live(p))'
    BY <2>3 DEF Allowances, CustomerLimits, Quiet, Unsold
  <2> QED
    BY <1>1, <2>1, <2>2, <2>3 DEF Allowances, CustomerLimits
<1> QED
  BY <1>1, <1>2, <1>3, <1>4, Counted, SalesAssumption DEF Allowances

\* A request that passes the checks is counted under the code's limit.
LEMMA ValidateKeeps ==
  ASSUME TypeOK, Allowances, NEW w \in Workers, Validate(w)
  PROVE  Allowances'
<1>1. /\ UNCHANGED <<orders, req>> /\ MayOrder(req[w]) /\ pc[w] = "check"
      /\ pc' = [pc EXCEPT ![w] = "number"]
  BY DEF Validate, Go, rows
<1>2. /\ \A c : Recent(c)' = Recent(c) /\ LiveFirst(c)' = LiveFirst(c) /\ Of(c)' = Of(c)
      /\ Redeemed' = Redeemed /\ CustomerLimits' = CustomerLimits
  BY <1>1 DEF Recent, Of, LiveFirst, Live, Redeemed, Placed, CustomerLimits
<1>3. StillAllowed(w)
  BY <1>1 DEF MayOrder, StillAllowed, FirstOrderCustomer, LiveFirst, CodeUsable
<1>4. \A v \in Workers : pc'[v] \in Allowed => StillAllowed(v)'
  BY <1>1, <1>2, <1>3 DEF Allowances, StillAllowed, AllowanceLeft, TypeOK
<1>5. Cardinality(Redeemed) + Cardinality(UsingCode') <= CodeLimit - 1 + Cardinality(Workers)
  <2>1. Cardinality(UsingCode') <= Cardinality(Workers) /\ Cardinality(UsingCode') \in Nat
    <3>1. UsingCode' \subseteq Workers
      BY DEF UsingCode
    <3> QED
      BY <3>1, FiniteAssumption, FS_Subset, FS_CardinalityType
  <2>2. CASE req[w].cart.deal = "code"
    <3>1. Cardinality(Redeemed) < CodeLimit
      BY <1>1, <2>2 DEF MayOrder, CodeUsable
    <3> QED
      BY <2>1, <3>1, Counted, SalesAssumption
  <2>3. CASE req[w].cart.deal # "code"
    <3>1. UsingCode' = UsingCode
      BY <1>1, <2>3 DEF UsingCode, Allowed, TypeOK
    <3> QED
      BY <3>1 DEF Allowances
  <2> QED
    BY <2>2, <2>3
<1> QED
  BY <1>2, <1>4, <1>5 DEF Allowances

\* A sale at the till counts for no limit.
LEMMA TillKeeps ==
  ASSUME TypeOK, Requests, Allowances, NEW w \in Workers, NEW o \in Orders, TillCommit(w, o)
  PROVE  Allowances'
<1>1. /\ ~ Placed(o) /\ Placed(o)' /\ ~ orders'[o].recent /\ orders'[o].cart.deal = "none"
      /\ \A p \in Orders \ {o} : orders'[p] = orders[p]
  BY DEF TillCommit, Placed, Order, Requests, Asked, Tills, TypeOK
<1>2. \A v \in Workers : pc'[v] \in Allowed => v # w /\ pc[v] \in Allowed /\ req'[v] = req[v]
  BY DEF TillCommit, Finish, Allowed, TypeOK
<1>3. /\ \A c : Recent(c)' = Recent(c) /\ LiveFirst(c)' = LiveFirst(c)
      /\ \A c : (Redeemed \cap Of(c))' = Redeemed \cap Of(c)
      /\ Redeemed' = Redeemed /\ UsingCode' \subseteq UsingCode
  BY <1>1, <1>2 DEF Recent, Of, LiveFirst, Live, Redeemed, UsingCode, Placed
<1>4. Cardinality(UsingCode') <= Cardinality(UsingCode) /\ Cardinality(UsingCode') \in Nat
  BY <1>3, Counted, FS_Subset, FS_CardinalityType
<1>5. \A v \in Workers : pc'[v] \in Allowed => StillAllowed(v)'
  BY <1>2, <1>3 DEF Allowances, StillAllowed, AllowanceLeft
<1>6. CustomerLimits'
  <2>1. \A p, q \in Redeemed : orders'[p].customer = orders'[q].customer => p = q
    BY <1>1 DEF Allowances, CustomerLimits, Redeemed
  <2>2. ASSUME NEW p \in Orders, NEW q \in Orders, Placed(p)', Placed(q)',
               orders'[p].customer = orders'[q].customer, p # q
        PROVE  (\/ orders[p].cart.deal # "first" \/ ~ Live(p)
                \/ orders[q].cart.deal # "first" \/ ~ Live(q))'
    BY <1>1, <2>2 DEF Allowances, CustomerLimits, Placed, Live
  <2> QED
    BY <1>3, <2>1, <2>2 DEF Allowances, CustomerLimits
<1> QED
  BY <1>3, <1>4, <1>5, <1>6, Counted, SalesAssumption DEF Allowances

\* An order of the checkout uses up what the check of its request found.
LEMMA CommitKeeps ==
  ASSUME TypeOK, Requests, Locks, Allowances, NEW w \in Workers, NEW o \in Orders, CommitOrder(w, o)
  PROVE  Allowances'
<1> DEFINE r == req[w]
           c == r.customer
<1>1. /\ pc[w] = "commit" /\ ~ Placed(o) /\ Placed(o)' /\ c \in Customers /\ UNCHANGED req
      /\ orders'[o].customer = c /\ orders'[o].cart = r.cart
      /\ \A p \in Orders \ {o} : orders'[p] = orders[p]
      /\ pc' = [pc EXCEPT ![w] = "answer"]
  BY DEF CommitOrder, AnswerWith, Placed, Order, Requests, Asked, InCheckout, TypeOK
<1>2. StillAllowed(w)
  BY <1>1 DEF Allowances, Allowed
<1>3. /\ \A d : d # c => Recent(d)' = Recent(d) /\ LiveFirst(d)' = LiveFirst(d)
                         /\ (Redeemed \cap Of(d))' = Redeemed \cap Of(d)
      /\ Recent(c)' \subseteq Recent(c) \cup {o} /\ o \notin Recent(c)
      /\ Redeemed' = IF r.cart.deal = "code" THEN Redeemed \cup {o} ELSE Redeemed
      /\ o \notin Redeemed
  BY <1>1 DEF Recent, Of, LiveFirst, Live, Redeemed, Placed
<1>4. \A v \in Workers : pc'[v] \in Allowed => v # w /\ pc[v] \in Allowed /\ req[v].customer # c
  BY <1>1 DEF Locks, Apart, HoldsCheckout, InCheckout, Allowed, TypeOK
<1>5. \A v \in Workers : pc'[v] \in Allowed => StillAllowed(v)'
  BY <1>1, <1>3, <1>4 DEF Allowances, StillAllowed, AllowanceLeft
<1>6. Cardinality(Redeemed') + Cardinality(UsingCode') <= CodeLimit - 1 + Cardinality(Workers)
  <2>1. CASE r.cart.deal = "code"
    <3>1. UsingCode' = UsingCode \ {w} /\ w \in UsingCode /\ Redeemed' = Redeemed \cup {o}
      BY <1>1, <1>3, <2>1 DEF UsingCode, Allowed, TypeOK
    <3>2. Cardinality(UsingCode') = Cardinality(UsingCode) - 1
      BY <3>1, Counted, FS_RemoveElement
    <3>3. Cardinality(Redeemed') = Cardinality(Redeemed) + 1
      BY <1>3, <3>1, Counted, FS_AddElement
    <3> QED
      BY <3>2, <3>3, Counted, SalesAssumption DEF Allowances
  <2>2. CASE r.cart.deal # "code"
    <3>1. UsingCode' = UsingCode /\ Redeemed' = Redeemed
      BY <1>1, <1>3, <2>2 DEF UsingCode, Allowed, TypeOK
    <3> QED
      BY <3>1 DEF Allowances
  <2> QED
    BY <2>1, <2>2
<1>7. CustomerLimits'
  <2>1. ASSUME NEW d \in Customers
        PROVE  Cardinality(Recent(d)') <= Allowance
    <3>1. CASE d = c
      <4>1. /\ IsFiniteSet(Recent(c) \cup {o})
            /\ Cardinality(Recent(c) \cup {o}) = Cardinality(Recent(c)) + 1
        BY <1>3, Counted, FS_AddElement
      <4>2. Cardinality(Recent(c)') <= Cardinality(Recent(c)) + 1 /\ Cardinality(Recent(c)') \in Nat
        BY <1>3, <4>1, FS_Subset, FS_CardinalityType
      <4>3. Cardinality(Recent(c)) < Allowance
        BY <1>2 DEF StillAllowed, AllowanceLeft
      <4>4. Recent(d)' = Recent(c)'
        BY <1>1, <3>1
      <4> QED
        BY <4>2, <4>3, <4>4, Counted, SalesAssumption
    <3>2. CASE d # c
      BY <1>3, <3>2 DEF Allowances, CustomerLimits
    <3> QED
      BY <3>1, <3>2
  <2>2. ASSUME NEW p \in Redeemed', NEW q \in Redeemed', orders'[p].customer = orders'[q].customer
        PROVE  p = q
    <3>1. r.cart.deal = "code" => \A x \in Redeemed : orders[x].customer # c
      BY <1>2 DEF StillAllowed, Redeemed, Of
    <3>2. \A x \in Redeemed : x \in Orders \ {o} /\ orders'[x] = orders[x]
      BY <1>1, <1>3 DEF Redeemed
    <3> QED
      BY <1>1, <1>3, <2>2, <3>1, <3>2 DEF Allowances, CustomerLimits
  <2>3. ASSUME NEW p \in Orders, NEW q \in Orders, Placed(p)', Placed(q)',
               orders'[p].customer = orders'[q].customer, p # q
        PROVE  (\/ orders[p].cart.deal # "first" \/ ~ Live(p)
                \/ orders[q].cart.deal # "first" \/ ~ Live(q))'
    <3>1. \A x \in Orders \ {o} : Placed(x)' = Placed(x) /\ Live(x)' = Live(x)
      BY <1>1 DEF Placed, Live
    <3>2. r.cart.deal = "first" => \A x \in Orders :
             Live(x) /\ orders[x].customer = c => orders[x].cart.deal # "first"
      BY <1>2 DEF StillAllowed, LiveFirst, Of, Live
    <3>3. CASE p # o /\ q # o
      BY <1>1, <2>3, <3>1, <3>3 DEF Allowances, CustomerLimits
    <3>4. CASE p = o \/ q = o
      BY <1>1, <2>3, <3>1, <3>2, <3>4
    <3> QED
      BY <3>3, <3>4
  <2>4. Cardinality(Redeemed') <= CodeLimit - 1 + Cardinality(Workers)
    <3>1. Cardinality(Redeemed') \in Nat /\ Cardinality(UsingCode') \in Nat
      <4>1. Redeemed' \subseteq Orders /\ UsingCode' \subseteq Workers
        BY DEF Redeemed, UsingCode
      <4> QED
        BY <4>1, FiniteAssumption, FS_Subset, FS_CardinalityType
    <3> QED
      BY <1>6, <3>1, Counted, SalesAssumption
  <2> QED
    BY <2>1, <2>2, <2>3, <2>4 DEF CustomerLimits
<1> QED
  BY <1>5, <1>6, <1>7 DEF Allowances


\* No step lets a customer have more live orders, first-order deals or uses of a
\* code than the checks allow.
LEMMA AllowancesKept ==
  ASSUME TypeOK, Requests, Locks, Allowances, Next
  PROVE  Allowances'
<1>1. ASSUME NEW w \in Workers, NEW c \in Customers, NEW k \in Keys, NEW cart \in Carts,
             PlaceOrder(w, c, k, cart)
      PROVE  Allowances'
  BY <1>1, QuietKeeps DEF PlaceOrder, AnswerWith, OwnKey, PaidWith, Quiet, Unsold, Placed,
     Live, Allowed, TypeOK, rows
<1>2. ASSUME NEW w \in Workers,
             ClaimKey(w)
      PROVE  Allowances'
  BY <1>2, QuietKeeps DEF ClaimKey, Go, MayWriteFor, Quiet, Unsold, Placed, Live, Allowed,
     rows
<1>3. ASSUME NEW w \in Workers,
             Validate(w)
      PROVE  Allowances'
  BY <1>3, ValidateKeeps
<1>4. ASSUME NEW w \in Workers,
             ReplayPayment(w)
      PROVE  Allowances'
  BY <1>4, QuietKeeps DEF ReplayPayment, CheckoutFree, OwnPaid, PaidWith, AnswerWith, Quiet,
     Unsold, Placed, Live, Allowed
<1>5. ASSUME NEW w \in Workers,
             AllocateNumber(w)
      PROVE  Allowances'
  BY <1>5, QuietKeeps DEF AllocateNumber, Go, TakeNumber, NumberFree, Candidates, Quiet,
     Unsold, Placed, Live, Allowed, rows
<1>6. ASSUME NEW w \in Workers,
             LockWallet(w)
      PROVE  Allowances'
  BY <1>6, QuietKeeps DEF LockWallet, Go, CanSpend, Quiet, Unsold, Placed, Live, Allowed,
     rows
<1>7. ASSUME NEW w \in Workers, NEW o \in Orders,
             CommitOrder(w, o)
      PROVE  Allowances'
  BY <1>7, CommitKeeps
<1>8. ASSUME NEW w \in Workers,
             Tell(w)
      PROVE  Allowances'
  BY <1>8, QuietKeeps DEF Tell, Finish, Quiet, Unsold, Placed, Live, Allowed, rows
<1>9. ASSUME NEW w \in Workers, NEW c \in Customers \cup {NoCustomer},
             TillSale(w, c)
      PROVE  Allowances'
  BY <1>9, QuietKeeps DEF TillSale, Start, TillOrder, TakeNumber, NumberFree, Candidates,
     Quiet, Unsold, Placed, Live, Allowed, rows
<1>10. ASSUME NEW w \in Workers, NEW c \in Customers, NEW credit \in {x.spend : x \in Carts} \ {0},
             TillDebit(w, c, credit)
      PROVE  Allowances'
  BY <1>10, QuietKeeps DEF TillDebit, Start, TillOrder, MayWriteFor, CanSpend, Quiet,
     Unsold, Placed, Live, Allowed, rows
<1>11. ASSUME NEW w \in Workers,
             TillNumber(w)
      PROVE  Allowances'
  BY <1>11, QuietKeeps DEF TillNumber, Go, TakeNumber, NumberFree, Candidates, Quiet,
     Unsold, Placed, Live, Allowed, rows
<1>12. ASSUME NEW w \in Workers, NEW o \in Orders,
             TillCommit(w, o)
      PROVE  Allowances'
  BY <1>12, TillKeeps
<1>13. ASSUME NEW w \in Workers, NEW c \in Customers,
             RequestDeletion(w, c)
      PROVE  Allowances'
  BY <1>13, QuietKeeps DEF RequestDeletion, Start, Snapshot, Quiet, Unsold, Placed, Live,
     Allowed, rows
<1>14. ASSUME NEW w \in Workers,
             LockAccount(w)
      PROVE  Allowances'
  BY <1>14, QuietKeeps DEF LockAccount, Go, Quiet, Unsold, Placed, Live, Allowed, rows
<1>15. ASSUME NEW w \in Workers,
             Retry(w)
      PROVE  Allowances'
  BY <1>15, QuietKeeps DEF Retry, Go, Snapshot, Quiet, Unsold, Placed, Live, Allowed, rows
<1>16. ASSUME NEW w \in Workers,
             Erase(w)
      PROVE  Allowances'
  BY <1>16, QuietKeeps DEF Erase, Stale, Finish, Quiet, Unsold, Placed, Live, Allowed
<1>17. ASSUME NEW w \in Workers,
             Fail(w)
      PROVE  Allowances'
  BY <1>17, QuietKeeps DEF Fail, Finish, Quiet, Unsold, Placed, Live, Allowed, TypeOK, rows
<1>18. ASSUME NEW c \in Customers,
             OpenWallet(c)
      PROVE  Allowances'
  BY <1>18, QuietKeeps DEF OpenWallet, Quiet, Unsold, Placed, Live
<1>19. ASSUME NEW c \in Customers, NEW n \in 1 .. MaxBalance,
             Credit(c, n)
      PROVE  Allowances'
  BY <1>19, QuietKeeps DEF Credit, Quiet, Unsold, Placed, Live
<1>20. ASSUME NEW o \in Orders,
             AgeOrder(o)
      PROVE  Allowances'
  BY <1>20, OrderAges, QuietKeeps DEF AgeOrder, Quiet
<1>21. ASSUME NEW o \in Orders, NEW s \in Outcomes,
             CloseOrder(o, s)
      PROVE  Allowances'
  BY <1>21, OrderCloses, QuietKeeps DEF CloseOrder, Quiet
<1> QED
  BY <1>1, <1>2, <1>3, <1>4, <1>5, <1>6, <1>7, <1>8, <1>9, <1>10, <1>11, <1>12, <1>13,
     <1>14, <1>15, <1>16, <1>17, <1>18, <1>19, <1>20, <1>21 DEF Next, CheckoutStep,
     TillStep, DeletionStep

-----------------------------------------------------------------------------
(* The invariant holds, and the properties with it *)

\* The invariant holds of the empty database.
LEMMA Starts ==
  ASSUME Init
  PROVE  IInv
<1>1. TypeOK
  BY DEF Init, TypeOK, NotPlaced, Order, NoCart, Cart, Deals, NoRow, KeyRow, NoWallet,
     Wallet, Phases, NoRequest, Request, RequestType, NoSnapshot
<1>2. \A o \in Orders : ~ Placed(o) /\ orders[o] = NotPlaced
  BY DEF Init, Placed, NotPlaced, Order
<1>3. \A w \in Workers : pc[w] = "idle" /\ ~ snap[w].clear
  BY DEF Init, NoSnapshot
<1>4. Requests /\ Locks /\ Accounts /\ Purses
  BY <1>3 DEF Requests, Asked, Tills, Deletes, Locks, Apart, Accounts, Purses, InCheckout,
     HoldsKey, HoldsCheckout, HoldsNumber, HoldsWallet, SharesAccount, LocksAccount
<1>5. Rows
  BY <1>2, <1>3 DEF Init, Rows, Numbers, KeysHeld, KeysAnswer, AnswerIsYours, InCheckout,
     HoldsNumber, Deletes
<1>6. Allowances
  <2>1. Redeemed = {} /\ UsingCode = {} /\ \A c : Recent(c) = {}
    BY <1>2, <1>3 DEF Redeemed, UsingCode, Recent, Of, Allowed
  <2>2. CustomerLimits
    BY <1>2, <2>1, FS_EmptySet, Counted, SalesAssumption DEF CustomerLimits
  <2> QED
    BY <1>3, <2>1, <2>2, FS_EmptySet, Counted, SalesAssumption DEF Allowances, Allowed
<1> QED
  BY <1>1, <1>4, <1>5, <1>6 DEF IInv

\* The invariant is about nothing but the variables.
LEMMA Stutters ==
  ASSUME IInv, UNCHANGED vars
  PROVE  IInv'
<1> USE DEF vars
<1>1. TypeOK'
  BY DEF IInv, TypeOK
<1>2. Requests' /\ Locks' /\ Accounts' /\ Purses'
  BY DEF IInv, Requests, Asked, Locks, Apart, Accounts, Purses, HoldsKey, HoldsCheckout,
     HoldsNumber, HoldsWallet, SharesAccount, LocksAccount
<1>3. Rows'
  BY DEF IInv, Rows, Numbers, KeysHeld, KeysAnswer, AnswerIsYours, Answers, HoldsNumber,
     IsNextNumber, Placed
<1>4. Allowances'
  <2>1. Quiet
    BY DEF Quiet, Unsold, Placed, Live
  <2> QED
    BY <2>1, QuietKeeps DEF IInv
<1> QED
  BY <1>1, <1>2, <1>3, <1>4 DEF IInv

\* In every reachable state the account data are consistent with each other and
\* with what the requests under way rely on: CheckoutService, PosService and
\* AccountDeletionService together.
THEOREM Consistency == Spec => []IInv
<1>1. ASSUME IInv, [Next]_vars
      PROVE  IInv'
  <2>1. CASE Next
    BY <1>1, <2>1, TypesKept, RequestsKept, LocksKept, AccountsKept, PursesKept,
       NumbersKept, KeysKept, AnswersKept, AllowancesKept DEF IInv, Rows
  <2>2. CASE UNCHANGED vars
    BY <1>1, <2>2, Stutters
  <2> QED
    BY <1>1, <2>1, <2>2
<1> QED
  BY <1>1, Starts, PTL DEF Spec

\* Rows are well typed; above all, no wallet is overdrawn by checkouts and the
\* till together.
THEOREM WalletsNeverOverdrawn == Spec => []TypeOK
BY Consistency, PTL DEF IInv

\* A replayed, retried or concurrent checkout is answered with its own order.
THEOREM AnswersAreYours == Spec => []AnswerIsYours
<1>1. IInv => AnswerIsYours
  BY DEF IInv, Rows
<1> QED
  BY <1>1, Consistency, PTL

\* The advisory lock keeps each customer within the allowance and his deals.
THEOREM LimitsHold == Spec => []CustomerLimits
<1>1. IInv => CustomerLimits
  BY DEF IInv, Allowances
<1> QED
  BY <1>1, Consistency, PTL

-----------------------------------------------------------------------------
(* The database keeps the cashier's book *)

Stays == UNCHANGED <<Book, Balances, deleted>>

\* The orders of the book are the ones the database has placed.
LEMMA BookOfPlaced ==
  ASSUME TypeOK, Numbers
  PROVE  \A o \in Orders : o \in Shop!Sold <=> Placed(o)
BY DEF Shop!Sold, Book, Numbers, NotPlaced, Order

\* A commit of the checkout or of the till is one sale.
LEMMA SaleIsSold ==
  ASSUME TypeOK, Requests, Purses, Numbers, KeysHeld, Accounts,
         NEW w \in Workers, NEW o \in Orders, pc[w] \in {"commit", "tillCommit"},
         ~ Placed(o), IndexesAllow(w),
         req[w].customer \notin deleted,
         NEW recent \in BOOLEAN,
         orders' = [orders EXCEPT ![o] =
             Order("OPEN", req[w].customer, num[w], req[w].key, req[w].cart, recent)],
         Spend(req[w].customer, req[w].cart.spend), UNCHANGED deleted
  PROVE  Shop!Sell(o)
<1> DEFINE r == req[w]
           s == [customer |-> r.customer, number |-> num[w], key |-> r.key, cart |-> r.cart]
<1>1. Book' = [Book EXCEPT ![o] = s] /\ Book'[o] = s
  BY DEF Book, Order, TypeOK
<1>2. IsNextNumber(num[w]) /\ num[w] > 0
  BY DEF Numbers, HoldsNumber, IsNextNumber, FirstOrderNumber, TypeOK
<1>3. s # [customer |-> NoCustomer, number |-> 0, key |-> NoKey, cart |-> NoCart]
  BY <1>2
<1>4. Shop!IsNext(num[w])
  BY <1>2, BookOfPlaced DEF Shop!IsNext, Shop!Sold, IsNextNumber, Book
<1>5. Shop!Fresh(s)
  <2>1. ASSUME r.key # NoKey, NEW p \in Shop!Sold, Book[p].customer = r.customer, Book[p].key = r.key
        PROVE  FALSE
    <3>1. pc[w] = "commit" /\ keys[r.key] = NoRow
      BY <2>1 DEF Requests, Asked, Tills, KeysHeld, InCheckout
    <3>2. p \in Orders /\ Placed(p) /\ orders[p].key = r.key /\ orders[p].customer = r.customer
      BY <2>1, BookOfPlaced DEF Shop!Sold, Book
    <3> QED
      BY <2>1, <3>1, <3>2, Outcome DEF KeysHeld, NoRow, KeyRow
  <2>2. ASSUME r.cart.intent # NoIntent, NEW p \in Shop!Sold
        PROVE  Book[p].cart.intent # r.cart.intent
    BY <2>2, BookOfPlaced DEF IndexesAllow, PaidWith, Book, Shop!Sold
  <2> QED
    BY <2>1, <2>2 DEF Shop!Fresh
<1>6. Shop!Pay(r.customer, r.cart.spend)
  <2>1. r.cart.spend \in Nat
    BY DEF TypeOK, RequestType, Cart
  <2>2. CASE r.customer \in Customers
    <3>1. r.cart.spend <= wallets[r.customer].balance
      BY <2>2, CommitPays
    <3>2. Paid(r.customer, r.cart.spend)
      BY <2>1, <3>1, SpendTakes
    <3> QED
      BY <2>2, <3>1, <3>2 DEF Shop!Pay, Balances, Paid
  <2>3. CASE r.customer \notin Customers
    <3>1. r.cart.spend = 0
      BY <2>1, <2>3 DEF Requests, Asked, Tills, InCheckout
    <3>2. wallets' = wallets
      BY <2>3 DEF Spend
    <3> QED
      BY <2>3, <3>1, <3>2 DEF Shop!Pay, Balances
  <2> QED
    BY <2>2, <2>3
<1>7. Book[o] = [customer |-> NoCustomer, number |-> 0, key |-> NoKey, cart |-> NoCart]
  BY DEF Book, Numbers, NotPlaced, Order
<1> HIDE DEF s
<1>8. s.customer = r.customer /\ s.number = num[w] /\ s.cart = r.cart
  BY DEF s
<1> QED
  BY <1>1, <1>3, <1>4, <1>5, <1>6, <1>7, <1>8 DEF Shop!Sell

\* An erasure is a departure: the wallet it deletes is empty.
LEMMA ErasureIsLeave ==
  ASSUME TypeOK, Requests, Accounts, NEW w \in Workers, Erase(w)
  PROVE  Shop!Leave(req[w].customer)
<1> DEFINE c == req[w].customer
<1>1. /\ c \in Customers /\ c \notin deleted /\ UNCHANGED orders
      /\ deleted' = deleted \cup {c}
  BY DEF Erase, Requests, Asked, Deletes, Accounts, LocksAccount
<1>2. \A d \in Customers : wallets'[d].balance = wallets[d].balance
  <2>1. CASE snap[w].wallet.open
    <3>1. wallets[c] = snap[w].wallet /\ wallets' = [wallets EXCEPT ![c] = NoWallet]
      BY <2>1 DEF Erase, Stale
    <3>2. wallets[c].balance = 0
      BY <3>1 DEF Erase, Requests, Asked
    <3> QED
      BY <1>1, <3>1, <3>2 DEF NoWallet, TypeOK
  <2>2. CASE ~ snap[w].wallet.open
    BY <2>2 DEF Erase
  <2> QED
    BY <2>1, <2>2
<1>3. UNCHANGED <<Book, Balances>>
  BY <1>1, <1>2 DEF Book, Balances
<1> QED
  BY <1>1, <1>3 DEF Shop!Leave

\* A credit is a deposit.
LEMMA CreditIsDeposit ==
  ASSUME TypeOK, NEW c \in Customers, NEW n \in 1 .. MaxBalance, Credit(c, n)
  PROVE  Shop!Deposit(c)
<1>1. /\ wallets[c].balance \in Nat /\ n \in Nat /\ n > 0 /\ c \notin deleted
      /\ UNCHANGED <<orders, deleted>>
  BY Outcome DEF Credit, MayWriteFor, TypeOK, Wallet
<1>2. \A d \in Customers : wallets'[d].balance = IF d = c THEN wallets[c].balance + n
                                                 ELSE wallets[d].balance
  BY DEF Credit, TypeOK
<1>3. Balances' = [Balances EXCEPT ![c] = Balances'[c]] /\ Balances'[c] > Balances[c]
  <2>1. Balances' = [d \in Customers |-> IF d = c THEN wallets[c].balance + n ELSE wallets[d].balance]
    BY <1>2 DEF Balances
  <2>2. Balances[c] = wallets[c].balance /\ Balances'[c] = wallets[c].balance + n
    BY <2>1 DEF Balances
  <2>3. Balances' = [Balances EXCEPT ![c] = Balances'[c]]
    BY <2>1, <2>2 DEF Balances
  <2> QED
    BY <1>1, <2>2, <2>3
<1>4. UNCHANGED Book
  BY <1>1 DEF Book
<1> QED
  BY <1>1, <1>3, <1>4 DEF Shop!Deposit

\* A step that leaves orders, wallets and accounts alone leaves the book alone.
LEMMA Unchanging ==
  ASSUME UNCHANGED <<orders, wallets, deleted>>
  PROVE  Stays
BY DEF Stays, Book, Balances

\* A step that sells nothing leaves the book alone.
LEMMA UnsoldStays ==
  ASSUME Unsold, UNCHANGED <<wallets, deleted>>
  PROVE  Stays
BY DEF Stays, Book, Balances, Unsold

\* Every step is a step of the cashier, or none.
LEMMA StepsAreSales ==
  ASSUME TypeOK, Requests, Accounts, Purses, Numbers, KeysHeld, Next
  PROVE  Shop!Next \/ Stays
<1>1. ASSUME NEW w \in Workers, NEW c \in Customers, NEW k \in Keys, NEW cart \in Carts,
             PlaceOrder(w, c, k, cart)
      PROVE  Shop!Next \/ Stays
  BY <1>1, Unchanging DEF PlaceOrder, rows
<1>2. ASSUME NEW w \in Workers,
             ClaimKey(w)
      PROVE  Shop!Next \/ Stays
  BY <1>2, Unchanging DEF ClaimKey, rows
<1>3. ASSUME NEW w \in Workers,
             Validate(w)
      PROVE  Shop!Next \/ Stays
  BY <1>3, Unchanging DEF Validate, Go, CheckoutFree, rows
<1>4. ASSUME NEW w \in Workers,
             ReplayPayment(w)
      PROVE  Shop!Next \/ Stays
  BY <1>4, Unchanging DEF ReplayPayment
<1>5. ASSUME NEW w \in Workers,
             AllocateNumber(w)
      PROVE  Shop!Next \/ Stays
  BY <1>5, Unchanging DEF AllocateNumber, rows
<1>6. ASSUME NEW w \in Workers,
             LockWallet(w)
      PROVE  Shop!Next \/ Stays
  BY <1>6, Unchanging DEF LockWallet, Go, CanSpend, rows
<1>7. ASSUME NEW w \in Workers, NEW o \in Orders,
             CommitOrder(w, o)
      PROVE  Shop!Next \/ Stays
  <2>1. req[w].customer \in Customers /\ SharesAccount(w, req[w].customer)
    BY <1>7 DEF CommitOrder, Requests, Asked, InCheckout, SharesAccount
  <2>2. Shop!Sell(o)
    BY <1>7, <2>1, SaleIsSold DEF CommitOrder, Accounts
  <2> QED
    BY <2>2 DEF Shop!Next
<1>8. ASSUME NEW w \in Workers,
             Tell(w)
      PROVE  Shop!Next \/ Stays
  BY <1>8, Unchanging DEF Tell, Finish, rows
<1>9. ASSUME NEW w \in Workers, NEW c \in Customers \cup {NoCustomer},
             TillSale(w, c)
      PROVE  Shop!Next \/ Stays
  BY <1>9, Unchanging DEF TillSale, rows
<1>10. ASSUME NEW w \in Workers, NEW c \in Customers, NEW credit \in {x.spend : x \in Carts} \ {0},
             TillDebit(w, c, credit)
      PROVE  Shop!Next \/ Stays
  BY <1>10, Unchanging DEF TillDebit, rows
<1>11. ASSUME NEW w \in Workers,
             TillNumber(w)
      PROVE  Shop!Next \/ Stays
  BY <1>11, Unchanging DEF TillNumber, rows
<1>12. ASSUME NEW w \in Workers, NEW o \in Orders,
             TillCommit(w, o)
      PROVE  Shop!Next \/ Stays
  <2>1. req[w].customer \notin deleted
    BY <1>12 DEF TillCommit, MayWriteFor, TypeOK
  <2>2. orders' = [orders EXCEPT ![o] =
             Order("OPEN", req[w].customer, num[w], req[w].key, req[w].cart, FALSE)]
    BY <1>12 DEF TillCommit, Requests, Asked, Tills
  <2>3. Shop!Sell(o)
    BY <1>12, <2>1, <2>2, SaleIsSold DEF TillCommit
  <2> QED
    BY <2>3 DEF Shop!Next
<1>13. ASSUME NEW w \in Workers, NEW c \in Customers,
             RequestDeletion(w, c)
      PROVE  Shop!Next \/ Stays
  BY <1>13, Unchanging DEF RequestDeletion, rows
<1>14. ASSUME NEW w \in Workers,
             LockAccount(w)
      PROVE  Shop!Next \/ Stays
  BY <1>14, Unchanging DEF LockAccount, Go, rows
<1>15. ASSUME NEW w \in Workers,
             Retry(w)
      PROVE  Shop!Next \/ Stays
  BY <1>15, Unchanging DEF Retry, rows
<1>16. ASSUME NEW w \in Workers,
             Erase(w)
      PROVE  Shop!Next \/ Stays
  <2>1. req[w].customer \in Customers
    BY <1>16 DEF Erase, Requests, Asked, Deletes
  <2> QED
    BY <1>16, <2>1, ErasureIsLeave DEF Shop!Next
<1>17. ASSUME NEW w \in Workers,
             Fail(w)
      PROVE  Shop!Next \/ Stays
  BY <1>17, Unchanging DEF Fail, Finish, rows
<1>18. ASSUME NEW c \in Customers,
             OpenWallet(c)
      PROVE  Shop!Next \/ Stays
  <2>1. Paid(c, 0) /\ UNCHANGED <<orders, deleted>> /\ \A d \in Customers : wallets[d].balance \in Nat
    BY <1>18, WalletOpens DEF OpenWallet, TypeOK, Wallet
  <2> QED
    BY <2>1 DEF Paid, Stays, Book, Balances
<1>19. ASSUME NEW c \in Customers, NEW n \in 1 .. MaxBalance,
             Credit(c, n)
      PROVE  Shop!Next \/ Stays
  BY <1>19, CreditIsDeposit DEF Shop!Next
<1>20. ASSUME NEW o \in Orders,
             AgeOrder(o)
      PROVE  Shop!Next \/ Stays
  BY <1>20, OrderAges, UnsoldStays DEF AgeOrder
<1>21. ASSUME NEW o \in Orders, NEW s \in Outcomes,
             CloseOrder(o, s)
      PROVE  Shop!Next \/ Stays
  BY <1>21, OrderCloses, UnsoldStays DEF CloseOrder
<1> QED
  BY <1>1, <1>2, <1>3, <1>4, <1>5, <1>6, <1>7, <1>8, <1>9, <1>10, <1>11, <1>12, <1>13,
     <1>14, <1>15, <1>16, <1>17, <1>18, <1>19, <1>20, <1>21 DEF Next, CheckoutStep,
     TillStep, DeletionStep

\* Each order is sold once, to somebody who has not left, under the next number,
\* for money that was there: all requests together keep the book of Sales.
THEOREM ShopKeepsTheBook == Spec => ImplementsSales
<1>1. Init => Shop!Init
  BY DEF Init, Shop!Init, Book, Balances, NotPlaced, Order, NoWallet
<1>2. ASSUME IInv, [Next]_vars
      PROVE  [Shop!Next]_<<Book, Balances, deleted>>
  <2>1. CASE Next
    BY <1>2, <2>1, StepsAreSales DEF IInv, Rows, Stays
  <2>2. CASE UNCHANGED vars
    BY <2>2, Unchanging DEF vars, Stays
  <2> QED
    BY <1>2, <2>1, <2>2
<1> QED
  BY <1>1, <1>2, Consistency, PTL DEF Spec, ImplementsSales, Shop!Spec

=============================================================================
