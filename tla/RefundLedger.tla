----------------------------- MODULE RefundLedger -----------------------------
(***************************************************************************)
(* The money of one order: its order_payments ledger, the columns of the   *)
(* order row rolled up from it, and its refund_requests. Payment writers   *)
(* hold the order row (SELECT ... FOR UPDATE) from their reads to their    *)
(* commit; deciding a refund holds the request row from its guarded update *)
(* to its commit; creating a refund request holds nothing.                 *)
(***************************************************************************)
EXTENDS Naturals, FiniteSetsExt

CONSTANTS
    Requests,   \* refund_request ids (bounds how many are ever made)
    Keys,       \* idempotency keys of the collecting devices
    Workers,    \* requests the API serves at the same time
    Price,      \* what the order costs when it is placed
    Amounts,    \* amounts that staff and customers enter
    MaxHeld,    \* bound: the most that AUTH and VOID corrections add up to
    Enabled,    \* the endpoints and faults an instance exercises
    NoRequest, NoKey, NoWorker

ASSUME MoneyAssumption ==
    /\ Price \in Nat
    /\ Amounts \subseteq Nat \ {0}
    /\ MaxHeld \in Nat
    /\ NoRequest \notin Requests /\ NoKey \notin Keys /\ NoWorker \notin Workers

\* ADJUSTMENT rows count as CAPTURE everywhere.
PaymentType == {"CAPTURE", "REFUND", "AUTH", "VOID"}
Summary == {"UNPAID", "PENDING", "PARTIALLY_PAID", "PAID", "PARTIALLY_REFUNDED",
            "REFUNDED", "VOIDED"}
\* DELIVERED stands for PICKED_UP too, NO_SHOW for the three no-show outcomes.
OrderStatus == {"OPEN", "DELIVERED", "NO_SHOW", "CANCELLED"}
Refundable == {"DELIVERED", "CANCELLED"}
ClaimStatus == {"NONE", "PENDING", "ISSUED", "REJECTED"}

VARIABLES
    status,     \* orders.status
    payable,    \* orders.final_payable_cents
    owner,      \* orders.customer_user_id, or "guest" (no account, or a deleted one)
    ledger,     \* order_payments: the sum of its SUCCESS rows, by type
    account,    \* orders.net_paid_amount_cents, payment_status_summary
    rows,       \* order_payments: per idempotency key, the rows carrying it
    claim,      \* refund_requests
    posted,     \* per refund request, the REFUND rows made for it
    credited,   \* per refund request, the wallet credits made for it
    orderLock,  \* the transaction holding the order row
    claimLock,  \* the transaction holding a refund request row
    job         \* the request each worker is serving

vars == <<status, payable, owner, ledger, account, rows, claim, posted, credited,
          orderLock, claimLock, job>>
money == <<status, payable, owner, ledger, account, rows, claim, posted, credited>>

Claimed == {"PENDING", "ISSUED"}      \* nothing ever writes APPROVED

-----------------------------------------------------------------------------
(* The arithmetic of payment-policy.ts *)

Less(a, b) == IF a > b THEN a - b ELSE 0

Collected(l) == Less(l["CAPTURE"], l["REFUND"])
\* Mutant: a cancelled order still has its balance due.
OutstandingAlways(s, l, p) == Less(p, l["CAPTURE"])

Outstanding(s, l, p) == IF s = "CANCELLED" THEN 0 ELSE Less(p, l["CAPTURE"])

\* Mutant: a value the summary column does not have.
RollupPartial(l, p) ==
    IF l["CAPTURE"] >= p THEN "PAID"
    ELSE IF l["CAPTURE"] > 0 THEN "PARTIAL" ELSE "UNPAID"

Rollup(l, p) ==
    LET c == l["CAPTURE"] r == l["REFUND"] IN
    IF l["VOID"] > 0 /\ c = 0 THEN "VOIDED"
    ELSE IF r > 0 THEN IF r >= c THEN "REFUNDED" ELSE "PARTIALLY_REFUNDED"
    ELSE IF c >= p THEN "PAID"
    ELSE IF c > 0 THEN "PARTIALLY_PAID"
    ELSE IF l["AUTH"] > 0 THEN "PENDING" ELSE "UNPAID"

AccountOf(l, p) == [net |-> Collected(l), summary |-> Rollup(l, p)]

Total(S) == MapThenSumSet(LAMBDA r : claim[r].amount, S)
ClaimedCents == Total({r \in Requests : claim[r].status \in Claimed})

-----------------------------------------------------------------------------
(* A request in flight *)

Idle == [op |-> "none", phase |-> "idle"]
\* What a payment writer reads of the order once it holds its row.
NothingRead == [status |-> "OPEN", payable |-> 0, ledger |-> [t \in PaymentType |-> 0],
                replay |-> FALSE]
\* Requests that write the ledger, and requests about a refund request.
LedgerJob(op, t, a, k, ok) ==
    [op |-> op, phase |-> "lock", request |-> NoRequest, amount |-> a, type |-> t,
     key |-> k, ok |-> ok, seen |-> NothingRead]
RefundJob(op, phase, r, a) ==
    [op |-> op, phase |-> phase, request |-> r, amount |-> a, type |-> "REFUND",
     key |-> NoKey, ok |-> TRUE, seen |-> NothingRead]

DiscountJob(p) == [LedgerJob("discount", "CAPTURE", p, NoKey, TRUE) EXCEPT !.phase = "price"]

Start(w, j) == job[w] = Idle /\ job' = [job EXCEPT ![w] = j]
Finish(w) == job' = [job EXCEPT ![w] = Idle]
Unlock(w) ==
    /\ orderLock' = IF orderLock = w THEN NoWorker ELSE orderLock
    /\ claimLock' = [r \in Requests |-> IF claimLock[r] = w THEN NoWorker ELSE claimLock[r]]

Fresh(r) ==
    /\ claim[r].status = "NONE"
    /\ \A w \in Workers : job[w] # Idle => job[w].request # r

-----------------------------------------------------------------------------
(* Arrivals *)

Collect(w, k, a, ok) ==
    /\ "collect" \in Enabled
    /\ Start(w, LedgerJob("collect", "CAPTURE", a, k, ok))
    /\ UNCHANGED <<money, orderLock, claimLock>>

\* What AUTH and VOID rows add up to, those being written included (MaxHeld).
Held == ledger["AUTH"] + ledger["VOID"]
        + MapThenSumSet(LAMBDA w : job[w].amount,
                        {w \in Workers : job[w] # Idle /\ job[w].type \in {"AUTH", "VOID"}})

\* A manual ledger correction by an admin; REFUND is refused.
CorrectLedger(w, t, a) ==
    /\ IF t = "CAPTURE" THEN "capture" \in Enabled
       ELSE "hold" \in Enabled /\ Held + a <= MaxHeld
    /\ Start(w, LedgerJob("payment", t, a, NoKey, TRUE))
    /\ UNCHANGED <<money, orderLock, claimLock>>

\* A manual discount: the order is read without a lock, and the price it is to
\* have is computed from that.
Discount(w, a) ==
    /\ "discount" \in Enabled
    /\ status # "CANCELLED"
    /\ Start(w, DiscountJob(Less(payable, a)))
    /\ UNCHANGED <<money, orderLock, claimLock>>

\* The order closes otherwise; no money moves.
CloseOrder(s) ==
    /\ "close" \in Enabled
    /\ status = "OPEN"
    /\ orderLock = NoWorker
    /\ s \in {"DELIVERED", "NO_SHOW"}
    /\ status' = s
    /\ UNCHANGED <<payable, owner, ledger, account, rows, claim, posted, credited,
                   orderLock, claimLock, job>>

\* The commit of a cancellation; its handler goes on to createForCancelledOrder.
CancelOrder(w, r) ==
    /\ "cancel" \in Enabled
    /\ status = "OPEN"
    /\ orderLock = NoWorker
    /\ Fresh(r)
    /\ status' = "CANCELLED"
    /\ Start(w, RefundJob("auto", "payments", r, 0))
    /\ UNCHANGED <<payable, owner, ledger, account, rows, claim, posted, credited,
                   orderLock, claimLock>>

\* createRefundRequest: the cap is checked here, the row is made later.
CapAllows(a) == a + ClaimedCents <= payable

RequestRefund(w, r, a) ==
    /\ "request" \in Enabled
    /\ status \in Refundable
    /\ CapAllows(a)
    /\ Fresh(r)
    /\ Start(w, RefundJob("request", "create", r, a))
    /\ UNCHANGED <<money, orderLock, claimLock>>

\* The tablet's request looks at neither the status nor the cap.
KdsRequestRefund(w, r, a) ==
    /\ "kdsRequest" \in Enabled
    /\ Fresh(r)
    /\ Start(w, RefundJob("request", "create", r, a))
    /\ UNCHANGED <<money, orderLock, claimLock>>

\* approveAndIssue up to its claim: cash and original payment check what was
\* collected, store credit needs an account.
Approve(w, r, op) ==
    /\ "approve" \in Enabled
    /\ claim[r].status = "PENDING"
    /\ IF op = "credit" THEN owner = "customer"
       ELSE claim[r].amount <= Collected(ledger)
    /\ Start(w, RefundJob(op, "claim", r, claim[r].amount))
    /\ UNCHANGED <<money, orderLock, claimLock>>

Reject(w, r) ==
    /\ "reject" \in Enabled
    /\ claim[r].status = "PENDING"
    /\ Start(w, RefundJob("reject", "claim", r, 0))
    /\ UNCHANGED <<money, orderLock, claimLock>>

-----------------------------------------------------------------------------
(* Deciding a refund request *)

\* Mutant: the claim is an update by id, without the where on PENDING.
StillPendingUnchecked(r) == claim[r].status # "NONE"

StillPending(r) == claim[r].status = "PENDING"

\* The guarded updateMany waits for the row, and then finds it PENDING or not.
ClaimRefund(w) ==
    LET r == job[w].request IN
    /\ job[w].phase = "claim"
    /\ job[w].op # "reject"
    /\ claimLock[r] = NoWorker
    /\ StillPending(r)
    /\ claimLock' = [claimLock EXCEPT ![r] = w]
    /\ job' = [job EXCEPT ![w].phase = IF job[w].op = "credit" THEN "credit" ELSE "lock"]
    /\ UNCHANGED <<money, orderLock>>

RejectRefund(w) ==
    LET r == job[w].request IN
    /\ job[w].phase = "claim"
    /\ job[w].op = "reject"
    /\ claimLock[r] = NoWorker
    /\ StillPending(r)
    /\ claim' = [claim EXCEPT ![r].status = "REJECTED"]
    /\ Finish(w)
    /\ UNCHANGED <<status, payable, owner, ledger, account, rows, posted, credited,
                   orderLock, claimLock>>

AlreadyDecided(w) ==
    LET r == job[w].request IN
    /\ job[w].phase = "claim"
    /\ claimLock[r] = NoWorker
    /\ ~ StillPending(r)
    /\ Finish(w)
    /\ UNCHANGED <<money, orderLock, claimLock>>

\* The wallet credit and the claim commit together.
CreditWallet(w) ==
    LET r == job[w].request IN
    /\ job[w].phase = "credit"
    /\ credited' = [credited EXCEPT ![r] = @ + 1]
    /\ claim' = [claim EXCEPT ![r].status = "ISSUED"]
    /\ Unlock(w)
    /\ Finish(w)
    /\ UNCHANGED <<status, payable, owner, ledger, account, rows, posted>>

-----------------------------------------------------------------------------
(* Writing the ledger *)

\* Mutant: the order row is read without FOR UPDATE.
OrderFreeAlways == TRUE

OrderFree == orderLock = NoWorker

LockOrder(w) ==
    /\ job[w].phase = "lock"
    /\ OrderFree
    /\ orderLock' = w
    /\ job' = [job EXCEPT ![w] =
                  [job[w] EXCEPT !.phase = "post",
                                 !.seen = [status |-> status, payable |-> payable,
                                           ledger |-> ledger,
                                           replay |-> /\ job[w].op = "collect"
                                                      /\ rows[job[w].key] > 0]]]
    /\ UNCHANGED <<money, claimLock>>

Owing(seen) == Outstanding(seen.status, seen.ledger, seen.payable)

\* Mutant: a retried confirmation is taken for a new one.
AcceptsReplays(j) ==
    LET owed == Owing(j.seen) IN
    IF j.op = "collect" THEN j.seen.status # "CANCELLED" /\ (j.ok => j.amount <= owed)
    ELSE IF j.op = "refund" THEN j.amount <= Collected(j.seen.ledger)
    ELSE j.type = "CAPTURE" => j.amount <= owed

\* Mutant: a refund relies on the check made before the order was locked.
AcceptsUncheckedRefund(j) ==
    LET owed == Owing(j.seen) IN
    IF j.op = "collect"
    THEN ~ j.seen.replay /\ j.seen.status # "CANCELLED" /\ (j.ok => j.amount <= owed)
    ELSE IF j.op = "refund" THEN TRUE
    ELSE j.type = "CAPTURE" => j.amount <= owed

\* What the transaction checks on the locked order before it inserts its row.
Accepts(j) ==
    LET owed == Owing(j.seen) IN
    IF j.op = "collect"
    THEN ~ j.seen.replay /\ j.seen.status # "CANCELLED" /\ (j.ok => j.amount <= owed)
    ELSE IF j.op = "refund" THEN j.amount <= Collected(j.seen.ledger)
    ELSE j.type = "CAPTURE" => j.amount <= owed

With(l, t, a) == [l EXCEPT ![t] = @ + a]

\* The row is inserted, the order's columns are rolled up from the rows read
\* plus this one, and a refund's claim commits with them.
PostPayment(w) ==
    LET j == job[w] IN
    /\ j.phase = "post"
    /\ Accepts(j)
    /\ IF j.ok
       THEN /\ ledger' = With(ledger, j.type, j.amount)
            /\ account' = AccountOf(With(j.seen.ledger, j.type, j.amount), j.seen.payable)
       ELSE UNCHANGED <<ledger, account>>
    /\ rows' = IF j.op = "collect" THEN [rows EXCEPT ![j.key] = @ + 1] ELSE rows
    /\ posted' = IF j.op = "refund" THEN [posted EXCEPT ![j.request] = @ + 1] ELSE posted
    /\ claim' = IF j.op = "refund" THEN [claim EXCEPT ![j.request].status = "ISSUED"]
                ELSE claim
    /\ Unlock(w)
    /\ Finish(w)
    /\ UNCHANGED <<status, payable, owner, credited>>

\* A replay answers with the row it finds; everything else rolls back, a
\* refund's claim included.
RefusePayment(w) ==
    /\ job[w].phase = "post"
    /\ ~ Accepts(job[w])
    /\ Unlock(w)
    /\ Finish(w)
    /\ UNCHANGED money

\* The discount's update by id waits for the row and writes the price computed
\* before, whatever the order's price and status are by now; the columns
\* rolled up from the ledger are not computed again.
WritePrice(w) ==
    /\ job[w].phase = "price"
    /\ OrderFree
    /\ payable' = job[w].amount
    /\ Finish(w)
    /\ UNCHANGED <<status, owner, ledger, account, rows, claim, posted, credited,
                   orderLock, claimLock>>

-----------------------------------------------------------------------------
(* createForCancelledOrder: no row is locked, whatever its comment says *)

\* Every SUCCESS row counts, AUTH and VOID included.
NetSigned == Less(ledger["CAPTURE"] + ledger["AUTH"] + ledger["VOID"], ledger["REFUND"])

ReadPayments(w) ==
    /\ job[w].phase = "payments"
    /\ job' = [job EXCEPT ![w] = IF NetSigned = 0 THEN Idle
                                 ELSE [job[w] EXCEPT !.phase = "claims",
                                                     !.amount = NetSigned]]
    /\ UNCHANGED <<money, orderLock, claimLock>>

Remaining(net) == Less(net, ClaimedCents)

ReadClaims(w) ==
    LET remaining == Remaining(job[w].amount) IN
    /\ job[w].phase = "claims"
    /\ \/ remaining = 0 /\ Finish(w)
       \/ /\ remaining \in 1 .. job[w].amount
          /\ job' = [job EXCEPT ![w] = [job[w] EXCEPT !.phase = "create",
                                                     !.amount = remaining]]
    /\ UNCHANGED <<money, orderLock, claimLock>>

CreateClaim(w) ==
    /\ job[w].phase = "create"
    /\ claim' = [claim EXCEPT ![job[w].request] =
                   [status |-> "PENDING", amount |-> job[w].amount]]
    /\ Finish(w)
    /\ UNCHANGED <<status, payable, owner, ledger, account, rows, posted, credited,
                   orderLock, claimLock>>

\* The process dies: an open transaction rolls back, its locks are freed.
Crash(w) ==
    /\ "crash" \in Enabled
    /\ job[w] # Idle
    /\ Unlock(w)
    /\ Finish(w)
    /\ UNCHANGED money

-----------------------------------------------------------------------------
\* Online payments capture at checkout, POS cash at the counter; every other
\* order starts with no SUCCESS row (POS card orders are PENDING).
Init ==
    /\ status = "OPEN"
    /\ payable = Price
    /\ owner \in {"customer", "guest"}
    /\ \E c \in {0, Price} :
          /\ ledger = [t \in PaymentType |-> IF t = "CAPTURE" THEN c ELSE 0]
          /\ account \in [net : {c}, summary : IF c > 0 THEN {"PAID"}
                                               ELSE {"UNPAID", "PENDING"}]
    /\ rows = [k \in Keys |-> 0]
    /\ claim = [r \in Requests |-> [status |-> "NONE", amount |-> 0]]
    /\ posted = [r \in Requests |-> 0]
    /\ credited = [r \in Requests |-> 0]
    /\ orderLock = NoWorker
    /\ claimLock = [r \in Requests |-> NoWorker]
    /\ job = [w \in Workers |-> Idle]

Arrive(w) ==
    \/ \E k \in Keys, a \in Amounts, ok \in BOOLEAN : Collect(w, k, a, ok)
    \/ \E t \in {"CAPTURE", "AUTH", "VOID"}, a \in Amounts : CorrectLedger(w, t, a)
    \/ \E a \in Amounts : Discount(w, a)
    \/ \E r \in Requests : CancelOrder(w, r)
    \/ \E r \in Requests, a \in Amounts : RequestRefund(w, r, a)
    \/ \E r \in Requests, a \in Amounts : KdsRequestRefund(w, r, a)
    \/ \E r \in Requests, op \in {"refund", "credit"} : Approve(w, r, op)
    \/ \E r \in Requests : Reject(w, r)

Progress(w) ==
    \/ ClaimRefund(w)
    \/ RejectRefund(w)
    \/ AlreadyDecided(w)
    \/ CreditWallet(w)
    \/ LockOrder(w)
    \/ PostPayment(w)
    \/ RefusePayment(w)
    \/ WritePrice(w)
    \/ ReadPayments(w)
    \/ ReadClaims(w)
    \/ CreateClaim(w)

Next == \/ \E s \in {"DELIVERED", "NO_SHOW"} : CloseOrder(s)
        \/ \E w \in Workers : Arrive(w) \/ Progress(w) \/ Crash(w)

Spec == Init /\ [][Next]_vars
-----------------------------------------------------------------------------
(* Types *)

Seen == [status : OrderStatus, payable : Nat, ledger : [PaymentType -> Nat], replay : BOOLEAN]

JobRow == [op : {"collect", "payment", "refund", "credit", "reject", "request", "auto",
                 "discount"},
           phase : {"claim", "lock", "post", "credit", "payments", "claims", "create",
                    "price"},
           request : Requests \cup {NoRequest}, amount : Nat, type : PaymentType,
           key : Keys \cup {NoKey}, ok : BOOLEAN, seen : Seen]

\* Every row has the columns and values its table allows.
TypeOK ==
    /\ status \in OrderStatus
    /\ payable \in Nat
    /\ owner \in {"customer", "guest"}
    /\ ledger \in [PaymentType -> Nat]
    /\ account \in [net : Nat, summary : Summary]
    /\ rows \in [Keys -> Nat]
    /\ claim \in [Requests -> [status : ClaimStatus, amount : Nat]]
    /\ posted \in [Requests -> Nat]
    /\ credited \in [Requests -> Nat]
    /\ orderLock \in Workers \cup {NoWorker}
    /\ claimLock \in [Requests -> Workers \cup {NoWorker}]
    /\ job \in [Workers -> JobRow \cup {Idle}]

-----------------------------------------------------------------------------
(* Safety *)

\* However collections, corrections, discounts and refunds interleave, no more
\* is taken than the order cost when it was placed and no more is given back
\* than was taken.
LedgerNeverOverdrawn ==
    ledger["REFUND"] <= ledger["CAPTURE"] /\ ledger["CAPTURE"] <= Price

\* What the order shows as net paid is what its rows say.
NetTellsTheLedger == account.net = Collected(ledger)

\* The columns rolled up from the ledger are those of all its rows, at the
\* price in force when the last of them was written: no rollup is computed from
\* rows or a price another transaction has changed meanwhile. A later discount
\* does not touch them.
RollupTellsTheLedger ==
    /\ []NetTellsTheLedger
    /\ [][UNCHANGED <<ledger, account>> \/ account' = AccountOf(ledger', payable)]_vars

\* "a refund request can never show ISSUED without its matching ledger entry",
\* nor have one, or a second one, otherwise: one wallet credit or one REFUND
\* row per issued request, none for any other.
IssuedIsAccounted ==
    \A r \in Requests :
        posted[r] + credited[r] = IF claim[r].status = "ISSUED" THEN 1 ELSE 0

\* A confirmation retried with the same idempotency key, at the same time or
\* later, is recorded once.
OneRowPerKey == \A k \in Keys : rows[k] <= 1

\* Money is taken only from an order that is not cancelled, and only up to the
\* price in force: a collection or correction in flight does not outrun the
\* cancellation, so what createForCancelledOrder reads after it is all there
\* will be, nor a discount written before its row.
TakenAsDue ==
    [][ledger'["CAPTURE"] > ledger["CAPTURE"]
         => status # "CANCELLED" /\ ledger'["CAPTURE"] <= payable]_vars

\* A decision is never overwritten by a late one.
DecidedIsFinal ==
    [][\A r \in Requests :
          claim[r].status \in {"ISSUED", "REJECTED"} => claim'[r] = claim[r]]_vars

Settled == \A w \in Workers : job[w] = Idle
Owed == Less(Collected(ledger), Total({r \in Requests : credited[r] > 0}))

\* "when a cancelled order has a remaining refundable balance, open a PENDING
\* refund_request": once the handlers are done, what was collected on a
\* cancelled order and not given back has been asked for.
CancelledBalanceClaimed ==
    Settled /\ status = "CANCELLED"
        => Owed <= Total({r \in Requests : claim[r].status = "PENDING"})

-----------------------------------------------------------------------------
(* Refinement: what all endpoints promise together *)

\* A refund request with what was paid for it.
HowPaid(r) ==
    IF posted[r] > 0 THEN "money" ELSE IF credited[r] > 0 THEN "credit" ELSE "no"

Refunds == [r \in Requests |-> [status |-> claim[r].status, amount |-> claim[r].amount,
                                paid |-> HowPaid(r)]]

Money == INSTANCE OrderMoney WITH
            price <- payable, taken <- ledger["CAPTURE"], given <- ledger["REFUND"], refund <- Refunds

\* All payments and decisions, however they interleave and fail, come to one
\* cash box kept with one hand: each is booked in one step or not at all, a
\* refund at the amount that was asked for, and no decision is revised.
ImplementsMoney == Money!Spec

-----------------------------------------------------------------------------
(* What a request in flight may rely on: the inductive invariant *)

Issues(j) == j.op \in {"refund", "credit"}

\* The transaction has claimed its refund request, or the order, and not
\* ended yet.
HoldsClaim(j) == Issues(j) /\ j.phase # "claim"
HoldsOrder(j) == j.phase = "post"

PhasesOK(j) ==
    /\ j.op \in {"collect", "payment"} => j.phase \in {"lock", "post"}
    /\ j.op = "refund" => j.phase \in {"claim", "lock", "post"}
    /\ j.op = "credit" => j.phase \in {"claim", "credit"}
    /\ j.op = "reject" => j.phase = "claim"
    /\ j.op \in {"request", "auto"} => j.phase \in {"payments", "claims", "create"}
    /\ j.op = "discount" => j.phase = "price"

\* What a request in flight names: a key, a refund request of its own (not made
\* yet while it is being created), a payment row of its type.
NamesOK(j) ==
    /\ j.op = "collect" => j.key \in Keys /\ j.type = "CAPTURE"
    /\ j.op = "refund" => j.type = "REFUND" /\ j.ok
    /\ j.op = "payment" => j.type # "REFUND" /\ j.ok
    /\ j.op \in {"refund", "credit", "reject"} =>
          j.request \in Requests /\ claim[j.request].status # "NONE"
    /\ j.op \in {"request", "auto"} => j.request \in Requests /\ claim[j.request].status = "NONE"
    /\ j.op = "discount" => j.amount <= Price

\* From its guarded update to its commit a decision holds a PENDING request;
\* from its reads to its commit a payment writer holds the order, whose ledger
\* still is the one it read.
RequestOK(w, j) ==
    /\ PhasesOK(j)
    /\ NamesOK(j)
    /\ HoldsClaim(j) => claimLock[j.request] = w /\ StillPending(j.request)
    /\ HoldsOrder(j) => /\ orderLock = w
                        /\ j.seen.status = status /\ j.seen.payable = payable
                        /\ j.seen.ledger = ledger
                        /\ j.seen.replay = (j.op = "collect" /\ rows[j.key] > 0)

\* Two requests in flight never make the same refund request.
DistinctNewClaims ==
    \A v, w \in Workers :
        /\ v # w
        /\ job[v] # Idle /\ job[w] # Idle
        /\ job[v].op \in {"request", "auto"} /\ job[w].op \in {"request", "auto"}
        => job[v].request # job[w].request

RequestsInv ==
    /\ \A w \in Workers : job[w] # Idle => RequestOK(w, job[w])
    /\ DistinctNewClaims

\* A refund under way gives back what was asked for.
AmountsAgree ==
    \A w \in Workers :
        job[w] # Idle /\ job[w].op = "refund"
        => job[w].amount = claim[job[w].request].amount

MoneyInv ==
    /\ TypeOK
    /\ RequestsInv
    /\ payable <= Price
    /\ LedgerNeverOverdrawn
    /\ NetTellsTheLedger
    /\ IssuedIsAccounted
    /\ OneRowPerKey
=============================================================================
