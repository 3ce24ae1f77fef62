-------------------------- MODULE RefundLedgerProofs --------------------------
(***************************************************************************)
(* Theorems of RefundLedger, for every price, every set of amounts, refund *)
(* requests, keys and workers, and every choice of enabled endpoints.      *)
(***************************************************************************)
EXTENDS RefundLedger, TLAPS

-----------------------------------------------------------------------------
(* The arithmetic *)

LEMMA LessFacts ==
    ASSUME NEW a \in Nat, NEW b \in Nat
    PROVE  /\ Less(a, b) \in Nat
           /\ b <= a => Less(a, b) = a - b
           /\ \A n \in Nat : n <= Less(a, b) /\ n > 0 => b + n <= a
BY DEF Less

LEMMA AccountType ==
    ASSUME NEW l \in [PaymentType -> Nat], NEW p \in Nat
    PROVE  AccountOf(l, p) \in [net : Nat, summary : Summary]
<1>1. l["CAPTURE"] \in Nat /\ l["REFUND"] \in Nat
  BY DEF PaymentType
<1>2. Collected(l) \in Nat
  BY <1>1, LessFacts DEF Collected
<1>3. Rollup(l, p) \in Summary
  BY DEF Rollup, Summary
<1> QED BY <1>2, <1>3 DEF AccountOf

LEMMA WithFacts ==
    ASSUME NEW l \in [PaymentType -> Nat], NEW t \in PaymentType, NEW a \in Nat
    PROVE  /\ With(l, t, a) \in [PaymentType -> Nat]
           /\ With(l, t, a)[t] = l[t] + a
           /\ \A u \in PaymentType : u # t => With(l, t, a)[u] = l[u]
BY DEF With

-----------------------------------------------------------------------------
(* What one step may do to the requests it does not serve *)

New(j) == j.op \in {"request", "auto"}

\* Requests and locks of others are left alone; a refund request that exists
\* goes on existing, and the one this step may have made is its own.
Respects(w) ==
    /\ \A v \in Workers \ {w} :
          /\ job'[v] = job[v]
          /\ \A r \in Requests : claimLock[r] = v /\ StillPending(r)
                                 => claimLock'[r] = v /\ claim'[r] = claim[r]
          /\ orderLock = v => /\ orderLock' = v
                              /\ UNCHANGED <<status, payable, ledger, rows>>
    /\ \A r \in Requests :
          /\ claim[r].status # "NONE" => claim'[r].status # "NONE"
          /\ claim[r].status = "NONE" /\ claim'[r].status # "NONE"
             => job[w] # Idle /\ New(job[w]) /\ job[w].request = r

LEMMA OthersKeepTheirs ==
    ASSUME TypeOK, RequestsInv, NEW w \in Workers, Respects(w),
           job'[w] # Idle => RequestOK(w, job[w])',
           \A v \in Workers \ {w} :
              job'[w] # Idle /\ New(job[w])' /\ job[v] # Idle /\ New(job[v])
              => job'[w].request # job[v].request
    PROVE  RequestsInv'
<1>1. ASSUME NEW v \in Workers, job'[v] # Idle
      PROVE  RequestOK(v, job[v])'
  <2>1. CASE v = w
    BY <1>1, <2>1
  <2>2. CASE v # w
    <3>1. job'[v] = job[v] /\ job[v] \in JobRow /\ RequestOK(v, job[v])
      BY <1>1, <2>2 DEF Respects, TypeOK, RequestsInv
    <3>2. PhasesOK(job[v])'
      BY <3>1 DEF RequestOK, PhasesOK
    <3>3. NamesOK(job[v])'
      <4>1. New(job[v]) /\ job[w] # Idle /\ New(job[w]) => job[w].request # job[v].request
        BY <2>2, <1>1, <3>1 DEF RequestsInv, DistinctNewClaims, New
      <4> QED BY <3>1, <4>1 DEF RequestOK, NamesOK, Respects, New
    <3>4. (HoldsClaim(job[v]) => claimLock[job[v].request] = v /\ StillPending(job[v].request))'
      BY <2>2, <3>1 DEF RequestOK, NamesOK, HoldsClaim, Issues, StillPending, Respects
    <3>5. (HoldsOrder(job[v]) =>
             /\ orderLock = v
             /\ job[v].seen.status = status /\ job[v].seen.payable = payable
             /\ job[v].seen.ledger = ledger
             /\ job[v].seen.replay = (job[v].op = "collect" /\ rows[job[v].key] > 0))'
      BY <2>2, <3>1 DEF RequestOK, HoldsOrder, Respects
    <3> QED BY <3>2, <3>3, <3>4, <3>5 DEF RequestOK
  <2> QED BY <2>1, <2>2
<1>2. DistinctNewClaims'
  <2> SUFFICES ASSUME NEW u \in Workers, NEW v \in Workers, u # v,
                      job'[u] # Idle, job'[v] # Idle, New(job[u])', New(job[v])'
               PROVE  job'[u].request # job'[v].request
    BY DEF DistinctNewClaims, New
  <2>1. \A x \in Workers \ {w} : job'[x] = job[x]
    BY DEF Respects
  <2>2. CASE u # w /\ v # w
    BY <2>1, <2>2 DEF RequestsInv, DistinctNewClaims, New
  <2>3. CASE u = w
    BY <2>1, <2>3 DEF New
  <2>4. CASE v = w
    BY <2>1, <2>4 DEF New
  <2> QED BY <2>2, <2>3, <2>4
<1> QED BY <1>1, <1>2 DEF RequestsInv

\* The step leaves the money alone.
LEMMA MoneyUntouched ==
    ASSUME MoneyInv, UNCHANGED <<ledger, account, rows, claim, posted, credited>>
    PROVE  /\ LedgerNeverOverdrawn' /\ NetTellsTheLedger'
           /\ IssuedIsAccounted' /\ OneRowPerKey'
BY DEF MoneyInv, LedgerNeverOverdrawn, NetTellsTheLedger, IssuedIsAccounted, OneRowPerKey,
       Collected, Less

-----------------------------------------------------------------------------
(* Arrivals *)

\* A request that starts with a typed job, whose refund request, if it makes
\* one, is reserved by nobody.
Begins(w, j) ==
    /\ j \in JobRow
    /\ j.phase # "post"
    /\ RequestOK(w, j)
    /\ New(j) => Fresh(j.request)
    /\ Start(w, j)
    /\ status' = status \/ (orderLock = NoWorker /\ status' \in OrderStatus)
    /\ UNCHANGED <<payable, owner, ledger, account, rows, claim, posted, credited, orderLock,
                   claimLock>>

LEMMA BeginningKeepsTheInvariant ==
    ASSUME MoneyInv, NEW w \in Workers, \E j : Begins(w, j)
    PROVE  MoneyInv'
<1> PICK j : Begins(w, j)
  OBVIOUS
<1>1. /\ job' \in [Workers -> JobRow \cup {Idle}]
      /\ job'[w] = j /\ \A v \in Workers \ {w} : job'[v] = job[v]
  BY DEF Begins, Start, MoneyInv, TypeOK
<1>2. TypeOK'
  BY <1>1 DEF Begins, MoneyInv, TypeOK
<1>3. Respects(w)
  BY <1>1, MoneyAssumption DEF Begins, Respects
<1>4. RequestOK(w, job[w])'
  BY <1>1 DEF Begins, RequestOK, PhasesOK, NamesOK, HoldsClaim, Issues, StillPending, HoldsOrder
<1>5. \A v \in Workers \ {w} :
         job'[w] # Idle /\ New(job[w])' /\ job[v] # Idle /\ New(job[v])
         => job'[w].request # job[v].request
  BY <1>1 DEF Begins, Fresh, New
<1>6. RequestsInv'
  BY <1>3, <1>4, <1>5, OthersKeepTheirs DEF MoneyInv
<1>7. UNCHANGED <<ledger, account, rows, claim, posted, credited>> /\ payable' = payable
  BY DEF Begins
<1> QED BY <1>2, <1>6, <1>7, MoneyUntouched DEF MoneyInv

LEMMA LedgerJobFacts ==
    ASSUME NEW op \in {"collect", "payment", "discount"}, NEW t \in PaymentType, NEW a \in Nat,
           NEW k \in Keys \cup {NoKey}, NEW ok \in BOOLEAN
    PROVE  LedgerJob(op, t, a, k, ok) \in JobRow
BY DEF LedgerJob, JobRow, NothingRead, Seen, OrderStatus

LEMMA RefundJobFacts ==
    ASSUME NEW op \in {"refund", "credit", "reject", "request", "auto"},
           NEW phase \in {"claim", "payments", "create"},
           NEW r \in Requests, NEW a \in Nat
    PROVE  RefundJob(op, phase, r, a) \in JobRow
BY DEF RefundJob, JobRow, NothingRead, Seen, OrderStatus, PaymentType

LEMMA CollectBegins ==
    ASSUME MoneyInv, NEW w \in Workers, NEW k \in Keys, NEW a \in Amounts,
           NEW ok \in BOOLEAN, Collect(w, k, a, ok)
    PROVE  \E j : Begins(w, j)
<1> DEFINE j == LedgerJob("collect", "CAPTURE", a, k, ok)
<1>1. j \in JobRow
  BY LedgerJobFacts, MoneyAssumption DEF PaymentType
<1>2. RequestOK(w, j)
  BY DEF RequestOK, PhasesOK, NamesOK, HoldsClaim, HoldsOrder, Issues, LedgerJob
<1>3. Start(w, j)
  BY DEF Collect
<1>5. j.phase # "post" /\ ~ New(j)
  BY DEF LedgerJob, New
<1>7. UNCHANGED <<status, payable, owner, ledger, account, rows, claim, posted, credited,
                  orderLock, claimLock>>
  BY DEF Collect, money
<1>8. status' = status
  BY <1>7
<1> HIDE DEF j
<1>9. Begins(w, j)
  BY <1>1, <1>2, <1>3, <1>5, <1>7, <1>8 DEF Begins
<1> QED BY <1>9

LEMMA CorrectionBegins ==
    ASSUME MoneyInv, NEW w \in Workers, NEW t \in {"CAPTURE", "AUTH", "VOID"},
           NEW a \in Amounts, CorrectLedger(w, t, a)
    PROVE  \E j : Begins(w, j)
<1> DEFINE j == LedgerJob("payment", t, a, NoKey, TRUE)
<1>1. j \in JobRow
  BY LedgerJobFacts, MoneyAssumption DEF PaymentType
<1>2. RequestOK(w, j)
  BY DEF RequestOK, PhasesOK, NamesOK, HoldsClaim, HoldsOrder, Issues, LedgerJob
<1>3. Start(w, j)
  BY DEF CorrectLedger
<1>5. j.phase # "post" /\ ~ New(j)
  BY DEF LedgerJob, New
<1>7. UNCHANGED <<status, payable, owner, ledger, account, rows, claim, posted, credited,
                  orderLock, claimLock>>
  BY DEF CorrectLedger, money
<1>8. status' = status
  BY <1>7
<1> HIDE DEF j
<1>9. Begins(w, j)
  BY <1>1, <1>2, <1>3, <1>5, <1>7, <1>8 DEF Begins
<1> QED BY <1>9

LEMMA DiscountBegins ==
    ASSUME MoneyInv, NEW w \in Workers, NEW a \in Amounts, Discount(w, a)
    PROVE  \E j : Begins(w, j)
<1> DEFINE p == Less(payable, a)
           j == DiscountJob(p)
<1>1. p \in Nat /\ p <= Price
  BY MoneyAssumption DEF Less, MoneyInv, TypeOK
<1>2. LedgerJob("discount", "CAPTURE", p, NoKey, TRUE) \in JobRow
  BY <1>1, LedgerJobFacts DEF PaymentType
<1>3. Start(w, j)
  BY DEF Discount
<1>4. /\ j \in JobRow /\ j.op = "discount" /\ j.phase = "price" /\ j.amount = p
  BY <1>2 DEF DiscountJob, LedgerJob, JobRow
<1> HIDE DEF j, p
<1>5. RequestOK(w, j)
  BY <1>1, <1>4 DEF RequestOK, PhasesOK, NamesOK, HoldsClaim, HoldsOrder, Issues
<1>6. UNCHANGED <<status, payable, owner, ledger, account, rows, claim, posted, credited,
                  orderLock, claimLock>>
  BY DEF Discount, money
<1>7. status' = status
  BY <1>6
<1>8. Begins(w, j)
  BY <1>3, <1>4, <1>5, <1>6, <1>7 DEF Begins, New
<1> QED BY <1>8

LEMMA CancelBegins ==
    ASSUME MoneyInv, NEW w \in Workers, NEW r \in Requests, CancelOrder(w, r)
    PROVE  \E j : Begins(w, j)
<1> DEFINE j == RefundJob("auto", "payments", r, 0)
<1>1. j \in JobRow
  BY RefundJobFacts DEF PaymentType
<1>2. RequestOK(w, j)
  BY DEF CancelOrder, Fresh, RequestOK, PhasesOK, NamesOK, HoldsClaim, HoldsOrder,
         Issues, RefundJob
<1>3. Start(w, j)
  BY DEF CancelOrder
<1>5. j.phase # "post"
  BY DEF RefundJob
<1>6. Fresh(j.request)
  BY DEF Fresh, RefundJob, CancelOrder
<1> QED BY <1>1, <1>2, <1>3, <1>5, <1>6 DEF Begins, CancelOrder, OrderStatus

LEMMA RefundRequestBegins ==
    ASSUME MoneyInv, NEW w \in Workers, NEW r \in Requests, NEW a \in Amounts,
           RequestRefund(w, r, a) \/ KdsRequestRefund(w, r, a)
    PROVE  \E j : Begins(w, j)
<1> DEFINE j == RefundJob("request", "create", r, a)
<1>1. j \in JobRow
  BY RefundJobFacts, MoneyAssumption DEF PaymentType
<1>2. Fresh(r) /\ Start(w, j)
  BY DEF RequestRefund, KdsRequestRefund
<1>3. RequestOK(w, j)
  BY <1>2 DEF Fresh, RequestOK, PhasesOK, NamesOK, HoldsClaim, HoldsOrder, Issues, RefundJob
<1>5. j.phase # "post"
  BY DEF RefundJob
<1>6. Fresh(j.request)
  BY DEF Fresh, RefundJob, RequestRefund, KdsRequestRefund
<1>7. UNCHANGED <<status, payable, owner, ledger, account, rows, claim, posted, credited,
                  orderLock, claimLock>>
  BY DEF RequestRefund, KdsRequestRefund, money
<1>8. status' = status
  BY <1>7
<1> HIDE DEF j
<1>9. Begins(w, j)
  BY <1>1, <1>2, <1>3, <1>5, <1>6, <1>7, <1>8 DEF Begins
<1> QED BY <1>9

LEMMA ApproveBegins ==
    ASSUME MoneyInv, NEW w \in Workers, NEW r \in Requests, NEW op \in {"refund", "credit"},
           Approve(w, r, op)
    PROVE  \E j : Begins(w, j)
<1> DEFINE j == RefundJob(op, "claim", r, claim[r].amount)
<1>1. claim[r].amount \in Nat /\ claim[r].status = "PENDING"
  BY DEF MoneyInv, TypeOK, Approve
<1>2. j \in JobRow
  BY <1>1, RefundJobFacts DEF PaymentType
<1>3. RequestOK(w, j)
  BY <1>1 DEF RequestOK, PhasesOK, NamesOK, HoldsClaim, HoldsOrder, Issues, RefundJob
<1>4. Start(w, j)
  BY DEF Approve
<1>5. j.phase # "post" /\ ~ New(j)
  BY DEF RefundJob, New
<1>7. UNCHANGED <<status, payable, owner, ledger, account, rows, claim, posted, credited,
                  orderLock, claimLock>>
  BY DEF Approve, money
<1>8. status' = status
  BY <1>7
<1> HIDE DEF j
<1>9. Begins(w, j)
  BY <1>2, <1>3, <1>4, <1>5, <1>7, <1>8 DEF Begins
<1> QED BY <1>9

LEMMA RejectBegins ==
    ASSUME MoneyInv, NEW w \in Workers, NEW r \in Requests, Reject(w, r)
    PROVE  \E j : Begins(w, j)
<1> DEFINE j == RefundJob("reject", "claim", r, 0)
<1>1. j \in JobRow
  BY RefundJobFacts DEF PaymentType
<1>2. RequestOK(w, j)
  BY DEF Reject, RequestOK, PhasesOK, NamesOK, HoldsClaim, HoldsOrder, Issues, RefundJob
<1>3. Start(w, j)
  BY DEF Reject
<1>5. j.phase # "post" /\ ~ New(j)
  BY DEF RefundJob, New
<1>7. UNCHANGED <<status, payable, owner, ledger, account, rows, claim, posted, credited,
                  orderLock, claimLock>>
  BY DEF Reject, money
<1>8. status' = status
  BY <1>7
<1> HIDE DEF j
<1>9. Begins(w, j)
  BY <1>1, <1>2, <1>3, <1>5, <1>7, <1>8 DEF Begins
<1> QED BY <1>9
-----------------------------------------------------------------------------
(* Requests in flight *)

LEMMA FinishFacts ==
    ASSUME TypeOK, NEW w \in Workers, Finish(w)
    PROVE  /\ job' \in [Workers -> JobRow \cup {Idle}]
           /\ job'[w] = Idle
           /\ \A v \in Workers \ {w} : job'[v] = job[v]
BY DEF TypeOK, Finish

LEMMA UnlockFacts ==
    ASSUME TypeOK, NEW w \in Workers,
           Unlock(w) \/ UNCHANGED <<orderLock, claimLock>>
    PROVE  /\ orderLock' \in Workers \cup {NoWorker}
           /\ claimLock' \in [Requests -> Workers \cup {NoWorker}]
           /\ \A v \in Workers \ {w} :
                 /\ orderLock = v => orderLock' = v
                 /\ \A r \in Requests : claimLock[r] = v => claimLock'[r] = v
BY DEF TypeOK, Unlock

\* A request ends without writing anything.
LEMMA EndingKeepsTheInvariant ==
    ASSUME MoneyInv, NEW w \in Workers, Finish(w),
           Unlock(w) \/ UNCHANGED <<orderLock, claimLock>>, UNCHANGED money
    PROVE  MoneyInv'
<1>1. TypeOK
  BY DEF MoneyInv
<1>2. UNCHANGED <<status, payable, owner, ledger, account, rows, claim, posted, credited>>
  BY DEF money
<1>3. TypeOK'
  BY <1>1, <1>2, FinishFacts, UnlockFacts DEF TypeOK
<1>4. Respects(w)
  BY <1>1, <1>2, FinishFacts, UnlockFacts DEF Respects
<1>5. job'[w] = Idle
  BY <1>1, FinishFacts
<1>6. RequestsInv'
  BY <1>1, <1>4, <1>5, OthersKeepTheirs DEF MoneyInv
<1> QED BY <1>2, <1>3, <1>6, MoneyUntouched DEF MoneyInv

\* A request goes on without writing anything.
LEMMA AdvancingKeepsTheInvariant ==
    ASSUME MoneyInv, NEW w \in Workers, NEW k \in JobRow,
           job[w] # Idle, job' = [job EXCEPT ![w] = k],
           k.request = job[w].request, k.op = job[w].op,
           RequestOK(w, job[w])',
           orderLock' = orderLock \/ (orderLock = NoWorker /\ orderLock' = w),
           claimLock' = claimLock
             \/ \E r \in Requests : claimLock[r] = NoWorker
                                    /\ claimLock' = [claimLock EXCEPT ![r] = w],
           UNCHANGED money
    PROVE  MoneyInv'
<1>1. TypeOK
  BY DEF MoneyInv
<1>2. UNCHANGED <<status, payable, owner, ledger, account, rows, claim, posted, credited>>
  BY DEF money
<1>3. /\ job' \in [Workers -> JobRow \cup {Idle}]
      /\ job'[w] = k /\ \A v \in Workers \ {w} : job'[v] = job[v]
  BY <1>1 DEF TypeOK
<1>4. /\ claimLock' \in [Requests -> Workers \cup {NoWorker}]
      /\ \A r \in Requests, v \in Workers : claimLock[r] = v => claimLock'[r] = v
  BY <1>1, MoneyAssumption DEF TypeOK
<1>5. TypeOK'
  BY <1>1, <1>2, <1>3, <1>4 DEF TypeOK
<1>6. Respects(w)
  <2>1. \A v \in Workers : orderLock = v => orderLock' = v
    BY MoneyAssumption
  <2> QED BY <1>2, <1>3, <1>4, <2>1 DEF Respects
<1>7. \A v \in Workers \ {w} :
         job'[w] # Idle /\ New(job[w])' /\ job[v] # Idle /\ New(job[v])
         => job'[w].request # job[v].request
  BY <1>3 DEF MoneyInv, RequestsInv, DistinctNewClaims, New
<1>8. RequestsInv'
  BY <1>1, <1>6, <1>7, OthersKeepTheirs DEF MoneyInv
<1> QED BY <1>2, <1>5, <1>8, MoneyUntouched DEF MoneyInv

\* A request in flight is typed, and what RequestOK says of it holds.
LEMMA InFlight ==
    ASSUME MoneyInv, NEW w \in Workers, job[w].phase # "idle"
    PROVE  job[w] \in JobRow /\ job[w] # Idle /\ RequestOK(w, job[w])
BY DEF MoneyInv, TypeOK, RequestsInv, Idle
LEMMA ClaimRefundStep ==
    ASSUME MoneyInv, NEW w \in Workers, ClaimRefund(w)
    PROVE  MoneyInv'
<1>1. /\ job[w].phase = "claim" /\ job[w].op # "reject"
      /\ StillPending(job[w].request) /\ claimLock[job[w].request] = NoWorker
      /\ claimLock' = [claimLock EXCEPT ![job[w].request] = w]
      /\ UNCHANGED money /\ orderLock' = orderLock
  BY DEF ClaimRefund
<1>2. job[w] \in JobRow /\ job[w] # Idle /\ RequestOK(w, job[w])
  BY <1>1, InFlight
<1>3. job[w].op \in {"refund", "credit"} /\ job[w].request \in Requests
  BY <1>1, <1>2 DEF RequestOK, PhasesOK, NamesOK, JobRow
<1>4. PICK k \in JobRow :
         /\ job' = [job EXCEPT ![w] = k]
         /\ k.request = job[w].request /\ k.op = job[w].op
         /\ k.phase = IF job[w].op = "credit" THEN "credit" ELSE "lock"
         /\ k.type = job[w].type /\ k.ok = job[w].ok /\ k.key = job[w].key
  <2> DEFINE n == [job[w] EXCEPT !.phase = IF job[w].op = "credit" THEN "credit" ELSE "lock"]
  <2>1. job' = [job EXCEPT ![w] = n]
    BY DEF ClaimRefund
  <2>2. /\ n \in JobRow /\ n.request = job[w].request /\ n.op = job[w].op
        /\ n.phase = IF job[w].op = "credit" THEN "credit" ELSE "lock"
        /\ n.type = job[w].type /\ n.ok = job[w].ok /\ n.key = job[w].key
    BY <1>2 DEF JobRow
  <2> QED BY <2>1, <2>2
<1>5. job'[w] = k
  BY <1>4 DEF MoneyInv, TypeOK
<1>6. claimLock'[job[w].request] = w
  BY <1>1, <1>3 DEF MoneyInv, TypeOK
<1>7. claim' = claim
  BY <1>1 DEF money
<1>8. RequestOK(w, job[w])'
  <2>1. PhasesOK(k)
    BY <1>3, <1>4 DEF PhasesOK
  <2>2. NamesOK(k)'
    BY <1>2, <1>3, <1>4, <1>7 DEF RequestOK, NamesOK
  <2>3. claimLock'[k.request] = w /\ StillPending(k.request)'
    BY <1>1, <1>4, <1>6, <1>7 DEF StillPending
  <2>4. ~ HoldsOrder(k)
    BY <1>4 DEF HoldsOrder
  <2>5. RequestOK(w, k)'
    BY <2>1, <2>2, <2>3, <2>4 DEF RequestOK, PhasesOK, HoldsOrder
  <2> QED BY <1>5, <2>5
<1>9. \E r \in Requests : claimLock[r] = NoWorker /\ claimLock' = [claimLock EXCEPT ![r] = w]
  BY <1>1, <1>3
<1> QED BY <1>1, <1>2, <1>4, <1>8, <1>9, AdvancingKeepsTheInvariant

LEMMA LockOrderStep ==
    ASSUME MoneyInv, NEW w \in Workers, LockOrder(w)
    PROVE  MoneyInv'
<1>1. /\ job[w].phase = "lock" /\ orderLock = NoWorker /\ orderLock' = w
      /\ UNCHANGED money /\ claimLock' = claimLock
  BY DEF LockOrder, OrderFree
<1>2. job[w] \in JobRow /\ job[w] # Idle /\ RequestOK(w, job[w])
  BY <1>1, InFlight
<1>3. PICK k \in JobRow :
         /\ job' = [job EXCEPT ![w] = k]
         /\ k.request = job[w].request /\ k.op = job[w].op /\ k.phase = "post"
         /\ k.type = job[w].type /\ k.ok = job[w].ok /\ k.key = job[w].key
         /\ k.seen.status = status /\ k.seen.payable = payable /\ k.seen.ledger = ledger
         /\ k.seen.replay = (job[w].op = "collect" /\ rows[job[w].key] > 0)
  <2> DEFINE read == [status |-> status, payable |-> payable, ledger |-> ledger,
                      replay |-> job[w].op = "collect" /\ rows[job[w].key] > 0]
             n == [job[w] EXCEPT !.phase = "post", !.seen = read]
  <2>1. job' = [job EXCEPT ![w] = n]
    BY DEF LockOrder
  <2>2. read \in Seen
    BY DEF Seen, MoneyInv, TypeOK
  <2>3. /\ read.status = status /\ read.payable = payable /\ read.ledger = ledger
        /\ read.replay = (job[w].op = "collect" /\ rows[job[w].key] > 0)
    OBVIOUS
  <2> HIDE DEF read
  <2>4. /\ n \in JobRow /\ n.request = job[w].request /\ n.op = job[w].op
        /\ n.phase = "post" /\ n.seen = read
        /\ n.type = job[w].type /\ n.ok = job[w].ok /\ n.key = job[w].key
    BY <1>2, <2>2 DEF JobRow
  <2> HIDE DEF n
  <2> QED BY <2>1, <2>3, <2>4
<1>4. job'[w] = k
  BY <1>3 DEF MoneyInv, TypeOK
<1>5. UNCHANGED <<status, payable, ledger, rows, claim>>
  BY <1>1 DEF money
<1>6. RequestOK(w, job[w])'
  <2>1. PhasesOK(k)
    BY <1>1, <1>2, <1>3 DEF RequestOK, PhasesOK, JobRow
  <2>2. NamesOK(k)'
    BY <1>1, <1>2, <1>3, <1>5 DEF RequestOK, PhasesOK, NamesOK
  <2>3. (HoldsClaim(k) => claimLock[k.request] = w /\ StillPending(k.request))'
    BY <1>1, <1>2, <1>3, <1>5 DEF RequestOK, HoldsClaim, Issues, StillPending
  <2>4. /\ orderLock' = w
        /\ k.seen.status = status' /\ k.seen.payable = payable' /\ k.seen.ledger = ledger'
        /\ k.seen.replay = (k.op = "collect" /\ rows'[k.key] > 0)
    BY <1>1, <1>3, <1>5
  <2>5. RequestOK(w, k)'
    BY <2>1, <2>2, <2>3, <2>4 DEF RequestOK, PhasesOK
  <2> QED BY <1>4, <2>5
<1> QED BY <1>1, <1>2, <1>3, <1>6, AdvancingKeepsTheInvariant
LEMMA NetSignedType ==
    ASSUME TypeOK
    PROVE  NetSigned \in Nat
<1>1. ledger["CAPTURE"] + ledger["AUTH"] + ledger["VOID"] \in Nat /\ ledger["REFUND"] \in Nat
  BY DEF TypeOK, PaymentType
<1> QED BY <1>1, LessFacts DEF NetSigned

\* createForCancelledOrder reads on, or returns.
LEMMA ReadingStep ==
    ASSUME MoneyInv, NEW w \in Workers, NEW n \in Nat, NEW next \in {"claims", "create"},
           job[w].phase \in {"payments", "claims"},
           job' = [job EXCEPT ![w] = [job[w] EXCEPT !.phase = next, !.amount = n]],
           UNCHANGED <<money, orderLock, claimLock>>
    PROVE  MoneyInv'
<1>1. job[w] \in JobRow /\ job[w] # Idle /\ RequestOK(w, job[w])
  BY InFlight
<1>2. job[w].op \in {"request", "auto"}
  BY <1>1 DEF RequestOK, PhasesOK, JobRow
<1>3. PICK k \in JobRow :
         /\ job' = [job EXCEPT ![w] = k]
         /\ k.request = job[w].request /\ k.op = job[w].op /\ k.phase = next
  <2> DEFINE j == [job[w] EXCEPT !.phase = next, !.amount = n]
  <2>1. j \in JobRow /\ j.request = job[w].request /\ j.op = job[w].op /\ j.phase = next
    BY <1>1 DEF JobRow
  <2> QED BY <2>1
<1>4. job'[w] = k
  BY <1>3 DEF MoneyInv, TypeOK
<1>5. orderLock' = orderLock /\ claimLock' = claimLock /\ UNCHANGED money /\ claim' = claim
  BY DEF money
<1>6. RequestOK(w, job[w])'
  <2>1. PhasesOK(k) /\ ~ HoldsOrder(k) /\ ~ HoldsClaim(k)
    BY <1>2, <1>3 DEF PhasesOK, HoldsOrder, HoldsClaim, Issues
  <2>2. NamesOK(k)'
    BY <1>1, <1>2, <1>3, <1>5 DEF RequestOK, NamesOK
  <2>3. RequestOK(w, k)'
    BY <2>1, <2>2 DEF RequestOK, PhasesOK, HoldsOrder, HoldsClaim, Issues
  <2> QED BY <1>4, <2>3
<1> QED BY <1>1, <1>3, <1>5, <1>6, AdvancingKeepsTheInvariant

LEMMA ReadPaymentsStep ==
    ASSUME MoneyInv, NEW w \in Workers, ReadPayments(w)
    PROVE  MoneyInv'
<1>1. job[w].phase = "payments" /\ UNCHANGED <<money, orderLock, claimLock>>
  BY DEF ReadPayments
<1>2. CASE NetSigned = 0
  <2>1. Finish(w)
    BY <1>2 DEF ReadPayments, Finish
  <2> QED BY <1>1, <2>1, EndingKeepsTheInvariant
<1>3. CASE NetSigned # 0
  <2>1. NetSigned \in Nat
    BY NetSignedType DEF MoneyInv
  <2>2. job' = [job EXCEPT ![w] = [job[w] EXCEPT !.phase = "claims", !.amount = NetSigned]]
    BY <1>3 DEF ReadPayments
  <2> QED BY <1>1, <2>1, <2>2, ReadingStep
<1> QED BY <1>2, <1>3

LEMMA ReadClaimsStep ==
    ASSUME MoneyInv, NEW w \in Workers, ReadClaims(w)
    PROVE  MoneyInv'
<1>1. job[w].phase = "claims" /\ UNCHANGED <<money, orderLock, claimLock>>
  BY DEF ReadClaims
<1>2. job[w].amount \in Nat
  BY <1>1, InFlight DEF JobRow
<1> DEFINE remaining == Remaining(job[w].amount)
<1>3. CASE Finish(w)
  BY <1>1, <1>3, EndingKeepsTheInvariant
<1>4. CASE /\ remaining \in 1 .. job[w].amount
           /\ job' = [job EXCEPT ![w] = [job[w] EXCEPT !.phase = "create", !.amount = remaining]]
  <2>1. remaining \in Nat
    BY <1>2, <1>4
  <2> HIDE DEF remaining
  <2> QED BY <1>1, <1>4, <2>1, ReadingStep
<1> QED BY <1>3, <1>4 DEF ReadClaims

-----------------------------------------------------------------------------
(* Writing refund requests *)

LEMMA RejectRefundStep ==
    ASSUME MoneyInv, NEW w \in Workers, RejectRefund(w)
    PROVE  MoneyInv'
<1> DEFINE r == job[w].request
<1>1. /\ job[w].phase = "claim" /\ job[w].op = "reject" /\ claimLock[r] = NoWorker
      /\ StillPending(r) /\ claim' = [claim EXCEPT ![r].status = "REJECTED"] /\ Finish(w)
  BY DEF RejectRefund
<1>2. UNCHANGED <<status, payable, owner, ledger, account, rows, posted, credited, orderLock, claimLock>>
  BY DEF RejectRefund
<1>3. TypeOK /\ r \in Requests
  BY <1>1, InFlight DEF MoneyInv, RequestOK, NamesOK
<1>4. /\ claim' \in [Requests -> [status : ClaimStatus, amount : Nat]]
      /\ claim'[r].status = "REJECTED" /\ \A q \in Requests \ {r} : claim'[q] = claim[q]
  BY <1>1, <1>3 DEF TypeOK, ClaimStatus
<1>5. /\ job' \in [Workers -> JobRow \cup {Idle}]
      /\ job'[w] = Idle /\ \A v \in Workers \ {w} : job'[v] = job[v]
  BY <1>1, <1>3, FinishFacts
<1>6. claim[r].status = "PENDING"
  BY <1>1 DEF StillPending
<1> HIDE DEF r
<1>7. TypeOK'
  BY <1>2, <1>3, <1>4, <1>5 DEF TypeOK
<1>8. Respects(w)
  BY <1>1, <1>2, <1>3, <1>4, <1>5, <1>6, MoneyAssumption DEF Respects
<1>9. RequestsInv'
  BY <1>3, <1>5, <1>8, OthersKeepTheirs DEF MoneyInv
<1>10. IssuedIsAccounted'
  BY <1>2, <1>3, <1>4, <1>6 DEF MoneyInv, IssuedIsAccounted
<1>11. (payable <= Price)' /\ LedgerNeverOverdrawn' /\ NetTellsTheLedger' /\ OneRowPerKey'
  BY <1>2 DEF MoneyInv, LedgerNeverOverdrawn, NetTellsTheLedger, OneRowPerKey, Collected, Less
<1> QED BY <1>7, <1>9, <1>10, <1>11 DEF MoneyInv

LEMMA CreateClaimStep ==
    ASSUME MoneyInv, NEW w \in Workers, CreateClaim(w)
    PROVE  MoneyInv'
<1> DEFINE r == job[w].request
<1>1. /\ job[w].phase = "create" /\ Finish(w)
      /\ claim' = [claim EXCEPT ![r] = [status |-> "PENDING", amount |-> job[w].amount]]
  BY DEF CreateClaim
<1>2. UNCHANGED <<status, payable, owner, ledger, account, rows, posted, credited, orderLock, claimLock>>
  BY DEF CreateClaim
<1>3. TypeOK /\ job[w] \in JobRow /\ job[w] # Idle /\ RequestOK(w, job[w])
  BY <1>1, InFlight DEF MoneyInv
<1>4. New(job[w]) /\ r \in Requests /\ claim[r].status = "NONE" /\ job[w].amount \in Nat
  BY <1>1, <1>3 DEF RequestOK, PhasesOK, NamesOK, JobRow, New
<1>5. /\ claim' \in [Requests -> [status : ClaimStatus, amount : Nat]]
      /\ claim'[r].status = "PENDING" /\ \A q \in Requests \ {r} : claim'[q] = claim[q]
  BY <1>1, <1>3, <1>4 DEF TypeOK, ClaimStatus
<1>6. /\ job' \in [Workers -> JobRow \cup {Idle}]
      /\ job'[w] = Idle /\ \A v \in Workers \ {w} : job'[v] = job[v]
  BY <1>1, <1>3, FinishFacts
<1>7. job[w].request = r
  OBVIOUS
<1> HIDE DEF r
<1>8. TypeOK'
  BY <1>2, <1>3, <1>5, <1>6 DEF TypeOK
<1>9. Respects(w)
  BY <1>2, <1>3, <1>4, <1>5, <1>6, <1>7 DEF Respects, StillPending
<1>10. RequestsInv'
  BY <1>3, <1>6, <1>9, OthersKeepTheirs DEF MoneyInv
<1>11. IssuedIsAccounted'
  BY <1>2, <1>4, <1>5 DEF MoneyInv, IssuedIsAccounted
<1>12. (payable <= Price)' /\ LedgerNeverOverdrawn' /\ NetTellsTheLedger' /\ OneRowPerKey'
  BY <1>2 DEF MoneyInv, LedgerNeverOverdrawn, NetTellsTheLedger, OneRowPerKey, Collected, Less
<1> QED BY <1>8, <1>10, <1>11, <1>12 DEF MoneyInv

LEMMA CreditWalletStep ==
    ASSUME MoneyInv, NEW w \in Workers, CreditWallet(w)
    PROVE  MoneyInv'
<1> DEFINE r == job[w].request
<1>1. /\ job[w].phase = "credit" /\ Finish(w) /\ Unlock(w)
      /\ credited' = [credited EXCEPT ![r] = @ + 1]
      /\ claim' = [claim EXCEPT ![r].status = "ISSUED"]
  BY DEF CreditWallet
<1>2. UNCHANGED <<status, payable, owner, ledger, account, rows, posted>>
  BY DEF CreditWallet
<1>3. TypeOK /\ job[w] \in JobRow /\ job[w] # Idle /\ RequestOK(w, job[w])
  BY <1>1, InFlight DEF MoneyInv
<1>4. r \in Requests /\ claimLock[r] = w /\ claim[r].status = "PENDING"
  BY <1>1, <1>3 DEF RequestOK, PhasesOK, NamesOK, JobRow, HoldsClaim, Issues, StillPending
<1>5. /\ claim' \in [Requests -> [status : ClaimStatus, amount : Nat]]
      /\ claim'[r].status = "ISSUED" /\ \A q \in Requests \ {r} : claim'[q] = claim[q]
  BY <1>1, <1>3, <1>4 DEF TypeOK, ClaimStatus
<1>6. /\ credited' \in [Requests -> Nat]
      /\ credited'[r] = credited[r] + 1 /\ \A q \in Requests \ {r} : credited'[q] = credited[q]
  BY <1>1, <1>3, <1>4 DEF TypeOK
<1>7. /\ job' \in [Workers -> JobRow \cup {Idle}]
      /\ job'[w] = Idle /\ \A v \in Workers \ {w} : job'[v] = job[v]
  BY <1>1, <1>3, FinishFacts
<1>8. /\ orderLock' \in Workers \cup {NoWorker}
      /\ claimLock' \in [Requests -> Workers \cup {NoWorker}]
      /\ \A v \in Workers \ {w} :
            /\ orderLock = v => orderLock' = v
            /\ \A q \in Requests : claimLock[q] = v => claimLock'[q] = v
  BY <1>1, <1>3, UnlockFacts
<1> HIDE DEF r
<1>9. TypeOK'
  BY <1>2, <1>3, <1>5, <1>6, <1>7, <1>8 DEF TypeOK
<1>10. Respects(w)
  BY <1>2, <1>4, <1>5, <1>7, <1>8 DEF Respects
<1>11. RequestsInv'
  BY <1>3, <1>7, <1>10, OthersKeepTheirs DEF MoneyInv
<1>12. IssuedIsAccounted'
  <2> SUFFICES ASSUME NEW q \in Requests
               PROVE  posted'[q] + credited'[q] = IF claim'[q].status = "ISSUED" THEN 1 ELSE 0
    BY DEF IssuedIsAccounted
  <2>1. /\ posted[q] + credited[q] = IF claim[q].status = "ISSUED" THEN 1 ELSE 0
        /\ posted'[q] = posted[q]
    BY <1>2 DEF MoneyInv, IssuedIsAccounted
  <2>2. posted[q] \in Nat /\ credited[q] \in Nat
    BY <1>3 DEF TypeOK
  <2>3. CASE q = r
    BY <1>4, <1>5, <1>6, <2>1, <2>2, <2>3
  <2>4. CASE q # r
    BY <1>5, <1>6, <2>1, <2>2, <2>4
  <2> QED BY <2>3, <2>4
<1>13. (payable <= Price)' /\ LedgerNeverOverdrawn' /\ NetTellsTheLedger' /\ OneRowPerKey'
  <2>1. UNCHANGED <<payable, ledger, account, rows>>
    BY <1>2
  <2>2. (payable <= Price)' /\ LedgerNeverOverdrawn' /\ OneRowPerKey'
    BY <2>1 DEF MoneyInv, LedgerNeverOverdrawn, OneRowPerKey
  <2>3. NetTellsTheLedger'
    BY <2>1 DEF MoneyInv, NetTellsTheLedger, Collected
  <2> QED BY <2>2, <2>3
<1> QED BY <1>9, <1>11, <1>12, <1>13 DEF MoneyInv
-----------------------------------------------------------------------------
(* Writing the ledger *)

\* What is accepted fits the price in force, or what was collected.
LEMMA AcceptedFits ==
    ASSUME MoneyInv, NEW j \in JobRow, Accepts(j), NamesOK(j),
           j.seen.ledger = ledger, j.seen.payable = payable, j.seen.status = status,
           j.op \in {"collect", "payment", "refund"}, j.ok,
           NEW l, l = With(ledger, j.type, j.amount)
    PROVE  /\ l["REFUND"] <= l["CAPTURE"]
           /\ \/ l["CAPTURE"] = ledger["CAPTURE"]
              \/ status # "CANCELLED" /\ l["CAPTURE"] <= payable
<1>1. /\ ledger \in [PaymentType -> Nat] /\ j.type \in PaymentType /\ j.amount \in Nat
      /\ payable \in Nat
  BY DEF MoneyInv, TypeOK, JobRow
<1>2. ledger["CAPTURE"] \in Nat /\ ledger["REFUND"] \in Nat
  BY <1>1 DEF PaymentType
<1>3. ledger["REFUND"] <= ledger["CAPTURE"]
  BY DEF MoneyInv, LedgerNeverOverdrawn
<1>4. /\ l[j.type] = ledger[j.type] + j.amount
      /\ \A u \in PaymentType : u # j.type => l[u] = ledger[u]
  BY <1>1, WithFacts
<1>5. CASE j.op = "refund"
  <2>1. j.type = "REFUND" /\ j.amount <= Collected(ledger)
    BY <1>5 DEF NamesOK, Accepts
  <2>2. Collected(ledger) = ledger["CAPTURE"] - ledger["REFUND"]
    BY <1>2, <1>3, LessFacts DEF Collected
  <2>3. l["REFUND"] = ledger["REFUND"] + j.amount /\ l["CAPTURE"] = ledger["CAPTURE"]
    BY <1>4, <2>1 DEF PaymentType
  <2> QED BY <1>1, <1>2, <1>3, <2>1, <2>2, <2>3
<1>6. CASE j.op # "refund" /\ j.type = "CAPTURE"
  <2>1. j.amount <= Outstanding(status, ledger, payable)
    BY <1>6 DEF NamesOK, Accepts, Owing
  <2>2. l["CAPTURE"] = ledger["CAPTURE"] + j.amount /\ l["REFUND"] = ledger["REFUND"]
    BY <1>4, <1>6 DEF PaymentType
  <2>3. CASE j.amount = 0
    BY <1>2, <1>3, <2>2, <2>3
  <2>4. CASE j.amount > 0
    <3>1. status # "CANCELLED" /\ j.amount <= Less(payable, ledger["CAPTURE"])
      BY <1>1, <2>1, <2>4 DEF Outstanding
    <3>2. ledger["CAPTURE"] + j.amount <= payable
      BY <1>1, <1>2, <2>4, <3>1, LessFacts
    <3> QED BY <1>1, <1>2, <1>3, <2>2, <3>1, <3>2
  <2> QED BY <1>1, <2>3, <2>4
<1>7. CASE j.op # "refund" /\ j.type # "CAPTURE"
  <2>1. j.type # "REFUND"
    BY <1>7 DEF NamesOK
  <2>2. l["CAPTURE"] = ledger["CAPTURE"] /\ l["REFUND"] = ledger["REFUND"]
    BY <1>4, <1>7, <2>1 DEF PaymentType
  <2> QED BY <1>3, <2>2
<1> QED BY <1>5, <1>6, <1>7

LEMMA PostPaymentStep ==
    ASSUME MoneyInv, NEW w \in Workers, PostPayment(w)
    PROVE  MoneyInv'
<1>1. job[w].phase = "post"
  BY DEF PostPayment
<1>2. TypeOK /\ job[w] \in JobRow /\ job[w] # Idle /\ RequestOK(w, job[w])
  BY <1>1, InFlight DEF MoneyInv
<1>3. PICK j \in JobRow : j = job[w]
  BY <1>2
<1>4. /\ Accepts(j)
      /\ IF j.ok
         THEN /\ ledger' = With(ledger, j.type, j.amount)
              /\ account' = AccountOf(With(j.seen.ledger, j.type, j.amount), j.seen.payable)
         ELSE UNCHANGED <<ledger, account>>
      /\ rows' = IF j.op = "collect" THEN [rows EXCEPT ![j.key] = @ + 1] ELSE rows
      /\ posted' = IF j.op = "refund" THEN [posted EXCEPT ![j.request] = @ + 1] ELSE posted
      /\ claim' = IF j.op = "refund" THEN [claim EXCEPT ![j.request].status = "ISSUED"] ELSE claim
      /\ Unlock(w) /\ Finish(w)
      /\ UNCHANGED <<status, payable, owner, credited>>
  BY <1>3 DEF PostPayment
<1>5. /\ PhasesOK(j) /\ NamesOK(j)
      /\ HoldsClaim(j) => claimLock[j.request] = w /\ StillPending(j.request)
      /\ orderLock = w
      /\ j.seen.status = status /\ j.seen.payable = payable /\ j.seen.ledger = ledger
      /\ j.seen.replay = (j.op = "collect" /\ rows[j.key] > 0)
  BY <1>1, <1>2, <1>3 DEF RequestOK, HoldsOrder
<1>6. /\ j.op \in {"collect", "payment", "refund"}
      /\ j.op = "refund" => /\ j.request \in Requests /\ claimLock[j.request] = w
                            /\ claim[j.request].status = "PENDING"
      /\ j.op = "collect" => j.key \in Keys /\ rows[j.key] = 0
  <2>1. j.op \in {"collect", "payment", "refund"}
    BY <1>1, <1>3, <1>5 DEF PhasesOK, JobRow
  <2>2. j.op = "refund" => /\ j.request \in Requests /\ claimLock[j.request] = w
                           /\ claim[j.request].status = "PENDING"
    BY <1>1, <1>3, <1>5 DEF NamesOK, HoldsClaim, Issues, StillPending
  <2>3. j.op = "collect" => j.key \in Keys /\ ~ (rows[j.key] > 0)
    BY <1>4, <1>5 DEF NamesOK, Accepts
  <2>4. j.op = "collect" => rows[j.key] \in Nat
    BY <1>2, <2>3 DEF TypeOK
  <2> QED BY <2>1, <2>2, <2>3, <2>4
<1>7. /\ job' \in [Workers -> JobRow \cup {Idle}]
      /\ job'[w] = Idle /\ \A v \in Workers \ {w} : job'[v] = job[v]
  BY <1>2, <1>4, FinishFacts
<1>8. /\ orderLock' \in Workers \cup {NoWorker}
      /\ claimLock' \in [Requests -> Workers \cup {NoWorker}]
      /\ \A v \in Workers \ {w} :
            /\ orderLock = v => orderLock' = v
            /\ \A q \in Requests : claimLock[q] = v => claimLock'[q] = v
  BY <1>2, <1>4, UnlockFacts
<1>9. /\ claim' \in [Requests -> [status : ClaimStatus, amount : Nat]]
      /\ posted' \in [Requests -> Nat]
      /\ \A q \in Requests : IF j.op = "refund" /\ q = j.request
                             THEN claim'[q].status = "ISSUED" /\ posted'[q] = posted[q] + 1
                             ELSE claim'[q] = claim[q] /\ posted'[q] = posted[q]
  BY <1>2, <1>4, <1>6 DEF TypeOK, ClaimStatus
<1>10. /\ rows' \in [Keys -> Nat]
       /\ \A k \in Keys : IF j.op = "collect" /\ k = j.key THEN rows'[k] = 1
                          ELSE rows'[k] = rows[k]
  BY <1>2, <1>4, <1>6 DEF TypeOK
<1>11. /\ ledger' \in [PaymentType -> Nat] /\ account' \in [net : Nat, summary : Summary]
       /\ ledger'["REFUND"] <= ledger'["CAPTURE"] /\ ledger'["CAPTURE"] <= Price
       /\ NetTellsTheLedger'
  <2>1. CASE j.ok
    <3>1. ledger' = With(ledger, j.type, j.amount) /\ account' = AccountOf(ledger', payable)
      BY <1>4, <1>5, <2>1
    <3>2. ledger' \in [PaymentType -> Nat]
      BY <1>2, <3>1, WithFacts DEF TypeOK, JobRow
    <3>3. account' \in [net : Nat, summary : Summary]
      BY <1>2, <3>1, <3>2, AccountType DEF TypeOK
    <3>4. ledger'["REFUND"] <= ledger'["CAPTURE"]
          /\ (ledger'["CAPTURE"] = ledger["CAPTURE"] \/ ledger'["CAPTURE"] <= payable)
      BY <1>4, <1>5, <1>6, <2>1, <3>1, AcceptedFits
    <3>5. ledger'["CAPTURE"] <= Price
      <4>1. ledger["CAPTURE"] <= Price /\ payable <= Price
        BY DEF MoneyInv, LedgerNeverOverdrawn
      <4>2. ledger'["CAPTURE"] \in Nat /\ payable \in Nat /\ Price \in Nat
        BY <1>2, <3>2, MoneyAssumption DEF TypeOK, PaymentType
      <4> QED BY <3>4, <4>1, <4>2
    <3>6. account'.net = Collected(ledger')
      BY <3>1 DEF AccountOf
    <3> QED BY <3>2, <3>3, <3>4, <3>5, <3>6 DEF NetTellsTheLedger, Collected
  <2>2. CASE ~ j.ok
    <3>1. ledger' = ledger /\ account' = account
      BY <1>4, <2>2
    <3> QED BY <3>1 DEF MoneyInv, TypeOK, LedgerNeverOverdrawn, NetTellsTheLedger,
               Collected, Less
  <2> QED BY <2>1, <2>2
<1>12. TypeOK'
  BY <1>2, <1>4, <1>7, <1>8, <1>9, <1>10, <1>11 DEF TypeOK
<1>13. Respects(w)
  <2>1. \A v \in Workers \ {w} : orderLock # v
    BY <1>5
  <2>2. \A v \in Workers \ {w}, r \in Requests :
           claimLock[r] = v => claimLock'[r] = v /\ claim'[r] = claim[r]
    BY <1>6, <1>8, <1>9
  <2>3. \A r \in Requests : /\ claim[r].status # "NONE" => claim'[r].status # "NONE"
                            /\ claim[r].status = "NONE" => claim'[r].status = "NONE"
    BY <1>6, <1>9
  <2> QED BY <1>7, <2>1, <2>2, <2>3 DEF Respects
<1>14. RequestsInv'
  BY <1>2, <1>7, <1>13, OthersKeepTheirs DEF MoneyInv
<1>15. IssuedIsAccounted'
  BY <1>2, <1>4, <1>6, <1>9 DEF MoneyInv, IssuedIsAccounted, TypeOK
<1>16. OneRowPerKey'
  BY <1>10 DEF MoneyInv, OneRowPerKey
<1>17. payable' = payable /\ payable <= Price
  BY <1>4 DEF MoneyInv
<1> QED BY <1>11, <1>12, <1>14, <1>15, <1>16, <1>17 DEF MoneyInv, LedgerNeverOverdrawn

\* A discount writes a price computed from an earlier one, while no payment
\* writer holds the order.
LEMMA WritePriceStep ==
    ASSUME MoneyInv, NEW w \in Workers, WritePrice(w)
    PROVE  MoneyInv'
<1>1. /\ job[w].phase = "price" /\ orderLock = NoWorker /\ payable' = job[w].amount
      /\ Finish(w)
      /\ UNCHANGED <<status, owner, ledger, account, rows, claim, posted, credited,
                     orderLock, claimLock>>
  BY DEF WritePrice, OrderFree
<1>2. TypeOK /\ job[w] \in JobRow /\ RequestOK(w, job[w])
  BY <1>1, InFlight DEF MoneyInv
<1>3. payable' \in Nat /\ payable' <= Price
  BY <1>1, <1>2 DEF RequestOK, PhasesOK, NamesOK, JobRow
<1>4. /\ job' \in [Workers -> JobRow \cup {Idle}]
      /\ job'[w] = Idle /\ \A v \in Workers \ {w} : job'[v] = job[v]
  BY <1>1, <1>2, FinishFacts
<1>5. TypeOK'
  BY <1>1, <1>2, <1>3, <1>4 DEF TypeOK
<1>6. Respects(w)
  BY <1>1, <1>4, MoneyAssumption DEF Respects
<1>7. RequestsInv'
  BY <1>2, <1>4, <1>6, OthersKeepTheirs DEF MoneyInv
<1>8. UNCHANGED <<ledger, account, rows, claim, posted, credited>>
  BY <1>1
<1> QED BY <1>3, <1>5, <1>7, <1>8, MoneyUntouched DEF MoneyInv

-----------------------------------------------------------------------------
(* The money of an order is safe *)

LEMMA InitialMoney == Init => MoneyInv
<1> SUFFICES ASSUME Init PROVE MoneyInv
  OBVIOUS
<1>1. PICK c \in {0, Price} :
         /\ ledger = [t \in PaymentType |-> IF t = "CAPTURE" THEN c ELSE 0]
         /\ account \in [net : {c}, summary : IF c > 0 THEN {"PAID"} ELSE {"UNPAID", "PENDING"}]
  BY DEF Init
<1>2. /\ c \in Nat /\ c <= Price /\ payable = Price /\ payable \in Nat
      /\ ledger["CAPTURE"] = c /\ ledger["REFUND"] = 0 /\ ledger["AUTH"] = 0 /\ ledger["VOID"] = 0
      /\ ledger \in [PaymentType -> Nat]
  BY <1>1, MoneyAssumption DEF Init, PaymentType
<1>3. account \in [net : Nat, summary : Summary] /\ account.net = c
  BY <1>1, <1>2 DEF Summary
<1>4. TypeOK
  BY <1>2, <1>3 DEF Init, TypeOK, OrderStatus, ClaimStatus
<1>5. RequestsInv
  BY DEF Init, RequestsInv, DistinctNewClaims
<1>6. NetTellsTheLedger
  BY <1>2, <1>3, LessFacts DEF NetTellsTheLedger, Collected
<1>7. LedgerNeverOverdrawn /\ IssuedIsAccounted /\ OneRowPerKey
  BY <1>2 DEF Init, LedgerNeverOverdrawn, IssuedIsAccounted, OneRowPerKey
<1>8. payable <= Price
  BY <1>2, MoneyAssumption
<1> QED BY <1>4, <1>5, <1>6, <1>7, <1>8 DEF MoneyInv

LEMMA ArrivalKeepsTheInvariant ==
    ASSUME MoneyInv, NEW w \in Workers, Arrive(w)
    PROVE  MoneyInv'
<1>1. \E j : Begins(w, j)
  BY CollectBegins, CorrectionBegins, DiscountBegins, CancelBegins, RefundRequestBegins, ApproveBegins,
     RejectBegins DEF Arrive
<1> QED BY <1>1, BeginningKeepsTheInvariant

LEMMA ProgressKeepsTheInvariant ==
    ASSUME MoneyInv, NEW w \in Workers, Progress(w)
    PROVE  MoneyInv'
<1>1. CASE AlreadyDecided(w)
  <2>1. Finish(w) /\ UNCHANGED <<orderLock, claimLock>> /\ UNCHANGED money
    BY <1>1 DEF AlreadyDecided
  <2> QED BY <2>1, EndingKeepsTheInvariant
<1>2. CASE RefusePayment(w)
  <2>1. Finish(w) /\ Unlock(w) /\ UNCHANGED money
    BY <1>2 DEF RefusePayment
  <2> QED BY <2>1, EndingKeepsTheInvariant
<1> QED BY <1>1, <1>2, ClaimRefundStep, RejectRefundStep, CreditWalletStep, LockOrderStep,
           PostPaymentStep, ReadPaymentsStep, ReadClaimsStep, CreateClaimStep, WritePriceStep DEF Progress

LEMMA CrashKeepsTheInvariant ==
    ASSUME MoneyInv, NEW w \in Workers, Crash(w)
    PROVE  MoneyInv'
<1>1. Finish(w) /\ Unlock(w) /\ UNCHANGED money
  BY DEF Crash
<1> QED BY <1>1, EndingKeepsTheInvariant

LEMMA NothingChanges ==
    ASSUME MoneyInv, UNCHANGED vars
    PROVE  MoneyInv'
BY DEF vars, MoneyInv, TypeOK, RequestsInv, DistinctNewClaims, RequestOK, PhasesOK, NamesOK,
       HoldsClaim, HoldsOrder, Issues, StillPending, LedgerNeverOverdrawn, NetTellsTheLedger,
       IssuedIsAccounted, OneRowPerKey, Collected, Less

\* Closing an order otherwise touches only its status, which nobody has read
\* under a lock.
LEMMA ClosingKeepsTheInvariant ==
    ASSUME MoneyInv, NEW s \in {"DELIVERED", "NO_SHOW"}, CloseOrder(s)
    PROVE  MoneyInv'
<1>1. /\ orderLock = NoWorker /\ status' = s
      /\ UNCHANGED <<payable, owner, ledger, account, rows, claim, posted, credited,
                     orderLock, claimLock, job>>
  BY DEF CloseOrder
<1>2. TypeOK'
  BY <1>1 DEF MoneyInv, TypeOK, OrderStatus
<1>3. RequestsInv'
  <2>1. ASSUME NEW w \in Workers, job[w] # Idle
        PROVE  RequestOK(w, job[w]) /\ ~ HoldsOrder(job[w])
    BY <1>1, <2>1, MoneyAssumption DEF MoneyInv, RequestsInv, RequestOK
  <2> QED BY <1>1, <2>1 DEF MoneyInv, RequestsInv, DistinctNewClaims, RequestOK, PhasesOK,
             NamesOK, HoldsClaim, HoldsOrder, Issues, StillPending
<1> QED BY <1>1, <1>2, <1>3, MoneyUntouched DEF MoneyInv

LEMMA EveryStepKeepsTheInvariant ==
    MoneyInv /\ [Next]_vars => MoneyInv'
BY ArrivalKeepsTheInvariant, ProgressKeepsTheInvariant, CrashKeepsTheInvariant,
   ClosingKeepsTheInvariant, NothingChanges DEF Next

\* However collections, corrections, discounts, refund decisions, cancellations
\* and crashes interleave on one order: its rows stay typed, no more is taken
\* than it cost when it was placed nor given back than was taken, its net is
\* that of its ledger, every issued refund has exactly one entry, and a
\* collection is recorded once.
THEOREM MoneyIsSafe ==
    Spec => [](/\ TypeOK
               /\ LedgerNeverOverdrawn
               /\ NetTellsTheLedger
               /\ IssuedIsAccounted
               /\ OneRowPerKey)
<1>1. Init => MoneyInv
  BY InitialMoney
<1>2. MoneyInv /\ [Next]_vars => MoneyInv'
  BY EveryStepKeepsTheInvariant
<1>3. MoneyInv => /\ TypeOK
                  /\ LedgerNeverOverdrawn
                  /\ NetTellsTheLedger
                  /\ IssuedIsAccounted
                  /\ OneRowPerKey
  BY DEF MoneyInv
<1> QED BY <1>1, <1>2, <1>3, PTL DEF Spec

-----------------------------------------------------------------------------
(* What no step may do *)

\* The only steps that write what is settled here.
LEMMA OnlyDecisionsWriteClaims ==
    ASSUME Next, NEW r \in Requests, claim'[r] # claim[r]
    PROVE  \E w \in Workers : RejectRefund(w) \/ CreditWallet(w) \/ PostPayment(w) \/ CreateClaim(w)
BY DEF Next, Arrive, Progress, CloseOrder, Crash, Collect, CorrectLedger, Discount, CancelOrder,
       RequestRefund, KdsRequestRefund, Approve, Reject, ClaimRefund, AlreadyDecided, LockOrder,
       RefusePayment, WritePrice, ReadPayments, ReadClaims, money

LEMMA OnlyPaymentsWriteTheLedger ==
    ASSUME Next, ledger' # ledger
    PROVE  \E w \in Workers : PostPayment(w)
BY DEF Next, Arrive, Progress, CloseOrder, Crash, Collect, CorrectLedger, Discount, CancelOrder,
       RequestRefund, KdsRequestRefund, Approve, Reject, ClaimRefund, RejectRefund, AlreadyDecided,
       CreditWallet, LockOrder, RefusePayment, WritePrice, ReadPayments, ReadClaims, CreateClaim, money

LEMMA DecisionsStand ==
    ASSUME MoneyInv, Next, NEW r \in Requests, claim[r].status \in {"ISSUED", "REJECTED"}
    PROVE  claim'[r] = claim[r]
<1> SUFFICES ASSUME claim'[r] # claim[r] PROVE FALSE
  OBVIOUS
<1>1. PICK w \in Workers : RejectRefund(w) \/ CreditWallet(w) \/ PostPayment(w) \/ CreateClaim(w)
  BY OnlyDecisionsWriteClaims
<1>2. job[w].phase \in {"claim", "credit", "post", "create"}
  BY <1>1 DEF RejectRefund, CreditWallet, PostPayment, CreateClaim
<1>3. PICK j \in JobRow : j = job[w] /\ RequestOK(w, j)
  BY <1>2, InFlight
<1>4. claim \in [Requests -> [status : ClaimStatus, amount : Nat]]
  BY DEF MoneyInv, TypeOK
<1>5. CASE RejectRefund(w)
  BY <1>3, <1>4, <1>5 DEF RejectRefund, StillPending
<1>6. CASE CreditWallet(w)
  <2>1. StillPending(j.request)
    BY <1>3, <1>6 DEF CreditWallet, RequestOK, PhasesOK, HoldsClaim, Issues, JobRow
  <2> QED BY <1>3, <1>4, <1>6, <2>1 DEF CreditWallet, StillPending
<1>7. CASE PostPayment(w)
  <2>1. j.op = "refund"
    BY <1>3, <1>7 DEF PostPayment
  <2>2. StillPending(j.request)
    BY <1>3, <1>7, <2>1 DEF PostPayment, RequestOK, HoldsClaim, Issues
  <2>3. claim' = [claim EXCEPT ![j.request].status = "ISSUED"]
    BY <1>3, <1>7, <2>1 DEF PostPayment
  <2> QED BY <1>4, <2>2, <2>3 DEF StillPending
<1>8. CASE CreateClaim(w)
  <2>1. claim[j.request].status = "NONE"
    BY <1>3, <1>8 DEF CreateClaim, RequestOK, PhasesOK, NamesOK, JobRow
  <2> QED BY <1>3, <1>4, <1>8, <2>1 DEF CreateClaim
<1> QED BY <1>1, <1>5, <1>6, <1>7, <1>8

LEMMA PaymentsAreDue ==
    ASSUME MoneyInv, Next, ledger'["CAPTURE"] # ledger["CAPTURE"]
    PROVE  status # "CANCELLED" /\ ledger'["CAPTURE"] <= payable
<1>1. PICK w \in Workers : PostPayment(w)
  BY OnlyPaymentsWriteTheLedger
<1>2. PICK j \in JobRow : j = job[w] /\ RequestOK(w, j) /\ j.phase = "post"
  BY <1>1, InFlight DEF PostPayment
<1>3. /\ NamesOK(j) /\ j.op \in {"collect", "payment", "refund"}
      /\ j.seen.status = status /\ j.seen.payable = payable /\ j.seen.ledger = ledger
  BY <1>2 DEF RequestOK, PhasesOK, HoldsOrder, JobRow
<1>4. Accepts(j) /\ j.ok /\ ledger' = With(ledger, j.type, j.amount)
  BY <1>1, <1>2 DEF PostPayment
<1> QED BY <1>3, <1>4, AcceptedFits

\* Whoever writes the ledger rolls all its rows up at the price in force.
LEMMA RowsAreRolledUp ==
    ASSUME MoneyInv, Next
    PROVE  UNCHANGED <<ledger, account>> \/ account' = AccountOf(ledger', payable)
<1> SUFFICES ASSUME ~ UNCHANGED <<ledger, account>>
             PROVE  account' = AccountOf(ledger', payable)
  OBVIOUS
<1>1. PICK w \in Workers : PostPayment(w)
  BY DEF Next, Arrive, Progress, CloseOrder, Crash, Collect, CorrectLedger, Discount, CancelOrder,
     RequestRefund, KdsRequestRefund, Approve, Reject, ClaimRefund, RejectRefund, AlreadyDecided,
     CreditWallet, LockOrder, RefusePayment, WritePrice, ReadPayments, ReadClaims, CreateClaim, money
<1>2. PICK j \in JobRow : j = job[w] /\ RequestOK(w, j) /\ j.phase = "post"
  BY <1>1, InFlight DEF PostPayment
<1>3. j.seen.payable = payable /\ j.seen.ledger = ledger
  BY <1>2 DEF RequestOK, HoldsOrder
<1>4. /\ ledger' = With(ledger, j.type, j.amount)
      /\ account' = AccountOf(With(j.seen.ledger, j.type, j.amount), j.seen.payable)
  BY <1>1, <1>2 DEF PostPayment
<1> QED BY <1>3, <1>4

\* Rows of the ledger and of the requests are well typed.
THEOREM MoneyIsTyped == Spec => []TypeOK
BY MoneyIsSafe, PTL

\* The order's net is what its payment rows say, discounts or not; whoever adds
\* a row leaves the columns those of all rows at the price in force, and nobody
\* else writes them.
THEOREM RollupIsTrue == Spec => RollupTellsTheLedger
<1>1. Init => MoneyInv
  BY InitialMoney
<1>2. MoneyInv /\ [Next]_vars => MoneyInv'
  BY EveryStepKeepsTheInvariant
<1>3. MoneyInv => NetTellsTheLedger
  BY DEF MoneyInv
<1>4. MoneyInv /\ [Next]_vars
      => [UNCHANGED <<ledger, account>> \/ account' = AccountOf(ledger', payable)]_vars
  BY RowsAreRolledUp
<1> QED BY <1>1, <1>2, <1>3, <1>4, PTL DEF Spec, RollupTellsTheLedger

\* Every issued refund request is paid exactly once, in cash or in store credit.
THEOREM RefundsArePaidOnce == Spec => []IssuedIsAccounted
BY MoneyIsSafe, PTL

\* A retried collection adds no second row under its idempotency key.
THEOREM KeysAreUsedOnce == Spec => []OneRowPerKey
BY MoneyIsSafe, PTL

\* A refund decision, once committed, is never overwritten by a late one,
\* however two admins' decisions of one request interleave.
THEOREM DecisionsAreFinal == Spec => DecidedIsFinal
<1>1. Init => MoneyInv
  BY InitialMoney
<1>2. MoneyInv /\ [Next]_vars => MoneyInv'
  BY EveryStepKeepsTheInvariant
<1>3. MoneyInv /\ [Next]_vars
      => [\A r \in Requests :
             claim[r].status \in {"ISSUED", "REJECTED"} => claim'[r] = claim[r]]_vars
  BY DecisionsStand
<1> QED BY <1>1, <1>2, <1>3, PTL DEF Spec, DecidedIsFinal

\* No money is taken on a cancelled order, nor past the price in force, not even
\* by a collection or a correction that had begun before the cancellation or
\* the discount.
THEOREM MoneyIsTakenAsDue == Spec => TakenAsDue
<1>1. Init => MoneyInv
  BY InitialMoney
<1>2. MoneyInv /\ [Next]_vars => MoneyInv'
  BY EveryStepKeepsTheInvariant
<1>3. ASSUME MoneyInv, [Next]_vars, ledger'["CAPTURE"] > ledger["CAPTURE"]
      PROVE  status # "CANCELLED" /\ ledger'["CAPTURE"] <= payable
  <2>1. ledger["CAPTURE"] \in Nat
    BY <1>3 DEF MoneyInv, TypeOK, PaymentType
  <2>2. ledger'["CAPTURE"] # ledger["CAPTURE"]
    BY <1>3, <2>1
  <2>3. Next
    BY <1>3, <2>2 DEF vars
  <2> QED BY <1>3, <2>2, <2>3, PaymentsAreDue
<1>4. MoneyInv /\ [Next]_vars
      => [ledger'["CAPTURE"] > ledger["CAPTURE"]
            => status # "CANCELLED" /\ ledger'["CAPTURE"] <= payable]_vars
  BY <1>3
<1> QED BY <1>1, <1>2, <1>4, PTL DEF Spec, TakenAsDue

-----------------------------------------------------------------------------
(* The refinement of OrderMoney *)

\* The amount of a refund request is written once, when it is made.
LEMMA AmountsStay ==
    ASSUME MoneyInv, Next, NEW r \in Requests, claim[r].status # "NONE"
    PROVE  claim'[r].amount = claim[r].amount
<1> SUFFICES ASSUME claim'[r] # claim[r] PROVE claim'[r].amount = claim[r].amount
  OBVIOUS
<1>1. PICK w \in Workers : RejectRefund(w) \/ CreditWallet(w) \/ PostPayment(w) \/ CreateClaim(w)
  BY OnlyDecisionsWriteClaims
<1>2. claim \in [Requests -> [status : ClaimStatus, amount : Nat]]
  BY DEF MoneyInv, TypeOK
<1>3. CASE RejectRefund(w)
  BY <1>2, <1>3 DEF RejectRefund
<1>4. CASE CreditWallet(w)
  BY <1>2, <1>4 DEF CreditWallet
<1>5. CASE PostPayment(w)
  BY <1>2, <1>5 DEF PostPayment
<1>6. CASE CreateClaim(w)
  <2>1. PICK j \in JobRow : j = job[w] /\ RequestOK(w, j) /\ j.phase = "create"
    BY <1>6, InFlight DEF CreateClaim
  <2>2. claim[j.request].status = "NONE"
    BY <2>1 DEF RequestOK, PhasesOK, NamesOK, JobRow
  <2> QED BY <1>2, <1>6, <2>1, <2>2 DEF CreateClaim
<1> QED BY <1>1, <1>3, <1>4, <1>5, <1>6

\* A step serves one worker, and leaves the others' requests alone.
LEMMA OneIsServed ==
    ASSUME MoneyInv, NEW w \in Workers, Arrive(w) \/ Progress(w) \/ Crash(w)
    PROVE  \A v \in Workers \ {w} : job'[v] = job[v]
<1>1. \E x : job' = [job EXCEPT ![w] = x]
  <2>1. CASE Arrive(w)
    BY <2>1 DEF Arrive, Collect, CorrectLedger, Discount, CancelOrder, RequestRefund,
       KdsRequestRefund, Approve, Reject, Start
  <2>2. CASE Progress(w)
    BY <2>2 DEF Progress, ClaimRefund, RejectRefund, AlreadyDecided, CreditWallet, LockOrder,
       PostPayment, RefusePayment, WritePrice, ReadPayments, ReadClaims, CreateClaim, Finish
  <2>3. CASE Crash(w)
    BY <2>3 DEF Crash, Finish
  <2> QED BY <2>1, <2>2, <2>3
<1> QED BY <1>1 DEF MoneyInv, TypeOK

\* A refund under way has been under way, or was just approved at the amount
\* that was asked for.
LEMMA RefundsAreApproved ==
    ASSUME MoneyInv, NEW w \in Workers, Arrive(w) \/ Progress(w) \/ Crash(w),
           job'[w] # Idle, job'[w].op = "refund"
    PROVE  \/ /\ job[w] # Idle /\ job[w].op = "refund"
              /\ job'[w].amount = job[w].amount /\ job'[w].request = job[w].request
           \/ /\ claim' = claim
              /\ job'[w].amount = claim[job'[w].request].amount
<1>1. job \in [Workers -> JobRow \cup {Idle}]
  BY DEF MoneyInv, TypeOK
<1>2. \A j : Start(w, j) => job'[w] = j
  BY <1>1 DEF Start
<1>3. CASE Arrive(w)
  <2>1. PICK r \in Requests : Approve(w, r, "refund")
    <3>1. \A t, a, k, ok : /\ ~ Start(w, LedgerJob("collect", t, a, k, ok))
                          /\ ~ Start(w, LedgerJob("payment", t, a, k, ok))
                          /\ ~ Start(w, DiscountJob(a))
      BY <1>2 DEF LedgerJob, DiscountJob
    <3>2. \A op, phase, r, a : Start(w, RefundJob(op, phase, r, a)) => op = "refund"
      BY <1>2 DEF RefundJob
    <3>3. \E r \in Requests, op \in {"refund", "credit"} : Approve(w, r, op)
      BY <1>3, <3>1, <3>2 DEF Arrive, Collect, CorrectLedger, Discount, CancelOrder, RequestRefund,
         KdsRequestRefund, Reject
    <3> QED BY <3>2, <3>3 DEF Approve
  <2>2. job'[w] = RefundJob("refund", "claim", r, claim[r].amount) /\ claim' = claim
    BY <1>2, <2>1 DEF Approve, money
  <2> QED BY <2>2 DEF RefundJob
<1>4. ~ Finish(w)
  BY <1>1 DEF Finish
<1>5. CASE Progress(w)
  <2>1. \/ ClaimRefund(w) \/ LockOrder(w) \/ ReadPayments(w) \/ ReadClaims(w)
    BY <1>4, <1>5 DEF Progress, RejectRefund, AlreadyDecided, CreditWallet, PostPayment,
       RefusePayment, CreateClaim, WritePrice
  <2>2. job[w] \in JobRow /\ job[w] # Idle
    BY <2>1, InFlight DEF ClaimRefund, LockOrder, ReadPayments, ReadClaims
  <2>3. CASE ClaimRefund(w)
    BY <1>1, <2>2, <2>3 DEF ClaimRefund, JobRow
  <2>4. CASE LockOrder(w)
    BY <1>1, <2>2, <2>4 DEF LockOrder, JobRow
  <2>5. ASSUME ReadPayments(w) \/ ReadClaims(w) PROVE FALSE
    <3>1. job[w].op \in {"request", "auto"}
      BY <2>2, <2>5, InFlight DEF ReadPayments, ReadClaims, RequestOK, PhasesOK, JobRow
    <3>2. job'[w] = Idle \/ job'[w].op = job[w].op
      <4>1. CASE ReadPayments(w)
        BY <1>1, <2>2, <4>1 DEF ReadPayments, JobRow
      <4>2. CASE ReadClaims(w)
        BY <1>1, <1>4, <2>2, <4>2 DEF ReadClaims, JobRow
      <4> QED BY <2>5, <4>1, <4>2
    <3> QED BY <3>1, <3>2
  <2> QED BY <2>1, <2>3, <2>4, <2>5
<1>6. CASE Crash(w)
  BY <1>4, <1>6 DEF Crash
<1> QED BY <1>3, <1>5, <1>6

LEMMA AmountsGoOnAgreeing ==
    ASSUME MoneyInv, AmountsAgree, [Next]_vars
    PROVE  AmountsAgree'
<1> SUFFICES ASSUME NEW w \in Workers, job'[w] # Idle, job'[w].op = "refund"
             PROVE  job'[w].amount = claim'[job'[w].request].amount
  BY DEF AmountsAgree
<1>1. CASE UNCHANGED vars
  BY <1>1 DEF vars, AmountsAgree
<1>2. CASE Next
  <2>1. CASE /\ job[w] # Idle /\ job[w].op = "refund"
             /\ job'[w].amount = job[w].amount /\ job'[w].request = job[w].request
    <3>1. PICK r \in Requests : r = job[w].request /\ claim[r].status # "NONE"
      BY <2>1 DEF MoneyInv, RequestsInv, RequestOK, NamesOK
    <3>2. claim'[r].amount = claim[r].amount
      BY <1>2, <3>1, AmountsStay
    <3> QED BY <2>1, <3>1, <3>2 DEF AmountsAgree
  <2>2. CASE job'[w] = job[w]
    BY <2>1, <2>2
  <2>3. CASE \E s \in {"DELIVERED", "NO_SHOW"} : CloseOrder(s)
    BY <2>2, <2>3 DEF CloseOrder
  <2>4. CASE \E v \in Workers : Arrive(v) \/ Progress(v) \/ Crash(v)
    <3>1. PICK v \in Workers : Arrive(v) \/ Progress(v) \/ Crash(v)
      BY <2>4
    <3>2. CASE v = w
      BY <2>1, <3>1, <3>2, RefundsAreApproved
    <3>3. CASE v # w
      BY <2>2, <3>1, <3>3, OneIsServed
    <3> QED BY <3>2, <3>3
  <2> QED BY <1>2, <2>3, <2>4 DEF Next
<1> QED BY <1>1, <1>2

-----------------------------------------------------------------------------
(* Step by step *)

\* What OrderMoney sees.
Mapped == <<status, payable, ledger["CAPTURE"], ledger["REFUND"], Refunds>>

LEMMA RefundRow ==
    ASSUME NEW r \in Requests
    PROVE  /\ Refunds[r] = [status |-> claim[r].status, amount |-> claim[r].amount,
                            paid |-> HowPaid(r)]
           /\ Refunds[r].status = claim[r].status
           /\ Refunds[r].amount = claim[r].amount
BY DEF Refunds

LEMMA SameRefunds ==
    ASSUME UNCHANGED <<claim, posted, credited>>
    PROVE  Refunds' = Refunds
BY DEF Refunds, HowPaid

LEMMA NothingOwing ==
    ASSUME MoneyInv, NEW r \in Requests, claim[r].status \in {"NONE", "PENDING"}
    PROVE  posted[r] = 0 /\ credited[r] = 0 /\ HowPaid(r) = "no"
BY DEF MoneyInv, TypeOK, IssuedIsAccounted, HowPaid

\* One request is decided, and paid as the decision says.
LEMMA DecisionMaps ==
    ASSUME MoneyInv, NEW r \in Requests, claim[r].status = "PENDING",
           NEW s, NEW paid, claim' = [claim EXCEPT ![r].status = s],
           HowPaid(r)' = paid,
           \A q \in Requests \ {r} : posted'[q] = posted[q] /\ credited'[q] = credited[q],
           status' = status, payable' = payable, ledger'["CAPTURE"] = ledger["CAPTURE"]
    PROVE  Money!Decide(r, s, paid)
<1>1. claim \in [Requests -> [status : ClaimStatus, amount : Nat]]
  BY DEF MoneyInv, TypeOK
<1>2. Refunds[r].status = "PENDING"
  BY RefundRow
<1> DEFINE After == [Refunds EXCEPT ![r].status = s, ![r].paid = paid]
<1>3. ASSUME NEW q \in Requests
      PROVE  Refunds'[q] = After[q]
  <2>1. Refunds'[q] = [status |-> claim'[q].status, amount |-> claim'[q].amount,
                       paid |-> HowPaid(q)']
    BY DEF Refunds
  <2>2. CASE q = r
    <3>1. claim'[q].status = s /\ claim'[q].amount = claim[q].amount
      BY <1>1, <2>2
    <3>2. After[q] = [status |-> s, amount |-> claim[q].amount, paid |-> paid]
      BY <2>2 DEF Refunds
    <3> QED BY <2>1, <2>2, <3>1, <3>2
  <2>3. CASE q # r
    <3>1. claim'[q] = claim[q] /\ HowPaid(q)' = HowPaid(q)
      BY <1>1, <2>3 DEF HowPaid
    <3>2. After[q] = Refunds[q]
      BY <2>3 DEF Refunds
    <3> QED BY <2>1, <3>1, <3>2, RefundRow
  <2> QED BY <2>2, <2>3
<1>4. Refunds' = After
  <2>1. Refunds' = [q \in Requests |-> Refunds'[q]] /\ After = [q \in Requests |-> After[q]]
    BY DEF Refunds
  <2> QED BY <1>3, <2>1
<1> QED BY <1>2, <1>4 DEF Money!Decide

LEMMA RejectionMaps ==
    ASSUME MoneyInv, NEW w \in Workers, RejectRefund(w)
    PROVE  \E r \in Requests : Money!Refuse(r)
<1>1. PICK r \in Requests :
         /\ r = job[w].request /\ claim[r].status = "PENDING"
         /\ claim' = [claim EXCEPT ![r].status = "REJECTED"]
         /\ UNCHANGED <<status, payable, ledger, posted, credited>>
  BY InFlight DEF RejectRefund, StillPending, RequestOK, NamesOK
<1>2. HowPaid(r)' = "no"
  BY <1>1, NothingOwing DEF HowPaid
<1>3. Money!Decide(r, "REJECTED", "no")
  BY <1>1, <1>2, DecisionMaps
<1> QED BY <1>1, <1>3 DEF Money!Refuse

LEMMA CreditMaps ==
    ASSUME MoneyInv, NEW w \in Workers, CreditWallet(w)
    PROVE  \E r \in Requests : Money!Credit(r)
<1>1. PICK r \in Requests : r = job[w].request /\ claim[r].status = "PENDING"
  BY InFlight DEF CreditWallet, RequestOK, PhasesOK, NamesOK, HoldsClaim, Issues, StillPending,
     JobRow
<1>2. /\ claim' = [claim EXCEPT ![r].status = "ISSUED"]
      /\ credited' = [credited EXCEPT ![r] = @ + 1]
      /\ UNCHANGED <<status, payable, ledger, posted>>
  BY <1>1 DEF CreditWallet
<1>3. posted'[r] = 0 /\ credited'[r] = 1 /\ \A q \in Requests \ {r} : credited'[q] = credited[q]
  BY <1>1, <1>2, NothingOwing DEF MoneyInv, TypeOK
<1>4. HowPaid(r)' = "credit"
  BY <1>3 DEF HowPaid
<1>5. Money!Decide(r, "ISSUED", "credit")
  BY <1>1, <1>2, <1>3, <1>4, DecisionMaps
<1> QED BY <1>2, <1>5 DEF Money!Credit

LEMMA CreationMaps ==
    ASSUME MoneyInv, NEW w \in Workers, CreateClaim(w)
    PROVE  \E r \in Requests : Money!Ask(r)
<1>1. PICK r \in Requests : r = job[w].request /\ claim[r].status = "NONE"
  BY InFlight DEF CreateClaim, RequestOK, PhasesOK, NamesOK, JobRow
<1>2. PICK a : a = job[w].amount
  OBVIOUS
<1>3. /\ claim' = [claim EXCEPT ![r] = [status |-> "PENDING", amount |-> a]]
      /\ UNCHANGED <<status, payable, ledger, posted, credited>>
  BY <1>1, <1>2 DEF CreateClaim
<1>4. claim \in [Requests -> [status : ClaimStatus, amount : Nat]]
  BY DEF MoneyInv, TypeOK
<1> DEFINE After == [Refunds EXCEPT ![r].status = "PENDING", ![r].amount = Refunds'[r].amount]
<1>5. ASSUME NEW q \in Requests
      PROVE  Refunds'[q] = After[q]
  <2>1. /\ Refunds'[q] = [status |-> claim'[q].status, amount |-> claim'[q].amount,
                          paid |-> HowPaid(q)']
        /\ HowPaid(q)' = HowPaid(q)
    BY <1>3 DEF Refunds, HowPaid
  <2>2. CASE q = r
    <3>1. claim'[q].status = "PENDING" /\ claim'[q].amount = a
      BY <1>3, <1>4, <2>2
    <3>2. Refunds'[r].amount = a
      BY <2>1, <2>2, <3>1
    <3>3. After[q] = [status |-> "PENDING", amount |-> Refunds'[r].amount, paid |-> HowPaid(q)]
      BY <2>2 DEF Refunds
    <3> QED BY <2>1, <3>1, <3>2, <3>3
  <2>3. CASE q # r
    <3>1. claim'[q] = claim[q]
      BY <1>3, <1>4, <2>3
    <3>2. After[q] = Refunds[q]
      BY <2>3 DEF Refunds
    <3> QED BY <2>1, <3>1, <3>2, RefundRow
  <2> QED BY <2>2, <2>3
<1>6. Refunds' = After
  <2>1. Refunds' = [q \in Requests |-> Refunds'[q]] /\ After = [q \in Requests |-> After[q]]
    BY DEF Refunds
  <2> QED BY <1>5, <2>1
<1>7. Refunds[r].status = "NONE"
  BY <1>1, RefundRow
<1> QED BY <1>3, <1>6, <1>7 DEF Money!Ask

\* A payment row: money taken, money given back, or nothing that counts.
LEMMA PaymentMaps ==
    ASSUME MoneyInv, AmountsAgree, Next, NEW w \in Workers, PostPayment(w)
    PROVE  Money!Take \/ (\E r \in Requests : Money!GiveBack(r)) \/ UNCHANGED Mapped
<1>1. PICK j \in JobRow : j = job[w] /\ job[w] # Idle /\ RequestOK(w, j) /\ j.phase = "post"
  BY InFlight DEF PostPayment
<1>2. /\ NamesOK(j) /\ j.op \in {"collect", "payment", "refund"}
      /\ j.seen.status = status /\ j.seen.payable = payable /\ j.seen.ledger = ledger
  BY <1>1 DEF RequestOK, PhasesOK, HoldsOrder, JobRow
<1>3. /\ Accepts(j)
      /\ IF j.ok THEN ledger' = With(ledger, j.type, j.amount) ELSE ledger' = ledger
      /\ posted' = IF j.op = "refund" THEN [posted EXCEPT ![j.request] = @ + 1] ELSE posted
      /\ claim' = IF j.op = "refund" THEN [claim EXCEPT ![j.request].status = "ISSUED"]
                  ELSE claim
      /\ UNCHANGED <<status, payable, credited>>
  BY <1>1 DEF PostPayment
<1>4. /\ ledger \in [PaymentType -> Nat] /\ j.type \in PaymentType /\ j.amount \in Nat
      /\ ledger["CAPTURE"] \in Nat /\ ledger["REFUND"] \in Nat /\ payable \in Nat
  BY DEF MoneyInv, TypeOK, JobRow, PaymentType
<1>5. j.ok => /\ ledger'[j.type] = ledger[j.type] + j.amount
              /\ \A u \in PaymentType \ {j.type} : ledger'[u] = ledger[u]
              /\ ledger'["REFUND"] <= ledger'["CAPTURE"]
  <2> SUFFICES ASSUME j.ok
               PROVE  /\ ledger'[j.type] = ledger[j.type] + j.amount
                      /\ \A u \in PaymentType \ {j.type} : ledger'[u] = ledger[u]
                      /\ ledger'["REFUND"] <= ledger'["CAPTURE"]
    OBVIOUS
  <2>1. ledger' = With(ledger, j.type, j.amount)
    BY <1>3
  <2>2. /\ ledger'[j.type] = ledger[j.type] + j.amount
        /\ \A u \in PaymentType \ {j.type} : ledger'[u] = ledger[u]
    BY <1>4, <2>1, WithFacts
  <2>3. ledger'["REFUND"] <= ledger'["CAPTURE"]
    BY <1>2, <1>3, <2>1, AcceptedFits
  <2> QED BY <2>2, <2>3
<1>6. CASE j.op = "refund"
  <2>1. PICK r \in Requests : r = j.request /\ claim[r].status = "PENDING"
    BY <1>1, <1>2, <1>6 DEF RequestOK, NamesOK, HoldsClaim, Issues, StillPending
  <2>2. /\ ledger'["REFUND"] = ledger["REFUND"] + j.amount
        /\ ledger'["CAPTURE"] = ledger["CAPTURE"]
        /\ ledger["REFUND"] + j.amount <= ledger["CAPTURE"]
    <3>1. j.ok /\ j.type = "REFUND"
      BY <1>2, <1>6 DEF NamesOK
    <3> QED BY <1>5, <3>1 DEF PaymentType
  <2>3. j.amount = claim[r].amount
    BY <1>1, <1>6, <2>1 DEF AmountsAgree
  <2>4. Refunds[r].amount = claim[r].amount
    BY RefundRow
  <2>5. posted' = [posted EXCEPT ![r] = @ + 1] /\ claim' = [claim EXCEPT ![r].status = "ISSUED"]
    BY <1>3, <1>6, <2>1
  <2>6. posted'[r] = 1 /\ \A q \in Requests \ {r} : posted'[q] = posted[q]
    BY <2>1, <2>5, NothingOwing DEF MoneyInv, TypeOK
  <2>7. HowPaid(r)' = "money"
    BY <2>6 DEF HowPaid
  <2>8. Money!Decide(r, "ISSUED", "money")
    BY <1>3, <2>1, <2>2, <2>5, <2>6, <2>7, DecisionMaps
  <2> QED BY <2>2, <2>3, <2>4, <2>8 DEF Money!GiveBack
<1>7. CASE j.op # "refund"
  <2>1. Refunds' = Refunds
    BY <1>3, <1>7, SameRefunds
  <2>2. j.ok => ledger'["REFUND"] = ledger["REFUND"]
    <3>1. j.type # "REFUND"
      BY <1>2, <1>7 DEF NamesOK
    <3> QED BY <1>5, <3>1 DEF PaymentType
  <2>3. CASE j.ok /\ ledger'["CAPTURE"] # ledger["CAPTURE"]
    <3>1. status # "CANCELLED" /\ ledger'["CAPTURE"] <= payable
      BY <2>3, PaymentsAreDue
    <3>2. ledger'["CAPTURE"] \in ledger["CAPTURE"] + 1 .. payable
      <4>1. ledger'["CAPTURE"] = ledger["CAPTURE"] + j.amount
        BY <1>5, <2>3 DEF PaymentType
      <4> QED BY <1>4, <2>3, <3>1, <4>1
    <3> QED BY <1>3, <2>1, <2>2, <2>3, <3>1, <3>2 DEF Money!Take
  <2>4. CASE j.ok /\ ledger'["CAPTURE"] = ledger["CAPTURE"]
    BY <1>3, <2>1, <2>2, <2>4 DEF Mapped
  <2>5. CASE ~ j.ok
    BY <1>3, <2>1, <2>5 DEF Mapped
  <2> QED BY <2>3, <2>4, <2>5
<1> QED BY <1>6, <1>7

LEMMA ClosingMaps ==
    ASSUME \/ \E s \in {"DELIVERED", "NO_SHOW"} : CloseOrder(s)
           \/ \E w \in Workers, r \in Requests : CancelOrder(w, r)
    PROVE  Money!Close
<1>1. /\ status = "OPEN" /\ status' \in {"DELIVERED", "NO_SHOW", "CANCELLED"}
      /\ UNCHANGED <<payable, ledger, claim, posted, credited>>
  BY DEF CloseOrder, CancelOrder
<1> QED BY <1>1, SameRefunds DEF Money!Close

LEMMA DiscountMaps ==
    ASSUME MoneyInv, NEW w \in Workers, WritePrice(w)
    PROVE  Money!Discount
<1>1. job[w].phase = "price" /\ payable' = job[w].amount
      /\ UNCHANGED <<status, ledger, claim, posted, credited>>
  BY DEF WritePrice
<1>2. job[w] \in JobRow /\ RequestOK(w, job[w])
  BY <1>1, InFlight
<1>3. payable' \in Nat /\ payable' <= Price
  BY <1>1, <1>2 DEF RequestOK, PhasesOK, NamesOK, JobRow
<1>4. payable' \in 0 .. Price
  BY <1>3, MoneyAssumption
<1> QED BY <1>1, <1>4, SameRefunds DEF Money!Discount

\* Reading, locking, refusing and crashing are nobody's business.
LEMMA NothingIsSeen ==
    ASSUME UNCHANGED money \/ UNCHANGED vars
    PROVE  UNCHANGED Mapped
<1>1. UNCHANGED <<status, payable, ledger, claim, posted, credited>>
  BY DEF money, vars
<1> QED BY <1>1, SameRefunds DEF Mapped

LEMMA EveryStepMaps ==
    ASSUME MoneyInv, AmountsAgree, [Next]_vars
    PROVE  Money!Next \/ UNCHANGED Mapped
<1>1. CASE UNCHANGED vars
  BY <1>1, NothingIsSeen
<1>2. CASE \E s \in {"DELIVERED", "NO_SHOW"} : CloseOrder(s)
  BY <1>2, ClosingMaps DEF Money!Next
<1>3. CASE \E w \in Workers : Arrive(w)
  <2>1. UNCHANGED money \/ \E w \in Workers, r \in Requests : CancelOrder(w, r)
    BY <1>3 DEF Arrive, Collect, CorrectLedger, Discount, RequestRefund, KdsRequestRefund, Approve, Reject
  <2> QED BY <2>1, ClosingMaps, NothingIsSeen DEF Money!Next
<1>4. CASE \E w \in Workers : Progress(w)
  <2>1. PICK w \in Workers : Progress(w)
    BY <1>4
  <2>2. CASE PostPayment(w)
    <3>1. Next
      BY <2>1 DEF Next
    <3> QED BY <2>2, <3>1, PaymentMaps DEF Money!Next
  <2>3. CASE RejectRefund(w) \/ CreditWallet(w) \/ CreateClaim(w)
    BY <2>3, RejectionMaps, CreditMaps, CreationMaps DEF Money!Next
  <2>4. CASE WritePrice(w)
    BY <2>4, DiscountMaps DEF Money!Next
  <2>5. CASE ~ (\/ PostPayment(w) \/ RejectRefund(w) \/ CreditWallet(w) \/ CreateClaim(w)
               \/ WritePrice(w))
    <3>1. UNCHANGED money
      BY <2>1, <2>5 DEF Progress, ClaimRefund, AlreadyDecided, LockOrder, RefusePayment,
         ReadPayments, ReadClaims
    <3> QED BY <3>1, NothingIsSeen
  <2> QED BY <2>2, <2>3, <2>4, <2>5
<1>5. CASE \E w \in Workers : Crash(w)
  BY <1>5, NothingIsSeen DEF Crash
<1> QED BY <1>1, <1>2, <1>3, <1>4, <1>5 DEF Next

LEMMA InitialMaps ==
    ASSUME Init
    PROVE  Money!Init
<1>1. PICK c \in {0, Price} : ledger = [t \in PaymentType |-> IF t = "CAPTURE" THEN c ELSE 0]
  BY DEF Init
<1>2. ledger["CAPTURE"] \in {0, Price} /\ ledger["REFUND"] = 0
  BY <1>1 DEF PaymentType
<1>3. Refunds = [r \in Requests |-> [status |-> "NONE", amount |-> 0, paid |-> "no"]]
  <2>1. \A r \in Requests : /\ claim[r] = [status |-> "NONE", amount |-> 0]
                            /\ HowPaid(r) = "no"
    BY DEF Init, HowPaid
  <2> QED BY <2>1 DEF Refunds
<1> QED BY <1>2, <1>3 DEF Init, Money!Init

\* All payments and refund decisions on an order, however they interleave,
\* fail and crash, implement OrderMoney: each is booked in one step or not at
\* all, each refund as it was asked for, and no decision is revised.
THEOREM MoneyIsBooked == Spec => ImplementsMoney
<1>1. Init => MoneyInv
  BY InitialMoney
<1>2. Init => AmountsAgree
  BY DEF Init, AmountsAgree
<1>3. MoneyInv /\ [Next]_vars => MoneyInv'
  BY EveryStepKeepsTheInvariant
<1>4. MoneyInv /\ AmountsAgree /\ [Next]_vars => AmountsAgree'
  BY AmountsGoOnAgreeing
<1>5. Init => Money!Init
  BY InitialMaps
<1>6. MoneyInv /\ AmountsAgree /\ [Next]_vars
      => [Money!Next]_<<status, payable, ledger["CAPTURE"], ledger["REFUND"], Refunds>>
  BY EveryStepMaps DEF Mapped
<1> QED BY <1>1, <1>2, <1>3, <1>4, <1>5, <1>6, PTL DEF Spec, ImplementsMoney, Money!Spec
=============================================================================
