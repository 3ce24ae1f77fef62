------------------------- MODULE OrderLifecycleProofs -------------------------
(***************************************************************************)
(* Theorems of OrderLifecycle, for every set of orders, drivers, requests  *)
(* and workers and every choice of enabled endpoints.                      *)
(***************************************************************************)
EXTENDS OrderLifecycle, SequenceTheorems, FiniteSetTheorems, TLAPS

-----------------------------------------------------------------------------
(* What the invariants of the runs need to be inductive *)

\* A driver is only ever assigned to an order in the kitchen's hands, and no
\* order rests in ACCEPTED: what self-cancel may close has no driver yet.
DriversComeLate ==
    \A o \in Orders :
        /\ order[o].status # "ACCEPTED"
        /\ order[o].status \in {"NONE", "PLACED"} => order[o].driver = NoDriver
        /\ order[o].source # "none" => order[o].status = "CANCELLED"

\* Only cancelling handlers call createForCancelledOrder, after their commit.
PromiseOK(j) ==
    /\ j.op \notin CancelOps => j.todo \in {<<>>, <<"pin">>, <<"chat">>}
    /\ j.op \in CancelOps /\ j.phase = "followup" => order[j.order].status = "CANCELLED"

PromisesInv == \A w \in Workers : job[w] # Idle => PromiseOK(job[w])

\* A record says VERIFIED or BYPASSED only of an order that was cleared, and a
\* driver's completion reaches its transaction only for such an order.
ClearanceOK(j) ==
    j.op = "complete" /\ j.phase \in {"write", "closing"} => j.order \in cleared

ClearanceInv ==
    /\ \A o \in Orders : pin[o] \in PinCleared => o \in cleared
    /\ \A w \in Workers : job[w] # Idle => ClearanceOK(job[w])

Approvals == {"kdsApprove", "adminApprove"}

\* The transaction has made its guarded update of the request row.
HoldsRequest(j) ==
    /\ j.op \in Approvals
    /\ \/ j.phase = "closing"
       \/ j.op = "kdsApprove" /\ j.phase = "write" /\ j.rows = <<j.order>>

\* A new request has an id of its own; an approval is of a request for the
\* order it closes, and has locked it as PENDING by the time it commits.
RequestOK(w, j) ==
    /\ j.op = "request" => request[j.request].status = "NONE"
    /\ j.op \in Approvals =>
         request[j.request].status # "NONE" /\ request[j.request].order = j.order
    /\ j.op \in CloseOps \ Approvals => j.request = NoRequest
    /\ HoldsRequest(j) =>
         rowLock[j.request] = w /\ request[j.request].status = "PENDING"

ApprovalInv ==
    /\ \A w \in Workers : job[w] # Idle => RequestOK(w, job[w])
    /\ \A v, w \in Workers :
          v # w /\ job[v] # Idle /\ job[w] # Idle /\ job[v].op = "request"
             /\ job[w].op = "request" => job[v].request # job[w].request

-----------------------------------------------------------------------------
(* Types of requests in flight *)

LEMMA JobIsTyped ==
    ASSUME order \in [Orders -> OrderRow],
           NEW op \in Ops, NEW o \in Orders, NEW to \in Status,
           NEW rows \in Seq(Orders \cup Requests),
           NEW todo \in Seq({"pin", "chat", "refund"})
    PROVE  /\ Job(op, o, to, rows, todo) \in JobRow
           /\ Job(op, o, to, rows, todo).phase = "write"
           /\ Job(op, o, to, rows, todo) # Idle
BY DEF Job, JobRow, Idle

LEMMA JobIsNotIdle ==
    ASSUME NEW j \in JobRow
    PROVE  j # Idle /\ j.phase # "idle"
BY DEF JobRow, Idle

LEMMA FollowUpsType ==
    ASSUME NEW op
    PROVE  FollowUps(op) \in Seq({"pin", "chat", "refund"})
<1>1. /\ <<"refund", "chat">> \in Seq({"pin", "chat", "refund"})
      /\ <<"chat", "refund">> \in Seq({"pin", "chat", "refund"})
      /\ <<"chat">> \in Seq({"pin", "chat", "refund"})
  OBVIOUS
<1>2. FollowUps(op) \in {<<"refund", "chat">>, <<"chat", "refund">>, <<"chat">>}
  BY ZenonT(20) DEF FollowUps
<1> QED BY <1>1, <1>2

LEMMA StartTypes ==
    ASSUME TypeOK, NEW w \in Workers, NEW j \in JobRow, Start(w, j),
           UNCHANGED Validated
    PROVE  TypeOK'
BY DEF TypeOK, Start, Validated

LEMMA ShortSequences ==
    /\ <<>> \in Seq(Orders \cup Requests)
    /\ <<>> \in Seq({"pin", "chat", "refund"})
    /\ <<"pin">> \in Seq({"pin", "chat", "refund"})
    /\ \A o \in Orders : <<o>> \in Seq(Orders \cup Requests)
    /\ \A o \in Orders, r \in Requests :
          <<o, r>> \in Seq(Orders \cup Requests) /\ <<r, o>> \in Seq(Orders \cup Requests)
OBVIOUS

LEMMA RowsAreTyped ==
    ASSUME TypeOK
    PROVE  /\ order \in [Orders -> OrderRow]
           /\ \A o \in Orders : /\ order[o].status \in Status
                               /\ order[o].driver \in Drivers \cup {NoDriver}
                               /\ order[o].fulfil \in Fulfilment
BY DEF TypeOK, OrderRow

-----------------------------------------------------------------------------
(* Starting a request: the job is typed, legal, and nothing else changes *)

\* A request that starts with a typed job its validation justifies preserves
\* the types and every other request's invariant.
Begins(w, j) ==
    /\ j \in JobRow
    /\ HandlerOK(w, j)
    /\ Start(w, j)
    /\ UNCHANGED Validated

LEMMA AcceptBegins ==
    ASSUME TypeOK, NEW w \in Workers, NEW o \in Orders, AcceptOrder(w, o)
    PROVE  \E j : Begins(w, j)
<1> DEFINE j == Job("accept", o, "PREPARING", <<>>, <<>>)
<1>1. j \in JobRow
  BY JobIsTyped, ShortSequences, RowsAreTyped DEF Ops, Status, Open, DriverActive
<1>2. HandlerOK(w, j)
  BY DEF AcceptOrder, HandlerOK, SameOrder, Validation, RowsToClaim, Closes, HasClaimed,
     Job, CloseOps, CancelOps
<1>3. Start(w, j) /\ UNCHANGED Validated
  BY DEF AcceptOrder, Validated
<1> QED BY <1>1, <1>2, <1>3 DEF Begins

LEMMA StatusBegins ==
    ASSUME TypeOK, NEW w \in Workers, NEW o \in Orders, NEW to \in Status,
           UpdateStatus(w, o, to)
    PROVE  \E j : Begins(w, j)
<1> DEFINE j == IF to \in Terminal THEN Job("status", o, to, <<o>>, FollowUps("status"))
                ELSE Job("status", o, to, <<>>, <<>>)
<1>1. j \in JobRow
  BY JobIsTyped, FollowUpsType, ShortSequences, RowsAreTyped DEF Ops, CloseOps
<1>2. HandlerOK(w, j)
  BY DEF UpdateStatus, HandlerOK, SameOrder, Validation, RowsToClaim, Closes, HasClaimed,
     Job, CloseOps, CancelOps, Open, DriverActive
<1>3. Start(w, j) /\ UNCHANGED Validated
  BY DEF UpdateStatus, Validated
<1> QED BY <1>1, <1>2, <1>3 DEF Begins

LEMMA AssignBegins ==
    ASSUME TypeOK, NEW w \in Workers, NEW o \in Orders, NEW d \in Drivers,
           NEW b \in BOOLEAN, AssignDriver(w, o, d, b)
    PROVE  \E j : Begins(w, j)
<1> DEFINE i == Job("assign", o, order[o].status, <<>>, <<>>)
           j == [i EXCEPT !.driver = d]
<1>1. i \in JobRow
  BY JobIsTyped, ShortSequences, RowsAreTyped DEF Ops
<1>2. j \in JobRow
  BY <1>1 DEF JobRow
<1>3. HandlerOK(w, j)
  BY DEF AssignDriver, HandlerOK, SameOrder, Validation, RowsToClaim, Closes, HasClaimed,
     Job, CloseOps, CancelOps
<1>4. Start(w, j) /\ UNCHANGED Validated
  BY DEF AssignDriver
<1> QED BY <1>2, <1>3, <1>4 DEF Begins

LEMMA StartBegins ==
    ASSUME TypeOK, NEW w \in Workers, NEW o \in Orders, StartDelivery(w, o)
    PROVE  \E j : Begins(w, j)
<1> DEFINE j == Job("start", o, "OUT_FOR_DELIVERY", <<>>, <<"pin">>)
<1>1. j \in JobRow
  BY JobIsTyped, ShortSequences, RowsAreTyped DEF Ops, Status, Open, DriverActive
<1>2. HandlerOK(w, j)
  BY DEF StartDelivery, HandlerOK, SameOrder, Validation, RowsToClaim, Closes, HasClaimed,
     Job, CloseOps, CancelOps
<1>3. Start(w, j) /\ UNCHANGED Validated
  BY DEF StartDelivery
<1> QED BY <1>1, <1>2, <1>3 DEF Begins
LEMMA RefreshPinBegins ==
    ASSUME TypeOK, NEW w \in Workers, NEW o \in Orders,
           RefreshPin(w, o)
    PROVE  \E j : Begins(w, j)
<1> DEFINE i == Job("pin", o, order[o].status, <<>>, <<"pin">>)
           j == [i EXCEPT !.phase = "followup"]
<1>1. i \in JobRow
  BY JobIsTyped, FollowUpsType, ShortSequences, RowsAreTyped DEF Ops
<1>2. j \in JobRow
  BY <1>1 DEF JobRow
<1>3. HandlerOK(w, j)
  BY DEF RefreshPin, HandlerOK, SameOrder, Validation, RowsToClaim, Closes, HasClaimed, Job,
         CloseOps, CancelOps, Open, DriverActive, Terminal, ActiveDelivery
<1>4. Start(w, j) /\ UNCHANGED Validated
  BY DEF RefreshPin, Validated
<1> QED BY <1>2, <1>3, <1>4 DEF Begins

LEMMA VerifyPinBegins ==
    ASSUME TypeOK, NEW w \in Workers, NEW o \in Orders, NEW right \in BOOLEAN,
           VerifyPin(w, o, right)
    PROVE  \E j : Begins(w, j)
<1> DEFINE i == Job("verifyPin", o, order[o].status, <<>>, <<>>)
           j == [i EXCEPT !.phase = "verify", !.right = right]
<1>1. i \in JobRow
  BY JobIsTyped, FollowUpsType, ShortSequences, RowsAreTyped DEF Ops
<1>2. j \in JobRow
  BY <1>1 DEF JobRow
<1>3. HandlerOK(w, j)
  BY DEF VerifyPin, HandlerOK, SameOrder, Validation, RowsToClaim, Closes, HasClaimed, Job,
         CloseOps, CancelOps, Open, DriverActive, Terminal
<1>4. Start(w, j) /\ UNCHANGED Validated
  BY DEF VerifyPin, Validated
<1> QED BY <1>2, <1>3, <1>4 DEF Begins

LEMMA SendMessageBegins ==
    ASSUME TypeOK, NEW w \in Workers, NEW o \in Orders,
           SendMessage(w, o)
    PROVE  \E j : Begins(w, j)
<1> DEFINE i == Job("message", o, order[o].status, <<>>, <<>>)
           j == [i EXCEPT !.phase = "message"]
<1>1. i \in JobRow
  BY JobIsTyped, FollowUpsType, ShortSequences, RowsAreTyped DEF Ops
<1>2. j \in JobRow
  BY <1>1 DEF JobRow
<1>3. HandlerOK(w, j)
  BY DEF SendMessage, HandlerOK, SameOrder, Validation, RowsToClaim, Closes, HasClaimed,
     Job, CloseOps, CancelOps, Open, DriverActive, Terminal
<1>4. Start(w, j) /\ UNCHANGED Validated
  BY DEF SendMessage, Checked, Validated
<1> QED BY <1>2, <1>3, <1>4 DEF Begins

LEMMA RequestBegins ==
    ASSUME TypeOK, NEW w \in Workers, NEW o \in Orders, NEW r \in Requests,
           RequestCancellation(w, o, r)
    PROVE  \E j : Begins(w, j)
<1> DEFINE i == Job("request", o, order[o].status, <<>>, <<>>)
           j == [i EXCEPT !.request = r]
<1>1. i \in JobRow
  BY JobIsTyped, FollowUpsType, ShortSequences, RowsAreTyped DEF Ops
<1>2. j \in JobRow
  BY <1>1 DEF JobRow
<1>3. HandlerOK(w, j)
  BY DEF RequestCancellation, HandlerOK, SameOrder, Validation, RowsToClaim, Closes,
     HasClaimed, Job, CloseOps, CancelOps, Open, DriverActive, Terminal
<1>4. Start(w, j) /\ UNCHANGED Validated
  BY DEF RequestCancellation, Checked, Validated
<1> QED BY <1>2, <1>3, <1>4 DEF Begins

LEMMA AdminCancelBegins ==
    ASSUME TypeOK, NEW w \in Workers, NEW o \in Orders,
           AdminCancel(w, o)
    PROVE  \E j : Begins(w, j)
<1> DEFINE j == Job("adminCancel", o, "CANCELLED", <<o>>, FollowUps("adminCancel"))
<1>2. j \in JobRow
  BY JobIsTyped, FollowUpsType, ShortSequences, RowsAreTyped DEF Ops, CloseOps, Status,
     Terminal
<1>3. HandlerOK(w, j)
  BY DEF AdminCancel, HandlerOK, SameOrder, Validation, RowsToClaim, Closes, HasClaimed,
     Job, CloseOps, CancelOps, Open, DriverActive, Terminal
<1>4. Start(w, j) /\ UNCHANGED Validated
  BY DEF AdminCancel, Checked, Validated
<1> QED BY <1>2, <1>3, <1>4 DEF Begins

LEMMA CustomerCancelBegins ==
    ASSUME TypeOK, NEW w \in Workers, NEW o \in Orders,
           CustomerCancel(w, o)
    PROVE  \E j : Begins(w, j)
<1> DEFINE j == Job("selfCancel", o, "CANCELLED", <<o>>, FollowUps("selfCancel"))
<1>2. j \in JobRow
  BY JobIsTyped, FollowUpsType, ShortSequences, RowsAreTyped DEF Ops, CloseOps, Status,
     Terminal
<1>3. HandlerOK(w, j)
  BY DEF CustomerCancel, HandlerOK, SameOrder, Validation, RowsToClaim, Closes, HasClaimed,
     Job, CloseOps, CancelOps, Open, DriverActive, Terminal, SelfCancellable
<1>4. Start(w, j) /\ UNCHANGED Validated
  BY DEF CustomerCancel, Checked, Validated
<1> QED BY <1>2, <1>3, <1>4 DEF Begins
LEMMA CompleteBegins ==
    ASSUME TypeOK, NEW w \in Workers, NEW o \in Orders, NEW right \in BOOLEAN,
           CompleteDelivery(w, o, right)
    PROVE  \E j : Begins(w, j)
<1> DEFINE i == Job("complete", o, "DELIVERED", <<o>>, FollowUps("complete"))
           j == [i EXCEPT !.phase = IF pin[o] \in PinCleared THEN "write" ELSE "verify",
                          !.right = right]
<1>1. i \in JobRow
  BY JobIsTyped, FollowUpsType, ShortSequences, RowsAreTyped
     DEF Ops, CloseOps, Status, Terminal
<1>2. j \in JobRow
  BY <1>1 DEF JobRow
<1>3. HandlerOK(w, j)
  BY RowsAreTyped DEF CompleteDelivery, CanComplete, HandlerOK, SameOrder, Validation,
     RowsToClaim, Closes, HasClaimed, Job, CloseOps, CancelOps, Open, DriverActive, Terminal
<1>4. Start(w, j) /\ UNCHANGED Validated
  BY DEF CompleteDelivery
<1> QED BY <1>2, <1>3, <1>4 DEF Begins

LEMMA NoPinBegins ==
    ASSUME TypeOK, NEW w \in Workers, NEW o \in Orders,
           CompleteDeliveryWithoutPin(w, o)
    PROVE  \E j : Begins(w, j)
<1> DEFINE c == Job("complete", o, "DELIVERED", <<o>>, FollowUps("complete"))
           n == Job("noPin", o, "NO_PIN_DELIVERY", <<o>>, FollowUps("noPin"))
<1>1. c \in JobRow /\ n \in JobRow
  BY JobIsTyped, FollowUpsType, ShortSequences, RowsAreTyped
     DEF Ops, CloseOps, Status, Terminal
<1>2. HandlerOK(w, c) /\ HandlerOK(w, n)
  BY RowsAreTyped DEF CompleteDeliveryWithoutPin, CanComplete, HandlerOK, SameOrder,
     Validation, RowsToClaim, Closes, HasClaimed, Job, CloseOps, CancelOps, Open,
     DriverActive, Terminal
<1>3. (Start(w, c) \/ Start(w, n)) /\ UNCHANGED Validated
  BY DEF CompleteDeliveryWithoutPin
<1> QED BY <1>1, <1>2, <1>3 DEF Begins

LEMMA ApproveBegins ==
    ASSUME TypeOK, NEW w \in Workers, NEW r \in Requests,
           NEW op \in {"kdsApprove", "adminApprove"}, Approve(w, r, op)
    PROVE  \E j : Begins(w, j)
<1> DEFINE o == request[r].order
           i == Job(op, o, "CANCELLED", ApproveRows(op, o, r), FollowUps(op))
           j == [i EXCEPT !.request = r]
<1>1. o \in Orders
  BY DEF TypeOK, RequestRow
<1>2. ApproveRows(op, o, r) \in Seq(Orders \cup Requests)
  BY <1>1, ShortSequences DEF ApproveRows
<1>3. i \in JobRow
  BY <1>1, <1>2, JobIsTyped, FollowUpsType, RowsAreTyped
     DEF Ops, CloseOps, Status, Terminal
<1>4. j \in JobRow
  BY <1>3 DEF JobRow
<1>5. HandlerOK(w, j)
  BY DEF Approve, ApproveRows, HandlerOK, SameOrder, Validation, RowsToClaim, Closes,
         HasClaimed, Job, CloseOps, CancelOps, Open, DriverActive, Terminal
<1>6. Start(w, j) /\ UNCHANGED Validated
  BY DEF Approve, Checked, Validated
<1> QED BY <1>4, <1>5, <1>6 DEF Begins
LEMMA DenyBegins ==
    ASSUME TypeOK, NEW w \in Workers, NEW r \in Requests, Deny(w, r)
    PROVE  \E j : Begins(w, j)
<1> DEFINE o == request[r].order
           i == Job("deny", o, "NONE", <<>>, <<>>)
           j == [i EXCEPT !.request = r]
<1>1. o \in Orders
  BY DEF TypeOK, RequestRow
<1>2. i \in JobRow
  BY <1>1, JobIsTyped, ShortSequences, RowsAreTyped DEF Ops, Status
<1>3. j \in JobRow
  BY <1>2 DEF JobRow
<1>4. HandlerOK(w, j)
  BY DEF HandlerOK, SameOrder, Validation, RowsToClaim, Closes, HasClaimed, Job, CloseOps,
     CancelOps
<1>5. Start(w, j) /\ UNCHANGED Validated
  BY DEF Deny, Checked, Validated
<1> QED BY <1>3, <1>4, <1>5 DEF Begins

-----------------------------------------------------------------------------
(* What one step may do to the requests it does not serve *)

\* The order rows keep what other requests rely on, and their locks.
Respects(w) ==
    /\ \A o \in Orders : order[o].status # "NONE" => SameOrder(order'[o], order[o])
    /\ \A v \in Workers \ {w} : /\ job'[v] = job[v]
                                /\ \A o \in Orders :
                                      rowLock[o] = v /\ order[o].status # "NONE" =>
                                      rowLock'[o] = v /\ order'[o] = order[o]

LEMMA OthersKeepTheirs ==
    ASSUME TypeOK, HandlersInv, NEW w, Respects(w),
           w \in Workers /\ job'[w] # Idle => HandlerOK(w, job[w])'
    PROVE  HandlersInv'
<1> SUFFICES ASSUME NEW v \in Workers, job'[v] # Idle, v # w
             PROVE  HandlerOK(v, job[v])'
  BY DEF HandlersInv
<1>1. job'[v] = job[v] /\ job[v] \in JobRow /\ HandlerOK(v, job[v])
  BY DEF Respects, TypeOK, HandlersInv
<1>2. job[v].order \in Orders
  BY <1>1 DEF JobRow
<1>3. /\ Validation(job[v])'
      /\ RowsToClaim(job[v])'
      /\ (job[v].phase = "closing" => Closes(job[v]))'
      /\ (job[v].phase = "followup" => job[v].todo # <<>>)'
  BY <1>1 DEF HandlerOK, SameOrder, Validation, RowsToClaim, Closes
<1>4. (job[v].op # "deny" => SameOrder(order[job[v].order], job[v].seen))'
  BY <1>1, <1>2 DEF HandlerOK, Respects, SameOrder
<1>5. (HasClaimed(job[v]) => rowLock[job[v].order] = v /\ OrderGuard(job[v]))'
  BY <1>1, <1>2 DEF HandlerOK, HasClaimed, Respects, OrderGuard, SameOrder, Closes, CloseOps
<1> QED BY <1>3, <1>4, <1>5 DEF HandlerOK

LEMMA BeginningKeepsTheInvariant ==
    ASSUME TypeOK, HandlersInv, NEW w \in Workers, \E j : Begins(w, j)
    PROVE  TypeOK' /\ HandlersInv'
<1> PICK j : Begins(w, j)
  OBVIOUS
<1>1. TypeOK'
  BY StartTypes DEF Begins
<1>2. job'[w] = j /\ \A v \in Workers \ {w} : job'[v] = job[v]
  BY DEF Begins, Start, TypeOK
<1>3. Respects(w)
  BY <1>2 DEF Begins, Validated, Respects, SameOrder
<1>4. HandlerOK(w, job[w])'
  BY <1>2 DEF Begins, Validated, HandlerOK, SameOrder, Validation, RowsToClaim, Closes,
     SameOrder, HasClaimed, OrderGuard
<1> QED BY <1>1, <1>3, <1>4, OthersKeepTheirs
-----------------------------------------------------------------------------
(* Pieces of the remaining steps *)

LEMMA FinishFacts ==
    ASSUME TypeOK, NEW w \in Workers, Finish(w)
    PROVE  /\ job' \in [Workers -> JobRow \cup {Idle}]
           /\ job'[w] = Idle
           /\ \A v \in Workers \ {w} : job'[v] = job[v]
BY DEF TypeOK, Finish

LEMMA SetAvailabilityType ==
    ASSUME TypeOK, NEW d \in Drivers, NEW a \in Availability, SetAvailability(d, a)
    PROVE  driver' \in [Drivers -> DriverRow]
<1>1. driver[d].completed \in Nat /\ (a = "ON_DELIVERY") \in BOOLEAN
  BY DEF TypeOK, DriverRow
<1>2. [avail |-> a, onDelivery |-> a = "ON_DELIVERY",
       completed |-> driver[d].completed] \in DriverRow
  BY <1>1 DEF DriverRow
<1> QED BY <1>2 DEF SetAvailability, TypeOK

LEMMA ReleaseFacts ==
    ASSUME TypeOK, NEW w \in Workers, ReleaseLocks(w)
    PROVE  /\ rowLock' \in [Orders \cup Requests -> Workers \cup {NoWorker}]
           /\ \A v \in Workers \ {w}, o \in Orders : rowLock[o] = v => rowLock'[o] = v
BY DEF TypeOK, ReleaseLocks

LEMMA ContinueFacts ==
    ASSUME TypeOK, HandlersInv, NEW w \in Workers, job[w] \in JobRow,
           job[w].rows = <<>>, Continue(w), job[w].op # "deny",
           SameOrder(order'[job[w].order], order[job[w].order])
    PROVE  /\ job' \in [Workers -> JobRow \cup {Idle}]
           /\ \A v \in Workers \ {w} : job'[v] = job[v]
           /\ (job[w] # Idle => HandlerOK(w, job[w]))'
<1> DEFINE j == job[w]
           k == [j EXCEPT !.phase = "followup"]
<1>1. k \in JobRow /\ j # Idle /\ HandlerOK(w, j)
  BY JobIsNotIdle DEF JobRow, HandlersInv
<1>2. job'[w] \in {k, Idle} /\ \A v \in Workers \ {w} : job'[v] = job[v]
  BY DEF Continue, TypeOK
<1>3. job' \in [Workers -> JobRow \cup {Idle}]
  BY <1>1 DEF Continue, TypeOK
<1>4. /\ k.op = j.op /\ k.seen = j.seen /\ k.to = j.to /\ k.order = j.order
      /\ k.rows = j.rows /\ k.request = j.request /\ k.driver = j.driver
      /\ k.phase = "followup"
  BY DEF JobRow
<1>5. ASSUME job'[w] = k
      PROVE  HandlerOK(w, job[w])'
  <2>1. Validation(job[w])'
    BY <1>1, <1>4, <1>5 DEF HandlerOK, Validation
  <2>2. RowsToClaim(job[w])'
    BY <1>4, <1>5 DEF RowsToClaim, Closes
  <2>3. SameOrder(order[job[w].order], job[w].seen)'
    BY <1>1, <1>4, <1>5 DEF HandlerOK, SameOrder
  <2>4. j.todo # <<>>
    BY <1>1, <1>5, JobIsNotIdle DEF Continue, TypeOK
  <2>5. k.todo = j.todo
    BY DEF JobRow
  <2> QED BY <1>4, <1>5, <2>1, <2>2, <2>3, <2>4, <2>5 DEF HandlerOK, HasClaimed
<1> QED BY <1>2, <1>3, <1>5

-----------------------------------------------------------------------------
(* Steps that serve no request *)

LEMMA CreateKeepsTheInvariant ==
    ASSUME TypeOK, HandlersInv, NEW o \in Orders, NEW s \in Status,
           NEW f \in Fulfilment, NEW c \in Owner,
           NEW hops \in Seq(Status \X Status), Create(o, s, f, c, hops)
    PROVE  TypeOK' /\ HandlersInv'
<1>1. NewRow(s, f, c) \in OrderRow
  BY DEF NewRow, OrderRow, Source
<1>2. TypeOK'
  BY <1>1 DEF TypeOK, Create
<1>3. Respects(NoWorker)
  BY DEF Create, Respects, TypeOK, OrderRow, SameOrder
<1> QED BY <1>2, <1>3, OthersKeepTheirs, StoreAssumption

LEMMA SideStepsKeepTheInvariant ==
    ASSUME TypeOK, HandlersInv,
           \/ \E o \in Orders : RecordCollection(o) \/ BypassPin(o)
           \/ \E d \in Drivers, a \in Availability : UpdateAvailability(d, a)
    PROVE  TypeOK' /\ HandlersInv'
<1>1. UNCHANGED <<order, rowLock, job>>
  BY DEF RecordCollection, BypassPin, UpdateAvailability
<1>2. TypeOK'
  <2>1. CASE \E o \in Orders : RecordCollection(o)
    BY <2>1 DEF TypeOK, RecordCollection
  <2>2. CASE \E o \in Orders : BypassPin(o)
    BY <2>2 DEF TypeOK, BypassPin, PinResult
  <2>3. CASE \E d \in Drivers, a \in Availability : UpdateAvailability(d, a)
    <3>1. PICK d \in Drivers, a \in Availability : UpdateAvailability(d, a)
      BY <2>3
    <3>2. driver' \in [Drivers -> DriverRow]
      BY <3>1, SetAvailabilityType DEF UpdateAvailability
    <3> QED BY <3>1, <3>2 DEF TypeOK, UpdateAvailability
  <2> QED BY <2>1, <2>2, <2>3
<1>3. Respects(NoWorker)
  BY <1>1 DEF Respects, SameOrder
<1> QED BY <1>2, <1>3, OthersKeepTheirs, StoreAssumption
-----------------------------------------------------------------------------
(* One-statement transactions *)

LEMMA BusyFacts ==
    ASSUME TypeOK, HandlersInv, NEW w \in Workers, job[w].phase # "idle"
    PROVE  /\ job[w] \in JobRow
           /\ job[w].order \in Orders
           /\ job[w].seen \in OrderRow
           /\ HandlerOK(w, job[w])
BY DEF TypeOK, HandlersInv, JobRow, Idle

LEMMA ClaimedCommit ==
    ASSUME TypeOK, HandlersInv, NEW w \in Workers, NEW op, op # "deny",
           Claims(w, op), Continue(w), UNCHANGED rowLock,
           \A p \in Orders \ {job[w].order} : order'[p] = order[p],
           /\ order'[job[w].order].status # "NONE"
           /\ order'[job[w].order].fulfil = order[job[w].order].fulfil
           /\ order'[job[w].order].owner = order[job[w].order].owner
    PROVE  /\ HandlersInv'
           /\ job' \in [Workers -> JobRow \cup {Idle}]
<1> DEFINE o == job[w].order
<1>1. job[w].phase = "write" /\ job[w].op = op /\ job[w].rows = <<>> /\ Unlocked(o)
  BY DEF Claims
<1>2. job[w] \in JobRow /\ o \in Orders
  BY <1>1, BusyFacts
<1>3. SameOrder(order'[o], order[o])
  BY DEF SameOrder
<1>4. /\ job' \in [Workers -> JobRow \cup {Idle}]
      /\ \A v \in Workers \ {w} : job'[v] = job[v]
      /\ (job[w] # Idle => HandlerOK(w, job[w]))'
  BY <1>1, <1>2, <1>3, ContinueFacts
<1>5. Respects(w)
  BY <1>1, <1>2, <1>3, <1>4, StoreAssumption DEF Respects, SameOrder, Unlocked
<1> QED BY <1>4, <1>5, OthersKeepTheirs

LEMMA StatusCommitTypes ==
    ASSUME TypeOK, HandlersInv, NEW w \in Workers, NEW s \in Status, s # "NONE",
           job[w].order \in Orders, SetStatus(job[w].order, s)
    PROVE  /\ order' \in [Orders -> OrderRow]
           /\ \A p \in Orders \ {job[w].order} : order'[p] = order[p]
           /\ order'[job[w].order].status # "NONE"
           /\ order'[job[w].order].fulfil = order[job[w].order].fulfil
           /\ order'[job[w].order].owner = order[job[w].order].owner
<1> DEFINE o == job[w].order
           row == [order[o] EXCEPT !.status = s]
<1>1. order[o] \in OrderRow /\ row \in OrderRow
  <2>1. order[o] \in OrderRow
    BY DEF TypeOK
  <2> QED BY <2>1 DEF OrderRow
<1>2. row.status = s /\ row.fulfil = order[o].fulfil /\ row.owner = order[o].owner
  BY <1>1 DEF OrderRow
<1>3. order' = [order EXCEPT ![o] = row]
  BY DEF SetStatus
<1> HIDE DEF o, row
<1>4. order \in [Orders -> OrderRow] /\ o \in Orders
  BY DEF TypeOK, o
<1>5. order' \in [Orders -> OrderRow] /\ order'[o] = row
  BY <1>1, <1>3, <1>4
<1>6. \A p \in Orders \ {o} : order'[p] = order[p]
  BY <1>3, <1>4
<1> QED BY <1>2, <1>5, <1>6 DEF o

LEMMA LogTypes ==
    ASSUME TypeOK, NEW o \in Orders, NEW hops \in Seq(Status \X Status), Log(o, hops)
    PROVE  trail' \in [Orders -> Seq(Status \X Status)]
<1>1. trail[o] \o hops \in Seq(Status \X Status)
  BY ConcatProperties DEF TypeOK
<1> QED BY <1>1 DEF Log, TypeOK

LEMMA CommitAcceptKeepsTheInvariant ==
    ASSUME TypeOK, HandlersInv, NEW w \in Workers, CommitAccept(w)
    PROVE  TypeOK' /\ HandlersInv'
<1>1. Claims(w, "accept") /\ Continue(w) /\ UNCHANGED rowLock
  BY DEF CommitAccept
<1>2. job[w].order \in Orders
  BY <1>1, BusyFacts DEF Claims
<1>3. "PREPARING" \in Status /\ "PLACED" \in Status /\ "ACCEPTED" \in Status
  BY DEF Status, Open, DriverActive
<1>4. /\ order' \in [Orders -> OrderRow]
      /\ \A p \in Orders \ {job[w].order} : order'[p] = order[p]
      /\ order'[job[w].order].status # "NONE"
      /\ order'[job[w].order].fulfil = order[job[w].order].fulfil
      /\ order'[job[w].order].owner = order[job[w].order].owner
  BY <1>2, <1>3, StatusCommitTypes DEF CommitAccept
<1>5. HandlersInv' /\ job' \in [Workers -> JobRow \cup {Idle}]
  BY <1>1, <1>4, ClaimedCommit
<1>6. << <<"PLACED", "ACCEPTED">>, <<"ACCEPTED", "PREPARING">> >> \in Seq(Status \X Status)
  BY <1>3
<1>7. trail' \in [Orders -> Seq(Status \X Status)]
  BY <1>2, <1>6, LogTypes DEF CommitAccept
<1> QED BY <1>4, <1>5, <1>7 DEF CommitAccept, TypeOK
LEMMA CommitStatusKeepsTheInvariant ==
    ASSUME TypeOK, HandlersInv, NEW w \in Workers, CommitStatus(w)
    PROVE  TypeOK' /\ HandlersInv'
<1>1. Claims(w, "status") /\ Continue(w) /\ UNCHANGED rowLock
  BY DEF CommitStatus
<1>2. /\ job[w].order \in Orders /\ job[w].seen \in OrderRow /\ job[w].to \in Status
      /\ HandlerOK(w, job[w])
  BY <1>1, BusyFacts DEF Claims, JobRow
<1>3. job[w].to # "NONE"
  BY <1>1, <1>2 DEF Claims, HandlerOK, Validation, StatusAllowed, ExternalDelivery,
                    AllowedTransitions
<1>4. /\ order' \in [Orders -> OrderRow]
      /\ \A p \in Orders \ {job[w].order} : order'[p] = order[p]
      /\ order'[job[w].order].status # "NONE"
      /\ order'[job[w].order].fulfil = order[job[w].order].fulfil
      /\ order'[job[w].order].owner = order[job[w].order].owner
  BY <1>2, <1>3, StatusCommitTypes DEF CommitStatus
<1>5. HandlersInv' /\ job' \in [Workers -> JobRow \cup {Idle}]
  BY <1>1, <1>4, ClaimedCommit
<1>6. << <<job[w].seen.status, job[w].to>> >> \in Seq(Status \X Status)
  BY <1>2 DEF OrderRow
<1>7. trail' \in [Orders -> Seq(Status \X Status)]
  BY <1>2, <1>6, LogTypes DEF CommitStatus
<1> QED BY <1>4, <1>5, <1>7 DEF CommitStatus, TypeOK

LEMMA CommitStartKeepsTheInvariant ==
    ASSUME TypeOK, HandlersInv, NEW w \in Workers, CommitStart(w)
    PROVE  TypeOK' /\ HandlersInv'
<1>1. Claims(w, "start") /\ Continue(w) /\ UNCHANGED rowLock
  BY DEF CommitStart
<1>2. job[w].order \in Orders
  BY <1>1, BusyFacts DEF Claims
<1>3. "READY" \in Status /\ "OUT_FOR_DELIVERY" \in Status
  BY DEF Status, Open, DriverActive
<1>4. /\ order' \in [Orders -> OrderRow]
      /\ \A p \in Orders \ {job[w].order} : order'[p] = order[p]
      /\ order'[job[w].order].status # "NONE"
      /\ order'[job[w].order].fulfil = order[job[w].order].fulfil
      /\ order'[job[w].order].owner = order[job[w].order].owner
  BY <1>2, <1>3, StatusCommitTypes DEF CommitStart
<1>5. HandlersInv' /\ job' \in [Workers -> JobRow \cup {Idle}]
  BY <1>1, <1>4, ClaimedCommit
<1>6. << <<"READY", "OUT_FOR_DELIVERY">> >> \in Seq(Status \X Status)
  BY <1>3
<1>7. trail' \in [Orders -> Seq(Status \X Status)]
  BY <1>2, <1>6, LogTypes DEF CommitStart
<1> QED BY <1>4, <1>5, <1>7 DEF CommitStart, TypeOK

LEMMA CommitAssignKeepsTheInvariant ==
    ASSUME TypeOK, HandlersInv, NEW w \in Workers, CommitAssign(w)
    PROVE  TypeOK' /\ HandlersInv'
<1> DEFINE o == job[w].order
           d == job[w].driver
           row == [order[o] EXCEPT !.driver = d]
<1>1. Claims(w, "assign") /\ Continue(w) /\ UNCHANGED rowLock
  BY DEF CommitAssign
<1>2. o \in Orders /\ HandlerOK(w, job[w])
  BY <1>1, BusyFacts DEF Claims
<1>3. d \in Drivers
  BY <1>1, <1>2 DEF Claims, HandlerOK, Validation
<1>4. order[o] \in OrderRow /\ order[o].status # "NONE"
  BY <1>1, <1>2 DEF TypeOK, HandlerOK, SameOrder, Claims
<1>5. row \in OrderRow
  BY <1>3, <1>4 DEF OrderRow
<1>6. row.status = order[o].status /\ row.fulfil = order[o].fulfil /\ row.owner = order[o].owner
  BY <1>4 DEF OrderRow
<1>7. order' = [order EXCEPT ![o] = row]
  BY DEF CommitAssign
<1>8. /\ order' \in [Orders -> OrderRow]
      /\ \A p \in Orders \ {job[w].order} : order'[p] = order[p]
      /\ order'[job[w].order].status # "NONE"
      /\ order'[job[w].order].fulfil = order[job[w].order].fulfil
      /\ order'[job[w].order].owner = order[job[w].order].owner
  BY <1>2, <1>4, <1>5, <1>6, <1>7 DEF TypeOK
<1>9. HandlersInv' /\ job' \in [Workers -> JobRow \cup {Idle}]
  BY <1>1, <1>8, ClaimedCommit
<1>10. driver' \in [Drivers -> DriverRow]
  BY <1>3, SetAvailabilityType DEF CommitAssign, Availability
<1> QED BY <1>8, <1>9, <1>10 DEF CommitAssign, TypeOK

-----------------------------------------------------------------------------
(* Steps that end a request without touching an order row *)

LEMMA EndingKeepsTheInvariant ==
    ASSUME TypeOK, HandlersInv, NEW w \in Workers, Finish(w), UNCHANGED order,
           ReleaseLocks(w) \/ UNCHANGED rowLock
    PROVE  /\ HandlersInv'
           /\ job' \in [Workers -> JobRow \cup {Idle}]
           /\ rowLock' \in [Orders \cup Requests -> Workers \cup {NoWorker}]
<1>1. /\ job' \in [Workers -> JobRow \cup {Idle}]
      /\ job'[w] = Idle
      /\ \A v \in Workers \ {w} : job'[v] = job[v]
  BY FinishFacts
<1>2. /\ rowLock' \in [Orders \cup Requests -> Workers \cup {NoWorker}]
      /\ \A v \in Workers \ {w}, o \in Orders : rowLock[o] = v => rowLock'[o] = v
  BY ReleaseFacts DEF TypeOK
<1>3. Respects(w)
  BY <1>1, <1>2 DEF Respects, SameOrder
<1> QED BY <1>1, <1>2, <1>3, OthersKeepTheirs

LEMMA RollbackKeepsTheInvariant ==
    ASSUME TypeOK, HandlersInv, NEW w \in Workers,
           Conflict(w) \/ DeadlockVictim(w) \/ Crash(w)
    PROVE  TypeOK' /\ HandlersInv'
<1>1. /\ Finish(w) /\ ReleaseLocks(w)
      /\ UNCHANGED <<order, trail, driver, request, noShows, pin, cleared, chat, paid, refund>>
  BY DEF Conflict, DeadlockVictim, Crash
<1> QED BY <1>1, EndingKeepsTheInvariant DEF TypeOK

LEMMA RequestDecided ==
    ASSUME TypeOK, NEW r \in Requests, NEW s \in {"APPROVED", "REJECTED"}
    PROVE  [request EXCEPT ![r].status = s] \in [Requests -> RequestRow]
<1>1. [request[r] EXCEPT !.status = s] \in RequestRow
  BY DEF TypeOK, RequestRow
<1> QED BY <1>1 DEF TypeOK

LEMMA RequestStepsKeepTheInvariant ==
    ASSUME TypeOK, HandlersInv, NEW w \in Workers, CommitRequest(w) \/ CommitDeny(w)
    PROVE  TypeOK' /\ HandlersInv'
<1>1. /\ Finish(w)
      /\ UNCHANGED <<order, trail, driver, noShows, pin, cleared, chat, paid, refund, rowLock>>
  BY DEF CommitRequest, CommitDeny
<1>2. job[w].order \in Orders /\ job[w].request \in Requests
  BY BusyFacts DEF CommitRequest, CommitDeny, HandlerOK, Validation
<1>3. CASE CommitRequest(w)
  <2>1. [status |-> "PENDING", order |-> job[w].order] \in RequestRow
    BY <1>2 DEF RequestRow
  <2>2. request' \in [Requests -> RequestRow]
    BY <2>1, <1>3 DEF CommitRequest, TypeOK
  <2> QED BY <1>1, <2>2, EndingKeepsTheInvariant DEF TypeOK
<1>4. CASE CommitDeny(w)
  <2> USE <1>4
  <2>1. request' \in [Requests -> RequestRow]
    BY <1>2, RequestDecided DEF CommitDeny
  <2> QED BY <1>1, <2>1, EndingKeepsTheInvariant DEF TypeOK
<1> QED BY <1>3, <1>4
-----------------------------------------------------------------------------
(* PIN, refund and conversation steps *)

LEMMA PhaseStepFacts ==
    ASSUME TypeOK, HandlersInv, NEW w \in Workers, NEW ph \in {"write", "verdict"},
           job[w].phase \in {"verify", "verdict"},
           ph = "write" => job[w].op = "complete",
           job' = [job EXCEPT ![w] = [job[w] EXCEPT !.phase = ph]],
           UNCHANGED <<order, rowLock>>
    PROVE  HandlersInv' /\ job' \in [Workers -> JobRow \cup {Idle}]
<1>1. job[w] \in JobRow /\ HandlerOK(w, job[w])
  BY BusyFacts
<1> DEFINE k == [job[w] EXCEPT !.phase = ph]
<1>2. /\ k \in JobRow /\ k.phase = ph
      /\ k.op = job[w].op /\ k.seen = job[w].seen /\ k.to = job[w].to
      /\ k.order = job[w].order /\ k.rows = job[w].rows /\ k.request = job[w].request
      /\ k.driver = job[w].driver
  BY <1>1 DEF JobRow
<1>3. job'[w] = k /\ \A v \in Workers \ {w} : job'[v] = job[v]
  BY DEF TypeOK
<1>4. job' \in [Workers -> JobRow \cup {Idle}]
  BY <1>2 DEF TypeOK
<1>5. HandlerOK(w, job[w])'
  <2>1. Validation(job[w])'
    BY <1>1, <1>2, <1>3 DEF HandlerOK, Validation
  <2>2. RowsToClaim(job[w])'
    BY <1>1, <1>2, <1>3 DEF HandlerOK, RowsToClaim, Closes
  <2>3. (job[w].op # "deny" => SameOrder(order[job[w].order], job[w].seen))'
    BY <1>1, <1>2, <1>3 DEF HandlerOK, SameOrder
  <2>4. ~ HasClaimed(job[w])'
    BY <1>2, <1>3 DEF HasClaimed
  <2> QED BY <1>2, <1>3, <2>1, <2>2, <2>3, <2>4 DEF HandlerOK
<1>6. Respects(w)
  BY <1>3 DEF Respects, SameOrder
<1> QED BY <1>4, <1>5, <1>6, OthersKeepTheirs

LEMMA PassedKeepsTheInvariant ==
    ASSUME TypeOK, HandlersInv, NEW w \in Workers, Passed(w),
           job[w].phase \in {"verify", "verdict"}, UNCHANGED <<order, rowLock>>
    PROVE  HandlersInv' /\ job' \in [Workers -> JobRow \cup {Idle}]
<1>1. CASE job[w].op = "complete"
  BY <1>1, PhaseStepFacts DEF Passed
<1>2. CASE job[w].op # "complete"
  BY <1>2, EndingKeepsTheInvariant DEF Passed, Finish
<1> QED BY <1>1, <1>2

LEMMA VerifyReadKeepsTheInvariant ==
    ASSUME TypeOK, HandlersInv, NEW w \in Workers, VerifyRead(w)
    PROVE  TypeOK' /\ HandlersInv'
<1>1. /\ job[w].phase = "verify"
      /\ UNCHANGED <<order, trail, driver, request, noShows, cleared, chat, paid, refund, rowLock>>
  BY DEF VerifyRead, AnswersAtOnce
<1>2. pin' \in [Orders -> PinResult]
  BY DEF VerifyRead, AnswersAtOnce, TypeOK, PinResult
<1>3. HandlersInv' /\ job' \in [Workers -> JobRow \cup {Idle}]
  <2>1. CASE Finish(w)
    BY <1>1, <2>1, EndingKeepsTheInvariant
  <2>2. CASE Passed(w)
    BY <1>1, <2>2, PassedKeepsTheInvariant
  <2>3. CASE job' = [job EXCEPT ![w].phase = "verdict"]
    BY <1>1, <2>3, PhaseStepFacts
  <2> QED BY <2>1, <2>2, <2>3 DEF VerifyRead, AnswersAtOnce
<1> QED BY <1>1, <1>2, <1>3 DEF TypeOK

LEMMA VerifyWriteKeepsTheInvariant ==
    ASSUME TypeOK, HandlersInv, NEW w \in Workers, VerifyWrite(w)
    PROVE  TypeOK' /\ HandlersInv'
<1>1. /\ job[w].phase = "verdict"
      /\ UNCHANGED <<order, trail, driver, request, noShows, chat, paid, refund, rowLock>>
  BY DEF VerifyWrite
<1>2. job[w].order \in Orders
  BY <1>1, BusyFacts
<1>3. pin' \in [Orders -> PinResult] /\ cleared' \subseteq Orders
  <2>1. \E x \in PinResult : pin' = [pin EXCEPT ![job[w].order] = x]
    BY DEF VerifyWrite, PinResult
  <2>2. cleared' \in {cleared, cleared \cup {job[w].order}}
    BY DEF VerifyWrite
  <2> QED BY <1>2, <2>1, <2>2 DEF TypeOK
<1>4. HandlersInv' /\ job' \in [Workers -> JobRow \cup {Idle}]
  <2>1. CASE Finish(w)
    BY <1>1, <2>1, EndingKeepsTheInvariant
  <2>2. CASE Passed(w)
    BY <1>1, <2>2, PassedKeepsTheInvariant
  <2> QED BY <2>1, <2>2 DEF VerifyWrite
<1> QED BY <1>1, <1>3, <1>4 DEF TypeOK

LEMMA PinAndMessageKeepTheInvariant ==
    ASSUME TypeOK, HandlersInv, NEW w \in Workers, GeneratePin(w) \/ OpenConversation(w)
    PROVE  TypeOK' /\ HandlersInv'
<1>1. /\ Finish(w)
      /\ UNCHANGED <<order, trail, driver, request, noShows, cleared, paid, refund, rowLock>>
  BY DEF GeneratePin, OpenConversation
<1>2. pin' \in [Orders -> PinResult] /\ chat' \in [Orders -> {"none", "open", "closed"}]
  BY DEF GeneratePin, OpenConversation, TypeOK, PinResult
<1> QED BY <1>1, <1>2, EndingKeepsTheInvariant DEF TypeOK

LEMMA FollowUpsKeepTheInvariant ==
    ASSUME TypeOK, HandlersInv, NEW w \in Workers,
           CreateForCancelledOrder(w) \/ CloseConversation(w)
    PROVE  TypeOK' /\ HandlersInv'
<1>1. /\ job[w].phase = "followup" /\ Next1(w)
      /\ UNCHANGED <<order, trail, driver, request, noShows, pin, cleared, paid, rowLock>>
  BY DEF CreateForCancelledOrder, CloseConversation
<1>2. job[w] \in JobRow /\ job[w].order \in Orders /\ HandlerOK(w, job[w])
  BY <1>1, BusyFacts
<1>3. chat' \in [Orders -> {"none", "open", "closed"}] /\ refund' \subseteq Orders
  BY <1>2 DEF CreateForCancelledOrder, CloseConversation, TypeOK
<1>4. HandlersInv' /\ job' \in [Workers -> JobRow \cup {Idle}]
  <2> DEFINE rest == Tail(job[w].todo)
             k == [job[w] EXCEPT !.todo = rest]
  <2>1. CASE rest = <<>>
    BY <1>1, <2>1, EndingKeepsTheInvariant DEF Next1, Finish
  <2>2. CASE rest # <<>>
    <3>1. rest \in Seq({"pin", "chat", "refund"})
      BY <1>1, <1>2 DEF HandlerOK, JobRow
    <3>2. /\ k \in JobRow /\ k.phase = "followup" /\ k.todo = rest
          /\ k.op = job[w].op /\ k.seen = job[w].seen /\ k.to = job[w].to
          /\ k.order = job[w].order /\ k.rows = job[w].rows /\ k.request = job[w].request
          /\ k.driver = job[w].driver
      BY <1>1, <1>2, <3>1 DEF JobRow
    <3>3. job' = [job EXCEPT ![w] = k]
      BY <1>1, <2>2 DEF Next1
    <3>4. job'[w] = k /\ \A v \in Workers \ {w} : job'[v] = job[v]
      BY <3>3 DEF TypeOK
    <3>5. job' \in [Workers -> JobRow \cup {Idle}]
      BY <3>2, <3>3 DEF TypeOK
    <3>6. HandlerOK(w, job[w])'
      <4>1. Validation(job[w])'
        BY <1>2, <3>2, <3>4 DEF HandlerOK, Validation
      <4>2. RowsToClaim(job[w])'
        BY <1>1, <1>2, <3>2, <3>4 DEF HandlerOK, RowsToClaim, Closes
      <4>3. (job[w].op # "deny" => SameOrder(order[job[w].order], job[w].seen))'
        BY <1>1, <1>2, <3>2, <3>4 DEF HandlerOK, SameOrder
      <4>4. ~ HasClaimed(job[w])'
        BY <3>2, <3>4 DEF HasClaimed
      <4> QED BY <2>2, <3>2, <3>4, <4>1, <4>2, <4>3, <4>4 DEF HandlerOK
    <3>7. Respects(w)
      BY <1>1, <3>4 DEF Respects, SameOrder
    <3> QED BY <3>5, <3>6, <3>7, OthersKeepTheirs
  <2> QED BY <2>1, <2>2
<1> QED BY <1>1, <1>3, <1>4 DEF TypeOK
-----------------------------------------------------------------------------
(* Closing an order *)

LEMMA RowsStillToClaim ==
    ASSUME TypeOK, HandlersInv, NEW w \in Workers,
           job[w].phase = "write", job[w].rows # <<>>
    PROVE  /\ Closes(job[w])
           /\ \/ job[w].rows = <<job[w].order>> /\ job[w].op # "adminApprove"
              \/ job[w].rows = <<job[w].request, job[w].order>> /\ job[w].op = "kdsApprove"
              \/ job[w].rows = <<job[w].order, job[w].request>> /\ job[w].op = "adminApprove"
              \/ job[w].rows = <<job[w].request>> /\ job[w].op = "adminApprove"
           /\ job[w].op \in {"kdsApprove", "adminApprove"} =>
                /\ job[w].request \in Requests
                /\ job[w].request # job[w].order
BY BusyFacts, StoreAssumption DEF HandlerOK, RowsToClaim, Validation

LEMMA ShortTails ==
    ASSUME NEW a, NEW b
    PROVE  /\ Head(<<a>>) = a /\ Tail(<<a>>) = <<>>
           /\ Head(<<a, b>>) = a /\ Tail(<<a, b>>) = <<b>> /\ <<b>> # <<>>
OBVIOUS

LEMMA LockRowKeepsTheInvariant ==
    ASSUME TypeOK, HandlersInv, NEW w \in Workers, LockRow(w)
    PROVE  TypeOK' /\ HandlersInv'
<1> DEFINE j == job[w]
           row == Head(j.rows)
           last == Tail(j.rows) = <<>>
           b == last /\ OtherActive(j.order, j.seen.driver)
           k == [j EXCEPT !.rows = Tail(j.rows),
                          !.phase = IF last THEN "closing" ELSE "write",
                          !.busy = b]
<1>1. /\ j.phase = "write" /\ j.rows # <<>> /\ Unlocked(row) /\ RowGuard(j, row)
      /\ rowLock' = [rowLock EXCEPT ![row] = w]
      /\ job' = [job EXCEPT ![w] = k]
      /\ UNCHANGED <<order, trail, driver, request, noShows, pin, cleared, chat, paid, refund>>
  BY DEF LockRow
<1>2. j \in JobRow /\ j.order \in Orders /\ HandlerOK(w, j)
  BY <1>1, BusyFacts
<1>3. /\ Closes(j)
      /\ \/ j.rows = <<j.order>> /\ j.op # "adminApprove"
         \/ j.rows = <<j.request, j.order>> /\ j.op = "kdsApprove"
         \/ j.rows = <<j.order, j.request>> /\ j.op = "adminApprove"
         \/ j.rows = <<j.request>> /\ j.op = "adminApprove"
      /\ j.op \in {"kdsApprove", "adminApprove"} =>
           j.request \in Requests /\ j.request # j.order
  BY <1>1, RowsStillToClaim
<1>4. row \in Orders \cup Requests /\ Tail(j.rows) \in Seq(Orders \cup Requests)
  BY <1>1, <1>2 DEF JobRow
<1>5. b \in BOOLEAN
  OBVIOUS
<1>6. /\ k \in JobRow /\ k.phase = (IF last THEN "closing" ELSE "write")
      /\ k.rows = Tail(j.rows)
      /\ k.op = j.op /\ k.seen = j.seen /\ k.to = j.to /\ k.order = j.order
      /\ k.request = j.request /\ k.driver = j.driver
  BY <1>2, <1>4, <1>5 DEF JobRow
<1>7. job'[w] = k /\ \A v \in Workers \ {w} : job'[v] = job[v]
  BY <1>1 DEF TypeOK
<1>8. \/ row = j.order /\ last /\ j.op # "adminApprove"
      \/ row = j.request /\ k.rows = <<j.order>> /\ ~ last /\ j.op = "kdsApprove"
      \/ row = j.order /\ k.rows = <<j.request>> /\ ~ last /\ j.op = "adminApprove"
      \/ row = j.request /\ last /\ j.op = "adminApprove" /\ j.rows = <<j.request>>
  <2>1. CASE j.rows = <<j.order>> /\ j.op # "adminApprove"
    BY <2>1, ShortTails
  <2>2. CASE j.rows = <<j.request, j.order>> /\ j.op = "kdsApprove"
    BY <1>6, <2>2, ShortTails
  <2>3. CASE j.rows = <<j.order, j.request>> /\ j.op = "adminApprove"
    BY <1>6, <2>3, ShortTails
  <2>4. CASE j.rows = <<j.request>> /\ j.op = "adminApprove"
    BY <2>4, ShortTails
  <2> QED BY <1>3, <2>1, <2>2, <2>3, <2>4
<1>9. TypeOK'
  <2>1. job' \in [Workers -> JobRow \cup {Idle}]
    BY <1>1, <1>6 DEF TypeOK
  <2>2. rowLock' \in [Orders \cup Requests -> Workers \cup {NoWorker}]
    BY <1>1, <1>4 DEF TypeOK
  <2> QED BY <1>1, <2>1, <2>2 DEF TypeOK
<1>10. HandlerOK(w, job[w])'
  <2>1. Validation(job[w])'
    BY <1>2, <1>6, <1>7 DEF HandlerOK, Validation
  <2>2. RowsToClaim(job[w])'
    BY <1>3, <1>6, <1>7, <1>8 DEF RowsToClaim, Closes
  <2>3. (job[w].phase = "closing" => Closes(job[w]))' /\ job'[w].phase # "followup"
    BY <1>3, <1>6, <1>7 DEF Closes
  <2>4. (job[w].op # "deny" => SameOrder(order[job[w].order], job[w].seen))'
    BY <1>1, <1>2, <1>6, <1>7 DEF HandlerOK, SameOrder
  <2>5. ASSUME HasClaimed(job[w])'
        PROVE  rowLock'[j.order] = w /\ OrderGuard(j)
    <3>1. CASE row = j.order
      BY <1>1, <1>2, <3>1, StoreAssumption DEF RowGuard, TypeOK
    <3>2. CASE row # j.order
      <4>1. j.rows = <<j.request>> /\ j.op = "adminApprove"
        BY <1>6, <1>7, <1>8, <2>5, <3>2 DEF HasClaimed
      <4>2. rowLock[j.order] = w /\ OrderGuard(j)
        BY <1>1, <1>2, <4>1 DEF HandlerOK, HasClaimed
      <4> QED BY <1>1, <1>2, <3>2, <4>2 DEF TypeOK
    <3> QED BY <3>1, <3>2
  <2>6. (HasClaimed(job[w]) => rowLock[job[w].order] = w /\ OrderGuard(job[w]))'
    BY <1>1, <1>6, <1>7, <2>5 DEF OrderGuard
  <2> QED BY <2>1, <2>2, <2>3, <2>4, <2>6 DEF HandlerOK
<1>11. Respects(w)
  BY <1>1, <1>4, <1>7, StoreAssumption DEF Respects, SameOrder, Unlocked, TypeOK
<1> QED BY <1>9, <1>10, <1>11, OthersKeepTheirs
LEMMA ClosingFacts ==
    ASSUME TypeOK, HandlersInv, NEW w \in Workers, CommitClose(w)
    PROVE  /\ job[w] \in JobRow /\ job[w].order \in Orders /\ job[w].seen \in OrderRow
           /\ HandlerOK(w, job[w]) /\ Closes(job[w])
           /\ job[w].rows = <<>>
           /\ rowLock[job[w].order] = w /\ OrderGuard(job[w])
           /\ SameOrder(order[job[w].order], job[w].seen)
           /\ order[job[w].order].status \in Open
<1>1. job[w].phase = "closing"
  BY DEF CommitClose
<1>2. /\ job[w] \in JobRow /\ job[w].order \in Orders /\ job[w].seen \in OrderRow
      /\ HandlerOK(w, job[w])
  BY <1>1, BusyFacts
<1>3. Closes(job[w])
  BY <1>1, <1>2 DEF HandlerOK
<1>4. rowLock[job[w].order] = w /\ OrderGuard(job[w]) /\ job[w].rows = <<>>
  BY <1>1, <1>2 DEF HandlerOK, HasClaimed, RowsToClaim
<1>5. SameOrder(order[job[w].order], job[w].seen)
  BY <1>2, <1>3 DEF HandlerOK, Closes, CloseOps
<1>6. job[w].seen.status \in Open
  BY <1>2, <1>3 DEF HandlerOK, Validation, Closes, CloseOps, CancelOps, Open, DriverActive
<1> QED BY <1>2, <1>3, <1>4, <1>5, <1>6 DEF OrderGuard

LEMMA ClosedRow ==
    ASSUME TypeOK, HandlersInv, NEW w \in Workers, CommitClose(w)
    PROVE  LET o == job[w].order IN
           /\ Closed(order[o], job[w]) \in OrderRow
           /\ order' = [order EXCEPT ![o] = Closed(order[o], job[w])]
           /\ order'[o].status = job[w].to /\ order'[o].status # "NONE"
           /\ order'[o].driver = order[o].driver
           /\ SameOrder(order'[o], order[o])
<1> DEFINE j == job[w]
           o == j.order
<1>1. order[o] \in OrderRow /\ j.to \in Status /\ j.to # "NONE"
  BY ClosingFacts DEF TypeOK, JobRow, Closes, Terminal
<1>2. CancelSource(j.op) \in Source
  BY DEF CancelSource, Source
<1>3. /\ Closed(order[o], j) \in OrderRow
      /\ Closed(order[o], j).status = j.to
      /\ Closed(order[o], j).driver = order[o].driver
      /\ Closed(order[o], j).fulfil = order[o].fulfil
      /\ Closed(order[o], j).owner = order[o].owner
  BY <1>1, <1>2 DEF Closed, OrderRow
<1>4. order' = [order EXCEPT ![o] = Closed(order[o], j)]
  BY DEF CommitClose
<1>5. order'[o] = Closed(order[o], j)
  BY <1>4, ClosingFacts DEF TypeOK
<1> QED BY <1>1, <1>3, <1>4, <1>5 DEF SameOrder

LEMMA CommitCloseKeepsTheInvariant ==
    ASSUME TypeOK, HandlersInv, NEW w \in Workers, CommitClose(w)
    PROVE  TypeOK' /\ HandlersInv'
<1> DEFINE j == job[w]
           o == j.order
           d == j.seen.driver
<1>1. j \in JobRow /\ o \in Orders /\ j.seen \in OrderRow
  BY ClosingFacts
<1>2. order' \in [Orders -> OrderRow] /\ SameOrder(order'[o], order[o])
  BY ClosingFacts, ClosedRow DEF TypeOK
<1>3. trail' \in [Orders -> Seq(Status \X Status)]
  <2>1. << <<j.seen.status, j.to>> >> \in Seq(Status \X Status)
    BY <1>1 DEF OrderRow, JobRow
  <2> QED BY <1>1, <2>1, LogTypes DEF CommitClose
<1>4. driver' \in [Drivers -> DriverRow]
  <2>1. CASE ~ ReleasesDriver(j)
    BY <2>1 DEF CommitClose, TypeOK
  <2>2. CASE ReleasesDriver(j)
    <3>1. d \in Drivers
      BY <1>1, <2>2 DEF OrderRow, ReleasesDriver
    <3>2. driver[d].completed \in Nat /\ j.busy \in BOOLEAN
      BY <1>1, <3>1 DEF TypeOK, DriverRow, JobRow
    <3>3. Released(driver[d], j) \in DriverRow
      BY <3>2 DEF Released, DriverRow, Availability
    <3> QED BY <2>2, <3>3 DEF CommitClose, TypeOK
  <2> QED BY <2>1, <2>2
<1>5. request' \in [Requests -> RequestRow]
  BY RequestDecided DEF CommitClose, TypeOK
<1>6. noShows' \in Nat
  BY DEF CommitClose, TypeOK
<1>7. /\ rowLock' \in [Orders \cup Requests -> Workers \cup {NoWorker}]
      /\ \A v \in Workers \ {w}, p \in Orders : rowLock[p] = v => rowLock'[p] = v
  BY ReleaseFacts DEF CommitClose
<1>8. /\ job' \in [Workers -> JobRow \cup {Idle}]
      /\ \A v \in Workers \ {w} : job'[v] = job[v]
      /\ (job[w] # Idle => HandlerOK(w, job[w]))'
  <2>1. j.rows = <<>> /\ j.op # "deny" /\ Continue(w)
    BY ClosingFacts DEF Closes, CloseOps, CommitClose
  <2> QED BY <1>1, <1>2, <2>1, ContinueFacts
<1>9. Respects(w)
  <2>1. \A p \in Orders \ {o} : order'[p] = order[p]
    BY <1>1 DEF CommitClose, TypeOK
  <2>2. rowLock[o] = w
    BY ClosingFacts
  <2> QED BY <1>1, <1>2, <1>7, <1>8, <2>1, <2>2 DEF Respects, SameOrder
<1>10. TypeOK'
  BY <1>2, <1>3, <1>4, <1>5, <1>6, <1>7, <1>8 DEF CommitClose, TypeOK
<1> QED BY <1>8, <1>9, <1>10, OthersKeepTheirs
-----------------------------------------------------------------------------
(* The invariant *)

LEMMA InitInvariant ==
    ASSUME Init
    PROVE  TypeOK /\ HandlersInv
<1> PICK d \in Drivers :
        /\ order = [o \in Orders |-> IF o \in LegacyOrders THEN LegacyRow(d)
                                     ELSE NewRow("NONE", "PICKUP", "customer")]
        /\ trail = [o \in Orders |-> IF o \in LegacyOrders THEN LegacyTrail ELSE <<>>]
        /\ driver = [e \in Drivers |->
                       LET out == e = d /\ LegacyOrders # {} IN
                       [avail |-> IF out THEN "ON_DELIVERY" ELSE "AVAILABLE",
                        onDelivery |-> out, completed |-> 0]]
        /\ request = [r \in Requests |->
                        [status |-> "NONE", order |-> CHOOSE o \in Orders : TRUE]]
        /\ noShows = 0
        /\ pin = [o \in Orders |-> IF o \in LegacyOrders THEN "LOCKED" ELSE "NONE"]
        /\ cleared = {}
        /\ chat = [o \in Orders |-> "none"]
        /\ paid = {}
        /\ refund = {}
        /\ rowLock = [row \in Orders \cup Requests |-> NoWorker]
        /\ job = [w \in Workers |-> Idle]
  BY Zenon DEF Init
<1>1. order \in [Orders -> OrderRow]
  <2>1. LegacyRow(d) \in OrderRow /\ NewRow("NONE", "PICKUP", "customer") \in OrderRow
    BY DEF LegacyRow, NewRow, OrderRow, Status, Open, DriverActive, Fulfilment, Owner,
       Source
  <2> QED BY <2>1
<1>2. trail \in [Orders -> Seq(Status \X Status)]
  <2>1. {"NONE", "PLACED", "ACCEPTED", "PREPARING", "READY", "OUT_FOR_DELIVERY"} \subseteq Status
    BY DEF Status, Open, DriverActive
  <2>2. LegacyTrail \in Seq(Status \X Status) /\ <<>> \in Seq(Status \X Status)
    BY <2>1 DEF LegacyTrail
  <2> QED BY <2>2
<1>3. driver \in [Drivers -> DriverRow]
  <2>1. \A b \in BOOLEAN :
          [avail |-> IF b THEN "ON_DELIVERY" ELSE "AVAILABLE",
           onDelivery |-> b, completed |-> 0] \in DriverRow
    BY DEF DriverRow, Availability
  <2>2. \A e \in Drivers : (e = d /\ LegacyOrders # {}) \in BOOLEAN
    OBVIOUS
  <2> QED BY <2>1, <2>2
<1>4. request \in [Requests -> RequestRow]
  <2>1. (CHOOSE o \in Orders : TRUE) \in Orders
    BY StoreAssumption
  <2> QED BY <2>1 DEF RequestRow
<1>5. TypeOK
  BY <1>1, <1>2, <1>3, <1>4 DEF TypeOK, PinResult
<1>6. HandlersInv
  BY DEF HandlersInv
<1> QED BY <1>5, <1>6

LEMMA ArrivalsKeepTheInvariant ==
    ASSUME TypeOK, HandlersInv, Arrive
    PROVE  TypeOK' /\ HandlersInv'
<1>1. ASSUME NEW o \in Orders, NEW f \in Fulfilment, PlaceOrder(o, f)
      PROVE  TypeOK' /\ HandlersInv'
  <2>1. "NONE" \in Status /\ "PLACED" \in Status /\ "customer" \in Owner
    BY DEF Status, Open, Owner
  <2>2. << <<"NONE", "PLACED">> >> \in Seq(Status \X Status)
    BY <2>1
  <2> QED BY <1>1, <2>1, <2>2, CreateKeepsTheInvariant DEF PlaceOrder
<1>2. ASSUME NEW o \in Orders, NEW f \in Fulfilment, NEW c \in Owner, CreatePosOrder(o, f, c)
      PROVE  TypeOK' /\ HandlersInv'
  <2>1. {"NONE", "PLACED", "ACCEPTED", "PREPARING"} \subseteq Status
    BY DEF Status, Open, DriverActive
  <2>2. << <<"NONE", "PLACED">>, <<"PLACED", "ACCEPTED">>, <<"ACCEPTED", "PREPARING">> >>
          \in Seq(Status \X Status)
    BY <2>1
  <2> QED BY <1>2, <2>1, <2>2, CreateKeepsTheInvariant DEF CreatePosOrder
<1>3. ASSUME NEW w \in Workers, NEW o \in Orders, AcceptOrder(w, o)
      PROVE  TypeOK' /\ HandlersInv'
  BY <1>3, AcceptBegins, BeginningKeepsTheInvariant
<1>4. ASSUME NEW w \in Workers, NEW o \in Orders, NEW to \in Status, UpdateStatus(w, o, to)
      PROVE  TypeOK' /\ HandlersInv'
  BY <1>4, StatusBegins, BeginningKeepsTheInvariant
<1>5. ASSUME NEW w \in Workers, NEW o \in Orders, NEW d \in Drivers, NEW b \in BOOLEAN,
             AssignDriver(w, o, d, b)
      PROVE  TypeOK' /\ HandlersInv'
  BY <1>5, AssignBegins, BeginningKeepsTheInvariant
<1>6. ASSUME NEW w \in Workers, NEW o \in Orders, NEW right \in BOOLEAN,
             VerifyPin(w, o, right) \/ CompleteDelivery(w, o, right)
      PROVE  TypeOK' /\ HandlersInv'
  BY <1>6, VerifyPinBegins, CompleteBegins, BeginningKeepsTheInvariant
<1>7. ASSUME NEW w \in Workers, NEW o \in Orders,
             \/ StartDelivery(w, o) \/ RefreshPin(w, o)
             \/ CompleteDeliveryWithoutPin(w, o) \/ SendMessage(w, o)
             \/ AdminCancel(w, o) \/ CustomerCancel(w, o)
      PROVE  TypeOK' /\ HandlersInv'
  BY <1>7, StartBegins, RefreshPinBegins, NoPinBegins, SendMessageBegins,
     AdminCancelBegins, CustomerCancelBegins, BeginningKeepsTheInvariant
<1>8. ASSUME NEW w \in Workers, NEW o \in Orders, NEW r \in Requests,
             RequestCancellation(w, o, r)
      PROVE  TypeOK' /\ HandlersInv'
  BY <1>8, RequestBegins, BeginningKeepsTheInvariant
<1>9. ASSUME NEW w \in Workers, NEW r \in Requests,
             \/ \E op \in {"kdsApprove", "adminApprove"} : Approve(w, r, op)
             \/ Deny(w, r)
      PROVE  TypeOK' /\ HandlersInv'
  BY <1>9, ApproveBegins, DenyBegins, BeginningKeepsTheInvariant
<1> QED
  BY <1>1, <1>2, <1>3, <1>4, <1>5, <1>6, <1>7, <1>8, <1>9, SideStepsKeepTheInvariant
  DEF Arrive

LEMMA ProgressKeepsTheInvariant ==
    ASSUME TypeOK, HandlersInv, NEW w \in Workers, Progress(w) \/ Crash(w)
    PROVE  TypeOK' /\ HandlersInv'
BY CommitAcceptKeepsTheInvariant, CommitStatusKeepsTheInvariant,
   CommitAssignKeepsTheInvariant, CommitStartKeepsTheInvariant,
   RequestStepsKeepTheInvariant, LockRowKeepsTheInvariant,
   CommitCloseKeepsTheInvariant, RollbackKeepsTheInvariant,
   VerifyReadKeepsTheInvariant, VerifyWriteKeepsTheInvariant,
   PinAndMessageKeepTheInvariant, FollowUpsKeepTheInvariant
DEF Progress

LEMMA StutterKeepsTheInvariant ==
    ASSUME TypeOK, HandlersInv, UNCHANGED vars
    PROVE  TypeOK' /\ HandlersInv'
<1>1. TypeOK'
  BY DEF vars, TypeOK
<1>2. Respects(NoWorker)
  BY DEF vars, Respects, SameOrder
<1> QED BY <1>1, <1>2, OthersKeepTheirs, StoreAssumption

\* The rows keep the types of their tables, and every request in flight keeps
\* what its validation and its guarded update established, however the
\* handlers interleave and wherever they crash.
THEOREM RowsAndHandlers == Spec => [](TypeOK /\ HandlersInv)
<1>1. Init => TypeOK /\ HandlersInv
  BY InitInvariant
<1>2. TypeOK /\ HandlersInv /\ [Next]_vars => (TypeOK /\ HandlersInv)'
  BY ArrivalsKeepTheInvariant, ProgressKeepsTheInvariant, StutterKeepsTheInvariant
  DEF Next
<1> QED BY <1>1, <1>2, PTL DEF Spec
-----------------------------------------------------------------------------
(* What one step does to an order row *)

\* The winner of a guarded write found the row in the open status it had read.
LEMMA ClaimedRowIsOpen ==
    ASSUME TypeOK, HandlersInv, NEW w \in Workers,
           NEW op \in {"accept", "status", "assign", "start"}, Claims(w, op)
    PROVE  /\ job[w] \in JobRow /\ job[w].order \in Orders
           /\ HandlerOK(w, job[w]) /\ job[w].op = op /\ job[w].rows = <<>>
           /\ job[w].phase = "write"
           /\ order[job[w].order].status = job[w].seen.status
           /\ order[job[w].order].status \in Open
<1>1. /\ job[w].phase = "write" /\ job[w].op = op /\ job[w].rows = <<>> /\ OrderGuard(job[w])
  BY DEF Claims
<1>2. job[w] \in JobRow /\ job[w].order \in Orders /\ HandlerOK(w, job[w])
  BY <1>1, BusyFacts
<1> QED BY <1>1, <1>2 DEF OrderGuard, HandlerOK, Validation, Open, DriverActive

\* The steps that change an order row.
OrderSteps ==
    \/ \E o \in Orders, s \in {"PLACED", "PREPARING"}, f \in Fulfilment, c \in Owner,
          hops \in Seq(Status \X Status) : Create(o, s, f, c, hops)
    \/ \E w \in Workers : \/ CommitAccept(w) \/ CommitStatus(w) \/ CommitAssign(w)
                          \/ CommitStart(w) \/ CommitClose(w)

LEMMA OtherStepsLeaveOrders ==
    ASSUME TypeOK, HandlersInv, Next
    PROVE  \/ OrderSteps
           \/ UNCHANGED <<order, noShows>> /\ (ClosureCompleted' = ClosureCompleted)
<1>1. CASE Arrive
  <2>1. ASSUME NEW o \in Orders, NEW f \in Fulfilment, PlaceOrder(o, f)
        PROVE  OrderSteps
    <3>1. "NONE" \in Status /\ "PLACED" \in Status /\ "customer" \in Owner
      BY DEF Status, Open, Owner
    <3>2. << <<"NONE", "PLACED">> >> \in Seq(Status \X Status)
      BY <3>1
    <3> QED BY <2>1, <3>1, <3>2 DEF PlaceOrder, OrderSteps
  <2>2. ASSUME NEW o \in Orders, NEW f \in Fulfilment, NEW c \in Owner, CreatePosOrder(o, f, c)
        PROVE  OrderSteps
    <3>1. {"NONE", "PLACED", "ACCEPTED", "PREPARING"} \subseteq Status
      BY DEF Status, Open, DriverActive
    <3>2. << <<"NONE", "PLACED">>, <<"PLACED", "ACCEPTED">>, <<"ACCEPTED", "PREPARING">> >>
            \in Seq(Status \X Status)
      BY <3>1
    <3> QED BY <2>2, <3>2 DEF CreatePosOrder, OrderSteps
  <2>3. CASE \E d \in Drivers, a \in Availability : UpdateAvailability(d, a)
    <3> PICK d \in Drivers, a \in Availability : UpdateAvailability(d, a)
      BY <2>3
    <3>1. driver' \in [Drivers -> DriverRow] /\ \A e \in Drivers : driver'[e].completed = driver[e].completed
      BY SetAvailabilityType DEF UpdateAvailability, SetAvailability, TypeOK
    <3> QED BY <3>1 DEF UpdateAvailability, ClosureCompleted
  <2>4. ASSUME \/ \E o \in Orders : RecordCollection(o) \/ BypassPin(o)
               \/ \E w \in Workers, o \in Orders :
                     \/ AcceptOrder(w, o)
                     \/ \E to \in Status : UpdateStatus(w, o, to)
                     \/ \E d \in Drivers, b \in BOOLEAN : AssignDriver(w, o, d, b)
                     \/ StartDelivery(w, o) \/ RefreshPin(w, o)
        PROVE  UNCHANGED <<order, noShows, driver>>
    BY <2>4 DEF RecordCollection, BypassPin, AcceptOrder, UpdateStatus, AssignDriver,
       StartDelivery, RefreshPin, Validated
  <2>5. ASSUME \/ \E w \in Workers, o \in Orders :
                     \/ \E right \in BOOLEAN :
                           VerifyPin(w, o, right) \/ CompleteDelivery(w, o, right)
                     \/ CompleteDeliveryWithoutPin(w, o)
                     \/ \E r \in Requests : RequestCancellation(w, o, r)
                     \/ AdminCancel(w, o) \/ CustomerCancel(w, o) \/ SendMessage(w, o)
               \/ \E w \in Workers, r \in Requests :
                     \/ \E op \in {"kdsApprove", "adminApprove"} : Approve(w, r, op)
                     \/ Deny(w, r)
        PROVE  UNCHANGED <<order, noShows, driver>>
    BY <2>5 DEF VerifyPin, CompleteDelivery, CompleteDeliveryWithoutPin,
       RequestCancellation, AdminCancel, CustomerCancel, SendMessage, Approve, Deny,
       Validated, Checked
  <2>6. UNCHANGED <<order, noShows, driver>> => ClosureCompleted' = ClosureCompleted
    BY DEF ClosureCompleted
  <2> QED BY <1>1, <2>1, <2>2, <2>3, <2>4, <2>5, <2>6 DEF Arrive
<1>2. ASSUME NEW w \in Workers, Progress(w) \/ Crash(w)
      PROVE  OrderSteps \/ UNCHANGED <<order, noShows, driver>>
  BY <1>2 DEF Progress, OrderSteps, CommitRequest, CommitDeny, LockRow, Conflict,
     DeadlockVictim, VerifyRead, VerifyWrite, GeneratePin, CreateForCancelledOrder,
     CloseConversation, OpenConversation, Crash
<1> QED BY <1>1, <1>2 DEF Next, ClosureCompleted

LEMMA TerminalStep ==
    ASSUME TypeOK, HandlersInv, [Next]_vars, NEW o \in Orders,
           order[o].status \in Terminal
    PROVE  order'[o] = order[o]
<1>1. CASE UNCHANGED order
  BY <1>1
<1>2. CASE OrderSteps
  <2>1. ASSUME NEW p \in Orders, order[p].status \notin Terminal,
               NEW r, order' = [order EXCEPT ![p] = r]
        PROVE  order'[o] = order[o]
    BY <2>1 DEF TypeOK
  <2>2. "NONE" \notin Terminal /\ Open \cap Terminal = {}
    BY DEF Terminal, Open, DriverActive
  <2>3. CASE \E p \in Orders, s \in {"PLACED", "PREPARING"}, f \in Fulfilment, c \in Owner,
                hops \in Seq(Status \X Status) : Create(p, s, f, c, hops)
    BY <2>1, <2>2, <2>3 DEF Create
  <2>4. ASSUME NEW w \in Workers,
               CommitAccept(w) \/ CommitStatus(w) \/ CommitAssign(w) \/ CommitStart(w)
        PROVE  order'[o] = order[o]
    <3>1. job[w].order \in Orders /\ order[job[w].order].status \in Open
      BY <2>4, ClaimedRowIsOpen DEF CommitAccept, CommitStatus, CommitAssign, CommitStart
    <3>2. \E r : order' = [order EXCEPT ![job[w].order] = r]
      BY <2>4 DEF CommitAccept, CommitStatus, CommitAssign, CommitStart, SetStatus
    <3> QED BY <2>1, <2>2, <3>1, <3>2
  <2>5. ASSUME NEW w \in Workers, CommitClose(w)
        PROVE  order'[o] = order[o]
    BY <2>1, <2>2, <2>5, ClosingFacts, ClosedRow
  <2> QED BY <1>2, <2>3, <2>4, <2>5 DEF OrderSteps
<1> QED BY <1>1, <1>2, OtherStepsLeaveOrders DEF vars

\* Orders, drivers, requests, PINs and the handlers at work are well typed.
THEOREM LifecycleIsTyped == Spec => []TypeOK
<1>1. TypeOK /\ HandlersInv => TypeOK
  OBVIOUS
<1> QED BY <1>1, RowsAndHandlers, PTL

\* No handler, however late, changes an order that is closed.
THEOREM ClosedForGood == Spec => TerminalIsFinal
<1>1. TypeOK /\ HandlersInv /\ [Next]_vars
        => [\A o \in Orders : order[o].status \in Terminal => order'[o] = order[o]]_vars
  BY TerminalStep
<1> QED BY <1>1, RowsAndHandlers, PTL DEF Spec, TerminalIsFinal
-----------------------------------------------------------------------------
(* Requests that only validate *)

\* The arrivals that write: the other endpoints start by reading, and their
\* worker holds what they found.
Writing ==
    \/ \E o \in Orders, f \in Fulfilment : PlaceOrder(o, f)
    \/ \E o \in Orders, f \in Fulfilment, c \in Owner : CreatePosOrder(o, f, c)
    \/ \E o \in Orders : RecordCollection(o) \/ BypassPin(o)
    \/ \E d \in Drivers, a \in Availability : UpdateAvailability(d, a)

LEMMA ArrivalsRead ==
    ASSUME Arrive
    PROVE  Writing \/ UNCHANGED Validated
<1>1. ASSUME NEW o \in Orders, NEW w \in Workers,
             \/ AcceptOrder(w, o) \/ (\E to \in Status : UpdateStatus(w, o, to))
             \/ StartDelivery(w, o) \/ RefreshPin(w, o)
             \/ (\E d \in Drivers, b \in BOOLEAN : AssignDriver(w, o, d, b))
             \/ (\E right \in BOOLEAN : VerifyPin(w, o, right) \/ CompleteDelivery(w, o, right))
             \/ CompleteDeliveryWithoutPin(w, o)
      PROVE  UNCHANGED Validated
  BY <1>1 DEF AcceptOrder, UpdateStatus, StartDelivery, RefreshPin, AssignDriver, VerifyPin,
     CompleteDelivery, CompleteDeliveryWithoutPin, Validated
<1>2. ASSUME NEW o \in Orders, NEW w \in Workers,
             \/ SendMessage(w, o) \/ AdminCancel(w, o) \/ CustomerCancel(w, o)
             \/ (\E r \in Requests : RequestCancellation(w, o, r))
      PROVE  UNCHANGED Validated
  BY <1>2 DEF SendMessage, AdminCancel, CustomerCancel, RequestCancellation, Checked,
     Validated
<1>3. ASSUME NEW w \in Workers, NEW r \in Requests,
             (\E op \in {"kdsApprove", "adminApprove"} : Approve(w, r, op)) \/ Deny(w, r)
      PROVE  UNCHANGED Validated
  BY <1>3 DEF Approve, Deny, Checked, Validated
<1> QED BY <1>1, <1>2, <1>3 DEF Arrive, Writing

-----------------------------------------------------------------------------
(* Self-cancel and the driver *)

\* What one order row may become in a step, seen by DriversComeLate.
RowIsLate(r) ==
    /\ r.status # "ACCEPTED"
    /\ r.status \in {"NONE", "PLACED"} => r.driver = NoDriver
    /\ r.source # "none" => r.status = "CANCELLED"
    /\ r.source = "CUSTOMER_SELF" => r.driver = NoDriver

LEMMA OneRowLate ==
    ASSUME TypeOK, DriversComeLate, SelfCancelStrandsNobody, NEW o \in Orders,
           NEW r, order' = [order EXCEPT ![o] = r], RowIsLate(r)
    PROVE  (DriversComeLate /\ SelfCancelStrandsNobody)'
BY DEF TypeOK, DriversComeLate, SelfCancelStrandsNobody, RowIsLate

LEMMA OpenRowChanges ==
    ASSUME TypeOK, HandlersInv, DriversComeLate, SelfCancelStrandsNobody, NEW w \in Workers,
           CommitAccept(w) \/ CommitStatus(w) \/ CommitAssign(w) \/ CommitStart(w)
    PROVE  (DriversComeLate /\ SelfCancelStrandsNobody)'
<1> DEFINE o == job[w].order
<1>1. PICK op \in {"accept", "status", "assign", "start"} :
         /\ Claims(w, op)
         /\ \/ op = "accept" /\ SetStatus(o, "PREPARING")
            \/ op = "status" /\ SetStatus(o, job[w].to)
            \/ op = "assign" /\ order' = [order EXCEPT ![o].driver = job[w].driver]
            \/ op = "start" /\ SetStatus(o, "OUT_FOR_DELIVERY")
  BY DEF CommitAccept, CommitStatus, CommitAssign, CommitStart
<1>2. /\ job[w] \in JobRow /\ o \in Orders /\ HandlerOK(w, job[w])
      /\ job[w].op = op /\ job[w].rows = <<>> /\ job[w].phase = "write"
      /\ order[o].status = job[w].seen.status /\ order[o].status \in Open
  BY <1>1, ClaimedRowIsOpen
<1>3. Validation(job[w]) /\ RowsToClaim(job[w])
  BY <1>2 DEF HandlerOK
<1>4. order[o] \in OrderRow /\ order[o].source = "none"
  BY <1>2 DEF TypeOK, DriversComeLate, Open, DriverActive
<1>5. op = "status" => job[w].to \in {"PREPARING", "READY", "OUT_FOR_DELIVERY"}
  <2>1. op = "status" => job[w].to \notin Terminal /\ StatusAllowed(job[w].seen, job[w].to)
    BY <1>2, <1>3, <<>> # <<o>> DEF RowsToClaim, Closes, CloseOps, Validation
  <2> QED BY <2>1 DEF StatusAllowed, ExternalDelivery, AllowedTransitions, Terminal
<1>6. CASE op # "assign"
  <2>1. PICK s \in {"PREPARING", "READY", "OUT_FOR_DELIVERY"} : SetStatus(o, s)
    BY <1>1, <1>5, <1>6
  <2>2. RowIsLate([order[o] EXCEPT !.status = s])
    BY <1>4 DEF OrderRow, RowIsLate
  <2> QED BY <1>2, <2>1, <2>2, OneRowLate DEF SetStatus
<1>7. CASE op = "assign"
  <2>1. order[o].status \in {"PREPARING", "READY"}
    BY <1>2, <1>3, <1>7 DEF Validation, DriversComeLate
  <2>2. RowIsLate([order[o] EXCEPT !.driver = job[w].driver])
    BY <1>4, <2>1 DEF OrderRow, RowIsLate
  <2> QED BY <1>1, <1>2, <1>7, <2>2, OneRowLate
<1> QED BY <1>6, <1>7

LEMMA ClosedRowIsLate ==
    ASSUME TypeOK, HandlersInv, DriversComeLate, SelfCancelStrandsNobody, NEW w \in Workers,
           CommitClose(w)
    PROVE  (DriversComeLate /\ SelfCancelStrandsNobody)'
<1> DEFINE j == job[w]
           o == j.order
<1>1. /\ o \in Orders /\ HandlerOK(w, j) /\ Closes(j) /\ OrderGuard(j)
      /\ order[o].status \in Open /\ order[o] \in OrderRow
  BY ClosingFacts DEF TypeOK
<1>2. order[o].source = "none"
  BY <1>1 DEF DriversComeLate, Open, DriverActive
<1>3. j.op = "selfCancel" => order[o].driver = NoDriver
  BY <1>1 DEF HandlerOK, Validation, OrderGuard, SelfCancellable, DriversComeLate
<1>4. RowIsLate(Closed(order[o], j))
  BY <1>1, <1>2, <1>3 DEF OrderRow, RowIsLate, Closed, CancelSource, Closes, Terminal
<1>5. order' = [order EXCEPT ![o] = Closed(order[o], j)]
  BY DEF CommitClose
<1> QED BY <1>1, <1>4, <1>5, OneRowLate

LEMMA DriversStayLate ==
    ASSUME TypeOK, HandlersInv, DriversComeLate, SelfCancelStrandsNobody, [Next]_vars
    PROVE  (DriversComeLate /\ SelfCancelStrandsNobody)'
<1>1. CASE UNCHANGED order
  BY <1>1 DEF DriversComeLate, SelfCancelStrandsNobody
<1>2. ASSUME NEW o \in Orders, NEW s \in {"PLACED", "PREPARING"}, NEW f \in Fulfilment,
             NEW c \in Owner, NEW hops, Create(o, s, f, c, hops)
      PROVE  (DriversComeLate /\ SelfCancelStrandsNobody)'
  <2>1. RowIsLate(NewRow(s, f, c)) /\ order' = [order EXCEPT ![o] = NewRow(s, f, c)]
    BY <1>2 DEF RowIsLate, NewRow, Create
  <2> QED BY <2>1, OneRowLate
<1>3. ASSUME NEW w \in Workers, CommitClose(w)
      PROVE  (DriversComeLate /\ SelfCancelStrandsNobody)'
  BY <1>3, ClosedRowIsLate
<1>4. ASSUME NEW w \in Workers,
             CommitAccept(w) \/ CommitStatus(w) \/ CommitAssign(w) \/ CommitStart(w)
      PROVE  (DriversComeLate /\ SelfCancelStrandsNobody)'
  BY <1>4, OpenRowChanges
<1> QED BY <1>1, <1>2, <1>3, <1>4, OtherStepsLeaveOrders DEF vars, OrderSteps

LEMMA LateDrivers == Spec => [](DriversComeLate /\ SelfCancelStrandsNobody)
<1>1. Init => DriversComeLate /\ SelfCancelStrandsNobody
  BY DEF Init, DriversComeLate, SelfCancelStrandsNobody, LegacyRow, NewRow
<1>2. /\ TypeOK /\ HandlersInv /\ DriversComeLate /\ SelfCancelStrandsNobody
      /\ [Next]_vars
      => (DriversComeLate /\ SelfCancelStrandsNobody)'
  BY DriversStayLate
<1> QED BY <1>1, <1>2, RowsAndHandlers, PTL DEF Spec

\* A customer cannot cancel an order away from under a driver: by the time
\* customerCancel's guarded update finds the order in the status it read, no
\* assignment can have been made, so leaving the profile alone strands nobody.
THEOREM NobodyIsStranded == Spec => []SelfCancelStrandsNobody
BY LateDrivers, PTL
-----------------------------------------------------------------------------
(* Refunds are for cancelled orders *)

\* What a step does to the promise of the request it serves.
KeepsPromise(w) ==
    /\ \A v \in Workers \ {w} : job'[v] = job[v]
    /\ job'[w] = Idle \/ PromiseOK(job[w])'

LEMMA NewPromise ==
    ASSUME TypeOK, NEW w \in Workers, NEW j, Start(w, j),
           j.phase # "followup" \/ j.op \notin CancelOps,
           j.op \in CancelOps \/ j.todo \in {<<>>, <<"pin">>, <<"chat">>}
    PROVE  KeepsPromise(w)
BY DEF TypeOK, Start, KeepsPromise, PromiseOK

LEMMA ArrivalsPromise ==
    ASSUME TypeOK, Arrive
    PROVE  (\E w \in Workers : KeepsPromise(w)) \/ UNCHANGED job
<1>1. ASSUME NEW w \in Workers, NEW o \in Orders,
             \/ AcceptOrder(w, o) \/ (\E to \in Status : UpdateStatus(w, o, to))
             \/ StartDelivery(w, o) \/ RefreshPin(w, o)
             \/ (\E d \in Drivers, b \in BOOLEAN : AssignDriver(w, o, d, b))
      PROVE  KeepsPromise(w)
  BY <1>1, NewPromise DEF AcceptOrder, UpdateStatus, StartDelivery, RefreshPin,
     AssignDriver, Job, FollowUps, CancelOps
<1>2. ASSUME NEW w \in Workers, NEW o \in Orders,
             \/ (\E right \in BOOLEAN : VerifyPin(w, o, right) \/ CompleteDelivery(w, o, right))
             \/ CompleteDeliveryWithoutPin(w, o) \/ SendMessage(w, o)
      PROVE  KeepsPromise(w)
  BY <1>2, NewPromise DEF VerifyPin, CompleteDelivery, CompleteDeliveryWithoutPin,
     SendMessage, Job, FollowUps, CancelOps
<1>3. ASSUME NEW w \in Workers, NEW o \in Orders,
             \/ AdminCancel(w, o) \/ CustomerCancel(w, o)
             \/ (\E r \in Requests : RequestCancellation(w, o, r))
      PROVE  KeepsPromise(w)
  BY <1>3, NewPromise DEF AdminCancel, CustomerCancel, RequestCancellation, Job, CancelOps
<1>4. ASSUME NEW w \in Workers, NEW r \in Requests,
             (\E op \in {"kdsApprove", "adminApprove"} : Approve(w, r, op)) \/ Deny(w, r)
      PROVE  KeepsPromise(w)
  BY <1>4, NewPromise DEF Approve, Deny, Job, CancelOps
<1>5. ASSUME \/ \E o \in Orders : RecordCollection(o) \/ BypassPin(o)
             \/ \E o \in Orders, f \in Fulfilment : PlaceOrder(o, f)
             \/ \E o \in Orders, f \in Fulfilment, c \in Owner : CreatePosOrder(o, f, c)
             \/ \E d \in Drivers, a \in Availability : UpdateAvailability(d, a)
      PROVE  UNCHANGED job
  BY <1>5 DEF RecordCollection, BypassPin, PlaceOrder, CreatePosOrder, Create,
     UpdateAvailability
<1> QED BY <1>1, <1>2, <1>3, <1>4, <1>5 DEF Arrive

\* After a commit the promised calls are due, and a cancelling handler's commit
\* has cancelled its order.
LEMMA CommitsPromise ==
    ASSUME TypeOK, HandlersInv, PromisesInv, NEW w \in Workers,
           job[w] \in JobRow, Continue(w),
           job[w].op \in CancelOps => order'[job[w].order].status = "CANCELLED"
    PROVE  KeepsPromise(w)
<1> DEFINE k == [job[w] EXCEPT !.phase = "followup"]
<1>1. k.op = job[w].op /\ k.todo = job[w].todo /\ k.order = job[w].order
  BY DEF JobRow
<1>2. job'[w] \in {k, Idle} /\ \A v \in Workers \ {w} : job'[v] = job[v]
  BY DEF Continue, TypeOK
<1>3. PromiseOK(job[w])
  BY JobIsNotIdle DEF PromisesInv
<1> QED BY <1>1, <1>2, <1>3 DEF KeepsPromise, PromiseOK

LEMMA ProgressPromises ==
    ASSUME TypeOK, HandlersInv, PromisesInv, NEW w \in Workers, Progress(w) \/ Crash(w)
    PROVE  KeepsPromise(w)
<1>1. ASSUME NEW op \in {"accept", "status", "assign", "start"}, Claims(w, op), Continue(w)
      PROVE  KeepsPromise(w)
  <2>1. job[w] \in JobRow /\ job[w].op = op
    BY <1>1, ClaimedRowIsOpen
  <2> QED BY <1>1, <2>1, CommitsPromise DEF CancelOps
<1>2. CASE CommitClose(w)
  <2>1. job[w].op \in CancelOps => job[w].to = "CANCELLED"
    BY <1>2, ClosingFacts DEF HandlerOK, Validation
  <2>2. order'[job[w].order].status = job[w].to /\ job[w] \in JobRow
    BY <1>2, ClosingFacts, ClosedRow
  <2> QED BY <1>2, <2>1, <2>2, CommitsPromise DEF CommitClose
<1>3. CASE Finish(w)
  BY <1>3, FinishFacts DEF KeepsPromise
<1>4. ASSUME NEW k \in JobRow, job' = [job EXCEPT ![w] = k], job[w] \in JobRow,
             k.op = job[w].op, k.todo = job[w].todo, k.phase # "followup"
      PROVE  KeepsPromise(w)
  <2>1. PromiseOK(job[w])
    BY <1>4, JobIsNotIdle DEF PromisesInv
  <2> QED BY <1>4, <2>1 DEF KeepsPromise, PromiseOK, TypeOK
<1>5. CASE LockRow(w)
  <2> DEFINE j == job[w]
             k == [j EXCEPT !.rows = Tail(j.rows),
                            !.phase = IF Tail(j.rows) = <<>> THEN "closing" ELSE "write",
                            !.busy = Tail(j.rows) = <<>> /\ OtherActive(j.order, j.seen.driver)]
  <2>1. j \in JobRow /\ j.rows # <<>> /\ job' = [job EXCEPT ![w] = k]
    BY <1>5, BusyFacts DEF LockRow
  <2>2. k.op = j.op /\ k.todo = j.todo /\ k.phase # "followup"
    BY <2>1 DEF JobRow
  <2>3. PromiseOK(j)
    BY <2>1, JobIsNotIdle DEF PromisesInv
  <2> QED BY <2>1, <2>2, <2>3 DEF KeepsPromise, PromiseOK, TypeOK
<1>6. ASSUME NEW ph \in {"write", "verdict"}, job[w].phase \in {"verify", "verdict"},
             job' = [job EXCEPT ![w] = [job[w] EXCEPT !.phase = ph]]
      PROVE  KeepsPromise(w)
  <2>1. job[w] \in JobRow
    BY <1>6, BusyFacts
  <2> DEFINE k == [job[w] EXCEPT !.phase = ph]
  <2>2. k \in JobRow /\ k.op = job[w].op /\ k.todo = job[w].todo /\ k.phase # "followup"
    BY <2>1 DEF JobRow
  <2>3. job' = [job EXCEPT ![w] = k]
    BY <1>6
  <2> QED BY <1>4, <2>1, <2>2, <2>3
<1>7. CASE VerifyRead(w) \/ VerifyWrite(w)
  <2>1. job[w].phase \in {"verify", "verdict"}
    BY <1>7 DEF VerifyRead, VerifyWrite
  <2>2. \/ Finish(w) \/ Passed(w)
        \/ job' = [job EXCEPT ![w] = [job[w] EXCEPT !.phase = "verdict"]]
    BY <1>7 DEF VerifyRead, VerifyWrite
  <2>3. ASSUME Passed(w)
        PROVE  Finish(w) \/ job' = [job EXCEPT ![w] = [job[w] EXCEPT !.phase = "write"]]
    BY <2>3 DEF Passed, Finish
  <2> QED BY <1>3, <1>6, <2>1, <2>2, <2>3
<1>8. CASE CreateForCancelledOrder(w) \/ CloseConversation(w)
  <2> DEFINE k == [job[w] EXCEPT !.todo = Tail(job[w].todo)]
  <2>1. /\ job[w].phase = "followup" /\ Next1(w) /\ UNCHANGED order
    BY <1>8 DEF CreateForCancelledOrder, CloseConversation
  <2>2. job[w] \in JobRow /\ job[w].todo # <<>> /\ PromiseOK(job[w])
    BY <2>1, BusyFacts, JobIsNotIdle DEF HandlerOK, PromisesInv
  <2>3. /\ k.op = job[w].op /\ k.order = job[w].order /\ k.phase = "followup"
        /\ k.todo = Tail(job[w].todo)
    BY <2>1, <2>2 DEF JobRow
  <2>4. job[w].op \notin CancelOps => Tail(job[w].todo) = <<>>
    BY <2>2, ShortTails DEF PromiseOK
  <2>5. \A v \in Workers \ {w} : job'[v] = job[v]
    BY <2>1 DEF Next1, TypeOK
  <2>6. job'[w] = IF Tail(job[w].todo) = <<>> THEN Idle ELSE k
    BY <2>1 DEF Next1, TypeOK
  <2> QED BY <2>1, <2>2, <2>3, <2>4, <2>5, <2>6 DEF KeepsPromise, PromiseOK
<1> QED BY <1>1, <1>2, <1>3, <1>5, <1>7, <1>8
    DEF Progress, CommitAccept, CommitStatus, CommitAssign, CommitStart, CommitRequest,
        CommitDeny, Conflict, DeadlockVictim, GeneratePin, OpenConversation, Crash

LEMMA PromisesAreKept ==
    ASSUME TypeOK, HandlersInv, PromisesInv, [Next]_vars
    PROVE  PromisesInv'
<1>1. ASSUME NEW v \in Workers, job[v] # Idle, job'[v] = job[v]
      PROVE  PromiseOK(job[v])'
  <2>1. PromiseOK(job[v]) /\ job[v].order \in Orders
    BY <1>1 DEF PromisesInv, TypeOK, JobRow
  <2>2. order[job[v].order].status = "CANCELLED" => order'[job[v].order].status = "CANCELLED"
    BY <2>1, TerminalStep DEF Terminal
  <2> QED BY <1>1, <2>1, <2>2 DEF PromiseOK
<1>2. (\E w \in Workers : KeepsPromise(w)) \/ UNCHANGED job
  BY ArrivalsPromise, ProgressPromises DEF Next, vars
<1>3. SUFFICES ASSUME NEW v \in Workers, job'[v] # Idle
               PROVE  PromiseOK(job[v])'
  BY DEF PromisesInv
<1> QED BY <1>1, <1>2, <1>3 DEF KeepsPromise

LEMMA ArrivalsPay ==
    ASSUME Arrive
    PROVE  paid \subseteq paid' /\ refund' = refund
BY ArrivalsRead DEF Writing, Validated, RecordCollection, BypassPin, PlaceOrder,
   CreatePosOrder, Create, UpdateAvailability

LEMMA RefundsStep ==
    ASSUME TypeOK, HandlersInv, PromisesInv, RefundOnlyForCancelled, [Next]_vars
    PROVE  RefundOnlyForCancelled'
<1>1. paid \subseteq paid'
  <2>1. CASE Arrive
    BY <2>1, ArrivalsPay
  <2>2. ASSUME NEW w \in Workers, Progress(w) \/ Crash(w)
        PROVE  paid' = paid
    BY <2>2 DEF Progress, CommitAccept, CommitStatus, CommitAssign, CommitStart,
       CommitRequest, CommitDeny, LockRow, CommitClose, Conflict, DeadlockVictim,
       VerifyRead, VerifyWrite, GeneratePin, CreateForCancelledOrder, CloseConversation,
       OpenConversation, Crash
  <2> QED BY <2>1, <2>2 DEF Next, vars
<1>2. ASSUME NEW o \in refund'
      PROVE  order[o].status = "CANCELLED" /\ o \in paid /\ o \in Orders
  <2>1. CASE o \in refund
    BY <2>1 DEF RefundOnlyForCancelled, TypeOK
  <2>2. CASE o \notin refund
    <3>1. PICK w \in Workers : CreateForCancelledOrder(w)
      <4>1. Arrive => refund' = refund
        BY ArrivalsPay
      <4>2. ASSUME NEW w \in Workers, Progress(w) \/ Crash(w)
            PROVE  CreateForCancelledOrder(w) \/ refund' = refund
        BY <4>2 DEF Progress, CommitAccept, CommitStatus, CommitAssign, CommitStart,
           CommitRequest, CommitDeny, LockRow, CommitClose, Conflict, DeadlockVictim,
           VerifyRead, VerifyWrite, GeneratePin, CloseConversation, OpenConversation, Crash
      <4> QED BY <1>2, <2>2, <4>1, <4>2 DEF Next, vars
    <3>2. /\ job[w].phase = "followup" /\ Head(job[w].todo) = "refund"
          /\ o = job[w].order /\ o \in paid
      BY <1>2, <2>2, <3>1 DEF CreateForCancelledOrder
    <3>3. job[w] \in JobRow /\ o \in Orders /\ job[w].todo # <<>> /\ PromiseOK(job[w])
      BY <3>2, BusyFacts, JobIsNotIdle DEF HandlerOK, PromisesInv
    <3>4. job[w].op \in CancelOps
      BY <3>2, <3>3, ShortTails DEF PromiseOK
    <3> QED BY <3>2, <3>3, <3>4 DEF PromiseOK
  <2> QED BY <2>1, <2>2
<1>3. ASSUME NEW o \in refund'
      PROVE  order'[o].status = "CANCELLED"
  BY <1>2, <1>3, TerminalStep DEF Terminal
<1> QED BY <1>1, <1>2, <1>3 DEF RefundOnlyForCancelled

\* A cancellation that lost the race for the order leaves no refund request:
\* money is promised back only for an order that was paid and is cancelled.
THEOREM RefundsFollowCancellations == Spec => []RefundOnlyForCancelled
<1>1. Init => PromisesInv /\ RefundOnlyForCancelled
  BY DEF Init, PromisesInv, RefundOnlyForCancelled
<1>2. /\ TypeOK /\ HandlersInv /\ PromisesInv /\ RefundOnlyForCancelled /\ [Next]_vars
      => (PromisesInv /\ RefundOnlyForCancelled)'
  BY PromisesAreKept, RefundsStep
<1> QED BY <1>1, <1>2, RowsAndHandlers, PTL DEF Spec
-----------------------------------------------------------------------------
(* No driver delivers without the PIN *)

\* What a step does to the clearance of orders and of the request it serves.
ClearancesGrow ==
    /\ cleared \subseteq cleared'
    /\ \A o \in Orders : pin'[o] \in PinCleared => pin[o] \in PinCleared \/ o \in cleared'

KeepsClearance(w) ==
    /\ \A v \in Workers \ {w} : job'[v] = job[v]
    /\ job'[w] = Idle \/ ClearanceOK(job[w])'

LEMMA NewClearance ==
    ASSUME TypeOK, NEW w \in Workers, NEW j, Start(w, j), UNCHANGED <<pin, cleared>>,
           \/ j.op # "complete"
           \/ j.phase = "verify"
           \/ j.order \in cleared
    PROVE  KeepsClearance(w) /\ ClearancesGrow
BY DEF TypeOK, Start, KeepsClearance, ClearanceOK, ClearancesGrow

LEMMA ArrivalsClear ==
    ASSUME TypeOK, ClearanceInv, Arrive
    PROVE  ClearancesGrow /\ (UNCHANGED job \/ \E w \in Workers : KeepsClearance(w))
<1>1. ASSUME NEW w \in Workers, NEW o \in Orders,
             \/ AcceptOrder(w, o) \/ (\E to \in Status : UpdateStatus(w, o, to))
             \/ StartDelivery(w, o) \/ RefreshPin(w, o)
             \/ (\E d \in Drivers, b \in BOOLEAN : AssignDriver(w, o, d, b))
      PROVE  KeepsClearance(w) /\ ClearancesGrow
  BY <1>1, NewClearance DEF AcceptOrder, UpdateStatus, StartDelivery, RefreshPin,
     AssignDriver, Job, Validated
<1>2. ASSUME NEW w \in Workers, NEW o \in Orders,
             \/ (\E right \in BOOLEAN : VerifyPin(w, o, right) \/ CompleteDelivery(w, o, right))
             \/ CompleteDeliveryWithoutPin(w, o)
      PROVE  KeepsClearance(w) /\ ClearancesGrow
  BY <1>2, NewClearance DEF VerifyPin, CompleteDelivery, CompleteDeliveryWithoutPin, Job,
     Validated, ClearanceInv
<1>3. ASSUME NEW w \in Workers, NEW o \in Orders,
             \/ AdminCancel(w, o) \/ CustomerCancel(w, o) \/ SendMessage(w, o)
             \/ (\E r \in Requests : RequestCancellation(w, o, r))
      PROVE  KeepsClearance(w) /\ ClearancesGrow
  BY <1>3, NewClearance DEF AdminCancel, CustomerCancel, SendMessage, RequestCancellation,
     Job, Checked
<1>4. ASSUME NEW w \in Workers, NEW r \in Requests,
             (\E op \in {"kdsApprove", "adminApprove"} : Approve(w, r, op)) \/ Deny(w, r)
      PROVE  KeepsClearance(w) /\ ClearancesGrow
  BY <1>4, NewClearance DEF Approve, Deny, Job, Checked
<1>5. ASSUME \/ \E o \in Orders : RecordCollection(o) \/ BypassPin(o)
             \/ \E o \in Orders, f \in Fulfilment : PlaceOrder(o, f)
             \/ \E o \in Orders, f \in Fulfilment, c \in Owner : CreatePosOrder(o, f, c)
             \/ \E d \in Drivers, a \in Availability : UpdateAvailability(d, a)
      PROVE  ClearancesGrow /\ UNCHANGED job
  BY <1>5 DEF RecordCollection, BypassPin, PlaceOrder, CreatePosOrder, Create,
     UpdateAvailability, ClearancesGrow, TypeOK
<1> QED BY <1>1, <1>2, <1>3, <1>4, <1>5 DEF Arrive

LEMMA ProgressClears ==
    ASSUME TypeOK, HandlersInv, ClearanceInv, NEW w \in Workers, Progress(w) \/ Crash(w)
    PROVE  ClearancesGrow /\ KeepsClearance(w)
<1>1. ASSUME Finish(w)
      PROVE  KeepsClearance(w)
  BY <1>1, FinishFacts DEF KeepsClearance
<1>2. ASSUME NEW k, job' = [job EXCEPT ![w] = k], ~ k.phase \in {"write", "closing"}
      PROVE  KeepsClearance(w)
  BY <1>2 DEF KeepsClearance, ClearanceOK, TypeOK
<1>3. ASSUME Continue(w), job[w] \in JobRow
      PROVE  KeepsClearance(w)
  <2>1. [job[w] EXCEPT !.phase = "followup"].phase = "followup"
    BY <1>3 DEF JobRow
  <2> QED BY <1>1, <1>2, <1>3, <2>1 DEF Continue, Finish
<1>4. UNCHANGED <<pin, cleared>> => ClearancesGrow
  BY DEF ClearancesGrow
<1>5. CASE \/ CommitAccept(w) \/ CommitStatus(w) \/ CommitAssign(w) \/ CommitStart(w)
  <2>1. UNCHANGED <<pin, cleared>> /\ Continue(w) /\ job[w].phase = "write"
    BY <1>5 DEF CommitAccept, CommitStatus, CommitAssign, CommitStart, Claims
  <2> QED BY <1>3, <1>4, <2>1, BusyFacts
<1>6. CASE CommitClose(w)
  BY <1>3, <1>4, <1>6, ClosingFacts DEF CommitClose
<1>7. CASE \/ CommitRequest(w) \/ CommitDeny(w) \/ Conflict(w) \/ DeadlockVictim(w)
           \/ OpenConversation(w) \/ Crash(w)
  BY <1>1, <1>4, <1>7 DEF CommitRequest, CommitDeny, Conflict, DeadlockVictim,
     OpenConversation, Crash
<1>8. CASE LockRow(w)
  <2> DEFINE j == job[w]
             k == [j EXCEPT !.rows = Tail(j.rows),
                            !.phase = IF Tail(j.rows) = <<>> THEN "closing" ELSE "write",
                            !.busy = Tail(j.rows) = <<>> /\ OtherActive(j.order, j.seen.driver)]
  <2>1. /\ j \in JobRow /\ j.phase = "write" /\ job' = [job EXCEPT ![w] = k]
        /\ UNCHANGED <<pin, cleared>>
    BY <1>8, BusyFacts DEF LockRow
  <2>2. k.op = j.op /\ k.order = j.order
    BY <2>1 DEF JobRow
  <2>3. ClearanceOK(j)
    BY <2>1, JobIsNotIdle DEF ClearanceInv
  <2> QED BY <1>4, <2>1, <2>2, <2>3 DEF KeepsClearance, ClearanceOK, TypeOK
<1>9. ASSUME NEW ph \in {"write", "verdict"}, job[w] \in JobRow,
             job' = [job EXCEPT ![w] = [job[w] EXCEPT !.phase = ph]],
             ph = "write" => job[w].order \in cleared'
      PROVE  KeepsClearance(w)
  <2> DEFINE k == [job[w] EXCEPT !.phase = ph]
  <2>1. k.phase = ph /\ k.order = job[w].order
    BY <1>9 DEF JobRow
  <2>2. job'[w] = k /\ \A v \in Workers \ {w} : job'[v] = job[v]
    BY <1>9 DEF TypeOK
  <2> QED BY <1>9, <2>1, <2>2 DEF KeepsClearance, ClearanceOK
<1>10. ASSUME Passed(w), job[w] \in JobRow, job[w].order \in cleared'
       PROVE  KeepsClearance(w)
  BY <1>1, <1>9, <1>10 DEF Passed, Finish
<1>11. CASE VerifyRead(w)
  <2>1. job[w] \in JobRow /\ job[w].order \in Orders
    BY <1>11, BusyFacts DEF VerifyRead
  <2>2. cleared' = cleared /\ (pin' = pin \/ pin' = [pin EXCEPT ![job[w].order] = "PENDING"])
    BY <1>11 DEF VerifyRead
  <2>3. ClearancesGrow
    BY <2>1, <2>2 DEF ClearancesGrow, PinCleared, TypeOK
  <2>4. \/ Finish(w)
        \/ Passed(w) /\ job[w].order \in cleared
        \/ job' = [job EXCEPT ![w] = [job[w] EXCEPT !.phase = "verdict"]]
    BY <1>11, <2>1 DEF VerifyRead, AnswersAtOnce, ClearanceInv
  <2> QED BY <1>1, <1>9, <1>10, <2>1, <2>2, <2>3, <2>4
<1>12. CASE VerifyWrite(w)
  <2>1. job[w] \in JobRow /\ job[w].order \in Orders
    BY <1>12, BusyFacts DEF VerifyWrite
  <2>2. \/ /\ Passed(w) /\ cleared' = cleared \cup {job[w].order}
           /\ pin' = [pin EXCEPT ![job[w].order] = "VERIFIED"]
        \/ /\ Finish(w) /\ cleared' = cleared
           /\ pin' = [pin EXCEPT ![job[w].order] = "PENDING"]
    BY <1>12 DEF VerifyWrite
  <2>3. ClearancesGrow
    BY <2>1, <2>2 DEF ClearancesGrow, PinCleared, TypeOK
  <2> QED BY <1>1, <1>10, <2>1, <2>2, <2>3
<1>13. CASE GeneratePin(w)
  <2>1. pin' = pin \/ pin' = [pin EXCEPT ![job[w].order] = "PENDING"]
    BY <1>13 DEF GeneratePin
  <2>2. ClearancesGrow
    BY <1>13, <2>1 DEF GeneratePin, ClearancesGrow, PinCleared, TypeOK
  <2> QED BY <1>1, <1>13, <2>2 DEF GeneratePin
<1>14. CASE CreateForCancelledOrder(w) \/ CloseConversation(w)
  <2>1. job[w].phase = "followup" /\ Next1(w) /\ UNCHANGED <<pin, cleared>>
    BY <1>14 DEF CreateForCancelledOrder, CloseConversation
  <2>2. [job[w] EXCEPT !.todo = Tail(job[w].todo)].phase = "followup"
    BY <2>1, BusyFacts DEF JobRow
  <2> QED BY <1>1, <1>2, <1>4, <2>1, <2>2 DEF Next1, Finish
<1> QED BY <1>5, <1>6, <1>7, <1>8, <1>11, <1>12, <1>13, <1>14 DEF Progress

LEMMA ClearanceIsKept ==
    ASSUME TypeOK, HandlersInv, ClearanceInv, [Next]_vars
    PROVE  ClearanceInv' /\ cleared \subseteq cleared'
<1>1. /\ ClearancesGrow
      /\ UNCHANGED job \/ \E w \in Workers : KeepsClearance(w)
  BY ArrivalsClear, ProgressClears DEF Next, vars, ClearancesGrow
<1>2. ASSUME NEW v \in Workers, job[v] # Idle, job'[v] = job[v]
      PROVE  ClearanceOK(job[v])'
  BY <1>1, <1>2 DEF ClearanceInv, ClearancesGrow, ClearanceOK
<1>3. ASSUME NEW v \in Workers, job'[v] # Idle
      PROVE  ClearanceOK(job[v])'
  BY <1>1, <1>2, <1>3 DEF KeepsClearance
<1> QED BY <1>1, <1>3 DEF ClearanceInv, ClearancesGrow

LEMMA DeliveredRows ==
    ASSUME TypeOK, HandlersInv, ClearanceInv, PinBeforeDelivered, [Next]_vars
    PROVE  PinBeforeDelivered'
<1>1. SUFFICES ASSUME NEW o \in Orders, order'[o].status = "DELIVERED",
                      order'[o].driver # NoDriver
               PROVE  o \in cleared
  BY ClearanceIsKept DEF PinBeforeDelivered
<1>2. CASE order[o].status \in Terminal
  BY <1>1, <1>2, TerminalStep DEF PinBeforeDelivered
<1>3. CASE UNCHANGED order
  BY <1>1, <1>3 DEF PinBeforeDelivered
<1>4. ASSUME NEW p \in Orders, NEW r, order' = [order EXCEPT ![p] = r],
             r.status # "DELIVERED"
      PROVE  o \in cleared
  BY <1>1, <1>4 DEF PinBeforeDelivered, TypeOK
<1>5. ASSUME NEW p \in Orders, NEW s \in {"PLACED", "PREPARING"}, NEW f \in Fulfilment,
             NEW c \in Owner, NEW hops, Create(p, s, f, c, hops)
      PROVE  o \in cleared
  <2>1. NewRow(s, f, c).status # "DELIVERED"
    BY DEF NewRow
  <2> QED BY <1>4, <1>5, <2>1 DEF Create
<1>6. ASSUME NEW w \in Workers,
             CommitAccept(w) \/ CommitStatus(w) \/ CommitAssign(w) \/ CommitStart(w)
      PROVE  o \in cleared
  <2> DEFINE p == job[w].order
  <2>1. PICK op \in {"accept", "status", "assign", "start"} :
           /\ Claims(w, op)
           /\ \/ op = "accept" /\ SetStatus(p, "PREPARING")
              \/ op = "status" /\ SetStatus(p, job[w].to)
              \/ op = "assign" /\ order' = [order EXCEPT ![p].driver = job[w].driver]
              \/ op = "start" /\ SetStatus(p, "OUT_FOR_DELIVERY")
    BY <1>6 DEF CommitAccept, CommitStatus, CommitAssign, CommitStart
  <2>2. /\ p \in Orders /\ HandlerOK(w, job[w]) /\ job[w].op = op /\ job[w].rows = <<>>
        /\ job[w].phase = "write" /\ order[p].status \in Open /\ order[p] \in OrderRow
    BY <2>1, ClaimedRowIsOpen DEF TypeOK
  <2>3. op = "status" => job[w].to \notin Terminal
    BY <2>2, <<>> # <<p>> DEF HandlerOK, RowsToClaim, Closes, CloseOps
  <2>4. PICK r : order' = [order EXCEPT ![p] = r] /\ r.status # "DELIVERED"
    <3>1. CASE op = "assign"
      <4>1. [order[p] EXCEPT !.driver = job[w].driver].status = order[p].status
        BY <2>2 DEF OrderRow
      <4> QED BY <2>1, <2>2, <3>1, <4>1 DEF Open, DriverActive
    <3>2. CASE op # "assign"
      <4>1. PICK s : SetStatus(p, s) /\ s # "DELIVERED"
        BY <2>1, <2>3, <3>2 DEF Terminal
      <4>2. [order[p] EXCEPT !.status = s].status = s
        BY <2>2 DEF OrderRow
      <4> QED BY <4>1, <4>2 DEF SetStatus
    <3> QED BY <3>1, <3>2
  <2> QED BY <1>4, <2>2, <2>4
<1>7. ASSUME NEW w \in Workers, CommitClose(w), order[o].status \notin Terminal
      PROVE  o \in cleared
  <2> DEFINE j == job[w]
             p == j.order
  <2>1. /\ p \in Orders /\ HandlerOK(w, j) /\ Closes(j) /\ OrderGuard(j)
        /\ j \in JobRow /\ j.phase = "closing"
    BY <1>7, ClosingFacts DEF CommitClose
  <2>2. /\ order' = [order EXCEPT ![p] = Closed(order[p], j)]
        /\ order'[p].status = j.to /\ order'[p].driver = order[p].driver
    BY <1>7, ClosedRow
  <2>3. o = p /\ j.to = "DELIVERED" /\ order[p].driver # NoDriver
    BY <1>1, <1>7, <2>1, <2>2 DEF TypeOK, Terminal
  <2>4. j.op # "status"
    <3>1. j.op = "status" => StatusAllowed(j.seen, "DELIVERED") /\ j.seen.driver # NoDriver
      BY <2>1, <2>3 DEF HandlerOK, Validation, OrderGuard, StatusOnlyGuard
    <3> QED BY <3>1 DEF StatusAllowed, AllowedTransitions, ExternalDelivery
  <2>5. j.op = "complete"
    BY <2>1, <2>3, <2>4 DEF HandlerOK, Validation, Closes, CloseOps, CancelOps
  <2> QED BY <2>1, <2>3, <2>5, JobIsNotIdle DEF ClearanceInv, ClearanceOK
<1> QED BY <1>2, <1>3, <1>5, <1>6, <1>7, OtherStepsLeaveOrders DEF vars, OrderSteps

\* A driver's order becomes DELIVERED only if its PIN was verified or bypassed:
\* the check and the completion are separate transactions of separate services,
\* and refreshed or bypassed records in between do not change that.
THEOREM DeliveredMeansCleared == Spec => []PinBeforeDelivered
<1>1. Init => ClearanceInv /\ PinBeforeDelivered
  BY DEF Init, ClearanceInv, PinBeforeDelivered, LegacyRow, NewRow, PinCleared
<1>2. TypeOK /\ HandlersInv /\ ClearanceInv /\ PinBeforeDelivered /\ [Next]_vars
      => (ClearanceInv /\ PinBeforeDelivered)'
  BY ClearanceIsKept, DeliveredRows
<1> QED BY <1>1, <1>2, RowsAndHandlers, PTL DEF Spec
-----------------------------------------------------------------------------
(* The trail of an order *)

TrailOK(t, s) ==
    /\ t = <<>> <=> s = "NONE"
    /\ t # <<>> => t[1][1] = "NONE" /\ t[Len(t)][2] = s
    /\ \A i \in 1 .. Len(t) - 1 : t[i][2] = t[i + 1][1]

LEMMA OneHop ==
    ASSUME NEW t \in Seq(Status \X Status), NEW e \in Status \X Status,
           e[1] # "NONE", e[2] # "NONE", TrailOK(t, e[1])
    PROVE  TrailOK(t \o <<e>>, e[2])
<1> DEFINE s == e[1]
           u == e[2]
           n == Len(t)
           t2 == t \o <<e>>
<1>1. /\ n \in Nat /\ n >= 1 /\ t[n][2] = s /\ t[1][1] = "NONE"
      /\ \A i \in 1 .. n - 1 : t[i][2] = t[i + 1][1]
  BY DEF TrailOK
<1>2. /\ Len(t2) = n + 1 /\ t2[n + 1] = e
      /\ \A i \in 1 .. n : t2[i] = t[i]
  OBVIOUS
<1>3. t2 # <<>> /\ t2[1][1] = "NONE" /\ t2[Len(t2)][2] = u
  BY <1>1, <1>2
<1>4. ASSUME NEW i \in 1 .. Len(t2) - 1
      PROVE  t2[i][2] = t2[i + 1][1]
  <2>1. CASE i = n
    BY <1>1, <1>2, <2>1
  <2>2. CASE i # n
    <3>1. i \in 1 .. n - 1 /\ i \in 1 .. n /\ i + 1 \in 1 .. n
      BY <1>1, <1>2, <2>2
    <3> QED BY <1>1, <1>2, <3>1
  <2> QED BY <2>1, <2>2
<1> QED BY <1>3, <1>4 DEF TrailOK

LEMMA TwoHops ==
    ASSUME NEW t \in Seq(Status \X Status), NEW a \in Status \X Status,
           NEW b \in Status \X Status, TrailOK(t, a[1]),
           a[1] # "NONE", a[2] # "NONE", b[1] = a[2], b[2] # "NONE"
    PROVE  TrailOK(t \o <<a, b>>, b[2])
<1>1. t \o <<a>> \in Seq(Status \X Status)
  OBVIOUS
<1>2. TrailOK(t \o <<a>>, a[2])
  BY OneHop
<1>3. TrailOK((t \o <<a>>) \o <<b>>, b[2])
  BY <1>1, <1>2, OneHop
<1>4. t \o <<a, b>> = (t \o <<a>>) \o <<b>>
  <2> DEFINE x == t \o <<a, b>>
             y == t \o <<a>>
             z == y \o <<b>>
  <2>1. <<a>> \in Seq(Status \X Status) /\ <<b>> \in Seq(Status \X Status) /\ <<a, b>> \in Seq(Status \X Status)
    OBVIOUS
  <2>2. x \in Seq(Status \X Status) /\ Len(x) = Len(t) + 2
    OBVIOUS
  <2>3. y \in Seq(Status \X Status) /\ Len(y) = Len(t) + 1
    OBVIOUS
  <2>4. z \in Seq(Status \X Status) /\ Len(z) = Len(y) + 1
    BY <2>3
  <2>5. \A i \in 1 .. Len(y) : z[i] = y[i]
    BY <2>3
  <2>6. z[Len(y) + 1] = b
    BY <2>3
  <2>7. ASSUME NEW i \in 1 .. Len(x)
        PROVE  x[i] = z[i]
    <3>1. CASE i = Len(t) + 2
      BY <2>3, <2>6, <3>1
    <3>2. CASE i # Len(t) + 2
      <4>1. i \in 1 .. Len(y) /\ i \in 1 .. Len(t) + 1
        BY <2>2, <2>3, <3>2
      <4> QED BY <2>5, <4>1
    <3> QED BY <3>1, <3>2
  <2>8. Len(x) = Len(z)
    BY <2>2, <2>3, <2>4
  <2>9. x = z
    <3> HIDE DEF x, y, z
    <3> QED BY <2>2, <2>4, <2>7, <2>8, SeqEqual
  <2> QED BY <2>9
<1> QED BY <1>3, <1>4, Zenon

\* The steps that log.
TrailSteps ==
    \/ \E o \in Orders, f \in Fulfilment : PlaceOrder(o, f)
    \/ \E o \in Orders, f \in Fulfilment, c \in Owner : CreatePosOrder(o, f, c)
    \/ \E w \in Workers : \/ CommitAccept(w) \/ CommitStatus(w)
                          \/ CommitStart(w) \/ CommitClose(w)

LEMMA StatusesChangeLogged ==
    ASSUME TypeOK, [Next]_vars
    PROVE  \/ TrailSteps
           \/ trail' = trail /\ \A o \in Orders : order'[o].status = order[o].status
<1>1. CASE UNCHANGED <<trail, order>>
  BY <1>1
<1>2. ASSUME NEW w \in Workers, CommitAssign(w)
      PROVE  trail' = trail /\ \A o \in Orders : order'[o].status = order[o].status
  <2>1. order' = [order EXCEPT ![job[w].order].driver = job[w].driver] /\ trail' = trail
    BY <1>2 DEF CommitAssign
  <2> QED BY <2>1 DEF TypeOK, OrderRow
<1>3. ASSUME NEW w \in Workers, Progress(w) \/ Crash(w)
      PROVE  CommitAssign(w) \/ TrailSteps \/ UNCHANGED <<trail, order>>
  BY <1>3 DEF Progress, TrailSteps, CommitRequest, CommitDeny, LockRow, Conflict,
     DeadlockVictim, VerifyRead, VerifyWrite, GeneratePin, CreateForCancelledOrder,
     CloseConversation, OpenConversation, Crash
<1>4. Arrive => TrailSteps \/ UNCHANGED <<trail, order>>
  BY ArrivalsRead DEF Writing, TrailSteps, Validated, RecordCollection, BypassPin,
     UpdateAvailability
<1> QED BY <1>1, <1>2, <1>3, <1>4 DEF Next, vars

\* A step that logs logs what it did to the status of one order.
LEMMA LoggedStep ==
    ASSUME TypeOK, TrailTellsTheStatus, NEW o \in Orders, NEW t, NEW r,
           trail' = [trail EXCEPT ![o] = t], order' = [order EXCEPT ![o] = r],
           TrailOK(t, r.status)
    PROVE  TrailTellsTheStatus'
BY DEF TypeOK, TrailTellsTheStatus, TrailOK

LEMMA CreatedTrails ==
    ASSUME TypeOK, TrailTellsTheStatus, NEW o \in Orders, NEW f, NEW c,
           PlaceOrder(o, f) \/ CreatePosOrder(o, f, c)
    PROVE  TrailTellsTheStatus'
<1>1. TrailOK(<< <<"NONE", "PLACED">> >>, "PLACED")
  BY DEF TrailOK
<1>2. TrailOK(<< <<"NONE", "PLACED">>, <<"PLACED", "ACCEPTED">>,
                 <<"ACCEPTED", "PREPARING">> >>, "PREPARING")
  BY DEF TrailOK
<1>3. ASSUME NEW status, NEW hops, NEW owner, Create(o, status, f, owner, hops),
             TrailOK(hops, status)
      PROVE  TrailTellsTheStatus'
  <2>1. /\ trail' = [trail EXCEPT ![o] = hops]
        /\ order' = [order EXCEPT ![o] = NewRow(status, f, owner)]
        /\ NewRow(status, f, owner).status = status
    BY <1>3 DEF Create, NewRow
  <2> QED BY <1>3, <2>1, LoggedStep
<1> QED BY <1>1, <1>2, <1>3 DEF PlaceOrder, CreatePosOrder

LEMMA LoggedTrails ==
    ASSUME TypeOK, HandlersInv, TrailTellsTheStatus, NEW w \in Workers,
           CommitAccept(w) \/ CommitStatus(w) \/ CommitStart(w) \/ CommitClose(w)
    PROVE  TrailTellsTheStatus'
<1> DEFINE j == job[w]
           o == j.order
           s == order[o].status
<1>1. /\ j \in JobRow /\ o \in Orders /\ HandlerOK(w, j)
      /\ s = j.seen.status /\ s \in Open
  BY ClaimedRowIsOpen, ClosingFacts DEF CommitAccept, CommitStatus, CommitStart, OrderGuard
<1>2. /\ order[o] \in OrderRow /\ s \in Status /\ s # "NONE" /\ j.to \in Status
      /\ trail[o] \in Seq(Status \X Status) /\ TrailOK(trail[o], s)
  BY <1>1 DEF TypeOK, OrderRow, JobRow, Open, DriverActive, TrailTellsTheStatus, TrailOK
<1>3. {"PLACED", "ACCEPTED", "PREPARING", "READY", "OUT_FOR_DELIVERY"} \subseteq Status
  BY DEF Status, Open, DriverActive
<1>4. ASSUME NEW u \in Status, SetStatus(o, u)
      PROVE  \E r : order' = [order EXCEPT ![o] = r] /\ r.status = u
  <2>1. [order[o] EXCEPT !.status = u].status = u
    BY <1>2 DEF OrderRow
  <2> QED BY <1>4, <2>1 DEF SetStatus
<1>5. CASE CommitAccept(w)
  <2>1. s = "PLACED"
    BY <1>1, <1>5, ClaimedRowIsOpen DEF CommitAccept, HandlerOK, Validation
  <2>2. TrailOK(trail[o] \o << <<"PLACED", "ACCEPTED">>, <<"ACCEPTED", "PREPARING">> >>,
                "PREPARING")
    <3>1. TrailOK(trail[o], "PLACED")
      BY <1>2, <2>1
    <3> DEFINE a == <<"PLACED", "ACCEPTED">>
               b == <<"ACCEPTED", "PREPARING">>
    <3>2. /\ a \in Status \X Status /\ b \in Status \X Status
          /\ a[1] = "PLACED" /\ a[2] = "ACCEPTED" /\ b[1] = a[2] /\ b[2] = "PREPARING"
      BY <1>3
    <3> HIDE DEF a, b
    <3>3. TrailOK(trail[o] \o <<a, b>>, b[2])
      BY <1>2, <3>1, <3>2, TwoHops
    <3> QED BY <3>2, <3>3 DEF a, b
  <2>3. PICK r : order' = [order EXCEPT ![o] = r] /\ r.status = "PREPARING"
    BY <1>3, <1>4, <1>5 DEF CommitAccept
  <2>4. trail' = [trail EXCEPT ![o] = trail[o] \o << <<"PLACED", "ACCEPTED">>,
                                                    <<"ACCEPTED", "PREPARING">> >>]
    BY <1>5 DEF CommitAccept, Log
  <2> QED BY <1>1, <2>2, <2>3, <2>4, LoggedStep
<1>6. CASE CommitStatus(w) \/ CommitStart(w)
  <2>1. PICK u \in Status : /\ SetStatus(o, u) /\ u # "NONE"
                            /\ trail' = [trail EXCEPT ![o] = trail[o] \o << <<s, u>> >>]
    <3>1. CASE CommitStatus(w)
      <4>1. j.to # "NONE"
        BY <1>1, <3>1, ClaimedRowIsOpen DEF CommitStatus, HandlerOK, Validation,
           StatusAllowed, AllowedTransitions, ExternalDelivery
      <4> QED BY <1>1, <1>2, <3>1, <4>1 DEF CommitStatus, Log
    <3>2. CASE CommitStart(w)
      <4>1. s = "READY"
        BY <1>1, <3>2, ClaimedRowIsOpen DEF CommitStart, HandlerOK, Validation
      <4> QED BY <1>3, <3>2, <4>1 DEF CommitStart, Log
    <3> QED BY <1>6, <3>1, <3>2
  <2>2. TrailOK(trail[o] \o << <<s, u>> >>, u)
    <3> DEFINE e == <<s, u>>
    <3>1. e \in Status \X Status /\ e[1] = s /\ e[2] = u
      BY <1>2
    <3> HIDE DEF e
    <3>2. TrailOK(trail[o] \o <<e>>, u)
      BY <1>2, <2>1, <3>1, OneHop
    <3> QED BY <3>2 DEF e
  <2>3. PICK r : order' = [order EXCEPT ![o] = r] /\ r.status = u
    BY <1>4, <2>1
  <2> QED BY <1>1, <2>1, <2>2, <2>3, LoggedStep
<1>7. CASE CommitClose(w)
  <2>1. /\ order' = [order EXCEPT ![o] = Closed(order[o], j)]
        /\ Closed(order[o], j).status = j.to /\ j.to # "NONE"
    BY <1>1, <1>7, ClosedRow DEF TypeOK
  <2>2. trail' = [trail EXCEPT ![o] = trail[o] \o << <<s, j.to>> >>]
    BY <1>1, <1>7 DEF CommitClose, Log
  <2>3. TrailOK(trail[o] \o << <<s, j.to>> >>, j.to)
    <3> DEFINE e == <<s, j.to>>
    <3>1. e \in Status \X Status /\ e[1] = s /\ e[2] = j.to
      BY <1>2
    <3> HIDE DEF e
    <3>2. TrailOK(trail[o] \o <<e>>, j.to)
      BY <1>2, <2>1, <3>1, OneHop
    <3> QED BY <3>2 DEF e
  <2> QED BY <1>1, <2>1, <2>2, <2>3, LoggedStep
<1> QED BY <1>5, <1>6, <1>7

LEMMA TrailsStayTrue ==
    ASSUME TypeOK, HandlersInv, TrailTellsTheStatus, [Next]_vars
    PROVE  TrailTellsTheStatus'
<1>1. CASE TrailSteps
  BY <1>1, CreatedTrails, LoggedTrails DEF TrailSteps
<1>2. CASE trail' = trail /\ \A o \in Orders : order'[o].status = order[o].status
  BY <1>2 DEF TrailTellsTheStatus
<1> QED BY <1>1, <1>2, StatusesChangeLogged

\* The events of an order are an unbroken account of its status, whichever
\* handlers wrote them: each writer's event starts at the status its guarded
\* update found.
THEOREM TrailsAreTrue == Spec => []TrailTellsTheStatus
<1>1. Init => TrailTellsTheStatus
  <2>1. TrailOK(LegacyTrail, "OUT_FOR_DELIVERY") /\ TrailOK(<<>>, "NONE")
    BY DEF LegacyTrail, TrailOK
  <2> QED BY <2>1 DEF Init, TrailTellsTheStatus, TrailOK, LegacyRow, NewRow
<1>2. TypeOK /\ HandlersInv /\ TrailTellsTheStatus /\ [Next]_vars => TrailTellsTheStatus'
  BY TrailsStayTrue
<1> QED BY <1>1, <1>2, RowsAndHandlers, PTL DEF Spec
-----------------------------------------------------------------------------
(* An approval and its order *)

\* What a step of worker w does to request rows and their locks.
RequestsRespected(w) ==
    \A r \in Requests :
        /\ request[r].status # "NONE" =>
             request'[r].status # "NONE" /\ request'[r].order = request[r].order
        /\ \A v \in Workers \ {w} :
              rowLock[r] = v /\ request[r].status = "PENDING" =>
              rowLock'[r] = v /\ request'[r] = request[r]
        /\ request[r].status = "NONE" =>
             request'[r] = request[r] \/ (job[w].op = "request" /\ job[w].request = r)

KeepsApproval(w) ==
    /\ \A v \in Workers \ {w} : job'[v] = job[v]
    /\ RequestsRespected(w)
    /\ job'[w] # Idle =>
         /\ RequestOK(w, job[w])'
         /\ job'[w].op = "request" =>
              \A v \in Workers \ {w} : job[v] # Idle /\ job[v].op = "request" =>
                                       job[v].request # job'[w].request

\* The request row a handler works with.
LEMMA RequestOfJob ==
    ASSUME TypeOK, HandlersInv, NEW w \in Workers, job[w] # Idle,
           job[w].op \in Approvals \cup {"request"}
    PROVE  job[w].request \in Requests
BY DEF TypeOK, HandlersInv, HandlerOK, Validation, Approvals

LEMMA OthersKeepTheirApprovals ==
    ASSUME TypeOK, HandlersInv, ApprovalInv, NEW w \in Workers, KeepsApproval(w)
    PROVE  ApprovalInv'
<1>1. ASSUME NEW v \in Workers \ {w}, job[v] # Idle
      PROVE  RequestOK(v, job[v])'
  <2>1. job'[v] = job[v] /\ RequestOK(v, job[v]) /\ RequestsRespected(w)
    BY <1>1 DEF KeepsApproval, ApprovalInv
  <2>2. job[v].op \in Approvals \cup {"request"} => job[v].request \in Requests
    BY <1>1, RequestOfJob
  <2>3. job[v].op = "request" /\ job[w].op = "request" => job[v].request # job[w].request
    BY <1>1 DEF ApprovalInv, Idle
  <2> QED BY <2>1, <2>2, <2>3 DEF RequestOK, RequestsRespected, HoldsRequest
<1>2. ASSUME NEW v \in Workers, job'[v] # Idle
      PROVE  RequestOK(v, job[v])'
  <2>1. CASE v = w
    BY <1>2, <2>1 DEF KeepsApproval, RequestOK, HoldsRequest
  <2>2. CASE v # w
    <3>1. job'[v] = job[v] /\ v \in Workers \ {w}
      BY <2>2 DEF KeepsApproval
    <3> QED BY <1>1, <1>2, <3>1
  <2> QED BY <2>1, <2>2
<1>3. ASSUME NEW u \in Workers, NEW v \in Workers, u # v, job'[u] # Idle, job'[v] # Idle,
             job'[u].op = "request", job'[v].op = "request"
      PROVE  job'[u].request # job'[v].request
  <2>1. \A x \in Workers \ {w} : job'[x] = job[x]
    BY DEF KeepsApproval
  <2>2. CASE u # w /\ v # w
    BY <1>3, <2>1, <2>2 DEF ApprovalInv
  <2>3. ASSUME NEW x \in Workers \ {w}, job'[x] # Idle, job'[x].op = "request",
               job'[w] # Idle, job'[w].op = "request"
        PROVE  job'[x].request # job'[w].request
    BY <2>1, <2>3 DEF KeepsApproval
  <2> QED BY <1>3, <2>2, <2>3
<1> QED BY <1>2, <1>3 DEF ApprovalInv

LEMMA NewApproval ==
    ASSUME TypeOK, NEW w \in Workers, NEW j, Start(w, j), UNCHANGED <<request, rowLock>>,
           RequestOK(w, j), j.op # "request"
    PROVE  KeepsApproval(w)
<1>1. job'[w] = j /\ \A v \in Workers \ {w} : job'[v] = job[v]
  BY DEF Start, TypeOK
<1>2. RequestOK(w, job[w])'
  BY <1>1 DEF RequestOK, HoldsRequest
<1>3. RequestsRespected(w)
  BY DEF RequestsRespected
<1> QED BY <1>1, <1>2, <1>3 DEF KeepsApproval

\* Starting an endpoint that is about no request.
LEMMA UnrelatedBegin ==
    ASSUME TypeOK, NEW w \in Workers, NEW j, Start(w, j), UNCHANGED Validated,
           j.op \notin Approvals \cup {"request"}, j.op \in CloseOps => j.request = NoRequest
    PROVE  KeepsApproval(w)
BY NewApproval DEF RequestOK, HoldsRequest, Validated

LEMMA ArrivalsApprove ==
    ASSUME TypeOK, HandlersInv, ApprovalInv, Arrive
    PROVE  (\E w \in Workers : KeepsApproval(w)) \/ UNCHANGED <<request, rowLock, job>>
<1>1. ASSUME NEW w \in Workers, NEW o \in Orders,
             \/ AcceptOrder(w, o) \/ (\E to \in Status : UpdateStatus(w, o, to))
             \/ StartDelivery(w, o) \/ RefreshPin(w, o)
             \/ (\E d \in Drivers, b \in BOOLEAN : AssignDriver(w, o, d, b))
      PROVE  KeepsApproval(w)
  BY <1>1, UnrelatedBegin DEF AcceptOrder, UpdateStatus, StartDelivery, RefreshPin,
     AssignDriver, Job, CloseOps, Approvals, Validated
<1>2. ASSUME NEW w \in Workers, NEW o \in Orders,
             \/ (\E right \in BOOLEAN : VerifyPin(w, o, right) \/ CompleteDelivery(w, o, right))
             \/ CompleteDeliveryWithoutPin(w, o)
      PROVE  KeepsApproval(w)
  BY <1>2, UnrelatedBegin DEF VerifyPin, CompleteDelivery, CompleteDeliveryWithoutPin, Job,
     CloseOps, Approvals, Validated
<1>3. ASSUME NEW w \in Workers, NEW o \in Orders,
             SendMessage(w, o) \/ AdminCancel(w, o) \/ CustomerCancel(w, o)
      PROVE  KeepsApproval(w)
  BY <1>3, UnrelatedBegin DEF SendMessage, AdminCancel, CustomerCancel, Job, CloseOps,
     Approvals, Validated, Checked
<1>4. ASSUME NEW w \in Workers, NEW r \in Requests, Deny(w, r)
      PROVE  KeepsApproval(w)
  BY <1>4, UnrelatedBegin DEF Deny, Job, CloseOps, Approvals, Validated, Checked
<1>5. ASSUME NEW w \in Workers, NEW r \in Requests, NEW op \in Approvals, Approve(w, r, op)
      PROVE  KeepsApproval(w)
  <2> DEFINE o == request[r].order
             i == Job(op, o, "CANCELLED", ApproveRows(op, o, r), FollowUps(op))
             j == [i EXCEPT !.request = r]
  <2>1. /\ j.op = op /\ j.request = r /\ j.order = o /\ j.phase = "write"
        /\ j.rows = ApproveRows(op, o, r)
    BY DEF Job
  <2>2. ~ HoldsRequest(j)
    BY <2>1 DEF HoldsRequest, ApproveRows, Approvals
  <2>3. request[r].status = "PENDING" /\ Start(w, j) /\ UNCHANGED <<request, rowLock>>
    BY <1>5 DEF Approve, Checked
  <2>4. RequestOK(w, j) /\ j.op # "request"
    BY <2>1, <2>2, <2>3 DEF RequestOK, Approvals
  <2> QED BY <2>3, <2>4, NewApproval
<1>6. ASSUME NEW w \in Workers, NEW o \in Orders, NEW r \in Requests,
             RequestCancellation(w, o, r)
      PROVE  KeepsApproval(w)
  <2> DEFINE j == [Job("request", o, order[o].status, <<>>, <<>>) EXCEPT !.request = r]
  <2>1. j.op = "request" /\ j.request = r
    BY DEF Job
  <2>2. job'[w] = j /\ \A v \in Workers \ {w} : job'[v] = job[v]
    BY <1>6 DEF RequestCancellation, Start, TypeOK
  <2>3. UNCHANGED <<request, rowLock>> /\ FreshRequest(r)
    BY <1>6 DEF RequestCancellation, Checked
  <2>4. RequestOK(w, job[w])'
    BY <2>1, <2>2, <2>3 DEF RequestOK, HoldsRequest, FreshRequest, Approvals, CloseOps
  <2>5. RequestsRespected(w)
    BY <2>3 DEF RequestsRespected
  <2> QED BY <2>1, <2>2, <2>3, <2>4, <2>5 DEF KeepsApproval, FreshRequest
<1>7. Writing => UNCHANGED <<request, rowLock, job>>
  BY DEF Writing, RecordCollection, BypassPin, PlaceOrder, CreatePosOrder, Create,
     UpdateAvailability
<1> QED BY <1>1, <1>2, <1>3, <1>4, <1>5, <1>6, <1>7 DEF Arrive, Writing, Approvals

LEMMA RequestLocksReleased ==
    ASSUME TypeOK, NEW w \in Workers, ReleaseLocks(w)
    PROVE  \A v \in Workers \ {w}, r \in Requests : rowLock[r] = v => rowLock'[r] = v
BY DEF TypeOK, ReleaseLocks

LEMMA FinishApproves ==
    ASSUME TypeOK, NEW w \in Workers, Finish(w), RequestsRespected(w)
    PROVE  KeepsApproval(w)
BY FinishFacts DEF KeepsApproval

LEMMA RequestStepsApprove ==
    ASSUME TypeOK, HandlersInv, ApprovalInv, NEW w \in Workers, CommitRequest(w) \/ CommitDeny(w)
    PROVE  KeepsApproval(w)
<1> DEFINE r == job[w].request
<1>1. job[w] \in JobRow /\ r \in Requests /\ RequestOK(w, job[w])
  BY BusyFacts, JobIsNotIdle DEF CommitRequest, CommitDeny, HandlerOK, Validation,
     ApprovalInv
<1>2. CASE CommitRequest(w)
  <2>1. /\ Finish(w) /\ job[w].op = "request" /\ rowLock' = rowLock
        /\ request' = [request EXCEPT ![r] = [status |-> "PENDING", order |-> job[w].order]]
    BY <1>2 DEF CommitRequest
  <2>2. request[r].status = "NONE"
    BY <1>1, <2>1 DEF RequestOK
  <2>3. RequestsRespected(w)
    BY <1>1, <2>1, <2>2 DEF RequestsRespected, TypeOK
  <2> QED BY <2>1, <2>3, FinishApproves
<1>3. CASE CommitDeny(w)
  <2>1. /\ Finish(w) /\ rowLock' = rowLock /\ rowLock[r] = NoWorker
        /\ request[r].status = "PENDING"
        /\ request' = [request EXCEPT ![r].status = "REJECTED"]
    BY <1>3 DEF CommitDeny, Unlocked
  <2>2. /\ request'[r].status = "REJECTED" /\ request'[r].order = request[r].order
        /\ \A q \in Requests \ {r} : request'[q] = request[q]
    BY <1>1, <2>1 DEF TypeOK, RequestRow
  <2>3. RequestsRespected(w)
    BY <1>1, <2>1, <2>2, StoreAssumption DEF RequestsRespected
  <2> QED BY <2>1, <2>3, FinishApproves
<1> QED BY <1>2, <1>3

\* A step that leaves request rows and locks alone and moves on to a phase
\* without a lock on its request.
LEMMA PhaseApproves ==
    ASSUME TypeOK, ApprovalInv, NEW w \in Workers, job[w] # Idle, NEW k,
           job' = [job EXCEPT ![w] = k], UNCHANGED <<request, rowLock>>,
           k.op = job[w].op, k.request = job[w].request, k.order = job[w].order,
           ~ HoldsRequest(k)
    PROVE  KeepsApproval(w)
<1>1. job'[w] = k /\ \A v \in Workers \ {w} : job'[v] = job[v]
  BY DEF TypeOK
<1>2. RequestOK(w, job[w])'
  BY <1>1 DEF ApprovalInv, RequestOK, HoldsRequest
<1>3. RequestsRespected(w)
  BY DEF RequestsRespected
<1>4. k.op = "request" => \A v \in Workers \ {w} :
         job[v] # Idle /\ job[v].op = "request" => job[v].request # k.request
  BY DEF ApprovalInv
<1> QED BY <1>1, <1>2, <1>3, <1>4 DEF KeepsApproval

LEMMA ContinueApproves ==
    ASSUME TypeOK, ApprovalInv, NEW w \in Workers, job[w] \in JobRow, Continue(w),
           UNCHANGED <<request, rowLock>>
    PROVE  KeepsApproval(w)
<1> DEFINE k == [job[w] EXCEPT !.phase = "followup"]
<1>1. /\ k.op = job[w].op /\ k.request = job[w].request /\ k.order = job[w].order
      /\ k.phase = "followup"
  BY DEF JobRow
<1>2. ~ HoldsRequest(k)
  BY <1>1 DEF HoldsRequest
<1>3. RequestsRespected(w)
  BY DEF RequestsRespected
<1> QED BY <1>1, <1>2, <1>3, PhaseApproves, FinishApproves, JobIsNotIdle DEF Continue,
    Finish

LEMMA CloseApproves ==
    ASSUME TypeOK, HandlersInv, ApprovalInv, NEW w \in Workers, CommitClose(w)
    PROVE  /\ KeepsApproval(w)
           /\ \/ /\ job[w].op \in Approvals /\ job[w].request \in Requests
                 /\ request[job[w].request] = [status |-> "PENDING", order |-> job[w].order]
                 /\ request' = [request EXCEPT ![job[w].request] =
                                  [status |-> "APPROVED", order |-> job[w].order]]
              \/ job[w].op \notin Approvals /\ request' = request
<1> DEFINE j == job[w]
           r == j.request
           k == [j EXCEPT !.phase = "followup"]
<1>1. /\ j \in JobRow /\ j.phase = "closing" /\ j.op \in CloseOps /\ RequestOK(w, j)
      /\ ReleaseLocks(w) /\ Continue(w)
  BY ClosingFacts, JobIsNotIdle DEF CommitClose, Closes, ApprovalInv
<1>2. /\ k.op = j.op /\ k.request = j.request /\ k.order = j.order /\ k.phase = "followup"
      /\ ~ HoldsRequest(k)
  BY <1>1 DEF JobRow, HoldsRequest
<1>3. job'[w] \in {k, Idle} /\ \A v \in Workers \ {w} : job'[v] = job[v]
  BY <1>1 DEF Continue, TypeOK
<1>4. CASE j.op \in Approvals
  <2>1. r \in Requests /\ rowLock[r] = w /\ request[r].status = "PENDING"
        /\ request[r].order = j.order
    BY <1>1, <1>4, RequestOfJob, JobIsNotIdle DEF RequestOK, HoldsRequest
  <2>2. request' = [request EXCEPT ![r].status = "APPROVED"]
    BY <2>1 DEF CommitClose
  <2>3. /\ request[r] = [status |-> "PENDING", order |-> j.order]
        /\ request' = [request EXCEPT ![r] = [status |-> "APPROVED", order |-> j.order]]
    <3>1. request[r] \in RequestRow /\ request \in [Requests -> RequestRow]
      BY <2>1 DEF TypeOK
    <3>2. /\ request[r] = [status |-> "PENDING", order |-> j.order]
          /\ [request[r] EXCEPT !.status = "APPROVED"] = [status |-> "APPROVED", order |-> j.order]
      BY <2>1, <3>1 DEF RequestRow
    <3>3. request' = [request EXCEPT ![r] = [request[r] EXCEPT !.status = "APPROVED"]]
      BY <2>2
    <3> QED BY <3>2, <3>3
  <2>4. RequestsRespected(w)
    BY <1>1, <2>1, <2>3, RequestLocksReleased DEF RequestsRespected, TypeOK
  <2>5. job'[w] = k => RequestOK(w, job[w])'
    BY <1>2, <1>4, <2>1, <2>3 DEF RequestOK, TypeOK, Approvals, HoldsRequest
  <2> QED BY <1>2, <1>3, <1>4, <2>1, <2>3, <2>4, <2>5 DEF KeepsApproval, Approvals
<1>5. CASE j.op \notin Approvals
  <2>1. r = NoRequest
    BY <1>1, <1>5 DEF RequestOK
  <2>2. request' = request
    BY <2>1, StoreAssumption DEF CommitClose
  <2>3. RequestsRespected(w)
    BY <1>1, <2>2, RequestLocksReleased DEF RequestsRespected
  <2>4. job'[w] = k => RequestOK(w, job[w])'
    BY <1>1, <1>2, <1>5, <2>1 DEF RequestOK, CloseOps, HoldsRequest
  <2> QED BY <1>1, <1>2, <1>3, <1>5, <2>2, <2>3, <2>4 DEF KeepsApproval, CloseOps
<1> QED BY <1>4, <1>5

LEMMA LockRowApproves ==
    ASSUME TypeOK, HandlersInv, ApprovalInv, NEW w \in Workers, LockRow(w)
    PROVE  KeepsApproval(w)
<1> DEFINE j == job[w]
           row == Head(j.rows)
           k == [j EXCEPT !.rows = Tail(j.rows),
                          !.phase = IF Tail(j.rows) = <<>> THEN "closing" ELSE "write",
                          !.busy = Tail(j.rows) = <<>> /\ OtherActive(j.order, j.seen.driver)]
<1>1. /\ j \in JobRow /\ j # Idle /\ RequestOK(w, j) /\ Closes(j)
      /\ j.phase = "write" /\ j.rows # <<>> /\ Unlocked(row) /\ RowGuard(j, row)
      /\ rowLock' = [rowLock EXCEPT ![row] = w] /\ job' = [job EXCEPT ![w] = k]
      /\ request' = request
  BY BusyFacts, JobIsNotIdle, RowsStillToClaim DEF LockRow, ApprovalInv
<1>2. /\ k.op = j.op /\ k.request = j.request /\ k.order = j.order /\ k.rows = Tail(j.rows)
      /\ k.phase = IF Tail(j.rows) = <<>> THEN "closing" ELSE "write"
  BY <1>1 DEF JobRow
<1>3. job'[w] = k /\ \A v \in Workers \ {w} : job'[v] = job[v]
  BY <1>1 DEF TypeOK
<1>4. RequestsRespected(w)
  BY <1>1, StoreAssumption DEF RequestsRespected, Unlocked, TypeOK
<1>5. HoldsRequest(k) => rowLock'[j.request] = w /\ request[j.request].status = "PENDING"
  <2>1. SUFFICES ASSUME HoldsRequest(k), j.op \in Approvals
                 PROVE  rowLock'[j.request] = w /\ request[j.request].status = "PENDING"
    BY <1>2 DEF HoldsRequest
  <2>2. j.request \in Requests /\ j.order \in Orders /\ j.request # j.order
    BY <1>1, <2>1, RowsStillToClaim, BusyFacts DEF Approvals
  <2>3. CASE row = j.request
    BY <1>1, <2>2, <2>3 DEF RowGuard, TypeOK
  <2>4. CASE row # j.request
    <3>1. j.rows = <<j.order>> /\ j.op = "kdsApprove"
      <4>1. /\ j.rows # <<j.request, j.order>> /\ j.rows # <<j.request>>
        BY <2>4, ShortTails
      <4>2. j.rows # <<j.order, j.request>> \/ j.op # "adminApprove"
        <5>1. j.rows = <<j.order, j.request>> => k.phase = "write"
          BY <1>2, ShortTails
        <5> QED BY <1>2, <2>1, <5>1 DEF HoldsRequest
      <4>3. j.rows = <<j.order>> /\ j.op # "adminApprove"
        BY <1>1, <4>1, <4>2, RowsStillToClaim
      <4> QED BY <2>1, <4>3 DEF Approvals
    <3>2. rowLock[j.request] = w /\ request[j.request].status = "PENDING" /\ row = j.order
      BY <1>1, <2>1, <3>1, ShortTails DEF RequestOK, HoldsRequest
    <3> QED BY <1>1, <2>2, <3>2 DEF TypeOK
  <2> QED BY <2>3, <2>4
<1>6. RequestOK(w, job[w])'
  BY <1>1, <1>2, <1>3, <1>5 DEF RequestOK
<1> QED BY <1>1, <1>2, <1>3, <1>4, <1>6 DEF KeepsApproval, Closes, CloseOps

LEMMA ProgressApproves ==
    ASSUME TypeOK, HandlersInv, ApprovalInv, NEW w \in Workers, Progress(w) \/ Crash(w)
    PROVE  KeepsApproval(w)
<1>1. ASSUME Finish(w), request' = request, ReleaseLocks(w) \/ UNCHANGED rowLock
      PROVE  KeepsApproval(w)
  BY <1>1, FinishApproves, RequestLocksReleased DEF RequestsRespected
<1>2. CASE \/ Conflict(w) \/ DeadlockVictim(w) \/ Crash(w) \/ GeneratePin(w)
           \/ OpenConversation(w)
  BY <1>1, <1>2 DEF Conflict, DeadlockVictim, Crash, GeneratePin, OpenConversation
<1>3. CASE CommitAccept(w) \/ CommitStatus(w) \/ CommitAssign(w) \/ CommitStart(w)
  BY <1>3, ClaimedRowIsOpen, ContinueApproves
  DEF CommitAccept, CommitStatus, CommitAssign, CommitStart
<1>4. CASE VerifyRead(w) \/ VerifyWrite(w)
  <2>1. /\ job[w].phase \in {"verify", "verdict"} /\ job[w] \in JobRow
        /\ UNCHANGED <<request, rowLock>>
    BY <1>4, BusyFacts DEF VerifyRead, VerifyWrite
  <2>2. ASSUME NEW ph \in {"write", "verdict"}, ph = "write" => job[w].op = "complete",
               job' = [job EXCEPT ![w] = [job[w] EXCEPT !.phase = ph]]
        PROVE  KeepsApproval(w)
    <3> DEFINE k == [job[w] EXCEPT !.phase = ph]
    <3>1. /\ k.op = job[w].op /\ k.request = job[w].request /\ k.order = job[w].order
          /\ k.phase = ph
      BY <2>1 DEF JobRow
    <3>2. ~ HoldsRequest(k)
      BY <2>2, <3>1 DEF HoldsRequest, Approvals
    <3> QED BY <2>1, <2>2, <3>1, <3>2, PhaseApproves, JobIsNotIdle
  <2>3. Finish(w) \/ Passed(w) \/ job' = [job EXCEPT ![w] = [job[w] EXCEPT !.phase = "verdict"]]
    BY <1>4 DEF VerifyRead, VerifyWrite
  <2>4. Passed(w) =>
          \/ Finish(w)
          \/ job[w].op = "complete" /\ job' = [job EXCEPT ![w] = [job[w] EXCEPT !.phase = "write"]]
    BY DEF Passed, Finish
  <2> QED BY <1>1, <2>1, <2>2, <2>3, <2>4
<1>5. CASE CreateForCancelledOrder(w) \/ CloseConversation(w)
  <2> DEFINE k == [job[w] EXCEPT !.todo = Tail(job[w].todo)]
  <2>1. /\ job[w].phase = "followup" /\ Next1(w) /\ UNCHANGED <<request, rowLock>>
        /\ job[w] \in JobRow
    BY <1>5, BusyFacts DEF CreateForCancelledOrder, CloseConversation
  <2>2. /\ k.op = job[w].op /\ k.request = job[w].request /\ k.order = job[w].order
        /\ ~ HoldsRequest(k)
    BY <2>1 DEF JobRow, HoldsRequest
  <2> QED BY <1>1, <2>1, <2>2, PhaseApproves, JobIsNotIdle DEF Next1, Finish
<1> QED BY <1>2, <1>3, <1>4, <1>5, RequestStepsApprove, CloseApproves, LockRowApproves
    DEF Progress

LEMMA ApprovalsAreKept ==
    ASSUME TypeOK, HandlersInv, ApprovalInv, [Next]_vars
    PROVE  ApprovalInv'
<1>1. CASE \E w \in Workers : KeepsApproval(w)
  BY <1>1, OthersKeepTheirApprovals
<1>2. CASE UNCHANGED <<request, rowLock, job>>
  BY <1>2 DEF ApprovalInv, RequestOK, HoldsRequest
<1> QED BY <1>1, <1>2, ArrivalsApprove, ProgressApproves DEF Next, vars

Approved(o) == {r \in Requests : request[r] = [status |-> "APPROVED", order |-> o]}

LEMMA OtherStepsDecideNothing ==
    ASSUME TypeOK, HandlersInv, ApprovalInv, [Next]_vars
    PROVE  \/ \E w \in Workers : CommitClose(w)
           \/ \A o \in Orders : Approved(o)' = Approved(o)
<1>1. ASSUME request' = request
      PROVE  \A o \in Orders : Approved(o)' = Approved(o)
  BY <1>1 DEF Approved
<1>2. ASSUME NEW r \in Requests, NEW x, request' = [request EXCEPT ![r] = x],
             request[r].status # "APPROVED", x.status # "APPROVED"
      PROVE  \A o \in Orders : Approved(o)' = Approved(o)
  <2>1. request'[r] = x /\ \A q \in Requests \ {r} : request'[q] = request[q]
    BY <1>2 DEF TypeOK
  <2>2. \A o \in Orders : /\ x # [status |-> "APPROVED", order |-> o]
                          /\ request[r] # [status |-> "APPROVED", order |-> o]
    BY <1>2
  <2> QED BY <2>1, <2>2 DEF Approved
<1>3. ASSUME NEW w \in Workers, CommitRequest(w)
      PROVE  \A o \in Orders : Approved(o)' = Approved(o)
  <2> DEFINE r == job[w].request
             x == [status |-> "PENDING", order |-> job[w].order]
  <2>1. r \in Requests /\ request[r].status = "NONE"
    BY <1>3, BusyFacts, JobIsNotIdle
    DEF CommitRequest, HandlerOK, Validation, ApprovalInv, RequestOK
  <2>2. request' = [request EXCEPT ![r] = x] /\ x.status = "PENDING"
    BY <1>3 DEF CommitRequest
  <2> HIDE DEF x
  <2> QED BY <1>2, <2>1, <2>2
<1>4. ASSUME NEW w \in Workers, CommitDeny(w)
      PROVE  \A o \in Orders : Approved(o)' = Approved(o)
  <2> DEFINE r == job[w].request
             x == [request[r] EXCEPT !.status = "REJECTED"]
  <2>1. r \in Requests /\ request[r].status = "PENDING"
    BY <1>4, BusyFacts DEF CommitDeny, HandlerOK, Validation
  <2>2. request' = [request EXCEPT ![r] = x] /\ x.status = "REJECTED"
    BY <1>4, <2>1 DEF CommitDeny, TypeOK, RequestRow
  <2> HIDE DEF x
  <2> QED BY <1>2, <2>1, <2>2
<1>5. Arrive => request' = request
  BY ArrivalsRead DEF Writing, Validated, PlaceOrder, CreatePosOrder, Create,
     RecordCollection, BypassPin, UpdateAvailability
<1>6. ASSUME NEW w \in Workers, Progress(w) \/ Crash(w)
      PROVE  CommitClose(w) \/ CommitRequest(w) \/ CommitDeny(w) \/ request' = request
  BY <1>6 DEF Progress, CommitAccept, CommitStatus, CommitAssign, CommitStart, LockRow,
     Conflict, DeadlockVictim, VerifyRead, VerifyWrite, GeneratePin,
     CreateForCancelledOrder, CloseConversation, OpenConversation, Crash
<1> QED BY <1>1, <1>3, <1>4, <1>5, <1>6 DEF Next, vars

LEMMA OtherStepsCancelNothing ==
    ASSUME TypeOK, HandlersInv, DriversComeLate, [Next]_vars
    PROVE  \/ \E w \in Workers : CommitClose(w)
           \/ \A o \in Orders : order'[o].source = order[o].source
<1>1. CASE UNCHANGED order
  BY <1>1
<1>2. ASSUME NEW p \in Orders, NEW s \in {"PLACED", "PREPARING"}, NEW f \in Fulfilment,
             NEW c \in Owner, NEW hops, Create(p, s, f, c, hops)
      PROVE  \A o \in Orders : order'[o].source = order[o].source
  <2>1. /\ order' = [order EXCEPT ![p] = NewRow(s, f, c)] /\ NewRow(s, f, c).source = "none"
        /\ order[p].source = "none"
    BY <1>2 DEF Create, NewRow, DriversComeLate
  <2> HIDE DEF NewRow
  <2> QED BY <2>1 DEF TypeOK
<1>3. ASSUME NEW w \in Workers,
             CommitAccept(w) \/ CommitStatus(w) \/ CommitAssign(w) \/ CommitStart(w)
      PROVE  \A o \in Orders : order'[o].source = order[o].source
  <2>1. job[w].order \in Orders /\ order[job[w].order] \in OrderRow
    BY <1>3, ClaimedRowIsOpen DEF CommitAccept, CommitStatus, CommitAssign, CommitStart,
       TypeOK
  <2>2. PICK x : order' = [order EXCEPT ![job[w].order] = x]
                 /\ x.source = order[job[w].order].source
    <3>1. ASSUME NEW s, SetStatus(job[w].order, s)
          PROVE  \E x : order' = [order EXCEPT ![job[w].order] = x]
                        /\ x.source = order[job[w].order].source
      <4>1. [order[job[w].order] EXCEPT !.status = s].source = order[job[w].order].source
        BY <2>1 DEF OrderRow
      <4> QED BY <3>1, <4>1 DEF SetStatus
    <3>2. ASSUME CommitAssign(w)
          PROVE  \E x : order' = [order EXCEPT ![job[w].order] = x]
                        /\ x.source = order[job[w].order].source
      <4>1. [order[job[w].order] EXCEPT !.driver = job[w].driver].source
              = order[job[w].order].source
        BY <2>1 DEF OrderRow
      <4> QED BY <3>2, <4>1 DEF CommitAssign
    <3> QED BY <1>3, <3>1, <3>2 DEF CommitAccept, CommitStatus, CommitStart
  <2> QED BY <2>1, <2>2 DEF TypeOK
<1> QED BY <1>1, <1>2, <1>3, OtherStepsLeaveOrders DEF vars, OrderSteps

LEMMA ClosingApproves ==
    ASSUME TypeOK, HandlersInv, ApprovalInv, DriversComeLate, ApprovalClosesItsOrder,
           NEW w \in Workers, CommitClose(w)
    PROVE  ApprovalClosesItsOrder'
<1> DEFINE j == job[w]
           o == j.order
           r == j.request
<1>1. /\ o \in Orders /\ HandlerOK(w, j) /\ Closes(j) /\ order[o] \in OrderRow
      /\ order[o].status \in Open
  BY ClosingFacts DEF TypeOK
<1>2. order[o].source = "none" /\ Approved(o) = {}
  BY <1>1 DEF DriversComeLate, Open, DriverActive, ApprovalClosesItsOrder, Approved
<1>3. /\ order'[o].source = Closed(order[o], j).source
      /\ \A p \in Orders \ {o} : order'[p] = order[p]
  BY <1>1, ClosedRow DEF TypeOK
<1>4. order'[o].source = "REQUEST" <=> j.op \in Approvals
  BY <1>1, <1>2, <1>3 DEF Closed, CancelSource, OrderRow, Closes, CloseOps, Approvals,
     HandlerOK, Validation, CancelOps
<1>5. CASE j.op \in Approvals
  <2>1. /\ r \in Requests /\ request[r] = [status |-> "PENDING", order |-> o]
        /\ request' = [request EXCEPT ![r] = [status |-> "APPROVED", order |-> o]]
    BY <1>5, CloseApproves
  <2>2. /\ request'[r] = [status |-> "APPROVED", order |-> o]
        /\ \A q \in Requests \ {r} : request'[q] = request[q]
    BY <2>1 DEF TypeOK
  <2>3. \A q \in Requests, p \in Orders :
           request'[q] = [status |-> "APPROVED", order |-> p]
             <=> \/ q = r /\ p = o
                 \/ q # r /\ request[q] = [status |-> "APPROVED", order |-> p]
    <3>1. \A p \in Orders : [status |-> "APPROVED", order |-> o] = [status |-> "APPROVED", order |-> p]
                             <=> p = o
      OBVIOUS
    <3> QED BY <2>2, <3>1
  <2>4. \A p \in Orders : p = o => Approved(p)' = {r}
    <3>1. \A q \in Requests : request[q] # [status |-> "APPROVED", order |-> o]
      BY <1>2 DEF Approved
    <3>2. \A q \in Requests : request'[q] = [status |-> "APPROVED", order |-> o] <=> q = r
      BY <1>1, <2>3, <3>1
    <3> QED BY <2>1, <3>2 DEF Approved
  <2>5. \A p \in Orders \ {o} : Approved(p)' = Approved(p)
    <3>1. \A p \in Orders : request[r] # [status |-> "APPROVED", order |-> p]
      BY <2>1
    <3>2. \A p \in Orders \ {o}, q \in Requests :
             request'[q] = [status |-> "APPROVED", order |-> p]
               <=> request[q] = [status |-> "APPROVED", order |-> p]
      BY <2>3, <3>1
    <3> QED BY <3>2 DEF Approved
  <2>6. \A p \in Orders \ {o} :
           IF order'[p].source = "REQUEST" THEN Cardinality(Approved(p)') = 1
           ELSE Approved(p)' = {}
    BY <1>3, <2>5 DEF ApprovalClosesItsOrder, Approved
  <2>7. \A p \in Orders :
           p = o => order'[p].source = "REQUEST" /\ Cardinality(Approved(p)') = 1
    <3>1. Cardinality({r}) = 1
      BY FS_Singleton
    <3> QED BY <1>4, <1>5, <2>4, <3>1
  <2>8. \A p \in Orders :
           IF order'[p].source = "REQUEST" THEN Cardinality(Approved(p)') = 1
           ELSE Approved(p)' = {}
    BY <2>6, <2>7
  <2> QED BY <2>8 DEF ApprovalClosesItsOrder, Approved
<1>6. CASE j.op \notin Approvals
  <2>1. request' = request
    BY <1>6, CloseApproves
  <2> QED BY <1>2, <1>3, <1>4, <1>6, <2>1 DEF ApprovalClosesItsOrder, Approved
<1> QED BY <1>5, <1>6

LEMMA ApprovalStep ==
    ASSUME TypeOK, HandlersInv, ApprovalInv, DriversComeLate, ApprovalClosesItsOrder, [Next]_vars
    PROVE  ApprovalClosesItsOrder'
<1>1. CASE \E w \in Workers : CommitClose(w)
  BY <1>1, ClosingApproves
<1>2. CASE \A o \in Orders : Approved(o)' = Approved(o) /\ order'[o].source = order[o].source
  BY <1>2 DEF ApprovalClosesItsOrder, Approved
<1> QED BY <1>1, <1>2, OtherStepsDecideNothing, OtherStepsCancelNothing

LEMMA ApprovalsAgree == Spec => [](ApprovalInv /\ ApprovalClosesItsOrder)
<1>1. Init => ApprovalInv /\ ApprovalClosesItsOrder
  <2> SUFFICES ASSUME Init
               PROVE  ApprovalInv /\ ApprovalClosesItsOrder
    OBVIOUS
  <2>1. PICK d \in Drivers :
           /\ order = [o \in Orders |-> IF o \in LegacyOrders THEN LegacyRow(d)
                                        ELSE NewRow("NONE", "PICKUP", "customer")]
           /\ request = [r \in Requests |->
                           [status |-> "NONE", order |-> CHOOSE o \in Orders : TRUE]]
           /\ job = [w \in Workers |-> Idle]
    BY Zenon DEF Init
  <2>2. \A w \in Workers : job[w] = Idle
    BY <2>1
  <2>3. \A r \in Requests : request[r].status = "NONE"
    BY <2>1
  <2>4. \A o \in Orders : order[o].source = "none"
    <3>1. LegacyRow(d).source = "none" /\ NewRow("NONE", "PICKUP", "customer").source = "none"
      BY DEF LegacyRow, NewRow
    <3> QED BY <2>1, <3>1
  <2>5. \A o \in Orders : Approved(o) = {}
    BY <2>3 DEF Approved
  <2> QED BY <2>2, <2>4, <2>5 DEF ApprovalInv, ApprovalClosesItsOrder, Approved
<1>2. /\ TypeOK /\ HandlersInv /\ ApprovalInv /\ ApprovalClosesItsOrder /\ [Next]_vars
      /\ DriversComeLate /\ SelfCancelStrandsNobody
      => (ApprovalInv /\ ApprovalClosesItsOrder)'
  BY ApprovalsAreKept, ApprovalStep
<1> QED BY <1>1, <1>2, RowsAndHandlers, LateDrivers, PTL DEF Spec

\* An order is cancelled by request exactly if one request was approved for it,
\* and never by two: kitchen and admin decide in transactions that lock the two
\* rows in opposite orders, and one of them loses as a whole.
THEOREM ApprovalsClose == Spec => []ApprovalClosesItsOrder
BY ApprovalsAgree, PTL
-----------------------------------------------------------------------------
(* The handlers implement the closure *)

LEMMA StatusView ==
    ASSUME TypeOK, NEW o \in Orders, NEW s \in Status, NEW r \in OrderRow,
           order' = [order EXCEPT ![o] = r],
           r.status = s, r.driver = order[o].driver, r.fulfil = order[o].fulfil,
           r.owner = order[o].owner
    PROVE  ClosureRow' = [ClosureRow EXCEPT ![o].status = s]
<1>1. order \in [Orders -> OrderRow]
  BY DEF TypeOK
<1>2. ClosureRow' = [p \in Orders |-> IF p = o
                       THEN [status |-> s, driver |-> order[o].driver,
                             fulfil |-> order[o].fulfil, owner |-> order[o].owner]
                       ELSE ClosureRow[p]]
  BY <1>1 DEF ClosureRow
<1>3. [ClosureRow[o] EXCEPT !.status = s]
        = [status |-> s, driver |-> order[o].driver,
           fulfil |-> order[o].fulfil, owner |-> order[o].owner]
  BY DEF ClosureRow
<1>4. [ClosureRow EXCEPT ![o].status = s]
        = [p \in Orders |-> IF p = o THEN [ClosureRow[o] EXCEPT !.status = s]
                            ELSE ClosureRow[p]]
  BY DEF ClosureRow
<1> QED BY <1>2, <1>3, <1>4

LEMMA CreateIsClosureCreate ==
    ASSUME TypeOK, NEW o \in Orders, NEW s \in {"PLACED", "PREPARING"},
           NEW f \in Fulfilment, NEW c \in Owner, NEW hops, Create(o, s, f, c, hops)
    PROVE  Closure!CNext
<1> DEFINE v == [status |-> s, driver |-> NoDriver, fulfil |-> f, owner |-> c]
<1>1. order \in [Orders -> OrderRow]
  BY DEF TypeOK
<1>2. ClosureRow' = [ClosureRow EXCEPT ![o] = v]
  BY <1>1 DEF Create, NewRow, ClosureRow
<1>3. ClosureRow[o].status = "NONE"
  BY DEF ClosureRow, Create
<1>4. noShows' = noShows /\ ClosureCompleted' = ClosureCompleted
  BY DEF Create, ClosureCompleted
<1>5. f \in {"PICKUP", "DELIVERY"} /\ c \in {"customer", "guest"}
  BY DEF Fulfilment, Owner
<1>6. Closure!Create(o)
  BY <1>2, <1>3, <1>4, <1>5 DEF Closure!Create
<1> QED BY <1>6 DEF Closure!CNext

LEMMA AdvanceIsClosureAdvance ==
    ASSUME TypeOK, HandlersInv, NEW w \in Workers,
           CommitAccept(w) \/ CommitStatus(w) \/ CommitStart(w)
    PROVE  Closure!CNext
<1> DEFINE o == job[w].order
           from == order[o].status
<1>1. PICK op \in {"accept", "status", "start"} :
         /\ Claims(w, op)
         /\ \/ op = "accept" /\ SetStatus(o, "PREPARING")
            \/ op = "status" /\ SetStatus(o, job[w].to)
            \/ op = "start" /\ SetStatus(o, "OUT_FOR_DELIVERY")
         /\ UNCHANGED <<driver, noShows>>
  BY DEF CommitAccept, CommitStatus, CommitStart
<1>2. /\ job[w] \in JobRow /\ o \in Orders /\ HandlerOK(w, job[w])
      /\ job[w].op = op /\ job[w].rows = <<>> /\ job[w].phase = "write"
      /\ from = job[w].seen.status
  BY <1>1, ClaimedRowIsOpen
<1>3. Validation(job[w]) /\ RowsToClaim(job[w])
  BY <1>2 DEF HandlerOK
<1>4. op = "status" => job[w].to \notin Terminal
  BY <1>2, <1>3, <<>> # <<o>> DEF RowsToClaim, Closes, CloseOps
<1>5. op = "status" => <<from, job[w].to>> \in Closure!OpenEdges
                       /\ job[w].to \in Closure!OpenStatus
  <2>1. op = "status" => StatusAllowed(job[w].seen, job[w].to)
    BY <1>2, <1>3 DEF Validation
  <2>2. op = "status" => <<from, job[w].to>> \in AllowedTransitions
    BY <1>2, <1>4, <2>1 DEF StatusAllowed, ExternalDelivery, Terminal
  <2> QED BY <1>4, <2>2 DEF AllowedTransitions, Terminal, Closure!OpenEdges,
      Closure!OpenStatus
<1>6. \E to \in Closure!OpenStatus : /\ <<from, to>> \in Closure!OpenEdges
                                     /\ SetStatus(o, to)
  <2>1. CASE op = "accept"
    BY <1>1, <1>2, <1>3, <2>1 DEF Validation, Closure!OpenEdges, Closure!OpenStatus
  <2>2. CASE op = "status"
    BY <1>1, <1>5, <2>2
  <2>3. CASE op = "start"
    BY <1>1, <1>2, <1>3, <2>3 DEF Validation, Closure!OpenEdges, Closure!OpenStatus
  <2> QED BY <2>1, <2>2, <2>3
<1>7. PICK to \in Closure!OpenStatus : <<from, to>> \in Closure!OpenEdges /\ SetStatus(o, to)
  BY <1>6
<1>8. ClosureRow' = [ClosureRow EXCEPT ![o].status = to]
  <2>1. order[o] \in OrderRow /\ to \in Status
    BY <1>2 DEF TypeOK, Closure!OpenStatus, Status, Open, DriverActive
  <2>2. PICK r : r = [order[o] EXCEPT !.status = to]
    OBVIOUS
  <2>3. /\ r \in OrderRow /\ r.status = to /\ r.driver = order[o].driver
        /\ r.fulfil = order[o].fulfil /\ r.owner = order[o].owner
    BY <2>1, <2>2 DEF OrderRow
  <2>4. order' = [order EXCEPT ![o] = r]
    BY <1>7, <2>2 DEF SetStatus
  <2> QED BY <1>2, <2>1, <2>3, <2>4, StatusView
<1>9. ClosureRow[o].status = from
  BY <1>2 DEF ClosureRow
<1>10. noShows' = noShows /\ ClosureCompleted' = ClosureCompleted
  BY <1>1 DEF ClosureCompleted
<1>11. Closure!Advance(o, to)
  BY <1>7, <1>8, <1>9, <1>10 DEF Closure!Advance
<1> QED BY <1>2, <1>11 DEF Closure!CNext

LEMMA AssignIsClosureAssign ==
    ASSUME TypeOK, HandlersInv, NEW w \in Workers, CommitAssign(w)
    PROVE  Closure!CNext
<1> DEFINE o == job[w].order
           d == job[w].driver
<1>1. Claims(w, "assign") /\ order' = [order EXCEPT ![o].driver = d]
      /\ SetAvailability(d, "ON_DELIVERY") /\ noShows' = noShows
  BY DEF CommitAssign
<1>2. /\ o \in Orders /\ HandlerOK(w, job[w]) /\ job[w].op = "assign"
      /\ order[o].status = job[w].seen.status
  BY <1>1, ClaimedRowIsOpen
<1>3. d \in Drivers /\ order[o].status \in {"ACCEPTED", "PREPARING", "READY"}
  BY <1>2 DEF HandlerOK, Validation
<1>4. ClosureRow' = [ClosureRow EXCEPT ![o].driver = d]
  <2>1. order \in [Orders -> OrderRow]
    BY DEF TypeOK
  <2>2. PICK r : r = [order[o] EXCEPT !.driver = d]
    OBVIOUS
  <2>3. /\ r.status = order[o].status /\ r.driver = d
        /\ r.fulfil = order[o].fulfil /\ r.owner = order[o].owner
    BY <1>2, <2>1, <2>2 DEF OrderRow
  <2>4. order' = [order EXCEPT ![o] = r]
    BY <1>1, <2>2
  <2>5. ClosureRow' = [p \in Orders |-> IF p = o
                         THEN [status |-> order[o].status, driver |-> d,
                               fulfil |-> order[o].fulfil, owner |-> order[o].owner]
                         ELSE ClosureRow[p]]
    BY <1>2, <2>1, <2>3, <2>4 DEF ClosureRow
  <2>6. [ClosureRow[o] EXCEPT !.driver = d]
          = [status |-> order[o].status, driver |-> d,
             fulfil |-> order[o].fulfil, owner |-> order[o].owner]
    BY <1>2 DEF ClosureRow
  <2>7. [ClosureRow EXCEPT ![o].driver = d]
          = [p \in Orders |-> IF p = o THEN [ClosureRow[o] EXCEPT !.driver = d]
                              ELSE ClosureRow[p]]
    BY DEF ClosureRow
  <2> QED BY <2>5, <2>6, <2>7
<1>5. ClosureRow[o].status = order[o].status
  BY <1>2 DEF ClosureRow
<1>6. ClosureCompleted' = ClosureCompleted
  <2>1. \A e \in Drivers : driver'[e].completed = driver[e].completed
    BY <1>1, <1>3 DEF SetAvailability, TypeOK
  <2> QED BY <2>1 DEF ClosureCompleted
<1>7. Closure!Assign(o, d)
  BY <1>1, <1>3, <1>4, <1>5, <1>6 DEF Closure!Assign
<1> QED BY <1>2, <1>3, <1>7 DEF Closure!CNext

\* Where validation lets a closing handler go is where the closure may go.
LEMMA ValidatedMayClose ==
    ASSUME NEW j, Validation(j), Closes(j), NEW v,
           v.status = j.seen.status, v.fulfil = j.seen.fulfil,
           j.op # "selfCancel" => v.driver = j.seen.driver
    PROVE  Closure!MayClose(v, j.to)
<1>1. CASE j.op = "status"
  <2>1. j.seen.status \in Open /\ StatusAllowed(j.seen, j.to)
    BY <1>1 DEF Validation
  <2>2. CASE j.to = "CANCELLED"
    BY <2>1, <2>2 DEF Closure!MayClose, Closure!OpenStatus, Open, DriverActive
  <2>3. CASE <<j.seen.status, j.to>> \in AllowedTransitions /\ FulfilmentAllows(j.seen, j.to)
    <3>1. \/ j.seen.status = "READY" /\ j.to \in {"PICKED_UP", "NO_SHOW_PICKUP"}
          \/ j.seen.status = "OUT_FOR_DELIVERY" /\ j.to = "NO_SHOW_DELIVERY"
      BY <2>3 DEF AllowedTransitions, Closes, Terminal
    <3>2. FulfilmentAllows(j.seen, j.to)
      BY <2>3
    <3> QED BY <3>1, <3>2 DEF FulfilmentAllows, Closure!MayClose
  <2>4. CASE ExternalDelivery(j.seen, j.to)
    BY <1>1, <2>4, StoreAssumption DEF ExternalDelivery, Closure!MayClose
  <2> QED BY <2>1, <2>2, <2>3, <2>4 DEF StatusAllowed
<1>2. CASE j.op \in {"complete", "noPin"}
  <2>1. /\ j.seen.status = "OUT_FOR_DELIVERY" /\ j.seen.driver \in Drivers
        /\ j.to = IF j.op = "complete" THEN "DELIVERED" ELSE "NO_PIN_DELIVERY"
    BY <1>2 DEF Validation
  <2> QED BY <1>2, <2>1, StoreAssumption DEF Closure!MayClose
<1>3. CASE j.op \in CancelOps
  <2>1. j.seen.status \in Open /\ j.to = "CANCELLED"
    BY <1>3 DEF Validation
  <2> QED BY <2>1 DEF Closure!MayClose, Closure!OpenStatus, Open, DriverActive
<1> QED BY <1>1, <1>2, <1>3 DEF Closes, CloseOps, CancelOps

\* Exactly the deliveries by a driver are the closings his count grows with.
LEMMA DeliveriesAreCompletions ==
    ASSUME NEW j \in JobRow, Validation(j), Closes(j)
    PROVE  /\ j.to \in {"DELIVERED", "NO_PIN_DELIVERY"} /\ j.seen.driver # NoDriver
              <=> Completes(j)
           /\ Completes(j) => ReleasesDriver(j)
<1>1. CASE j.op \in {"complete", "noPin"}
  <2>1. /\ j.seen.driver \in Drivers
        /\ j.to = IF j.op = "complete" THEN "DELIVERED" ELSE "NO_PIN_DELIVERY"
    BY <1>1 DEF Validation
  <2> QED BY <1>1, <2>1, StoreAssumption DEF Completes, ReleasesDriver
<1>2. CASE j.op = "status"
  <2>1. StatusAllowed(j.seen, j.to)
    BY <1>2 DEF Validation
  <2>2. j.to \in {"DELIVERED", "NO_PIN_DELIVERY"} => j.seen.driver = NoDriver
    BY <2>1 DEF StatusAllowed, AllowedTransitions, ExternalDelivery
  <2> QED BY <1>2, <2>2 DEF Completes
<1>3. CASE j.op \in CancelOps
  BY <1>3 DEF Validation, CancelOps, Completes
<1> QED BY <1>1, <1>2, <1>3 DEF Closes, CloseOps, CancelOps

LEMMA CloseIsClosureClose ==
    ASSUME TypeOK, HandlersInv, NEW w \in Workers, CommitClose(w)
    PROVE  Closure!CNext
<1> DEFINE j == job[w]
           o == j.order
           v == ClosureRow[o]
<1>1. /\ j \in JobRow /\ o \in Orders /\ j.seen \in OrderRow /\ Closes(j)
      /\ Validation(j) /\ OrderGuard(j) /\ SameOrder(order[o], j.seen)
  BY ClosingFacts DEF HandlerOK
<1>2. /\ v.status = j.seen.status /\ v.driver = order[o].driver
      /\ v.fulfil = j.seen.fulfil /\ v.owner = j.seen.owner
  BY <1>1 DEF ClosureRow, OrderGuard, SameOrder
<1>3. j.op # "selfCancel" => v.driver = j.seen.driver
  BY <1>1, <1>2 DEF OrderGuard, StatusOnlyGuard, Closes, CloseOps
<1>4. Closure!MayClose(v, j.to)
  BY <1>1, <1>2, <1>3, ValidatedMayClose
<1>5. ClosureRow' = [ClosureRow EXCEPT ![o].status = j.to]
  <2>1. PICK r : r = Closed(order[o], j)
    OBVIOUS
  <2>2. r \in OrderRow /\ order' = [order EXCEPT ![o] = r]
    BY <2>1, ClosedRow
  <2>3. order'[o] = r
    BY <1>1, <2>2 DEF TypeOK
  <2>4. /\ r.status = j.to /\ r.driver = order[o].driver
        /\ r.fulfil = order[o].fulfil /\ r.owner = order[o].owner
    BY <2>3, ClosedRow DEF SameOrder
  <2>5. j.to \in Status
    BY <1>1 DEF JobRow
  <2> HIDE DEF j, o, v
  <2> QED BY <1>1, <2>2, <2>4, <2>5, StatusView
<1>6. noShows' = noShows + (IF /\ j.to \in {"NO_SHOW_PICKUP", "NO_SHOW_DELIVERY"}
                               /\ v.owner = "customer" THEN 1 ELSE 0)
  BY <1>2 DEF CommitClose
<1>7. ClosureCompleted' =
        IF j.to \in {"DELIVERED", "NO_PIN_DELIVERY"} /\ v.driver # NoDriver
        THEN [ClosureCompleted EXCEPT ![v.driver] = @ + 1]
        ELSE ClosureCompleted
  <2> DEFINE d == j.seen.driver
  <2>1. driver \in [Drivers -> DriverRow] /\ d \in Drivers \cup {NoDriver}
    BY <1>1 DEF TypeOK, OrderRow
  <2>2. j.to \in {"DELIVERED", "NO_PIN_DELIVERY"} /\ v.driver # NoDriver <=> Completes(j)
    <3>1. j.op = "selfCancel" => j.to \notin {"DELIVERED", "NO_PIN_DELIVERY"}
      BY <1>1 DEF Validation, CancelOps
    <3> QED BY <1>1, <1>3, <3>1, DeliveriesAreCompletions DEF Completes
  <2>3. CASE Completes(j)
    <3>1. ReleasesDriver(j) /\ d = v.driver /\ d \in Drivers
      BY <1>1, <1>3, <2>1, <2>3, DeliveriesAreCompletions DEF Completes, ReleasesDriver
    <3>2. driver' = [driver EXCEPT ![d] = Released(driver[d], j)]
      BY <3>1 DEF CommitClose
    <3>3. Released(driver[d], j).completed = driver[d].completed + 1
      BY <2>3 DEF Released
    <3> HIDE DEF d, v
    <3>4. ClosureCompleted' = [ClosureCompleted EXCEPT ![d] = driver[d].completed + 1]
      BY <2>1, <3>1, <3>2, <3>3 DEF ClosureCompleted
    <3> QED BY <2>2, <2>3, <3>1, <3>4 DEF ClosureCompleted
  <2>4. CASE ~ Completes(j)
    <3>1. CASE ReleasesDriver(j)
      <4>1. d \in Drivers /\ driver' = [driver EXCEPT ![d] = Released(driver[d], j)]
        BY <2>1, <3>1 DEF CommitClose, ReleasesDriver
      <4>2. Released(driver[d], j).completed = driver[d].completed
        BY <2>1, <2>4, <4>1 DEF Released, DriverRow
      <4> HIDE DEF d
      <4> QED BY <2>1, <2>2, <2>4, <4>1, <4>2 DEF ClosureCompleted
    <3>2. CASE ~ ReleasesDriver(j)
      BY <2>2, <2>4, <3>2 DEF CommitClose, ClosureCompleted
    <3> QED BY <3>1, <3>2
  <2> QED BY <2>2, <2>3, <2>4
<1>8. Closure!Close(o, j.to)
  BY <1>4, <1>5, <1>6, <1>7 DEF Closure!Close
<1> QED BY <1>1, <1>8 DEF Closure!CNext, Closes, Terminal, Closure!TerminalStatus

LEMMA InitIsClosureInit ==
    ASSUME Init
    PROVE  Closure!CInit
<1>1. PICK d \in Drivers :
        /\ order = [o \in Orders |-> IF o \in LegacyOrders THEN LegacyRow(d)
                                     ELSE NewRow("NONE", "PICKUP", "customer")]
        /\ driver = [e \in Drivers |->
                       LET out == e = d /\ LegacyOrders # {} IN
                       [avail |-> IF out THEN "ON_DELIVERY" ELSE "AVAILABLE",
                        onDelivery |-> out, completed |-> 0]]
        /\ noShows = 0
  BY DEF Init
<1>2. \A o \in Orders : order[o].status \in {"NONE", "OUT_FOR_DELIVERY"}
  BY <1>1 DEF LegacyRow, NewRow
<1>3. \A e \in Drivers : driver[e].completed = 0
  BY <1>1
<1> QED BY <1>1, <1>2, <1>3 DEF Closure!CInit, ClosureRow, ClosureCompleted

\* All handlers together, however they interleave and crash, close each order
\* along the closure's edges, with the closing's accounting in the same step.
THEOREM Refinement == Spec => ImplementsClosure
<1>1. Init => Closure!CInit
  BY InitIsClosureInit
<1>2. TypeOK /\ HandlersInv /\ [Next]_vars => [Closure!CNext]_(Closure!cvars)
  <2>1. ASSUME TypeOK, HandlersInv, Next
        PROVE  Closure!CNext \/ UNCHANGED Closure!cvars
    <3>1. CASE OrderSteps
      BY <2>1, <3>1, CreateIsClosureCreate, AdvanceIsClosureAdvance,
         AssignIsClosureAssign, CloseIsClosureClose DEF OrderSteps
    <3>2. CASE UNCHANGED <<order, noShows>> /\ ClosureCompleted' = ClosureCompleted
      BY <3>2 DEF Closure!cvars, ClosureRow
    <3> QED BY <2>1, <3>1, <3>2, OtherStepsLeaveOrders
  <2>2. UNCHANGED vars => UNCHANGED Closure!cvars
    BY DEF vars, Closure!cvars, ClosureRow, ClosureCompleted
  <2> QED BY <2>1, <2>2
<1> QED BY <1>1, <1>2, RowsAndHandlers, PTL DEF Spec, ImplementsClosure, Closure!CSpec
-----------------------------------------------------------------------------
(* What is counted with a closing is counted right *)

\* The orders a counter stands for, as the closure sees them.
NoShowRows == {o \in Orders : /\ ClosureRow[o].status \in {"NO_SHOW_PICKUP", "NO_SHOW_DELIVERY"}
                              /\ ClosureRow[o].owner = "customer"}
CompletedRows(d) == {o \in Orders : /\ ClosureRow[o].status \in {"DELIVERED", "NO_PIN_DELIVERY"}
                                    /\ ClosureRow[o].driver = d}

Counted == /\ noShows = Cardinality(NoShowRows)
           /\ \A d \in Drivers : ClosureCompleted[d] = Cardinality(CompletedRows(d))

CountedStatus == {"DELIVERED", "NO_PIN_DELIVERY", "NO_SHOW_PICKUP", "NO_SHOW_DELIVERY"}

\* The step changes one order, which no counter stands for before or after.
QuietStep(o) ==
    /\ \A p \in Orders \ {o} : ClosureRow'[p] = ClosureRow[p]
    /\ ClosureRow[o].status \notin CountedStatus
    /\ ClosureRow'[o].status \notin CountedStatus
    /\ UNCHANGED <<noShows, ClosureCompleted>>

LEMMA OneMore ==
    ASSUME NEW S \in SUBSET Orders, NEW o \in Orders, o \notin S
    PROVE  Cardinality(S \cup {o}) = Cardinality(S) + 1
<1>1. IsFiniteSet(S)
  BY OrdersAreFinite, FS_Subset
<1> QED BY <1>1, FS_AddElement

\* The rows the abstraction sees are records of four columns.
LEMMA RowsOfTheClosure ==
    ASSUME NEW o \in Orders
    PROVE  /\ DOMAIN ClosureRow = Orders
           /\ ClosureRow[o] = [status |-> order[o].status, driver |-> order[o].driver,
                               fulfil |-> order[o].fulfil, owner |-> order[o].owner]
BY DEF ClosureRow

\* A step that sets one row's status leaves that row's owner and driver and all
\* the other rows as they were.
LEMMA StatusIsSet ==
    ASSUME NEW o \in Orders, NEW to, ClosureRow' = [ClosureRow EXCEPT ![o].status = to]
    PROVE  /\ ClosureRow'[o].status = to
           /\ ClosureRow'[o].owner = ClosureRow[o].owner
           /\ ClosureRow'[o].driver = ClosureRow[o].driver
           /\ \A p \in Orders \ {o} : ClosureRow'[p] = ClosureRow[p]
<1>1. DOMAIN ClosureRow = Orders
  BY RowsOfTheClosure
<1>2. /\ ClosureRow'[o] = [ClosureRow[o] EXCEPT !.status = to]
      /\ \A p \in Orders \ {o} : ClosureRow'[p] = ClosureRow[p]
  BY <1>1
<1>3. ClosureRow'[o] = [status |-> to, driver |-> order[o].driver,
                       fulfil |-> order[o].fulfil, owner |-> order[o].owner]
  <2> DEFINE old == ClosureRow[o]
  <2>1. old = [status |-> order[o].status, driver |-> order[o].driver,
               fulfil |-> order[o].fulfil, owner |-> order[o].owner]
    BY RowsOfTheClosure
  <2> HIDE DEF old
  <2>2. ClosureRow'[o] = [old EXCEPT !.status = to]
    BY <1>2 DEF old
  <2> QED BY <2>1, <2>2
<1>4. ClosureRow[o].owner = order[o].owner /\ ClosureRow[o].driver = order[o].driver
  BY DEF ClosureRow
<1> QED BY <1>2, <1>3, <1>4

\* Creating, advancing and assigning touch open orders only.
LEMMA OpenStepsCountNothing ==
    ASSUME NEW o \in Orders,
           \/ Closure!Create(o)
           \/ \E to \in Closure!OpenStatus : Closure!Advance(o, to)
           \/ \E d \in Drivers : Closure!Assign(o, d)
    PROVE  /\ NoShowRows' = NoShowRows /\ \A d \in Drivers : CompletedRows(d)' = CompletedRows(d)
           /\ UNCHANGED <<noShows, ClosureCompleted>>
<1>2. QuietStep(o)
  <2>1. CASE Closure!Create(o)
    <3>1. PICK s \in {"PLACED", "PREPARING"}, f \in {"PICKUP", "DELIVERY"},
               c \in {"customer", "guest"} :
               ClosureRow' = [ClosureRow EXCEPT ![o] = [status |-> s, driver |-> NoDriver,
                                                        fulfil |-> f, owner |-> c]]
      BY <2>1 DEF Closure!Create
    <3>2. ClosureRow'[o].status = s /\ \A p \in Orders \ {o} : ClosureRow'[p] = ClosureRow[p]
      BY <3>1, RowsOfTheClosure
    <3> QED BY <2>1, <3>2 DEF Closure!Create, QuietStep, CountedStatus
  <2>2. ASSUME NEW to \in Closure!OpenStatus, Closure!Advance(o, to)
        PROVE  QuietStep(o)
    <3>1. ClosureRow' = [ClosureRow EXCEPT ![o].status = to]
      BY <2>2 DEF Closure!Advance
    <3>2. ClosureRow'[o].status = to /\ \A p \in Orders \ {o} : ClosureRow'[p] = ClosureRow[p]
      BY <3>1, StatusIsSet
    <3> QED BY <2>2, <3>2 DEF Closure!Advance, Closure!OpenEdges, Closure!OpenStatus,
           QuietStep, CountedStatus
  <2>3. ASSUME NEW d \in Drivers, Closure!Assign(o, d)
        PROVE  QuietStep(o)
    <3>1. ClosureRow' = [ClosureRow EXCEPT ![o].driver = d]
      BY <2>3 DEF Closure!Assign
    <3>2. /\ ClosureRow'[o].status = ClosureRow[o].status
          /\ \A p \in Orders \ {o} : ClosureRow'[p] = ClosureRow[p]
      BY <3>1, RowsOfTheClosure
    <3> QED BY <2>3, <3>2 DEF Closure!Assign, QuietStep, CountedStatus
  <2> QED BY <2>1, <2>2, <2>3
<1> QED BY <1>2 DEF QuietStep, CountedStatus, NoShowRows, CompletedRows

LEMMA ClosingCounts ==
    ASSUME TypeOK, Counted, NEW o \in Orders, NEW to \in Closure!TerminalStatus,
           Closure!Close(o, to)
    PROVE  Counted'
<1> DEFINE r == ClosureRow[o]
<1>1. /\ ClosureRow' = [ClosureRow EXCEPT ![o].status = to]
      /\ Closure!MayClose(r, to)
  BY DEF Closure!Close
<1>2. /\ ClosureRow'[o].status = to /\ ClosureRow'[o].owner = r.owner
      /\ ClosureRow'[o].driver = r.driver
      /\ \A p \in Orders \ {o} : ClosureRow'[p] = ClosureRow[p]
  BY <1>1, StatusIsSet
<1>3. r.status \notin CountedStatus /\ r.driver \in Drivers \cup {NoDriver}
  BY <1>1, RowsAreTyped DEF Closure!MayClose, Closure!OpenStatus, CountedStatus, ClosureRow
<1>4. noShows' = Cardinality(NoShowRows')
  <2>1. o \notin NoShowRows /\ NoShowRows \subseteq Orders
    BY <1>3 DEF NoShowRows, CountedStatus
  <2>2. CASE to \in {"NO_SHOW_PICKUP", "NO_SHOW_DELIVERY"} /\ r.owner = "customer"
    <3>1. NoShowRows' = NoShowRows \cup {o}
      BY <1>2, <2>2 DEF NoShowRows
    <3>2. noShows' = noShows + 1
      BY <2>2 DEF Closure!Close
    <3> QED BY <2>1, <3>1, <3>2, OneMore DEF Counted
  <2>3. CASE ~ (to \in {"NO_SHOW_PICKUP", "NO_SHOW_DELIVERY"} /\ r.owner = "customer")
    <3>1. NoShowRows' = NoShowRows
      BY <1>2, <1>3, <2>3 DEF NoShowRows, CountedStatus
    <3>2. noShows' = noShows + 0 /\ noShows \in Nat
      BY <2>3 DEF Closure!Close, TypeOK
    <3> QED BY <3>1, <3>2 DEF Counted
  <2> QED BY <2>2, <2>3
<1>5. ASSUME NEW d \in Drivers
      PROVE  ClosureCompleted'[d] = Cardinality(CompletedRows(d)')
  <2>1. o \notin CompletedRows(d) /\ CompletedRows(d) \subseteq Orders
    BY <1>3 DEF CompletedRows, CountedStatus
  <2>2. ClosureCompleted \in [Drivers -> Nat] /\ d # NoDriver
    BY StoreAssumption DEF ClosureCompleted, TypeOK, DriverRow
  <2>3. CASE to \in {"DELIVERED", "NO_PIN_DELIVERY"} /\ r.driver = d
    <3>1. CompletedRows(d)' = CompletedRows(d) \cup {o}
      BY <1>2, <2>3 DEF CompletedRows
    <3>2. ClosureCompleted'[d] = ClosureCompleted[d] + 1
      BY <2>2, <2>3 DEF Closure!Close
    <3> QED BY <2>1, <3>1, <3>2, OneMore DEF Counted
  <2>4. CASE ~ (to \in {"DELIVERED", "NO_PIN_DELIVERY"} /\ r.driver = d)
    <3>1. CompletedRows(d)' = CompletedRows(d)
      BY <1>2, <1>3, <2>4 DEF CompletedRows, CountedStatus
    <3>2. ClosureCompleted'[d] = ClosureCompleted[d]
      BY <2>2, <2>4 DEF Closure!Close
    <3> QED BY <3>1, <3>2 DEF Counted
  <2> QED BY <2>3, <2>4
<1> QED BY <1>4, <1>5 DEF Counted

LEMMA CountedView == Counted <=> NoShowsCounted /\ CompletionsCounted
<1>1. NoShowRows = {o \in Orders : /\ order[o].status \in {"NO_SHOW_PICKUP", "NO_SHOW_DELIVERY"}
                                   /\ order[o].owner = "customer"}
  BY DEF NoShowRows, ClosureRow
<1>2. \A d \in Drivers : CompletedRows(d) =
         {o \in Orders : /\ order[o].status \in {"DELIVERED", "NO_PIN_DELIVERY"}
                         /\ order[o].driver = d}
  BY DEF CompletedRows, ClosureRow
<1>3. \A d \in Drivers : ClosureCompleted[d] = driver[d].completed
  BY DEF ClosureCompleted
<1> QED BY <1>1, <1>2, <1>3 DEF Counted, NoShowsCounted, CompletionsCounted

\* The counters of the handlers are those of the closure.
LEMMA CountersAreRight == Spec => []Counted
<1>1. Init => Counted
  <2>1. SUFFICES ASSUME Init PROVE Counted
    OBVIOUS
  <2>2. \A o \in Orders : ClosureRow[o].status \in {"NONE", "OUT_FOR_DELIVERY"}
    BY <2>1, InitIsClosureInit DEF Closure!CInit
  <2>3. NoShowRows = {} /\ \A d \in Drivers : CompletedRows(d) = {}
    BY <2>2 DEF NoShowRows, CompletedRows
  <2>4. noShows = 0 /\ \A d \in Drivers : ClosureCompleted[d] = 0
    BY <2>1, InitIsClosureInit DEF Closure!CInit
  <2> QED BY <2>3, <2>4, FS_EmptySet DEF Counted
<1>2. TypeOK /\ Counted /\ [Closure!CNext]_(Closure!cvars) => Counted'
  <2>1. SUFFICES ASSUME TypeOK, Counted, [Closure!CNext]_(Closure!cvars)
                 PROVE  Counted'
    OBVIOUS
  <2>2. CASE UNCHANGED Closure!cvars
    <3>1. UNCHANGED <<ClosureRow, noShows, ClosureCompleted>>
      BY <2>2 DEF Closure!cvars
    <3>2. NoShowRows' = NoShowRows /\ \A d \in Drivers : CompletedRows(d)' = CompletedRows(d)
      BY <3>1 DEF NoShowRows, CompletedRows
    <3> QED BY <2>1, <3>1, <3>2 DEF Counted
  <2>3. ASSUME NEW o \in Orders, NEW to \in Closure!TerminalStatus, Closure!Close(o, to)
        PROVE  Counted'
    BY <2>1, <2>3, ClosingCounts
  <2>4. ASSUME NEW o \in Orders,
               \/ Closure!Create(o)
               \/ \E to \in Closure!OpenStatus : Closure!Advance(o, to)
               \/ \E d \in Drivers : Closure!Assign(o, d)
        PROVE  Counted'
    BY <2>1, <2>4, OpenStepsCountNothing DEF Counted
  <2> QED BY <2>1, <2>2, <2>3, <2>4 DEF Closure!CNext
<1> QED
  BY <1>1, <1>2, RowsAndHandlers, Refinement, PTL DEF Spec, ImplementsClosure, Closure!CSpec

\* No-shows are counted against the customer once each, although the tablets
\* that report one race: a consequence of the refinement.
THEOREM NoShowsAreCounted == Spec => []NoShowsCounted
<1>1. Counted => NoShowsCounted
  BY CountedView
<1> QED BY <1>1, CountersAreRight, PTL

\* A driver is credited with each delivery he completed, once, whichever of
\* the endpoints closed it.
THEOREM DeliveriesAreCounted == Spec => []CompletionsCounted
<1>1. Counted => CompletionsCounted
  BY CountedView
<1> QED BY <1>1, CountersAreRight, PTL
-----------------------------------------------------------------------------
(* Who waits for whom *)

\* The rows a transaction holds are those it has updated.
HoldsRow(j, row) ==
    \/ HasClaimed(j) /\ row = j.order
    \/ HoldsRequest(j) /\ row = j.request

LocksInv ==
    \A row \in Orders \cup Requests, w \in Workers :
        rowLock[row] = w => job[w] # Idle /\ HoldsRow(job[w], row)

LEMMA HoldsNothing ==
    ASSUME LocksInv, NEW w \in Workers,
           job[w].phase \in {"write", "closing"} => job[w].phase = "write" /\ job[w].rows = <<>>
    PROVE  \A row \in Orders \cup Requests : rowLock[row] # w
<1>1. ~ HasClaimed(job[w]) /\ ~ HoldsRequest(job[w])
  BY ShortTails DEF HasClaimed, HoldsRequest
<1> QED BY <1>1 DEF LocksInv, HoldsRow

\* A step that takes no lock of another's, and leaves its worker with the rows
\* it then holds.
LEMMA LocksOfOthers ==
    ASSUME LocksInv, NEW w \in Workers, \A v \in Workers \ {w} : job'[v] = job[v],
           \A row \in Orders \cup Requests, v \in Workers \ {w} :
              rowLock'[row] = v => rowLock[row] = v,
           \A row \in Orders \cup Requests :
              rowLock'[row] = w => job'[w] # Idle /\ HoldsRow(job'[w], row)
    PROVE  LocksInv'
<1> SUFFICES ASSUME NEW row \in Orders \cup Requests, NEW v \in Workers, rowLock'[row] = v
             PROVE  job'[v] # Idle /\ HoldsRow(job'[v], row)
  BY DEF LocksInv, HoldsRow, HasClaimed, HoldsRequest
<1>1. CASE v = w
  BY <1>1
<1>2. CASE v # w
  BY <1>2 DEF LocksInv
<1> QED BY <1>1, <1>2

\* A worker that holds nothing and locks nothing, or lets go of everything.
LEMMA LocksAreLeft ==
    ASSUME TypeOK, LocksInv, NEW w \in Workers, \A v \in Workers \ {w} : job'[v] = job[v],
           \/ ReleaseLocks(w)
           \/ UNCHANGED rowLock /\ \A row \in Orders \cup Requests : rowLock[row] # w
    PROVE  LocksInv'
<1>1. \A row \in Orders \cup Requests :
         rowLock'[row] # w /\ \A v \in Workers \ {w} : rowLock'[row] = v => rowLock[row] = v
  BY StoreAssumption DEF ReleaseLocks, TypeOK
<1> QED BY <1>1, LocksOfOthers

LEMMA ArrivalsHoldNothing ==
    ASSUME TypeOK, LocksInv, Arrive
    PROVE  LocksInv'
<1>1. ASSUME NEW w \in Workers, NEW j, Start(w, j), UNCHANGED Validated
      PROVE  LocksInv'
  <2>1. job[w].phase = "idle" /\ \A v \in Workers \ {w} : job'[v] = job[v]
    BY <1>1 DEF Start, Idle, TypeOK
  <2> QED BY <1>1, <2>1, HoldsNothing, LocksAreLeft DEF Validated
<1>2. ASSUME NEW o \in Orders, NEW w \in Workers,
             \/ AcceptOrder(w, o) \/ (\E to \in Status : UpdateStatus(w, o, to))
             \/ StartDelivery(w, o) \/ RefreshPin(w, o)
             \/ (\E d \in Drivers, b \in BOOLEAN : AssignDriver(w, o, d, b))
      PROVE  LocksInv'
  BY <1>1, <1>2 DEF AcceptOrder, UpdateStatus, StartDelivery, RefreshPin, AssignDriver,
     Validated
<1>3. ASSUME NEW o \in Orders, NEW w \in Workers,
             \/ (\E right \in BOOLEAN : VerifyPin(w, o, right) \/ CompleteDelivery(w, o, right))
             \/ CompleteDeliveryWithoutPin(w, o)
             \/ SendMessage(w, o) \/ AdminCancel(w, o) \/ CustomerCancel(w, o)
             \/ (\E r \in Requests : RequestCancellation(w, o, r))
      PROVE  LocksInv'
  BY <1>1, <1>3 DEF VerifyPin, CompleteDelivery, CompleteDeliveryWithoutPin, SendMessage,
     AdminCancel, CustomerCancel, RequestCancellation, Checked, Validated
<1>4. ASSUME NEW w \in Workers, NEW r \in Requests,
             (\E op \in {"kdsApprove", "adminApprove"} : Approve(w, r, op)) \/ Deny(w, r)
      PROVE  LocksInv'
  BY <1>1, <1>4 DEF Approve, Deny, Checked, Validated
<1>5. CASE Writing
  <2>1. UNCHANGED <<rowLock, job>>
    BY <1>5 DEF Writing, RecordCollection, BypassPin, PlaceOrder, CreatePosOrder, Create,
       UpdateAvailability
  <2> QED BY <2>1 DEF LocksInv, HoldsRow, HasClaimed, HoldsRequest
<1> QED BY <1>2, <1>3, <1>4, <1>5 DEF Arrive, Writing

\* Where a guarded update leads: the row it locks and what is then left.
LEMMA LockedRow ==
    ASSUME TypeOK, HandlersInv, NEW w \in Workers, LockRow(w)
    PROVE  /\ rowLock' = [rowLock EXCEPT ![Head(job[w].rows)] = w]
           /\ \A v \in Workers \ {w} : job'[v] = job[v]
           /\ job'[w] # Idle /\ job'[w].op = job[w].op /\ job'[w].order = job[w].order
           /\ job'[w].request = job[w].request
           /\ \/ Head(job[w].rows) = job[w].order /\ job'[w].phase = "closing"
              \/ /\ Head(job[w].rows) = job[w].request /\ job[w].op = "kdsApprove"
                 /\ job'[w].phase = "write" /\ job'[w].rows = <<job[w].order>>
              \/ /\ Head(job[w].rows) = job[w].order /\ job[w].op = "adminApprove"
                 /\ job'[w].phase = "write" /\ job'[w].rows = <<job[w].request>>
              \/ /\ Head(job[w].rows) = job[w].request /\ job[w].op = "adminApprove"
                 /\ job'[w].phase = "closing"
           /\ job[w].rows \in {<<job[w].order>>, <<job[w].request>>} => job'[w].phase = "closing"
<1> DEFINE j == job[w]
           k == [j EXCEPT !.rows = Tail(j.rows),
                          !.phase = IF Tail(j.rows) = <<>> THEN "closing" ELSE "write",
                          !.busy = Tail(j.rows) = <<>> /\ OtherActive(j.order, j.seen.driver)]
<1>1. /\ j \in JobRow /\ j.phase = "write" /\ j.rows # <<>>
      /\ rowLock' = [rowLock EXCEPT ![Head(j.rows)] = w] /\ job' = [job EXCEPT ![w] = k]
  BY BusyFacts DEF LockRow
<1>2. /\ k.op = j.op /\ k.request = j.request /\ k.order = j.order /\ k.rows = Tail(j.rows)
      /\ k.phase = IF Tail(j.rows) = <<>> THEN "closing" ELSE "write"
  BY <1>1 DEF JobRow
<1>3. job'[w] = k /\ k # Idle /\ \A v \in Workers \ {w} : job'[v] = job[v]
  BY <1>1, <1>2 DEF TypeOK, Idle
<1>4. \/ j.rows = <<j.order>> /\ j.op # "adminApprove"
      \/ j.rows = <<j.request, j.order>> /\ j.op = "kdsApprove"
      \/ j.rows = <<j.order, j.request>> /\ j.op = "adminApprove"
      \/ j.rows = <<j.request>> /\ j.op = "adminApprove"
  BY <1>1, RowsStillToClaim
<1>5. ASSUME NEW a, j.rows = <<a>>
      PROVE  Head(j.rows) = a /\ k.phase = "closing"
  BY <1>2, <1>5, ShortTails
<1>6. ASSUME NEW a, NEW b, j.rows = <<a, b>>
      PROVE  Head(j.rows) = a /\ k.phase = "write" /\ k.rows = <<b>>
  BY <1>2, <1>6, ShortTails
<1>7. /\ k.phase = "write" => j.rows # <<j.order>> /\ j.rows # <<j.request>>
      /\ \/ Head(j.rows) = j.order /\ k.phase = "closing"
         \/ /\ Head(j.rows) = j.request /\ j.op = "kdsApprove"
            /\ k.phase = "write" /\ k.rows = <<j.order>>
         \/ /\ Head(j.rows) = j.order /\ j.op = "adminApprove"
            /\ k.phase = "write" /\ k.rows = <<j.request>>
         \/ Head(j.rows) = j.request /\ j.op = "adminApprove" /\ k.phase = "closing"
  <2> HIDE DEF j, k
  <2> QED BY <1>4, <1>5, <1>6
<1> QED
  <2> HIDE DEF k
  <2> QED BY <1>1, <1>2, <1>3, <1>5, <1>7

LEMMA LockRowIsHeld ==
    ASSUME TypeOK, HandlersInv, LocksInv, NEW w \in Workers, LockRow(w)
    PROVE  LocksInv'
<1> DEFINE row == Head(job[w].rows)
<1>1. /\ job[w].phase = "write" /\ job[w].rows # <<>> /\ job[w] \in JobRow
  BY BusyFacts DEF LockRow
<1>2. row \in Orders \cup Requests
  BY <1>1 DEF JobRow
<1>3. \A x \in Orders \cup Requests : x # row => rowLock'[x] = rowLock[x]
  BY <1>2, LockedRow DEF TypeOK
<1>4. rowLock'[row] = w
  BY <1>2, LockedRow DEF TypeOK
<1>5. HoldsRow(job'[w], row)
  BY LockedRow DEF HoldsRow, HasClaimed, HoldsRequest, Approvals
<1>6. ASSUME NEW x \in Orders \cup Requests, rowLock[x] = w
      PROVE  HoldsRow(job'[w], x)
  <2>1. HoldsRow(job[w], x)
    BY <1>6 DEF LocksInv
  <2>2. job'[w].phase = "closing"
    BY <1>1, <2>1, LockedRow DEF HoldsRow, HasClaimed, HoldsRequest
  <2> QED BY <2>1, <2>2, LockedRow DEF HoldsRow, HasClaimed, HoldsRequest
<1>7. \A x \in Orders \cup Requests, v \in Workers \ {w} : rowLock'[x] = v => rowLock[x] = v
  BY <1>3, <1>4
<1>8. \A x \in Orders \cup Requests : rowLock'[x] = w => job'[w] # Idle /\ HoldsRow(job'[w], x)
  BY <1>3, <1>5, <1>6, LockedRow
<1> QED BY <1>7, <1>8, LockedRow, LocksOfOthers

LEMMA ProgressHolds ==
    ASSUME TypeOK, HandlersInv, ApprovalInv, LocksInv, NEW w \in Workers, Progress(w) \/ Crash(w)
    PROVE  LocksInv'
<1>1. \A v \in Workers \ {w} : job'[v] = job[v]
  BY ProgressApproves DEF KeepsApproval
<1>2. CASE Conflict(w) \/ DeadlockVictim(w) \/ Crash(w) \/ CommitClose(w)
  BY <1>1, <1>2, LocksAreLeft DEF Conflict, DeadlockVictim, Crash, CommitClose
<1>3. CASE \/ CommitAccept(w) \/ CommitStatus(w) \/ CommitAssign(w) \/ CommitStart(w)
           \/ CommitRequest(w) \/ CommitDeny(w)
  <2>1. UNCHANGED rowLock /\ job[w].phase = "write"
    BY <1>3 DEF CommitAccept, CommitStatus, CommitAssign, CommitStart, Claims, CommitRequest,
       CommitDeny
  <2>2. job[w].rows = <<>>
    <3>1. CASE CommitRequest(w) \/ CommitDeny(w)
      <4>1. ~ Closes(job[w])
        BY <3>1 DEF CommitRequest, CommitDeny, Closes, CloseOps
      <4> QED BY <2>1, <4>1, BusyFacts DEF HandlerOK, RowsToClaim
    <3> QED BY <1>3, <3>1 DEF CommitAccept, CommitStatus, CommitAssign, CommitStart, Claims
  <2> QED BY <1>1, <2>1, <2>2, HoldsNothing, LocksAreLeft
<1>4. CASE \/ VerifyRead(w) \/ VerifyWrite(w) \/ GeneratePin(w) \/ OpenConversation(w)
           \/ CreateForCancelledOrder(w) \/ CloseConversation(w)
  <2>1. UNCHANGED rowLock /\ job[w].phase \notin {"write", "closing"}
    BY <1>4 DEF VerifyRead, VerifyWrite, GeneratePin, OpenConversation,
       CreateForCancelledOrder, CloseConversation
  <2> QED BY <1>1, <2>1, HoldsNothing, LocksAreLeft
<1> QED BY <1>2, <1>3, <1>4, LockRowIsHeld DEF Progress

\* Whoever holds a row and still waits is an approval between its two rows.
HalfWay(w, first, second) ==
    /\ job[w] \in JobRow /\ job[w].phase = "write" /\ NextRow(job[w]) = second
    /\ \/ job[w].op = "kdsApprove" /\ first = job[w].request /\ second = job[w].order
       \/ job[w].op = "adminApprove" /\ first = job[w].order /\ second = job[w].request

LEMMA WaitingHolder ==
    ASSUME TypeOK, HandlersInv, LocksInv, NEW row \in Orders \cup Requests, NEW w \in Workers,
           rowLock[row] = w, job[w].phase = "write"
    PROVE  \E second : HalfWay(w, row, second)
<1>1. job[w] \in JobRow
  BY BusyFacts
<1>2. HoldsRow(job[w], row)
  BY DEF LocksInv
<1>3. CASE HasClaimed(job[w]) /\ row = job[w].order
  BY <1>1, <1>3, ShortTails DEF HasClaimed, HalfWay, NextRow
<1>4. CASE HoldsRequest(job[w]) /\ row = job[w].request
  BY <1>1, <1>4, ShortTails DEF HoldsRequest, HalfWay, NextRow
<1> QED BY <1>2, <1>3, <1>4 DEF HoldsRow

LEMMA NextRowType ==
    ASSUME TypeOK, HandlersInv, NEW w \in Workers, job[w].phase = "write"
    PROVE  NextRow(job[w]) \in Orders \cup Requests
<1>1. job[w] \in JobRow /\ job[w].order \in Orders /\ HandlerOK(w, job[w])
  BY BusyFacts
<1>2. job[w].rows # <<>> => Head(job[w].rows) \in Orders \cup Requests
  BY <1>1 DEF JobRow
<1>3. job[w].op = "deny" => job[w].request \in Requests
  BY <1>1 DEF HandlerOK, Validation
<1> QED BY <1>1, <1>2, <1>3 DEF NextRow

LEMMA WaitsCross ==
    ASSUME TypeOK, HandlersInv, ApprovalInv, LocksInv
    PROVE  OnlyApprovalsDeadlock
<1> SUFFICES ASSUME NEW u \in Workers, NEW v \in Workers, NEW w \in Workers,
                    WaitsFor(u, v), WaitsFor(v, w), Waits(w)
             PROVE  \E x \in Workers : Crossed(w, x)
  BY DEF OnlyApprovalsDeadlock
<1>1. PICK x \in Workers : WaitsFor(w, x)
  BY DEF Waits
<1>2. /\ job[u].phase = "write" /\ job[v].phase = "write" /\ job[w].phase = "write"
      /\ rowLock[NextRow(job[u])] = v /\ rowLock[NextRow(job[v])] = w
      /\ rowLock[NextRow(job[w])] = x
  BY <1>1 DEF WaitsFor
<1>3. PICK a, b : HalfWay(v, a, b)
  BY <1>2, NextRowType, WaitingHolder
<1>4. b = NextRow(job[v]) /\ b \in Orders \cup Requests
  BY <1>2, <1>3, NextRowType DEF HalfWay
<1>5. PICK c : HalfWay(w, b, c)
  BY <1>2, <1>4, WaitingHolder
<1>6. c = NextRow(job[w]) /\ c \in Orders \cup Requests /\ rowLock[c] = x
  BY <1>2, <1>5, NextRowType DEF HalfWay
<1>7. \A y \in Workers : job[y].phase # "idle" =>
         /\ job[y].order \in Orders /\ HandlerOK(y, job[y]) /\ RequestOK(y, job[y])
         /\ job[y].op \in Approvals =>
              job[y].request \in Requests /\ request[job[y].request].order = job[y].order
  BY BusyFacts, JobIsNotIdle, RequestOfJob DEF ApprovalInv, RequestOK
<1>8. CASE job[v].op = "kdsApprove"
  <2>1. b = job[v].order /\ b \in Orders
    BY <1>2, <1>3, <1>7, <1>8 DEF HalfWay
  <2>2. /\ job[w].op = "adminApprove" /\ b = job[w].order /\ c = job[w].request
        /\ c \in Requests
    BY <1>2, <1>5, <1>7, <2>1, StoreAssumption DEF HalfWay, Approvals
  <2>3. /\ job[x] # Idle /\ HoldsRow(job[x], c)
    BY <1>6 DEF LocksInv
  <2>4. job[x].phase # "idle"
    BY <2>3, JobIsNotIdle DEF TypeOK
  <2>5. HoldsRequest(job[x]) /\ c = job[x].request /\ job[x].op \in Approvals
    BY <1>7, <2>2, <2>3, <2>4, StoreAssumption DEF HoldsRow, HoldsRequest
  <2>6. job[x].order = job[w].order
    BY <1>2, <1>7, <2>2, <2>4, <2>5 DEF Approvals
  <2>7. job[x].phase # "closing"
    <3>1. SUFFICES ASSUME job[x].phase = "closing" PROVE FALSE
      OBVIOUS
    <3>2. rowLock[job[x].order] = x
      BY <1>7, <2>4, <3>1 DEF HandlerOK, HasClaimed
    <3> QED BY <1>2, <1>4, <2>1, <2>2, <2>6, <3>1, <3>2
  <2>8. job[x].op = "kdsApprove" /\ job[x].phase = "write" /\ job[x].rows = <<job[x].order>>
    BY <2>5, <2>7 DEF HoldsRequest
  <2>9. WaitsFor(x, w)
    BY <1>2, <1>4, <2>2, <2>6, <2>8, ShortTails DEF WaitsFor, NextRow
  <2> QED BY <1>1, <2>2, <2>5, <2>8, <2>9 DEF Crossed
<1>9. CASE job[v].op = "adminApprove"
  <2>1. /\ a = job[v].order /\ b = job[v].request /\ b \in Requests
    BY <1>2, <1>3, <1>7, <1>9 DEF HalfWay, Approvals
  <2>2. /\ job[w].op = "kdsApprove" /\ b = job[w].request /\ c = job[w].order
    BY <1>2, <1>5, <1>7, <2>1, StoreAssumption DEF HalfWay, Approvals
  <2>3. job[w].order = job[v].order
    BY <1>2, <1>7, <1>9, <2>1, <2>2 DEF Approvals
  <2>4. rowLock[job[v].order] = v
    <3>1. HoldsRow(job[v], NextRow(job[u]))
      BY <1>2, NextRowType DEF LocksInv
    <3>2. HasClaimed(job[v])
      BY <1>2, <1>9, <3>1 DEF HoldsRow, HoldsRequest
    <3> QED BY <1>2, <1>7, <3>2 DEF HandlerOK
  <2>5. x = v
    BY <1>6, <2>2, <2>3, <2>4
  <2> QED BY <1>1, <1>9, <2>1, <2>2, <2>5 DEF Crossed
<1> QED BY <1>3, <1>8, <1>9 DEF HalfWay

\* Of all the waits that row locks can tie together, only a kitchen's and an
\* admin's approval of one request tie a knot, and only the two of them: which
\* the database cuts. Any longer chain ends at a handler that can go on.
THEOREM DeadlocksAreApprovals == Spec => []OnlyApprovalsDeadlock
<1>1. Init => LocksInv
  BY StoreAssumption DEF Init, LocksInv
<1>2. TypeOK /\ HandlersInv /\ ApprovalInv /\ LocksInv /\ [Next]_vars => LocksInv'
  <2>1. UNCHANGED vars /\ LocksInv => LocksInv'
    BY DEF vars, LocksInv, HoldsRow, HasClaimed, HoldsRequest
  <2> QED BY <2>1, ArrivalsHoldNothing, ProgressHolds DEF Next
<1>3. TypeOK /\ HandlersInv /\ ApprovalInv /\ LocksInv => OnlyApprovalsDeadlock
  BY WaitsCross
<1> QED BY <1>1, <1>2, <1>3, RowsAndHandlers, ApprovalsAgree, PTL DEF Spec
=============================================================================
