------------------------------ MODULE OrderStore ------------------------------
(***************************************************************************)
(* The rows the order handlers share (orders, order_status_events,         *)
(* driver_profiles, cancellation_requests, delivery_pin_verifications,     *)
(* order_conversations, refund_requests) and the shape every handler has:  *)
(*                                                                         *)
(*   1. read the order (and what else it validates) outside a transaction, *)
(*   2. write, in one READ COMMITTED transaction, the order row guarded by *)
(*      the values read (update ... where status = <read> and              *)
(*      assignedDriverUserId = <read>); P2025 is a conflict,               *)
(*   3. run the calls that follow the commit (PIN, chat, refund request).  *)
(*                                                                         *)
(* A request in flight is the record job[w] of the worker w serving it.    *)
(* An UPDATE keeps the row locked until its transaction ends; readers go   *)
(* on seeing the last committed row.                                       *)
(***************************************************************************)
EXTENDS Naturals, Sequences, FiniteSets

CONSTANTS
    Orders,        \* order ids
    Drivers,       \* driver user ids
    Requests,      \* cancellation_request ids (bounds how many are ever made)
    Workers,       \* requests the API serves at the same time
    LegacyOrders,  \* orders out for delivery with a PIN record locked long ago
    Enabled,       \* the endpoints and faults an instance exercises
    NoDriver, NoRequest, NoWorker

ASSUME StoreAssumption ==
    /\ NoDriver \notin Drivers
    /\ NoRequest \notin Requests
    /\ NoWorker \notin Workers
    /\ Orders # {}
    /\ Orders \cap Requests = {}
    /\ LegacyOrders \subseteq Orders
    /\ LegacyOrders # {} => Drivers # {}

ASSUME OrdersAreFinite == IsFiniteSet(Orders)

-----------------------------------------------------------------------------
(* Statuses: packages/database enum OrderStatus; "NONE" is a row not yet made *)

Terminal == {"PICKED_UP", "DELIVERED", "NO_SHOW_PICKUP", "NO_SHOW_DELIVERY",
             "NO_PIN_DELIVERY", "CANCELLED"}
DriverActive == {"ACCEPTED", "PREPARING", "READY", "OUT_FOR_DELIVERY"}
Open == {"PLACED"} \cup DriverActive
Status == {"NONE"} \cup Open \cup Terminal

\* Mutant: DELIVERED offered to the generic endpoint.
AllowedTransitionsDelivered ==
    {<<"ACCEPTED", "PREPARING">>, <<"PREPARING", "READY">>,
     <<"READY", "PICKED_UP">>, <<"READY", "OUT_FOR_DELIVERY">>,
     <<"READY", "NO_SHOW_PICKUP">>, <<"OUT_FOR_DELIVERY", "NO_SHOW_DELIVERY">>,
     <<"OUT_FOR_DELIVERY", "DELIVERED">>}

\* ALLOWED_TRANSITIONS of the generic status endpoint
AllowedTransitions ==
    {<<"ACCEPTED", "PREPARING">>, <<"PREPARING", "READY">>,
     <<"READY", "PICKED_UP">>, <<"READY", "OUT_FOR_DELIVERY">>,
     <<"READY", "NO_SHOW_PICKUP">>, <<"OUT_FOR_DELIVERY", "NO_SHOW_DELIVERY">>}

Fulfilment == {"PICKUP", "DELIVERY"}
Owner == {"customer", "guest"}                \* orders.customer_user_id or null
\* KDS_CANCEL_REQUEST and KDS_CHAT_REQUEST are both "REQUEST".
Source == {"none", "STAFF", "ADMIN", "CUSTOMER_SELF", "REQUEST"}
\* UNAVAILABLE and INACTIVE are refused wherever OFF_SHIFT is.
Availability == {"AVAILABLE", "ON_DELIVERY", "OFF_SHIFT"}
PinResult == {"NONE", "PENDING", "VERIFIED", "BYPASSED", "LOCKED"}
PinCleared == {"VERIFIED", "BYPASSED"}

OrderRow == [status: Status, driver: Drivers \cup {NoDriver},
             fulfil: Fulfilment, owner: Owner, source: Source]

RequestRow == [status : {"NONE", "PENDING", "APPROVED", "REJECTED"}, order : Orders]
DriverRow == [avail : Availability, onDelivery : BOOLEAN, completed : Nat]

-----------------------------------------------------------------------------
VARIABLES
    order,      \* orders
    trail,      \* order_status_events: per order, the <<from, to>> hops logged
    driver,     \* driver_profiles
    request,    \* cancellation_requests
    noShows,    \* customer_profiles.total_no_shows of the registered customer
    pin,        \* delivery_pin_verifications.verification_result
    cleared,    \* history: orders whose PIN was ever verified or bypassed
    chat,       \* order_conversations: "none", "open" or "closed"
    paid,       \* orders holding collected money (order_payments, external)
    refund,     \* orders with a refund request opened on cancellation
    rowLock,    \* the transaction holding an order row or a request row
    job         \* the request each worker is serving

vars == <<order, trail, driver, request, noShows, pin, cleared, chat, paid,
          refund, rowLock, job>>

Idle == [op |-> "none", phase |-> "idle"]

\* A request at the point where its reads and validation are done.
Job(op, o, to, rows, todo) ==
    [op |-> op, phase |-> "write", order |-> o, seen |-> order[o], to |-> to,
     rows |-> rows, todo |-> todo, request |-> NoRequest, driver |-> NoDriver,
     busy |-> FALSE, right |-> FALSE]

Start(w, j) == job[w] = Idle /\ job' = [job EXCEPT ![w] = j]
Finish(w) == job' = [job EXCEPT ![w] = Idle]

\* After the commit: the remaining calls of the handler, if any.
Continue(w) ==
    job' = [job EXCEPT ![w] = IF job[w].todo = <<>> THEN Idle
                              ELSE [job[w] EXCEPT !.phase = "followup"]]

-----------------------------------------------------------------------------
(* Guarded writes *)

\* Customer self-cancel and accept match on the status alone; the others also
\* on the driver they read.
StatusOnlyGuard == {"selfCancel", "accept"}

\* Mutant: the guarded update forgets the status it read.
OrderGuardDriverOnly(j) ==
    j.op \notin StatusOnlyGuard => order[j.order].driver = j.seen.driver

OrderGuard(j) ==
    /\ order[j.order].status = j.seen.status
    /\ j.op \notin StatusOnlyGuard => order[j.order].driver = j.seen.driver

\* Mutant: only the request row is claimed, the order is written by its id.
RowGuardRequestsOnly(j, row) == row \in Requests => request[row].status = "PENDING"

RowGuard(j, row) ==
    IF row \in Requests THEN request[row].status = "PENDING" ELSE OrderGuard(j)

Unlocked(row) == rowLock[row] = NoWorker

\* Mutant: the transaction is left open on its way out.
ReleaseLocksNever(w) == rowLock' = rowLock

ReleaseLocks(w) ==
    rowLock' = [row \in DOMAIN rowLock |->
                  IF rowLock[row] = w THEN NoWorker ELSE rowLock[row]]

\* Mutant: update by id, without the where on the values read.
ClaimsUnguarded(w, op) ==
    /\ job[w].phase = "write"
    /\ job[w].op = op
    /\ job[w].rows = <<>>
    /\ Unlocked(job[w].order)

\* A one-statement transaction on the order row is about to commit.
Claims(w, op) ==
    /\ job[w].phase = "write"
    /\ job[w].op = op
    /\ job[w].rows = <<>>
    /\ Unlocked(job[w].order)
    /\ OrderGuard(job[w])

Log(o, hops) == trail' = [trail EXCEPT ![o] = @ \o hops]
SetStatus(o, s) == order' = [order EXCEPT ![o].status = s]

\* The row a waiting transaction must update next: one-statement transactions
\* update the order, or the request when they decide a request.
NextRow(j) ==
    IF j.rows # <<>> THEN Head(j.rows)
    ELSE IF j.op = "deny" THEN j.request ELSE j.order

\* Mutant: the 409 is swallowed and the handler goes on after its transaction.
ConflictSwallowed(w) ==
    /\ job[w].phase = "write"
    /\ job[w].op # "request"
    /\ Unlocked(NextRow(job[w]))
    /\ ~ RowGuard(job[w], NextRow(job[w]))
    /\ Continue(w)
    /\ ReleaseLocks(w)
    /\ UNCHANGED <<order, trail, driver, request, noShows, pin, cleared, chat,
                   paid, refund>>

\* No row matched the guarded update: P2025, the transaction rolls back and
\* the caller gets a 409.
Conflict(w) ==
    /\ job[w].phase = "write"
    /\ job[w].op # "request"
    /\ Unlocked(NextRow(job[w]))
    /\ ~ RowGuard(job[w], NextRow(job[w]))
    /\ Finish(w)
    /\ ReleaseLocks(w)
    /\ UNCHANGED <<order, trail, driver, request, noShows, pin, cleared, chat,
                   paid, refund>>

-----------------------------------------------------------------------------
(* Transactions that close an order *)

CloseOps == {"status", "complete", "noPin", "kdsApprove", "adminApprove",
             "adminCancel", "selfCancel"}

\* The calls a closing handler makes after its commit, in their order: the
\* refund request and closing the conversation.
FollowUps(op) ==
    IF op \in {"kdsApprove", "adminApprove", "adminCancel"} THEN <<"refund", "chat">>
    ELSE IF op = "selfCancel" THEN <<"chat", "refund">> ELSE <<"chat">>

\* The driver's other assignments, as the transaction counts them: committed
\* rows only.
OtherActive(o, d) ==
    \E p \in Orders \ {o} : order[p].driver = d /\ order[p].status \in DriverActive

\* One guarded UPDATE of the transaction; the last one is followed at once by
\* the count of the driver's remaining assignments.
LockRow(w) ==
    LET j == job[w]
        row == Head(j.rows)
        last == Tail(j.rows) = <<>>
    IN  /\ j.phase = "write"
        /\ j.rows # <<>>
        /\ Unlocked(row)
        /\ RowGuard(j, row)
        /\ rowLock' = [rowLock EXCEPT ![row] = w]
        /\ job' = [job EXCEPT ![w] =
                     [j EXCEPT !.rows = Tail(j.rows),
                               !.phase = IF last THEN "closing" ELSE "write",
                               !.busy = last /\ OtherActive(j.order, j.seen.driver)]]
        /\ UNCHANGED <<order, trail, driver, request, noShows, pin, cleared,
                       chat, paid, refund>>

\* Mutant: a delivery without PIN is not counted.
CompletesWithPin(j) == j.op = "complete"

Completes(j) == j.op \in {"complete", "noPin"}

\* Self-cancel and the pickup outcomes leave the driver profile alone.
ReleasesDriver(j) ==
    /\ j.seen.driver # NoDriver
    /\ \/ Completes(j)
       \/ j.to = "NO_SHOW_DELIVERY"
       \/ j.to = "CANCELLED" /\ j.op # "selfCancel"

Released(d, j) ==
    [avail |-> IF j.busy THEN "ON_DELIVERY" ELSE "AVAILABLE",
     onDelivery |-> j.busy,
     completed |-> d.completed + (IF Completes(j) THEN 1 ELSE 0)]

\* Mutant: a source the column's enum does not have.
CancelSourceOfRequest(op) ==
    IF op = "status" THEN "STAFF"
    ELSE IF op = "adminCancel" THEN "ADMIN"
    ELSE IF op = "selfCancel" THEN "CUSTOMER_SELF" ELSE "CANCELLATION_REQUEST"

CancelSource(op) ==
    IF op = "status" THEN "STAFF"
    ELSE IF op = "adminCancel" THEN "ADMIN"
    ELSE IF op = "selfCancel" THEN "CUSTOMER_SELF" ELSE "REQUEST"

Closed(row, j) ==
    [row EXCEPT !.status = j.to,
                !.source = IF j.to = "CANCELLED" THEN CancelSource(j.op) ELSE row.source]

CommitClose(w) ==
    LET j == job[w]
        o == j.order
    IN  /\ j.phase = "closing"
        /\ order' = [order EXCEPT ![o] = Closed(@, j)]
        /\ Log(o, << <<j.seen.status, j.to>> >>)
        /\ driver' = IF ReleasesDriver(j)
                     THEN [driver EXCEPT ![j.seen.driver] = Released(@, j)]
                     ELSE driver
        /\ request' = IF j.request \in Requests
                      THEN [request EXCEPT ![j.request].status = "APPROVED"]
                      ELSE request
        /\ noShows' = noShows +
             (IF j.to \in {"NO_SHOW_PICKUP", "NO_SHOW_DELIVERY"}
                 /\ j.seen.owner = "customer" THEN 1 ELSE 0)
        /\ ReleaseLocks(w)
        /\ Continue(w)
        /\ UNCHANGED <<pin, cleared, chat, paid, refund>>

-----------------------------------------------------------------------------
(* Faults *)

\* Two transactions wait for each other's row; the database aborts one.
WaitsFor(v, w) ==
    /\ job[v].phase = "write"
    /\ job[v].op # "request"
    /\ rowLock[NextRow(job[v])] = w

DeadlockVictim(w) ==
    /\ \E v \in Workers \ {w} : WaitsFor(v, w) /\ WaitsFor(w, v)
    /\ Finish(w)
    /\ ReleaseLocks(w)
    /\ UNCHANGED <<order, trail, driver, request, noShows, pin, cleared, chat,
                   paid, refund>>

\* The process dies, or a statement fails: an open transaction rolls back, what
\* was committed stays and the remaining calls never happen.
Crash(w) ==
    /\ "crash" \in Enabled
    /\ job[w] # Idle
    /\ Finish(w)
    /\ ReleaseLocks(w)
    /\ UNCHANGED <<order, trail, driver, request, noShows, pin, cleared, chat,
                   paid, refund>>
=============================================================================
