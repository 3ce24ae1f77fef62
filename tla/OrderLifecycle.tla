---------------------------- MODULE OrderLifecycle ----------------------------
(***************************************************************************)
(* The order's life from creation to its terminal status, with every       *)
(* handler that may close it running concurrently: kitchen (KitchenOrders),*)
(* dispatch (Deliveries) and cancellation (Cancellations) over the rows of *)
(* OrderStore.                                                             *)
(***************************************************************************)
EXTENDS KitchenOrders, Deliveries, Cancellations

LegacyRow(d) == [NewRow("OUT_FOR_DELIVERY", "DELIVERY", "customer") EXCEPT !.driver = d]
LegacyTrail == << <<"NONE", "PLACED">>, <<"PLACED", "ACCEPTED">>,
                  <<"ACCEPTED", "PREPARING">>, <<"PREPARING", "READY">>,
                  <<"READY", "OUT_FOR_DELIVERY">> >>

\* A legacy order is on the road with one driver and a locked PIN record.
Init ==
    \E d \in Drivers :
        /\ order = [o \in Orders |-> IF o \in LegacyOrders THEN LegacyRow(d)
                                     ELSE NewRow("NONE", "PICKUP", "customer")]
        /\ trail = [o \in Orders |-> IF o \in LegacyOrders THEN LegacyTrail ELSE <<>>]
        /\ driver = [e \in Drivers |->
                       LET out == e = d /\ LegacyOrders # {} IN
                       [avail |-> IF out THEN "ON_DELIVERY" ELSE "AVAILABLE",
                        onDelivery |-> out, completed |-> 0]]
        /\ request = [r \in Requests |->
                        [status |-> "NONE", order |-> CHOOSE o \in Orders : TRUE]]
        /\ noShows = 0
        /\ pin = [o \in Orders |-> IF o \in LegacyOrders THEN "LOCKED" ELSE "NONE"]
        /\ cleared = {}
        /\ chat = [o \in Orders |-> "none"]
        /\ paid = {}
        /\ refund = {}
        /\ rowLock = [row \in Orders \cup Requests |-> NoWorker]
        /\ job = [w \in Workers |-> Idle]

\* Requests arriving from customers, staff and devices.
Arrive ==
    \/ \E o \in Orders, f \in Fulfilment : PlaceOrder(o, f)
    \/ \E o \in Orders, f \in Fulfilment, c \in Owner : CreatePosOrder(o, f, c)
    \/ \E o \in Orders : RecordCollection(o)
    \/ \E o \in Orders : BypassPin(o)
    \/ \E d \in Drivers, a \in Availability : UpdateAvailability(d, a)
    \/ \E w \in Workers, o \in Orders :
          \/ AcceptOrder(w, o)
          \/ \E to \in Status : UpdateStatus(w, o, to)
          \/ \E d \in Drivers, busyOverride \in BOOLEAN :
                AssignDriver(w, o, d, busyOverride)
          \/ StartDelivery(w, o)
          \/ RefreshPin(w, o)
          \/ \E right \in BOOLEAN : VerifyPin(w, o, right)
          \/ \E right \in BOOLEAN : CompleteDelivery(w, o, right)
          \/ CompleteDeliveryWithoutPin(w, o)
          \/ \E r \in Requests : RequestCancellation(w, o, r)
          \/ AdminCancel(w, o)
          \/ CustomerCancel(w, o)
          \/ SendMessage(w, o)
    \/ \E w \in Workers, r \in Requests :
          \/ \E op \in {"kdsApprove", "adminApprove"} : Approve(w, r, op)
          \/ Deny(w, r)

\* The steps of a request being served.
Progress(w) ==
    \/ CommitAccept(w)
    \/ CommitStatus(w)
    \/ CommitAssign(w)
    \/ CommitStart(w)
    \/ CommitRequest(w)
    \/ CommitDeny(w)
    \/ LockRow(w)
    \/ CommitClose(w)
    \/ Conflict(w)
    \/ DeadlockVictim(w)
    \/ VerifyRead(w)
    \/ VerifyWrite(w)
    \/ GeneratePin(w)
    \/ CreateForCancelledOrder(w)
    \/ CloseConversation(w)
    \/ OpenConversation(w)

Next == Arrive \/ \E w \in Workers : Progress(w) \/ Crash(w)

Spec == Init /\ [][Next]_vars

\* The API goes on with a request it accepted; nobody has to send another.
Fairness == \A w \in Workers : WF_vars(Progress(w))
FairSpec == Spec /\ Fairness

-----------------------------------------------------------------------------
(* Types *)

Ops == {"accept", "status", "assign", "start", "pin", "verifyPin", "message",
        "request", "deny"} \cup CloseOps

JobRow == [op : Ops, phase : {"write", "closing", "followup", "verify",
                                 "verdict", "message"},
           order : Orders, seen : OrderRow, to : Status,
           rows : Seq(Orders \cup Requests), todo : Seq({"pin", "chat", "refund"}),
           request : Requests \cup {NoRequest}, driver : Drivers \cup {NoDriver},
           busy : BOOLEAN, right : BOOLEAN]

\* Every row has the columns and values its table allows.
TypeOK ==
    /\ order \in [Orders -> OrderRow]
    /\ trail \in [Orders -> Seq(Status \X Status)]
    /\ driver \in [Drivers -> DriverRow]
    /\ request \in [Requests -> RequestRow]
    /\ noShows \in Nat
    /\ pin \in [Orders -> PinResult]
    /\ cleared \subseteq Orders
    /\ chat \in [Orders -> {"none", "open", "closed"}]
    /\ paid \subseteq Orders
    /\ refund \subseteq Orders
    /\ rowLock \in [Orders \cup Requests -> Workers \cup {NoWorker}]
    /\ job \in [Workers -> JobRow \cup {Idle}]

-----------------------------------------------------------------------------
(* Safety *)

\* order_status_events is an unbroken account of how the order got where it
\* is: each event leaves the status the one before it reached, and the last
\* one reached the persisted status. Two writers both winning would break it.
TrailTellsTheStatus ==
    \A o \in Orders :
        LET t == trail[o] IN
        /\ t = <<>> <=> order[o].status = "NONE"
        /\ t # <<>> => t[1][1] = "NONE" /\ t[Len(t)][2] = order[o].status
        /\ \A i \in 1 .. Len(t) - 1 : t[i][2] = t[i + 1][1]

\* A no-show is counted against the registered customer exactly once however
\* many tablets report it (updateOrderStatus increments beside the guarded
\* status write).
NoShowsCounted ==
    noShows = Cardinality({o \in Orders :
                  /\ order[o].status \in {"NO_SHOW_PICKUP", "NO_SHOW_DELIVERY"}
                  /\ order[o].owner = "customer"})

\* A driver's totalDeliveriesCompleted is the number of deliveries he
\* completed: no double count when two completions race, none lost.
CompletionsCounted ==
    \A d \in Drivers :
        driver[d].completed =
            Cardinality({o \in Orders :
                /\ order[o].status \in {"DELIVERED", "NO_PIN_DELIVERY"}
                /\ order[o].driver = d})

\* An approved request is the one cause of its order's cancellation: whoever
\* decides (KDS or admin), and whatever else closes the order meanwhile.
ApprovalClosesItsOrder ==
    \A o \in Orders :
        LET approved == {r \in Requests : request[r] = [status |-> "APPROVED",
                                                        order |-> o]}
        IN  IF order[o].source = "REQUEST" THEN Cardinality(approved) = 1
            ELSE approved = {}

\* "a cancellation losing to KDS completion cannot produce a cancellation event
\* or refund": money is promised back for cancelled orders only.
RefundOnlyForCancelled ==
    \A o \in refund : order[o].status = "CANCELLED" /\ o \in paid

\* A driver's delivery is DELIVERED only if its PIN was verified or bypassed,
\* whichever of the four endpoints did it and in whatever order they ran.
PinBeforeDelivered ==
    \A o \in Orders :
        order[o].status = "DELIVERED" /\ order[o].driver # NoDriver => o \in cleared

\* Self-cancel never touches a driver profile (customerCancel does not release
\* a driver), which is sound only if no order it can close ever had a driver.
SelfCancelStrandsNobody ==
    \A o \in Orders : order[o].source = "CUSTOMER_SELF" => order[o].driver = NoDriver

Waits(w) == \E v \in Workers : WaitsFor(w, v)

\* Two transactions that wait for each other: a kitchen's and an admin's
\* approval of one request, which update its two rows in opposite orders.
Crossed(v, w) ==
    /\ WaitsFor(v, w) /\ WaitsFor(w, v)
    /\ {job[v].op, job[w].op} = {"kdsApprove", "adminApprove"}
    /\ job[v].request = job[w].request

\* The crossed approvals are the only deadlock the handlers have: every other
\* wait is for a transaction that can go on, or for one that waits for such a
\* one; no ring of three or more waits closes, and no lock outlives its handler.
OnlyApprovalsDeadlock ==
    \A u, v, w \in Workers :
        WaitsFor(u, v) /\ WaitsFor(v, w) /\ Waits(w)
        => \E x \in Workers : Crossed(w, x)

\* Once closed, an order row never changes again: no late handler revives,
\* recloses or reassigns it.
TerminalIsFinal ==
    [][\A o \in Orders : order[o].status \in Terminal => order'[o] = order[o]]_vars

ActiveOrders(d) ==
    {o \in Orders : order[o].driver = d /\ order[o].status \in DriverActive}

\* "Availability remains transactional and considers other active
\* assignments": a step that closes an order leaves its driver on delivery
\* exactly when another active order is still his.
AvailabilityFollowsAssignments ==
    [][\A o \in Orders, d \in Drivers :
          /\ order[o].status \in DriverActive
          /\ order[o].fulfil = "DELIVERY"
          /\ order[o].driver = d
          /\ order'[o].status \in Terminal
          => driver'[d].onDelivery = (ActiveOrders(d)' # {})]_vars

Settled == \A w \in Workers : job[w] = Idle

\* Once the handlers are done, a cancelled order that took money has a refund
\* request.
CancelledMoneyIsClaimed ==
    Settled => \A o \in Orders : order[o].status = "CANCELLED" /\ o \in paid => o \in refund

-----------------------------------------------------------------------------
(* Refinement *)

\* What the closure sees of an order row and of a driver profile.
ClosureRow ==
    [o \in Orders |-> [status |-> order[o].status, driver |-> order[o].driver,
                       fulfil |-> order[o].fulfil, owner |-> order[o].owner]]
ClosureCompleted == [d \in Drivers |-> driver[d].completed]

Closure == INSTANCE OrderClosure WITH row <- ClosureRow, completed <- ClosureCompleted

\* All handlers together close each order once, along the allowed edges, and
\* account for it in the same step.
ImplementsClosure == Closure!CSpec

-----------------------------------------------------------------------------
(* What a request in flight may rely on: the inductive invariant *)

CancelOps == {"kdsApprove", "adminApprove", "adminCancel", "selfCancel"}

Closes(j) == j.op \in CloseOps /\ j.to \in Terminal

\* What validation established of the row it read, and of where it goes.
Validation(j) ==
    /\ j.op # "deny" => j.seen.status # "NONE"
    /\ j.op = "accept" => j.seen.status = "PLACED"
    /\ j.op = "assign" => /\ j.seen.status \in {"ACCEPTED", "PREPARING", "READY"}
                          /\ j.driver \in Drivers
    /\ j.op = "start" => j.seen.status = "READY"
    /\ j.op = "status" => j.seen.status \in Open /\ StatusAllowed(j.seen, j.to)
    /\ j.op \in {"complete", "noPin"} =>
          /\ j.seen.status = "OUT_FOR_DELIVERY"
          /\ j.seen.driver \in Drivers
          /\ j.to = IF j.op = "complete" THEN "DELIVERED" ELSE "NO_PIN_DELIVERY"
    /\ j.op \in CancelOps => j.seen.status \in Open /\ j.to = "CANCELLED"
    /\ j.op = "selfCancel" => j.seen.status \in SelfCancellable
    /\ j.op \in {"kdsApprove", "adminApprove", "request", "deny"} => j.request \in Requests

\* The guarded updates a transaction still has to make.
RowsToClaim(j) ==
    IF ~ Closes(j) \/ j.phase \in {"closing", "followup"} THEN j.rows = <<>>
    ELSE IF j.op = "kdsApprove" THEN j.rows \in {<<j.request, j.order>>, <<j.order>>}
    ELSE IF j.op = "adminApprove" THEN j.rows \in {<<j.order, j.request>>, <<j.request>>}
    ELSE j.rows = <<j.order>>

\* The transaction has made its guarded update of the order row.
HasClaimed(j) ==
    \/ j.phase = "closing"
    \/ j.phase = "write" /\ j.op = "adminApprove" /\ j.rows = <<j.request>>

\* Every request in flight validated what it will do; the fulfilment and the
\* owner it read never change; and from its guarded update to its commit the
\* order row is locked by it and still is the row it read.
SameOrder(now, seen) ==
    now.status # "NONE" /\ now.fulfil = seen.fulfil /\ now.owner = seen.owner

HandlerOK(w, j) ==
    /\ Validation(j)
    /\ RowsToClaim(j)
    /\ j.phase = "closing" => Closes(j)
    /\ j.phase = "followup" => j.todo # <<>>
    /\ j.op # "deny" => SameOrder(order[j.order], j.seen)
    /\ HasClaimed(j) => rowLock[j.order] = w /\ OrderGuard(j)

HandlersInv == \A w \in Workers : job[w] # Idle => HandlerOK(w, job[w])

-----------------------------------------------------------------------------
(* Liveness *)

\* Every request is answered: no handler waits for a row for ever, whatever
\* the other handlers hold.
RequestsAnswered == \A w \in Workers : job[w] # Idle ~> job[w] = Idle

\* A cancelled order that took money gets its refund request.
CancelledMoneyEventuallyClaimed ==
    \A o \in Orders :
        order[o].status = "CANCELLED" /\ o \in paid ~> o \in refund

=============================================================================
