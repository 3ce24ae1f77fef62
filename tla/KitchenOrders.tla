----------------------------- MODULE KitchenOrders -----------------------------
(***************************************************************************)
(* How an order comes to exist (online checkout, POS) and the two generic  *)
(* kitchen endpoints: accept, and POST /kds/orders/:id/status.             *)
(***************************************************************************)
EXTENDS OrderStore

NewRow(status, f, c) ==
    [status |-> status, driver |-> NoDriver, fulfil |-> f, owner |-> c,
     source |-> "none"]

Create(o, status, f, c, hops) ==
    /\ order[o].status = "NONE"
    /\ order' = [order EXCEPT ![o] = NewRow(status, f, c)]
    /\ trail' = [trail EXCEPT ![o] = hops]
    /\ UNCHANGED <<driver, request, noShows, pin, cleared, chat, paid, refund,
                   rowLock, job>>

PlaceOrder(o, f) ==
    /\ "checkout" \in Enabled
    /\ Create(o, "PLACED", f, "customer", << <<"NONE", "PLACED">> >>)

\* POS orders skip the queue: three events, persisted as PREPARING.
CreatePosOrder(o, f, c) ==
    /\ "pos" \in Enabled
    /\ Create(o, "PREPARING", f, c,
              << <<"NONE", "PLACED">>, <<"PLACED", "ACCEPTED">>,
                 <<"ACCEPTED", "PREPARING">> >>)

-----------------------------------------------------------------------------
AcceptOrder(w, o) ==
    /\ "accept" \in Enabled
    /\ order[o].status = "PLACED"
    /\ Start(w, Job("accept", o, "PREPARING", <<>>, <<>>))
    /\ UNCHANGED <<order, trail, driver, request, noShows, pin, cleared, chat,
                   paid, refund, rowLock>>

\* Two hops are logged, one status is persisted.
CommitAccept(w) ==
    /\ Claims(w, "accept")
    /\ SetStatus(job[w].order, "PREPARING")
    /\ Log(job[w].order, << <<"PLACED", "ACCEPTED">>, <<"ACCEPTED", "PREPARING">> >>)
    /\ Continue(w)
    /\ UNCHANGED <<driver, request, noShows, pin, cleared, chat, paid, refund,
                   rowLock>>

-----------------------------------------------------------------------------
\* An unassigned READY delivery handed to a third-party courier.
ExternalDelivery(row, to) ==
    /\ row.status = "READY"
    /\ row.fulfil = "DELIVERY"
    /\ row.driver = NoDriver
    /\ to \in {"DELIVERED", "NO_SHOW_DELIVERY"}

FulfilmentAllows(row, to) ==
    /\ to \in {"PICKED_UP", "NO_SHOW_PICKUP"} => row.fulfil = "PICKUP"
    /\ to \in {"OUT_FOR_DELIVERY", "NO_SHOW_DELIVERY"} => row.fulfil = "DELIVERY"

StatusAllowed(row, to) ==
    \/ "staffCancel" \in Enabled /\ to = "CANCELLED"
    \/ <<row.status, to>> \in AllowedTransitions /\ FulfilmentAllows(row, to)
    \/ "external" \in Enabled /\ ExternalDelivery(row, to)

UpdateStatus(w, o, to) ==
    /\ "status" \in Enabled
    /\ order[o].status \in Open
    /\ StatusAllowed(order[o], to)
    /\ Start(w, IF to \in Terminal
                THEN Job("status", o, to, <<o>>, FollowUps("status"))
                ELSE Job("status", o, to, <<>>, <<>>))
    /\ UNCHANGED <<order, trail, driver, request, noShows, pin, cleared, chat,
                   paid, refund, rowLock>>

CommitStatus(w) ==
    /\ Claims(w, "status")
    /\ SetStatus(job[w].order, job[w].to)
    /\ Log(job[w].order, << <<job[w].seen.status, job[w].to>> >>)
    /\ Continue(w)
    /\ UNCHANGED <<driver, request, noShows, pin, cleared, chat, paid, refund,
                   rowLock>>
=============================================================================
