----------------------------- MODULE Cancellations -----------------------------
(***************************************************************************)
(* Cancellation requests and their decision (KDS and admin), the direct    *)
(* cancellations (customer, admin), and the calls that follow a closing    *)
(* commit: the refund request and the conversation.                        *)
(***************************************************************************)
EXTENDS OrderStore

Checked == <<order, trail, driver, request, noShows, pin, cleared, chat, paid,
             refund, rowLock>>

\* requestCancellation and requestChatCancellation: check, then create.
HasPending(o) ==
    \E q \in Requests : request[q] = [status |-> "PENDING", order |-> o]

FreshRequest(r) ==
    /\ request[r].status = "NONE"
    /\ \A w \in Workers : job[w] # Idle => job[w].request # r

RequestCancellation(w, o, r) ==
    /\ "request" \in Enabled
    /\ order[o].status \in Open
    /\ ~ HasPending(o)
    /\ FreshRequest(r)
    /\ Start(w, [Job("request", o, order[o].status, <<>>, <<>>) EXCEPT !.request = r])
    /\ UNCHANGED Checked

CommitRequest(w) ==
    /\ job[w].phase = "write"
    /\ job[w].op = "request"
    /\ request' = [request EXCEPT ![job[w].request] =
                     [status |-> "PENDING", order |-> job[w].order]]
    /\ Finish(w)
    /\ UNCHANGED <<order, trail, driver, noShows, pin, cleared, chat, paid,
                   refund, rowLock>>

-----------------------------------------------------------------------------
\* The KDS decides by order and updates the request row first; the admin
\* decides by request and updates the order row first.
\* Mutant: the order is written without being claimed first.
ApproveRowsUnclaimed(op, o, r) == <<r>>

ApproveRows(op, o, r) == IF op = "kdsApprove" THEN <<r, o>> ELSE <<o, r>>

Approve(w, r, op) ==
    LET o == request[r].order IN
    /\ op \in Enabled
    /\ request[r].status = "PENDING"
    /\ order[o].status \in Open
    /\ Start(w, [Job(op, o, "CANCELLED", ApproveRows(op, o, r), FollowUps(op))
                   EXCEPT !.request = r])
    /\ UNCHANGED Checked

\* Denying is allowed on a closed order too.
Deny(w, r) ==
    /\ "deny" \in Enabled
    /\ request[r].status = "PENDING"
    /\ Start(w, [Job("deny", request[r].order, "NONE", <<>>, <<>>) EXCEPT !.request = r])
    /\ UNCHANGED Checked

CommitDeny(w) ==
    LET r == job[w].request IN
    /\ job[w].phase = "write"
    /\ job[w].op = "deny"
    /\ Unlocked(r)
    /\ request[r].status = "PENDING"
    /\ request' = [request EXCEPT ![r].status = "REJECTED"]
    /\ Finish(w)
    /\ UNCHANGED <<order, trail, driver, noShows, pin, cleared, chat, paid,
                   refund, rowLock>>

-----------------------------------------------------------------------------
AdminCancel(w, o) ==
    /\ "adminCancel" \in Enabled
    /\ order[o].status \in Open
    /\ Start(w, Job("adminCancel", o, "CANCELLED", <<o>>, FollowUps("adminCancel")))
    /\ UNCHANGED Checked

\* Mutant: the customer may cancel what the kitchen has begun.
SelfCancellableLate == {"PLACED", "ACCEPTED", "PREPARING"}

SelfCancellable == {"PLACED", "ACCEPTED"}

\* Whether the self-cancel window is still open is left to chance.
CustomerCancel(w, o) ==
    /\ "selfCancel" \in Enabled
    /\ order[o].owner = "customer"
    /\ order[o].status \in SelfCancellable
    /\ Start(w, Job("selfCancel", o, "CANCELLED", <<o>>, FollowUps("selfCancel")))
    /\ UNCHANGED Checked

-----------------------------------------------------------------------------
(* Calls after the commit *)

Next1(w) ==
    job' = [job EXCEPT ![w] = IF Tail(job[w].todo) = <<>> THEN Idle
                              ELSE [job[w] EXCEPT !.todo = Tail(job[w].todo)]]

CloseConversation(w) ==
    LET o == job[w].order IN
    /\ job[w].phase = "followup"
    /\ Head(job[w].todo) = "chat"
    /\ chat' = IF chat[o] = "open" THEN [chat EXCEPT ![o] = "closed"] ELSE chat
    /\ Next1(w)
    /\ UNCHANGED <<order, trail, driver, request, noShows, pin, cleared, paid,
                   refund, rowLock>>

\* createForCancelledOrder, amounts left out: money on the order opens one.
CreateForCancelledOrder(w) ==
    LET o == job[w].order IN
    /\ job[w].phase = "followup"
    /\ Head(job[w].todo) = "refund"
    /\ refund' = IF o \in paid THEN refund \cup {o} ELSE refund
    /\ Next1(w)
    /\ UNCHANGED <<order, trail, driver, request, noShows, pin, cleared, chat,
                   paid, rowLock>>

\* Mutant: a cancelled order still takes money.
CollectableAlways(o) == order[o].status # "NONE"

\* A collection locks the order row and refuses a cancelled order.
Collectable(o) == order[o].status \notin {"NONE", "CANCELLED"}

RecordCollection(o) ==
    /\ "collect" \in Enabled
    /\ Collectable(o)
    /\ Unlocked(o)
    /\ o \notin paid
    /\ paid' = paid \cup {o}
    /\ UNCHANGED <<order, trail, driver, request, noShows, pin, cleared, chat,
                   refund, rowLock, job>>

\* sendMessage: the status check, then the upsert of the conversation. A
\* closed conversation refuses the message.
SendMessage(w, o) ==
    /\ "message" \in Enabled
    /\ order[o].status \in Open
    /\ Start(w, [Job("message", o, order[o].status, <<>>, <<>>)
                   EXCEPT !.phase = "message"])
    /\ UNCHANGED Checked

OpenConversation(w) ==
    LET o == job[w].order IN
    /\ job[w].phase = "message"
    /\ chat' = IF chat[o] = "none" THEN [chat EXCEPT ![o] = "open"] ELSE chat
    /\ Finish(w)
    /\ UNCHANGED <<order, trail, driver, request, noShows, pin, cleared, paid,
                   refund, rowLock>>
=============================================================================
