------------------------------ MODULE Deliveries ------------------------------
(***************************************************************************)
(* Dispatch: driver availability, assignment, departure, the delivery PIN  *)
(* and the two ways a driver's delivery completes.                         *)
(***************************************************************************)
EXTENDS OrderStore

Validated == <<order, trail, driver, request, noShows, pin, cleared, chat,
               paid, refund, rowLock>>

\* Both writers of the profile keep isOnDelivery in step with the status.
SetAvailability(d, a) ==
    driver' = [driver EXCEPT ![d] = [avail |-> a, onDelivery |-> a = "ON_DELIVERY",
                                     completed |-> driver[d].completed]]

UpdateAvailability(d, a) ==
    /\ "availability" \in Enabled
    /\ SetAvailability(d, a)
    /\ UNCHANGED <<order, trail, request, noShows, pin, cleared, chat, paid,
                   refund, rowLock, job>>

-----------------------------------------------------------------------------
\* Neither the fulfilment type of the order nor a driver it already has is
\* looked at.
AssignDriver(w, o, d, busyOverride) ==
    /\ "assign" \in Enabled
    /\ order[o].status \in {"ACCEPTED", "PREPARING", "READY"}
    /\ driver[d].avail \in {"AVAILABLE", "ON_DELIVERY"}
    /\ (driver[d].avail = "ON_DELIVERY" \/ driver[d].onDelivery) => busyOverride
    /\ Start(w, [Job("assign", o, order[o].status, <<>>, <<>>) EXCEPT !.driver = d])
    /\ UNCHANGED Validated

CommitAssign(w) ==
    LET d == job[w].driver IN
    /\ Claims(w, "assign")
    /\ order' = [order EXCEPT ![job[w].order].driver = d]
    /\ SetAvailability(d, "ON_DELIVERY")
    /\ Continue(w)
    /\ UNCHANGED <<trail, request, noShows, pin, cleared, chat, paid, refund,
                   rowLock>>

StartDelivery(w, o) ==
    /\ "start" \in Enabled
    /\ order[o].status = "READY"
    /\ order[o].driver # NoDriver
    /\ Start(w, Job("start", o, "OUT_FOR_DELIVERY", <<>>, <<"pin">>))
    /\ UNCHANGED Validated

CommitStart(w) ==
    /\ Claims(w, "start")
    /\ SetStatus(job[w].order, "OUT_FOR_DELIVERY")
    /\ Log(job[w].order, << <<"READY", "OUT_FOR_DELIVERY">> >>)
    /\ Continue(w)
    /\ UNCHANGED <<driver, request, noShows, pin, cleared, chat, paid, refund,
                   rowLock>>

-----------------------------------------------------------------------------
(* The PIN record: every write of it is unguarded *)

\* generateForOrder: an upsert that resets whatever is there; pickup orders
\* get an exception instead.
GeneratePin(w) ==
    LET o == job[w].order IN
    /\ job[w].phase = "followup"
    /\ Head(job[w].todo) = "pin"
    /\ pin' = IF order[o].fulfil = "DELIVERY" THEN [pin EXCEPT ![o] = "PENDING"]
              ELSE pin
    /\ Finish(w)
    /\ UNCHANGED <<order, trail, driver, request, noShows, cleared, chat, paid,
                   refund, rowLock>>

ActiveDelivery(row) == row.fulfil = "DELIVERY" /\ row.status = "OUT_FOR_DELIVERY"

\* fetchForCustomer and statusForStaff make the record when it is missing,
\* regenerate resets it on request; both have decided on rows they read.
RefreshPin(w, o) ==
    /\ "refreshPin" \in Enabled
    /\ \/ ActiveDelivery(order[o]) /\ pin[o] = "NONE"
       \/ order[o].fulfil = "DELIVERY" /\ order[o].status \in {"READY", "OUT_FOR_DELIVERY"}
    /\ Start(w, [Job("pin", o, order[o].status, <<>>, <<"pin">>)
                   EXCEPT !.phase = "followup"])
    /\ UNCHANGED Validated

BypassPin(o) ==
    /\ "bypass" \in Enabled
    /\ pin[o] # "NONE"
    /\ pin' = [pin EXCEPT ![o] = "BYPASSED"]
    /\ cleared' = cleared \cup {o}
    /\ UNCHANGED <<order, trail, driver, request, noShows, chat, paid, refund,
                   rowLock, job>>

\* POST verify-pin: no status is required of the order.
VerifyPin(w, o, right) ==
    /\ "verifyPin" \in Enabled
    /\ order[o].status # "NONE"
    /\ Start(w, [Job("verifyPin", o, order[o].status, <<>>, <<>>)
                   EXCEPT !.phase = "verify", !.right = right])
    /\ UNCHANGED Validated

\* A PIN check that succeeds lets a completion go on to its transaction.
Passed(w) ==
    job' = [job EXCEPT ![w] = IF job[w].op = "complete"
                              THEN [job[w] EXCEPT !.phase = "write"] ELSE Idle]

\* A verified or bypassed record answers without looking at the digits.
AnswersAtOnce(o) == pin[o] \in PinCleared

VerifyRead(w) ==
    LET o == job[w].order
        missing == pin[o] = "NONE"
    IN  /\ job[w].phase = "verify"
        /\ \/ /\ missing /\ ~ ActiveDelivery(order[o])
              /\ Finish(w)
           \/ /\ AnswersAtOnce(o)
              /\ Passed(w)
           \/ /\ ~ AnswersAtOnce(o)
              /\ missing => ActiveDelivery(order[o])
              /\ job' = [job EXCEPT ![w].phase = "verdict"]
        /\ pin' = IF missing /\ ActiveDelivery(order[o])
                  THEN [pin EXCEPT ![o] = "PENDING"] ELSE pin
        /\ UNCHANGED <<order, trail, driver, request, noShows, cleared, chat,
                       paid, refund, rowLock>>

VerifyWrite(w) ==
    LET o == job[w].order IN
    /\ job[w].phase = "verdict"
    /\ IF job[w].right
       THEN /\ pin' = [pin EXCEPT ![o] = "VERIFIED"]
            /\ cleared' = cleared \cup {o}
            /\ Passed(w)
       ELSE /\ pin' = [pin EXCEPT ![o] = "PENDING"]
            /\ cleared' = cleared
            /\ Finish(w)
    /\ UNCHANGED <<order, trail, driver, request, noShows, chat, paid, refund,
                   rowLock>>

-----------------------------------------------------------------------------
CanComplete(o) == order[o].status = "OUT_FOR_DELIVERY" /\ order[o].driver # NoDriver

CompleteDelivery(w, o, right) ==
    /\ "complete" \in Enabled
    /\ CanComplete(o)
    /\ Start(w, [Job("complete", o, "DELIVERED", <<o>>, FollowUps("complete")) EXCEPT
                   !.phase = IF pin[o] \in PinCleared THEN "write" ELSE "verify",
                   !.right = right])
    /\ UNCHANGED Validated

\* Only a PIN record locked before retries became unlimited takes this path; a
\* cleared one falls through to the ordinary completion.
CompleteDeliveryWithoutPin(w, o) ==
    /\ "noPin" \in Enabled
    /\ CanComplete(o)
    /\ \/ /\ pin[o] \in PinCleared
          /\ Start(w, Job("complete", o, "DELIVERED", <<o>>, FollowUps("complete")))
       \/ /\ pin[o] = "LOCKED"
          /\ Start(w, Job("noPin", o, "NO_PIN_DELIVERY", <<o>>, FollowUps("noPin")))
    /\ UNCHANGED Validated
=============================================================================
