------------------------------ MODULE GrantEmails ------------------------------
(***************************************************************************)
(* The e-mail that tells a customer of a courtesy grant (                  *)
(* StampGrantEmailService.deliver): one row written with the grant, a      *)
(* lease on it for whoever is sending, and a provider that keeps the       *)
(* idempotency key of a request for a day. Grants share nothing, so there  *)
(* is one.                                                                 *)
(*                                                                         *)
(* A worker is one call of send: the grant itself or a retry, in any API   *)
(* process. It stands for the token of its attempt. A lease may lapse at   *)
(* any moment, as a worker may stall at any step.                          *)
(***************************************************************************)
EXTENDS Sequences, FiniteSets, Naturals

CONSTANTS
    Workers,      \* calls of send
    Addresses,    \* verified e-mail addresses the customer may have
    Wordings,     \* what else a letter says: sender and name as they are now
    NoWorker, NoAddress, NoLetter

ASSUME MailAssumption ==
    /\ NoWorker \notin Workers
    /\ NoAddress \notin Addresses
    /\ NoLetter \notin [to : Addresses, says : Wordings]

VARIABLES
    row,          \* the row of wings_stamp_grant_emails
    contact,      \* the customer's verified address
    window,       \* time since the first attempt
    pc, late, draft, outcome,   \* each call: where it is, whether it began too late,
                  \* the letter it works with, the result it is to record
    net,          \* requests on their way to the provider, with the call they are of
    known,        \* the letter the provider keeps under the grant's key
    mails         \* the letters it sent to the customer

calls == <<pc, late, draft, outcome>>

vars == <<row, contact, window, calls, net, known, mails>>

Letter == [to : Addresses, says : Wordings]
Status == {"PENDING", "SENT", "FAILED", "UNKNOWN", "SKIPPED"}

\* "open" up to 23 hours after the first attempt, "closing" while the provider
\* still keeps the key, "closed" from then on.
Window == {"open", "closing", "closed"}

Row == [status : Status, letter : Letter \cup {NoLetter}, tried : BOOLEAN,
        lease : {"none", "running", "lapsed"}, token : Workers \cup {NoWorker}]

Step == {"idle", "claim", "open", "address", "prepare", "post", "await", "finish"}

Request == [from : Workers, letter : Letter]

Goto(w, s) == pc' = [pc EXCEPT ![w] = s] /\ UNCHANGED <<late, draft, outcome>>

Finish(w, s) ==
    /\ pc' = [pc EXCEPT ![w] = "finish"] /\ outcome' = [outcome EXCEPT ![w] = s]
    /\ UNCHANGED <<late, draft>>

End(w) ==
    /\ pc' = [pc EXCEPT ![w] = "idle"] /\ outcome' = [outcome EXCEPT ![w] = "PENDING"]
    /\ late' = [late EXCEPT ![w] = FALSE] /\ draft' = [draft EXCEPT ![w] = NoLetter]

\* Mutant: writes look at the grant alone.
EverybodyHolds(w) == TRUE

Holds(w) == row.token = w
-------------------------------------------------------------------------------
\* The call reads the row; a letter that was sent is answered at once.
Send(w) ==
    /\ pc[w] = "idle"
    /\ row.status # "SENT"
    /\ Goto(w, "claim")
    /\ UNCHANGED <<row, contact, window, net, known, mails>>

\* Mutant: the claim trusts the status read before it.
ClaimableWhenFree == row.lease # "running"

Claimable == row.status # "SENT" /\ row.lease # "running"

\* The time of the attempt is taken with its lease. A row somebody else is
\* sending, or has sent, ends the call.
Claim(w) ==
    /\ pc[w] = "claim"
    /\ IF Claimable
       THEN /\ row' = [row EXCEPT !.lease = "running", !.token = w]
            /\ pc' = [pc EXCEPT ![w] = "open"] /\ late' = [late EXCEPT ![w] = window # "open"]
            /\ UNCHANGED <<draft, outcome>>
       ELSE /\ End(w)
            /\ row' = row
    /\ UNCHANGED <<contact, window, net, known, mails>>

\* Mutant: an uncertain letter is tried again for ever.
NeverTooLate(w) == FALSE

TooLate(w) == row.tried /\ late[w]

\* The row is read again under the lease: another worker may have written the
\* letter meanwhile.
Open(w) ==
    /\ pc[w] = "open"
    /\ IF TooLate(w)
       THEN Finish(w, "UNKNOWN")
       ELSE /\ pc' = [pc EXCEPT ![w] = "address"] /\ draft' = [draft EXCEPT ![w] = row.letter]
            /\ UNCHANGED <<late, outcome>>
    /\ UNCHANGED <<row, contact, window, net, known, mails>>

\* No verified address, no provider configured, or a letter written to an
\* address that is no longer his: nothing is sent.
Skip(w) ==
    /\ pc[w] = "address"
    /\ Finish(w, "SKIPPED")
    /\ UNCHANGED <<row, contact, window, net, known, mails>>

Reachable(w) == contact # NoAddress /\ draft[w] \in {NoLetter} \cup [to : {contact}, says : Wordings]

Address(w) ==
    /\ pc[w] = "address"
    /\ Reachable(w)
    /\ pc' = [pc EXCEPT ![w] = "prepare"]
    /\ \E says \in Wordings :
          draft' = [draft EXCEPT ![w] = IF @ = NoLetter THEN [to |-> contact, says |-> says] ELSE @]
    /\ UNCHANGED <<row, contact, window, late, outcome, net, known, mails>>

\* The exact letter is kept before the provider sees it.
Prepare(w) ==
    /\ pc[w] = "prepare"
    /\ IF Holds(w)
       THEN /\ row' = [row EXCEPT !.letter = draft[w], !.tried = TRUE]
            /\ Goto(w, "post")
       ELSE /\ End(w)
            /\ row' = row
    /\ UNCHANGED <<contact, window, net, known, mails>>

Post(w) ==
    /\ pc[w] = "post"
    /\ net' = net \cup {[from |-> w, letter |-> draft[w]]}
    /\ Goto(w, "await")
    /\ UNCHANGED <<row, contact, window, known, mails>>

\* The result is recorded by the holder of the lease only.
Record(w) ==
    /\ pc[w] = "finish"
    /\ row' = IF Holds(w) THEN [row EXCEPT !.status = outcome[w], !.lease = "none", !.token = NoWorker] ELSE row
    /\ End(w)
    /\ UNCHANGED <<contact, window, net, known, mails>>
-------------------------------------------------------------------------------

\* The provider. A request under a key it keeps sends nothing and is answered as
\* the first one was, if it is the same request, and refused otherwise. An
\* answer reaches the call while it waits, or nobody.
Answer(r, s) ==
    \/ UNCHANGED calls
    \/ pc[r.from] = "await" /\ Finish(r.from, s)

Accept(r) ==
    /\ known \in {NoLetter, r.letter}
    /\ mails' = IF known = NoLetter THEN Append(mails, r.letter) ELSE mails
    /\ known' = r.letter
    /\ net' = net \ {r}
    /\ Answer(r, "SENT")
    /\ UNCHANGED <<row, contact, window>>

\* Refused, or lost on its way.
Refuse(r) ==
    /\ net' = net \ {r}
    /\ Answer(r, "FAILED")
    /\ UNCHANGED <<row, contact, window, known, mails>>

\* Ten seconds without an answer, or a broken connection.
TimeOut(w) ==
    /\ pc[w] = "await"
    /\ Finish(w, "UNKNOWN")
    /\ UNCHANGED <<row, contact, window, net, known, mails>>
-------------------------------------------------------------------------------
LeaseLapses ==
    /\ row.lease = "running"
    /\ row' = [row EXCEPT !.lease = "lapsed"]
    /\ UNCHANGED <<contact, window, calls, net, known, mails>>

\* The process of a call stops; what it wrote and sent stays.
Crash(w) ==
    /\ pc[w] # "idle"
    /\ End(w)
    /\ UNCHANGED <<row, contact, window, net, known, mails>>

ChangeContact(a) ==
    /\ contact' = a
    /\ UNCHANGED <<row, window, calls, net, known, mails>>

WindowCloses ==
    /\ window = "open" /\ row.tried
    /\ window' = "closing"
    /\ UNCHANGED <<row, contact, calls, net, known, mails>>

Sending(w) == pc[w] \in {"open", "address", "prepare", "post"} /\ ~ late[w]

\* A day after the first attempt the provider drops the key. An attempt that
\* began within 23 hours is over by then, which is all the hour between is for.
ProviderForgets ==
    /\ window = "closing"
    /\ net = {} /\ \A w \in Workers : ~ Sending(w)
    /\ window' = "closed"
    /\ known' = NoLetter
    /\ UNCHANGED <<row, contact, calls, net, mails>>
-------------------------------------------------------------------------------
Init ==
    /\ row = [status |-> "PENDING", letter |-> NoLetter, tried |-> FALSE, lease |-> "none", token |-> NoWorker]
    /\ contact \in Addresses \cup {NoAddress}
    /\ window = "open"
    /\ pc = [w \in Workers |-> "idle"] /\ outcome = [w \in Workers |-> "PENDING"]
    /\ late = [w \in Workers |-> FALSE] /\ draft = [w \in Workers |-> NoLetter]
    /\ net = {} /\ known = NoLetter /\ mails = <<>>

Call(w) ==
    \/ Send(w) \/ Claim(w) \/ Open(w) \/ Skip(w) \/ Address(w) \/ Prepare(w)
    \/ Post(w) \/ TimeOut(w) \/ Record(w) \/ Crash(w)

Next ==
    \/ \E w \in Workers : Call(w)
    \/ \E r \in net : Accept(r) \/ Refuse(r)
    \/ \E a \in Addresses \cup {NoAddress} : ChangeContact(a)
    \/ LeaseLapses \/ WindowCloses \/ ProviderForgets

Spec == Init /\ [][Next]_vars
-------------------------------------------------------------------------------
\* Rows, attempts and requests have the shape of the schema and of the code.
TypeOK ==
    /\ row \in Row /\ contact \in Addresses \cup {NoAddress} /\ window \in Window
    /\ pc \in [Workers -> Step] /\ outcome \in [Workers -> Status]
    /\ late \in [Workers -> BOOLEAN] /\ draft \in [Workers -> Letter \cup {NoLetter}]
    /\ net \subseteq Request /\ known \in Letter \cup {NoLetter} /\ mails \in Seq(Letter)

\* However calls overlap, stall, crash and lose their answers, and whenever
\* they are tried again, the customer gets one e-mail at most ("Stop uncertain
\* retries after 23h rather than risk a second email").
EmailedOnce == Len(mails) <= 1

\* Whatever is under way to the provider, or kept by it, is the letter in the
\* row: a retry replays the same bytes under the same key, so it is never
\* refused for contradicting an earlier one.
SameBytes ==
    /\ \A r \in net : r.letter = row.letter
    /\ known \in {NoLetter, row.letter}

\* A row says SENT only of a letter the provider accepted.
SentMeansMailed == row.status = "SENT" => mails # <<>>

\* A stalled attempt, whose lease somebody took over, never turns SENT into
\* something that would be tried again.
SentIsFinal == [][row.status = "SENT" => row'.status = "SENT"]_vars

-------------------------------------------------------------------------------
(* Refinement: what all calls and the provider promise together *)

Promise == INSTANCE GrantLetter WITH
              letter <- row.letter, mailed <- mails, status <- row.status

\* However calls overlap and whatever is lost or forgotten, a grant has one
\* letter, which is mailed at most once and as it was first written, and the
\* row says SENT for good, and only when it was.
ImplementsPromise == Promise!Spec
===============================================================================
