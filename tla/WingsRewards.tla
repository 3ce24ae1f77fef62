----------------------------- MODULE WingsRewards -----------------------------
(***************************************************************************)
(* The wings stamp card of each customer (customer_wings_rewards), its     *)
(* ledger (customer_wings_stamp_ledger) and the four transactions that     *)
(* write them: checkout redeeming a reward, completion of an order earning *)
(* stamps, an admin's courtesy grant and the till's manual issue. Each     *)
(* takes the card's row lock with an upsert that adds 0 and holds it to    *)
(* its commit; a completion holds its order's row as well.                 *)
(***************************************************************************)
EXTENDS Integers, Sequences, FiniteSets

CONSTANTS
    Customers, Orders,
    Grants,       \* request_ids of courtesy grants: ledger ids
    Workers,      \* requests the API serves at the same time
    Cap,          \* MAX_AVAILABLE_STAMPS
    Cost,         \* STAMPS_PER_REWARD
    HalfPounds,   \* rewardable weights of an order, in half pounds
    Stamps,       \* counts entered by admins and at the till
    MaxIssues,    \* bound: manual issues at the till, per card
    Enabled,      \* the endpoints and faults an instance exercises
    Guest, NoOrder, NoGrant, NoWorker

ASSUME CardAssumption ==
    /\ Cost \in Nat \ {0} /\ Cap \in Nat /\ Cost <= Cap
    /\ HalfPounds \subseteq Nat
    /\ Stamps \subseteq 1 .. Cap
    /\ MaxIssues \in Nat
    /\ Guest \notin Customers /\ NoOrder \notin Orders
    /\ NoGrant \notin Grants /\ NoWorker \notin Workers

VARIABLES
    card,       \* customer_wings_rewards
    ledger,     \* customer_wings_stamp_ledger, per customer in commit order
    order,      \* orders, as far as rewards look at them
    answer,     \* history: the answers given to each courtesy grant request
    cardLock,   \* the transaction holding a card
    orderLock,  \* the transaction holding an order row
    job         \* the request each worker is serving

vars == <<card, ledger, order, answer, cardLock, orderLock, job>>
data == <<card, ledger, order, answer>>

-----------------------------------------------------------------------------
(* Rows *)

Kind == {"EARNED", "REDEEMED", "ADMIN_GRANTED"}
OrderStatus == {"NONE", "OPEN", "COMPLETED", "CLOSED"}

Entry(kind, o, g, delta, after) ==
    [kind |-> kind, order |-> o, grant |-> g, delta |-> delta, after |-> after]

\* The ledger entries of an order, and those made under a request id.
Entries == UNION {{c} \X DOMAIN ledger[c] : c \in Customers}
OfOrder(o, kind) ==
    {e \in Entries : ledger[e[1]][e[2]].order = o /\ ledger[e[1]][e[2]].kind = kind}
UnderId(g) == {e \in Entries : ledger[e[1]][e[2]].grant = g}

-----------------------------------------------------------------------------
(* A request in flight *)

Idle == [op |-> "none", phase |-> "idle"]
Job(op, phase, c, o) ==
    [op |-> op, phase |-> phase, customer |-> c, order |-> o, weight |-> 0,
     redeem |-> FALSE, grant |-> NoGrant, stamps |-> 0, seen |-> 0]

Start(w, j) == job[w] = Idle /\ job' = [job EXCEPT ![w] = j]
Finish(w) == job' = [job EXCEPT ![w] = Idle]
Go(w, phase) == job' = [job EXCEPT ![w].phase = phase]

Unlock(w) ==
    /\ cardLock' = [c \in Customers |-> IF cardLock[c] = w THEN NoWorker ELSE cardLock[c]]
    /\ orderLock' = [o \in Orders |-> IF orderLock[o] = w THEN NoWorker ELSE orderLock[o]]

\* Nothing was written, or the transaction rolls back.
GiveUp(w) == Finish(w) /\ Unlock(w) /\ UNCHANGED <<card, ledger, order>>

\* Mutant: the upsert has an empty update, and locks nothing.
TakesNoLock(w, c) == cardLock' = cardLock

TakesLock(w, c) == cardLock' = [cardLock EXCEPT ![c] = w]

\* upsert ... { increment: 0 }: waits for the card, locks it, returns it.
LockCard(w) ==
    LET c == job[w].customer IN
    /\ job[w].phase = "lock"
    /\ cardLock[c] = NoWorker
    /\ TakesLock(w, c)
    /\ job' = [job EXCEPT ![w] = [job[w] EXCEPT !.phase = "locked", !.seen = card[c].stamps]]
    /\ UNCHANGED <<data, orderLock>>

Record(c, e) == ledger' = [ledger EXCEPT ![c] = Append(@, e)]

-----------------------------------------------------------------------------
(* Checkout *)

\* The balance is checked once before the transaction locks the card.
Checkout(w, c, o, weight, redeem) ==
    /\ "checkout" \in Enabled
    /\ order[o].status = "NONE"
    /\ \A v \in Workers : job[v] # Idle => job[v].order # o
    /\ redeem => c # Guest /\ weight >= 2 /\ card[c].stamps >= Cost
    /\ Start(w, [Job("checkout", IF redeem THEN "lock" ELSE "insert", c, o) EXCEPT
                   !.weight = weight, !.redeem = redeem])
    /\ UNCHANGED <<data, cardLock, orderLock>>

InsertOrder(w) ==
    order' = [order EXCEPT ![job[w].order] =
                [status |-> "OPEN", customer |-> job[w].customer, weight |-> job[w].weight]]

CommitOrder(w) ==
    /\ job[w].phase = "insert"
    /\ InsertOrder(w)
    /\ Finish(w)
    /\ UNCHANGED <<card, ledger, answer, cardLock, orderLock>>

CanPay(c) == card[c].stamps >= Cost

\* redeemForOrderInTransaction, to the commit of the checkout.
Redeem(w) ==
    LET c == job[w].customer IN
    /\ job[w].op = "checkout" /\ job[w].phase = "locked"
    /\ CanPay(c)
    /\ card' = [card EXCEPT ![c].stamps = @ - Cost, ![c].redemptions = @ + 1]
    /\ Record(c, Entry("REDEEMED", job[w].order, NoGrant, 0 - Cost, card[c].stamps - Cost))
    /\ InsertOrder(w)
    /\ Unlock(w)
    /\ Finish(w)
    /\ UNCHANGED answer

RefuseRedeem(w) ==
    /\ job[w].op = "checkout" /\ job[w].phase = "locked"
    /\ ~ CanPay(job[w].customer)
    /\ GiveUp(w)
    /\ UNCHANGED answer

-----------------------------------------------------------------------------
(* Completion *)

Complete(w, o) ==
    /\ "complete" \in Enabled
    /\ order[o].status = "OPEN"
    /\ Start(w, Job("complete", "claim", order[o].customer, o))
    /\ UNCHANGED <<data, cardLock, orderLock>>

\* Mutant: the pound given for free earns stamps too.
EarnedOfAll(o) == order[o].weight \div 2

\* Whole pounds paid for: the redeemed one is not. An order earns once.
EarnedStamps(o) ==
    LET free == IF OfOrder(o, "REDEEMED") # {} THEN 2 ELSE 0 IN
    IF OfOrder(o, "EARNED") # {} \/ order[o].weight <= free THEN 0
    ELSE (order[o].weight - free) \div 2

Completed(o) == order' = [order EXCEPT ![o].status = "COMPLETED"]

\* Mutant: the update is not guarded by the status.
StillThere(o) == order[o].status # "NONE"

StillOpen(o) == order[o].status = "OPEN"

\* The guarded update of the order; a guest, or too little weight, ends here.
ClaimOrder(w) ==
    LET o == job[w].order IN
    /\ job[w].phase = "claim"
    /\ orderLock[o] = NoWorker
    /\ StillOpen(o)
    /\ IF job[w].customer = Guest \/ EarnedStamps(o) = 0
       THEN Completed(o) /\ Finish(w) /\ UNCHANGED orderLock
       ELSE /\ orderLock' = [orderLock EXCEPT ![o] = w]
            /\ Go(w, "lock")
            /\ UNCHANGED order
    /\ UNCHANGED <<card, ledger, answer, cardLock>>

OrderConflict(w) ==
    LET o == job[w].order IN
    /\ job[w].phase = "claim"
    /\ orderLock[o] = NoWorker
    /\ ~ StillOpen(o)
    /\ GiveUp(w)
    /\ UNCHANGED answer

Credited(earned, balance) ==
    LET room == IF balance < Cap THEN Cap - balance ELSE 0 IN
    IF earned <= room THEN earned ELSE room

\* accrueForOrderInTransaction from the lock on, to the commit.
Accrue(w) ==
    LET c == job[w].customer
        o == job[w].order
        earned == EarnedStamps(o)
        credit == Credited(earned, job[w].seen)
    IN  /\ job[w].op = "complete" /\ job[w].phase = "locked"
        /\ card' = [card EXCEPT ![c].stamps = @ + credit, ![c].lifetime = @ + earned]
        /\ Record(c, Entry("EARNED", o, NoGrant, credit, card[c].stamps + credit))
        /\ Completed(o)
        /\ Unlock(w)
        /\ Finish(w)
        /\ UNCHANGED answer

\* A cancellation or a no-show: a reward redeemed with the order is not returned.
CloseOrder(o) ==
    /\ "close" \in Enabled
    /\ StillOpen(o)
    /\ orderLock[o] = NoWorker
    /\ order' = [order EXCEPT ![o].status = "CLOSED"]
    /\ UNCHANGED <<card, ledger, answer, cardLock, orderLock, job>>

-----------------------------------------------------------------------------
(* Stamps given by hand *)

Issues(c) == Cardinality({i \in DOMAIN ledger[c] :
                 ledger[c][i].order = NoOrder /\ ledger[c][i].grant = NoGrant})

IssueAtTill(w, c, n) ==
    /\ "issue" \in Enabled
    /\ Issues(c) < MaxIssues
    /\ Start(w, [Job("issue", "lock", c, NoOrder) EXCEPT !.stamps = n])
    /\ UNCHANGED <<data, cardLock, orderLock>>

\* Mutants: an entry of a kind the column does not know; with the balance read
\* before the update; given stamps left out of the lifetime count.
GiveUnknownKind(w, kind, g) ==
    LET c == job[w].customer n == job[w].stamps IN
    /\ card' = [card EXCEPT ![c].stamps = @ + n, ![c].lifetime = @ + n]
    /\ Record(c, Entry("GIFT", NoOrder, g, n, card[c].stamps + n))
    /\ UNCHANGED order

GiveOldBalance(w, kind, g) ==
    LET c == job[w].customer n == job[w].stamps IN
    /\ card' = [card EXCEPT ![c].stamps = @ + n, ![c].lifetime = @ + n]
    /\ Record(c, Entry(kind, NoOrder, g, n, job[w].seen))
    /\ UNCHANGED order

Give(w, kind, g) ==
    LET c == job[w].customer n == job[w].stamps IN
    /\ card' = [card EXCEPT ![c].stamps = @ + n, ![c].lifetime = @ + n]
    /\ Record(c, Entry(kind, NoOrder, g, n, card[c].stamps + n))
    /\ UNCHANGED order

\* The till gives all or nothing, by the balance the upsert returned.
CommitIssue(w) ==
    /\ job[w].op = "issue" /\ job[w].phase = "locked"
    /\ job[w].stamps <= Cap - job[w].seen
    /\ Give(w, "EARNED", NoGrant)
    /\ Unlock(w)
    /\ Finish(w)
    /\ UNCHANGED answer

RefuseIssue(w) ==
    /\ job[w].op = "issue" /\ job[w].phase = "locked"
    /\ job[w].stamps > Cap - job[w].seen
    /\ GiveUp(w)
    /\ UNCHANGED answer

Grant(w, c, g, n) ==
    /\ "grant" \in Enabled
    /\ Start(w, [Job("grant", "replay", c, NoOrder) EXCEPT !.grant = g, !.stamps = n])
    /\ UNCHANGED <<data, cardLock, orderLock>>

Answer(g, a) == answer' = [answer EXCEPT ![g] = @ \cup {a}]

\* replay: the entry under this id answers if it is this very grant.
SameGrant(j) ==
    \E e \in UnderId(j.grant) : e[1] = j.customer /\ ledger[e[1]][e[2]].delta = j.stamps
ReplayAnswer(j) == IF SameGrant(j) THEN "GRANTED" ELSE "CONFLICT"

\* Looked up before the lock, again after it, and after a collision of ids.
ReplayGrant(w) ==
    LET g == job[w].grant IN
    /\ job[w].op = "grant" /\ job[w].phase \in {"replay", "locked", "collision"}
    /\ UnderId(g) # {}
    /\ Answer(g, ReplayAnswer(job[w]))
    /\ GiveUp(w)

\* Mutant: the second lookup is forgotten.
NotYetGrantedUnchecked(w) == job[w].phase = "locked" \/ UnderId(job[w].grant) = {}

NotYetGranted(w) == UnderId(job[w].grant) = {}

NewGrant(w) ==
    /\ job[w].op = "grant" /\ job[w].phase \in {"replay", "locked"}
    /\ NotYetGranted(w)
    /\ Go(w, IF job[w].phase = "replay" THEN "lock" ELSE "credit")
    /\ UNCHANGED <<data, cardLock, orderLock>>

HasRoom(j) == card[j.customer].stamps <= Cap - j.stamps

\* Mutant: the entry gets an id of its own.
CommitGrantOwnId(w) ==
    LET g == job[w].grant IN
    /\ job[w].phase = "credit"
    /\ HasRoom(job[w])
    /\ UnderId(g) = {}
    /\ Give(w, "ADMIN_GRANTED", NoGrant)
    /\ Answer(g, "GRANTED")
    /\ Unlock(w)
    /\ Finish(w)

CommitGrant(w) ==
    LET g == job[w].grant IN
    /\ job[w].phase = "credit"
    /\ HasRoom(job[w])
    /\ UnderId(g) = {}
    /\ Give(w, "ADMIN_GRANTED", g)
    /\ Answer(g, "GRANTED")
    /\ Unlock(w)
    /\ Finish(w)

\* STAMP_CAP_CHANGED
RefuseGrant(w) ==
    /\ job[w].phase = "credit"
    /\ ~ HasRoom(job[w])
    /\ Answer(job[w].grant, "FULL")
    /\ GiveUp(w)

\* P2002: the id was taken meanwhile, for another card. Roll back, look again.
CollideGrant(w) ==
    /\ job[w].phase = "credit"
    /\ HasRoom(job[w])
    /\ UnderId(job[w].grant) # {}
    /\ Go(w, "collision")
    /\ Unlock(w)
    /\ UNCHANGED data

-----------------------------------------------------------------------------
\* The process dies or a later statement of the transaction fails.
Crash(w) ==
    /\ "crash" \in Enabled
    /\ job[w] # Idle
    /\ GiveUp(w)
    /\ UNCHANGED answer

Init ==
    /\ card = [c \in Customers |-> [stamps |-> 0, lifetime |-> 0, redemptions |-> 0]]
    /\ ledger = [c \in Customers |-> <<>>]
    /\ order = [o \in Orders |-> [status |-> "NONE", customer |-> Guest, weight |-> 0]]
    /\ answer = [g \in Grants |-> {}]
    /\ cardLock = [c \in Customers |-> NoWorker]
    /\ orderLock = [o \in Orders |-> NoWorker]
    /\ job = [w \in Workers |-> Idle]

Arrive(w) ==
    \/ \E c \in Customers \cup {Guest}, o \in Orders, weight \in HalfPounds,
          redeem \in BOOLEAN : Checkout(w, c, o, weight, redeem)
    \/ \E o \in Orders : Complete(w, o)
    \/ \E c \in Customers, n \in Stamps : IssueAtTill(w, c, n)
    \/ \E c \in Customers, g \in Grants, n \in Stamps : Grant(w, c, g, n)

Progress(w) ==
    \/ LockCard(w)
    \/ CommitOrder(w)
    \/ Redeem(w)
    \/ RefuseRedeem(w)
    \/ ClaimOrder(w)
    \/ OrderConflict(w)
    \/ Accrue(w)
    \/ CommitIssue(w)
    \/ RefuseIssue(w)
    \/ ReplayGrant(w)
    \/ NewGrant(w)
    \/ CommitGrant(w)
    \/ RefuseGrant(w)
    \/ CollideGrant(w)

Next ==
    \/ \E w \in Workers : Arrive(w) \/ Progress(w) \/ Crash(w)
    \/ \E o \in Orders : CloseOrder(o)

Spec == Init /\ [][Next]_vars

-----------------------------------------------------------------------------
(* Types *)

CardRow == [stamps : Int, lifetime : Nat, redemptions : Nat]
EntryRow == [kind : Kind, order : Orders \cup {NoOrder}, grant : Grants \cup {NoGrant},
             delta : Int, after : Int]
JobRow == [op : {"checkout", "complete", "issue", "grant"},
           phase : {"insert", "claim", "replay", "lock", "locked", "credit", "collision"},
           customer : Customers \cup {Guest}, order : Orders \cup {NoOrder},
           weight : Nat, redeem : BOOLEAN, grant : Grants \cup {NoGrant},
           stamps : Nat, seen : Int]

\* Every row has the columns and values its table allows.
TypeOK ==
    /\ card \in [Customers -> CardRow]
    /\ ledger \in [Customers -> Seq(EntryRow)]
    /\ order \in [Orders -> [status : OrderStatus, customer : Customers \cup {Guest},
                             weight : Nat]]
    /\ answer \in [Grants -> SUBSET {"GRANTED", "CONFLICT", "FULL"}]
    /\ cardLock \in [Customers -> Workers \cup {NoWorker}]
    /\ orderLock \in [Orders -> Workers \cup {NoWorker}]
    /\ job \in [Workers -> JobRow \cup {Idle}]

-----------------------------------------------------------------------------
(* Safety *)

\* "Maximum saved balance": however redemptions, completions, grants and issues
\* interleave, a card holds between nothing and the cap.
CardWithinCap == \A c \in Customers : 0 <= card[c].stamps /\ card[c].stamps <= Cap

\* A ledger that accounts for a balance.
Accounts(l, balance) ==
    /\ \A i \in DOMAIN l :
          l[i].after = (IF i = 1 THEN 0 ELSE l[i - 1].after) + l[i].delta
    /\ balance = IF l = <<>> THEN 0 ELSE l[Len(l)].after

\* The ledger is an unbroken account of the card: each entry starts from the
\* balance the one before it left, and the last one left the card's balance. A
\* balance computed from a stale read, or an update without its entry, breaks it.
LedgerTellsTheCard == \A c \in Customers : Accounts(ledger[c], card[c].stamps)

\* An order earns once, and only when it is completed; it redeems once, and the
\* stamps it earns are for the whole pounds that were paid for, never for the
\* free one ("trivially farming the program").
RewardsFollowOrders ==
    \A o \in Orders :
        LET earned == OfOrder(o, "EARNED")
            redeemed == OfOrder(o, "REDEEMED")
        IN  /\ Cardinality(earned) <= 1 /\ Cardinality(redeemed) <= 1
            /\ \A e \in earned \cup redeemed : e[1] = order[o].customer
            /\ earned # {} => order[o].status = "COMPLETED"
            /\ redeemed # {} => order[o].status # "NONE"
            /\ \A e \in earned :
                  2 * ledger[e[1]][e[2]].delta + 2 * Cardinality(redeemed) <= order[o].weight

\* A completed order of a registered customer that was paid a whole pound or
\* more has its entry, even when the card was full and nothing was credited:
\* no completion loses its stamps.
CompletionsAccrue ==
    \A o \in Orders :
        LET paid == order[o].weight - 2 * Cardinality(OfOrder(o, "REDEEMED")) IN
        order[o].status = "COMPLETED" /\ order[o].customer # Guest /\ paid >= 2
            => OfOrder(o, "EARNED") # {}

\* A request id credits one card once, however often it is retried, and whoever
\* was told it was granted can find it.
GrantedOnce ==
    \A g \in Grants :
        /\ Cardinality(UnderId(g)) <= 1
        /\ "GRANTED" \in answer[g] => UnderId(g) # {}

\* "parallel retries of the same grant also work on full cards": a retry of a
\* grant that was credited is never told that the card has no room.
RetriesWorkOnFullCards ==
    [][\A w \in Workers :
          /\ job[w] # Idle /\ job'[w] = Idle
          /\ job[w].op = "grant" /\ SameGrant(job[w])
          => "FULL" \notin answer'[job[w].grant] \ answer[job[w].grant]]_vars

-----------------------------------------------------------------------------
(* Refinement: what the handlers promise together *)

Balances == [c \in Customers |-> card[c].stamps]
Sales == [o \in Orders |-> [status |-> order[o].status, customer |-> order[o].customer,
                            weight |-> order[o].weight,
                            reward |-> OfOrder(o, "REDEEMED") # {}]]
Granted == {g \in Grants : UnderId(g) # {}}

Program == INSTANCE StampProgram WITH balance <- Balances, sale <- Sales, given <- Granted

\* All transactions together, however they interleave and fail, are a stamp
\* program run by one hand: each takes effect in one step, or not at all.
ImplementsProgram == Program!Spec

-----------------------------------------------------------------------------
(* What a request in flight may rely on: the inductive invariant *)

PhasesOK(j) ==
    /\ j.op = "checkout" => j.phase \in {"insert", "lock", "locked"}
    /\ j.op = "complete" => j.phase \in {"claim", "lock", "locked"}
    /\ j.op = "issue" => j.phase \in {"lock", "locked"}
    /\ j.op = "grant" => j.phase \in {"replay", "lock", "locked", "credit", "collision"}

\* The transaction holds the card of its customer.
HoldsCard(j) == j.phase \in {"locked", "credit"}

\* From the upsert to the commit the card is locked by this request and still
\* is the one it returned; and a grant about to be made is not on it yet.
RequestOK(w, j) ==
    /\ PhasesOK(j)
    /\ j.op \in {"checkout", "complete"} => j.order \in Orders
    /\ j.op = "grant" => j.grant \in Grants
    /\ j.op \in {"issue", "grant"} \/ HoldsCard(j) \/ j.phase = "lock" => j.customer \in Customers
    /\ HoldsCard(j) => cardLock[j.customer] = w /\ j.seen = card[j.customer].stamps
    /\ j.phase = "credit" =>
          \A i \in DOMAIN ledger[j.customer] : ledger[j.customer][i].grant # j.grant

HoldersInv == \A w \in Workers : job[w] # Idle => RequestOK(w, job[w])
=============================================================================
