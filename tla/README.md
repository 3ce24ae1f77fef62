# Wings4U: TLA+ models of the order system

Wings4U is an ordering platform for a restaurant: customers order on the web or
in an app, the kitchen accepts and prepares on tablets (the KDS), a till takes
counter orders (the POS), drivers deliver against a PIN, admins settle
cancellations and refunds. All of it meets in one NestJS API over PostgreSQL
(Prisma), with Redis for rate limits and Socket.IO for live screens.

The API runs every request as: read some rows, validate them, then write in a
short READ COMMITTED transaction, then make a few calls after the commit. What is
hard in it is therefore not any one handler but what several of them do to the
same rows between one another's reads and writes. That is what these models are
about. A companion goal is to state once, precisely, what the order system as a
whole promises (`OrderClosure`), and to prove that the handlers keep it for any
number of orders, drivers, requests and concurrent handlers.

Paths below are relative to `src/apps/api/src/` unless they start with `src/`.

## 1. Inventory

| Component | State it keeps | Operations that change it | Hard behaviour | Status |
|---|---|---|---|---|
| Order lifecycle (`modules/kds/kds.service.ts`, `modules/admin/admin.service.ts`, `modules/orders/orders.service.ts`, `modules/drivers`, `common/orders/*`) | `orders`, `order_status_events`, `cancellation_requests`, `driver_profiles`, `customer_profiles.total_no_shows` | accept, status, assign, start and complete delivery, complete without PIN, request/approve/deny cancellation (KDS and admin), admin cancel, customer self-cancel | two handlers closing one order; stale reads; lock order; follow-up calls lost | modelled (`OrderStore`, `KitchenOrders`, `Deliveries`, `Cancellations`, `OrderLifecycle`) |
| Delivery PIN (`modules/kds/delivery-pin.service.ts`) | `delivery_pin_verifications` | generate, refresh, verify, bypass | unguarded read-compare-write | modelled (`Deliveries`) |
| Order chat (`modules/chat`) | `order_conversations` | open on message, close with the order | message overtaken by closing | conversation state modelled |
| Payments and collections (`modules/payments`, `database/order-row-lock.ts`) | `order_payments`, the roll-up columns of `orders` | record collection, ledger correction, manual discount (`applyManualDiscount` of `modules/pos`) | retried confirmations, concurrent tills, cancellation or discount in between | modelled (`RefundLedger`) |
| Refund requests (`modules/refunds`, admin and KDS endpoints) | `refund_requests`, wallet credits | request, automatic request of a cancelled order, approve and issue, reject | caps computed without locks, double decisions | modelled (`RefundLedger`) |
| Automatic accept (`modules/kds/kds-auto-accept.scheduler.ts`, `kds-presence.service.ts`) | in-memory timers and tablet presence, `orders` | arm, fire, flag for manual review, recover on start | crash loses timers; stale presence; race with a person | modelled (`AutoAccept`) |
| Wings rewards (`modules/rewards`, `modules/admin/admin-stamp-grants.service.ts`, `issueRewardsStampsByPhone` of `modules/pos/pos.service.ts`) | `customer_wings_rewards`, `customer_wings_stamp_ledger` | redeem at checkout, accrue at completion, courtesy grant, issue at the till | concurrent writers of one card, retried and colliding grants, the cap | modelled (`WingsRewards`) |
| Checkout, wallets, promotions, POS, card payments' orders (`modules/checkout`, `modules/wallets`, `modules/promotions`, `modules/pos`, `modules/payments/stripe-payments.service.ts`, `database/order-number.ts`, `database/wallet-row-lock.ts`) | `checkout_idempotency_keys`, order numbers, `customer_wallets`, `promo_redemptions`, and the order they create | place order, replay by key or payment, till sale, credit, debit | retries of a half-done attempt, limits checked before the row is made, five kinds of lock | modelled (`SalesStore`, `Checkout`, `Till`, `Storefront`) |
| Account deletion (`modules/auth/account-deletion*.ts`, the triggers of the migration) | `users.account_deleted_at`, everything owned | check blockers, erase | a serializable transaction beside read-committed ones | modelled beside the above (`AccountDeletion`) |
| Grant e-mails (`modules/notifications/stamp-grant-email.service.ts`) | `wings_stamp_grant_emails`, the provider's keys | send, retry | lapsed leases, lost answers, a provider that forgets | modelled (`GrantEmails`) |
| Saved carts (`modules/saved-cart`) | carts by user or guest token | save, merge at sign-in | two tabs merging at once, delayed saves | next of the plan |
| Sessions, one-time codes (`modules/auth`) | `auth_sessions`, `auth_otp_codes` | issue, verify, refresh, revoke | rotation answer lost, double use | planned: `AuthSessions` |
| Rate limits, Redis (`modules/rate-limit`, `modules/redis`) | counters in Redis or memory | consume | outage, fallback | planned: `RateLimit` |
| Support tickets, overdue deliveries (`modules/support`, `modules/kds/overdue-delivery.job.ts`) | `support_tickets` | open, resolve, job | duplicate runs, page of one hundred | planned: `SupportTickets` |
| Time clock (`modules/timeclock`) | shifts, breaks, availability | clock in/out, breaks | duplicate shifts, availability beside dispatch | planned with Dispatch extensions |
| Realtime gateway (`modules/realtime`) | sockets, subscriptions | subscribe, revoke | revocation races | presence in `AutoAccept`; the rest last |
| Busy mode, opening hours, pricing, cart validation | settings; pure functions of a request | | rounding, week boundaries | not modelled |
| Catalog, menu, staff, customers, notifications, reviews, reports, API shell, stubs, clients, print agent, packages | single-row edits, reads, I/O | | | not modelled (reasons in `PROJECT.json`) |

### Interactions

* Checkout and POS create an `orders` row; every later writer of that row guards
  its UPDATE with the status (and mostly the driver) it read, so the row itself is
  the only synchronisation between kitchen, admin, customer and driver.
* A handler that closes an order also, inside the same transaction, logs the
  event, releases the driver, counts a no-show or a completed delivery, decides
  the cancellation request; and after the commit closes the chat and (for most
  cancellations) opens a refund request.
* Payment writers lock the order row (`SELECT ... FOR UPDATE`) before they read;
  the refund-request service does not; cancelling an order and discounting it update
  the same row, so these components meet on that lock.
* A checkout waits, in this order, for its key's unique index, the customer's
  advisory lock, the location's number lock and the wallet's row; the till takes
  the wallet before the number. Triggers make every write of a customer's row share
  the user's row, which a deletion locks: that is all that keeps the two apart.
* The driver profile is written by dispatch, by the release at closing, by the
  driver himself and by the time clock, with no lock common to all of them.

### What makes each component correct

* Lifecycle: one winner closes an order, along an allowed edge, and the effects of
  the closing happen exactly once; a closed row never changes; the event trail is
  an unbroken account; an approved request and a cancelled order correspond; nobody
  waits for ever; money taken for a cancelled order is asked back.
* PIN: a driver's delivery completes only after a verification or a bypass (made at some
  time; the record of it may since have been overwritten, see section 5).
* Automatic accept: an order is accepted once, by whoever comes first; a placed order
  is always in somebody's hands; a tablet that receives the orders is seen.
* Stamp cards: every balance is within the cap and accounted for by its ledger; an order
  earns once; a retried grant gets its answer.
* Accounts: one attempt is one order, from money that is there, under the next number,
  within the customer's limits, to nobody who has left; every answer is the asker's own.
* Grant e-mails: one e-mail per grant, whatever is retried.
* Money: no more is given back than was taken, and money is taken only up to the price in
  force and never past what the order cost when placed; the net paid is what the rows say,
  and the summary what they said at the price in force when the last was written; an issued
  request is paid exactly once; a decision is final. What does not hold is that the money
  taken is at most the price, or that the summary suits the price: a later discount lowers
  the price of a paid order and touches neither (section 5).

## 2. Modules

```
OrderStore ── rows, locks, guarded writes, closing transaction, faults
  ├─ KitchenOrders ── creation, accept, generic status endpoint
  ├─ Deliveries ──── availability, assignment, departure, PIN, completion
  └─ Cancellations ─ requests and decisions, direct cancels, follow-up calls
        └─ OrderLifecycle ── composes the three; properties; HandlersInv
              ├─ OrderClosure (INSTANCE) ── the abstract promise
              ├─ MCOrderLifecycle ── TLC instances
              └─ OrderLifecycleProofs ── theorems
RefundLedger ── the money of one order
  ├─ OrderMoney (INSTANCE) ── the abstract promise
  ├─ MCRefundLedger
  └─ RefundLedgerProofs
WingsRewards ── the stamp cards of customers
  ├─ StampProgram (INSTANCE) ── the abstract promise
  ├─ MCWingsRewards
  └─ WingsRewardsProofs ── the cards
        └─ StampProgramProofs ── orders, grants and the promise
SalesStore ── account rows, requests, the locks they hold
  ├─ Checkout ── CheckoutService.placeOrder
  │    └─ Till ── PosService.createPosOrder (shares number and wallet helpers)
  └─ AccountDeletion ── snapshot, lock, retry, erasure
        └─ Storefront ── composes the three with wallets' credits; properties
              ├─ Sales (INSTANCE) ── the abstract promise: a cashier's book
              ├─ MCStorefront
              └─ StorefrontProofs
GrantEmails ── the e-mail of one grant
  ├─ GrantLetter (INSTANCE) ── the abstract promise
  ├─ MCGrantEmails
  └─ GrantEmailsProofs
AutoAccept ── timers, recovery and tablet presence of one API process
  ├─ MCAutoAccept
  └─ AutoAcceptProofs
```

**How a handler is modelled.** A request being served is the record `job[w]` of a
worker `w`. It is created by an arrival action whose guard is the handler's
validation on the rows as they are (`CustomerCancel`, `CompleteDelivery`, ...);
the record keeps what was read (`seen`), what is going to be written (`to`), the
rows its transaction must still update (`rows`) and the calls left for after the
commit (`todo`). Any other worker may act between two steps.

* A transaction with one guarded write is one step (`CommitAccept`,
  `CommitStatus`, `CommitAssign`, `CommitStart`, `CommitDeny`): all its writes
  become visible together.
* A closing transaction takes several: `LockRow` per guarded UPDATE (each locks its
  row until the end; the driver's other assignments are counted right after the
  last), then `CommitClose`. This is what exposes lock-order inversions
  (the KDS approval updates the request row first, the admin approval the order
  row first) and the unlocked count of `releaseClosedOrderDriver`.
* If the guarded UPDATE matches no row (Prisma's P2025, mapped to 409 by
  `rethrowOrderWriteConflict`) the action is `Conflict`: rollback, locks freed.
* `DeadlockVictim` is PostgreSQL aborting one of two transactions that wait for
  each other. `Crash` (endpoint `"crash"`) stops a worker at any step: an open
  transaction rolls back, what was committed stays, the remaining calls are lost.

`Enabled` is the set of endpoints and faults an instance exercises; nothing else
changes with it. `LegacyOrders` are deliveries on the road whose PIN record was
locked by the older release (the only records that take the no-PIN completion).

**RefundLedger** keeps one order's money in the same style. Amounts are small
integers; `ledger[t]` is the sum of the SUCCESS rows of a type, which is all the
policy functions read. Payment writers are `LockOrder` (FOR UPDATE, then every
read of the transaction) and `PostPayment`/`RefusePayment`. Issuing a refund is
`ClaimRefund` (the guarded `updateMany`), then the same two steps or
`CreditWallet`. Creating a refund request checks the cap and inserts later, as two
steps with no lock, because that is what the code does. The price is a column too
(`payable`, `orders.final_payable_cents`; `Price` is its value at placement). A manual
discount computes a new one from an unlocked read (`Discount`) and writes it later
(`WritePrice`), whatever the order is by then: paid, cancelled, or discounted by another.
Its update by id has no guard but waits for the row, so it never falls between a payment
writer's lock and its commit; the columns rolled up from the ledger it leaves as they are.

**WingsRewards** keeps the stamp cards, their ledger and what rewards look at in
an order. Four transactions write a card; each takes its row lock with an upsert
that adds 0 (`LockCard`, which also keeps the balance the upsert returned in `seen`)
and commits in one further step: `Redeem` (checkout), `Accrue` (completion),
`CommitIssue` (the till) and `CommitGrant` (an admin's courtesy grant). A completion
takes its order's row first (`ClaimOrder`, the guarded update). A grant looks for its
request id before the lock and again after it (`ReplayGrant`, `NewGrant`), and once
more when the id collides with one committed for another card (`CollideGrant`,
Prisma's P2002). The weight of an order is in half pounds, so that an odd half is
dropped; `Cap` and `Cost` stand for 16 and 8 (`rewards.service.ts:7-10`). The service's re-checks of an order
already accrued, which the guarded update of the order makes unreachable, are
part of `EarnedStamps`. Deleting an account is left out: it erases a card only when
no order of the customer is active.

**AutoAccept** is the memory of one API process beside the orders: a timer per
order with the source that armed it (`Arm`, from the checkout or from recovery), `recovery`,
the checkouts between their commit and `ScheduleOrder`, and a `processOrder` per order and
source, which may overlap. `Crash` empties all of it and `Start` is `onModuleInit`; the
orders stay. A deadline is left out: a timer may fire at any moment, and the reconnect
grace may end at any moment (`GraceEnds`). The last read of `systemAutoAccept` and
`flagForManualReview` is one step with the guarded update that repeats its tests.
The statuses between accepted and closed are one, `PREPARING`. Presence is the three maps
of `KdsPresenceService` as the gateway writes them: a subscription awaits its checks
(`Subscribe`, then `JoinRoom` or `RefuseSubscription`) and may be overtaken by `Disconnect`,
which keeps the grace, or by the closing of the location (`FindNoTickets`, `CloseLocation`). `failed` is history:
the orders whose error the process logged and that nobody else in it has. Left out: a socket whose session is replaced (it
stops counting until its tablet subscribes again), and a change of the setting.

**Storefront** keeps the account rows (`orders`, `keys`, `wallets`, `deleted`) and, per
request, the statement it has reached (`pc`). A request is one transaction, so nothing
it writes shows before its last step, where all of it does (`CommitOrder`, `TillCommit`,
`Erase`); what others notice before is the locks it holds, and these are functions of
`pc` (`HoldsKey`, `HoldsCheckout`, `HoldsNumber`, `HoldsWallet`, `SharesAccount`, `LocksAccount`).
An action is what happens from one wait to the next; the reads in between are made under
the lock just taken, except two that the model keeps apart from it because the code does: the
replays looked up before the transaction (`PlaceOrder`), and the deletion's snapshot, taken
when its first statement starts to wait (`RequestDeletion`) and used after the wait
(`Erase`). `Fail` rolls a request back at any statement: a refusal, a unique index, a deadlock's
victim (till and checkout take wallet and number in opposite orders), a timeout, a crash.
`Tell` hands over the answer or loses it; a retry is another `PlaceOrder` with the same
key. A cart is what it spends from the wallet, its deal and its card payment; its hash
and the intent's amount are that record's equality. One allowance window stands for the
two policies, which differ in length and limit alone. The deletion's third conflict ends
it, in the model as in the code, by `Fail`; of its blockers, orders and money are modelled.

**GrantEmails** is one row, its provider and any number of calls of `send`: grants
share nothing. A call keeps the step it awaits (`pc`), whether its `now` was past the 23 hours
(`late`), the payload (`draft`) and the result it will record (`outcome`). The
60-second lease may lapse at any moment (`LeaseLapses`), since a stalled process stalls
anywhere, so the lease is never trusted to exclude: `Holds` is the comparison of the
attempt's token. Requests lie in `net` until the provider accepts (`Accept`: idempotent per key),
refuses or never sees them (`Refuse`); their answers may be lost. `window` stands for the
time since the first attempt: "open" up to 23 hours, "closing" to 24, "closed" after.
`ProviderForgets` is the one assumption on time: a call whose `now` was within
the 23 hours is done posting, and its request arrived, before the hour is over. Left out: the
row's erasure with its account.

**External assumptions** (marked `external` in the map where a definition stands
for them): PostgreSQL at READ COMMITTED - an UPDATE with a WHERE re-evaluates it on
the latest committed row after waiting for a lock and matches or does not; row locks
last to the end of the transaction; a deadlock aborts one participant. Prisma's
`update where {...}` is such an UPDATE and raises P2025 when no row matches.

## 3. Runs

`lifecycle_*` are instances of `MCOrderLifecycle`; `money_races` of `MCRefundLedger`,
`stamp_cards` of `MCWingsRewards`, `auto_accept` of `MCAutoAccept`, `accounts` of
`MCStorefront`, `grant_emails` of `MCGrantEmails`. Workers and requests are interchangeable,
so the safety runs of these use symmetry; the runs with liveness do not.

| Run | Instance | Question |
|---|---|---|
| `lifecycle_desk` | 1 order, 1 driver, 2 cancellation requests, 2 workers, crashes | Everyone who may close an order does it at once: is there one winner, with its effects, its trail, its request and its refund, and who can deadlock? |
| `lifecycle_dispatch` | 2 orders (one legacy), 1 driver, 2 workers | Assignment, PIN and the four ways to DELIVERED interleaved: can a delivery complete uncleared or be counted twice? Do the handlers implement `OrderClosure`? |
| `lifecycle_answers` | 1 order, 2 requests, 2 workers, fairness, no crash | Is every request answered, and money of a cancelled order claimed, whatever locks the others hold? |
| `money_races` | 2 refund requests, 1 key, 2 workers, price 2 when placed, manual discounts, crashes | Collections, corrections, discounts, refunds, decisions and a cancellation interleaved: is the ledger never overdrawn, is money taken only as due, is no roll-up computed from stale rows or a stale price, and do all of them together implement `OrderMoney`? |
| `stamp_cards` | 2 customers, 2 orders, 1 grant id, 2 workers, cap 3, reward 2, crashes | Redemptions, completions, grants and issues on the same cards: does every balance stay within the cap and agree with its ledger, does a retry get its answer, and do all of them together implement `StampProgram`? |
| `auto_accept` | 1 order, 2 connections, 1 location, 1 crash, fairness | Timers, people, recovery and tablets interleaved: is an order accepted once, is a placed order always in somebody's hands and eventually attended, is a watching tablet seen? |
| `race_driver_release` | 2 orders, 1 driver, 2 workers | violation, finding 1 |
| `direct_cancel_money` | 1 order, 1 worker | violation, finding 2 |
| `accounts` | 2 customers, 2 orders, 2 keys, 1 card payment, 2 carts, 2 requests at once, allowance 1, code limit 1 | Checkouts, till sales, credits and deletions interleaved, with replays, failures and lost answers: do they implement `Sales`, is every answer the asker's own, are the limits kept? |
| `grant_emails` | 3 calls, 2 addresses, 2 wordings | Lapsing leases, crashes, changing contacts, lost requests and answers, a provider that forgets: is there one e-mail, always the same bytes, and is it the e-mail `GrantLetter` promises? |
| `cancel_after_refund` | 1 worker | violation, finding 3 |
| `deleted_with_open_order` | 1 customer, 1 order, 2 requests | violation, finding 4 |

**Bounds and why they are enough.** Handlers interact only through a row both
write, so two workers exhibit every pairwise race; a third adds longer chains of
the same conflicts. Two cancellation requests are needed for two to be pending on
one order; two orders of one driver for the release to have something to count.
Counter bounds: an order is created once per id, requests once per id, so
every counter and trail is bounded by the constants, and only `MaxHeld` caps
a quantity (the sum of AUTH and VOID corrections, those in flight included, which nothing limits in the code)
and `MaxIssues` the manual issues at the till, which only the cap limits. A cap of 3 with rewards
of 2 and orders of two and a half pounds makes every partial case occur: a credit cut
at the cap, a grant that no longer fits, a redeemed order that still earns.
`auto_accept` needs one order, since orders share no timer, two connections
(one may leave while the other stays, or come back as the other) and one crash (a second
starts from the same empty memory). `accounts` needs two customers for limits that are
counted across them and for keys that are not theirs, and two requests because every lock is
between two; with an allowance and a code limit of one, the second order is the one that
must be refused. Two of the four conjuncts of `CustomerLimits` cannot fail in an instance of this
size: the bound on a code's total equals the number of orders, and the card payment of the one
first-order cart sells once. A third order or cart is beyond what TLC does in minutes, so
these two rest on the theorem `LimitsHold`, which holds for any number; the run tests the
allowance and the one use of a code per customer. Its carts pair a code with store credit and a
first-order deal with a card payment, so that two carts meet all four. `Outcomes` leaves
DELIVERED out there: to a checkout a delivered order is like an open one, to a deletion
like a cancelled one. `MaxBalance` bounds store credit. `grant_emails` has a third call
because a letter may be written by one, posted by a second and retried by a third. The theorems below remove the bounds altogether for the properties they cover.

**Deadlock checking** is off where the system may stop: orders end, ids run out, and the system
may stop. That nobody waits for ever is the liveness run's business.

**Fairness.** `FairSpec` of the lifecycle assumes weak fairness of each worker's next step: Node goes
on with a request it accepted, PostgreSQL grants a free row and breaks a deadlock.
Arrivals get none: nobody has to send a request. Crashes are not enabled in the
liveness run; with them, the refund request of a cancellation is lost for good
(hazard "partial_failure"), which the code does not repair. `FairSpec` of `AutoAccept`
assumes that Node runs due timers and answered queries, and that a process that died
is started again; nothing is assumed of people, tablets or faults, and its one crash
may come at any moment.

## 4. Proofs

All theorems hold for any sets of orders, drivers, requests and workers, any
`Enabled` and any amounts; they assume only `StoreAssumption` (the null values
are not ids, orders and requests are disjoint, legacy orders need a driver), `OrdersAreFinite` or
`MoneyAssumption` (the same for the ledger; amounts are positive) or `CardAssumption` (a reward costs
at least one stamp and at most the cap; stamps given by hand are between one and the cap) or `AcceptAssumption` (orders and
connections belong to locations, the null value is not one), `SalesAssumption` and `FiniteAssumption`
(limits are positive, carts are well formed, null values are no ids, orders and
requests are finite) or `MailAssumption` (null values are no ids), which TLC
evaluates on the runs of their modules.

| Theorem | Says |
|---|---|
| `RowsAndHandlers` | `Spec => [](TypeOK /\ HandlersInv)` |
| `LifecycleIsTyped` | `Spec => []TypeOK` of `OrderLifecycle` |
| `ClosedForGood` | `Spec => TerminalIsFinal` |
| `Refinement` | `Spec => ImplementsClosure` (every step is a step or a stutter of `OrderClosure`) |
| `NoShowsAreCounted`, `DeliveriesAreCounted` | `NoShowsCounted` and `CompletionsCounted`, from `Refinement` |
| `NobodyIsStranded` | `Spec => []SelfCancelStrandsNobody` |
| `RefundsFollowCancellations` | `Spec => []RefundOnlyForCancelled` |
| `DeliveredMeansCleared` | `Spec => []PinBeforeDelivered` |
| `TrailsAreTrue` | `Spec => []TrailTellsTheStatus` |
| `ApprovalsClose` | `Spec => []ApprovalClosesItsOrder` |
| `DeadlocksAreApprovals` | `Spec => []OnlyApprovalsDeadlock` |
| `MoneyIsSafe` | the ledger, net-paid, accounting and idempotency invariants of `RefundLedger` |
| `MoneyIsTyped`, `RefundsArePaidOnce`, `KeysAreUsedOnce` | three of those invariants by themselves: `TypeOK`, `IssuedIsAccounted`, `OneRowPerKey` |
| `RollupIsTrue` | `Spec => RollupTellsTheLedger`: the net paid is the ledger's, and whoever adds a row leaves the columns true at the price in force |
| `MoneyIsBooked` | `Spec => ImplementsMoney` (every step is a step or a stutter of `OrderMoney`) |
| `DecisionsAreFinal` | `Spec => DecidedIsFinal` |
| `MoneyIsTakenAsDue` | `Spec => TakenAsDue`: no money on a cancelled order, nor past the price in force |
| `CardsAreSafe` | `Spec => [](TypeOK /\ HoldersInv /\ CardWithinCap /\ LedgerTellsTheCard)` of `WingsRewards` |
| `CardsAreTyped`, `CardsAreCapped`, `CardsAreAccounted` | `TypeOK`, `CardWithinCap` and `LedgerTellsTheCard` by themselves |
| `RetriesAnswered` | `Spec => RetriesWorkOnFullCards` |
| `RewardsAreEarned`, `NoStampsAreLost`, `GrantsAreMadeOnce` | `Spec => []RewardsFollowOrders`, `[]CompletionsAccrue`, `[]GrantedOnce` |
| `StampsAreAProgram` | `Spec => ImplementsProgram` (every step is a step or a stutter of `StampProgram`) |
| `NobodyIsForgotten`, `AcceptanceReviews` | `Spec => []NobodyForgotten`, `Spec => [](TypeOK /\ AcceptedIsReviewed)` of `AutoAccept` |
| `AcceptedAtMostOnce` | `Spec => AcceptedOnce` |
| `WatchersAreSeen` | `Spec => []TabletsAreSeen` |
| `Consistency` | `Spec => []IInv` of `Storefront`, and from it the next four |
| `WalletsNeverOverdrawn` | `Spec => []TypeOK`: balances are natural numbers |
| `AnswersAreYours` | `Spec => []AnswerIsYours` |
| `LimitsHold` | `Spec => []CustomerLimits` |
| `ShopKeepsTheBook` | `Spec => ImplementsSales` (every step is a step or a stutter of `Sales`) |
| `OneMailAtMost`, `OneLetter`, `SentForGood` | `Spec => []EmailedOnce`, `Spec => []SameBytes`, `Spec => SentIsFinal` of `GrantEmails` |
| `MailsArePromised` | `Spec => ImplementsPromise` (every step is a step or a stutter of `GrantLetter`) |

Three theorems state properties that no run checks by themselves: `DecidedIsFinal`,
`SentIsFinal` and `CompletionsAccrue` are implied, step by step, by the refinements
the runs `money_races`, `grant_emails` and `stamp_cards` check instead.

**The argument for orders.** That a closing step changes an open order cannot be
read off the step: `CommitClose` has no guard on the order row, because the code
tests it in the UPDATE several steps earlier. `HandlersInv` carries the missing
link: from the guarded update to the commit (`HasClaimed`) the row is locked by
this worker and is still what it read, and what it read passed the validation of
its endpoint. No other worker can disturb that, since every write of a status
waits for the lock; and validation is about `seen`, which never changes. The owner
and fulfilment of an order never change after creation, which lets
`Refinement` conclude from the row read to the row closed. A handler that
holds a lock is one worker, so mutual exclusion needs no further invariant.

Each of the other order invariants adds one part to that. `DriversComeLate`: an order in
PLACED has no driver and none rests in ACCEPTED, so what a customer may still cancel nobody
is assigned to. `PromisesInv`: only a cancelling handler calls
`createForCancelledOrder`, and its order is cancelled by then, for good. `ClearanceInv`: a
completion that reached its transaction found the record cleared; `cleared` is history and
only grows, so a record overwritten meanwhile cannot break this, nor does it show in it. `ApprovalInv`: an approval that
made its guarded update holds the request as PENDING, and the request is for the order it
closes. `LocksInv` names the rows a transaction holds (`HoldsRow`): a handler that holds one and
still waits is an approval between its two rows, the kitchen's waits for the order and the
admin's for the request, so three waits in a row end at two approvals of one request that wait for
each other (`OnlyApprovalsDeadlock`); there is no other deadlock and no longer one, which is
why `DeadlockVictim` needs to look at pairs only. The trail needs no invariant of its own: each writer's event starts from the
status its guarded update claimed. The two counters are not proved on the handlers at
all: every step being a step or a stutter of `OrderClosure`, they are proved on its
five actions (`Counted`), and the handlers inherit them.

**The argument for money.** `MoneyInv` is inductive only with `RequestsInv`: a writer
in its transaction holds the order's row and has read the ledger as it is, a
decision holds its still-PENDING request, and two requests never make the same
refund request. Then `PostPayment` adds to the ledger exactly what it checked, against
the price it checked it with: a discount waits for the row, so that price is still the
order's (`TakenAsDue`). That what was taken is at most the price is no invariant; that it is
at most `Price` is one, because no discount raises a price past it: each writes what it
read, less something, and `payable <= Price`, together with the same of a discount in
flight (`NamesOK`), is inductive.
`MoneyIsBooked` reads the ledger as a book: what was taken, what was given back, and each refund
with its amount and the way it was paid. It needs one fact more, `AmountsAgree`: a
refund is paid with the amount it was asked for with, although a handler
carries that amount from a row it read unlocked (no handler ever changes it). The way of payment is no column of the
request; `HowPaid` reads it off the rows, and `IssuedIsAccounted` says that an
issued request has exactly one. Every payment is then a `Take`, a `GiveBack` or a stutter
(a void, an authorisation), and the claim of a refund is a stutter: it shows only when its transaction commits.

**The argument for stamp cards.** The till and the accrual compute with the balance
their upsert returned, not with the one they update: `HoldersInv` says the two
are the same, since the card is locked in between. Every step is then quiet
(`Quiet`: no card changes, and nobody loses a card he holds) or a commit (`Commits`:
the holder gives his card a new balance within the cap and appends the entry that
leads to it), and one lemma for each shape preserves the invariant; `AppendAccounts` is the one
fact about ledgers this takes. A grant about to be credited holds
the card and found no entry under its id, so it is not a retry of one on that card:
that is all `RetriesAnswered` needs.

What the entries say of orders and grants is `StampsInv`. `OrdersInv`: an order has at
most one EARNED and one REDEEMED entry, on its customer's card and for no more than was paid
for, and a completed order that earned a pound has its entry. `ServedInv` is what a
request carries through its waits: a checkout's order is still nobody's, and a
completion holds an order that is still open. `GrantsInv`: entries under one
grant id are one. Entries are pairs of a card and a place, so that an
appended entry is one new element (`RecordEntry`, `RecordSets`) and no ledger is ever counted by induction.
`StampsAreAProgram` follows step by step: the commits of checkout, completion,
issue and grant are `Buy`, `Finish`, `Issue` and `Grant`; a completion that earns
nothing is a `Finish` at its claim already; everything else stutters.

**The argument for automatic acceptance.** `NobodyForgotten` is inductive: each
step of the scheduler passes a pending order to the next pair of hands
(`SchedulerPassesOn`), a fault reports it, a crash leaves it to the next start. That
an order is accepted once follows from every step changing orders in one of
four shapes (`StepOfOrders`), none of which leads back to PLACED, and from
`AcceptsFollowStatus`. `TabletsAreSeen` needs `AtStation`: a connection is only ever present
at its own station, is present there while it is open and in the room, and is known
to the server before it subscribes.

**The argument for accounts.** A request decides from what it has read under a lock
and writes some statements later, so `IInv` says for each lock what stays true while it is held.
`Locks`: no two requests hold the same one, which follows from the guards alone,
since a lock is a function of `pc`. `Accounts` and `Purses`: the account a request shares is not
deleted, and the money a locked wallet promised is in it. `Numbers`: the number it took is still the
next one. `KeysHeld` and `KeysAnswer`: the key it claimed is unused, a committed key names
an order that answers it, and what a deletion saw of keys is still so, because every
writer of a key shares the account it has locked. `Allowances`: what the checks found still
holds, and the uses of a code together with the requests allowed one stay within
`CodeLimit - 1 + Cardinality(Workers)`; that count is why the limit without a lock is
passed by no more than the requests in flight. The refinement needs the same parts and
nothing else: a commit is one `Sell` by `Numbers`, `Purses`, `Accounts` and the unique indexes, and an
erasure is a `Leave`: the wallet it deletes is empty because the snapshot's wallet is unchanged.

**The argument for grant e-mails.** The letter is in the row before anybody posts it, and a call that
holds the token works with the letter of the row (`LettersInv`), so two posted letters are
one. Only a call begun in time reaches a letter, and none is left with a request when the key is
forgotten (`WindowInv`), so nothing is posted under a forgotten key. `MailsInv` then counts: the
first letter sets the key, and while the provider keeps it none is sent again. SENT is
written by the holder, who lets go of the lease with it, and nobody can claim a SENT row
(`SentInv`). For `MailsArePromised`, `ResultsInv` adds that a call which is about to record has a
result to record, and `SentInv` that it is SENT only after a letter was mailed: so writing the letter is `Write`, the first acceptance under the key is `Mail`,
the record of a result is `Say`, and a retry the provider recognises is a stutter.

The companions of these arguments (`HandlersInv`, `LocksInv`, `RequestsInv`, `HoldersInv` and the like) are part of the
proved invariants and of no run: what they promise shows in the properties they carry.

**Only model-checked:** liveness (`RequestsAnswered`, `CancelledMoneyEventuallyClaimed`,
`PlacedIsAttended`), which is out of the prover's reach, and the four violations. `AcceptedIsReviewed` is proved
within `AcceptanceReviews`.

## 5. Where the code and its documentation disagree

Findings, each with a run whose trace shows it:

1. `race_driver_release`: two orders of one driver closed at once leave him on
   delivery with nothing to deliver (`common/orders/release-closed-order-driver.ts:18`
   counts with a plain read), although `TERMINAL_ORDER_HARDENING_REVIEW.md` says
   availability "considers other active assignments".
2. `direct_cancel_money`: an order cancelled through the kitchen's status
   endpoint opens no refund request (`kds.service.ts:871`).
3. `cancel_after_refund`: the automatic request subtracts issued cash refunds twice
   (`refund.service.ts:229`).
4. `deleted_with_open_order`: a sale that commits while the deletion waits for the user's row is
   not in the snapshot the deletion decides from, and the account is deleted with an
   order open (`account-deletion.service.ts:104`), although `Docs/account-deletion.md:124` says
   the request "rechecks everything inside a serializable transaction".

Seen while modelling, kept by the models, with no run of their own:

* The kitchen may cancel an accepted order directly (`kds.service.ts:716`), around the
  request-and-approve protocol the controller describes (`kds.controller.ts:350`).
* A wrong PIN being verified overwrites a bypass or a verification granted
  meanwhile (`delivery-pin.service.ts:268`); the driver must be let through again.
* KDS and admin approvals lock in opposite orders (`kds.service.ts:1113`,
  `admin.service.ts:160`); the database resolves it, and the aborted one surfaces
  as a 500, since only P2025 is mapped to a conflict.
* A pickup order can be assigned and sent out for delivery (`kds.service.ts:1334`),
  where only a driver's completion or a cancellation ends it.
* Two refund requests at once each claim the whole balance, because the cap is computed from
  unlocked reads (`refund.service.ts:79`); issuing them checks again under the lock, so the
  second cannot be paid (`LedgerNeverOverdrawn`).
* A manual discount may be given on an order already paid (`pos.service.ts:1189-1219`: only
  CANCELLED is refused, and only by the unlocked read). Then more was collected than the
  order costs, and nothing asks for the difference; the payment summary is not computed
  again, so an order of 10 with 8 collected and a discount of 2 stays PARTIALLY_PAID with
  nothing owed until its next payment row; and a request for the difference is capped by the
  lower price (`refund.service.ts:91`).
* Of two manual discounts at once one is lost, since each writes a price computed from its
  own read (`pos.service.ts:1206-1219`), while both discount rows remain; a late one may raise
  the price again, also after payment.
* A promotion's total limit is counted without a lock common to all customers
  (`promotions.service.ts:440`): `CustomerLimits` and its proof say by how much it may be passed.
* The till locks the wallet and then the order number (`pos.service.ts:777`), the checkout the
  other way round (`checkout.service.ts:1331`): the database aborts one of the two.
* Two requests for cancellation can both be pending (`kds.service.ts:945`); the
  second stays pending after the first is approved and can only be denied.
* A message accepted while the order was open may open a conversation after the
  closing handler closed it (`chat.service.ts:159`).
* An authorisation counts as money when a cancelled order's balance is computed
  (`refund.service.ts:229`), and the "Lock the order row" there takes no lock.
* Cancellations other than the kitchen's own leave `requires_manual_review` set.
* A tablet that disconnects while its subscription awaits the database is recorded as
  present afterwards (`realtime.gateway.ts:527`) and never removed: until the next restart
  the location is healthy with nobody there and orders are accepted unseen, where
  `kds.service.ts:1806` says "when an authenticated KDS orders socket is present".
  (`TabletsAreSeen` is the other direction, which holds.)
* Nothing re-arms an order whose `scheduleOrder` or `processOrder` failed, whose
  checkout could not build its answer (`checkout.service.ts:1637`), or that was flagged
  for review before its tablet came back (`kds.service.ts:1878`): it waits for a
  person or for a restart.
* Reassigning an order leaves the former driver's profile on delivery
  (`kds.service.ts:1287`).

Seen while reading the saved carts, which are not modelled: the merge at sign-in runs
under locks on both carts, but what is sent around it does not. The clients drop a held-back
save when the session's generation changes, which only signing out does (`src/apps/web/src/lib/auth-events.ts`),
so a guest's save held at sign-in is sent as the customer's; a save without a valid session
cookie goes to a guest cart, a fresh one if need be (`saved-cart.service.ts:166`), so a customer's save
after his access expired does too; and a guest's save that arrives after the merge makes the guest
cart anew.

## 6. Not modelled, and the plan

Out of the core models, with the reason: promised times (they steer no modelled
decision), message contents and read marks, listings and reports, audit rows,
notifications (best effort after commit), wording and formatting throughout.
What an account owns beside orders, wallet and keys is left out of its deletion, and checkouts
are composed with neither stamp cards nor the order's lifecycle: they meet it in the row they create.
PIN digits, salts and expiry are one Boolean: the guess is right or it is not.
Timestamps are left out; a window that may be open or closed (self-cancel) is a free
choice.

Where a model joins steps or allows more than the code, and no property depends on it:
`VerifyRead` is the one read of order and PIN record that a verification makes in several, and a
completion without PIN that finds the record cleared goes on without `completeDelivery`'s second
read; `CancelSource` counts the origin "ADMIN" of an approved request of another source as
"REQUEST"; `Grant` does not look whether the customer is active; `CloseLocation` takes its
sockets out of the room in one step (the in-memory adapter's `leave` waits for nothing) and
finds them in the presence map; `Claim` of an e-mail decides `late`, whose time the code reads just
before (covered by `ProviderForgets`); a checkout that loses its card payment to another is a `Fail` and a
retry, where the code finds the payment's order in its catch and gives the same
answers; `Stale` looks at the wallet only, so a deletion may commit where the code would try again.

Next modules, in this order. The project keeps its runs few (one per question), so
a later module that overlaps an existing one is composed with it, not run beside it.

1. `SavedCart`: saves and merges of both carts beside sign-in and sign-out.
2. `AuthSessions`: rotation of refresh tokens, issue and consumption of codes.
3. `RateLimit`, `SupportTickets`.
4. Time clock and availability beside dispatch; realtime admission; opening hours
   and pricing as operators checked against a reference definition.

Theorems to add with them: single use of a refresh token, no line of a cart lost in a merge.
