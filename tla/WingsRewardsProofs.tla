-------------------------- MODULE WingsRewardsProofs --------------------------
(***************************************************************************)
(* Theorems of WingsRewards, for any customers, orders, grants, workers,   *)
(* cap and cost of a reward.                                               *)
(***************************************************************************)
EXTENDS WingsRewards, TLAPS

CardsInv ==
    /\ TypeOK
    /\ HoldersInv
    /\ CardWithinCap
    /\ LedgerTellsTheCard

-----------------------------------------------------------------------------
(* Ledgers *)

\* An entry that starts from the balance accounts for the one it leaves.
LEMMA AppendAccounts ==
    ASSUME NEW l \in Seq(EntryRow), NEW b \in Int, NEW e \in EntryRow,
           Accounts(l, b), e.after = b + e.delta
    PROVE  Accounts(Append(l, e), e.after)
<1> DEFINE m == Append(l, e)
<1>1. /\ m \in Seq(EntryRow) /\ m # <<>>
      /\ Len(m) = Len(l) + 1 /\ DOMAIN m = 1 .. Len(l) + 1 /\ DOMAIN l = 1 .. Len(l)
      /\ m[Len(l) + 1] = e
      /\ \A i \in 1 .. Len(l) : m[i] = l[i]
      /\ Len(l) \in Nat
  OBVIOUS
<1>2. ASSUME NEW i \in DOMAIN m
      PROVE  m[i].after = (IF i = 1 THEN 0 ELSE m[i - 1].after) + m[i].delta
  <2>1. CASE i \in 1 .. Len(l)
    BY <1>1, <2>1 DEF Accounts
  <2>2. CASE i = Len(l) + 1
    <3>1. CASE l = <<>>
      BY <1>1, <2>2, <3>1 DEF Accounts
    <3>2. CASE l # <<>>
      <4>1. Len(l) \in 1 .. Len(l) /\ i # 1 /\ i - 1 = Len(l)
        BY <1>1, <2>2, <3>2
      <4>2. m[i - 1] = l[Len(l)] /\ b = l[Len(l)].after
        BY <1>1, <4>1, <3>2 DEF Accounts
      <4> QED BY <1>1, <2>2, <4>1, <4>2
    <3> QED BY <3>1, <3>2
  <2> QED BY <1>1, <1>2, <2>1, <2>2
<1> HIDE DEF m
<1>3. e.after = IF m = <<>> THEN 0 ELSE m[Len(m)].after
  BY <1>1
<1> QED BY <1>2, <1>3 DEF Accounts, m

LEMMA NoneUnderId ==
    ASSUME NEW g, UnderId(g) = {}, NEW c \in Customers
    PROVE  \A i \in DOMAIN ledger[c] : ledger[c][i].grant # g
<1> SUFFICES ASSUME NEW i \in DOMAIN ledger[c], ledger[c][i].grant = g
             PROVE  FALSE
  OBVIOUS
<1>1. <<c, i>> \in {c} \X DOMAIN ledger[c]
  OBVIOUS
<1>2. <<c, i>> \in Entries
  BY <1>1 DEF Entries
<1>3. <<c, i>> \in UnderId(g)
  BY <1>2 DEF UnderId
<1> QED BY <1>3

LEMMA SameGrantIsOnTheCard ==
    ASSUME NEW j, SameGrant(j)
    PROVE  \E i \in DOMAIN ledger[j.customer] : ledger[j.customer][i].grant = j.grant
<1> PICK e \in UnderId(j.grant) : e[1] = j.customer
  BY DEF SameGrant
<1>1. e \in Entries /\ ledger[e[1]][e[2]].grant = j.grant
  BY DEF UnderId
<1>2. PICK c \in Customers : e \in {c} \X DOMAIN ledger[c]
  BY <1>1 DEF Entries
<1>3. e[1] = c /\ e[2] \in DOMAIN ledger[c]
  BY <1>2
<1> QED BY <1>1, <1>3

LEMMA EarnedType ==
    ASSUME TypeOK, NEW o \in Orders
    PROVE  EarnedStamps(o) \in Nat
<1>1. order[o].weight \in Nat
  BY DEF TypeOK
<1> QED BY <1>1 DEF EarnedStamps

LEMMA CreditedFacts ==
    ASSUME NEW n \in Nat, NEW b \in Int, b <= Cap
    PROVE  Credited(n, b) \in Nat /\ b + Credited(n, b) <= Cap
BY CardAssumption DEF Credited

-----------------------------------------------------------------------------
(* The two shapes of a step *)

\* Requests of others are left alone, and so are the cards they hold.
Respects(w) ==
    \A v \in Workers \ {w} :
        /\ job'[v] = job[v]
        /\ \A c \in Customers : cardLock[c] = v => /\ cardLock'[c] = v
                                                   /\ card'[c] = card[c]
                                                   /\ ledger'[c] = ledger[c]

\* A step that leaves cards and ledgers as they are.
Quiet(w) ==
    /\ Respects(w)
    /\ UNCHANGED <<card, ledger>>
    /\ job'[w] # Idle => RequestOK(w, job[w])'

\* A commit that gives the card it holds a new balance, and its entry with it.
Commits(w) ==
    LET c == job[w].customer IN
    \E row \in CardRow, e \in EntryRow :
        /\ Respects(w)
        /\ c \in Customers
        /\ card' = [card EXCEPT ![c] = row]
        /\ ledger' = [ledger EXCEPT ![c] = Append(@, e)]
        /\ 0 <= row.stamps /\ row.stamps <= Cap
        /\ e.after = row.stamps
        /\ e.after = card[c].stamps + e.delta
        /\ job'[w] = Idle

LEMMA OthersKeepTheirs ==
    ASSUME CardsInv, NEW w \in Workers, Respects(w),
           job'[w] # Idle => RequestOK(w, job[w])'
    PROVE  HoldersInv'
<1> SUFFICES ASSUME NEW v \in Workers, job'[v] # Idle
             PROVE  RequestOK(v, job[v])'
  BY DEF HoldersInv
<1>1. CASE v = w
  BY <1>1
<1>2. CASE v # w
  <2>1. job'[v] = job[v] /\ job[v] \in JobRow /\ RequestOK(v, job[v])
    BY <1>2 DEF Respects, CardsInv, HoldersInv, TypeOK
  <2>2. HoldsCard(job[v]) =>
           /\ job[v].customer \in Customers
           /\ cardLock[job[v].customer] = v
    BY <2>1 DEF RequestOK
  <2>3. HoldsCard(job[v]) =>
           /\ cardLock'[job[v].customer] = v
           /\ card'[job[v].customer] = card[job[v].customer]
           /\ ledger'[job[v].customer] = ledger[job[v].customer]
    BY <1>2, <2>2 DEF Respects
  <2> QED BY <2>1, <2>3 DEF RequestOK, PhasesOK, HoldsCard
<1> QED BY <1>1, <1>2

LEMMA QuietStep ==
    ASSUME CardsInv, TypeOK', NEW w \in Workers, Quiet(w)
    PROVE  CardsInv'
<1>1. HoldersInv'
  BY OthersKeepTheirs DEF Quiet
<1>2. CardWithinCap' /\ LedgerTellsTheCard'
  BY DEF Quiet, CardsInv, CardWithinCap, LedgerTellsTheCard
<1> QED BY <1>1, <1>2 DEF CardsInv

LEMMA CommitStep ==
    ASSUME CardsInv, TypeOK', NEW w \in Workers, Commits(w)
    PROVE  CardsInv'
<1> DEFINE c == job[w].customer
<1> PICK row \in CardRow, e \in EntryRow :
        /\ Respects(w)
        /\ c \in Customers
        /\ card' = [card EXCEPT ![c] = row]
        /\ ledger' = [ledger EXCEPT ![c] = Append(@, e)]
        /\ 0 <= row.stamps /\ row.stamps <= Cap
        /\ e.after = row.stamps
        /\ e.after = card[c].stamps + e.delta
        /\ job'[w] = Idle
  BY DEF Commits
<1> HIDE DEF c
<1>1. HoldersInv'
  BY OthersKeepTheirs
<1>2. /\ card \in [Customers -> CardRow]
      /\ ledger \in [Customers -> Seq(EntryRow)]
  BY DEF CardsInv, TypeOK
<1>3. CardWithinCap'
  BY <1>2 DEF CardsInv, CardWithinCap
<1>4. LedgerTellsTheCard'
  <2> SUFFICES ASSUME NEW d \in Customers
               PROVE  Accounts(ledger'[d], card'[d].stamps)
    BY DEF LedgerTellsTheCard, Accounts
  <2>1. Accounts(ledger[d], card[d].stamps)
    BY DEF CardsInv, LedgerTellsTheCard
  <2>2. CASE d = c
    <3>1. /\ ledger[c] \in Seq(EntryRow) /\ card[c].stamps \in Int
      BY <1>2 DEF CardRow
    <3>2. Accounts(Append(ledger[c], e), e.after)
      BY <2>1, <2>2, <3>1, AppendAccounts
    <3>3. ledger'[d] = Append(ledger[c], e) /\ card'[d].stamps = e.after
      BY <1>2, <2>2
    <3> QED BY <3>2, <3>3
  <2>3. CASE d # c
    BY <1>2, <2>1, <2>3
  <2> QED BY <2>2, <2>3
<1> QED BY <1>1, <1>3, <1>4 DEF CardsInv
-----------------------------------------------------------------------------
(* Types *)

LEMMA RequestTypes ==
    ASSUME TypeOK, NEW w \in Workers, job[w] # Idle
    PROVE  /\ job[w] \in JobRow
           /\ job[w].customer \in Customers \cup {Guest}
           /\ job[w].order \in Orders \cup {NoOrder}
           /\ job[w].grant \in Grants \cup {NoGrant}
           /\ job[w].stamps \in Nat /\ job[w].weight \in Nat /\ job[w].seen \in Int
           /\ job[w].op \in {"checkout", "complete", "issue", "grant"}
BY DEF TypeOK, JobRow

\* A request that has a phase or an operation is not an idle worker.
LEMMA Working ==
    ASSUME TypeOK, NEW w \in Workers,
           \/ job[w].phase \in {"insert", "claim", "replay", "lock", "locked", "credit", "collision"}
           \/ job[w].op \in {"checkout", "complete", "issue", "grant"}
    PROVE  job[w] # Idle
BY DEF Idle

LEMMA StartTypes ==
    ASSUME TypeOK, NEW w \in Workers, NEW j \in JobRow, Start(w, j)
    PROVE  job' \in [Workers -> JobRow \cup {Idle}]
BY DEF Start, TypeOK

LEMMA JobTypes ==
    ASSUME NEW op \in {"checkout", "complete", "issue", "grant"},
           NEW phase \in {"insert", "claim", "replay", "lock", "locked", "credit", "collision"},
           NEW c \in Customers \cup {Guest}, NEW o \in Orders \cup {NoOrder}
    PROVE  Job(op, phase, c, o) \in JobRow
BY DEF Job, JobRow

LEMMA JobDetails ==
    ASSUME NEW j \in JobRow, NEW n \in Nat
    PROVE  /\ \A redeem \in BOOLEAN : [j EXCEPT !.weight = n, !.redeem = redeem] \in JobRow
           /\ [j EXCEPT !.stamps = n] \in JobRow
           /\ \A g \in Grants : [j EXCEPT !.grant = g, !.stamps = n] \in JobRow
BY DEF JobRow

LEMMA GoTypes ==
    ASSUME TypeOK, NEW w \in Workers, job[w] # Idle,
           NEW phase \in {"insert", "claim", "replay", "lock", "locked", "credit", "collision"},
           Go(w, phase)
    PROVE  job' \in [Workers -> JobRow \cup {Idle}]
<1>1. job[w] \in JobRow
  BY RequestTypes
<1>2. [job[w] EXCEPT !.phase = phase] \in JobRow
  BY <1>1 DEF JobRow
<1> QED BY <1>2 DEF Go, TypeOK

LEMMA FinishTypes ==
    ASSUME TypeOK, NEW w \in Workers, Finish(w)
    PROVE  job' \in [Workers -> JobRow \cup {Idle}]
BY DEF Finish, TypeOK

LEMMA UnlockTypes ==
    ASSUME TypeOK, NEW w \in Workers, Unlock(w)
    PROVE  /\ cardLock' \in [Customers -> Workers \cup {NoWorker}]
           /\ orderLock' \in [Orders -> Workers \cup {NoWorker}]
BY DEF Unlock, TypeOK

LEMMA ArriveTypes ==
    ASSUME TypeOK, NEW w \in Workers, Arrive(w)
    PROVE  TypeOK'
<1>1. ASSUME NEW c \in Customers \cup {Guest}, NEW o \in Orders, NEW weight \in HalfPounds,
             NEW redeem \in BOOLEAN, Checkout(w, c, o, weight, redeem)
      PROVE  TypeOK'
  <2> DEFINE j == [Job("checkout", IF redeem THEN "lock" ELSE "insert", c, o) EXCEPT
                     !.weight = weight, !.redeem = redeem]
  <2>1. j \in JobRow
    <3>1. Job("checkout", IF redeem THEN "lock" ELSE "insert", c, o) \in JobRow
      BY JobTypes
    <3>2. weight \in Nat
      BY CardAssumption
    <3> QED BY ONLY <3>1, <3>2, JobDetails
  <2>2. Start(w, j) /\ UNCHANGED <<data, cardLock, orderLock>>
    BY <1>1 DEF Checkout
  <2> HIDE DEF j
  <2> QED BY <2>1, <2>2, StartTypes DEF TypeOK, data
<1>2. ASSUME NEW o \in Orders, Complete(w, o)
      PROVE  TypeOK'
  <2> DEFINE j == Job("complete", "claim", order[o].customer, o)
  <2>1. j \in JobRow
    BY JobTypes DEF TypeOK
  <2>2. Start(w, j) /\ UNCHANGED <<data, cardLock, orderLock>>
    BY <1>2 DEF Complete
  <2> HIDE DEF j
  <2> QED BY <2>1, <2>2, StartTypes DEF TypeOK, data
<1>3. ASSUME NEW c \in Customers, NEW n \in Stamps, IssueAtTill(w, c, n)
      PROVE  TypeOK'
  <2> DEFINE j == [Job("issue", "lock", c, NoOrder) EXCEPT !.stamps = n]
  <2>1. j \in JobRow
    <3>1. Job("issue", "lock", c, NoOrder) \in JobRow
      BY JobTypes
    <3>2. n \in Nat
      BY CardAssumption
    <3> QED BY ONLY <3>1, <3>2, JobDetails
  <2>2. Start(w, j) /\ UNCHANGED <<data, cardLock, orderLock>>
    BY <1>3 DEF IssueAtTill
  <2> HIDE DEF j
  <2> QED BY <2>1, <2>2, StartTypes DEF TypeOK, data
<1>4. ASSUME NEW c \in Customers, NEW g \in Grants, NEW n \in Stamps, Grant(w, c, g, n)
      PROVE  TypeOK'
  <2> DEFINE j == [Job("grant", "replay", c, NoOrder) EXCEPT !.grant = g, !.stamps = n]
  <2>1. j \in JobRow
    <3>1. Job("grant", "replay", c, NoOrder) \in JobRow
      BY JobTypes
    <3>2. n \in Nat
      BY CardAssumption
    <3> QED BY ONLY <3>1, <3>2, JobDetails
  <2>2. Start(w, j) /\ UNCHANGED <<data, cardLock, orderLock>>
    BY <1>4 DEF Grant
  <2> HIDE DEF j
  <2> QED BY <2>1, <2>2, StartTypes DEF TypeOK, data
<1> QED BY <1>1, <1>2, <1>3, <1>4 DEF Arrive

LEMMA GiveUpTypes ==
    ASSUME TypeOK, NEW w \in Workers, GiveUp(w),
           answer' \in [Grants -> SUBSET {"GRANTED", "CONFLICT", "FULL"}]
    PROVE  TypeOK'
<1>1. Finish(w) /\ Unlock(w) /\ UNCHANGED <<card, ledger, order>>
  BY DEF GiveUp
<1> QED BY <1>1, FinishTypes, UnlockTypes DEF TypeOK

LEMMA AnswerTypes ==
    ASSUME TypeOK, NEW g, NEW a \in {"GRANTED", "CONFLICT", "FULL"}, Answer(g, a)
    PROVE  answer' \in [Grants -> SUBSET {"GRANTED", "CONFLICT", "FULL"}]
BY DEF Answer, TypeOK

\* The row of a new balance and the entry recorded with it.
LEMMA WriteTypes ==
    ASSUME TypeOK, NEW c \in Customers, NEW row \in CardRow, NEW e \in EntryRow,
           card' = [card EXCEPT ![c] = row], Record(c, e)
    PROVE  /\ card' \in [Customers -> CardRow]
           /\ ledger' \in [Customers -> Seq(EntryRow)]
<1>1. Append(ledger[c], e) \in Seq(EntryRow)
  BY DEF TypeOK
<1> QED BY <1>1 DEF TypeOK, Record

-----------------------------------------------------------------------------
(* Commits *)

LEMMA HolderCommits ==
    ASSUME CardsInv, NEW w \in Workers, job[w] # Idle, HoldsCard(job[w]),
           NEW row \in CardRow, NEW e \in EntryRow,
           card' = [card EXCEPT ![job[w].customer] = row],
           Record(job[w].customer, e), Unlock(w), Finish(w),
           0 <= row.stamps, row.stamps <= Cap,
           e.after = row.stamps, e.after = card[job[w].customer].stamps + e.delta
    PROVE  Commits(w)
<1> DEFINE c == job[w].customer
<1>1. c \in Customers /\ cardLock[c] = w
  BY DEF CardsInv, HoldersInv, RequestOK
<1>2. ledger' = [ledger EXCEPT ![c] = Append(@, e)]
  BY DEF Record
<1>3. job'[w] = Idle /\ \A v \in Workers \ {w} : job'[v] = job[v]
  BY DEF Finish, CardsInv, TypeOK
<1>4. Respects(w)
  <2> SUFFICES ASSUME NEW v \in Workers \ {w}, NEW d \in Customers, cardLock[d] = v
               PROVE  cardLock'[d] = v /\ card'[d] = card[d] /\ ledger'[d] = ledger[d]
    BY <1>3 DEF Respects
  <2>1. d # c
    BY <1>1
  <2> QED BY <1>1, <1>2, <2>1 DEF Unlock, CardsInv, TypeOK
<1> QED BY <1>1, <1>2, <1>3, <1>4 DEF Commits

LEMMA RedeemCommits ==
    ASSUME CardsInv, NEW w \in Workers, Redeem(w)
    PROVE  Commits(w)
<1> DEFINE c == job[w].customer
           row == [card[c] EXCEPT !.stamps = @ - Cost, !.redemptions = @ + 1]
           e == Entry("REDEEMED", job[w].order, NoGrant, 0 - Cost, card[c].stamps - Cost)
<1>1. job[w] # Idle /\ HoldsCard(job[w])
  BY Working DEF Redeem, HoldsCard, CardsInv
<1>2. c \in Customers /\ card[c] \in CardRow /\ job[w].order \in Orders \cup {NoOrder}
  BY <1>1, RequestTypes DEF CardsInv, HoldersInv, RequestOK, TypeOK
<1>3. card[c].stamps \in Int /\ card[c].redemptions \in Nat /\ card[c].lifetime \in Nat
  BY <1>2 DEF CardRow
<1>4. row \in CardRow /\ row.stamps = card[c].stamps - Cost
  <2> DEFINE r == card[c]
             x == card[c].stamps - Cost
             y == card[c].redemptions + 1
  <2>1. r \in CardRow /\ x \in Int /\ y \in Nat
    BY <1>2, <1>3, CardAssumption
  <2>2. row = [r EXCEPT !.stamps = x, !.redemptions = y]
    OBVIOUS
  <2> HIDE DEF r, x, y, row
  <2>3. row \in CardRow /\ row.stamps = x
    BY ONLY <2>1, <2>2 DEF CardRow
  <2> QED BY <2>3 DEF x
<1>5. e \in EntryRow /\ e.after = card[c].stamps - Cost /\ e.delta = 0 - Cost
  BY <1>2, <1>3, CardAssumption DEF Entry, EntryRow, Kind
<1>6. card' = [card EXCEPT ![c] = row]
  BY <1>2, <1>3 DEF Redeem, CardsInv, TypeOK
<1>7. Cost <= card[c].stamps /\ card[c].stamps <= Cap
  BY <1>2 DEF Redeem, CanPay, CardsInv, CardWithinCap
<1>8. Record(c, e) /\ Unlock(w) /\ Finish(w)
  BY DEF Redeem
<1> HIDE DEF row, e
<1>9. /\ 0 <= row.stamps /\ row.stamps <= Cap
      /\ e.after = row.stamps /\ e.after = card[c].stamps + e.delta
  BY <1>3, <1>4, <1>5, <1>7, CardAssumption
<1> QED BY <1>1, <1>4, <1>5, <1>6, <1>8, <1>9, HolderCommits

LEMMA AccrueCommits ==
    ASSUME CardsInv, NEW w \in Workers, Accrue(w)
    PROVE  Commits(w) /\ job[w].order \in Orders
<1> DEFINE c == job[w].customer
           earned == EarnedStamps(job[w].order)
           credit == Credited(earned, job[w].seen)
           row == [card[c] EXCEPT !.stamps = @ + credit, !.lifetime = @ + earned]
           e == Entry("EARNED", job[w].order, NoGrant, credit, card[c].stamps + credit)
<1>1. job[w] # Idle /\ HoldsCard(job[w])
  BY Working DEF Accrue, HoldsCard, CardsInv
<1>2. c \in Customers /\ card[c] \in CardRow /\ job[w].seen = card[c].stamps
  BY <1>1 DEF CardsInv, HoldersInv, RequestOK, TypeOK
<1>3. card[c].stamps \in Int /\ card[c].redemptions \in Nat /\ card[c].lifetime \in Nat
  BY <1>2 DEF CardRow
<1>4. job[w].order \in Orders
  BY <1>1 DEF CardsInv, HoldersInv, RequestOK, Accrue
<1>5. earned \in Nat
  BY <1>4, EarnedType DEF CardsInv
<1>6. 0 <= card[c].stamps /\ card[c].stamps <= Cap
  BY <1>2 DEF CardsInv, CardWithinCap
<1>7. credit \in Nat /\ card[c].stamps + credit <= Cap
  BY <1>2, <1>3, <1>5, <1>6, CreditedFacts
<1>8. card' = [card EXCEPT ![c] = row]
  BY <1>2, <1>3 DEF Accrue, CardsInv, TypeOK
<1>9. Record(c, e) /\ Unlock(w) /\ Finish(w)
  BY DEF Accrue
<1> HIDE DEF earned, credit
<1>10. row \in CardRow /\ row.stamps = card[c].stamps + credit
  <2> DEFINE r == card[c]
             x == card[c].stamps + credit
             y == card[c].lifetime + earned
  <2>1. r \in CardRow /\ x \in Int /\ y \in Nat
    BY <1>2, <1>3, <1>5, <1>7
  <2>2. row = [r EXCEPT !.stamps = x, !.lifetime = y]
    OBVIOUS
  <2> HIDE DEF r, x, y, row
  <2>3. row \in CardRow /\ row.stamps = x
    BY ONLY <2>1, <2>2 DEF CardRow
  <2> QED BY <2>3 DEF x
<1>11. e \in EntryRow /\ e.after = card[c].stamps + credit /\ e.delta = credit
  BY <1>3, <1>4, <1>7, CardAssumption DEF Entry, EntryRow, Kind
<1> HIDE DEF row, e
<1>12. /\ 0 <= row.stamps /\ row.stamps <= Cap
       /\ e.after = row.stamps /\ e.after = card[c].stamps + e.delta
  BY <1>3, <1>6, <1>7, <1>10, <1>11
<1>13. Commits(w)
  BY <1>1, <1>8, <1>9, <1>10, <1>11, <1>12, HolderCommits
<1> QED BY <1>4, <1>13

LEMMA GiveCommits ==
    ASSUME CardsInv, NEW w \in Workers, NEW kind \in Kind, NEW g \in Grants \cup {NoGrant},
           job[w] # Idle, HoldsCard(job[w]), Give(w, kind, g), Unlock(w), Finish(w),
           card[job[w].customer].stamps + job[w].stamps <= Cap
    PROVE  Commits(w)
<1> DEFINE c == job[w].customer
           n == job[w].stamps
           row == [card[c] EXCEPT !.stamps = @ + n, !.lifetime = @ + n]
           e == Entry(kind, NoOrder, g, n, card[c].stamps + n)
<1>1. c \in Customers /\ card[c] \in CardRow /\ n \in Nat
  BY RequestTypes DEF CardsInv, HoldersInv, RequestOK, TypeOK
<1>2. card[c].stamps \in Int /\ card[c].redemptions \in Nat /\ card[c].lifetime \in Nat
  BY <1>1 DEF CardRow
<1>3. row \in CardRow /\ row.stamps = card[c].stamps + n
  <2> DEFINE r == card[c]
             x == card[c].stamps + n
             y == card[c].lifetime + n
  <2>1. r \in CardRow /\ x \in Int /\ y \in Nat
    BY <1>1, <1>2
  <2>2. row = [r EXCEPT !.stamps = x, !.lifetime = y]
    OBVIOUS
  <2> HIDE DEF r, x, y, row
  <2>3. row \in CardRow /\ row.stamps = x
    BY ONLY <2>1, <2>2 DEF CardRow
  <2> QED BY <2>3 DEF x
<1>4. e \in EntryRow /\ e.after = card[c].stamps + n /\ e.delta = n
  BY <1>1, <1>2 DEF Entry, EntryRow
<1>5. card' = [card EXCEPT ![c] = row] /\ Record(c, e)
  BY <1>1, <1>2 DEF Give, CardsInv, TypeOK
<1>6. 0 <= card[c].stamps
  BY <1>1 DEF CardsInv, CardWithinCap
<1> HIDE DEF row, e
<1>7. /\ 0 <= row.stamps /\ row.stamps <= Cap
      /\ e.after = row.stamps /\ e.after = card[c].stamps + e.delta
  BY <1>1, <1>2, <1>3, <1>4, <1>6
<1> QED BY <1>3, <1>4, <1>5, <1>7, HolderCommits

LEMMA IssueCommits ==
    ASSUME CardsInv, NEW w \in Workers, CommitIssue(w)
    PROVE  Commits(w)
<1>1. job[w] # Idle /\ HoldsCard(job[w])
  BY Working DEF CommitIssue, HoldsCard, CardsInv
<1>2. /\ job[w].seen = card[job[w].customer].stamps
      /\ job[w].customer \in Customers /\ job[w].stamps \in Nat
  BY <1>1, RequestTypes DEF CardsInv, HoldersInv, RequestOK
<1>3. card[job[w].customer].stamps \in Int
  BY <1>2 DEF CardsInv, TypeOK, CardRow
<1>4. card[job[w].customer].stamps + job[w].stamps <= Cap
  BY <1>2, <1>3, CardAssumption DEF CommitIssue
<1>5. Give(w, "EARNED", NoGrant) /\ Unlock(w) /\ Finish(w)
  BY DEF CommitIssue
<1> QED BY <1>1, <1>4, <1>5, GiveCommits DEF Kind

LEMMA GrantCommits ==
    ASSUME CardsInv, NEW w \in Workers, CommitGrant(w)
    PROVE  Commits(w)
<1>1. job[w] # Idle /\ HoldsCard(job[w])
  BY Working DEF CommitGrant, HoldsCard, CardsInv
<1>2. /\ job[w].customer \in Customers /\ job[w].stamps \in Nat
      /\ job[w].grant \in Grants \cup {NoGrant}
  BY <1>1, RequestTypes DEF CardsInv, HoldersInv, RequestOK
<1>3. card[job[w].customer].stamps \in Int
  BY <1>2 DEF CardsInv, TypeOK, CardRow
<1>4. card[job[w].customer].stamps + job[w].stamps <= Cap
  BY <1>2, <1>3, CardAssumption DEF CommitGrant, HasRoom
<1>5. Give(w, "ADMIN_GRANTED", job[w].grant) /\ Unlock(w) /\ Finish(w)
  BY DEF CommitGrant
<1> QED BY <1>1, <1>2, <1>4, <1>5, GiveCommits DEF Kind

LEMMA CommitTypes ==
    ASSUME CardsInv, NEW w \in Workers, Commits(w)
    PROVE  /\ card' \in [Customers -> CardRow]
           /\ ledger' \in [Customers -> Seq(EntryRow)]
<1> PICK row \in CardRow, e \in EntryRow :
       /\ job[w].customer \in Customers
       /\ card' = [card EXCEPT ![job[w].customer] = row]
       /\ ledger' = [ledger EXCEPT ![job[w].customer] = Append(@, e)]
  BY DEF Commits
<1> QED BY WriteTypes DEF Record, CardsInv

LEMMA CompletedTypes ==
    ASSUME TypeOK, NEW o, Completed(o)
    PROVE  order' \in [Orders -> [status : OrderStatus, customer : Customers \cup {Guest},
                                 weight : Nat]]
<1> DEFINE Row == [status : OrderStatus, customer : Customers \cup {Guest}, weight : Nat]
<1>1. order \in [Orders -> Row]
  BY DEF TypeOK
<1>2. \A r \in Row : [r EXCEPT !.status = "COMPLETED"] \in Row
  BY DEF OrderStatus
<1>3. order' = [order EXCEPT ![o] = [order[o] EXCEPT !.status = "COMPLETED"]]
  BY DEF Completed
<1> HIDE DEF Row
<1>4. order' \in [Orders -> Row]
  BY <1>1, <1>2, <1>3
<1> QED BY <1>4 DEF Row

LEMMA ProgressTypes ==
    ASSUME CardsInv, TypeOK, HoldersInv, NEW w \in Workers, Progress(w)
    PROVE  TypeOK'
<1> DEFINE c == job[w].customer
<1> HIDE DEF c
<1>1. CASE LockCard(w)
  <2>1. job[w] # Idle /\ c \in Customers
    BY <1>1, Working DEF LockCard, HoldersInv, RequestOK, c
  <2>2. job[w] \in JobRow /\ card[c].stamps \in Int
    BY <2>1, RequestTypes DEF TypeOK, CardRow
  <2>3. [job[w] EXCEPT !.phase = "locked", !.seen = card[c].stamps] \in JobRow
    BY <2>2 DEF JobRow
  <2>4. job' \in [Workers -> JobRow \cup {Idle}]
    BY <1>1, <2>3 DEF LockCard, TypeOK, c
  <2>5. cardLock' \in [Customers -> Workers \cup {NoWorker}]
    BY <1>1 DEF LockCard, TakesLock, TypeOK
  <2> QED BY <1>1, <2>4, <2>5 DEF LockCard, data, TypeOK
<1>2. CASE CommitOrder(w)
  <2>1. job[w] # Idle
    BY <1>2, Working DEF CommitOrder
  <2>2. /\ job[w].customer \in Customers \cup {Guest}
        /\ job[w].weight \in Nat
    BY <2>1, RequestTypes
  <2>3. order' \in [Orders -> [status : OrderStatus, customer : Customers \cup {Guest},
                               weight : Nat]]
    BY <1>2, <2>2 DEF CommitOrder, InsertOrder, TypeOK, OrderStatus
  <2>4. job' \in [Workers -> JobRow \cup {Idle}]
    BY <1>2, FinishTypes DEF CommitOrder
  <2> QED BY <1>2, <2>3, <2>4 DEF CommitOrder, TypeOK
<1>3. CASE RefuseRedeem(w) \/ OrderConflict(w) \/ RefuseIssue(w)
  <2>1. GiveUp(w) /\ UNCHANGED answer
    BY <1>3 DEF RefuseRedeem, OrderConflict, RefuseIssue
  <2> QED BY <2>1, GiveUpTypes DEF TypeOK
<1>4. CASE ClaimOrder(w)
  <2>1. job[w] # Idle
    BY <1>4, Working DEF ClaimOrder
  <2>2. order' \in [Orders -> [status : OrderStatus, customer : Customers \cup {Guest},
                               weight : Nat]]
    BY <1>4, CompletedTypes DEF ClaimOrder, TypeOK
  <2>3. job' \in [Workers -> JobRow \cup {Idle}]
    BY <1>4, <2>1, FinishTypes, GoTypes DEF ClaimOrder
  <2>4. orderLock' \in [Orders -> Workers \cup {NoWorker}]
    BY <1>4 DEF ClaimOrder, TypeOK
  <2> QED BY <1>4, <2>2, <2>3, <2>4 DEF ClaimOrder, TypeOK
<1>5. CASE ReplayGrant(w) \/ RefuseGrant(w)
  <2>1. GiveUp(w)
    BY <1>5 DEF ReplayGrant, RefuseGrant
  <2>2. /\ ReplayAnswer(job[w]) \in {"GRANTED", "CONFLICT", "FULL"}
        /\ \/ Answer(job[w].grant, ReplayAnswer(job[w]))
           \/ Answer(job[w].grant, "FULL")
    BY <1>5 DEF ReplayGrant, RefuseGrant, ReplayAnswer
  <2> QED BY <2>1, <2>2, GiveUpTypes, AnswerTypes
<1>6. CASE NewGrant(w)
  <2>1. job[w] # Idle
    BY <1>6, Working DEF NewGrant
  <2>2. job' \in [Workers -> JobRow \cup {Idle}]
    BY <1>6, <2>1, GoTypes DEF NewGrant
  <2> QED BY <1>6, <2>2 DEF NewGrant, data, TypeOK
<1>7. CASE CollideGrant(w)
  <2>1. job[w] # Idle
    BY <1>7, Working DEF CollideGrant
  <2>2. job' \in [Workers -> JobRow \cup {Idle}]
    BY <1>7, <2>1, GoTypes DEF CollideGrant
  <2> QED BY <1>7, <2>2, UnlockTypes DEF CollideGrant, data, TypeOK
<1>8. CASE Redeem(w)
  <2>1. card' \in [Customers -> CardRow] /\ ledger' \in [Customers -> Seq(EntryRow)]
    BY <1>8, RedeemCommits, CommitTypes
  <2>2. job[w] # Idle
    BY <1>8, Working DEF Redeem
  <2>3. /\ job[w].customer \in Customers \cup {Guest}
        /\ job[w].weight \in Nat
    BY <2>2, RequestTypes
  <2>4. order' \in [Orders -> [status : OrderStatus, customer : Customers \cup {Guest},
                               weight : Nat]]
    BY <1>8, <2>3 DEF Redeem, InsertOrder, TypeOK, OrderStatus
  <2>5. Unlock(w) /\ Finish(w) /\ UNCHANGED answer
    BY <1>8 DEF Redeem
  <2> QED BY <2>1, <2>4, <2>5, FinishTypes, UnlockTypes DEF TypeOK
<1>9. CASE Accrue(w)
  <2>1. card' \in [Customers -> CardRow] /\ ledger' \in [Customers -> Seq(EntryRow)]
    BY <1>9, AccrueCommits, CommitTypes
  <2>2. order' \in [Orders -> [status : OrderStatus, customer : Customers \cup {Guest},
                               weight : Nat]]
    BY <1>9, CompletedTypes DEF Accrue
  <2>3. Unlock(w) /\ Finish(w) /\ UNCHANGED answer
    BY <1>9 DEF Accrue
  <2> QED BY <2>1, <2>2, <2>3, FinishTypes, UnlockTypes DEF TypeOK
<1>10. CASE CommitIssue(w)
  <2>1. card' \in [Customers -> CardRow] /\ ledger' \in [Customers -> Seq(EntryRow)]
    BY <1>10, IssueCommits, CommitTypes
  <2>2. Unlock(w) /\ Finish(w) /\ UNCHANGED <<answer, order>>
    BY <1>10 DEF CommitIssue, Give
  <2> QED BY <2>1, <2>2, FinishTypes, UnlockTypes DEF TypeOK
<1>11. CASE CommitGrant(w)
  <2>1. card' \in [Customers -> CardRow] /\ ledger' \in [Customers -> Seq(EntryRow)]
    BY <1>11, GrantCommits, CommitTypes
  <2>2. Unlock(w) /\ Finish(w) /\ UNCHANGED order /\ Answer(job[w].grant, "GRANTED")
    BY <1>11 DEF CommitGrant, Give
  <2> QED BY <2>1, <2>2, FinishTypes, UnlockTypes, AnswerTypes DEF TypeOK
<1> QED
  BY <1>1, <1>2, <1>3, <1>4, <1>5, <1>6, <1>7, <1>8, <1>9, <1>10, <1>11 DEF Progress

LEMMA TypeStep ==
    ASSUME CardsInv, [Next]_vars
    PROVE  TypeOK'
<1>1. CASE UNCHANGED vars
  BY <1>1 DEF CardsInv, TypeOK, vars
<1>2. ASSUME NEW w \in Workers, Arrive(w) \/ Progress(w)
      PROVE  TypeOK'
  BY <1>2, ArriveTypes, ProgressTypes DEF CardsInv
<1>3. ASSUME NEW w \in Workers, Crash(w)
      PROVE  TypeOK'
  BY <1>3, GiveUpTypes DEF Crash, CardsInv, TypeOK
<1>4. ASSUME NEW o \in Orders, CloseOrder(o)
      PROVE  TypeOK'
  <2> DEFINE Row == [status : OrderStatus, customer : Customers \cup {Guest}, weight : Nat]
  <2>1. order \in [Orders -> Row] /\ order[o] \in Row
    BY DEF CardsInv, TypeOK
  <2>2. [order[o] EXCEPT !.status = "CLOSED"] \in Row
    BY <2>1 DEF OrderStatus
  <2>3. order' = [order EXCEPT ![o] = [order[o] EXCEPT !.status = "CLOSED"]]
    BY <1>4 DEF CloseOrder
  <2> HIDE DEF Row
  <2>4. order' \in [Orders -> Row]
    BY <2>1, <2>2, <2>3
  <2> QED BY <1>4, <2>4 DEF CloseOrder, CardsInv, TypeOK, Row
<1> QED BY <1>1, <1>2, <1>3, <1>4 DEF Next

-----------------------------------------------------------------------------
(* Quiet steps *)

LEMMA QuietEnd ==
    ASSUME CardsInv, NEW w \in Workers, Finish(w), UNCHANGED <<card, ledger>>,
           Unlock(w) \/ UNCHANGED cardLock
    PROVE  Quiet(w)
<1>1. job'[w] = Idle /\ \A v \in Workers \ {w} : job'[v] = job[v]
  BY DEF Finish, CardsInv, TypeOK
<1>2. \A c \in Customers : cardLock[c] # w => cardLock'[c] = cardLock[c]
  BY DEF Unlock, CardsInv, TypeOK
<1> QED BY <1>1, <1>2 DEF Quiet, Respects

\* A request that holds no card yet, or none any more.
LEMMA QuietGo ==
    ASSUME CardsInv, NEW w \in Workers, NEW j, job' = [job EXCEPT ![w] = j],
           UNCHANGED <<card, ledger>>, Unlock(w) \/ UNCHANGED cardLock,
           PhasesOK(j), ~ HoldsCard(j),
           j.op \in {"checkout", "complete"} => j.order \in Orders,
           j.op = "grant" => j.grant \in Grants,
           j.op \in {"issue", "grant"} \/ j.phase = "lock" => j.customer \in Customers
    PROVE  Quiet(w)
<1>1. job'[w] = j /\ \A v \in Workers \ {w} : job'[v] = job[v]
  BY DEF CardsInv, TypeOK
<1>2. \A c \in Customers : cardLock[c] # w => cardLock'[c] = cardLock[c]
  BY DEF Unlock, CardsInv, TypeOK
<1>3. RequestOK(w, j)'
  BY DEF RequestOK, HoldsCard
<1>4. RequestOK(w, job[w])'
  BY <1>1, <1>3
<1> QED BY <1>1, <1>2, <1>4 DEF Quiet, Respects

LEMMA ArriveQuiet ==
    ASSUME CardsInv, NEW w \in Workers, Arrive(w)
    PROVE  Quiet(w)
<1>1. ASSUME NEW c \in Customers \cup {Guest}, NEW o \in Orders, NEW weight \in HalfPounds,
             NEW redeem \in BOOLEAN, Checkout(w, c, o, weight, redeem)
      PROVE  Quiet(w)
  <2> DEFINE j == [Job("checkout", IF redeem THEN "lock" ELSE "insert", c, o) EXCEPT
                     !.weight = weight, !.redeem = redeem]
  <2>1. /\ j.op = "checkout" /\ j.customer = c /\ j.order = o
        /\ j.phase = IF redeem THEN "lock" ELSE "insert"
    BY DEF Job
  <2>2. job' = [job EXCEPT ![w] = j] /\ UNCHANGED <<card, ledger, cardLock>>
    BY <1>1 DEF Checkout, Start, data
  <2>3. redeem => c \in Customers
    BY <1>1 DEF Checkout
  <2> HIDE DEF j
  <2> QED BY <2>1, <2>2, <2>3, QuietGo DEF PhasesOK, HoldsCard
<1>2. ASSUME NEW o \in Orders, Complete(w, o)
      PROVE  Quiet(w)
  <2> DEFINE j == Job("complete", "claim", order[o].customer, o)
  <2>1. j.op = "complete" /\ j.order = o /\ j.phase = "claim"
    BY DEF Job
  <2>2. job' = [job EXCEPT ![w] = j] /\ UNCHANGED <<card, ledger, cardLock>>
    BY <1>2 DEF Complete, Start, data
  <2> HIDE DEF j
  <2> QED BY <2>1, <2>2, QuietGo DEF PhasesOK, HoldsCard
<1>3. ASSUME NEW c \in Customers, NEW n \in Stamps, IssueAtTill(w, c, n)
      PROVE  Quiet(w)
  <2> DEFINE j == [Job("issue", "lock", c, NoOrder) EXCEPT !.stamps = n]
  <2>1. j.op = "issue" /\ j.customer = c /\ j.phase = "lock"
    BY DEF Job
  <2>2. job' = [job EXCEPT ![w] = j] /\ UNCHANGED <<card, ledger, cardLock>>
    BY <1>3 DEF IssueAtTill, Start, data
  <2> HIDE DEF j
  <2> QED BY <2>1, <2>2, QuietGo DEF PhasesOK, HoldsCard
<1>4. ASSUME NEW c \in Customers, NEW g \in Grants, NEW n \in Stamps, Grant(w, c, g, n)
      PROVE  Quiet(w)
  <2> DEFINE j == [Job("grant", "replay", c, NoOrder) EXCEPT !.grant = g, !.stamps = n]
  <2>1. j.op = "grant" /\ j.customer = c /\ j.phase = "replay" /\ j.grant = g
    BY DEF Job
  <2>2. job' = [job EXCEPT ![w] = j] /\ UNCHANGED <<card, ledger, cardLock>>
    BY <1>4 DEF Grant, Start, data
  <2> HIDE DEF j
  <2> QED BY <2>1, <2>2, QuietGo DEF PhasesOK, HoldsCard
<1> QED BY <1>1, <1>2, <1>3, <1>4 DEF Arrive

LEMMA GoQuiet ==
    ASSUME CardsInv, NEW w \in Workers, job[w] # Idle,
           NEW phase \in {"lock", "collision"}, Go(w, phase),
           UNCHANGED <<card, ledger>>, Unlock(w) \/ UNCHANGED cardLock,
           \/ job[w].op = "complete" /\ phase = "lock" /\ job[w].customer \in Customers
           \/ job[w].op = "grant"
    PROVE  Quiet(w)
<1> DEFINE j == [job[w] EXCEPT !.phase = phase]
<1>1. job[w] \in JobRow /\ RequestOK(w, job[w])
  BY RequestTypes DEF CardsInv, HoldersInv
<1>2. /\ j.op = job[w].op /\ j.phase = phase
      /\ j.customer = job[w].customer /\ j.order = job[w].order /\ j.grant = job[w].grant
  BY <1>1 DEF JobRow
<1>3. job' = [job EXCEPT ![w] = j]
  BY DEF Go
<1> HIDE DEF j
<1> QED BY <1>1, <1>2, <1>3, QuietGo DEF RequestOK, PhasesOK, HoldsCard

LEMMA LockQuiet ==
    ASSUME CardsInv, NEW w \in Workers, LockCard(w)
    PROVE  Quiet(w)
<1> DEFINE c == job[w].customer
<1> PICK j : j = [job[w] EXCEPT !.phase = "locked", !.seen = card[c].stamps]
  OBVIOUS
<1>1. job[w] # Idle
  BY Working DEF LockCard, CardsInv
<1>2. job[w] \in JobRow /\ RequestOK(w, job[w])
  BY <1>1, RequestTypes DEF CardsInv, HoldersInv
<1>3. /\ j.op = job[w].op /\ j.phase = "locked" /\ j.seen = card[c].stamps
      /\ j.customer = c /\ j.order = job[w].order /\ j.grant = job[w].grant
  BY <1>2 DEF JobRow
<1>4. job' = [job EXCEPT ![w] = j] /\ UNCHANGED <<card, ledger>>
  BY DEF LockCard, data
<1>5. job'[w] = j /\ \A v \in Workers \ {w} : job'[v] = job[v]
  BY <1>4 DEF CardsInv, TypeOK
<1>6. c \in Customers /\ cardLock[c] = NoWorker /\ cardLock' = [cardLock EXCEPT ![c] = w]
  BY <1>2 DEF LockCard, TakesLock, RequestOK
<1>7. cardLock'[c] = w /\ \A d \in Customers : cardLock[d] # NoWorker => cardLock'[d] = cardLock[d]
  BY <1>6 DEF CardsInv, TypeOK
<1>8. Respects(w)
  BY <1>4, <1>5, <1>7, CardAssumption DEF Respects
<1>9. RequestOK(w, j)'
  BY <1>2, <1>3, <1>4, <1>6, <1>7 DEF RequestOK, PhasesOK, HoldsCard, LockCard
<1> QED BY <1>4, <1>5, <1>8, <1>9 DEF Quiet

\* The second lookup finds no entry under the id, least of all on this card.
LEMMA NewGrantQuiet ==
    ASSUME CardsInv, NEW w \in Workers, NewGrant(w)
    PROVE  Quiet(w)
<1>1. job[w] # Idle
  BY Working DEF NewGrant, CardsInv
<1>2. CASE job[w].phase = "replay"
  BY <1>1, <1>2, GoQuiet DEF NewGrant, data
<1>3. CASE job[w].phase # "replay"
  <2> PICK j : j = [job[w] EXCEPT !.phase = "credit"]
    OBVIOUS
  <2>1. job[w] \in JobRow /\ RequestOK(w, job[w])
    BY <1>1, RequestTypes DEF CardsInv, HoldersInv
  <2>2. /\ j.op = job[w].op /\ j.phase = "credit" /\ j.seen = job[w].seen
        /\ j.customer = job[w].customer /\ j.order = job[w].order /\ j.grant = job[w].grant
    BY <2>1 DEF JobRow
  <2>3. job' = [job EXCEPT ![w] = j] /\ UNCHANGED <<card, ledger, cardLock>>
    BY <1>3 DEF NewGrant, Go, data
  <2>4. job'[w] = j /\ \A v \in Workers \ {w} : job'[v] = job[v]
    BY <2>3 DEF CardsInv, TypeOK
  <2>5. job[w].phase = "locked" /\ job[w].op = "grant" /\ UnderId(job[w].grant) = {}
    BY <1>3 DEF NewGrant, NotYetGranted
  <2>6. job[w].customer \in Customers
    BY <2>1, <2>5 DEF RequestOK
  <2>7. \A i \in DOMAIN ledger[job[w].customer] :
           ledger[job[w].customer][i].grant # job[w].grant
    BY <2>5, <2>6, NoneUnderId
  <2>8. RequestOK(w, j)'
    BY <2>1, <2>2, <2>3, <2>5, <2>6, <2>7 DEF RequestOK, PhasesOK, HoldsCard
  <2> QED BY <2>3, <2>4, <2>8 DEF Quiet, Respects
<1> QED BY <1>2, <1>3

LEMMA ProgressSteps ==
    ASSUME CardsInv, NEW w \in Workers, Progress(w)
    PROVE  Quiet(w) \/ Commits(w)
<1>1. CASE LockCard(w)
  BY <1>1, LockQuiet
<1>2. CASE \/ CommitOrder(w) \/ RefuseRedeem(w) \/ OrderConflict(w)
           \/ RefuseIssue(w) \/ ReplayGrant(w) \/ RefuseGrant(w)
  <2>1. Finish(w) /\ UNCHANGED <<card, ledger>> /\ (Unlock(w) \/ UNCHANGED cardLock)
    BY <1>2 DEF CommitOrder, RefuseRedeem, OrderConflict, RefuseIssue, ReplayGrant,
                RefuseGrant, GiveUp
  <2> QED BY <2>1, QuietEnd
<1>3. CASE ClaimOrder(w)
  <2>1. UNCHANGED <<card, ledger, cardLock>>
    BY <1>3 DEF ClaimOrder
  <2>2. job[w] # Idle
    BY <1>3, Working DEF ClaimOrder, CardsInv
  <2>3. RequestOK(w, job[w]) /\ job[w].op \in {"checkout", "complete", "issue", "grant"}
    BY <2>2, RequestTypes DEF CardsInv, HoldersInv
  <2>4. job[w].op = "complete" /\ job[w].customer \in Customers \cup {Guest}
    BY <1>3, <2>2, <2>3, RequestTypes DEF ClaimOrder, RequestOK, PhasesOK, CardsInv
  <2>5. Finish(w) \/ (Go(w, "lock") /\ job[w].customer \in Customers)
    BY <1>3, <2>4 DEF ClaimOrder
  <2> QED BY <2>1, <2>2, <2>4, <2>5, QuietEnd, GoQuiet
<1>4. CASE NewGrant(w)
  BY <1>4, NewGrantQuiet
<1>5. CASE CollideGrant(w)
  <2>1. job[w] # Idle
    BY <1>5, Working DEF CollideGrant, CardsInv
  <2>2. RequestOK(w, job[w]) /\ job[w].op \in {"checkout", "complete", "issue", "grant"}
    BY <2>1, RequestTypes DEF CardsInv, HoldersInv
  <2>3. job[w].op = "grant"
    BY <1>5, <2>2 DEF CollideGrant, RequestOK, PhasesOK
  <2> QED BY <1>5, <2>1, <2>3, GoQuiet DEF CollideGrant, data
<1>6. CASE Redeem(w) \/ Accrue(w) \/ CommitIssue(w) \/ CommitGrant(w)
  BY <1>6, RedeemCommits, AccrueCommits, IssueCommits, GrantCommits
<1> QED BY <1>1, <1>2, <1>3, <1>4, <1>5, <1>6 DEF Progress

-----------------------------------------------------------------------------
(* Theorems *)

LEMMA CardsInit == ASSUME Init PROVE CardsInv
<1>1. TypeOK
  <2>1. <<>> \in Seq(EntryRow)
    OBVIOUS
  <2> QED BY <2>1, CardAssumption DEF Init, TypeOK, CardRow, OrderStatus
<1>2. HoldersInv
  BY DEF Init, HoldersInv
<1>3. CardWithinCap /\ LedgerTellsTheCard
  BY CardAssumption DEF Init, CardWithinCap, LedgerTellsTheCard, Accounts
<1> QED BY <1>1, <1>2, <1>3 DEF CardsInv

LEMMA CardsStep == ASSUME CardsInv, [Next]_vars PROVE CardsInv'
<1>1. TypeOK'
  BY TypeStep
<1>2. ASSUME NEW w \in Workers, Arrive(w) \/ Progress(w)
      PROVE  CardsInv'
  BY <1>1, <1>2, ArriveQuiet, ProgressSteps, QuietStep, CommitStep
<1>3. ASSUME NEW w \in Workers, Crash(w)
      PROVE  CardsInv'
  BY <1>1, <1>3, QuietEnd, QuietStep DEF Crash, GiveUp
<1>4. ASSUME NEW o \in Orders, CloseOrder(o)
      PROVE  CardsInv'
  BY <1>1, <1>4 DEF CloseOrder, CardsInv, HoldersInv, RequestOK, PhasesOK, HoldsCard,
                    CardWithinCap, LedgerTellsTheCard
<1>5. CASE UNCHANGED vars
  BY <1>1, <1>5 DEF vars, CardsInv, HoldersInv, RequestOK, PhasesOK, HoldsCard,
                    CardWithinCap, LedgerTellsTheCard
<1> QED BY <1>2, <1>3, <1>4, <1>5 DEF Next

\* However checkouts, completions, grants and issues interleave, fail and are
\* retried, rows keep their types, a card stays within its cap, and its ledger
\* accounts for it entry by entry.
THEOREM CardsAreSafe ==
    Spec => [](TypeOK /\ HoldersInv /\ CardWithinCap /\ LedgerTellsTheCard)
<1>1. CardsInv => TypeOK /\ HoldersInv /\ CardWithinCap /\ LedgerTellsTheCard
  BY DEF CardsInv
<1> QED BY <1>1, CardsInit, CardsStep, PTL DEF Spec

LEMMA OnlyRefusalsSayFull ==
    ASSUME CardsInv, [Next]_vars
    PROVE  \/ \A g \in Grants : "FULL" \notin answer'[g] \ answer[g]
           \/ \E v \in Workers : RefuseGrant(v)
<1> SUFFICES ASSUME \A v \in Workers : ~ RefuseGrant(v), NEW g \in Grants
             PROVE  "FULL" \notin answer'[g] \ answer[g]
  OBVIOUS
<1>1. ASSUME NEW h, NEW a, a # "FULL", Answer(h, a)
      PROVE  "FULL" \notin answer'[g] \ answer[g]
  BY <1>1 DEF Answer, CardsInv, TypeOK
<1>2. CASE UNCHANGED answer
  BY <1>2
<1>3. ASSUME NEW v \in Workers, Progress(v)
      PROVE  "FULL" \notin answer'[g] \ answer[g]
  <2>1. CASE ReplayGrant(v)
    BY <1>1, <2>1 DEF ReplayGrant, ReplayAnswer
  <2>2. CASE CommitGrant(v)
    BY <1>1, <2>2 DEF CommitGrant
  <2>3. CASE ~ ReplayGrant(v) /\ ~ CommitGrant(v)
    <3>1. UNCHANGED answer
      BY <1>3, <2>3 DEF Progress, LockCard, CommitOrder, Redeem, RefuseRedeem, ClaimOrder,
           OrderConflict, Accrue, CommitIssue, RefuseIssue, NewGrant, CollideGrant, data
    <3> QED BY <1>2, <3>1
  <2> QED BY <2>1, <2>2, <2>3
<1>4. ASSUME \/ \E v \in Workers : Arrive(v) \/ Crash(v)
             \/ \E o \in Orders : CloseOrder(o)
             \/ UNCHANGED vars
      PROVE  "FULL" \notin answer'[g] \ answer[g]
  <2>1. UNCHANGED answer
    BY <1>4 DEF Arrive, Checkout, Complete, IssueAtTill, Grant, Crash, CloseOrder, vars, data
  <2> QED BY <1>2, <2>1
<1> QED BY <1>3, <1>4 DEF Next

\* The cap on stamps holds of every card, whoever writes it.
THEOREM CardsAreCapped == Spec => []CardWithinCap
BY CardsAreSafe, PTL

\* Each entry of a card's ledger leads from one balance to the next, and the last to
\* the card's.
THEOREM CardsAreAccounted == Spec => []LedgerTellsTheCard
BY CardsAreSafe, PTL

\* Cards, entries and orders are well typed.
THEOREM CardsAreTyped == Spec => []TypeOK
BY CardsAreSafe, PTL

\* A retry of a grant that is already on the card is never refused for lack of
\* room: only a request that found no entry under its id, while holding the
\* card, can be.
THEOREM RetriesAnswered == Spec => RetriesWorkOnFullCards
<1> DEFINE Retried(w) ==
             /\ job[w] # Idle /\ job'[w] = Idle
             /\ job[w].op = "grant" /\ SameGrant(job[w])
             => "FULL" \notin answer'[job[w].grant] \ answer[job[w].grant]
<1>1. ASSUME CardsInv, [Next]_vars, NEW w \in Workers
      PROVE  Retried(w)
  <2> SUFFICES ASSUME job[w] # Idle, job'[w] = Idle, job[w].op = "grant", SameGrant(job[w]),
                      NEW v \in Workers, RefuseGrant(v)
               PROVE  FALSE
    BY <1>1, OnlyRefusalsSayFull DEF CardsInv, HoldersInv, RequestOK
  <2>1. v = w
    BY <1>1 DEF RefuseGrant, GiveUp, Finish, CardsInv, TypeOK
  <2>2. RequestOK(w, job[w]) /\ job[w].phase = "credit"
    BY <1>1, <2>1 DEF RefuseGrant, CardsInv, HoldersInv
  <2>3. \A i \in DOMAIN ledger[job[w].customer] :
           ledger[job[w].customer][i].grant # job[w].grant
    BY <2>2 DEF RequestOK
  <2> QED BY <2>3, SameGrantIsOnTheCard
<1>2. CardsInv /\ [Next]_vars => [\A w \in Workers : Retried(w)]_vars
  BY <1>1
<1> HIDE DEF Retried
<1>3. Spec => [][\A w \in Workers : Retried(w)]_vars
  BY <1>2, CardsInit, CardsStep, PTL DEF Spec
<1> USE DEF Retried
<1> QED BY <1>3 DEF RetriesWorkOnFullCards
=============================================================================
