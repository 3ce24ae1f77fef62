-------------------------- MODULE StampProgramProofs --------------------------
(***************************************************************************)
(* Theorems of WingsRewards about orders, their entries in the ledgers and *)
(* the grants: every order earns and redeems as it should, a grant is made *)
(* once, and all transactions together implement StampProgram.             *)
(***************************************************************************)
EXTENDS WingsRewardsProofs, FiniteSetTheorems

AtMostOne(S) == \A x, y \in S : x = y

Status(o) == order[o].status
Free(o) == IF OfOrder(o, "REDEEMED") # {} THEN 2 ELSE 0

\* The entries of an order, and what its status says of them.
OrderOK(o) ==
    LET earned == OfOrder(o, "EARNED")
        redeemed == OfOrder(o, "REDEEMED")
    IN  /\ AtMostOne(earned) /\ AtMostOne(redeemed)
        /\ \A e \in earned \cup redeemed : e[1] = order[o].customer
        /\ earned # {} => Status(o) = "COMPLETED"
        /\ redeemed # {} => Status(o) # "NONE" /\ order[o].weight >= 2
        /\ \A e \in earned : 2 * ledger[e[1]][e[2]].delta + Free(o) <= order[o].weight
        /\ Status(o) = "COMPLETED" /\ order[o].customer # Guest
           /\ order[o].weight - Free(o) >= 2
           => earned # {}

IsCheckout(w) == job[w] # Idle /\ job[w].op = "checkout"

\* A checkout's order is nobody else's; a completion holds an order that is
\* still open from its claim on. Stamps given by hand are more than none.
ServesOK(w) ==
    LET j == job[w] o == job[w].order IN
    /\ j.op = "checkout" =>
          /\ Status(o) = "NONE"
          /\ j.phase \in {"lock", "locked"} => j.weight >= 2
          /\ \A v \in Workers \ {w} : IsCheckout(v) => job[v].order # o
    /\ j.op = "complete" =>
          /\ Status(o) # "NONE"
          /\ j.customer = order[o].customer
          /\ j.phase \in {"lock", "locked"} => orderLock[o] = w /\ Status(o) = "OPEN"
    /\ j.op \in {"issue", "grant"} => j.stamps > 0

GrantOK(g) == AtMostOne(UnderId(g)) /\ ("GRANTED" \in answer[g] => UnderId(g) # {})

OrdersInv == \A o \in Orders : OrderOK(o)
ServedInv == \A w \in Workers : job[w] # Idle => ServesOK(w)
GrantsInv == \A g \in Grants : GrantOK(g)

StampsInv == CardsInv /\ OrdersInv /\ ServedInv /\ GrantsInv

-----------------------------------------------------------------------------
(* Entries *)

Row(x) == ledger[x[1]][x[2]]

LEMMA EntryFacts ==
    ASSUME NEW x \in Entries
    PROVE  x[1] \in Customers /\ x[2] \in DOMAIN ledger[x[1]] /\ x = <<x[1], x[2]>>
<1> PICK c \in Customers : x \in {c} \X DOMAIN ledger[c]
  BY DEF Entries
<1> QED OBVIOUS

\* An entry is added to a ledger at its end.
LEMMA RecordEntry ==
    ASSUME TypeOK, NEW c \in Customers, NEW e, Record(c, e)
    PROVE  \E x \in Entries' :
              /\ x[1] = c /\ Row(x)' = e
              /\ Entries' = Entries \cup {x}
              /\ \A y \in Entries : Row(y)' = Row(y)
<1> PICK n : n = Len(ledger[c]) + 1
  OBVIOUS
<1> PICK x : x = <<c, n>>
  OBVIOUS
<1>1. /\ ledger \in [Customers -> Seq(EntryRow)] /\ ledger[c] \in Seq(EntryRow)
      /\ ledger' = [ledger EXCEPT ![c] = Append(ledger[c], e)]
  BY DEF TypeOK, Record
<1>2. /\ ledger'[c] = Append(ledger[c], e)
      /\ \A d \in Customers : d # c => ledger'[d] = ledger[d]
  BY <1>1
<1>3. /\ n \in DOMAIN Append(ledger[c], e) /\ Append(ledger[c], e)[n] = e
      /\ DOMAIN Append(ledger[c], e) = DOMAIN ledger[c] \cup {n}
      /\ \A i \in DOMAIN ledger[c] : Append(ledger[c], e)[i] = ledger[c][i]
  BY <1>1
<1>4. Entries' = Entries \cup {x}
  <2>1. ASSUME NEW y \in Entries PROVE y \in Entries'
    <3>1. y[1] \in Customers /\ y[2] \in DOMAIN ledger[y[1]] /\ y = <<y[1], y[2]>>
      BY EntryFacts
    <3>2. y[2] \in DOMAIN ledger'[y[1]]
      BY <1>2, <1>3, <3>1
    <3> QED BY <3>1, <3>2 DEF Entries
  <2>2. x \in Entries'
    BY <1>2, <1>3 DEF Entries
  <2>3. ASSUME NEW y \in Entries' PROVE y \in Entries \cup {x}
    <3>1. PICK d \in Customers : y \in {d} \X DOMAIN ledger'[d]
      BY DEF Entries
    <3>2. CASE d = c
      BY <1>2, <1>3, <3>1, <3>2 DEF Entries
    <3>3. CASE d # c
      BY <1>2, <3>1, <3>3 DEF Entries
    <3> QED BY <3>2, <3>3
  <2> QED BY <2>1, <2>2, <2>3
<1>5. Row(x)' = e
  BY <1>2, <1>3 DEF Row
<1>6. ASSUME NEW y \in Entries PROVE Row(y)' = Row(y)
  <2>1. y[1] \in Customers /\ y[2] \in DOMAIN ledger[y[1]]
    BY EntryFacts
  <2>2. ledger'[y[1]][y[2]] = ledger[y[1]][y[2]]
    <3>1. CASE y[1] = c
      BY <1>2, <1>3, <2>1, <3>1
    <3>2. CASE y[1] # c
      BY <1>2, <2>1, <3>2
    <3> QED BY <3>1, <3>2
  <2> QED BY <2>2 DEF Row
<1> QED BY <1>4, <1>5, <1>6

\* It belongs to the order and the request id it names.
LEMMA RecordSets ==
    ASSUME TypeOK, NEW c \in Customers, NEW e, Record(c, e)
    PROVE  \E x \in Entries' :
              /\ x[1] = c /\ Row(x)' = e
              /\ \A y \in Entries : Row(y)' = Row(y)
              /\ \A o, k : OfOrder(o, k)' = OfOrder(o, k) \cup
                                 (IF e.order = o /\ e.kind = k THEN {x} ELSE {})
              /\ \A g : UnderId(g)' = UnderId(g) \cup (IF e.grant = g THEN {x} ELSE {})
<1> PICK x \in Entries' : /\ x[1] = c /\ Row(x)' = e
                          /\ Entries' = Entries \cup {x}
                          /\ \A y \in Entries : Row(y)' = Row(y)
  BY RecordEntry
<1>1. \A o, k : /\ OfOrder(o, k) = {y \in Entries : Row(y).order = o /\ Row(y).kind = k}
                /\ OfOrder(o, k)' = {y \in Entries' : Row(y)'.order = o /\ Row(y)'.kind = k}
  BY DEF OfOrder, Row
<1>2. \A g : /\ UnderId(g) = {y \in Entries : Row(y).grant = g}
             /\ UnderId(g)' = {y \in Entries' : Row(y)'.grant = g}
  BY DEF UnderId, Row
<1> HIDE DEF Row
<1>3. \A o, k : OfOrder(o, k)' = OfOrder(o, k) \cup
                    (IF e.order = o /\ e.kind = k THEN {x} ELSE {})
  BY <1>1
<1>4. \A g : UnderId(g)' = UnderId(g) \cup (IF e.grant = g THEN {x} ELSE {})
  BY <1>2
<1> QED BY <1>3, <1>4

LEMMA LedgerStays ==
    ASSUME UNCHANGED ledger
    PROVE  /\ Entries' = Entries
           /\ \A o, k : OfOrder(o, k)' = OfOrder(o, k)
           /\ \A g : UnderId(g)' = UnderId(g)
<1>1. Entries' = Entries
  BY DEF Entries
<1> QED BY <1>1 DEF OfOrder, UnderId

LEMMA AtMostOneCounts ==
    ASSUME NEW S, AtMostOne(S)
    PROVE  Cardinality(S) \in Nat /\ Cardinality(S) <= 1 /\ (S # {} => Cardinality(S) = 1)
<1>1. CASE S = {}
  <2>1. Cardinality(S) = 0
    BY <1>1, FS_EmptySet
  <2> QED BY <1>1, <2>1
<1>2. CASE S # {}
  <2>1. PICK x : x \in S
    BY <1>2
  <2>2. S = {x}
    BY <2>1 DEF AtMostOne
  <2>3. Cardinality({x}) = 1
    BY FS_Singleton
  <2> QED BY <2>2, <2>3
<1> QED BY <1>1, <1>2

-----------------------------------------------------------------------------
(* What requests in flight know *)

LEMMA CheckoutKnows ==
    ASSUME StampsInv, NEW w \in Workers, job[w].op = "checkout" \/ job[w].phase = "insert"
    PROVE  /\ IsCheckout(w) /\ ServesOK(w)
           /\ job[w].order \in Orders /\ Status(job[w].order) = "NONE"
           /\ job[w].customer \in Customers \cup {Guest} /\ job[w].weight \in Nat
<1>1. job[w] # Idle
  BY Working DEF StampsInv, CardsInv
<1>2. RequestOK(w, job[w]) /\ ServesOK(w)
  BY <1>1 DEF StampsInv, CardsInv, HoldersInv, ServedInv
<1>3. /\ job[w].op \in {"checkout", "complete", "issue", "grant"}
      /\ job[w].customer \in Customers \cup {Guest} /\ job[w].weight \in Nat
  BY <1>1, RequestTypes DEF StampsInv, CardsInv
<1>4. job[w].op = "checkout"
  BY <1>2, <1>3 DEF RequestOK, PhasesOK
<1> QED BY <1>1, <1>2, <1>3, <1>4 DEF RequestOK, ServesOK, IsCheckout

LEMMA CompletionKnows ==
    ASSUME StampsInv, NEW w \in Workers, job[w].op = "complete" \/ job[w].phase = "claim"
    PROVE  /\ job[w] # Idle /\ ServesOK(w) /\ job[w].op = "complete"
           /\ job[w].order \in Orders /\ Status(job[w].order) # "NONE"
           /\ job[w].customer = order[job[w].order].customer
           /\ job[w].customer \in Customers \cup {Guest}
<1>1. job[w] # Idle
  BY Working DEF StampsInv, CardsInv
<1>2. RequestOK(w, job[w]) /\ ServesOK(w)
  BY <1>1 DEF StampsInv, CardsInv, HoldersInv, ServedInv
<1>3. /\ job[w].op \in {"checkout", "complete", "issue", "grant"}
      /\ job[w].customer \in Customers \cup {Guest}
  BY <1>1, RequestTypes DEF StampsInv, CardsInv
<1>4. job[w].op = "complete"
  BY <1>2, <1>3 DEF RequestOK, PhasesOK
<1> QED BY <1>1, <1>2, <1>3, <1>4 DEF RequestOK, ServesOK

\* An order that is not there yet has no entries; one not completed earned none.
LEMMA NoEntriesYet ==
    ASSUME NEW o \in Orders, OrderOK(o)
    PROVE  /\ Status(o) # "COMPLETED" => OfOrder(o, "EARNED") = {}
           /\ Status(o) = "NONE" => OfOrder(o, "REDEEMED") = {}
BY DEF OrderOK

\* The stamps of an order that has earned none are its whole pounds paid for.
LEMMA WholePounds ==
    ASSUME NEW n \in Nat, NEW free \in {0, 2}, free <= n, NEW pounds,
           pounds = IF n <= free THEN 0 ELSE (n - free) \div 2
    PROVE  /\ pounds \in Nat /\ pounds = (n - free) \div 2
           /\ 2 * pounds + free <= n /\ n < 2 * pounds + free + 2
<1>1. CASE n = free
  BY <1>1
<1>2. CASE n > free
  <2>1. pounds = (n - free) \div 2 /\ n - free \in Nat
    BY <1>2
  <2> QED BY <1>2, <2>1
<1> QED BY <1>1, <1>2

LEMMA EarnedPays ==
    ASSUME TypeOK, NEW o \in Orders, OrderOK(o), OfOrder(o, "EARNED") = {}
    PROVE  /\ EarnedStamps(o) \in Nat
           /\ EarnedStamps(o) = (order[o].weight - Free(o)) \div 2
           /\ 2 * EarnedStamps(o) + Free(o) <= order[o].weight
           /\ EarnedStamps(o) = 0 => order[o].weight - Free(o) < 2
<1>1. order[o].weight \in Nat /\ Free(o) \in {0, 2} /\ Free(o) <= order[o].weight
  BY DEF TypeOK, OrderOK, Free
<1>2. EarnedStamps(o) = IF order[o].weight <= Free(o) THEN 0
                        ELSE (order[o].weight - Free(o)) \div 2
  BY DEF EarnedStamps, Free
<1>3. \A n \in Nat, free \in {0, 2} : \A pounds :
         free <= n /\ pounds = (IF n <= free THEN 0 ELSE (n - free) \div 2)
           => /\ pounds \in Nat /\ pounds = (n - free) \div 2
              /\ 2 * pounds + free <= n /\ n < 2 * pounds + free + 2
  BY WholePounds
<1>4. /\ EarnedStamps(o) \in Nat
      /\ EarnedStamps(o) = (order[o].weight - Free(o)) \div 2
      /\ 2 * EarnedStamps(o) + Free(o) <= order[o].weight
      /\ order[o].weight < 2 * EarnedStamps(o) + Free(o) + 2
  BY ONLY <1>1, <1>2, <1>3
<1> QED BY <1>1, <1>4

LEMMA CreditedAtMost ==
    ASSUME NEW n \in Nat, NEW b \in Int
    PROVE  Credited(n, b) \in Nat /\ Credited(n, b) <= n
BY CardAssumption DEF Credited

-----------------------------------------------------------------------------
(* Steps *)

\* What a step of w leaves to the others: their requests, the orders they hold,
\* and of any other order that it was placed, and by whom.
Leaves(w) ==
    /\ \A v \in Workers \ {w} :
          /\ job'[v] = job[v]
          /\ \A o \in Orders : orderLock[o] = v /\ Status(o) = "OPEN" =>
                orderLock'[o] = v /\ order'[o] = order[o]
    /\ \A o \in Orders : order'[o] # order[o] =>
          \/ /\ Status(o) # "NONE" /\ Status(o)' # "NONE"
             /\ order'[o].customer = order[o].customer
          \/ w \in Workers /\ IsCheckout(w) /\ job[w].order = o

LEMMA OthersServe ==
    ASSUME StampsInv, NEW w, Leaves(w), w \in Workers /\ job'[w] # Idle => ServesOK(w)'
    PROVE  ServedInv'
<1> SUFFICES ASSUME NEW v \in Workers, job'[v] # Idle
             PROVE  ServesOK(v)'
  BY DEF ServedInv
<1>1. CASE v = w
  BY <1>1
<1>2. CASE v # w
  <2>1. job'[v] = job[v] /\ job[v] # Idle
    BY <1>2 DEF Leaves
  <2>2. ServesOK(v) /\ RequestOK(v, job[v])
    BY <2>1 DEF StampsInv, CardsInv, HoldersInv, ServedInv
  <2>3. PICK j : j = job[v]
    OBVIOUS
  <2>4. PICK o : o = job[v].order
    OBVIOUS
  <2>5. ASSUME j.op = "checkout"
        PROVE  /\ Status(o)' = "NONE"
               /\ \A u \in Workers \ {v} : IsCheckout(u)' => job'[u].order # o
    <3>1. o \in Orders /\ Status(o) = "NONE" /\ IsCheckout(v)
      BY <2>1, <2>2, <2>3, <2>4, <2>5 DEF RequestOK, ServesOK, IsCheckout
    <3>2. ~ (w \in Workers /\ IsCheckout(w) /\ job[w].order = o)
      BY <1>2, <2>2, <2>3, <2>4, <2>5 DEF ServesOK
    <3>3. order'[o] = order[o]
      BY <3>1, <3>2 DEF Leaves
    <3>4. ASSUME NEW u \in Workers \ {v}, IsCheckout(u)' PROVE job'[u].order # o
      <4>1. CASE u = w
        BY <1>2, <2>1, <2>4, <3>1, <3>4, <4>1 DEF ServesOK, IsCheckout
      <4>2. CASE u # w
        BY <2>2, <2>3, <2>4, <2>5, <3>4, <4>2 DEF ServesOK, IsCheckout, Leaves
      <4> QED BY <4>1, <4>2
    <3> QED BY <3>1, <3>3, <3>4 DEF Status
  <2>6. ASSUME j.op = "complete"
        PROVE  /\ Status(o)' # "NONE" /\ j.customer = order'[o].customer
               /\ j.phase \in {"lock", "locked"} => orderLock'[o] = v /\ Status(o)' = "OPEN"
    <3>1. /\ o \in Orders /\ Status(o) # "NONE" /\ j.customer = order[o].customer
          /\ j.phase \in {"lock", "locked"} => orderLock[o] = v /\ Status(o) = "OPEN"
      BY <2>2, <2>3, <2>4, <2>6 DEF RequestOK, ServesOK
    <3>2. ~ (w \in Workers /\ IsCheckout(w) /\ job[w].order = o)
      BY <3>1, CheckoutKnows DEF IsCheckout
    <3> QED BY <1>2, <3>1, <3>2 DEF Leaves, Status
  <2>7. j.op \in {"issue", "grant"} => j.stamps > 0
    BY <2>2, <2>3 DEF ServesOK
  <2>8. j.phase \in {"lock", "locked"} /\ j.op = "checkout" => j.weight >= 2
    BY <2>2, <2>3 DEF ServesOK
  <2> QED BY <2>1, <2>3, <2>4, <2>5, <2>6, <2>7, <2>8 DEF ServesOK
<1> QED BY <1>1, <1>2

\* Orders, their entries and the grants stay as they are.
NothingSold ==
    /\ UNCHANGED order
    /\ \A o \in Orders, k \in Kind : OfOrder(o, k)' = OfOrder(o, k)
    /\ \A y \in Entries : Row(y)' = Row(y)

LEMMA LedgerRowsStay == ASSUME UNCHANGED ledger PROVE \A y \in Entries : Row(y)' = Row(y)
BY DEF Row

\* All is left as it is but one order and its entries.
Writes(o) ==
    /\ \A p \in Orders \ {o} : /\ order'[p] = order[p]
                               /\ \A k \in Kind : OfOrder(p, k)' = OfOrder(p, k)
    /\ \A y \in Entries : Row(y)' = Row(y)

LEMMA OrderKept ==
    ASSUME NEW o \in Orders, OrderOK(o), order'[o] = order[o],
           \A k \in Kind : OfOrder(o, k)' = OfOrder(o, k),
           \A y \in Entries : Row(y)' = Row(y)
    PROVE  OrderOK(o)'
<1>1. /\ OfOrder(o, "EARNED")' = OfOrder(o, "EARNED")
      /\ OfOrder(o, "REDEEMED")' = OfOrder(o, "REDEEMED")
  BY DEF Kind
<1>2. \A y \in OfOrder(o, "EARNED") : ledger'[y[1]][y[2]] = ledger[y[1]][y[2]]
  BY DEF OfOrder, Row
<1> QED BY <1>1, <1>2 DEF OrderOK, Status, Free

LEMMA OthersKeep ==
    ASSUME OrdersInv, NEW o \in Orders, Writes(o), OrderOK(o)'
    PROVE  OrdersInv'
BY OrderKept DEF OrdersInv, Writes

LEMMA NothingSoldKeeps ==
    ASSUME OrdersInv, NothingSold
    PROVE  OrdersInv'
BY OrderKept DEF OrdersInv, NothingSold

\* An entry for an order, and nothing else of it.
LEMMA RecordWrites ==
    ASSUME TypeOK, NEW c \in Customers, NEW e, Record(c, e), NEW o, e.order = o,
           \A p \in Orders \ {o} : order'[p] = order[p]
    PROVE  /\ Writes(o)
           /\ \A k : k # e.kind => OfOrder(o, k)' = OfOrder(o, k)
           /\ \E x : /\ x[1] = c /\ Row(x)' = e
                     /\ OfOrder(o, e.kind)' = OfOrder(o, e.kind) \cup {x}
           /\ \A g : g # e.grant => UnderId(g)' = UnderId(g)
<1> PICK x : /\ x[1] = c /\ Row(x)' = e
             /\ \A y \in Entries : Row(y)' = Row(y)
             /\ \A p, k : OfOrder(p, k)' = OfOrder(p, k) \cup
                                (IF e.order = p /\ e.kind = k THEN {x} ELSE {})
             /\ \A g : UnderId(g)' = UnderId(g) \cup (IF e.grant = g THEN {x} ELSE {})
  BY RecordSets
<1>1. \A p, k : e.order # p \/ e.kind # k => OfOrder(p, k)' = OfOrder(p, k)
  OBVIOUS
<1>2. OfOrder(o, e.kind)' = OfOrder(o, e.kind) \cup {x}
  OBVIOUS
<1>3. \A g : g # e.grant => UnderId(g)' = UnderId(g)
  OBVIOUS
<1> QED BY <1>1, <1>2, <1>3 DEF Writes

\* The checkout that places order o for c, with or without a reward.
Places(w, o, c) ==
    /\ o \in Orders /\ IsCheckout(w) /\ job[w].order = o /\ Status(o) = "NONE"
    /\ order' = [order EXCEPT ![o] = [status |-> "OPEN", customer |-> c,
                                      weight |-> job[w].weight]]
    /\ Writes(o)
    /\ OfOrder(o, "EARNED") = {} /\ OfOrder(o, "REDEEMED") = {}
    /\ OfOrder(o, "EARNED")' = {}
    /\ \A g \in Grants : UnderId(g)' = UnderId(g)
    /\ UNCHANGED answer

LEMMA CommitOrderPlaces ==
    ASSUME StampsInv, NEW w \in Workers, CommitOrder(w),
           NEW o, o = job[w].order, NEW c, c = job[w].customer
    PROVE  /\ Places(w, o, c) /\ OfOrder(o, "REDEEMED")' = {}
           /\ c \in Customers \cup {Guest}
           /\ UNCHANGED card
<1>1. c \in Customers \cup {Guest} /\ IsCheckout(w) /\ o \in Orders /\ Status(o) = "NONE"
  BY CheckoutKnows DEF CommitOrder
<1>2. OfOrder(o, "EARNED") = {} /\ OfOrder(o, "REDEEMED") = {}
  BY <1>1, NoEntriesYet DEF StampsInv, OrdersInv
<1>3. /\ UNCHANGED <<card, ledger, answer>>
      /\ order' = [order EXCEPT ![o] = [status |-> "OPEN", customer |-> job[w].customer,
                                        weight |-> job[w].weight]]
  BY DEF CommitOrder, InsertOrder
<1>4. /\ \A p, k : OfOrder(p, k)' = OfOrder(p, k)
      /\ \A g : UnderId(g)' = UnderId(g)
      /\ \A y \in Entries : Row(y)' = Row(y)
  BY <1>3, LedgerStays, LedgerRowsStay
<1>5. \A p \in Orders \ {o} : order'[p] = order[p]
  BY <1>3 DEF StampsInv, CardsInv, TypeOK
<1> QED BY <1>1, <1>2, <1>3, <1>4, <1>5 DEF Places, Writes

LEMMA RedeemPlaces ==
    ASSUME StampsInv, NEW w \in Workers, Redeem(w),
           NEW o, o = job[w].order, NEW c, c = job[w].customer
    PROVE  /\ Places(w, o, c)
           /\ \E x : x[1] = c /\ OfOrder(o, "REDEEMED")' = {x}
           /\ c \in Customers /\ job[w].weight >= 2
           /\ card[c].stamps >= Cost
           /\ \E row : row.stamps = card[c].stamps - Cost /\ card' = [card EXCEPT ![c] = row]
<1>1. /\ IsCheckout(w) /\ o \in Orders /\ Status(o) = "NONE" /\ job[w].weight >= 2
  BY CheckoutKnows DEF Redeem, ServesOK
<1>2. RequestOK(w, job[w])
  BY <1>1 DEF IsCheckout, StampsInv, CardsInv, HoldersInv
<1>3. c \in Customers
  BY <1>2 DEF RequestOK, HoldsCard, Redeem
<1>4. OfOrder(o, "EARNED") = {} /\ OfOrder(o, "REDEEMED") = {}
  BY <1>1, NoEntriesYet DEF StampsInv, OrdersInv
<1>5. UNCHANGED answer /\ order' = [order EXCEPT ![o] =
           [status |-> "OPEN", customer |-> c, weight |-> job[w].weight]]
  BY DEF Redeem, InsertOrder
<1>6. \A p \in Orders \ {o} : order'[p] = order[p]
  BY <1>5 DEF StampsInv, CardsInv, TypeOK
<1>7. PICK e : e = Entry("REDEEMED", o, NoGrant, 0 - Cost, card[c].stamps - Cost)
  OBVIOUS
<1>8. e.kind = "REDEEMED" /\ e.order = o /\ e.grant = NoGrant
  BY <1>7 DEF Entry
<1>9. Record(c, e) /\ TypeOK
  BY <1>7 DEF Redeem, StampsInv, CardsInv
<1>10. /\ Writes(o)
       /\ \A k : k # e.kind => OfOrder(o, k)' = OfOrder(o, k)
       /\ \E x : /\ x[1] = c /\ Row(x)' = e
                 /\ OfOrder(o, e.kind)' = OfOrder(o, e.kind) \cup {x}
       /\ \A g : g # e.grant => UnderId(g)' = UnderId(g)
  BY ONLY <1>3, <1>6, <1>8, <1>9, RecordWrites
<1>11. /\ Writes(o)
       /\ \A k : k # "REDEEMED" => OfOrder(o, k)' = OfOrder(o, k)
       /\ \E x : x[1] = c /\ OfOrder(o, "REDEEMED")' = OfOrder(o, "REDEEMED") \cup {x}
       /\ \A g : g # NoGrant => UnderId(g)' = UnderId(g)
  BY <1>8, <1>10
<1>12. Places(w, o, c)
  BY <1>1, <1>4, <1>5, <1>11, CardAssumption DEF Places
<1>13. \E x : x[1] = c /\ OfOrder(o, "REDEEMED")' = {x}
  BY <1>4, <1>11
<1>14. /\ card[c].stamps >= Cost
       /\ card' = [card EXCEPT ![c].stamps = @ - Cost, ![c].redemptions = @ + 1]
  BY DEF Redeem, CanPay
<1>15. PICK row : row = [card[c] EXCEPT !.stamps = @ - Cost, !.redemptions = @ + 1]
  OBVIOUS
<1>16. card[c] \in CardRow /\ card \in [Customers -> CardRow]
  BY <1>3 DEF StampsInv, CardsInv, TypeOK
<1>17. row.stamps = card[c].stamps - Cost
  BY <1>15, <1>16 DEF CardRow
<1>18. card' = [card EXCEPT ![c] = row]
  BY <1>3, <1>14, <1>15, <1>16
<1> QED BY <1>1, <1>3, <1>12, <1>13, <1>14, <1>17, <1>18

LEMMA StatusSet ==
    ASSUME TypeOK, NEW o \in Orders, NEW status, order' = [order EXCEPT ![o].status = status]
    PROVE  /\ Status(o)' = status
           /\ order'[o].customer = order[o].customer /\ order'[o].weight = order[o].weight
           /\ order'[o] = [order[o] EXCEPT !.status = status]
           /\ \A p \in Orders \ {o} : order'[p] = order[p]
<1>1. order' = [order EXCEPT ![o] = [order[o] EXCEPT !.status = status]]
  OBVIOUS
<1>2. /\ order[o] \in [status : OrderStatus, customer : Customers \cup {Guest}, weight : Nat]
      /\ order \in [Orders -> [status : OrderStatus, customer : Customers \cup {Guest},
                               weight : Nat]]
  BY DEF TypeOK
<1>3. order'[o] = [order[o] EXCEPT !.status = status]
  BY <1>1, <1>2
<1>4. \A p \in Orders \ {o} : order'[p] = order[p]
  BY <1>1, <1>2
<1> QED BY <1>2, <1>3, <1>4 DEF Status

\* The commit of a completion: the entry of the order, and its status with it.
Accrues(w, o, c) ==
    /\ o \in Orders /\ Status(o) = "OPEN" /\ c = order[o].customer /\ c \in Customers
    /\ orderLock[o] = w
    /\ order' = [order EXCEPT ![o].status = "COMPLETED"]
    /\ Writes(o)
    /\ OfOrder(o, "REDEEMED")' = OfOrder(o, "REDEEMED")
    /\ OfOrder(o, "EARNED") = {}
    /\ \E x, row : LET credit == Credited(EarnedStamps(o), card[c].stamps) IN
          /\ x[1] = c /\ OfOrder(o, "EARNED")' = {x} /\ Row(x)'.delta = credit
          /\ row.stamps = card[c].stamps + credit
          /\ card' = [card EXCEPT ![c] = row]
    /\ \A g \in Grants : UnderId(g)' = UnderId(g)
    /\ UNCHANGED answer

LEMMA AccrueWrites ==
    ASSUME StampsInv, NEW w \in Workers, Accrue(w),
           NEW o, o = job[w].order, NEW c, c = job[w].customer
    PROVE  Accrues(w, o, c)
<1>1. /\ job[w].op = "complete" /\ job[w].phase = "locked"
      /\ Completed(o) /\ UNCHANGED answer
  BY DEF Accrue
<1>2. /\ job[w] # Idle /\ o \in Orders /\ c = order[o].customer
      /\ orderLock[o] = w /\ Status(o) = "OPEN"
  BY <1>1, CompletionKnows DEF ServesOK
<1>3. RequestOK(w, job[w]) /\ TypeOK
  BY <1>2 DEF StampsInv, CardsInv, HoldersInv
<1>4. c \in Customers /\ job[w].seen = card[c].stamps
  BY <1>1, <1>3 DEF RequestOK, HoldsCard
<1>5. OfOrder(o, "EARNED") = {}
  BY <1>2, NoEntriesYet DEF StampsInv, OrdersInv
<1>6. order' = [order EXCEPT ![o].status = "COMPLETED"]
  BY <1>1 DEF Completed
<1>7. \A p \in Orders \ {o} : order'[p] = order[p]
  BY <1>2, <1>3, <1>6, StatusSet
<1> DEFINE earned == EarnedStamps(o)
           credit == Credited(earned, card[c].stamps)
<1>8. PICK e : e = Entry("EARNED", o, NoGrant, credit, card[c].stamps + credit)
  OBVIOUS
<1>9. e.kind = "EARNED" /\ e.order = o /\ e.grant = NoGrant
  BY <1>8 DEF Entry
<1>10. e.delta = credit
  BY <1>8 DEF Entry
<1>11. Record(c, e)
  BY <1>4, <1>8 DEF Accrue
<1>12. card' = [card EXCEPT ![c].stamps = @ + credit, ![c].lifetime = @ + earned]
  BY <1>4 DEF Accrue
<1> HIDE DEF earned, credit
<1>13. /\ Writes(o)
       /\ \A k : k # e.kind => OfOrder(o, k)' = OfOrder(o, k)
       /\ \E x : /\ x[1] = c /\ Row(x)' = e
                 /\ OfOrder(o, e.kind)' = OfOrder(o, e.kind) \cup {x}
       /\ \A g : g # e.grant => UnderId(g)' = UnderId(g)
  <2>1. TypeOK /\ c \in Customers /\ e.order = o
    BY <1>3, <1>4, <1>9
  <2> QED BY ONLY <2>1, <1>7, <1>11, RecordWrites
<1>14. /\ OfOrder(o, "REDEEMED")' = OfOrder(o, "REDEEMED")
       /\ \A g \in Grants : UnderId(g)' = UnderId(g)
  BY <1>9, <1>13, CardAssumption
<1>15. PICK x : x[1] = c /\ OfOrder(o, "EARNED")' = {x} /\ Row(x)'.delta = credit
  BY <1>5, <1>9, <1>13, <1>10
<1>16. PICK row : row = [card[c] EXCEPT !.stamps = @ + credit, !.lifetime = @ + earned]
  OBVIOUS
<1>17. card[c] \in CardRow /\ card \in [Customers -> CardRow]
  BY <1>3, <1>4 DEF TypeOK
<1>18. row.stamps = card[c].stamps + credit
  BY <1>16, <1>17 DEF CardRow
<1>19. card' = [card EXCEPT ![c] = row]
  BY <1>4, <1>16, <1>17, <1>12
<1> QED
  BY <1>1, <1>2, <1>4, <1>5, <1>6, <1>13, <1>14, <1>15, <1>18, <1>19
     DEF Accrues, earned, credit

-----------------------------------------------------------------------------
(* The orders and their entries *)

LEMMA PlacedIsOK ==
    ASSUME StampsInv, NEW w \in Workers, NEW o, NEW c, Places(w, o, c),
           c \in Customers \cup {Guest},
           \/ OfOrder(o, "REDEEMED")' = {}
           \/ /\ \E x : x[1] = c /\ OfOrder(o, "REDEEMED")' = {x}
              /\ job[w].weight >= 2
    PROVE  OrdersInv'
<1>1. /\ o \in Orders /\ OfOrder(o, "EARNED")' = {} /\ Writes(o)
      /\ order'[o] = [status |-> "OPEN", customer |-> c, weight |-> job[w].weight]
  BY DEF Places, StampsInv, CardsInv, TypeOK
<1>2. Status(o)' = "OPEN" /\ order'[o].customer = c /\ order'[o].weight = job[w].weight
  BY <1>1 DEF Status
<1>3. OrderOK(o)'
  <2>1. CASE OfOrder(o, "REDEEMED")' = {}
    BY <1>1, <1>2, <2>1 DEF OrderOK, AtMostOne, Status
  <2>2. ASSUME NEW x, x[1] = c, OfOrder(o, "REDEEMED")' = {x}, job[w].weight >= 2
        PROVE  OrderOK(o)'
    BY <1>1, <1>2, <2>2 DEF OrderOK, AtMostOne, Status
  <2> QED BY <2>1, <2>2
<1> QED BY <1>1, <1>3, OthersKeep DEF StampsInv

LEMMA AccruedIsOK ==
    ASSUME StampsInv, NEW w \in Workers, Accrue(w)
    PROVE  OrdersInv'
<1>1. PICK o, c : o = job[w].order /\ c = job[w].customer
  OBVIOUS
<1>2. Accrues(w, o, c)
  BY <1>1, AccrueWrites
<1>3. /\ o \in Orders /\ c = order[o].customer /\ c \in Customers /\ Status(o) = "OPEN"
      /\ order' = [order EXCEPT ![o].status = "COMPLETED"]
      /\ Writes(o)
      /\ OfOrder(o, "REDEEMED")' = OfOrder(o, "REDEEMED")
      /\ OfOrder(o, "EARNED") = {}
      /\ \E x, row : LET credit == Credited(EarnedStamps(o), card[c].stamps) IN
            /\ x[1] = c /\ OfOrder(o, "EARNED")' = {x} /\ Row(x)'.delta = credit
            /\ row.stamps = card[c].stamps + credit
            /\ card' = [card EXCEPT ![c] = row]
  BY <1>2 DEF Accrues
<1>4. PICK x : /\ x[1] = c /\ OfOrder(o, "EARNED")' = {x}
               /\ Row(x)'.delta = Credited(EarnedStamps(o), card[c].stamps)
  BY <1>3
<1>5. TypeOK /\ OrderOK(o)
  BY <1>3 DEF StampsInv, CardsInv, OrdersInv
<1>6. /\ Status(o)' = "COMPLETED" /\ order'[o].customer = c
      /\ order'[o].weight = order[o].weight
  BY <1>3, <1>5, StatusSet
<1>7. /\ EarnedStamps(o) \in Nat /\ 2 * EarnedStamps(o) + Free(o) <= order[o].weight
      /\ order[o].weight \in Nat /\ card[c].stamps \in Int
  BY <1>3, <1>5, EarnedPays DEF TypeOK, CardRow
<1>8. Free(o)' = Free(o) /\ Free(o) \in Nat
  BY <1>3 DEF Free
<1>9. 2 * Row(x)'.delta + Free(o)' <= order'[o].weight
  <2>1. PICK n : n = Row(x)'.delta
    OBVIOUS
  <2>2. n \in Nat /\ n <= EarnedStamps(o)
    BY <1>4, <1>7, <2>1, CreditedAtMost
  <2> QED BY <1>6, <1>7, <1>8, <2>1, <2>2
<1>10. /\ \A y \in OfOrder(o, "REDEEMED") : y[1] = c
       /\ AtMostOne(OfOrder(o, "REDEEMED"))
       /\ OfOrder(o, "REDEEMED") # {} => order[o].weight >= 2
  BY <1>3, <1>5 DEF OrderOK
<1>11. /\ \A y \in OfOrder(o, "EARNED")' :
             y[1] = c /\ 2 * ledger'[y[1]][y[2]].delta + Free(o)' <= order'[o].weight
       /\ \A y, z \in OfOrder(o, "EARNED")' : y = z
       /\ OfOrder(o, "EARNED")' # {}
  BY <1>4, <1>9 DEF Row
<1>12. /\ \A y \in OfOrder(o, "REDEEMED")' : y[1] = c
       /\ \A y, z \in OfOrder(o, "REDEEMED")' : y = z
       /\ OfOrder(o, "REDEEMED")' # {} => order'[o].weight >= 2
  BY <1>3, <1>6, <1>10 DEF AtMostOne
<1>13. OrderOK(o)'
  BY <1>6, <1>11, <1>12 DEF OrderOK, AtMostOne
<1> QED BY <1>3, <1>13, OthersKeep DEF StampsInv

\* Neither a closing nor the completion of an order that earns nothing writes entries.
LEMMA StatusWriteIsOK ==
    ASSUME StampsInv, NEW o \in Orders, Status(o) = "OPEN", UNCHANGED ledger,
           NEW status \in {"COMPLETED", "CLOSED"},
           order' = [order EXCEPT ![o].status = status],
           status = "COMPLETED" => order[o].customer = Guest \/ EarnedStamps(o) = 0
    PROVE  OrdersInv' /\ Writes(o)
<1>1. TypeOK /\ OrderOK(o)
  BY DEF StampsInv, CardsInv, OrdersInv
<1>2. /\ Status(o)' = status /\ order'[o].customer = order[o].customer
      /\ order'[o].weight = order[o].weight
      /\ \A p \in Orders \ {o} : order'[p] = order[p]
  BY <1>1, StatusSet
<1>3. /\ \A p, k : OfOrder(p, k)' = OfOrder(p, k)
      /\ \A y \in Entries : Row(y)' = Row(y)
  BY LedgerStays, LedgerRowsStay
<1>4. Writes(o)
  BY <1>2, <1>3 DEF Writes
<1>5. OfOrder(o, "EARNED") = {}
  BY <1>1, NoEntriesYet
<1>6. EarnedStamps(o) = 0 => order[o].weight - Free(o) < 2
  BY <1>1, <1>5, EarnedPays
<1>7. OrderOK(o)'
  <2>1. Free(o)' = Free(o) /\ Free(o) \in Nat /\ order[o].weight \in Nat
    BY <1>1, <1>3 DEF Free, TypeOK
  <2>2. /\ OfOrder(o, "EARNED")' = {}
        /\ OfOrder(o, "REDEEMED")' = OfOrder(o, "REDEEMED")
        /\ AtMostOne(OfOrder(o, "REDEEMED"))
        /\ \A y \in OfOrder(o, "REDEEMED") : y[1] = order[o].customer
        /\ OfOrder(o, "REDEEMED") # {} => order[o].weight >= 2
    BY <1>1, <1>3, <1>5 DEF OrderOK
  <2>3. Status(o)' = "COMPLETED" /\ order'[o].customer # Guest
           => ~ (order'[o].weight - Free(o)' >= 2)
    BY <1>2, <1>6, <2>1
  <2> QED BY <1>2, <2>1, <2>2, <2>3 DEF OrderOK, AtMostOne
<1> QED BY <1>4, <1>7, OthersKeep DEF StampsInv

-----------------------------------------------------------------------------
(* The requests *)

\* A step that writes no order.
LEMMA LeavesOrders ==
    ASSUME StampsInv, NEW w \in Workers, NEW j, job' = [job EXCEPT ![w] = j], UNCHANGED order,
           Unlock(w) \/ UNCHANGED orderLock
    PROVE  Leaves(w) /\ job'[w] = j
<1>1. job'[w] = j /\ \A v \in Workers \ {w} : job'[v] = job[v]
  BY DEF StampsInv, CardsInv, TypeOK
<1>2. \A o \in Orders : orderLock[o] # w => orderLock'[o] = orderLock[o]
  BY DEF Unlock, StampsInv, CardsInv, TypeOK
<1> QED BY <1>1, <1>2 DEF Leaves

LEMMA ArriveServes ==
    ASSUME StampsInv, NEW w \in Workers, Arrive(w)
    PROVE  ServedInv' /\ UNCHANGED data
<1>1. ASSUME NEW c \in Customers \cup {Guest}, NEW o \in Orders, NEW weight \in HalfPounds,
             NEW redeem \in BOOLEAN, Checkout(w, c, o, weight, redeem)
      PROVE  ServedInv' /\ UNCHANGED data
  <2> DEFINE j == [Job("checkout", IF redeem THEN "lock" ELSE "insert", c, o) EXCEPT
                     !.weight = weight, !.redeem = redeem]
  <2>1. /\ j.op = "checkout" /\ j.order = o /\ j.weight = weight
        /\ j.phase = IF redeem THEN "lock" ELSE "insert"
    BY DEF Job
  <2>2. job' = [job EXCEPT ![w] = j] /\ UNCHANGED <<data, orderLock>>
    BY <1>1 DEF Checkout, Start
  <2>3. /\ Status(o) = "NONE"
        /\ redeem => weight >= 2
        /\ \A v \in Workers : job[v] # Idle => job[v].order # o
    BY <1>1 DEF Checkout, Status
  <2> HIDE DEF j
  <2>4. Leaves(w) /\ job'[w] = j
    BY <2>2, LeavesOrders DEF data
  <2>5. \A v \in Workers \ {w} : IsCheckout(v)' => job'[v].order # o
    BY <2>3, <2>4 DEF IsCheckout, Leaves
  <2>6. ServesOK(w)'
    BY <2>1, <2>2, <2>3, <2>4, <2>5 DEF ServesOK, Status, data
  <2> QED BY <2>2, <2>4, <2>6, OthersServe
<1>2. ASSUME NEW o \in Orders, Complete(w, o)
      PROVE  ServedInv' /\ UNCHANGED data
  <2> DEFINE j == Job("complete", "claim", order[o].customer, o)
  <2>1. j.op = "complete" /\ j.order = o /\ j.phase = "claim" /\ j.customer = order[o].customer
    BY DEF Job
  <2>2. job' = [job EXCEPT ![w] = j] /\ UNCHANGED <<data, orderLock>> /\ Status(o) = "OPEN"
    BY <1>2 DEF Complete, Start, Status
  <2> HIDE DEF j
  <2>3. Leaves(w) /\ job'[w] = j
    BY <2>2, LeavesOrders DEF data
  <2>4. ServesOK(w)'
    BY <2>1, <2>2, <2>3 DEF ServesOK, Status, data
  <2> QED BY <2>2, <2>3, <2>4, OthersServe
<1>3. ASSUME NEW c \in Customers, NEW n \in Stamps, IssueAtTill(w, c, n)
      PROVE  ServedInv' /\ UNCHANGED data
  <2> DEFINE j == [Job("issue", "lock", c, NoOrder) EXCEPT !.stamps = n]
  <2>1. j.op = "issue" /\ j.stamps = n /\ n > 0
    BY CardAssumption DEF Job
  <2>2. job' = [job EXCEPT ![w] = j] /\ UNCHANGED <<data, orderLock>>
    BY <1>3 DEF IssueAtTill, Start
  <2> HIDE DEF j
  <2>3. Leaves(w) /\ job'[w] = j
    BY <2>2, LeavesOrders DEF data
  <2>4. ServesOK(w)'
    BY <2>1, <2>3 DEF ServesOK
  <2> QED BY <2>2, <2>3, <2>4, OthersServe
<1>4. ASSUME NEW c \in Customers, NEW g \in Grants, NEW n \in Stamps, Grant(w, c, g, n)
      PROVE  ServedInv' /\ UNCHANGED data
  <2> DEFINE j == [Job("grant", "replay", c, NoOrder) EXCEPT !.grant = g, !.stamps = n]
  <2>1. j.op = "grant" /\ j.stamps = n /\ n > 0
    BY CardAssumption DEF Job
  <2>2. job' = [job EXCEPT ![w] = j] /\ UNCHANGED <<data, orderLock>>
    BY <1>4 DEF Grant, Start
  <2> HIDE DEF j
  <2>3. Leaves(w) /\ job'[w] = j
    BY <2>2, LeavesOrders DEF data
  <2>4. ServesOK(w)'
    BY <2>1, <2>3 DEF ServesOK
  <2> QED BY <2>2, <2>3, <2>4, OthersServe
<1> QED BY <1>1, <1>2, <1>3, <1>4 DEF Arrive

\* A request that goes on without writing: it knows what it knew.
LEMMA GoesOn ==
    ASSUME StampsInv, NEW w \in Workers, job[w] # Idle, UNCHANGED order,
           Unlock(w) \/ UNCHANGED orderLock,
           NEW j, job' = [job EXCEPT ![w] = j],
           j.op = job[w].op, j.order = job[w].order, j.customer = job[w].customer,
           j.weight = job[w].weight, j.stamps = job[w].stamps,
           \/ job[w].op = "grant"
           \/ job[w].phase = "lock" /\ UNCHANGED orderLock
    PROVE  ServedInv'
<1>1. Leaves(w) /\ job'[w] = j
  BY LeavesOrders
<1>2. ServesOK(w)
  BY DEF StampsInv, ServedInv
<1>3. \A v \in Workers \ {w} : IsCheckout(v)' => IsCheckout(v) /\ job'[v].order = job[v].order
  BY <1>1 DEF IsCheckout, Leaves
<1>4. ServesOK(w)'
  BY <1>1, <1>2, <1>3 DEF ServesOK, Status
<1> QED BY <1>1, <1>4, OthersServe

\* A request that ends, having written at most its own order, or one it holds.
LEMMA EndsWell ==
    ASSUME StampsInv, NEW w \in Workers, Finish(w), Unlock(w) \/ UNCHANGED orderLock,
           NEW o \in Orders, \A p \in Orders \ {o} : order'[p] = order[p],
           \/ order'[o] = order[o]
           \/ IsCheckout(w) /\ job[w].order = o
           \/ /\ Status(o) = "OPEN" /\ orderLock[o] \in {w, NoWorker} /\ Status(o)' # "NONE"
              /\ order'[o].customer = order[o].customer
    PROVE  ServedInv'
<1>1. job'[w] = Idle /\ \A v \in Workers \ {w} : job'[v] = job[v]
  BY DEF Finish, StampsInv, CardsInv, TypeOK
<1>2. \A p \in Orders : orderLock[p] # w => orderLock'[p] = orderLock[p]
  BY DEF Unlock, StampsInv, CardsInv, TypeOK
<1>3. IsCheckout(w) /\ job[w].order = o => Status(o) = "NONE"
  BY CheckoutKnows DEF IsCheckout
<1>4. Leaves(w)
  <2>1. ASSUME NEW v \in Workers \ {w}, NEW p \in Orders, orderLock[p] = v, Status(p) = "OPEN"
        PROVE  orderLock'[p] = v /\ order'[p] = order[p]
    <3>1. v # NoWorker
      BY CardAssumption
    <3> QED BY <1>2, <1>3, <2>1, <3>1
  <2>2. ASSUME NEW p \in Orders, order'[p] # order[p]
        PROVE  \/ /\ Status(p) # "NONE" /\ Status(p)' # "NONE"
                  /\ order'[p].customer = order[p].customer
               \/ IsCheckout(w) /\ job[w].order = p
    BY <2>2
  <2> QED BY <1>1, <2>1, <2>2 DEF Leaves
<1> QED BY <1>1, <1>4, OthersServe

LEMMA ProgressServes ==
    ASSUME StampsInv, NEW w \in Workers, Progress(w)
    PROVE  OrdersInv' /\ ServedInv'
<1> PICK o, c : o = job[w].order /\ c = job[w].customer
  OBVIOUS
<1>1. CASE CommitOrder(w)
  <2>1. Places(w, o, c) /\ OfOrder(o, "REDEEMED")' = {} /\ c \in Customers \cup {Guest}
    BY <1>1, CommitOrderPlaces
  <2>2. /\ o \in Orders /\ IsCheckout(w) /\ job[w].order = o
        /\ \A p \in Orders \ {o} : order'[p] = order[p]
    BY <2>1 DEF Places, Writes
  <2>3. OrdersInv'
    BY <2>1, PlacedIsOK
  <2>4. Finish(w) /\ UNCHANGED orderLock
    BY <1>1 DEF CommitOrder
  <2> QED BY <2>2, <2>3, <2>4, EndsWell
<1>2. CASE Redeem(w)
  <2>1. /\ Places(w, o, c)
        /\ \E x : x[1] = c /\ OfOrder(o, "REDEEMED")' = {x}
        /\ c \in Customers /\ job[w].weight >= 2
    BY <1>2, RedeemPlaces
  <2>2. /\ o \in Orders /\ IsCheckout(w) /\ job[w].order = o
        /\ \A p \in Orders \ {o} : order'[p] = order[p]
    BY <2>1 DEF Places, Writes
  <2>3. OrdersInv'
    BY <2>1, PlacedIsOK
  <2>4. Finish(w) /\ Unlock(w)
    BY <1>2 DEF Redeem
  <2> QED BY <2>2, <2>3, <2>4, EndsWell
<1>3. CASE Accrue(w)
  <2>1. /\ o \in Orders /\ Status(o) = "OPEN" /\ orderLock[o] = w
        /\ order' = [order EXCEPT ![o].status = "COMPLETED"]
    BY <1>3, AccrueWrites DEF Accrues
  <2>2. /\ Status(o)' = "COMPLETED" /\ order'[o].customer = order[o].customer
        /\ \A p \in Orders \ {o} : order'[p] = order[p]
    BY <2>1, StatusSet DEF StampsInv, CardsInv
  <2>3. OrdersInv'
    BY <1>3, AccruedIsOK
  <2>4. Finish(w) /\ Unlock(w)
    BY <1>3 DEF Accrue
  <2> QED BY <2>1, <2>2, <2>3, <2>4, EndsWell
<1>4. CASE ClaimOrder(w) /\ (c = Guest \/ EarnedStamps(o) = 0)
  <2>1. /\ o \in Orders /\ c = order[o].customer
    BY <1>4, CompletionKnows DEF ClaimOrder
  <2>2. /\ Status(o) = "OPEN" /\ orderLock[o] = NoWorker
        /\ order' = [order EXCEPT ![o].status = "COMPLETED"]
        /\ Finish(w) /\ UNCHANGED <<ledger, orderLock>>
    BY <1>4 DEF ClaimOrder, StillOpen, Completed, Status
  <2>3. /\ Status(o)' = "COMPLETED" /\ order'[o].customer = order[o].customer
        /\ \A p \in Orders \ {o} : order'[p] = order[p]
    BY <2>1, <2>2, StatusSet DEF StampsInv, CardsInv
  <2>4. OrdersInv'
    BY <1>4, <2>1, <2>2, StatusWriteIsOK
  <2> QED BY <2>1, <2>2, <2>3, <2>4, EndsWell
<1>5. CASE ClaimOrder(w) /\ ~ (c = Guest \/ EarnedStamps(o) = 0)
  <2>1. /\ ServesOK(w) /\ o \in Orders /\ job[w].op = "complete" /\ job[w] # Idle
    BY <1>5, CompletionKnows DEF ClaimOrder
  <2>2. /\ Status(o) = "OPEN" /\ orderLock[o] = NoWorker
        /\ orderLock' = [orderLock EXCEPT ![o] = w]
        /\ Go(w, "lock") /\ UNCHANGED <<order, ledger>>
    BY <1>5 DEF ClaimOrder, StillOpen, Status
  <2>3. OrdersInv'
    BY <2>2, LedgerStays, LedgerRowsStay, NothingSoldKeeps DEF NothingSold, StampsInv
  <2>4. PICK j : j = [job[w] EXCEPT !.phase = "lock"]
    OBVIOUS
  <2>5. /\ j.op = "complete" /\ j.order = o /\ j.customer = c /\ j.phase = "lock"
    BY <2>1, <2>4, RequestTypes DEF StampsInv, CardsInv, JobRow
  <2>6. job'[w] = j /\ \A v \in Workers \ {w} : job'[v] = job[v]
    BY <2>2, <2>4 DEF Go, StampsInv, CardsInv, TypeOK
  <2>7. orderLock'[o] = w /\ \A p \in Orders \ {o} : orderLock'[p] = orderLock[p]
    BY <2>1, <2>2 DEF StampsInv, CardsInv, TypeOK
  <2>8. Leaves(w)
    BY <2>2, <2>6, <2>7, CardAssumption DEF Leaves
  <2>9. ServesOK(w)'
    BY <2>1, <2>2, <2>5, <2>6, <2>7 DEF ServesOK, Status
  <2> QED BY <2>3, <2>6, <2>8, <2>9, OthersServe
<1>6. CASE CommitIssue(w) \/ CommitGrant(w)
  <2>1. PICK g, kind : Give(w, kind, g) /\ Finish(w) /\ Unlock(w)
    BY <1>6 DEF CommitIssue, CommitGrant
  <2>2. /\ job[w] # Idle /\ HoldsCard(job[w])
    BY <1>6, Working DEF CommitIssue, CommitGrant, StampsInv, CardsInv, HoldsCard
  <2>3. c \in Customers /\ TypeOK
    BY <2>2 DEF StampsInv, CardsInv, HoldersInv, RequestOK
  <2>4. PICK e : e.order = NoOrder /\ Record(c, e) /\ UNCHANGED order
    BY <2>1 DEF Give, Entry
  <2>5. /\ Writes(NoOrder)
    BY <2>3, <2>4, RecordWrites
  <2>6. OrdersInv'
    BY <2>4, <2>5, NothingSoldKeeps, CardAssumption DEF Writes, NothingSold, StampsInv
  <2>7. ServedInv'
    BY <2>1, <2>4, LeavesOrders, OthersServe DEF Finish
  <2> QED BY <2>6, <2>7
<1>7. CASE \/ RefuseRedeem(w) \/ OrderConflict(w) \/ RefuseIssue(w)
           \/ ReplayGrant(w) \/ RefuseGrant(w)
  <2>1. Finish(w) /\ Unlock(w) /\ UNCHANGED <<ledger, order>>
    BY <1>7 DEF RefuseRedeem, OrderConflict, RefuseIssue, ReplayGrant, RefuseGrant, GiveUp
  <2>2. OrdersInv'
    BY <2>1, LedgerStays, LedgerRowsStay, NothingSoldKeeps DEF NothingSold, StampsInv
  <2>3. ServedInv'
    BY <2>1, LeavesOrders, OthersServe DEF Finish
  <2> QED BY <2>2, <2>3
<1>8. CASE LockCard(w) \/ NewGrant(w) \/ CollideGrant(w)
  <2>1. job[w] # Idle
    BY <1>8, Working DEF LockCard, NewGrant, CollideGrant, StampsInv, CardsInv
  <2>2. job[w] \in JobRow /\ RequestOK(w, job[w])
    BY <2>1, RequestTypes DEF StampsInv, CardsInv, HoldersInv
  <2>3. /\ UNCHANGED <<ledger, order>> /\ (Unlock(w) \/ UNCHANGED orderLock)
        /\ \/ job[w].op = "grant"
           \/ job[w].phase = "lock" /\ UNCHANGED orderLock
    BY <1>8, <2>2 DEF LockCard, NewGrant, CollideGrant, data, RequestOK, PhasesOK, JobRow
  <2>4. PICK j, phase, seen :
           /\ job' = [job EXCEPT ![w] = j]
           /\ \/ j = [job[w] EXCEPT !.phase = phase]
              \/ j = [job[w] EXCEPT !.phase = phase, !.seen = seen]
    <3>1. CASE LockCard(w)
      <4>1. PICK seen : seen = card[c].stamps
        OBVIOUS
      <4>2. job' = [job EXCEPT ![w] = [job[w] EXCEPT !.phase = "locked", !.seen = seen]]
        BY <3>1, <4>1 DEF LockCard
      <4> QED BY <4>2
    <3>2. CASE NewGrant(w) \/ CollideGrant(w)
      <4>1. PICK phase : job' = [job EXCEPT ![w] = [job[w] EXCEPT !.phase = phase]]
        BY <3>2 DEF NewGrant, CollideGrant, Go
      <4> QED BY <4>1
    <3> QED BY <1>8, <3>1, <3>2
  <2>5. /\ j.op = job[w].op /\ j.order = job[w].order /\ j.customer = job[w].customer
        /\ j.weight = job[w].weight /\ j.stamps = job[w].stamps
    <3>1. CASE j = [job[w] EXCEPT !.phase = phase]
      BY <2>2, <3>1 DEF JobRow
    <3>2. CASE j = [job[w] EXCEPT !.phase = phase, !.seen = seen]
      BY <2>2, <3>2 DEF JobRow
    <3> QED BY <2>4, <3>1, <3>2
  <2>6. OrdersInv'
    BY <2>3, LedgerStays, LedgerRowsStay, NothingSoldKeeps DEF NothingSold, StampsInv
  <2>7. ServedInv'
    BY <2>1, <2>3, <2>4, <2>5, GoesOn
  <2> QED BY <2>6, <2>7
<1> QED BY <1>1, <1>2, <1>3, <1>4, <1>5, <1>6, <1>7, <1>8 DEF Progress

LEMMA CloseOrderServes ==
    ASSUME StampsInv, NEW o \in Orders, CloseOrder(o)
    PROVE  OrdersInv' /\ ServedInv'
<1>1. /\ Status(o) = "OPEN" /\ orderLock[o] = NoWorker
      /\ order' = [order EXCEPT ![o].status = "CLOSED"]
      /\ UNCHANGED <<ledger, orderLock, job>>
  BY DEF CloseOrder, StillOpen, Status
<1>2. /\ Status(o)' = "CLOSED" /\ order'[o].customer = order[o].customer
      /\ \A p \in Orders \ {o} : order'[p] = order[p]
  BY <1>1, StatusSet DEF StampsInv, CardsInv
<1>3. OrdersInv'
  BY <1>1, StatusWriteIsOK
<1>4. Leaves(NoWorker)
  BY <1>1, <1>2, CardAssumption DEF Leaves
<1> QED BY <1>3, <1>4, OthersServe, CardAssumption

-----------------------------------------------------------------------------
(* Grants *)

LEMMA RecordIds ==
    ASSUME TypeOK, NEW c \in Customers, NEW e, Record(c, e)
    PROVE  /\ \A g : g # e.grant => UnderId(g)' = UnderId(g)
           /\ \E x : UnderId(e.grant)' = UnderId(e.grant) \cup {x}
<1> PICK x \in Entries' :
       /\ x[1] = c /\ Row(x)' = e
       /\ \A y \in Entries : Row(y)' = Row(y)
       /\ \A o, k : OfOrder(o, k)' = OfOrder(o, k) \cup
                          (IF e.order = o /\ e.kind = k THEN {x} ELSE {})
       /\ \A g : UnderId(g)' = UnderId(g) \cup (IF e.grant = g THEN {x} ELSE {})
  BY RecordSets
<1> QED OBVIOUS

LEMMA GrantsStay ==
    ASSUME GrantsInv, UNCHANGED answer, \A g \in Grants : UnderId(g)' = UnderId(g)
    PROVE  GrantsInv'
BY DEF GrantsInv, GrantOK

LEMMA ProgressGrants ==
    ASSUME StampsInv, NEW w \in Workers, Progress(w)
    PROVE  GrantsInv'
<1> PICK o, c : o = job[w].order /\ c = job[w].customer
  OBVIOUS
<1>1. CASE CommitOrder(w) \/ Redeem(w)
  <2>1. Places(w, o, c)
    BY <1>1, CommitOrderPlaces, RedeemPlaces
  <2> QED BY <2>1, GrantsStay DEF Places, StampsInv
<1>2. CASE Accrue(w)
  <2>1. UNCHANGED answer /\ \A g \in Grants : UnderId(g)' = UnderId(g)
    BY <1>2, AccrueWrites DEF Accrues
  <2> QED BY <2>1, GrantsStay DEF StampsInv
<1>3. CASE CommitIssue(w)
  <2>1. job[w] # Idle /\ HoldsCard(job[w])
    BY <1>3, Working DEF CommitIssue, StampsInv, CardsInv, HoldsCard
  <2>2. c \in Customers /\ TypeOK
    BY <2>1 DEF StampsInv, CardsInv, HoldersInv, RequestOK
  <2>3. PICK e : e.grant = NoGrant /\ Record(c, e) /\ UNCHANGED answer
    BY <1>3 DEF CommitIssue, Give, Entry
  <2>4. \A g \in Grants : UnderId(g)' = UnderId(g)
    BY ONLY <2>2, <2>3, RecordIds, CardAssumption
  <2> QED BY <2>3, <2>4, GrantsStay DEF StampsInv
<1>4. CASE CommitGrant(w)
  <2>1. job[w] # Idle /\ HoldsCard(job[w])
    BY <1>4, Working DEF CommitGrant, StampsInv, CardsInv, HoldsCard
  <2>2. c \in Customers /\ TypeOK
    BY <2>1 DEF StampsInv, CardsInv, HoldersInv, RequestOK
  <2>3. PICK g : g = job[w].grant
    OBVIOUS
  <2>4. PICK e : e.grant = g /\ Record(c, e)
    BY <1>4, <2>3 DEF CommitGrant, Give, Entry
  <2>5. /\ UnderId(g) = {} /\ answer' = [answer EXCEPT ![g] = @ \cup {"GRANTED"}]
    BY <1>4, <2>3 DEF CommitGrant, Answer
  <2>6. /\ \A h : h # g => UnderId(h)' = UnderId(h)
        /\ \E x : UnderId(g)' = UnderId(g) \cup {x}
    <3>1. /\ \A h : h # e.grant => UnderId(h)' = UnderId(h)
          /\ \E x : UnderId(e.grant)' = UnderId(e.grant) \cup {x}
      BY ONLY <2>2, <2>4, RecordIds
    <3> QED BY <2>4, <3>1
  <2>7. \A h \in Grants : h # g => UnderId(h)' = UnderId(h) /\ answer'[h] = answer[h]
    BY <2>2, <2>4, <2>5, <2>6 DEF TypeOK
  <2>8. PICK x : UnderId(g)' = {x}
    BY <2>5, <2>6
  <2> QED BY <2>7, <2>8 DEF GrantsInv, GrantOK, AtMostOne, StampsInv
<1>5. CASE \/ RefuseRedeem(w) \/ OrderConflict(w) \/ RefuseIssue(w)
           \/ LockCard(w) \/ NewGrant(w) \/ CollideGrant(w) \/ ClaimOrder(w)
  <2>1. UNCHANGED <<answer, ledger>>
    BY <1>5 DEF RefuseRedeem, OrderConflict, RefuseIssue, LockCard, NewGrant, CollideGrant,
                ClaimOrder, GiveUp, data
  <2> QED BY <2>1, LedgerStays, GrantsStay DEF StampsInv
<1>6. CASE ReplayGrant(w) \/ RefuseGrant(w)
  <2>1. UNCHANGED ledger
    BY <1>6 DEF ReplayGrant, RefuseGrant, GiveUp
  <2>2. PICK g, a : /\ answer' = [answer EXCEPT ![g] = @ \cup {a}]
                    /\ a = "GRANTED" => UnderId(g) # {}
    BY <1>6 DEF ReplayGrant, RefuseGrant, Answer
  <2>3. \A h \in Grants : "GRANTED" \in answer'[h] => "GRANTED" \in answer[h] \/ UnderId(h) # {}
    BY <2>2 DEF StampsInv, CardsInv, TypeOK
  <2> QED BY <2>1, <2>3, LedgerStays DEF GrantsInv, GrantOK, StampsInv
<1> QED BY <1>1, <1>2, <1>3, <1>4, <1>5, <1>6 DEF Progress

-----------------------------------------------------------------------------
(* Theorems *)

LEMMA StampsInit == ASSUME Init PROVE StampsInv
<1>1. CardsInv
  BY CardsInit
<1>2. Entries = {}
  BY DEF Init, Entries
<1>3. /\ \A o, k : OfOrder(o, k) = {}
      /\ \A g : UnderId(g) = {}
  BY <1>2 DEF OfOrder, UnderId
<1>4. OrdersInv
  BY <1>3 DEF Init, OrdersInv, OrderOK, AtMostOne, Status
<1>5. ServedInv
  BY DEF Init, ServedInv
<1>6. GrantsInv
  BY <1>3 DEF Init, GrantsInv, GrantOK, AtMostOne
<1> QED BY <1>1, <1>4, <1>5, <1>6 DEF StampsInv

LEMMA QuietStamps ==
    ASSUME StampsInv, UNCHANGED <<order, ledger, answer>>
    PROVE  OrdersInv' /\ GrantsInv'
BY LedgerStays, LedgerRowsStay, NothingSoldKeeps, GrantsStay DEF NothingSold, StampsInv

LEMMA StampsStep == ASSUME StampsInv, [Next]_vars PROVE StampsInv'
<1>1. CardsInv'
  BY CardsStep DEF StampsInv
<1>2. ASSUME NEW w \in Workers, Arrive(w)
      PROVE  StampsInv'
  BY <1>1, <1>2, ArriveServes, QuietStamps DEF StampsInv, data
<1>3. ASSUME NEW w \in Workers, Progress(w)
      PROVE  StampsInv'
  BY <1>1, <1>3, ProgressServes, ProgressGrants DEF StampsInv
<1>4. ASSUME NEW w \in Workers, Crash(w)
      PROVE  StampsInv'
  <2>1. Finish(w) /\ Unlock(w) /\ UNCHANGED <<ledger, order, answer>>
    BY <1>4 DEF Crash, GiveUp
  <2>2. ServedInv'
    BY <2>1, LeavesOrders, OthersServe DEF Finish
  <2> QED BY <1>1, <2>1, <2>2, QuietStamps DEF StampsInv
<1>5. ASSUME NEW o \in Orders, CloseOrder(o)
      PROVE  StampsInv'
  <2>1. UNCHANGED <<ledger, answer>>
    BY <1>5 DEF CloseOrder
  <2>2. GrantsInv'
    BY <2>1, LedgerStays, GrantsStay DEF StampsInv
  <2> QED BY <1>1, <1>5, <2>2, CloseOrderServes DEF StampsInv
<1>6. CASE UNCHANGED vars
  <2>1. ServedInv'
    BY <1>6 DEF vars, StampsInv, ServedInv, ServesOK, Status, IsCheckout
  <2> QED BY <1>1, <1>6, <2>1, QuietStamps DEF StampsInv, vars
<1> QED BY <1>2, <1>3, <1>4, <1>5, <1>6 DEF Next

LEMMA StampsAlways == Spec => []StampsInv
BY StampsInit, StampsStep, PTL DEF Spec

LEMMA OrdersAreServed == ASSUME StampsInv PROVE RewardsFollowOrders /\ CompletionsAccrue
<1> SUFFICES ASSUME NEW o \in Orders
             PROVE  LET earned == OfOrder(o, "EARNED")
                        redeemed == OfOrder(o, "REDEEMED")
                        free == 2 * Cardinality(redeemed)
                    IN  /\ Cardinality(earned) <= 1 /\ Cardinality(redeemed) <= 1
                        /\ \A e \in earned \cup redeemed : e[1] = order[o].customer
                        /\ earned # {} => order[o].status = "COMPLETED"
                        /\ redeemed # {} => order[o].status # "NONE"
                        /\ \A e \in earned :
                              2 * ledger[e[1]][e[2]].delta + free <= order[o].weight
                        /\ /\ order[o].status = "COMPLETED" /\ order[o].customer # Guest
                           /\ order[o].weight - free >= 2
                           => earned # {}
  BY DEF RewardsFollowOrders, CompletionsAccrue
<1> DEFINE earned == OfOrder(o, "EARNED")
           redeemed == OfOrder(o, "REDEEMED")
<1>1. OrderOK(o)
  BY DEF StampsInv, OrdersInv
<1>2. AtMostOne(earned) /\ AtMostOne(redeemed)
  BY <1>1 DEF OrderOK
<1>3. Cardinality(earned) <= 1 /\ Cardinality(redeemed) <= 1
  BY <1>2, AtMostOneCounts
<1>4. 2 * Cardinality(redeemed) = Free(o)
  <2>1. CASE redeemed = {}
    <3>1. Cardinality(redeemed) = 0
      BY <2>1, FS_EmptySet
    <3> QED BY <2>1, <3>1 DEF Free
  <2>2. CASE redeemed # {}
    <3>1. Cardinality(redeemed) = 1
      BY <1>2, <2>2, AtMostOneCounts
    <3> QED BY <2>2, <3>1 DEF Free
  <2> QED BY <2>1, <2>2
<1> QED BY <1>1, <1>3, <1>4 DEF OrderOK, Status

\* However completions, checkouts and cancellations interleave and fail, an
\* order earns once and only when completed, redeems once, and the pound it got
\* for its reward earns nothing.
THEOREM RewardsAreEarned == Spec => []RewardsFollowOrders
BY StampsAlways, OrdersAreServed, PTL

\* No completion of a registered customer's order that was paid a pound or more
\* is without its entry.
THEOREM NoStampsAreLost == Spec => []CompletionsAccrue
BY StampsAlways, OrdersAreServed, PTL

\* A request id is on one card once, whatever is retried, and whoever was told
\* that the grant was made finds it.
THEOREM GrantsAreMadeOnce == Spec => []GrantedOnce
<1>1. StampsInv => GrantedOnce
  BY AtMostOneCounts DEF StampsInv, GrantsInv, GrantOK, GrantedOnce
<1> QED BY <1>1, StampsAlways, PTL

-----------------------------------------------------------------------------
(* StampProgram *)

Stays == UNCHANGED <<Balances, Sales, Granted>>

LEMMA SalesType ==
    ASSUME TypeOK
    PROVE  /\ Sales = [o \in Orders |-> Sales[o]]
           /\ Balances = [c \in Customers |-> Balances[c]]
           /\ \A o \in Orders :
                 /\ Sales[o] = [status |-> Status(o), customer |-> order[o].customer,
                                weight |-> order[o].weight,
                                reward |-> OfOrder(o, "REDEEMED") # {}]
                 /\ Sales[o].status = Status(o) /\ Sales[o].customer = order[o].customer
                 /\ Sales[o].weight = order[o].weight
                 /\ Sales[o].reward = (OfOrder(o, "REDEEMED") # {})
           /\ \A c \in Customers : Balances[c] = card[c].stamps /\ card[c].stamps \in Int
BY DEF Sales, Balances, Status, TypeOK, CardRow

\* Only the order written changes its sale, and only the card written its balance.
LEMMA OneSale ==
    ASSUME NEW o \in Orders, Writes(o)
    PROVE  Sales' = [Sales EXCEPT ![o] = Sales'[o]]
<1>1. \A p \in Orders \ {o} : OfOrder(p, "REDEEMED")' = OfOrder(p, "REDEEMED")
  BY DEF Writes, Kind
<1>2. \A p \in Orders \ {o} : Sales'[p] = Sales[p]
  BY <1>1 DEF Writes, Sales
<1> QED BY <1>2 DEF Sales

LEMMA OneBalance ==
    ASSUME TypeOK, NEW c \in Customers, NEW row, card' = [card EXCEPT ![c] = row]
    PROVE  /\ Balances' = [Balances EXCEPT ![c] = row.stamps]
           /\ Balances'[c] = row.stamps
<1>1. card'[c] = row /\ \A d \in Customers \ {c} : card'[d] = card[d]
  BY DEF TypeOK
<1>2. /\ Balances = [d \in Customers |-> card[d].stamps]
      /\ Balances' = [d \in Customers |-> card'[d].stamps]
  BY DEF Balances
<1>3. /\ Balances'[c] = row.stamps
      /\ \A d \in Customers \ {c} : Balances'[d] = Balances[d]
  BY ONLY <1>1, <1>2
<1>4. Balances' = [d \in Customers |-> IF d = c THEN row.stamps ELSE Balances[d]]
  BY ONLY <1>2, <1>3
<1>5. [Balances EXCEPT ![c] = row.stamps]
        = [d \in Customers |-> IF d = c THEN row.stamps ELSE Balances[d]]
  BY ONLY <1>2
<1> QED BY ONLY <1>3, <1>4, <1>5

LEMMA GrantedStays ==
    ASSUME \A g \in Grants : UnderId(g)' = UnderId(g)
    PROVE  UNCHANGED Granted
BY DEF Granted

LEMMA NoSale ==
    ASSUME NothingSold
    PROVE  UNCHANGED Sales
BY DEF NothingSold, Sales, Kind

\* A checkout that commits is a purchase.
LEMMA PlacesIsBuy ==
    ASSUME StampsInv, StampsInv', NEW w \in Workers, CommitOrder(w) \/ Redeem(w)
    PROVE  \E o \in Orders : Program!Buy(o)
<1>1. PICK o, c : o = job[w].order /\ c = job[w].customer
  OBVIOUS
<1>2. TypeOK /\ TypeOK'
  BY DEF StampsInv, CardsInv
<1>3. Places(w, o, c)
  BY <1>1, CommitOrderPlaces, RedeemPlaces
<1>4. /\ o \in Orders /\ Sales' = [Sales EXCEPT ![o] = Sales'[o]]
      /\ order'[o] = [status |-> "OPEN", customer |-> c, weight |-> job[w].weight]
      /\ Status(o) = "NONE" /\ UNCHANGED Granted
  BY <1>2, <1>3, OneSale, GrantedStays DEF Places, TypeOK
<1>5. Sales[o].status = "NONE"
  BY <1>2, <1>4, SalesType
<1>6. /\ Sales'[o].status = "OPEN" /\ Sales'[o].customer = c
      /\ Sales'[o].weight = job[w].weight
      /\ Sales'[o].reward = (OfOrder(o, "REDEEMED")' # {})
  BY <1>4 DEF Sales
<1>7. CASE CommitOrder(w)
  <2>1. OfOrder(o, "REDEEMED")' = {} /\ UNCHANGED card
    BY <1>1, <1>7, CommitOrderPlaces
  <2>2. Sales'[o].reward = FALSE /\ UNCHANGED Balances
    BY <1>6, <2>1 DEF Balances
  <2> QED BY <1>4, <1>5, <1>6, <2>2 DEF Program!Buy
<1>8. CASE Redeem(w)
  <2>1. /\ \E x : x[1] = c /\ OfOrder(o, "REDEEMED")' = {x}
        /\ c \in Customers /\ job[w].weight >= 2 /\ card[c].stamps >= Cost
        /\ \E row : row.stamps = card[c].stamps - Cost /\ card' = [card EXCEPT ![c] = row]
    BY <1>1, <1>8, RedeemPlaces
  <2>2. /\ Sales'[o].reward /\ c # Guest /\ Balances[c] >= Cost
        /\ Balances' = [Balances EXCEPT ![c] = @ - Cost]
    <3>1. PICK row : row.stamps = card[c].stamps - Cost /\ card' = [card EXCEPT ![c] = row]
      BY <2>1
    <3>2. Balances' = [Balances EXCEPT ![c] = row.stamps] /\ Balances[c] = card[c].stamps
      BY <1>2, <2>1, <3>1, OneBalance, SalesType
    <3> QED BY <1>6, <2>1, <3>1, <3>2, CardAssumption
  <2> QED BY <1>4, <1>5, <1>6, <2>1, <2>2 DEF Program!Buy
<1> QED BY <1>7, <1>8

LEMMA StatusIsSale ==
    ASSUME TypeOK, NEW o \in Orders, NEW status, order' = [order EXCEPT ![o].status = status],
           Writes(o), OfOrder(o, "REDEEMED")' = OfOrder(o, "REDEEMED")
    PROVE  Sales' = [Sales EXCEPT ![o].status = status]
<1>1. Sales' = [Sales EXCEPT ![o] = Sales'[o]]
  BY OneSale
<1>2. /\ Status(o)' = status /\ order'[o].customer = order[o].customer
      /\ order'[o].weight = order[o].weight
  BY StatusSet
<1>3. Sales'[o] = [status |-> status, customer |-> order[o].customer,
                   weight |-> order[o].weight, reward |-> OfOrder(o, "REDEEMED") # {}]
  BY <1>2 DEF Sales, Status
<1>4. Sales[o] = [status |-> Status(o), customer |-> order[o].customer,
                  weight |-> order[o].weight, reward |-> OfOrder(o, "REDEEMED") # {}]
  BY SalesType
<1>5. Sales'[o] = [Sales[o] EXCEPT !.status = status]
  BY <1>3, <1>4
<1> QED BY <1>1, <1>5

\* The whole pounds paid for, of the order and of its sale.
LEMMA PoundsOfSale ==
    ASSUME TypeOK, NEW o \in Orders, OrderOK(o), OfOrder(o, "EARNED") = {}
    PROVE  Program!Earned(Sales[o]) = EarnedStamps(o) /\ EarnedStamps(o) \in Nat
<1>1. /\ Sales[o].weight = order[o].weight
      /\ (IF Sales[o].reward THEN 2 ELSE 0) = Free(o)
  BY SalesType DEF Free
<1> QED BY <1>1, EarnedPays DEF Program!Earned

LEMMA CreditFills ==
    ASSUME NEW n \in Nat, NEW b \in Int, b <= Cap
    PROVE  b + Credited(n, b) = Program!Full(b + n)
BY CardAssumption DEF Credited, Program!Full

LEMMA AccrueIsFinish ==
    ASSUME StampsInv, NEW w \in Workers, Accrue(w)
    PROVE  \E o \in Orders : Program!Finish(o)
<1>1. PICK o, c : o = job[w].order /\ c = job[w].customer
  OBVIOUS
<1>2. Accrues(w, o, c)
  BY <1>1, AccrueWrites
<1>3. /\ o \in Orders /\ Status(o) = "OPEN" /\ c = order[o].customer /\ c \in Customers
      /\ order' = [order EXCEPT ![o].status = "COMPLETED"]
      /\ Writes(o)
      /\ OfOrder(o, "REDEEMED")' = OfOrder(o, "REDEEMED")
      /\ OfOrder(o, "EARNED") = {}
      /\ \E x, row : LET credit == Credited(EarnedStamps(o), card[c].stamps) IN
            /\ x[1] = c /\ OfOrder(o, "EARNED")' = {x} /\ Row(x)'.delta = credit
            /\ row.stamps = card[c].stamps + credit
            /\ card' = [card EXCEPT ![c] = row]
  BY <1>2 DEF Accrues
<1>4. \A g \in Grants : UnderId(g)' = UnderId(g)
  BY <1>2 DEF Accrues
<1>5. TypeOK /\ OrderOK(o) /\ card[c].stamps <= Cap
  BY <1>3 DEF StampsInv, CardsInv, OrdersInv, CardWithinCap
<1>6. Sales' = [Sales EXCEPT ![o].status = "COMPLETED"]
  BY <1>3, <1>5, StatusIsSale
<1>7. Sales[o].status = "OPEN" /\ Sales[o].customer = c /\ c # Guest
      /\ Balances[c] = card[c].stamps /\ card[c].stamps \in Int
  BY <1>3, <1>5, SalesType, CardAssumption
<1>8. PICK row : /\ row.stamps = card[c].stamps + Credited(EarnedStamps(o), card[c].stamps)
                 /\ card' = [card EXCEPT ![c] = row]
  BY <1>3
<1>9. Balances' = [Balances EXCEPT ![c] = row.stamps]
  BY <1>3, <1>5, <1>8, OneBalance
<1>10. row.stamps = Program!Full(Balances[c] + Program!Earned(Sales[o]))
  BY <1>3, <1>5, <1>7, <1>8, PoundsOfSale, CreditFills
<1>11. UNCHANGED Granted
  BY <1>4, GrantedStays
<1>12. Balances' = [Balances EXCEPT ![c] = Program!Full(@ + Program!Earned(Sales[o]))]
  BY <1>9, <1>10
<1>13. Program!Finish(o)
  BY <1>6, <1>7, <1>11, <1>12 DEF Program!Finish
<1> QED BY <1>3, <1>13

\* A completion that ends with its claim earns nothing.
LEMMA ClaimIsFinish ==
    ASSUME StampsInv, NEW w \in Workers, ClaimOrder(w)
    PROVE  (\E o \in Orders : Program!Finish(o)) \/ Stays
<1>1. PICK o, c : o = job[w].order /\ c = job[w].customer
  OBVIOUS
<1>2. /\ o \in Orders /\ c = order[o].customer /\ c \in Customers \cup {Guest}
      /\ Status(o) = "OPEN" /\ UNCHANGED <<card, ledger>>
  BY <1>1, CompletionKnows DEF ClaimOrder, StillOpen, Status
<1>3. TypeOK /\ OrderOK(o)
  BY <1>2 DEF StampsInv, CardsInv, OrdersInv
<1>4. OfOrder(o, "EARNED") = {}
  BY <1>2, <1>3, NoEntriesYet
<1>5. /\ UNCHANGED <<Balances, Granted>>
      /\ OfOrder(o, "REDEEMED")' = OfOrder(o, "REDEEMED")
      /\ \A y \in Entries : Row(y)' = Row(y)
      /\ \A p \in Orders, k \in Kind : OfOrder(p, k)' = OfOrder(p, k)
  BY <1>2, LedgerStays, LedgerRowsStay, GrantedStays DEF Balances
<1>6. CASE c = Guest \/ EarnedStamps(o) = 0
  <2>1. order' = [order EXCEPT ![o].status = "COMPLETED"]
    BY <1>1, <1>6 DEF ClaimOrder, Completed
  <2>2. Writes(o)
    BY <1>2, <1>3, <1>5, <2>1, StatusSet DEF Writes
  <2>3. Sales' = [Sales EXCEPT ![o].status = "COMPLETED"]
    BY <1>2, <1>3, <1>5, <2>1, <2>2, StatusIsSale
  <2>4. Sales[o].status = "OPEN" /\ Sales[o].customer = c
    BY <1>2, <1>3, SalesType
  <2>5. CASE c = Guest
    BY <1>2, <1>5, <2>3, <2>4, <2>5 DEF Program!Finish
  <2>6. CASE c # Guest
    <3>1. Program!Earned(Sales[o]) = 0
      BY <1>2, <1>3, <1>4, <1>6, <2>6, PoundsOfSale
    <3>2. c \in Customers /\ Balances[c] \in Int /\ Balances[c] <= Cap
      BY <1>2, <1>3, <2>6, SalesType DEF StampsInv, CardsInv, CardWithinCap
    <3>3. Program!Full(Balances[c] + Program!Earned(Sales[o])) = Balances[c]
      BY <3>1, <3>2 DEF Program!Full
    <3>4. Balances' = [Balances EXCEPT ![c] = Program!Full(@ + Program!Earned(Sales[o]))]
      BY <1>5, <3>3 DEF Balances
    <3> QED BY <1>2, <1>5, <2>3, <2>4, <2>6, <3>4 DEF Program!Finish
  <2> QED BY <2>5, <2>6
<1>7. CASE ~ (c = Guest \/ EarnedStamps(o) = 0)
  <2>1. UNCHANGED order
    BY <1>1, <1>7 DEF ClaimOrder
  <2> QED BY <1>5, <2>1, NoSale DEF NothingSold, Stays
<1> QED BY <1>6, <1>7

LEMMA CloseIsCancel ==
    ASSUME StampsInv, NEW o \in Orders, CloseOrder(o)
    PROVE  Program!Cancel(o)
<1>1. /\ Status(o) = "OPEN" /\ UNCHANGED <<card, ledger>>
      /\ order' = [order EXCEPT ![o].status = "CLOSED"]
  BY DEF CloseOrder, StillOpen, Status
<1>2. TypeOK
  BY DEF StampsInv, CardsInv
<1>3. /\ UNCHANGED <<Balances, Granted>>
      /\ OfOrder(o, "REDEEMED")' = OfOrder(o, "REDEEMED")
  BY <1>1, LedgerStays, GrantedStays DEF Balances
<1>4. Writes(o)
  BY <1>1, StatusWriteIsOK
<1>5. Sales' = [Sales EXCEPT ![o].status = "CLOSED"] /\ Sales[o].status = "OPEN"
  BY <1>1, <1>2, <1>3, <1>4, StatusIsSale, SalesType
<1> QED BY <1>3, <1>5 DEF Program!Cancel

\* Stamps given by hand are given whole, and fit.
LEMMA GivesStamps ==
    ASSUME StampsInv, NEW w \in Workers, NEW g, NEW kind, Give(w, kind, g),
           CommitIssue(w) \/ CommitGrant(w), NEW c, c = job[w].customer
    PROVE  /\ c \in Customers /\ Program!Give(c)
           /\ \A h : h # g => UnderId(h)' = UnderId(h)
           /\ \E x : UnderId(g)' = UnderId(g) \cup {x}
<1>1. /\ job[w] # Idle /\ HoldsCard(job[w]) /\ job[w].op \in {"issue", "grant"}
  <2>1. job[w] # Idle /\ HoldsCard(job[w])
    BY Working DEF CommitIssue, CommitGrant, StampsInv, CardsInv, HoldsCard
  <2>2. RequestOK(w, job[w]) /\ job[w].op \in {"checkout", "complete", "issue", "grant"}
    BY <2>1, RequestTypes DEF StampsInv, CardsInv, HoldersInv
  <2> QED BY <2>1, <2>2 DEF CommitIssue, CommitGrant, RequestOK, PhasesOK
<1>2. PICK n : n = job[w].stamps
  OBVIOUS
<1>3. c \in Customers /\ job[w].seen = card[c].stamps /\ TypeOK /\ n > 0 /\ n \in Nat
  BY <1>1, <1>2, RequestTypes
     DEF StampsInv, CardsInv, HoldersInv, RequestOK, ServedInv, ServesOK
<1>4. card[c].stamps \in Int /\ card[c] \in CardRow /\ card \in [Customers -> CardRow]
  BY <1>3 DEF TypeOK, CardRow
<1>5. card[c].stamps + n <= Cap
  BY <1>2, <1>3, <1>4, CardAssumption DEF CommitIssue, CommitGrant, HasRoom
<1>6. card' = [card EXCEPT ![c].stamps = @ + n, ![c].lifetime = @ + n] /\ UNCHANGED order
  BY <1>2 DEF Give
<1>7. PICK row : row = [card[c] EXCEPT !.stamps = @ + n, !.lifetime = @ + n]
  OBVIOUS
<1>8. row.stamps = card[c].stamps + n
  BY <1>4, <1>7 DEF CardRow
<1>9. card' = [card EXCEPT ![c] = row]
  BY <1>3, <1>4, <1>6, <1>7
<1>10. /\ Balances' = [Balances EXCEPT ![c] = row.stamps] /\ Balances'[c] = row.stamps
       /\ Balances[c] = card[c].stamps
  BY <1>3, <1>9, OneBalance, SalesType
<1>11. PICK e : e.grant = g /\ e.order = NoOrder /\ Record(c, e)
  BY DEF Give, Entry
<1>12. Writes(NoOrder)
  BY <1>3, <1>6, <1>11, RecordWrites
<1>13. UNCHANGED Sales
  BY <1>6, <1>12, NoSale, CardAssumption DEF Writes, NothingSold
<1>14. Program!Give(c)
  <2>1. Balances'[c] > Balances[c] /\ Balances'[c] <= Cap
    BY <1>3, <1>4, <1>5, <1>8, <1>10, CardAssumption
  <2>2. Balances' = [Balances EXCEPT ![c] = Balances'[c]]
    BY <1>10
  <2> QED BY <1>13, <2>1, <2>2 DEF Program!Give
<1>15. /\ \A h : h # e.grant => UnderId(h)' = UnderId(h)
       /\ \E x : UnderId(e.grant)' = UnderId(e.grant) \cup {x}
  BY ONLY <1>3, <1>11, RecordIds
<1> QED BY <1>3, <1>11, <1>14, <1>15

LEMMA IssueIsIssue ==
    ASSUME StampsInv, NEW w \in Workers, CommitIssue(w)
    PROVE  \E c \in Customers : Program!Issue(c)
<1>1. PICK c : c = job[w].customer
  OBVIOUS
<1>2. Give(w, "EARNED", NoGrant)
  BY DEF CommitIssue
<1>3. c \in Customers /\ Program!Give(c) /\ \A h : h # NoGrant => UnderId(h)' = UnderId(h)
  BY <1>1, <1>2, GivesStamps
<1>4. UNCHANGED Granted
  BY <1>3, GrantedStays, CardAssumption
<1> QED BY <1>3, <1>4 DEF Program!Issue

LEMMA GrantIsGrant ==
    ASSUME StampsInv, NEW w \in Workers, CommitGrant(w)
    PROVE  \E c \in Customers, g \in Grants : Program!Grant(c, g)
<1>1. PICK c, g : c = job[w].customer /\ g = job[w].grant
  OBVIOUS
<1>2. Give(w, "ADMIN_GRANTED", g) /\ UnderId(g) = {}
  BY <1>1 DEF CommitGrant
<1>3. /\ c \in Customers /\ Program!Give(c)
      /\ \A h : h # g => UnderId(h)' = UnderId(h)
      /\ \E x : UnderId(g)' = UnderId(g) \cup {x}
  BY <1>1, <1>2, GivesStamps
<1>4. g \in Grants
  <2>1. job[w] # Idle /\ job[w].phase = "credit"
    BY Working DEF CommitGrant, StampsInv, CardsInv
  <2>2. RequestOK(w, job[w]) /\ job[w].op \in {"checkout", "complete", "issue", "grant"}
    BY <2>1, RequestTypes DEF StampsInv, CardsInv, HoldersInv
  <2> QED BY <1>1, <2>1, <2>2 DEF RequestOK, PhasesOK
<1>5. g \notin Granted /\ Granted' = Granted \cup {g}
  BY <1>2, <1>3, <1>4 DEF Granted
<1> QED BY <1>3, <1>4, <1>5 DEF Program!Grant

\* Every step is one of the program's, or changes nothing it shows.
LEMMA StepsAreProgram ==
    ASSUME StampsInv, StampsInv', Next
    PROVE  Program!Next \/ Stays
<1>1. ASSUME UNCHANGED <<card, ledger, order>> PROVE Stays
  BY <1>1, LedgerStays, LedgerRowsStay, NoSale, GrantedStays
     DEF Balances, Stays, NothingSold
<1>2. ASSUME NEW w \in Workers, Arrive(w)
      PROVE  Stays
  BY <1>1, <1>2, ArriveServes DEF data
<1>3. ASSUME NEW w \in Workers, Crash(w)
      PROVE  Stays
  BY <1>1, <1>3 DEF Crash, GiveUp
<1>4. ASSUME NEW w \in Workers, Progress(w)
      PROVE  Program!Next \/ Stays
  <2>1. CASE CommitOrder(w) \/ Redeem(w)
    BY <2>1, PlacesIsBuy DEF Program!Next
  <2>2. CASE Accrue(w)
    BY <2>2, AccrueIsFinish DEF Program!Next
  <2>3. CASE ClaimOrder(w)
    BY <2>3, ClaimIsFinish DEF Program!Next
  <2>4. CASE CommitIssue(w)
    BY <2>4, IssueIsIssue DEF Program!Next
  <2>5. CASE CommitGrant(w)
    BY <2>5, GrantIsGrant DEF Program!Next
  <2>6. CASE \/ LockCard(w) \/ RefuseRedeem(w) \/ OrderConflict(w) \/ RefuseIssue(w)
             \/ ReplayGrant(w) \/ NewGrant(w) \/ RefuseGrant(w) \/ CollideGrant(w)
    <3>1. UNCHANGED <<card, ledger, order>>
      BY <2>6 DEF LockCard, RefuseRedeem, OrderConflict, RefuseIssue, ReplayGrant, NewGrant,
                  RefuseGrant, CollideGrant, GiveUp, data
    <3> QED BY <1>1, <3>1
  <2> QED BY <1>4, <2>1, <2>2, <2>3, <2>4, <2>5, <2>6 DEF Progress
<1>5. ASSUME NEW o \in Orders, CloseOrder(o)
      PROVE  Program!Next
  BY <1>5, CloseIsCancel DEF Program!Next
<1> QED BY <1>2, <1>3, <1>4, <1>5 DEF Next

\* All transactions together, however they interleave, fail and are retried,
\* are a stamp program kept with one hand: what each customer has, each order
\* got and each grant gave changes in one step of StampProgram at a time.
THEOREM StampsAreAProgram == Spec => ImplementsProgram
<1>1. Init => Program!Init
  <2> SUFFICES ASSUME Init PROVE Program!Init
    OBVIOUS
  <2>1. Entries = {}
    BY DEF Init, Entries
  <2>2. /\ \A o \in Orders : OfOrder(o, "REDEEMED") = {}
        /\ \A g \in Grants : UnderId(g) = {}
    BY <2>1 DEF OfOrder, UnderId
  <2> QED BY <2>2 DEF Init, Program!Init, Balances, Sales, Granted
<1>2. ASSUME StampsInv, StampsInv', [Next]_vars
      PROVE  [Program!Next]_<<Balances, Sales, Granted>>
  <2>1. CASE Next
    BY <1>2, <2>1, StepsAreProgram DEF Stays
  <2>2. CASE UNCHANGED vars
    BY <2>2, LedgerStays, LedgerRowsStay, NoSale, GrantedStays
       DEF vars, Balances, NothingSold
  <2> QED BY <1>2, <2>1, <2>2
<1> QED BY <1>1, <1>2, StampsAlways, PTL DEF Spec, ImplementsProgram, Program!Spec
=============================================================================
