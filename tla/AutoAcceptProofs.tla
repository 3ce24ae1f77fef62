--------------------------- MODULE AutoAcceptProofs ---------------------------
(***************************************************************************)
(* For any orders, locations, tablets and crashes, a placed order is never *)
(* forgotten, is accepted at most once, and never waits for a review in    *)
(* the kitchen's hands.                                                    *)
(***************************************************************************)
EXTENDS AutoAccept, TLAPS

\* An order no longer placed is never placed again, so whoever accepts it is
\* the first to do so.
AcceptsFollowStatus ==
    \A o \in Orders :
        /\ order[o].status \in {"NONE", "PLACED"} => accepts[o] = 0
        /\ accepts[o] <= 1

\* The inductive invariant: the four parts need one another's types only.
AcceptInv == TypeOK /\ AcceptedIsReviewed /\ NobodyForgotten /\ AcceptsFollowStatus

-----------------------------------------------------------------------------
(* Types *)

LEMMA InitTyped == Init => TypeOK
<1> SUFFICES ASSUME Init PROVE TypeOK
  OBVIOUS
<1>1. order \in [Orders -> [status : OrderStatus, review : BOOLEAN]] /\ accepts \in [Orders -> Nat]
  BY DEF Init, OrderStatus
<1>2. /\ timers \in [Orders -> Source \cup {"none"}]
      /\ job \in [Orders -> [Source -> {"idle", "read", "accept", "flag"}]]
  BY DEF Init, NoJobs
<1>3. /\ conn \in [Sockets -> {"new", "open", "gone"}]
      /\ socketsAt \in [Locations -> SUBSET Sockets]
      /\ locationBy \in [Sockets -> Locations \cup {NoLocation}]
      /\ lastSeen \in [Locations -> {"never", "recent", "old"}]
  BY DEF Init
<1>4. crashes \in 0 .. MaxCrashes
  BY AcceptAssumption DEF Init
<1> QED BY <1>1, <1>2, <1>3, <1>4 DEF Init, TypeOK

LEMMA RowsTyped ==
    ASSUME TypeOK, People
    PROVE  TypeOK'
<1>1. CASE \E o \in Orders : PlaceOrder(o)
  BY <1>1 DEF PlaceOrder, TypeOK, OrderStatus, gateway, presence
<1>2. CASE \E o \in Orders : AcceptOrder(o)
  BY <1>2 DEF AcceptOrder, Accepted, TypeOK, OrderStatus, memory, gateway, presence
<1>3. CASE \E o \in Orders : CloseOrder(o)
  <2>1. order' \in [Orders -> [status : OrderStatus, review : BOOLEAN]]
    <3>1. PICK o \in Orders : order' = [order EXCEPT ![o].status = "CLOSED"]
      BY <1>3 DEF CloseOrder
    <3>2. order \in [Orders -> [status : OrderStatus, review : BOOLEAN]]
      BY DEF TypeOK
    <3> QED BY <3>1, <3>2 DEF OrderStatus
  <2> QED BY <1>3, <2>1 DEF CloseOrder, TypeOK, memory, gateway, presence
<1> QED BY <1>1, <1>2, <1>3 DEF People

LEMMA TimersTyped ==
    ASSUME TypeOK, Scheduler
    PROVE  TypeOK'
<1>1. CASE \E o \in Orders : ScheduleOrder(o)
  BY <1>1 DEF ScheduleOrder, Arm, TypeOK, Source, rows, gateway, presence
<1>2. CASE \E o \in Orders : Fire(o)
  BY <1>2 DEF Fire, TypeOK, Source, rows, gateway, presence
<1>3. CASE RecoverPendingOrders
  BY <1>3 DEF RecoverPendingOrders, ToArm, TypeOK, rows, gateway, presence
<1>4. CASE ArmRecovered
  BY <1>4 DEF ArmRecovered, TypeOK, Source, rows, gateway, presence
<1>5. CASE \E o \in Orders, source \in Source : ProcessOrder(o, source)
  BY <1>5 DEF ProcessOrder, Go, TypeOK, rows, gateway, presence
<1>6. CASE \E o \in Orders, source \in Source : SystemAutoAccept(o, source)
  <2>1. /\ order' \in [Orders -> [status : OrderStatus, review : BOOLEAN]]
        /\ accepts' \in [Orders -> Nat]
    <3>1. (\E o \in Orders : Accepted(o)) \/ UNCHANGED <<order, accepts>>
      BY <1>6 DEF SystemAutoAccept, rows
    <3>2. CASE \E o \in Orders : Accepted(o)
      BY <3>2 DEF Accepted, TypeOK, OrderStatus
    <3> QED BY <3>1, <3>2 DEF TypeOK
  <2>2. \E o \in Orders, source \in Source :
           job' = [job EXCEPT ![o][source] = "idle"]
    BY <1>6 DEF SystemAutoAccept, Go
  <2>3. job' \in [Orders -> [Source -> {"idle", "read", "accept", "flag"}]]
    BY <2>2 DEF TypeOK
  <2> QED BY <1>6, <2>1, <2>3 DEF SystemAutoAccept, TypeOK, gateway, presence
<1>7. CASE \E o \in Orders, source \in Source : FlagForManualReview(o, source)
  <2>1. order' \in [Orders -> [status : OrderStatus, review : BOOLEAN]]
    <3>1. PICK o \in Orders : order' = order \/ order' = [order EXCEPT ![o].review = TRUE]
      BY <1>7 DEF FlagForManualReview
    <3>2. order \in [Orders -> [status : OrderStatus, review : BOOLEAN]]
      BY DEF TypeOK
    <3> QED BY <3>1, <3>2
  <2>2. \E o \in Orders, source \in Source :
           job' = [job EXCEPT ![o][source] = "idle"]
    BY <1>7 DEF FlagForManualReview, Go
  <2>3. job' \in [Orders -> [Source -> {"idle", "read", "accept", "flag"}]]
    BY <2>2 DEF TypeOK
  <2> QED BY <1>7, <2>1, <2>3 DEF FlagForManualReview, TypeOK, gateway, presence
<1> QED BY <1>1, <1>2, <1>3, <1>4, <1>5, <1>6, <1>7 DEF Scheduler

LEMMA FaultsTyped ==
    ASSUME TypeOK, Faults
    PROVE  TypeOK'
<1>1. CASE \E o \in Orders : ScheduleFails(o)
  BY <1>1 DEF ScheduleFails, TypeOK, rows, gateway, presence
<1>2. CASE \E o \in Orders, source \in Source : ProcessFails(o, source)
  BY <1>2 DEF ProcessFails, Go, TypeOK, rows, gateway, presence
<1>3. CASE RecoveryFails
  BY <1>3 DEF RecoveryFails, Placed, TypeOK, rows, gateway, presence
<1>4. CASE Crash
  <2>1. timers' = [o \in Orders |-> "none"] /\ job' = [o \in Orders |-> [source \in Source |-> "idle"]]
    BY <1>4 DEF Crash, NoJobs
  <2>2. /\ conn' \in [Sockets -> {"new", "open", "gone"}]
        /\ socketsAt' \in [Locations -> SUBSET Sockets]
        /\ locationBy' \in [Sockets -> Locations \cup {NoLocation}]
        /\ lastSeen' \in [Locations -> {"never", "recent", "old"}]
    BY <1>4 DEF Crash, TypeOK
  <2>3. crashes' \in 0 .. MaxCrashes
    <3>1. crashes \in 0 .. MaxCrashes /\ crashes < MaxCrashes /\ crashes' = crashes + 1
      BY <1>4 DEF Crash, TypeOK
    <3>2. MaxCrashes \in Nat
      BY AcceptAssumption
    <3> QED BY <3>1, <3>2
  <2>4. /\ order' \in [Orders -> [status : OrderStatus, review : BOOLEAN]]
        /\ accepts' \in [Orders -> Nat]
    BY <1>4 DEF Crash, TypeOK, rows
  <2>5. /\ failed' = {} /\ up' = FALSE /\ recovery' = "off" /\ recovered' = {}
        /\ scheduling' = {} /\ subscribing' = {} /\ closing' = {} /\ room' = {}
    BY <1>4 DEF Crash
  <2>6. /\ timers' \in [Orders -> Source \cup {"none"}]
        /\ job' \in [Orders -> [Source -> {"idle", "read", "accept", "flag"}]]
    BY <2>1
  <2> QED BY <2>2, <2>3, <2>4, <2>5, <2>6 DEF TypeOK
<1> QED BY <1>1, <1>2, <1>3, <1>4 DEF Faults

LEMMA PresenceTyped ==
    ASSUME TypeOK, NEW s \in Sockets,
           MarkSubscribed(s) \/ (\E keeps \in BOOLEAN : MarkGone(s, keeps))
    PROVE  /\ socketsAt' \in [Locations -> SUBSET Sockets]
           /\ locationBy' \in [Sockets -> Locations \cup {NoLocation}]
           /\ lastSeen' \in [Locations -> {"never", "recent", "old"}]
<1>1. CASE MarkSubscribed(s)
  BY <1>1, AcceptAssumption DEF MarkSubscribed, TypeOK
<1>2. ASSUME NEW keeps \in BOOLEAN, MarkGone(s, keeps)
      PROVE  /\ socketsAt' \in [Locations -> SUBSET Sockets]
             /\ locationBy' \in [Sockets -> Locations \cup {NoLocation}]
             /\ lastSeen' \in [Locations -> {"never", "recent", "old"}]
  <2>1. CASE locationBy[s] = NoLocation
    BY <1>2, <2>1 DEF MarkGone, presence, TypeOK
  <2>2. CASE locationBy[s] # NoLocation
    <3>1. locationBy[s] \in Locations
      BY <2>2 DEF TypeOK
    <3>2. RemoveSocket(s, keeps)
      BY <1>2, <2>2 DEF MarkGone
    <3> QED BY <3>1, <3>2 DEF RemoveSocket, WithoutSocket, TypeOK
  <2> QED BY <2>1, <2>2
<1> QED BY <1>1, <1>2

LEMMA TabletsTyped ==
    ASSUME TypeOK, Tablets
    PROVE  TypeOK'
<1>1. CASE \E s \in Sockets : Connect(s)
  BY <1>1 DEF Connect, TypeOK, rows, memory, presence
<1>2. CASE \E s \in Sockets : Subscribe(s)
  BY <1>2 DEF Subscribe, TypeOK, rows, memory, presence
<1>3. CASE \E s \in Sockets : JoinRoom(s)
  BY <1>3, PresenceTyped DEF JoinRoom, TypeOK, rows, memory
<1>4. CASE \E s \in Sockets : RefuseSubscription(s)
  BY <1>4 DEF RefuseSubscription, TypeOK, rows, memory, presence
<1>5. CASE \E s \in Sockets : Unsubscribe(s)
  <2>1. PICK s \in Sockets : Unsubscribe(s)
    BY <1>5
  <2>2. /\ socketsAt' \in [Locations -> SUBSET Sockets]
        /\ locationBy' \in [Sockets -> Locations \cup {NoLocation}]
        /\ lastSeen' \in [Locations -> {"never", "recent", "old"}]
    <3>1. \E keeps \in BOOLEAN : MarkGone(s, keeps)
      BY <2>1 DEF Unsubscribe
    <3> QED BY <3>1, PresenceTyped
  <2> QED BY <2>1, <2>2 DEF Unsubscribe, TypeOK, rows, memory
<1>6. CASE \E s \in Sockets : Disconnect(s)
  <2>1. PICK s \in Sockets : Disconnect(s)
    BY <1>6
  <2>2. /\ socketsAt' \in [Locations -> SUBSET Sockets]
        /\ locationBy' \in [Sockets -> Locations \cup {NoLocation}]
        /\ lastSeen' \in [Locations -> {"never", "recent", "old"}]
    <3>1. \E keeps \in BOOLEAN : MarkGone(s, keeps)
      BY <2>1 DEF Disconnect
    <3> QED BY <3>1, PresenceTyped
  <2> QED BY <2>1, <2>2 DEF Disconnect, TypeOK, rows, memory
<1>7. CASE \E l \in Locations : GraceEnds(l)
  BY <1>7 DEF GraceEnds, TypeOK, rows, memory, gateway
<1>8. CASE \E l \in Locations : FindNoTickets(l)
  BY <1>8 DEF FindNoTickets, TypeOK, rows, memory, presence
<1>9. CASE \E l \in Locations : CloseLocation(l)
  BY <1>9 DEF CloseLocation, TypeOK, rows, memory
<1> QED BY <1>1, <1>2, <1>3, <1>4, <1>5, <1>6, <1>7, <1>8, <1>9 DEF Tablets

LEMMA StepTyped ==
    ASSUME TypeOK, [Next]_vars
    PROVE  TypeOK'
<1>1. CASE Start
  BY <1>1 DEF Start, Recovers, TypeOK, rows, gateway, presence
<1>2. CASE UNCHANGED vars
  BY <1>2 DEF TypeOK, vars, rows, memory, gateway, presence
<1> QED
  BY <1>1, <1>2, RowsTyped, TimersTyped, FaultsTyped, TabletsTyped DEF Next

-----------------------------------------------------------------------------
(* Orders *)

\* What tablets do touches neither orders nor timers.
LEMMA TabletsTouchNoOrder ==
    ASSUME Tablets
    PROVE  UNCHANGED <<rows, up, memory>>
BY DEF Tablets, Connect, Subscribe, JoinRoom, RefuseSubscription, Unsubscribe,
       Disconnect, GraceEnds, FindNoTickets, CloseLocation

\* Every step leaves the orders as they are, or is one of these three.
LEMMA StepOfOrders ==
    ASSUME TypeOK, [Next]_vars
    PROVE  \/ UNCHANGED rows
           \/ \E o \in Orders : Placed(o) /\ Accepted(o)
           \/ /\ UNCHANGED accepts
              /\ \E o \in Orders :
                    \/ order[o].status = "NONE" /\ order' = [order EXCEPT ![o].status = "PLACED"]
                    \/ Active(o) /\ order' = [order EXCEPT ![o].status = "CLOSED"]
                    \/ Placed(o) /\ order' = [order EXCEPT ![o].review = TRUE]
<1>1. CASE People
  BY <1>1 DEF People, PlaceOrder, AcceptOrder, CloseOrder
<1>2. CASE Scheduler
  BY <1>2 DEF Scheduler, ScheduleOrder, Fire, RecoverPendingOrders, ArmRecovered, ProcessOrder,
     SystemAutoAccept, ClaimsPlaced, FlagForManualReview, FlagsPlaced, rows
<1>3. CASE Faults
  BY <1>3 DEF Faults, ScheduleFails, ProcessFails, RecoveryFails, Crash
<1>4. CASE Tablets
  BY <1>4, TabletsTouchNoOrder
<1>5. CASE Start \/ UNCHANGED vars
  BY <1>5 DEF Start, vars
<1> QED BY <1>1, <1>2, <1>3, <1>4, <1>5 DEF Next

LEMMA OrdersStep ==
    ASSUME AcceptInv, [Next]_vars
    PROVE  /\ AcceptedIsReviewed'
           /\ AcceptsFollowStatus'
           /\ \A o \in Orders : order[o].status = "CLOSED" => order'[o] = order[o]
<1> USE DEF AcceptInv, TypeOK, OrderStatus, AcceptedIsReviewed, AcceptsFollowStatus
<1>1. CASE UNCHANGED rows
  BY <1>1 DEF rows
<1>2. CASE \E o \in Orders : Placed(o) /\ Accepted(o)
  BY <1>2 DEF Placed, Accepted
<1>3. ASSUME UNCHANGED accepts, NEW o \in Orders, order[o].status = "NONE",
             order' = [order EXCEPT ![o].status = "PLACED"]
      PROVE  /\ AcceptedIsReviewed'
             /\ AcceptsFollowStatus'
             /\ \A p \in Orders : order[p].status = "CLOSED" => order'[p] = order[p]
  BY <1>3
<1>4. ASSUME UNCHANGED accepts, NEW o \in Orders, Active(o),
             order' = [order EXCEPT ![o].status = "CLOSED"]
      PROVE  /\ AcceptedIsReviewed'
             /\ AcceptsFollowStatus'
             /\ \A p \in Orders : order[p].status = "CLOSED" => order'[p] = order[p]
  BY <1>4 DEF Active
<1>5. ASSUME UNCHANGED accepts, NEW o \in Orders, Placed(o),
             order' = [order EXCEPT ![o].review = TRUE]
      PROVE  /\ AcceptedIsReviewed'
             /\ AcceptsFollowStatus'
             /\ \A p \in Orders : order[p].status = "CLOSED" => order'[p] = order[p]
  BY <1>5 DEF Placed
<1> QED BY <1>1, <1>2, <1>3, <1>4, <1>5, StepOfOrders

-----------------------------------------------------------------------------
(* Timers *)

\* The hands an order can be in.
InHand(o) ==
    ~ up \/ recovery = "waiting" \/ o \in recovered \/ ~ InNoHands(o)

\* A step of the scheduler passes an order on or brings it to its end.
LEMMA SchedulerPassesOn ==
    ASSUME TypeOK, Scheduler, NEW o \in Orders, Pending(o)', Pending(o) => InHand(o)
    PROVE  InHand(o)'
<1> USE DEF TypeOK, Pending, Placed, IsAutomatic, InHand, InNoHands
<1>1. CASE \E p \in Orders : ScheduleOrder(p)
  BY <1>1 DEF ScheduleOrder, Arm, rows
<1>2. CASE \E p \in Orders : Fire(p)
  BY <1>2 DEF Fire, rows, Source
<1>3. CASE RecoverPendingOrders
  BY <1>3 DEF RecoverPendingOrders, ToArm, rows
<1>4. CASE ArmRecovered
  BY <1>4 DEF ArmRecovered, rows, Source
<1>5. CASE \E p \in Orders, source \in Source : ProcessOrder(p, source)
  BY <1>5 DEF ProcessOrder, Go, rows, Source
<1>6. CASE \E p \in Orders, source \in Source : SystemAutoAccept(p, source)
  BY <1>6 DEF SystemAutoAccept, ClaimsPlaced, Accepted, Go, rows, Source
<1>7. CASE \E p \in Orders, source \in Source : FlagForManualReview(p, source)
  BY <1>7 DEF FlagForManualReview, FlagsPlaced, Go, Source
<1> QED BY <1>1, <1>2, <1>3, <1>4, <1>5, <1>6, <1>7 DEF Scheduler

LEMMA TimersStep ==
    ASSUME TypeOK, NobodyForgotten, [Next]_vars
    PROVE  NobodyForgotten'
<1> SUFFICES ASSUME NEW o \in Orders, Pending(o)', Pending(o) => InHand(o)
             PROVE  InHand(o)'
  BY DEF NobodyForgotten, InHand
<1> USE DEF TypeOK, Pending, Placed, IsAutomatic, InHand, InNoHands
<1>1. CASE Scheduler
  BY <1>1, SchedulerPassesOn
<1>2. CASE People
  <2>1. CASE \E p \in Orders : PlaceOrder(p)
    BY <2>1 DEF PlaceOrder
  <2>2. CASE \E p \in Orders : AcceptOrder(p)
    BY <2>2 DEF AcceptOrder, Accepted, memory
  <2>3. CASE \E p \in Orders : CloseOrder(p)
    BY <2>3 DEF CloseOrder, memory
  <2> QED BY <1>2, <2>1, <2>2, <2>3 DEF People
<1>3. CASE Faults
  BY <1>3 DEF Faults, ScheduleFails, ProcessFails, Go, RecoveryFails, Crash, rows
<1>4. CASE Tablets
  BY <1>4, TabletsTouchNoOrder DEF rows, memory
<1>5. CASE Start
  BY <1>5 DEF Start, Recovers
<1>6. CASE UNCHANGED vars
  BY <1>6 DEF vars, rows, memory
<1> QED BY <1>1, <1>2, <1>3, <1>4, <1>5, <1>6 DEF Next

-----------------------------------------------------------------------------
(* Presence *)

MapsAgree == \A s \in Sockets, l \in Locations : s \in socketsAt[l] <=> locationBy[s] = l

\* A connection is only ever present at its own station, and is present there
\* while it is open and in the room.
AtStation ==
    \A s \in Sockets :
        /\ locationBy[s] \in {NoLocation, StationOf[s]}
        /\ s \in room /\ conn[s] = "open" => locationBy[s] = StationOf[s]
        /\ s \in room \cup subscribing => conn[s] # "new"

PresenceInv == MapsAgree /\ AtStation

\* Leaving is recorded in both maps, and concerns one connection.
LEMMA GoneFromBoth ==
    ASSUME TypeOK, PresenceInv, NEW s \in Sockets, NEW keeps \in BOOLEAN, MarkGone(s, keeps)
    PROVE  /\ MapsAgree'
           /\ locationBy' = [locationBy EXCEPT ![s] = NoLocation]
<1>1. CASE locationBy[s] = NoLocation
  BY <1>1 DEF MarkGone, presence, PresenceInv, MapsAgree, TypeOK
<1>2. CASE locationBy[s] # NoLocation
  <2>1. /\ locationBy[s] \in Locations
        /\ socketsAt' = [socketsAt EXCEPT ![locationBy[s]] = @ \ {s}]
        /\ locationBy' = [locationBy EXCEPT ![s] = NoLocation]
    BY <1>2 DEF MarkGone, RemoveSocket, WithoutSocket, TypeOK
  <2> QED BY <2>1, AcceptAssumption DEF PresenceInv, MapsAgree, TypeOK
<1> QED BY <1>1, <1>2

\* A connection that joins was present nowhere else.
LEMMA JoinedInBoth ==
    ASSUME TypeOK, PresenceInv, NEW s \in Sockets, MarkSubscribed(s)
    PROVE  /\ MapsAgree'
           /\ locationBy' = [locationBy EXCEPT ![s] = StationOf[s]]
<1>1. /\ StationOf[s] \in Locations
      /\ locationBy[s] \in {NoLocation, StationOf[s]}
      /\ socketsAt' = [socketsAt EXCEPT ![StationOf[s]] = @ \cup {s}]
      /\ locationBy' = [locationBy EXCEPT ![s] = StationOf[s]]
  BY AcceptAssumption DEF MarkSubscribed, PresenceInv, AtStation
<1> QED BY <1>1, AcceptAssumption DEF PresenceInv, MapsAgree, TypeOK

LEMMA TabletsKeepPresence ==
    ASSUME TypeOK, PresenceInv, Tablets
    PROVE  PresenceInv'
<1> USE DEF PresenceInv, AtStation
<1>1. ASSUME NEW s \in Sockets, JoinRoom(s)
      PROVE  PresenceInv'
  BY <1>1, JoinedInBoth DEF JoinRoom, TypeOK
<1>2. ASSUME NEW s \in Sockets, NEW keeps \in BOOLEAN, MarkGone(s, keeps), room' = room \ {s},
             conn' = conn \/ conn' = [conn EXCEPT ![s] = "gone"], subscribing' = subscribing
      PROVE  PresenceInv'
  BY <1>2, GoneFromBoth DEF TypeOK
<1>3. CASE \E s \in Sockets : Unsubscribe(s) \/ Disconnect(s)
  BY <1>2, <1>3 DEF Unsubscribe, Disconnect
<1>4. ASSUME NEW l \in Locations, CloseLocation(l)
      PROVE  PresenceInv'
  <2> DEFINE leaving == {s \in socketsAt[l] : conn[s] = "open"}
  <2>1. /\ socketsAt' = [socketsAt EXCEPT ![l] = @ \ leaving]
        /\ locationBy' = [s \in Sockets |-> IF s \in leaving THEN NoLocation ELSE locationBy[s]]
        /\ room' = room \ leaving
        /\ conn' = conn /\ subscribing' = subscribing
    BY <1>4 DEF CloseLocation
  <2>2. \A s \in leaving : locationBy[s] = l
    BY DEF MapsAgree, TypeOK
  <2> HIDE DEF leaving
  <2>3. MapsAgree'
    BY <2>1, <2>2, AcceptAssumption DEF MapsAgree, TypeOK
  <2> QED BY <2>1, <2>3
<1>5. CASE \E s \in Sockets : Connect(s)
  BY <1>5 DEF Connect, presence, MapsAgree, TypeOK
<1>6. CASE \E s \in Sockets : Subscribe(s) \/ RefuseSubscription(s)
  BY <1>6 DEF Subscribe, RefuseSubscription, presence, MapsAgree
<1>7. CASE \E l \in Locations : GraceEnds(l) \/ FindNoTickets(l)
  BY <1>7 DEF GraceEnds, FindNoTickets, gateway, presence, MapsAgree
<1> QED BY <1>1, <1>3, <1>4, <1>5, <1>6, <1>7 DEF Tablets

LEMMA PresenceStep ==
    ASSUME TypeOK, PresenceInv, [Next]_vars
    PROVE  PresenceInv'
<1>1. CASE UNCHANGED <<gateway, presence>>
  BY <1>1 DEF PresenceInv, MapsAgree, AtStation, gateway, presence
<1>2. CASE Scheduler
  BY <1>1, <1>2 DEF Scheduler, ScheduleOrder, Fire, RecoverPendingOrders, ArmRecovered, ProcessOrder,
     SystemAutoAccept, FlagForManualReview
<1>3. CASE People \/ Start \/ UNCHANGED vars
  BY <1>1, <1>3 DEF People, PlaceOrder, AcceptOrder, CloseOrder, Start, vars
<1>4. CASE Faults
  <2>1. CASE Crash
    BY <2>1, AcceptAssumption DEF Crash, PresenceInv, MapsAgree, AtStation
  <2> QED BY <1>1, <1>4, <2>1 DEF Faults, ScheduleFails, ProcessFails, RecoveryFails
<1> QED BY <1>2, <1>3, <1>4, TabletsKeepPresence DEF Next

-----------------------------------------------------------------------------
(* Theorems *)

\* The inductive invariant.
LEMMA AcceptInductive == Spec => []AcceptInv
<1>1. Init => AcceptInv
  BY InitTyped DEF Init, AcceptInv, AcceptedIsReviewed, NobodyForgotten, AcceptsFollowStatus
<1>2. AcceptInv /\ [Next]_vars => AcceptInv'
  BY StepTyped, OrdersStep, TimersStep DEF AcceptInv
<1> QED BY <1>1, <1>2, PTL DEF Spec

\* However timers, crashes, people and tablets interleave, a placed order that
\* was neither flagged nor reported is in the hands of the checkout, a timer, a
\* running processOrder or a recovery to come.
THEOREM NobodyIsForgotten == Spec => []NobodyForgotten
<1>1. AcceptInv => NobodyForgotten
  BY DEF AcceptInv
<1> QED BY <1>1, AcceptInductive, PTL

\* An order accepted by whoever came first is not waiting for a review.
THEOREM AcceptanceReviews == Spec => [](TypeOK /\ AcceptedIsReviewed)
<1>1. AcceptInv => TypeOK /\ AcceptedIsReviewed
  BY DEF AcceptInv
<1> QED BY <1>1, AcceptInductive, PTL

\* Orders, timers and the maps of tablets are well typed.
THEOREM ServiceIsTyped == Spec => []TypeOK
BY AcceptanceReviews, PTL

\* Timers of both sources and people accept an order at most once between them,
\* and leave a closed one alone.
THEOREM AcceptedAtMostOnce == Spec => AcceptedOnce
<1>1. AcceptInv /\ AcceptInv' /\ [Next]_vars =>
        [\A o \in Orders :
            /\ accepts'[o] <= 1
            /\ order[o].status = "CLOSED" => order'[o] = order[o]]_vars
  BY OrdersStep DEF AcceptInv, AcceptsFollowStatus
<1> QED BY <1>1, AcceptInductive, PTL DEF Spec, AcceptedOnce

\* The maps of the presence service agree, and no interleaving of
\* subscriptions, disconnections and closings makes it forget a tablet that
\* receives the orders.
THEOREM WatchersAreSeen == Spec => []TabletsAreSeen
<1>1. Init => TypeOK /\ PresenceInv
  BY InitTyped, AcceptAssumption DEF Init, PresenceInv, MapsAgree, AtStation
<1>2. TypeOK /\ PresenceInv /\ [Next]_vars => (TypeOK /\ PresenceInv)'
  BY StepTyped, PresenceStep
<1>3. TypeOK /\ PresenceInv => TabletsAreSeen
  <2> SUFFICES ASSUME TypeOK, PresenceInv PROVE TabletsAreSeen
    OBVIOUS
  <2>1. ASSUME NEW s \in room, conn[s] = "open"
        PROVE  IsHealthy(StationOf[s])
    <3>1. s \in Sockets /\ StationOf[s] \in Locations
      BY AcceptAssumption DEF TypeOK
    <3>2. s \in socketsAt[StationOf[s]]
      BY <2>1, <3>1 DEF PresenceInv, AtStation, MapsAgree
    <3> QED BY <3>2 DEF IsHealthy
  <2> QED BY <2>1 DEF TabletsAreSeen, PresenceInv, MapsAgree
<1> QED BY <1>1, <1>2, <1>3, PTL DEF Spec
=============================================================================
