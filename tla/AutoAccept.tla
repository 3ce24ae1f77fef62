------------------------------ MODULE AutoAccept ------------------------------
(***************************************************************************)
(* Automatic acceptance of placed orders: a timer per order in the memory  *)
(* of the API process (KdsAutoAcceptScheduler), the tablets it believes to *)
(* be watching (KdsPresenceService), and the two guarded updates a timer   *)
(* ends in, beside the people who accept or cancel the order themselves.   *)
(* A crash loses everything but the orders.                                *)
(***************************************************************************)
EXTENDS Integers, FiniteSets

CONSTANTS
    Orders, Locations,
    Sockets,      \* connections of kitchen tablets; a reconnect is another one
    LocationOf,   \* the location of an order
    StationOf,    \* the location of the tablet behind a connection
    Automatic,    \* locations with kds_auto_accept_seconds > 0
    MaxCrashes,   \* bound: crashes of the process
    NoLocation

ASSUME AcceptAssumption ==
    /\ LocationOf \in [Orders -> Locations]
    /\ StationOf \in [Sockets -> Locations]
    /\ Automatic \subseteq Locations
    /\ MaxCrashes \in Nat
    /\ NoLocation \notin Locations

VARIABLES
    order,       \* orders, as far as acceptance looks at them
    accepts,     \* history: acceptances committed, per order
    failed,      \* history: orders whose error this process reported
    up,          \* the process runs
    crashes,
    recovery,    \* what onModuleInit started: off, waiting, arming
    recovered,   \* the orders recovery read and has not armed yet
    scheduling,  \* orders whose checkout has committed and not yet armed them
    timers,      \* who armed the timer of an order, if it has one
    job,         \* processOrder, per order and who armed the timer
    conn,        \* connections of tablets
    subscribing, \* connections with a subscription in progress
    closing,     \* locations found without active tickets after hours
    room,        \* connections in the orders room of their location
    socketsAt,   \* socketsByLocation
    locationBy,  \* locationBySocket
    lastSeen     \* lastSeenAtByLocation, against the reconnect grace

rows == <<order, accepts>>
memory == <<failed, recovery, recovered, scheduling, timers, job>>
presence == <<socketsAt, locationBy, lastSeen>>
gateway == <<conn, subscribing, closing, room>>
vars == <<rows, up, crashes, memory, gateway, presence>>

-----------------------------------------------------------------------------
(* Orders *)

Placed(o) == order[o].status = "PLACED"
Active(o) == order[o].status \in {"PLACED", "PREPARING"}
IsAutomatic(o) == LocationOf[o] \in Automatic

PlaceOrder(o) ==
    /\ up
    /\ order[o].status = "NONE"
    /\ order' = [order EXCEPT ![o].status = "PLACED"]
    /\ scheduling' = scheduling \cup {o}
    /\ UNCHANGED <<accepts, up, crashes, failed, recovery, recovered, timers, job,
                   gateway, presence>>

\* Mutant: the update of systemAutoAccept looks at the id alone.
ClaimsAnyOrder(o) == TRUE

\* where: { id, status: "PLACED" }
ClaimsPlaced(o) == Placed(o)

Accepted(o) ==
    /\ order' = [order EXCEPT ![o] = [status |-> "PREPARING", review |-> FALSE]]
    /\ accepts' = [accepts EXCEPT ![o] = @ + 1]

\* acceptOrder, by a person at a tablet.
AcceptOrder(o) ==
    /\ up
    /\ Placed(o)
    /\ Accepted(o)
    /\ UNCHANGED <<up, crashes, memory, gateway, presence>>

\* A cancellation, before or after it was accepted, or a completion.
CloseOrder(o) ==
    /\ up
    /\ Active(o)
    /\ order' = [order EXCEPT ![o].status = "CLOSED"]
    /\ UNCHANGED <<accepts, up, crashes, memory, gateway, presence>>

-----------------------------------------------------------------------------
(* Presence *)

\* Mutant: the location forgets its other tablets too.
WithoutSocketForgetful(s) ==
    [socketsAt EXCEPT ![locationBy[s]] = {}]

WithoutSocket(s) == [socketsAt EXCEPT ![locationBy[s]] = @ \ {s}]

\* removeSocket: a connection that broke keeps the grace, a deliberate
\* unsubscribe ends it.
RemoveSocket(s, keepsGrace) ==
    LET l == locationBy[s]
        left == WithoutSocket(s)[l]
    IN  /\ socketsAt' = WithoutSocket(s)
        /\ locationBy' = [locationBy EXCEPT ![s] = NoLocation]
        /\ lastSeen' = [lastSeen EXCEPT ![l] =
                          IF keepsGrace THEN "recent" ELSE IF left = {} THEN "never" ELSE @]

\* Mutant: presence is recorded under the code of the location.
MarkSubscribedByCode(s) ==
    /\ socketsAt' = [socketsAt EXCEPT ![StationOf[s]] = @ \cup {s}]
    /\ locationBy' = [locationBy EXCEPT ![s] = "LON01"]
    /\ lastSeen' = [lastSeen EXCEPT ![StationOf[s]] = "recent"]

MarkSubscribed(s) ==
    LET l == StationOf[s] IN
    /\ socketsAt' = [socketsAt EXCEPT ![l] = @ \cup {s}]
    /\ locationBy' = [locationBy EXCEPT ![s] = l]
    /\ lastSeen' = [lastSeen EXCEPT ![l] = "recent"]

MarkGone(s, keepsGrace) ==
    IF locationBy[s] = NoLocation THEN UNCHANGED presence ELSE RemoveSocket(s, keepsGrace)

IsHealthy(l) == socketsAt[l] # {} \/ lastSeen[l] = "recent"

\* Twenty seconds pass.
GraceEnds(l) ==
    /\ lastSeen[l] = "recent"
    /\ lastSeen' = [lastSeen EXCEPT ![l] = "old"]
    /\ UNCHANGED <<rows, up, crashes, memory, gateway, socketsAt, locationBy>>

-----------------------------------------------------------------------------
(* Connections of tablets *)

Connect(s) ==
    /\ up
    /\ conn[s] = "new"
    /\ conn' = [conn EXCEPT ![s] = "open"]
    /\ UNCHANGED <<rows, up, crashes, memory, subscribing, closing, room, presence>>

\* The checks of a subscription await the database.
Subscribe(s) ==
    /\ conn[s] = "open"
    /\ s \notin subscribing
    /\ subscribing' = subscribing \cup {s}
    /\ UNCHANGED <<rows, up, crashes, memory, conn, closing, room, presence>>

\* They end with the connection in the room, even if it broke meanwhile.
JoinRoom(s) ==
    /\ s \in subscribing
    /\ subscribing' = subscribing \ {s}
    /\ room' = room \cup {s}
    /\ MarkSubscribed(s)
    /\ UNCHANGED <<rows, up, crashes, memory, conn, closing>>

RefuseSubscription(s) ==
    /\ s \in subscribing
    /\ subscribing' = subscribing \ {s}
    /\ UNCHANGED <<rows, up, crashes, memory, conn, closing, room, presence>>

Unsubscribe(s) ==
    /\ conn[s] = "open"
    /\ s \in room
    /\ room' = room \ {s}
    /\ MarkGone(s, FALSE)
    /\ UNCHANGED <<rows, up, crashes, memory, conn, subscribing, closing>>

Disconnect(s) ==
    /\ conn[s] = "open"
    /\ conn' = [conn EXCEPT ![s] = "gone"]
    /\ room' = room \ {s}
    /\ MarkGone(s, TRUE)
    /\ UNCHANGED <<rows, up, crashes, memory, subscribing, closing>>

\* After hours; the answer is awaited, and acted upon later.
FindNoTickets(l) ==
    /\ up
    /\ \A o \in Orders : LocationOf[o] = l => ~ Active(o)
    /\ socketsAt[l] # {}
    /\ closing' = closing \cup {l}
    /\ UNCHANGED <<rows, up, crashes, memory, conn, subscribing, room, presence>>

\* performKdsClose: every connection the server still knows leaves the room.
CloseLocation(l) ==
    LET leaving == {s \in socketsAt[l] : conn[s] = "open"} IN
    /\ l \in closing
    /\ closing' = closing \ {l}
    /\ room' = room \ leaving
    /\ socketsAt' = [socketsAt EXCEPT ![l] = @ \ leaving]
    /\ locationBy' = [s \in Sockets |-> IF s \in leaving THEN NoLocation ELSE locationBy[s]]
    /\ lastSeen' = [lastSeen EXCEPT ![l] = IF leaving # {} /\ socketsAt[l] = leaving THEN "never" ELSE @]
    /\ UNCHANGED <<rows, up, crashes, memory, conn, subscribing>>

-----------------------------------------------------------------------------
(* Timers *)

Source == {"checkout", "recovery"}

\* arm: replaces the timer of the order, if it has one.
Arm(o, source) == timers' = [timers EXCEPT ![o] = source]

\* The orders that recoverPendingOrders finds and does not skip.
ToArm == {o \in Orders : Placed(o) /\ IsAutomatic(o)}

\* scheduleOrder: loadOrderTiming answers only for a placed order.
ScheduleOrder(o) ==
    /\ o \in scheduling
    /\ scheduling' = scheduling \ {o}
    /\ IF Placed(o) /\ IsAutomatic(o) THEN Arm(o, "checkout") ELSE UNCHANGED timers
    /\ UNCHANGED <<rows, up, crashes, failed, recovery, recovered, job, gateway, presence>>

\* The answer cannot be built, or the timing cannot be loaded: no timer.
ScheduleFails(o) ==
    /\ o \in scheduling
    /\ scheduling' = scheduling \ {o}
    /\ failed' = failed \cup {o}
    /\ UNCHANGED <<rows, up, crashes, recovery, recovered, timers, job, gateway, presence>>

\* The recovery timer fires, a grace period after start.
RecoverPendingOrders ==
    /\ recovery = "waiting"
    /\ recovery' = "arming"
    /\ recovered' = ToArm
    /\ UNCHANGED <<rows, up, crashes, failed, scheduling, timers, job, gateway, presence>>

ArmRecovered ==
    /\ recovery = "arming"
    /\ recovery' = "off"
    /\ timers' = [o \in Orders |-> IF o \in recovered THEN "recovery" ELSE timers[o]]
    /\ recovered' = {}
    /\ UNCHANGED <<rows, up, crashes, failed, scheduling, job, gateway, presence>>

\* Neither its checkout, nor a timer, nor a processOrder of this process has it.
InNoHands(o) ==
    /\ o \notin scheduling /\ timers[o] = "none"
    /\ \A source \in Source : job[o][source] = "idle"

\* The query fails and is logged: the orders only the recovery would have
\* found are lost with it, those of this process are not.
RecoveryFails ==
    /\ recovery = "waiting"
    /\ recovery' = "off"
    /\ failed' = failed \cup {o \in Orders : Placed(o) /\ InNoHands(o)}
    /\ UNCHANGED <<rows, up, crashes, recovered, scheduling, timers, job, gateway, presence>>

Fire(o) ==
    LET source == timers[o] IN
    /\ source \in Source
    /\ job[o][source] = "idle"
    /\ timers' = [timers EXCEPT ![o] = "none"]
    /\ job' = [job EXCEPT ![o][source] = "read"]
    /\ UNCHANGED <<rows, up, crashes, failed, recovery, recovered, scheduling, gateway, presence>>

-----------------------------------------------------------------------------
(* processOrder *)

Go(o, source, phase) == job' = [job EXCEPT ![o][source] = phase]

\* The order is read and presence looked at. Whatever happens to the order in
\* between, the updates below test it again.
ProcessOrder(o, source) ==
    /\ job[o][source] = "read"
    /\ Go(o, source, IF ~ Placed(o) THEN "idle"
                     ELSE IF IsHealthy(LocationOf[o]) THEN "accept" ELSE "flag")
    /\ UNCHANGED <<rows, up, crashes, failed, recovery, recovered, scheduling, timers,
                   gateway, presence>>

SystemAutoAccept(o, source) ==
    /\ job[o][source] = "accept"
    /\ IF ClaimsPlaced(o) THEN Accepted(o) ELSE UNCHANGED rows
    /\ Go(o, source, "idle")
    /\ UNCHANGED <<up, crashes, failed, recovery, recovered, scheduling, timers, gateway, presence>>

\* Mutant: the flag is set on whatever the order has become.
FlagsAnyOrder(o) == ~ order[o].review

\* where: { id, status: "PLACED", requiresManualReview: false }
FlagsPlaced(o) == Placed(o) /\ ~ order[o].review

FlagForManualReview(o, source) ==
    /\ job[o][source] = "flag"
    /\ order' = IF FlagsPlaced(o) THEN [order EXCEPT ![o].review = TRUE] ELSE order
    /\ Go(o, source, "idle")
    /\ UNCHANGED <<accepts, up, crashes, failed, recovery, recovered, scheduling, timers,
                   gateway, presence>>

\* A query fails: the error is logged, and the timer is gone.
ProcessFails(o, source) ==
    /\ job[o][source] # "idle"
    /\ Go(o, source, "idle")
    /\ failed' = failed \cup {o}
    /\ UNCHANGED <<rows, up, crashes, recovery, recovered, scheduling, timers, gateway, presence>>

-----------------------------------------------------------------------------
(* The process *)

NoJobs == [o \in Orders |-> [source \in Source |-> "idle"]]

Crash ==
    /\ up
    /\ crashes < MaxCrashes
    /\ crashes' = crashes + 1
    /\ up' = FALSE
    /\ failed' = {} /\ recovery' = "off" /\ recovered' = {} /\ scheduling' = {}
    /\ timers' = [o \in Orders |-> "none"]
    /\ job' = NoJobs
    /\ conn' = [s \in Sockets |-> IF conn[s] = "open" THEN "gone" ELSE conn[s]]
    /\ subscribing' = {} /\ closing' = {} /\ room' = {}
    /\ socketsAt' = [l \in Locations |-> {}]
    /\ locationBy' = [s \in Sockets |-> NoLocation]
    /\ lastSeen' = [l \in Locations |-> "never"]
    /\ UNCHANGED rows

\* Mutant: a process that starts arms nothing by itself.
RecoversNothing == recovery' = recovery

Recovers == recovery' = "waiting"

\* onModuleInit
Start ==
    /\ ~ up
    /\ up' = TRUE
    /\ Recovers
    /\ UNCHANGED <<rows, crashes, failed, recovered, scheduling, timers, job, gateway, presence>>

Init ==
    /\ order = [o \in Orders |-> [status |-> "NONE", review |-> FALSE]]
    /\ accepts = [o \in Orders |-> 0]
    /\ failed = {} /\ up = FALSE /\ crashes = 0
    /\ recovery = "off" /\ recovered = {} /\ scheduling = {}
    /\ timers = [o \in Orders |-> "none"]
    /\ job = NoJobs
    /\ conn = [s \in Sockets |-> "new"]
    /\ subscribing = {} /\ closing = {} /\ room = {}
    /\ socketsAt = [l \in Locations |-> {}]
    /\ locationBy = [s \in Sockets |-> NoLocation]
    /\ lastSeen = [l \in Locations |-> "never"]

Scheduler ==
    \/ \E o \in Orders : ScheduleOrder(o) \/ Fire(o)
    \/ RecoverPendingOrders
    \/ ArmRecovered
    \/ \E o \in Orders, source \in Source :
          \/ ProcessOrder(o, source)
          \/ SystemAutoAccept(o, source)
          \/ FlagForManualReview(o, source)

Faults ==
    \/ \E o \in Orders : ScheduleFails(o)
    \/ \E o \in Orders, source \in Source : ProcessFails(o, source)
    \/ RecoveryFails
    \/ Crash

People == \E o \in Orders : PlaceOrder(o) \/ AcceptOrder(o) \/ CloseOrder(o)

Tablets ==
    \/ \E s \in Sockets :
          \/ Connect(s)
          \/ Subscribe(s)
          \/ JoinRoom(s)
          \/ RefuseSubscription(s)
          \/ Unsubscribe(s)
          \/ Disconnect(s)
    \/ \E l \in Locations : GraceEnds(l) \/ FindNoTickets(l) \/ CloseLocation(l)

Next == Scheduler \/ Faults \/ People \/ Tablets \/ Start

Spec == Init /\ [][Next]_vars

\* Node runs due timers and answered queries; a process that died is started.
Fairness ==
    /\ WF_vars(Start)
    /\ WF_vars(RecoverPendingOrders) /\ WF_vars(ArmRecovered)
    /\ \A o \in Orders : WF_vars(ScheduleOrder(o)) /\ WF_vars(Fire(o))
    /\ \A o \in Orders, source \in Source :
          WF_vars(ProcessOrder(o, source) \/ SystemAutoAccept(o, source)
                                          \/ FlagForManualReview(o, source))

FairSpec == Spec /\ Fairness

-----------------------------------------------------------------------------
(* Properties *)

OrderStatus == {"NONE", "PLACED", "PREPARING", "CLOSED"}

\* Rows and the memory of the process have the shapes the code gives them.
TypeOK ==
    /\ order \in [Orders -> [status : OrderStatus, review : BOOLEAN]]
    /\ accepts \in [Orders -> Nat]
    /\ failed \subseteq Orders /\ up \in BOOLEAN /\ crashes \in 0 .. MaxCrashes
    /\ recovery \in {"off", "waiting", "arming"}
    /\ recovered \subseteq Orders /\ scheduling \subseteq Orders
    /\ timers \in [Orders -> Source \cup {"none"}]
    /\ job \in [Orders -> [Source -> {"idle", "read", "accept", "flag"}]]
    /\ conn \in [Sockets -> {"new", "open", "gone"}]
    /\ subscribing \subseteq Sockets /\ closing \subseteq Locations /\ room \subseteq Sockets
    /\ socketsAt \in [Locations -> SUBSET Sockets]
    /\ locationBy \in [Sockets -> Locations \cup {NoLocation}]
    /\ lastSeen \in [Locations -> {"never", "recent", "old"}]

\* Whoever gets there first, timers of both sources or a person: an order is
\* accepted at most once, and nothing touches it after it was closed, although
\* each of them decided on an earlier read.
AcceptedOnce ==
    [][\A o \in Orders :
          /\ accepts'[o] <= 1
          /\ order[o].status = "CLOSED" => order'[o] = order[o]]_vars

\* An order in the kitchen's hands is not waiting for a review, although a
\* timer may have found nobody there just before it was accepted.
AcceptedIsReviewed == \A o \in Orders : order[o].status = "PREPARING" => ~ order[o].review

Pending(o) == Placed(o) /\ IsAutomatic(o) /\ ~ order[o].review /\ o \notin failed

\* A placed order is always in somebody's hands, unless it was put before a
\* person or its error was reported: the checkout's, a timer's, a running
\* processOrder's, or those of a recovery still to come.
NobodyForgotten ==
    \A o \in Orders : Pending(o) =>
        ~ up \/ recovery = "waiting" \/ o \in recovered \/ ~ InNoHands(o)

\* The two maps of the presence service agree, and whoever is connected and
\* receives the orders of a location keeps it healthy.
TabletsAreSeen ==
    /\ \A s \in Sockets, l \in Locations : s \in socketsAt[l] <=> locationBy[s] = l
    /\ \A s \in room : conn[s] = "open" => IsHealthy(StationOf[s])

\* Every placed order is eventually accepted, closed, flagged for review, or
\* reported as failed, across crashes.
PlacedIsAttended == \A o \in Orders : Pending(o) ~> ~ Pending(o)
=============================================================================
