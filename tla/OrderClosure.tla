----------------------------- MODULE OrderClosure -----------------------------
(***************************************************************************)
(* What the handlers promise together about one order: its status moves    *)
(* along the edges below, it is closed exactly once, by one winner, and    *)
(* the winner's accounting happens with the closing, once.                 *)
(***************************************************************************)
EXTENDS Naturals

CONSTANTS Orders, Drivers, NoDriver

VARIABLES row,        \* per order: status, driver, fulfil, owner
          noShows,    \* no-shows counted against the registered customer
          completed   \* deliveries completed, per driver

cvars == <<row, noShows, completed>>

OpenEdges ==
    {<<"PLACED", "PREPARING">>, <<"ACCEPTED", "PREPARING">>,
     <<"PREPARING", "READY">>, <<"READY", "OUT_FOR_DELIVERY">>}

OpenStatus == {"PLACED", "ACCEPTED", "PREPARING", "READY", "OUT_FOR_DELIVERY"}

\* How each terminal status may be reached.
MayClose(r, to) ==
    \/ to = "CANCELLED" /\ r.status \in OpenStatus
    \/ to \in {"PICKED_UP", "NO_SHOW_PICKUP"} /\ r.status = "READY" /\ r.fulfil = "PICKUP"
    \/ to = "DELIVERED" /\ \/ r.status = "OUT_FOR_DELIVERY" /\ r.driver # NoDriver
                           \/ r.status = "READY" /\ r.driver = NoDriver /\ r.fulfil = "DELIVERY"
    \/ to = "NO_SHOW_DELIVERY" /\ r.fulfil = "DELIVERY"
                               /\ r.status \in {"READY", "OUT_FOR_DELIVERY"}
    \/ to = "NO_PIN_DELIVERY" /\ r.status = "OUT_FOR_DELIVERY" /\ r.driver # NoDriver

CInit ==
    /\ \A o \in Orders : row[o].status \in {"NONE", "OUT_FOR_DELIVERY"}
    /\ noShows = 0
    /\ completed = [d \in Drivers |-> 0]

Create(o) ==
    /\ row[o].status = "NONE"
    /\ \E s \in {"PLACED", "PREPARING"}, f \in {"PICKUP", "DELIVERY"},
          c \in {"customer", "guest"} :
          row' = [row EXCEPT ![o] = [status |-> s, driver |-> NoDriver,
                                     fulfil |-> f, owner |-> c]]
    /\ UNCHANGED <<noShows, completed>>

Advance(o, to) ==
    /\ <<row[o].status, to>> \in OpenEdges
    /\ row' = [row EXCEPT ![o].status = to]
    /\ UNCHANGED <<noShows, completed>>

Assign(o, d) ==
    /\ row[o].status \in {"ACCEPTED", "PREPARING", "READY"}
    /\ row' = [row EXCEPT ![o].driver = d]
    /\ UNCHANGED <<noShows, completed>>

Close(o, to) ==
    LET r == row[o]
        delivered == to \in {"DELIVERED", "NO_PIN_DELIVERY"} /\ r.driver # NoDriver
    IN  /\ MayClose(r, to)
        /\ row' = [row EXCEPT ![o].status = to]
        /\ noShows' = noShows +
             (IF to \in {"NO_SHOW_PICKUP", "NO_SHOW_DELIVERY"} /\ r.owner = "customer"
              THEN 1 ELSE 0)
        /\ completed' = IF delivered THEN [completed EXCEPT ![r.driver] = @ + 1]
                        ELSE completed

TerminalStatus == {"PICKED_UP", "DELIVERED", "NO_SHOW_PICKUP", "NO_SHOW_DELIVERY",
                   "NO_PIN_DELIVERY", "CANCELLED"}

CNext ==
    \E o \in Orders :
        \/ Create(o)
        \/ \E to \in OpenStatus : Advance(o, to)
        \/ \E d \in Drivers : Assign(o, d)
        \/ \E to \in TerminalStatus : Close(o, to)

CSpec == CInit /\ [][CNext]_cvars
=============================================================================
