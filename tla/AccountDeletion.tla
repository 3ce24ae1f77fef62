---------------------------- MODULE AccountDeletion ----------------------------
(***************************************************************************)
(* AccountDeletionService.remove: a serializable transaction whose first   *)
(* statement waits for the user's row. The snapshot it decides from is the *)
(* one of that statement's start; PostgreSQL compares it with what it      *)
(* then writes, not with what it read, because the other writers run at    *)
(* read committed.                                                         *)
(***************************************************************************)
EXTENDS SalesStore

\* The blockers, as far as orders and wallets raise them.
NothingOpen(c) == wallets[c].balance = 0 /\ \A o \in Of(c) : orders[o].status # "OPEN"

Snapshot(c) ==
    [clear  |-> NothingOpen(c),
     wallet |-> wallets[c],
     keys   |-> {k \in Keys : keys[k].customer = c}]

\* Deletion is offered only where no card payments are taken.
RequestDeletion(w, c) ==
    /\ ~ online /\ c \notin deleted
    /\ Start(w, "ask", Request(c, NoKey, NoCart))
    /\ snap' = [snap EXCEPT ![w] = Snapshot(c)]
    /\ UNCHANGED <<rows, online, num, ans>>

\* The row is free; had another deletion changed it, this is a conflict.
LockAccount(w) ==
    LET c == req[w].customer IN
    /\ Go(w, "ask", "erase")
    /\ c \notin deleted
    /\ \A v \in Workers \ {w} : ~ SharesAccount(v, c) /\ ~ LocksAccount(v, c)
    /\ UNCHANGED <<rows, online, req, num, ans, snap>>

\* A row of the snapshot was changed since: serialization failure.
Stale(w) ==
    LET seen == snap[w].wallet IN seen.open /\ wallets[req[w].customer] # seen

Retry(w) ==
    /\ Go(w, "erase", "ask")
    /\ Stale(w)
    /\ snap' = [snap EXCEPT ![w] = Snapshot(req[w].customer)]
    /\ UNCHANGED <<rows, online, req, num, ans>>

\* eraseCustomerData: the rows the snapshot shows; last, the tombstone.
Erase(w) ==
    LET c == req[w].customer IN
    /\ pc[w] = "erase"
    /\ snap[w].clear
    /\ ~ Stale(w)
    /\ keys' = [k \in Keys |-> IF k \in snap[w].keys THEN NoRow ELSE keys[k]]
    /\ wallets' = IF snap[w].wallet.open THEN [wallets EXCEPT ![c] = NoWallet] ELSE wallets
    /\ deleted' = deleted \cup {c}
    /\ Finish(w)
    /\ UNCHANGED <<orders, online>>

DeletionStep(w) ==
    \/ \E c \in Customers : RequestDeletion(w, c)
    \/ LockAccount(w) \/ Retry(w) \/ Erase(w)
=============================================================================
