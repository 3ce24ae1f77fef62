----------------------------- MODULE MCStorefront -----------------------------
(***************************************************************************)
(* Instances of Storefront for TLC.                                        *)
(***************************************************************************)
EXTENDS Storefront, TLC

CONSTANTS c1, i1

\* An order with a promotion code for store credit, and a first order paid by
\* card.
TwoCarts == {[spend |-> 1, deal |-> "code", intent |-> NoIntent],
             [spend |-> 0, deal |-> "first", intent |-> i1]}

\* One order paid at the store.
PayAtStore == {[spend |-> 0, deal |-> "none", intent |-> NoIntent]}

\* To a checkout a delivered order is as good as an open one; to a deletion, as
\* a cancelled one.
Cancelled == {"CANCELLED"}

PaidByFirst == [i \in Intents |-> c1]

StorefrontSymmetry == Permutations(Orders) \cup Permutations(Workers) \cup Permutations(Keys)
=============================================================================
