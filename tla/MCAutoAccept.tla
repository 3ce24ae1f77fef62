---------------------------- MODULE MCAutoAccept ----------------------------
(***************************************************************************)
(* Instances of AutoAccept for TLC.                                        *)
(***************************************************************************)
EXTENDS AutoAccept

CONSTANTS l1

OneKitchen == {l1}
OrdersAtIt == [o \in Orders |-> l1]
TabletsAtIt == [s \in Sockets |-> l1]
=============================================================================
