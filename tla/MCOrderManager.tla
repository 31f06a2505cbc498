--------------------------- MODULE MCOrderManager ---------------------------
(***************************************************************************)
(* The run orders.  Intents and client order ids are only compared, and    *)
(* only invariants are checked, so both may be permuted.                   *)
(***************************************************************************)
EXTENDS OrderManager, TLC

MCSymmetry == Permutations(Intents) \cup Permutations(ClientOrderIds)

=============================================================================
