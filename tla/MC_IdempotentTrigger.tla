----------------------- MODULE MC_IdempotentTrigger -------------------------
(***************************************************************************)
(* Instances of IdempotentTrigger for TLC.  KeyOf gives each request the   *)
(* first letter of its name: k for a key, e for the empty one, n for none. *)
(***************************************************************************)
EXTENDS IdempotentTrigger

TwoAndOne == [k1 |-> "k", k2 |-> "k", n1 |-> "n"]
TwoOfOneKey == [k1 |-> "k", k2 |-> "k"]
TwoEmptyKeys == [e1 |-> "e", e2 |-> "e"]

TwoRequests == DOMAIN TwoOfOneKey
EmptyRequests == DOMAIN TwoEmptyKeys
=============================================================================
