---------------------------- MODULE MC_Accounts -----------------------------
(***************************************************************************)
(* An instance of Accounts for TLC.                                        *)
(***************************************************************************)
EXTENDS Accounts

\* The endpoints that change workflows and runs, and POST /users; readers
\* have all three roles.
TwoLists == {{"admin", "developer"}, {"admin"}}

\* POST /users is always asked for a viewer.
OneBody == {[email |-> "x", role |-> "viewer"]}
=============================================================================
