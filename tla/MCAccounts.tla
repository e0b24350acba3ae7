------------------------------ MODULE MCAccounts ------------------------------
(***************************************************************************)
(* Model checking of Accounts.                                             *)
(***************************************************************************)
EXTENDS Accounts, TLC

Symmetry == Permutations(Requests)

=============================================================================
