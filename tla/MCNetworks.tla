------------------------------ MODULE MCNetworks ------------------------------
(***************************************************************************)
(* Networks over addresses of two octets of two bits: two subnets that     *)
(* end with an octet, one of them with its gateway outside of it, one that *)
(* splits an octet, and one without hosts, which the code takes as well.   *)
(***************************************************************************)
EXTENDS Networks, TLC

MCCidrs == {[addr |-> <<2, 0>>, prefix |-> 2], [addr |-> <<3, 1>>, prefix |-> 2],
            [addr |-> <<1, 2>>, prefix |-> 1], [addr |-> <<3, 0>>, prefix |-> 4]}

Symmetry == Permutations(Callers)

=============================================================================
