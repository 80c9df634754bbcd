------------------------------ MODULE MCRanges ------------------------------
(***************************************************************************)
(* Two modules that compete for the bytes of one small bank.               *)
(***************************************************************************)
EXTENDS Ranges, TLC

ClientSymmetry == Permutations(Clients)

=============================================================================
