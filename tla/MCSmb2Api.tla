----------------------------- MODULE MCSmb2Api -----------------------------
EXTENDS Smb2Api, TLC

(* The addresses are interchangeable.                                       *)
AddressSymmetry == Permutations(Objects)
=============================================================================
