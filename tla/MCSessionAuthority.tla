------------------------- MODULE MCSessionAuthority -------------------------
(* Instances of SessionAuthority for TLC.                                  *)
EXTENDS SessionAuthorityInv, TLC

\* Runtimes and accounts are interchangeable for the safety properties.
Symmetry == Permutations(Runtimes) \cup Permutations(Users)
=============================================================================
