-------------------------- MODULE MCServiceSession --------------------------
(* Instances of ServiceSession for TLC.                                    *)
EXTENDS ServiceSession, TLC

\* Bindings are interchangeable, and so are the users.
Symmetry == Permutations(Tickets) \cup Permutations(Users)
=============================================================================
