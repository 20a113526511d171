------------------------- MODULE MCPortalConnection -------------------------
(* Instances of PortalConnection for TLC.                                  *)
EXTENDS PortalConnection, TLC

CONSTANTS u1, u2
\* Two portal accounts.
PortalScopes == {[username |-> u, method |-> "portal"] : u \in {u1, u2}}

\* Profiles and accounts are interchangeable, and so are clients and addresses.
Symmetry ==
  Permutations(Clients) \cup Permutations(Ids) \cup Permutations({u1, u2})
    \cup Permutations(Addresses)
=============================================================================
