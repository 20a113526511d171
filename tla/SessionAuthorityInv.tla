------------------------ MODULE SessionAuthorityInv ------------------------
(***************************************************************************)
(* The inductive invariants behind the safety properties of                *)
(* SessionAuthority.  SessionAuthority_proofs proves them for every value  *)
(* of the constants; the runs check them on small instances.               *)
(***************************************************************************)
EXTENDS SessionAuthority

\* Steps of a call that has given up the Identity session, and of one that
\* has proved it.
Ended  == {"down", "revoke", "sweep", "forget", "forgetAfterFailure"}
Rejected == {"rejecting", "revokeLocator", "rejectRevoke", "rejectSweep"}
Proved == {"saveCredential", "persist", "pairing"}

\* What a step may rely on: its account, its Identity state, its inputs.
StepOK ==
  \A r \in Runtimes :
    /\ pc[r] \in Ended => phase[r] = "anonymous"
    /\ pc[r] \in Rejected => phase[r] \in {"anonymous", "expired"}
    /\ pc[r] \in Proved => Proven(r)
    /\ phase[r] # "anonymous" => user[r] # NULL
    /\ pc[r] = "revokeLocator" => user[r] # NULL
    /\ pc[r] \in {"tombstoned", "cleaned", "opened"} => attempt[r] \in Attempts
    /\ pc[r] = "saveCredential" => optIn[r].remember
    /\ pc[r] \in {"revoke", "sweep", "forget", "forgetAfterFailure"} => shell[r] = NULL

\* The lock is held by the runtime whose step needs it; nobody else moves a
\* tombstone or writes a file meanwhile.
LockOK ==
  \A r \in Runtimes :
    /\ lock = r <=> pc[r] \in Locked
    /\ pc[r] \in {"tombstoned", "cleaned", "sweep", "rejectSweep"} => authority.revoked
    /\ pc[r] = "cleaned" => snapshot = NULL

\* Generations only grow, and the generation of a tombstone is held by nobody:
\* the next login may publish it without making a stale lease current.
LeaseOK ==
  /\ \A r \in Runtimes :
       /\ pc[r] = "down" => lease[r] = NULL
       /\ lease[r] # NULL =>
            /\ lease[r] <= authority.gen
            /\ authority.revoked => lease[r] # authority.gen
            /\ pc[r] \in {"sweep", "forget"} => lease[r] < authority.gen
       /\ writer[r] # NULL => writer[r].gen <= authority.gen
  /\ \A g \in signedOut : g < authority.gen

\* Everything a runtime remembers belongs to the account and the opt-in of the
\* generation it holds; between a published login and the reset that follows,
\* to the attempt.
MemoryOK ==
  \A r \in Runtimes :
    /\ lease[r] = NULL => user[r] = NULL /\ shell[r] = NULL
    /\ writer[r] # NULL => writer[r].user = owner[writer[r].gen]
    /\ pc[r] = "opened" =>
         /\ lease[r] # NULL
         /\ attempt[r].user = owner[lease[r]] /\ attempt[r].remember = opted[lease[r]]
    /\ lease[r] # NULL /\ pc[r] # "opened" =>
         /\ user[r] \in {NULL, owner[lease[r]]}
         /\ shell[r] # NULL =>
              shell[r].user = owner[lease[r]] /\ (shell[r].saved => opted[lease[r]])
         /\ optIn[r].remember \/ optIn[r].persisted => opted[lease[r]]

\* The files of a live generation, and those a login is about to publish,
\* belong to the account and the opt-in of that generation.
FilesOK ==
  /\ ~authority.revoked =>
       /\ snapshot # NULL =>
            snapshot.gen = authority.gen /\ snapshot.user = owner[authority.gen]
       /\ metadata # NULL =>
            /\ metadata.user = owner[authority.gen]
            /\ metadata.saved => opted[authority.gen]
  /\ \A r \in Runtimes :
       /\ pc[r] \in {"tombstoned", "cleaned"} =>
            /\ attempt[r].user = owner[authority.gen]
            /\ attempt[r].remember = opted[authority.gen]
       /\ pc[r] = "cleaned" /\ metadata # NULL =>
            /\ metadata.user = owner[authority.gen]
            /\ metadata.saved => opted[authority.gen]
       /\ pc[r] = "pairing" => ~authority.revoked /\ lease[r] = authority.gen

IInv == TypeOK /\ StepOK /\ LockOK /\ LeaseOK /\ MemoryOK /\ FilesOK
=============================================================================
