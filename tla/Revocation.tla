----------------------------- MODULE Revocation -----------------------------
(***************************************************************************)
(* What the durable session authority promises, without files or locks.   *)
(*                                                                         *)
(* At most one generation is live.  A generation is retired for good: the  *)
(* only way to become live again is to publish a generation nobody ever    *)
(* held.  A runtime holds at most one lease; it may adopt the generation   *)
(* that is live or drop what it has, and nothing refreshes a lease that    *)
(* went stale.  SessionAuthority implements this specification.           *)
(***************************************************************************)
EXTENDS Naturals

CONSTANTS
  Runtimes,   \* windows and processes sharing one session root
  NULL        \* no generation

VARIABLES
  issued,     \* the newest generation written so far
  live,       \* the generation that authorises, or NULL
  held        \* the lease each runtime carries, or NULL

vars == <<issued, live, held>>

Init ==
  /\ issued = 0
  /\ live = 0
  /\ held = [r \in Runtimes |-> NULL]

\* Revocation, or the tombstone an explicit login starts with.
Retire ==
  /\ issued' = issued + 1
  /\ live' = NULL
  /\ UNCHANGED held

\* An explicit login makes the generation of its own tombstone live.  The
\* caller receives the lease unless the publication is reported as failed.
Publish(r) ==
  /\ live = NULL
  /\ \A q \in Runtimes : held[q] # issued
  /\ live' = issued
  /\ held' \in {held, [held EXCEPT ![r] = issued]}
  /\ UNCHANGED issued

\* A process that starts while a generation is live works under it.
Adopt(r) ==
  /\ live # NULL
  /\ held[r] = NULL
  /\ held' = [held EXCEPT ![r] = live]
  /\ UNCHANGED <<issued, live>>

\* Logout or the end of the process.
Drop(r) ==
  /\ held' = [held EXCEPT ![r] = NULL]
  /\ UNCHANGED <<issued, live>>

Next ==
  \/ Retire
  \/ \E r \in Runtimes : Publish(r) \/ Adopt(r) \/ Drop(r)

Spec == Init /\ [][Next]_vars
=============================================================================
