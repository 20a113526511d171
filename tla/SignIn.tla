------------------------------- MODULE SignIn -------------------------------
(***************************************************************************)
(* Who may change what a user is signed in as: the contract between the    *)
(* interactive sign-in (SecondFactor) and the automatic recovery           *)
(* (RecoveryLifecycle), which both implement.  Each leaves out most of     *)
(* what the other models; what they say of the Identity session and of the *)
(* portal's challenge must agree.                                          *)
(*                                                                         *)
(* The work a runtime does by itself (engine) never answers a challenge,   *)
(* discards one that was shown, logs in once a login is required or during *)
(* another login.  The user may do anything, but only between two such     *)
(* works: a runtime serves one call at a time.                             *)
(***************************************************************************)

VARIABLES
  state,     \* of Identity; "challenged" until a code was answered
  live,      \* Identity is proven by this process and not due
  required,  \* only a login of the user goes on
  portal,    \* a portal's challenge: none, raised by the work in progress
             \* and not shown yet, or waiting for the user
  engine     \* work is in progress that the user did not enter a code for

vars == <<state, live, required, portal, engine>>

States == {"anonymous", "authenticating", "challenged", "authenticated", "expired"}

-----------------------------------------------------------------------------
(* The user.                                                               *)

\* A login or logout, from wherever the runtime is.
Restart ==
  /\ ~engine /\ ~engine'
  /\ state' \in States \ {"expired"}
  /\ live' = (state' = "authenticated")
  /\ required' \in BOOLEAN
  /\ required' => state' = "anonymous"
  /\ portal' = "none"

\* The code of the primary challenge: it proves Identity, or the login is over.
Answer ==
  /\ ~engine
  /\ state = "challenged"
  /\ \/ state' = "authenticated" /\ live'
     \/ state' = "anonymous" /\ UNCHANGED live
  /\ UNCHANGED <<required, portal, engine>>

\* The code of the portal's challenge: it is gone either way.
AnswerPortal ==
  /\ ~engine
  /\ portal = "waiting" /\ portal' = "none"
  /\ UNCHANGED <<state, live, required, engine>>

-----------------------------------------------------------------------------
(* The work in progress.                                                   *)

\* It begins, goes on or ends; a challenge it raised is shown when it ends.
Works ==
  /\ engine' \in BOOLEAN
  /\ portal' = IF portal = "raised" /\ ~engine' THEN "waiting" ELSE portal
  /\ UNCHANGED <<state, live, required>>

\* It proves Identity by the current Cookies.
CookieProof ==
  /\ ~required
  /\ portal = "none"
  /\ state \in {"authenticated", "expired"}
  /\ state' = "authenticated" /\ live'
  /\ engine' \in BOOLEAN
  /\ UNCHANGED <<required, portal>>

\* It finds that only the user can go on.
Requires ==
  /\ portal = "none"
  /\ state \in {"authenticated", "expired"}
  /\ state' = "expired" /\ ~live' /\ required'
  /\ engine' \in BOOLEAN
  /\ UNCHANGED portal

\* The portal asks for a second factor.
Raises ==
  /\ state = "authenticated"
  /\ portal = "none" /\ portal' = IF engine' THEN "raised" ELSE "waiting"
  /\ engine' \in BOOLEAN
  /\ UNCHANGED <<state, live, required>>

\* It begins a login with the saved credential.
Recovers ==
  /\ ~required
  /\ state \notin {"authenticating", "challenged"}
  /\ portal # "waiting"
  /\ state' = "anonymous" /\ ~live'
  /\ portal' = "none" /\ engine'
  /\ UNCHANGED required

-----------------------------------------------------------------------------
(* A login of either kind.                                                 *)

Enters ==
  /\ ~required
  /\ state = "anonymous" /\ state' = "authenticating"
  /\ UNCHANGED <<live, required, portal, engine>>

Proves ==
  /\ ~required
  /\ state = "authenticating" /\ state' = "authenticated" /\ live'
  /\ engine' \in BOOLEAN
  /\ UNCHANGED <<required, portal>>

Meets ==
  /\ ~required
  /\ state = "authenticating" /\ state' = "challenged"
  /\ ~engine'
  /\ UNCHANGED <<live, required, portal>>

Rejected ==
  /\ state = "authenticating" /\ state' = "anonymous"
  /\ required' \in {required, TRUE}
  /\ ~engine'
  /\ UNCHANGED <<live, portal>>

-----------------------------------------------------------------------------

FallsDue == live /\ ~live' /\ UNCHANGED <<state, required, portal, engine>>

\* A process starts without a session, or with one it has not proven.
Init ==
  /\ state \in {"anonymous", "authenticated"}
  /\ ~live /\ ~required /\ ~engine
  /\ portal = "none"

Next ==
  \/ Restart \/ Answer \/ AnswerPortal
  \/ Works \/ CookieProof \/ Requires \/ Raises \/ Recovers
  \/ Enters \/ Proves \/ Meets \/ Rejected
  \/ FallsDue

Spec == Init /\ [][Next]_vars
=============================================================================
