---------------------------- MODULE SecondFactor ----------------------------
(***************************************************************************)
(* The interactive part of signing in: the challenge that interrupts a     *)
(* login or the use of a service, the one-time code that answers it, the   *)
(* registration of a trusted device, and who may start another login       *)
(* meanwhile.                                                              *)
(*                                                                         *)
(* A runtime serves one call at a time, so the steps here are those of one *)
(* call, cut at its awaits, where the caller may drop it (Drop), another   *)
(* window may supersede the lease (Supersede) and a restored session may   *)
(* fall due (FallDue).  Which automatic recovery is tried, and how often,  *)
(* is decided elsewhere: here it may come whenever its guards let it.      *)
(***************************************************************************)
EXTENDS Naturals

CONSTANTS
  MaxLogins,      \* bound: logins begun
  MaxChallenges,  \* bound: challenges discovered in one login
  NULL            \* None

ASSUME FactorAssumption ==
  /\ MaxLogins \in Nat
  /\ MaxChallenges \in Nat \ {0}

\* A challenge belongs to the login whose Cookies discovered it.
Challenges == [login : 0 .. MaxLogins, nth : 1 .. MaxChallenges]

ASSUME NullAssumption == NULL \notin Challenges

VARIABLES
  identity,        \* state of the Identity session
  primary,         \* the challenge of the Identity session, or NULL
  service,         \* service_second_factor, or NULL
  proof,           \* what stands behind an authenticated Identity
  leaseCurrent,    \* the lease was not superseded by another window
  call,            \* the call in progress
  password,        \* primary_password is there
  trusted,         \* trusted device: asked for, options kept, attempted
  recoveryPending, \* recovery_only_pending_second_factor
  loginRequired,   \* recovery.login_required
  locator,         \* resume_account_metadata is there
  login,           \* history: logins begun; each has a Cookie jar of its own
  byRecovery,      \* history: the last login was an automatic recovery
  shown,           \* history: challenges discovered in this login
  spent,           \* history: challenges a code was posted for and not rejected
  registered       \* history: device registrations sent in this login

session == <<identity, primary, service, proof, leaseCurrent>>
memory  == <<password, trusted, recoveryPending, loginRequired, locator>>
history == <<login, byRecovery, shown, spent, registered>>
vars    == <<session, call, memory, history>>

IdentityStates == {"anonymous", "authenticating", "second_factor", "authenticated", "expired"}

\* "restored": carried over from a file, not proven in this process.
\* "resumed": proven by the portal, but it still has the deadline of the file.
\* "due": that deadline has passed.  "live": proven here, without a deadline.
Proofs == {"live", "restored", "resumed", "due"}

Steps == {"idle", "bootstrap", "submit", "finish", "discover", "resume", "verify", "register",
          "redirect"}

\* A call: its challenge and whether it is a service's, the password it took
\* along, whether it is a recovery or goes on to one, whether it is finishing
\* a login.
Calls == [step : Steps, challenge : Challenges \cup {NULL}, forService : BOOLEAN,
          password : BOOLEAN, recovery : BOOLEAN, finishing : BOOLEAN]

Call(step) ==
  [step |-> step, challenge |-> NULL, forService |-> FALSE, password |-> FALSE,
   recovery |-> FALSE, finishing |-> FALSE]

Idle == Call("idle")

At(step) == call.step = step

Goes(step) == call' = [call EXCEPT !.step = step]

Proven ==
  /\ identity = "authenticated"
  /\ proof \in {"live", "resumed"}
  /\ leaseCurrent

\* The next challenge a discovery can return.
Discoverable == [login |-> login, nth |-> shown + 1]

-----------------------------------------------------------------------------
(* Beginning a login.                                                      *)

\* Mutant: the pending service challenge survives the reset.
ResetKeepingService ==
  /\ identity' = "anonymous"
  /\ primary' = NULL
  /\ service' = service
  /\ proof' = "live"
  /\ recoveryPending' = FALSE
  /\ registered' = 0

\* reset_sessions: every session, both challenges and the Cookies end.
ResetSessions ==
  /\ identity' = "anonymous"
  /\ primary' = NULL
  /\ service' = NULL
  /\ proof' = "live"
  /\ recoveryPending' = FALSE
  /\ registered' = 0

\* What a login of either kind starts from.  The options and the attempt of a
\* trusted device belong to the orchestrator and are not reset here.
EnterLogin(trust, recovery) ==
  /\ login < MaxLogins
  /\ ResetSessions
  /\ password' = TRUE
  /\ trusted' = [trusted EXCEPT !.requested = trust]
  /\ login' = login + 1
  /\ byRecovery' = recovery
  /\ shown' = 0
  /\ call' = [Call("bootstrap") EXCEPT !.recovery = recovery]
  /\ UNCHANGED spent

\* The user logs in, whatever was in progress before.
BeginLogin(trust) ==
  /\ At("idle")
  /\ EnterLogin(trust, FALSE)
  /\ leaseCurrent' = TRUE
  /\ loginRequired' = FALSE
  /\ locator' = FALSE

\* Mutant: the refresh forgets to look for a service challenge.
MayRecoverAnyway ==
  /\ At("idle")
  /\ \/ identity = "anonymous" /\ locator
     \/ identity \in {"authenticated", "expired"}

\* What leads to recover_restored_session_with_private_credential: the locator
\* of a session that is gone, or a portal that asked for a password; a resume
\* whose portal raised a challenge after that goes on all the same.
MayRecover ==
  \/ /\ At("idle")
     /\ \/ identity = "anonymous" /\ locator
        \/ identity \in {"authenticated", "expired"} /\ service = NULL
  \/ At("resume")

\* Mutant: a rejected credential does not end the recoveries.
RecoverLoginRegardless ==
  /\ leaseCurrent
  /\ MayRecover
  /\ EnterLogin(FALSE, TRUE)
  /\ UNCHANGED <<leaseCurrent, loginRequired, locator>>

\* A saved credential logs in without the user.
RecoverLogin ==
  /\ leaseCurrent
  /\ ~loginRequired
  /\ MayRecover
  /\ EnterLogin(FALSE, TRUE)
  /\ UNCHANGED <<leaseCurrent, loginRequired, locator>>

\* The resume does not recover after all: no opt-in, no record, a busy vault,
\* an attempt made before, a login that is required, a lease that is stale.
ResumeEnds ==
  /\ At("resume")
  /\ call' = Idle
  /\ UNCHANGED <<session, memory, history>>

\* WebVpnIdentityBootstrapper::discover or the configuration it returns fails.
BootstrapFails ==
  /\ At("bootstrap")
  /\ password' = FALSE
  /\ call' = Idle
  /\ UNCHANGED <<session, trusted, recoveryPending, loginRequired, locator, history>>

\* Mutant: options are only stored, an earlier login's are not replaced.
EstablishKeepingOptions ==
  /\ At("bootstrap")
  /\ identity' = "authenticating"
  /\ trusted' = [trusted EXCEPT !.pending = @ \/ trusted.requested, !.attempted = FALSE]
  /\ Goes("submit")
  /\ UNCHANGED <<primary, service, proof, leaseCurrent, password, recoveryPending,
                 loginRequired, locator, history>>

\* establish: the state machine is taken and the device options are replaced.
Establish ==
  /\ At("bootstrap")
  /\ identity' = "authenticating"
  /\ trusted' = [trusted EXCEPT !.pending = trusted.requested, !.attempted = FALSE]
  /\ Goes("submit")
  /\ UNCHANGED <<primary, service, proof, leaseCurrent, password, recoveryPending,
                 loginRequired, locator, history>>

\* The answer proves the identity.
SubmitProves ==
  /\ At("submit")
  /\ identity' = "authenticated"
  /\ trusted' = [trusted EXCEPT !.pending = FALSE]
  /\ Goes("finish")
  /\ UNCHANGED <<primary, service, proof, leaseCurrent, password, recoveryPending,
                 loginRequired, locator, history>>

\* The answer proves nothing; a rejected credential also requires a login.
SubmitFails ==
  /\ At("submit")
  /\ identity' = "anonymous"
  /\ trusted' = [trusted EXCEPT !.pending = FALSE]
  /\ password' = FALSE
  /\ loginRequired' \in {loginRequired, TRUE}
  /\ call' = Idle
  /\ UNCHANGED <<primary, service, proof, leaseCurrent, recoveryPending, locator, history>>

\* The answer asks for a second factor.  A recovery leaves it to the user and
\* drops the password it loaded.
SubmitChallenged ==
  /\ At("submit")
  /\ identity' = "second_factor"
  /\ primary' = Discoverable
  /\ shown' = shown + 1
  /\ recoveryPending' = (recoveryPending \/ call.recovery)
  /\ password' = (password /\ ~call.recovery)
  /\ call' = Idle
  /\ UNCHANGED <<service, proof, leaseCurrent, trusted, loginRequired, locator,
                 login, byRecovery, spent, registered>>

-----------------------------------------------------------------------------
(* Answering a challenge.  The challenge is taken before the code is sent. *)

\* complete_second_factor for the primary challenge.
VerifyPrimary ==
  /\ At("idle")
  /\ identity = "second_factor"
  /\ leaseCurrent
  /\ identity' = "anonymous"
  /\ primary' = NULL
  /\ password' = FALSE
  /\ spent' = spent \cup {primary}
  /\ call' = [Call("verify") EXCEPT !.challenge = primary, !.password = password]
  /\ UNCHANGED <<service, proof, leaseCurrent, trusted, recoveryPending, loginRequired,
                 locator, login, byRecovery, shown, registered>>

\* Mutant: the challenge is only given up when the answer is known.
VerifyServiceLate ==
  /\ At("idle")
  /\ service # NULL
  /\ Proven
  /\ spent' = spent \cup {service}
  /\ call' = [Call("verify") EXCEPT !.challenge = service, !.forService = TRUE]
  /\ UNCHANGED <<session, memory, login, byRecovery, shown, registered>>

\* complete_service_second_factor.
VerifyService ==
  /\ At("idle")
  /\ service # NULL
  /\ Proven
  /\ service' = NULL
  /\ spent' = spent \cup {service}
  /\ call' = [Call("verify") EXCEPT !.challenge = service, !.forService = TRUE]
  /\ UNCHANGED <<identity, primary, proof, leaseCurrent, memory, login, byRecovery,
                 shown, registered>>

\* Mutant: the password is not put back.
CodeRejectedForgetting ==
  /\ At("verify")
  /\ spent' = spent \ {call.challenge}
  /\ call' = Idle
  /\ IF call.forService
     THEN service' = call.challenge /\ UNCHANGED <<identity, primary>>
     ELSE identity' = "second_factor" /\ primary' = call.challenge /\ UNCHANGED service
  /\ UNCHANGED <<proof, leaseCurrent, password, trusted, recoveryPending, loginRequired,
                 locator, login, byRecovery, shown, registered>>

\* The code is explicitly rejected: the challenge is offered again, and with
\* the primary one the password of its login, if the status still shows it.
CodeRejected ==
  /\ At("verify")
  /\ spent' = spent \ {call.challenge}
  /\ call' = Idle
  /\ IF call.forService
     THEN /\ service' = call.challenge
          /\ UNCHANGED <<identity, primary, password>>
     ELSE /\ identity' = "second_factor"
          /\ primary' = call.challenge
          /\ password' = (call.password /\ leaseCurrent /\ ~loginRequired)
          /\ UNCHANGED service
  /\ UNCHANGED <<proof, leaseCurrent, trusted, recoveryPending, loginRequired, locator,
                 login, byRecovery, shown, registered>>

\* The primary login uses the options it kept, a service the user's consent.
WantsRegistration == IF call.forService THEN trusted.requested ELSE trusted.pending

\* The code is accepted; save_trusted_device marks its attempt before it sends.
CodeAccepted ==
  /\ At("verify")
  /\ IF WantsRegistration /\ ~trusted.attempted
     THEN /\ trusted' = [trusted EXCEPT !.attempted = TRUE]
          /\ registered' = registered + 1
          /\ Goes("register")
     ELSE /\ Goes("redirect")
          /\ UNCHANGED <<trusted, registered>>
  /\ UNCHANGED <<session, password, recoveryPending, loginRequired, locator, login,
                 byRecovery, shown, spent>>

\* Whatever the registration answered.
RegistrationAnswered ==
  /\ At("register")
  /\ Goes("redirect")
  /\ UNCHANGED <<session, memory, history>>

\* The redirect of an accepted code leads to a proven page.  For the primary
\* challenge the machine gets its challenge back and completes in one step.
RedirectProves ==
  /\ At("redirect")
  /\ IF call.forService
     THEN /\ call' = Idle
          /\ UNCHANGED <<identity, password, trusted, recoveryPending>>
     ELSE /\ identity' = "authenticated"
          /\ trusted' = [trusted EXCEPT !.pending = FALSE]
          /\ password' = call.password
          /\ recoveryPending' = FALSE
          /\ call' = [Call("finish") EXCEPT !.recovery = recoveryPending]
  /\ UNCHANGED <<primary, service, proof, leaseCurrent, loginRequired, locator, history>>

\* Any other outcome, known or not: the challenge is not offered again.
VerificationFails ==
  /\ call.step \in {"verify", "register", "redirect"}
  /\ trusted' = [trusted EXCEPT !.pending = @ /\ call.forService]
  /\ call' = Idle
  /\ UNCHANGED <<session, password, recoveryPending, loginRequired, locator, history>>

-----------------------------------------------------------------------------
(* After the identity is proven.                                           *)

\* finish_authenticated: the state is saved if it can be, the password ends.
Finish ==
  /\ At("finish")
  /\ password' = FALSE
  /\ locator' \in {locator, TRUE}
  /\ call' = Idle
  /\ UNCHANGED <<session, trusted, recoveryPending, loginRequired, history>>

\* Mutant: a service's challenge is not looked at.
HandoffAlways == identity # "second_factor"

\* allow_new_identity_handoff
HandoffAllowed == service = NULL /\ identity # "second_factor"

\* require_identity_login: only an explicit login goes on from here.
LoginIsRequired ==
  /\ loginRequired' = TRUE
  /\ identity' = "expired"
  /\ proof' = "live"
  /\ password' = FALSE

\* A portal or a service rejects the password while the login is finished.
FinishExpires ==
  /\ At("finish")
  /\ ~call.recovery
  /\ HandoffAllowed
  /\ LoginIsRequired
  /\ locator' \in {locator, TRUE}
  /\ call' = Idle
  /\ UNCHANGED <<primary, service, leaseCurrent, trusted, recoveryPending, history>>

\* A read finds that neither the Cookies nor a saved credential prove the user.
RequireLogin ==
  /\ At("idle")
  /\ identity \in {"authenticated", "expired"}
  /\ HandoffAllowed
  /\ LoginIsRequired
  /\ call' = Idle
  /\ UNCHANGED <<primary, service, leaseCurrent, trusted, recoveryPending, locator, history>>

\* pause_for_service_second_factor, from a read or from a login that is being
\* finished (a recovery opens no service).  Resuming: the call is a resume, and
\* its portal asked for a password before it asked for the second factor.
Pause(resuming) ==
  /\ \/ At("idle")
     \/ At("finish") /\ ~call.recovery /\ ~resuming
  /\ HandoffAllowed
  /\ Proven
  /\ call' = [Call("discover") EXCEPT !.recovery = resuming, !.finishing = At("finish")]
  /\ UNCHANGED <<session, memory, history>>

\* The pause ends the call, unless its resume takes the password as required.
Paused ==
  /\ password' = (password /\ ~call.finishing)
  /\ call' = IF call.recovery THEN Call("resume") ELSE Idle

\* The discovery returns a challenge, which the service then waits for.
Discovered ==
  /\ At("discover")
  /\ shown < MaxChallenges
  /\ service' = Discoverable
  /\ shown' = shown + 1
  /\ Paused
  /\ UNCHANGED <<identity, primary, proof, leaseCurrent, trusted, recoveryPending,
                 loginRequired, locator, login, byRecovery, spent, registered>>

\* Or it fails.
DiscoveryFails ==
  /\ At("discover")
  /\ Paused
  /\ UNCHANGED <<session, trusted, recoveryPending, loginRequired, locator, history>>

\* The current Cookies prove a restored or expired session again: the start-up
\* keeps its deadline, a refresh installs a session without one.
CookiesProve ==
  /\ At("idle")
  /\ identity \in {"authenticated", "expired"}
  /\ ~Proven
  /\ leaseCurrent
  /\ ~loginRequired
  /\ HandoffAllowed
  /\ identity' = "authenticated"
  /\ proof' \in {"live"} \cup (IF proof = "restored" THEN {"resumed"} ELSE {})
  /\ locator' \in {locator, TRUE}
  /\ UNCHANGED <<primary, service, leaseCurrent, call, password, trusted,
                 recoveryPending, loginRequired, history>>

\* logout: as at the start of a login, without its account.
Logout ==
  /\ At("idle")
  /\ ResetSessions
  /\ leaseCurrent' = TRUE
  /\ password' = FALSE
  /\ trusted' = [trusted EXCEPT !.requested = FALSE]
  /\ loginRequired' = FALSE
  /\ locator' = FALSE
  /\ UNCHANGED <<call, login, byRecovery, shown, spent>>

-----------------------------------------------------------------------------
(* What may come at any await.                                             *)

\* The caller drops the call; what it had taken along is lost with it.
Drop ==
  /\ ~At("idle") /\ ~At("resume")
  /\ call' = Idle
  /\ UNCHANGED <<session, memory, history>>

\* Another window logs in or out: the lease of this one is stale from then on.
Supersede ==
  /\ leaseCurrent
  /\ leaseCurrent' = FALSE
  /\ UNCHANGED <<identity, primary, service, proof, call, memory, history>>

\* The deadline a resumed session brought along passes.
FallDue ==
  /\ identity = "authenticated"
  /\ proof = "resumed"
  /\ proof' = "due"
  /\ UNCHANGED <<identity, primary, service, leaseCurrent, call, memory, history>>

-----------------------------------------------------------------------------
\* A process starts without a session, or with one restored from a file.
Init ==
  /\ \/ identity = "anonymous" /\ proof = "live" /\ locator \in BOOLEAN
     \/ identity = "authenticated" /\ proof = "restored" /\ locator \in BOOLEAN
  /\ primary = NULL
  /\ service = NULL
  /\ leaseCurrent = TRUE
  /\ call = Idle
  /\ password = FALSE
  /\ trusted = [requested |-> FALSE, pending |-> FALSE, attempted |-> FALSE]
  /\ recoveryPending = FALSE
  /\ loginRequired = FALSE
  /\ login = 0
  /\ byRecovery = FALSE
  /\ shown = 0
  /\ spent = {}
  /\ registered = 0

Next ==
  \/ \E trust \in BOOLEAN : BeginLogin(trust)
  \/ RecoverLogin
  \/ ResumeEnds
  \/ BootstrapFails
  \/ Establish
  \/ SubmitProves
  \/ SubmitFails
  \/ SubmitChallenged
  \/ VerifyPrimary
  \/ VerifyService
  \/ CodeRejected
  \/ CodeAccepted
  \/ RegistrationAnswered
  \/ RedirectProves
  \/ VerificationFails
  \/ Finish
  \/ FinishExpires
  \/ RequireLogin
  \/ \E resuming \in BOOLEAN : Pause(resuming)
  \/ Discovered
  \/ DiscoveryFails
  \/ CookiesProve
  \/ Logout
  \/ Drop
  \/ Supersede
  \/ FallDue

Spec == Init /\ [][Next]_vars

-----------------------------------------------------------------------------
TypeOK ==
  /\ identity \in IdentityStates
  /\ primary \in Challenges \cup {NULL}
  /\ service \in Challenges \cup {NULL}
  /\ proof \in Proofs
  /\ call \in Calls
  /\ trusted \in [requested : BOOLEAN, pending : BOOLEAN, attempted : BOOLEAN]
  /\ leaseCurrent \in BOOLEAN
  /\ password \in BOOLEAN
  /\ recoveryPending \in BOOLEAN
  /\ loginRequired \in BOOLEAN
  /\ locator \in BOOLEAN
  /\ byRecovery \in BOOLEAN
  /\ login \in 0 .. MaxLogins
  /\ shown \in 0 .. MaxChallenges
  /\ spent \subseteq Challenges
  /\ registered \in Nat
  /\ primary # NULL <=> identity = "second_factor"

Pending == {primary, service} \ {NULL}

\* "The same code/challenge cannot be offered for replay": between two calls no
\* challenge is pending for which a code was posted and not explicitly
\* rejected, however the call that posted it ended.
NoBlindReplay == At("idle") => Pending \cap spent = {}

\* A challenge is only ever answered with the Cookies of the login that
\* discovered it.
CodesForThisLogin ==
  \A c \in Pending \cup ({call.challenge} \ {NULL}) : c.login = login

\* One interaction at a time: a service's challenge is pending only while the
\* Identity is authenticated, never beside the primary one or a login.
OneInteraction == service # NULL => identity = "authenticated"

\* "An attempt is not repeated in the same authentication context", and it is
\* the user's consent to this login, not to an earlier one, that it acts on.
RegisteredOnce == registered <= 1 /\ (registered = 1 => trusted.requested)

\* The pending primary challenge continues the login that met it: the user's
\* own with the password to complete it, a recovery's without.  (A superseded
\* window, whose status is signed out, cannot continue it.)
ContinuesItsLogin ==
  identity = "second_factor" /\ leaseCurrent =>
    recoveryPending = byRecovery /\ password = ~byRecovery

\* The challenge that the running resume raised itself; no status has shown it.
RaisedByResume == IF At("resume") THEN {[login |-> login, nth |-> shown]} ELSE {}

\* An automatic recovery never discards a challenge the user may be answering.
NoRecoveryOverInteraction ==
  [][login' # login /\ byRecovery' => Pending \subseteq RaisedByResume]_vars
-----------------------------------------------------------------------------
(* The contract with the automatic recovery.  A challenge being answered   *)
(* still waits; the lease of another window is not part of it.             *)

Verifying == call.step \in {"verify", "register", "redirect"}

Contract == INSTANCE SignIn WITH
  state <- IF identity = "second_factor" \/ (Verifying /\ ~call.forService)
           THEN "challenged" ELSE identity,
  live <- identity = "authenticated" /\ proof \in {"live", "resumed"},
  required <- loginRequired,
  portal <- IF service = NULL /\ ~(Verifying /\ call.forService) THEN "none"
            ELSE IF At("resume") THEN "raised" ELSE "waiting",
  engine <- \/ At("discover") \/ At("resume")
            \/ call.recovery /\ (At("bootstrap") \/ At("submit"))

\* The interactive sign-in keeps the contract.
ImplementsSignIn == Contract!Spec

=============================================================================
