------------------------- MODULE RecoveryLifecycle -------------------------
(***************************************************************************)
(* The automatic recovery of a campus runtime: the one-shot refresh gate   *)
(* of every service, the recovery of Identity by Cookies and by the saved  *)
(* credential, the resume of a restored session, and the deadlines that    *)
(* let a failed probe be tried again.                                      *)
(*                                                                         *)
(* The runtime is used through &mut: one call at a time.  A call is a      *)
(* stack of frames (a library read refreshes INFO, which refreshes         *)
(* Identity, which logs in); pc has the step every frame is at.  The       *)
(* frames are cut at their awaits, where the caller may drop the future    *)
(* and time passes; the steps between two awaits are taken one by one      *)
(* while everything else waits.  An error ends all frames at once (`?`).   *)
(* Lengths of time are left out: a deadline lies ahead until it is due.    *)
(***************************************************************************)
EXTENDS Integers, FiniteSets

CONSTANTS
  Targets,   \* the services behind Identity that are read
  MaxDepth   \* bound: nesting left behind by dropped futures

ParentOf == [library |-> "info", registrar |-> "learn"]
HasParent(s) == s \in {"library", "registrar"}

ASSUME TargetsAssumption ==
  /\ Targets \subseteq {"info", "library", "learn", "registrar"}
  /\ \A s \in Targets : HasParent(s) => ParentOf[s] \in Targets
ASSUME DepthAssumption == MaxDepth \in Nat

VARIABLES
  identity,   \* Identity's snapshot, restored_session and login_required
  proven,     \* targets with an authenticated session and its adapter
  challenge,  \* a portal's second factor waits for the user
  saved,      \* the user opted in to the saved credential
  gate,       \* per service: attempted, result, failure kind and retry_at
  awaiting,   \* awaiting_business: recovered, and no business read since
  resume,     \* resume_retry_at and the one-shot marks of the credential
  portal,     \* the shared portal's proof and its last failure
  pc,         \* the step of every frame of the running call
  direct,     \* what a call outside the gates establishes, "none": the portal
  root,       \* frames that found the nesting depth zero
  clean,      \* frames whose replay fence is as they took it
  history     \* see Histories

runtime == <<identity, proven, challenge, saved, gate, awaiting, resume, portal>>
call == <<pc, direct, root, clean>>
vars == <<runtime, call, history>>

Services == Targets \cup {"identity"}
Callers == Services \cup {"resume", "direct"}

Deadlines == {"none", "ahead", "due"}
Identities ==
  [state : {"anonymous", "authenticating", "challenged", "authenticated", "expired"},
   restored : BOOLEAN,    \* a Cookie snapshot not proven by this process
   deadline : Deadlines,  \* expires_at
   login : BOOLEAN]       \* login_required
Gates ==
  [attempted : BOOLEAN,
   result : {"none", "ok", "notice", "transient", "failed"},
   kind : {"none", "probe", "interaction", "login", "unconfirmed"},
   retry : Deadlines]
Resumes ==
  [at : Deadlines,        \* resume_retry_at
   attempt : {"ready", "consumed", "retryable"},
   tried : BOOLEAN,       \* credential_recovery_attempted
   opened : BOOLEAN]      \* private_credential_attempted
Portals ==
  [up : BOOLEAN,          \* portal_bootstrapped
   password : BOOLEAN,    \* portal_password_required
   failure : {"none", "transient", "failed"},
   proof : BOOLEAN,       \* current_recovery_portal_proof
   depth : Nat]            \* service_refresh_depth
Awaits == {"portal", "establish", "probe", "discover", "submit"}
Steps == Awaits \cup
  {"idle", "begin", "inner", "identity", "prepare", "bootstrap", "parent", "nested",
   "recover"}
Histories ==
  [tainted : SUBSET Services,  \* last attempt may have consumed something
   spent : SUBSET Targets,     \* handed off with no business read since
   posted : {"no", "timed", "final"}]  \* a login was posted, its outcome is unknown:
                               \* beside a retry scheduled before, or without one

Idle == \A c \in Callers : pc[c] = "idle"
Running == {s \in Services : pc[s] \notin {"idle", "begin"}}
Posted == IF resume.at = "none" THEN "final" ELSE "timed"
AtAwait == \E c \in Callers : pc[c] \in Awaits

-----------------------------------------------------------------------------
(* What the runtime reads off its state.                                   *)

Current == identity.state = "authenticated" /\ identity.deadline # "due"
Live == Current /\ ~identity.restored
Proven(s) == Current /\ s \in proven
InteractionPending == identity.state = "challenged" \/ (challenge /\ Live)

Open == [attempted |-> FALSE, result |-> "none", kind |-> "none", retry |-> "none"]
Sealed ==
  [attempted |-> TRUE, result |-> "failed", kind |-> "unconfirmed", retry |-> "none"]

\* clear_automatic_refresh_state, for the services of S.
Cleared(g, S) == [s \in Services |-> IF s \in S THEN Open ELSE g[s]]

\* Mutant: a service expired again is recovered again.
UnsealedIfPending(s) == gate

\* invalidate_pending_business_recovery: a recovered service that is expired
\* again before any business read stays closed.
SealedIfPending(s) ==
  [gate EXCEPT ![s] = IF s \in awaiting THEN Sealed ELSE @]

\* Mutant: Identity keeps its authenticated state.
RequireLoginKeepsState(i) == [i EXCEPT !.login = TRUE, !.restored = FALSE]

RequireLogin(i) ==
  [i EXCEPT !.login = TRUE, !.restored = FALSE,
            !.state = IF @ \in {"authenticated", "authenticating"} THEN "expired" ELSE @]

\* finish_primary_recovery_cycle: only readers that waited for the probe of
\* the login are let through.
CycleFinished(g) ==
  Cleared(g, {"identity"} \cup {s \in Services : g[s].result = "notice"})
ResumeFinished(r) == [r EXCEPT !.at = "none", !.tried = FALSE]

\* reopen_safe_login_probe_if_due and reopen_due_probe.
LoginDue == resume.at = "due"
ResumeReopened ==
  IF LoginDue THEN [at |-> "none", attempt |-> "ready", tried |-> FALSE, opened |-> FALSE]
  ELSE resume
\* Mutant: the login's deadline opens every gate.
GateReopenedAll == IF LoginDue THEN Cleared(gate, Services) ELSE gate
GateReopened == IF LoginDue THEN Cleared(gate, {"identity"}) ELSE gate
PortalReopened(due) == IF due THEN [portal EXCEPT !.failure = "none"] ELSE portal
ProbeReopened(g, s) == IF g[s].retry = "due" THEN Cleared(g, {s}) ELSE g

-----------------------------------------------------------------------------
(* Frames.                                                                 *)

Goes(c, step) == pc' = [pc EXCEPT ![c] = step]
Ends == pc' = [c \in Callers |-> "idle"] /\ direct' = "none" /\ root' = {} /\ clean' = {}

\* Mutant: the proof is not taken back.
UnwoundKeepsProof(p, S) ==
  LET n == Cardinality(S \cap Targets) IN
    [p EXCEPT !.depth = IF @ > n THEN @ - n ELSE 0]

\* The nesting depth and the shared proof after the frames of S returned.
Unwound(p, S) ==
  LET n == Cardinality(S \cap Targets) IN
    [p EXCEPT !.depth = IF @ > n THEN @ - n ELSE 0,
              !.proof = @ /\ root \cap S = {}]

\* Mutant: a failure may be probed again whatever was sent meanwhile.
RecordedUnfenced(g, why, fenced) ==
  CASE why = "notice" /\ resume'.at # "none" ->
         [g EXCEPT !.result = why, !.kind = "probe", !.retry = resume'.at]
    [] InteractionPending' -> [g EXCEPT !.result = why, !.kind = "interaction"]
    [] identity'.login -> [g EXCEPT !.result = why, !.kind = "login"]
    [] why = "transient" -> [g EXCEPT !.result = why, !.kind = "probe", !.retry = "ahead"]
    [] OTHER -> [g EXCEPT !.result = why, !.kind = "unconfirmed"]

\* record_recovery_result of a refresh that did not prove its service; the
\* state of the runtime is the one the failure left.
Recorded(g, why, fenced) ==
  CASE why = "notice" /\ resume'.at # "none" ->
         [g EXCEPT !.result = why, !.kind = "probe", !.retry = resume'.at]
    [] InteractionPending' -> [g EXCEPT !.result = why, !.kind = "interaction"]
    [] identity'.login -> [g EXCEPT !.result = why, !.kind = "login"]
    [] why = "transient" /\ fenced ->
         [g EXCEPT !.result = why, !.kind = "probe", !.retry = "ahead"]
    [] OTHER -> [g EXCEPT !.result = why, !.kind = "unconfirmed"]

\* An error ends the call: every frame that took its attempt records it.
Fails(g, p, why, kept) ==
  /\ gate' = [s \in Services |->
                IF s \in Running THEN Recorded(g[s], why, s \in kept) ELSE g[s]]
  /\ portal' = Unwound(p, Running)
  /\ Ends
  /\ history' = [history EXCEPT !.tainted =
                   IF why = "notice" THEN @ ELSE @ \cup (Running \ kept)]

\* A request that may consume something spends the fence of every frame.
Kept(dirty) == IF dirty THEN {} ELSE clean

-----------------------------------------------------------------------------
(* Identity: refresh_identity_after_expiry.                                *)

\* Whatever refuses an attempt refuses the frames that wait for it.
EnterIdentity ==
  LET g == ProbeReopened(GateReopened, "identity")
      p == PortalReopened(LoginDue \/ GateReopened["identity"].retry = "due")
  IN
  /\ pc["identity"] = "begin"
  /\ resume' = ResumeReopened
  /\ UNCHANGED <<identity, proven, challenge, saved, awaiting>>
  /\ \/ /\ resume'.at = "ahead"
        /\ Fails(GateReopened, PortalReopened(LoginDue), "notice", clean)
     \/ /\ resume'.at = "none" /\ identity.login
        /\ Fails(GateReopened, PortalReopened(LoginDue), "failed", clean)
     \/ /\ resume'.at = "none" /\ ~identity.login
        /\ g["identity"].result # "none"
        /\ Fails(g, p, g["identity"].result, clean)
     \/ /\ resume'.at = "none" /\ ~identity.login
        /\ g["identity"].result = "none" /\ g["identity"].attempted
        /\ Fails(g, p, "failed", clean)
     \/ /\ resume'.at = "none" /\ ~identity.login
        /\ g["identity"].result = "none" /\ ~g["identity"].attempted
        /\ gate' = [g EXCEPT !["identity"].attempted = TRUE]
        /\ portal' = p
        /\ Goes("identity", "inner")
        /\ clean' = clean \cup {"identity"}
        /\ UNCHANGED <<direct, root, history>>

\* Mutant: the challenge the user is answering is not looked at.
IdentityInnerUnguarded ==
  /\ pc["identity"] = "inner"
  /\ UNCHANGED <<identity, proven, challenge, saved, awaiting, resume>>
  /\ IF identity.state \notin {"authenticated", "expired"}
     THEN Fails(gate, portal, "failed", clean)
     ELSE /\ portal' = [portal EXCEPT !.up = FALSE, !.failure = "none", !.password = FALSE]
          /\ Goes("identity", "probe")
          /\ UNCHANGED <<gate, direct, root, clean, history>>

\* Only an account that was signed in before is probed, and never over a
\* challenge the user is answering.
IdentityInner ==
  /\ pc["identity"] = "inner"
  /\ UNCHANGED <<identity, proven, challenge, saved, awaiting, resume>>
  /\ IF challenge \/ identity.state \notin {"authenticated", "expired"}
     THEN Fails(gate, portal, "failed", clean)
     ELSE /\ portal' = [portal EXCEPT !.up = FALSE, !.failure = "none", !.password = FALSE]
          /\ Goes("identity", "probe")
          /\ UNCHANGED <<gate, direct, root, clean, history>>

\* The frames that waited for Identity go on.
IdentityReturns(step) ==
  pc' = [c \in Callers |-> CASE c = "identity" -> "idle"
                             [] pc[c] = "identity" -> step
                             [] OTHER -> pc[c]]

\* The current Cookies answer for the account: Identity is promoted, the
\* primary cycle is finished and the proof is shared with the chain.
CookiesProve ==
  LET p == [portal EXCEPT !.up = TRUE, !.password = FALSE, !.proof = @ \/ portal.depth > 0]
  IN
  /\ pc["identity"] = "probe"
  /\ identity' = [identity EXCEPT !.state = "authenticated", !.restored = FALSE,
                                  !.deadline = "none"]
  /\ resume' = [ResumeFinished(resume) EXCEPT !.opened = FALSE]
  /\ UNCHANGED <<proven, challenge, saved, awaiting>>
  /\ \/ /\ gate' = CycleFinished(gate)
        /\ portal' = p
        /\ IdentityReturns("prepare")
        /\ clean' \in {clean \ {"identity"}, {}}
        /\ history' = [history EXCEPT !.spent = {}, !.posted = "no",
                          !.tainted = @ \ {"identity"}]
        /\ UNCHANGED <<direct, root>>
     \/ \E dirty \in BOOLEAN :   \* proven, but not persisted
          Fails(CycleFinished(gate), p, "failed", Kept(dirty))

\* No answer for the account, and no login boundary either.
ProbeFails ==
  /\ pc["identity"] = "probe"
  /\ UNCHANGED <<identity, proven, challenge, saved, awaiting, resume>>
  /\ \E why \in {"transient", "failed"}, dirty \in BOOLEAN :
       Fails(gate, portal, why, Kept(dirty))

ProbeNeedsLogin ==
  /\ pc["identity"] = "probe"
  /\ portal' = [portal EXCEPT !.password = TRUE]
  /\ Goes("identity", "recover")
  /\ clean' \in {clean, {}}
  /\ UNCHANGED <<identity, proven, challenge, saved, gate, awaiting, resume, direct, root,
                 history>>

-----------------------------------------------------------------------------
(* The saved credential: recover_restored_session_with_private_credential, *)
(* for Identity's refresh and for the resume of a restored session.        *)

Recovering(c) == pc[c] = "recover"

\* No login was tried.  The resume only reports its status; a refresh fails,
\* and asks for a login unless the vault may be back soon.
NotRecovered(c, i, r, k) ==
  IF c = "resume"
  THEN /\ identity' = i /\ resume' = r
       /\ Ends
       /\ UNCHANGED <<gate, portal, history>>
  ELSE /\ resume' = r
       /\ IF r.attempt = "retryable"
          THEN identity' = i /\ Fails(gate, portal, "transient", k)
          ELSE /\ identity' = RequireLogin(i)
               /\ Fails(gate, [portal EXCEPT !.up = FALSE], "failed", k)

RecoveryRefused(c) ==
  /\ Recovering(c)
  /\ identity.login \/ resume.tried \/ ~saved
  /\ UNCHANGED <<proven, challenge, saved, awaiting>>
  /\ NotRecovered(c, identity, resume, clean)

\* The vault is busy: the attempt is given back.
RecoveryVaultBusy(c) ==
  /\ Recovering(c)
  /\ ~identity.login /\ ~resume.tried /\ saved
  /\ UNCHANGED <<proven, challenge, saved, awaiting>>
  /\ NotRecovered(c, identity,
       [resume EXCEPT !.attempt = "retryable", !.tried = FALSE, !.opened = FALSE], clean)

\* No record, or one that must not be used.
RecoveryNoRecord(c) ==
  /\ Recovering(c)
  /\ ~identity.login /\ ~resume.tried /\ saved
  /\ UNCHANGED <<proven, challenge, saved, awaiting>>
  /\ NotRecovered(c, identity, [resume EXCEPT !.tried = TRUE, !.opened = TRUE], clean)

\* login_with_credentials(recovery_only): every session ends and the
\* transport is replaced, the recovery state and the gates are kept.
RecoveryLogin(c) ==
  /\ Recovering(c)
  /\ ~identity.login /\ ~resume.tried /\ saved
  /\ identity' = [identity EXCEPT !.state = "anonymous", !.restored = FALSE,
                                  !.deadline = "none"]
  /\ proven' = {}
  /\ challenge' = FALSE
  /\ resume' = [resume EXCEPT !.attempt = "consumed", !.tried = FALSE, !.opened = FALSE]
  /\ portal' = [up |-> FALSE, password |-> FALSE, failure |-> "none", proof |-> FALSE,
                depth |-> 0]
  /\ clean' = {}
  /\ Goes(c, "discover")
  /\ history' = [history EXCEPT !.spent = {}]
  /\ UNCHANGED <<saved, gate, awaiting, direct, root>>

\* A login that failed: its attempt is not given back.
LoginFails(i, r, why) ==
  /\ identity' = i
  /\ resume' = [r EXCEPT !.tried = TRUE]
  /\ Fails(gate, portal, why, {})

\* The entry could not be read: nothing was posted on the new transport.
EntryUnavailable(c) ==
  /\ pc[c] = "discover"
  /\ UNCHANGED <<proven, challenge, saved, awaiting>>
  /\ LoginFails(identity, [resume EXCEPT !.at = "ahead", !.attempt = "consumed"], "notice")

EntryRefused(c) ==
  /\ pc[c] = "discover"
  /\ UNCHANGED <<proven, challenge, saved, awaiting>>
  /\ LoginFails(identity, resume, "failed")

EntryRead(c) ==
  /\ pc[c] = "discover"
  /\ identity' = [identity EXCEPT !.state = "authenticating"]
  /\ Goes(c, "submit")
  /\ UNCHANGED <<proven, challenge, saved, gate, awaiting, resume, portal, direct, root,
                 clean, history>>

\* The answer is lost or proves nothing.
PostUnanswered(c) ==
  /\ pc[c] = "submit"
  /\ UNCHANGED <<proven, challenge, saved, awaiting>>
  /\ identity' = [identity EXCEPT !.state = "anonymous"]
  /\ resume' = [resume EXCEPT !.tried = TRUE]
  /\ gate' = [s \in Services |->
                IF s \in Running THEN Recorded(gate[s], "failed", FALSE) ELSE gate[s]]
  /\ portal' = Unwound(portal, Running)
  /\ Ends
  /\ history' = [history EXCEPT !.tainted = @ \cup Running, !.posted = Posted]

\* The credential was rejected: the opt-in ends and the user must log in.
PostRejected(c) ==
  /\ pc[c] = "submit"
  /\ saved' = FALSE
  /\ UNCHANGED <<proven, challenge, awaiting>>
  /\ LoginFails([RequireLogin(identity) EXCEPT !.state = "anonymous"], resume, "failed")

PostChallenged(c) ==
  /\ pc[c] = "submit"
  /\ UNCHANGED <<proven, challenge, saved, awaiting>>
  /\ LoginFails([identity EXCEPT !.state = "challenged"], resume, "failed")

\* The login proved Identity.  A resume goes on to the portal.
PostProves(c) ==
  /\ pc[c] = "submit"
  /\ identity' = [identity EXCEPT !.state = "authenticated"]
  /\ resume' = ResumeFinished(resume)
  /\ gate' = CycleFinished(gate)
  /\ IF c = "resume" THEN pc' = [pc EXCEPT !["resume"] = "idle", !["direct"] = "bootstrap"]
                     ELSE IdentityReturns("prepare")
  /\ history' = [history EXCEPT !.posted = "no", !.tainted = @ \ {"identity"}]
  /\ clean' = {}
  /\ UNCHANGED <<proven, challenge, saved, awaiting, portal, direct, root>>

-----------------------------------------------------------------------------
(* The portal shared by the targets: ensure_portal_bootstrap, for a        *)
(* target's refresh, the resume and the calls outside the gates.           *)

AfterPortal(c) ==
  CASE c \in Targets -> IF HasParent(c) THEN "parent" ELSE "establish"
    [] c = "resume" -> "idle"
    [] c = "direct" -> IF direct = "none" THEN "idle" ELSE "establish"

\* The portal stays unproven: a refresh fails; the resume schedules another
\* probe if it may, and recovers if the portal asked for a password.
PortalFails(c, r, p, why, kept) ==
  IF c = "resume"
  THEN /\ resume' = IF why = "transient" /\ c \in kept THEN [r EXCEPT !.at = "ahead"] ELSE r
       /\ portal' = p
       /\ Goes(c, IF p.password THEN "recover" ELSE "idle")
       /\ clean' = {}
       /\ UNCHANGED <<gate, direct, root, history>>
  ELSE resume' = r /\ Fails(gate, p, why, kept)

\* The portal is proven for c.  A resume also finishes the primary cycle,
\* unless the session could not be persisted.
PortalDone(c, p, r) ==
  /\ portal' = p
  /\ Goes(c, AfterPortal(c))
  /\ \/ resume' = r /\ UNCHANGED gate
     \/ c = "resume" /\ resume' = ResumeFinished(r) /\ gate' = CycleFinished(gate)

\* A failure is remembered for a minute, for whoever asks for the portal.
Bootstrap(c) ==
  /\ pc[c] = "bootstrap"
  /\ UNCHANGED <<identity, proven, challenge, saved, awaiting>>
  /\ \/ /\ ~Current
        /\ PortalFails(c, resume, portal, "failed", clean)
     \/ /\ Current /\ portal.up
        /\ PortalDone(c, portal, resume)
        /\ UNCHANGED <<direct, root, clean, history>>
     \/ /\ Current /\ ~portal.up /\ portal.failure # "none"
        /\ PortalFails(c, resume, portal, portal.failure, clean)
     \/ /\ Current /\ ~portal.up /\ portal.failure = "none" /\ challenge
        /\ PortalFails(c, resume, [portal EXCEPT !.failure = "failed"], "failed", clean)
     \/ /\ Current /\ ~portal.up /\ portal.failure = "none" /\ ~challenge
        /\ Goes(c, "portal")
        /\ UNCHANGED <<gate, resume, portal, direct, root, clean, history>>

Asked(c) == pc[c] = "portal"
Noted(why, password) == [portal EXCEPT !.failure = why, !.password = password]
CanOpenVault == saved /\ ~resume.opened

\* By the current Cookies, a continued handoff or the saved password.
PortalProves(c) ==
  /\ Asked(c)
  /\ PortalDone(c, [portal EXCEPT !.up = TRUE, !.password = FALSE, !.failure = "none",
                                  !.proof = @ \/ portal.depth > 0],
                [resume EXCEPT !.opened = FALSE])
  /\ identity' = [identity EXCEPT !.restored = FALSE]
  /\ clean' \in {clean, {}}
  /\ UNCHANGED <<proven, challenge, saved, awaiting, direct, root, history>>

PortalUnanswered(c) ==
  /\ Asked(c)
  /\ UNCHANGED <<identity, proven, challenge, saved, awaiting>>
  /\ \E why \in {"transient", "failed"}, dirty \in BOOLEAN :
       PortalFails(c, resume, Noted(why, FALSE), why, Kept(dirty))

\* The portal wants a password and the vault is busy.
PortalVaultBusy(c) ==
  /\ Asked(c)
  /\ CanOpenVault
  /\ UNCHANGED <<identity, proven, challenge, saved, awaiting>>
  /\ \E dirty \in BOOLEAN :
       PortalFails(c, resume, Noted("transient", TRUE), "transient", Kept(dirty))

\* No password to give: the opt-in is missing, was used up, or has no record.
PortalNeedsLogin(c) ==
  /\ Asked(c)
  /\ identity' = RequireLogin(identity)
  /\ UNCHANGED <<proven, challenge, saved, awaiting>>
  /\ \E dirty \in BOOLEAN :
       PortalFails(c, [resume EXCEPT !.opened = @ \/ saved],
                   [Noted("failed", TRUE) EXCEPT !.up = FALSE], "failed", Kept(dirty))

\* The saved password was posted, and the answer is lost or proves nothing.
PortalPostUnanswered(c) ==
  /\ Asked(c)
  /\ CanOpenVault
  /\ UNCHANGED <<identity, proven, challenge, saved, awaiting>>
  /\ PortalFails(c, [resume EXCEPT !.opened = TRUE], Noted("failed", TRUE), "failed", {})

PortalPostRejected(c) ==
  /\ Asked(c)
  /\ CanOpenVault
  /\ identity' = RequireLogin(identity)
  /\ saved' = FALSE
  /\ UNCHANGED <<proven, challenge, awaiting>>
  /\ PortalFails(c, [resume EXCEPT !.opened = TRUE], Noted("failed", TRUE), "failed", {})

\* The portal asks for a second factor: at once, after its boundary was passed
\* without a password, or in its answer to the saved one.  The challenge is
\* left for the user, unless Identity is not proven or the discovery fails.
\* From the boundary on a password counts as required.
PortalPauses(c) ==
  /\ Asked(c)
  /\ ~challenge
  /\ challenge' \in BOOLEAN
  /\ challenge' => Live
  /\ UNCHANGED <<identity, proven, saved, awaiting>>
  /\ \E opened \in {resume.opened, CanOpenVault \/ resume.opened},
        password \in BOOLEAN, dirty \in BOOLEAN :
       /\ opened # resume.opened => password
       /\ PortalFails(c, [resume EXCEPT !.opened = opened], Noted("failed", password),
                      "failed", Kept(dirty))

-----------------------------------------------------------------------------
(* A target's refresh: refresh_academic_ and                               *)
(* refresh_nonacademic_service_after_expiry.                               *)

EnterRefresh(s) ==
  LET due == gate[s].retry = "due"
      g == ProbeReopened(gate, s)
  IN
  /\ pc[s] = "begin"
  /\ UNCHANGED <<identity, proven, challenge, saved, awaiting, resume>>
  /\ \/ /\ g[s].result = "ok" /\ Proven(s)
        /\ gate' = Cleared(g, {s})
        /\ portal' = PortalReopened(due)
        /\ Ends
        /\ UNCHANGED history
     \/ /\ g[s].result # "none" /\ ~(g[s].result = "ok" /\ Proven(s))
        /\ Fails(g, PortalReopened(due), IF g[s].result = "ok" THEN "failed" ELSE g[s].result,
                 clean)
     \/ /\ g[s].result = "none" /\ g[s].attempted
        /\ Fails(g, PortalReopened(due), "failed", clean)
     \/ /\ g[s].result = "none" /\ ~g[s].attempted
        /\ gate' = [g EXCEPT ![s].attempted = TRUE]
        /\ portal' = [PortalReopened(due) EXCEPT !.depth = @ + 1]
        /\ root' = IF portal.depth = 0 THEN root \cup {s} ELSE root
        /\ clean' = clean \cup {s}
        /\ IF Live THEN Goes(s, "prepare")
           ELSE pc' = [pc EXCEPT ![s] = "identity", !["identity"] = "begin"]
        /\ UNCHANGED <<direct, history>>

\* The expired session is dropped; the portal must be proven anew unless this
\* chain did so already.  INFO also forgets how the portal failed.
Prepare(s) ==
  /\ pc[s] = "prepare"
  /\ gate' = SealedIfPending(s)
  /\ awaiting' = awaiting \ {s}
  /\ proven' = proven \ {s}
  /\ IF s = "library" THEN Goes(s, "parent") /\ UNCHANGED portal
     ELSE /\ Goes(s, "bootstrap")
          /\ portal' = IF portal.proof THEN portal
                       ELSE [portal EXCEPT !.up = FALSE,
                               !.failure = IF s = "info" THEN "none" ELSE @]
  /\ UNCHANGED <<identity, challenge, saved, resume, direct, root, clean, history>>

\* A library read needs INFO, Registrar needs Learn: their own gates decide.
Parent(s) ==
  /\ pc[s] = "parent"
  /\ IF Proven(ParentOf[s]) THEN Goes(s, "establish")
     ELSE pc' = [pc EXCEPT ![s] = "nested", ![ParentOf[s]] = "begin"]
  /\ UNCHANGED <<runtime, direct, root, clean, history>>

\* Who waited for the refresh of a service goes on.
Returns(s) ==
  pc' = [c \in Callers |->
           IF c = s \/ (c = "direct" /\ pc[c] = "nested" /\ direct = s) THEN "idle"
           ELSE IF pc[c] = "nested" /\ HasParent(c) /\ ParentOf[c] = s THEN "establish"
           ELSE pc[c]]

\* The target answered its handoff.  When the service is proven its gate
\* opens again and a business read is waited for; a proof that fell due
\* meanwhile is recorded as it is.  A session that could not be persisted
\* fails the refresh all the same.
Established(s) ==
  /\ pc[s] = "establish" /\ s \in Targets
  /\ HasParent(s) => Proven(ParentOf[s])
  /\ proven' = proven \cup {s}
  /\ UNCHANGED <<identity, challenge, saved, resume>>
  /\ \/ /\ s = "info" => Current
        /\ IF Current
           THEN /\ gate' = Cleared(gate, {s})
                /\ awaiting' = awaiting \cup {s}
           ELSE /\ gate' = [gate EXCEPT ![s] = Recorded(@, "ok", FALSE)]
                /\ UNCHANGED awaiting
        /\ portal' = Unwound(portal, {s})
        /\ Returns(s)
        /\ clean' = clean \ {s}
        /\ root' = root \ {s}
        /\ direct' = IF direct = s THEN "none" ELSE direct
        /\ history' = [history EXCEPT !.spent = @ \cup {s}, !.tainted = @ \ {s}]
     \/ /\ UNCHANGED awaiting
        /\ \E dirty \in BOOLEAN : Fails(gate, portal, "failed", Kept(dirty))

EstablishFails(s) ==
  /\ pc[s] = "establish" /\ s \in Targets
  /\ proven' = proven \ {s}
  /\ UNCHANGED <<identity, challenge, saved, resume, awaiting>>
  /\ \E dirty \in BOOLEAN : Fails(gate, portal, "failed", Kept(dirty))

-----------------------------------------------------------------------------
(* Calls outside the gates.                                                *)

\* establish_service_session: the user's own retry opens the gates of the
\* service and of those it stands on, and ends a dropped call's nesting.
Reopened(s) ==
  ({s, "info"} \cup IF s = "registrar" THEN {"learn"} ELSE {}) \cap Targets

Begins(c, step) ==
  /\ pc' = [pc EXCEPT ![c] = step]
  /\ UNCHANGED <<root, clean>>

EstablishManually(s) ==
  /\ Idle
  /\ Live
  /\ gate' = Cleared(gate, Reopened(s))
  /\ awaiting' = awaiting \ Reopened(s)
  /\ portal' = [portal EXCEPT !.depth = 0, !.proof = FALSE, !.failure = "none"]
  /\ resume' = [resume EXCEPT !.opened = FALSE]
  /\ history' = [history EXCEPT !.tainted = @ \ Reopened(s), !.spent = @ \ Reopened(s)]
  /\ IF Proven(s) THEN UNCHANGED call
     ELSE /\ direct' = s
          /\ Begins("direct", IF HasParent(s) /\ Proven(ParentOf[s]) THEN "establish"
                              ELSE "bootstrap")
  /\ UNCHANGED <<identity, proven, challenge, saved>>

\* A library goes through its gate, the others are established at once,
\* Registrar after Learn.
DirectLibrary ==
  /\ pc["direct"] = "establish" /\ direct = "library"
  /\ pc' = [pc EXCEPT !["direct"] = "nested", !["library"] = "begin"]
  /\ UNCHANGED <<runtime, direct, root, clean, history>>

DirectEstablish ==
  LET parents == IF HasParent(direct) THEN {ParentOf[direct]} ELSE {} IN
  /\ pc["direct"] = "establish" /\ direct # "library"
  /\ \/ (direct = "info" => Current) /\ proven' = proven \cup parents \cup {direct}
     \/ proven' = (proven \cup parents) \ {direct}
     \/ proven' = proven \ ({direct} \cup {p \in parents : ~Proven(p)})
  /\ Ends
  /\ UNCHANGED <<identity, challenge, saved, gate, awaiting, resume, portal, history>>

\* Mutant: the resume leaves it to the next read to look at the deadline.
ForegroundNotReopened ==
  LET step == IF identity.state = "anonymous" THEN "recover" ELSE "bootstrap" IN
  /\ Idle
  /\ \/ /\ ~identity.login /\ ~InteractionPending /\ resume.at # "ahead"
        /\ ~identity.restored /\ ~Live
        /\ identity.state \in {"authenticated", "expired"}
        /\ Begins("identity", "begin") /\ UNCHANGED <<direct, resume>>
     \/ /\ ~identity.login /\ ~InteractionPending /\ resume.at # "ahead"
        /\ identity.restored \/ Live \/ identity.state = "anonymous"
        /\ resume.attempt # "consumed" /\ (identity.restored \/ saved)
        /\ resume' = [resume EXCEPT !.attempt = "consumed"]
        /\ pc' = [pc EXCEPT !["resume"] = step]
        /\ clean' = {"resume"}
        /\ UNCHANGED <<direct, root>>
  /\ UNCHANGED <<identity, proven, challenge, saved, gate, awaiting, portal, history>>

\* resume_restored_session, also the first thing a reader of an unproven
\* snapshot does.
Foreground ==
  LET p == PortalReopened(LoginDue)
      r == ResumeReopened
      step == IF identity.state = "anonymous" THEN "recover" ELSE "bootstrap"
  IN
  /\ Idle
  /\ gate' = GateReopened
  /\ portal' = p
  /\ \/ /\ \/ identity.login \/ InteractionPending \/ r.at = "ahead"
           \/ identity.state = "authenticating"
        /\ resume' = r
        /\ UNCHANGED call
     \/ /\ ~identity.login /\ ~InteractionPending /\ r.at # "ahead"
        /\ ~identity.restored /\ ~Live
        /\ identity.state \in {"authenticated", "expired"}
        /\ resume' = r
        /\ Begins("identity", "begin") /\ UNCHANGED direct
     \/ /\ ~identity.login /\ ~InteractionPending /\ r.at # "ahead"
        /\ identity.restored \/ Live \/ identity.state = "anonymous"
        /\ r.attempt # "consumed" /\ (identity.restored \/ saved)
        /\ resume' = [r EXCEPT !.attempt = "consumed"]
        /\ pc' = [pc EXCEPT !["resume"] = step]
        /\ clean' = {"resume"}
        /\ UNCHANGED <<direct, root>>
  /\ UNCHANGED <<identity, proven, challenge, saved, awaiting, history>>

\* A reader finds Identity unproven.
ReadIdentityLost ==
  /\ Idle
  /\ ~Live /\ ~identity.restored /\ identity.state # "anonymous"
  /\ Begins("identity", "begin")
  /\ UNCHANGED <<runtime, direct, history>>

\* A reader finds its service unproven; the library's reader drops what is
\* left of the session first.
ReadUnproven(s) ==
  /\ Idle
  /\ Live /\ ~Proven(s)
  /\ IF s = "library"
     THEN gate' = SealedIfPending(s) /\ awaiting' = awaiting \ {s}
     ELSE UNCHANGED <<gate, awaiting>>
  /\ Begins(s, "begin")
  /\ UNCHANGED <<identity, proven, challenge, saved, resume, portal, direct, history>>

\* The server answers a read with an expiry of the service.
ReadExpired(s) ==
  /\ Idle
  /\ Live /\ Proven(s)
  /\ gate' = SealedIfPending(s)
  /\ awaiting' = awaiting \ {s}
  /\ proven' = proven \ {s}
  /\ Begins(s, "begin")
  /\ UNCHANGED <<identity, challenge, saved, resume, portal, direct, history>>

\* The same for a service read through INFO, whose reader leaves INFO's
\* session to the refresh.
ChildExpired ==
  /\ Idle
  /\ Live /\ Proven("info") /\ "info" \in Targets
  /\ Begins("info", "begin")
  /\ UNCHANGED <<runtime, direct, history>>

\* finish_business_recovery: a read that names its service releases it.
Released(s) ==
  {t \in {s} \cup (IF s = "library" THEN {"info"} ELSE {}) : Proven(t)}

ReadServed(s) ==
  /\ Idle
  /\ Live /\ Proven(s)
  /\ gate' = Cleared(gate, Released(s))
  /\ awaiting' = awaiting \ Released(s)
  /\ history' = [history EXCEPT !.tainted = @ \ Released(s), !.spent = @ \ Released(s)]
  /\ UNCHANGED <<identity, proven, challenge, saved, resume, portal, call>>

-----------------------------------------------------------------------------
(* What the user does about Identity.                                      *)

\* reset_sessions and a new recovery state.
Forgotten ==
  /\ proven' = {}
  /\ challenge' = FALSE
  /\ gate' = Cleared(gate, Services)
  /\ awaiting' = {}
  /\ portal' = [up |-> FALSE, password |-> FALSE, failure |-> "none", proof |-> FALSE,
                depth |-> 0]
  /\ history' = [tainted |-> {}, spent |-> {}, posted |-> "no"]

\* An explicit login to its end; a rejected credential requires another one.
ExplicitLogin ==
  /\ Idle
  /\ \E state \in {"anonymous", "authenticating", "challenged", "authenticated"},
        required \in BOOLEAN :
       /\ required => state = "anonymous"
       /\ identity' = [state |-> state, restored |-> FALSE, deadline |-> "none",
                       login |-> required]
       /\ saved' \in IF required THEN {FALSE} ELSE BOOLEAN
  /\ resume' = [at |-> "none", attempt |-> "consumed", tried |-> FALSE, opened |-> FALSE]
  /\ Forgotten
  /\ UNCHANGED call

Logout ==
  /\ Idle
  /\ identity' = [state |-> "anonymous", restored |-> FALSE, deadline |-> "none",
                  login |-> FALSE]
  /\ saved' = FALSE
  /\ resume' = [resume EXCEPT !.at = "none", !.tried = FALSE, !.opened = FALSE]
  /\ Forgotten
  /\ UNCHANGED call

\* release_completed_interaction: what failed for the challenge may go on.
Paused == {s \in Services : gate[s].kind = "interaction"}

\* The code of the primary challenge: complete_second_factor.
CompletePrimary ==
  /\ Idle
  /\ identity.state = "challenged"
  /\ \/ /\ identity' = [identity EXCEPT !.state = "authenticated"]
        /\ resume' = ResumeFinished(resume)
        /\ gate' = CycleFinished(Cleared(gate, Paused))
        /\ awaiting' = awaiting \ Paused
        /\ portal' = [portal EXCEPT !.failure = "none"]
        /\ history' = [history EXCEPT !.tainted = @ \ (Paused \cup {"identity"}),
                                      !.spent = @ \ Paused, !.posted = "no"]
     \/ /\ identity' = [identity EXCEPT !.state = "anonymous"]
        /\ UNCHANGED <<gate, awaiting, resume, portal, history>>
  /\ UNCHANGED <<proven, challenge, saved, call>>

\* The code of a portal's challenge: complete_service_second_factor.
CompletePortal ==
  /\ Idle
  /\ challenge /\ Live
  /\ challenge' = FALSE
  /\ \/ /\ portal' = [portal EXCEPT !.up = TRUE, !.password = FALSE, !.failure = "none"]
        /\ resume' = [resume EXCEPT !.opened = FALSE]
        /\ gate' = Cleared(gate, Paused)
        /\ awaiting' = awaiting \ Paused
        /\ history' = [history EXCEPT !.tainted = @ \ Paused, !.spent = @ \ Paused]
     \/ /\ portal' \in {portal, [portal EXCEPT !.failure = "none"]}
        /\ UNCHANGED <<gate, awaiting, resume, history>>
  /\ UNCHANGED <<identity, proven, saved, call>>

-----------------------------------------------------------------------------
(* Time, and futures that are dropped at an await.                         *)

TimePasses == Idle \/ AtAwait

RetryFallsDue(s) ==
  /\ TimePasses
  /\ gate[s].retry = "ahead"
  /\ gate' = [gate EXCEPT ![s].retry = "due"]
  /\ UNCHANGED <<identity, proven, challenge, saved, awaiting, resume, portal, call, history>>

LoginFallsDue ==
  /\ TimePasses
  /\ resume.at = "ahead"
  /\ resume' = [resume EXCEPT !.at = "due"]
  /\ UNCHANGED <<identity, proven, challenge, saved, gate, awaiting, portal, call, history>>

SnapshotFallsDue ==
  /\ TimePasses
  /\ identity.deadline = "ahead"
  /\ identity' = [identity EXCEPT !.deadline = "due"]
  /\ UNCHANGED <<proven, challenge, saved, gate, awaiting, resume, portal, call, history>>

PortalCools ==
  /\ TimePasses
  /\ portal.failure # "none"
  /\ portal' = [portal EXCEPT !.failure = "none"]
  /\ UNCHANGED <<identity, proven, challenge, saved, gate, awaiting, resume, call, history>>

\* What the frames did so far stays, their nesting too.
Drop ==
  LET atPortal == \E c \in Callers : Asked(c) IN
  /\ AtAwait
  /\ portal.depth <= MaxDepth
  /\ Ends
  /\ IF atPortal
     THEN \E opened \in {resume.opened, CanOpenVault \/ resume.opened} :
            /\ resume' = [resume EXCEPT !.opened = opened]
            /\ portal' \in {[portal EXCEPT !.password = p] :
                              p \in {portal.password, FALSE, TRUE}}
     ELSE UNCHANGED <<resume, portal>>
  /\ history' = [history EXCEPT !.tainted = @ \cup Running,
                   !.posted = IF \E c \in Callers : pc[c] = "submit" THEN Posted ELSE @]
  /\ UNCHANGED <<identity, proven, challenge, saved, gate, awaiting>>

-----------------------------------------------------------------------------

Init ==
  /\ identity \in
       {[state |-> "authenticated", restored |-> TRUE, deadline |-> "ahead", login |-> FALSE],
        [state |-> "anonymous", restored |-> FALSE, deadline |-> "none", login |-> FALSE]}
  /\ proven = {}
  /\ challenge = FALSE
  /\ saved \in BOOLEAN
  /\ gate = [s \in Services |-> Open]
  /\ awaiting = {}
  /\ resume = [at |-> "none", attempt |-> "ready", tried |-> FALSE, opened |-> FALSE]
  /\ portal = [up |-> FALSE, password |-> FALSE, failure |-> "none", proof |-> FALSE,
               depth |-> 0]
  /\ pc = [c \in Callers |-> "idle"]
  /\ direct = "none"
  /\ root = {}
  /\ clean = {}
  /\ history = [tainted |-> {}, spent |-> {}, posted |-> "no"]

IdentityStep ==
  \/ EnterIdentity \/ IdentityInner \/ CookiesProve \/ ProbeFails \/ ProbeNeedsLogin

LoginStep(c) ==
  \/ RecoveryRefused(c) \/ RecoveryVaultBusy(c) \/ RecoveryNoRecord(c) \/ RecoveryLogin(c)
  \/ EntryUnavailable(c) \/ EntryRefused(c) \/ EntryRead(c)
  \/ PostUnanswered(c) \/ PostRejected(c) \/ PostChallenged(c) \/ PostProves(c)

PortalStep(c) ==
  \/ Bootstrap(c) \/ PortalProves(c) \/ PortalUnanswered(c) \/ PortalVaultBusy(c)
  \/ PortalNeedsLogin(c) \/ PortalPostUnanswered(c) \/ PortalPostRejected(c)
  \/ PortalPauses(c)

RefreshStep(s) ==
  \/ EnterRefresh(s) \/ Prepare(s) \/ Parent(s) \/ Established(s) \/ EstablishFails(s)

ReadStep(s) ==
  \/ EstablishManually(s) \/ ReadUnproven(s) \/ ReadExpired(s) \/ ReadServed(s)

CallStep ==
  \/ IdentityStep
  \/ \E c \in {"identity", "resume"} : LoginStep(c)
  \/ \E c \in Targets \cup {"resume", "direct"} : PortalStep(c)
  \/ \E s \in Targets : RefreshStep(s)
  \/ DirectLibrary \/ DirectEstablish

UserStep ==
  \/ \E s \in Targets : ReadStep(s)
  \/ ChildExpired \/ Foreground \/ ReadIdentityLost
  \/ ExplicitLogin \/ Logout \/ CompletePrimary \/ CompletePortal

TimeStep ==
  \/ \E s \in Services : RetryFallsDue(s)
  \/ LoginFallsDue \/ SnapshotFallsDue \/ PortalCools \/ Drop

Next == CallStep \/ UserStep \/ TimeStep

Spec == Init /\ [][Next]_vars

\* Requests end or time out, time goes on, and the application asks again
\* when a retry is announced.
FairSpec ==
  Spec /\ WF_vars(CallStep) /\ SF_vars(LoginFallsDue) /\ SF_vars(Foreground)

-----------------------------------------------------------------------------
(* Properties.                                                             *)

\* Types of the variables; the nesting depth, which drops and errors unwind,
\* stays a natural number.
TypeOK ==
  /\ identity \in Identities
  /\ proven \subseteq Targets
  /\ challenge \in BOOLEAN
  /\ saved \in BOOLEAN
  /\ gate \in [Services -> Gates]
  /\ awaiting \subseteq Targets
  /\ resume \in Resumes
  /\ portal \in Portals
  /\ pc \in [Callers -> Steps]
  /\ direct \in Targets \cup {"none"}
  /\ root \subseteq Targets
  /\ clean \subseteq Callers
  /\ history \in Histories

\* "Elapsed time never opens a consumed gate": a refresh that may have
\* consumed something is not tried again before a read, a login or the user
\* opened its gate.
OneAttempt == Running \cap Targets \cap history.tainted = {}

\* A deadline is set only for a probe that consumed nothing.
NoBlindRetry == \A s \in Services : gate[s].retry # "none" => s \notin history.tainted

\* "Do not let a portal proof obtained for one expiry chain leak": it is kept
\* only while the nesting counter says that its chain runs.  The counter is
\* what the code has: a future dropped inside a chain leaves it raised.
ProofInsideChain == portal.proof => portal.depth > 0

\* Once the user must log in nothing runs, Identity is not live and the
\* portal is not used.
LoginIsTerminal == identity.login => ~AtAwait /\ ~Current /\ ~portal.up

\* A service that was handed off and is expired again before any business
\* read is not handed off once more.  INFO is left out: its child readers do
\* not seal it.
NoHandoffLoop == \A s \in Targets \ {"info"} : pc[s] = "establish" => s \notin history.spent

\* Nothing is sent on Identity's transport while a portal's challenge waits.
NoDispatchOverChallenge ==
  challenge => \A c \in Callers : pc[c] \notin {"portal", "probe", "discover", "submit"}

\* No recovery drops a challenge the user is answering, but for the resume
\* that raised it itself after its portal had asked for a password.
ChallengeKept == [][challenge /\ ~Idle /\ ~Recovering("resume") => challenge']_vars

\* A scheduled login probe is tried, however reads and failures interleave.
ScheduledProbeRuns == resume.at # "none" ~> resume.at = "none"

\* Violated.  "Elapsed wall time alone never releases an ambiguous POST": no
\* login is posted again while the outcome of one is unknown.
TimeNeverReplays == \A c \in Callers : pc[c] = "submit" => history.posted = "no"

-----------------------------------------------------------------------------
(* The contract with the interactive sign-in.                              *)

Contract == INSTANCE SignIn WITH
  state <- identity.state,
  live <- Live,
  required <- identity.login,
  portal <- IF ~challenge THEN "none"
            ELSE IF Recovering("resume") THEN "raised" ELSE "waiting",
  engine <- ~Idle

\* The automatic recovery keeps the contract.
ImplementsSignIn == Contract!Spec

=============================================================================
