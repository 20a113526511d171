-------------------------- MODULE SessionAuthority --------------------------
(***************************************************************************)
(* The durable recovery boundary of the Identity session: the authority    *)
(* file with its generation, the Cookie snapshot, the account metadata     *)
(* (the "locator") and the private credential vault, as several runtimes  *)
(* - windows or processes that share one session root - log in, restore,   *)
(* persist, recover, log out, fail and crash.                              *)
(*                                                                         *)
(* Every access to the files runs under one non-blocking authority lock    *)
(* (`lock`): a caller that finds it held reports an error.  Sections that  *)
(* write several files are split into one action per file, so that a crash *)
(* or an I/O error can fall between them.  The annotation `gen` of the    *)
(* snapshot, `owner`, `opted` and `signedOut` are history: the code does   *)
(* not store them and no guard reads them.                                 *)
(***************************************************************************)
EXTENDS Naturals

CONSTANTS
  Runtimes,     \* windows and processes sharing the session root
  Users,        \* Identity accounts
  MaxGen,       \* bound on the generations written
  SdkRuntime,   \* TRUE: SDK runtime (snapshot once, its own vault root)
  NULL

ASSUME ConstantsAssumption ==
  /\ MaxGen \in Nat
  /\ SdkRuntime \in BOOLEAN
  /\ NULL \notin Users
  /\ NULL \notin Runtimes
  /\ NULL \notin 0..MaxGen

VARIABLES
  authority,    \* [gen, revoked]: the authority file
  lock,         \* holder of the authority lock, or NULL
  snapshot,     \* Cookie snapshot file, or NULL
  metadata,     \* account metadata file, or NULL
  vault,        \* accounts with a private credential record
  pc,           \* step of the operation a runtime is in
  lease,        \* recovery_lease
  phase,        \* Identity state of the runtime
  user,         \* account the runtime works for
  shell,        \* resume_account_metadata in memory
  optIn,        \* [remember, persisted]: remember_credentials, credentials_persisted
  gate,         \* automatic recovery: "open", "spent", or "login" required
  writer,       \* response-level Cookie writer of the transport, or NULL
  written,      \* identity_snapshot_written
  attempt,      \* inputs of the explicit login in progress, or NULL
  owner,        \* history: account each generation was opened for
  opted,        \* history: remember_credentials each generation was opened with
  signedOut     \* history: generations whose logout reported no error

durable == <<authority, snapshot, metadata, vault>>
memory  == <<lease, phase, user, shell, optIn, gate, writer, written, attempt>>
history == <<owner, opted, signedOut>>
vars    == <<durable, lock, pc, memory, history>>

Gens      == 0..MaxGen
Legacy    == 0     \* "legacy-v1": no authority file yet
Snapshots == [user : Users, gen : Gens]
Locators  == [user : Users, saved : BOOLEAN]
Attempts  == [user : Users, remember : BOOLEAN, wasRevoked : BOOLEAN]
OptIns    == [remember : BOOLEAN, persisted : BOOLEAN]
Gates     == {"open", "spent", "login"}
Phases    == {"anonymous", "authenticating", "restored", "resumed", "authenticated",
              "expired"}

\* Steps that hold the authority lock, and the others.
Locked   == {"tombstoned", "cleaned", "pairing", "sweep", "rejectSweep"}
Unlocked == {"down", "idle", "dropSnapshot", "dropMetadata", "dropBoth", "opened",
             "saveCredential", "persist", "rejecting", "revokeLocator",
             "rejectRevoke", "revoke", "forget", "forgetAfterFailure"}

Live == IF authority.revoked THEN NULL ELSE authority.gen

\* with_current / check_current: the captured lease is not revoked and is the
\* generation on disk.
Current(r) == ~authority.revoked /\ lease[r] = authority.gen

\* with_current runs its action only when the non-blocking lock is free.
Guarded(r) == lock = NULL /\ Current(r)

\* A proven Identity; one resumed from the files keeps their expiry date.
Proven(r) == phase[r] \in {"resumed", "authenticated"}

\* None is never a wildcard, except that a first commit captures the current
\* authority.
CommitLeaseRefreshed(r) == Live     \* mutant: a stale lease is renewed
CommitLease(r) == IF lease[r] = NULL THEN Live ELSE lease[r]

NoOptIn == [remember |-> FALSE, persisted |-> FALSE]

Set(f, r, v) == [f EXCEPT ![r] = v]

-----------------------------------------------------------------------------
(* A process starts: load_authorized_state and the constructor.            *)

\* The authority or the store is busy, unreadable or malformed: the runtime
\* starts signed out and leaves every file alone.
OpenUnreadable(r) ==
  /\ pc[r] = "down"
  /\ pc' = Set(pc, r, "idle")
  /\ UNCHANGED <<durable, lock, memory, history>>

\* A tombstone suppresses all files.
OpenRevoked(r) ==
  /\ pc[r] = "down"
  /\ lock = NULL
  /\ authority.revoked
  /\ pc' = Set(pc, r, "idle")
  /\ UNCHANGED <<durable, lock, memory, history>>

\* Both files are read under one generation; one that expired is removed while
\* it is read (storedSnapshot, storedMetadata).  A file of another device or a
\* snapshot without live Cookies (snapshotOk, metadataOk: facts about the
\* contents) is discarded afterwards; a rejected locator takes the snapshot
\* with it, and so does a locator of another account.
OpenAuthorized(r) ==
  /\ pc[r] = "down"
  /\ lock = NULL
  /\ ~authority.revoked
  /\ \E storedSnapshot \in {snapshot, NULL}, storedMetadata \in {metadata, NULL},
        snapshotOk, metadataOk \in BOOLEAN :
       LET dropMetadata == storedMetadata # NULL /\ ~metadataOk
           agrees       == storedMetadata # NULL => storedMetadata.user = storedSnapshot.user
           restored     == /\ storedSnapshot # NULL /\ snapshotOk
                           /\ ~dropMetadata /\ agrees
           dropSnapshot == storedSnapshot # NULL /\ ~restored
           kept         == IF dropMetadata THEN NULL ELSE storedMetadata
           saved        == kept # NULL /\ kept.saved
       IN /\ snapshot' = storedSnapshot
          /\ metadata' = storedMetadata
          /\ lease' = Set(lease, r, authority.gen)
          /\ shell' = Set(shell, r, kept)
          /\ optIn' = Set(optIn, r, [remember |-> saved, persisted |-> saved])
          /\ phase' = Set(phase, r, IF restored THEN "restored" ELSE "anonymous")
          /\ user'  = Set(user, r, IF restored THEN storedSnapshot.user ELSE NULL)
          /\ pc'    = Set(pc, r, CASE dropSnapshot /\ dropMetadata -> "dropBoth"
                                   [] dropSnapshot /\ ~dropMetadata -> "dropSnapshot"
                                   [] ~dropSnapshot /\ dropMetadata -> "dropMetadata"
                                   [] OTHER -> "idle")
  /\ UNCHANGED <<authority, vault, lock, gate, writer, written, attempt, history>>

\* The rejected file is cleared under the lease, best effort.  Another window
\* of the same generation may have written it again in between.  Of two files
\* the one rejected first goes first.
DiscardSnapshot(r) ==
  /\ pc[r] \in {"dropSnapshot", "dropBoth"}
  /\ \/ Guarded(r) /\ snapshot' = NULL
     \/ UNCHANGED snapshot
  /\ pc' = Set(pc, r, IF pc[r] = "dropBoth" THEN "dropMetadata" ELSE "idle")
  /\ UNCHANGED <<authority, metadata, vault, lock, memory, history>>

DiscardMetadata(r) ==
  /\ pc[r] \in {"dropMetadata", "dropBoth"}
  /\ \/ Guarded(r) /\ metadata' = NULL
     \/ UNCHANGED metadata
  /\ pc' = Set(pc, r, IF pc[r] = "dropBoth" THEN "dropSnapshot" ELSE "idle")
  /\ UNCHANGED <<authority, snapshot, vault, lock, memory, history>>

-----------------------------------------------------------------------------
(* An explicit login: begin_explicit_authority_with_opt_in, then the reset *)
(* of the in-memory session and the authentication over the network.       *)

\* The authority is busy or the tombstone cannot be written: only the Cookie
\* writer was stopped.
BeginRefused(r) ==
  /\ pc[r] = "idle"
  /\ writer' = Set(writer, r, NULL)
  /\ UNCHANGED <<durable, lock, pc, lease, phase, user, shell, optIn, gate,
                 written, attempt, history>>

\* Mutant: the tombstone keeps the generation of the previous login.
BeginLoginSameGeneration(r, u, remember) ==
  /\ pc[r] = "idle"
  /\ lock = NULL
  /\ authority' = [authority EXCEPT !.revoked = TRUE]
  /\ lock' = r
  /\ pc' = Set(pc, r, "tombstoned")
  /\ writer' = Set(writer, r, NULL)
  /\ attempt' = Set(attempt, r, [user |-> u, remember |-> remember,
                                 wasRevoked |-> authority.revoked])
  /\ UNCHANGED <<snapshot, metadata, vault, lease, phase, user, shell, optIn,
                 gate, written, history>>

\* The tombstone of a new generation is published first.  An error after the
\* rename (the directory sync) abandons the login with the tombstone in place.
BeginLogin(r, u, remember) ==
  /\ pc[r] = "idle"
  /\ lock = NULL
  /\ authority.gen < MaxGen
  /\ authority' = [gen |-> authority.gen + 1, revoked |-> TRUE]
  /\ writer' = Set(writer, r, NULL)
  /\ owner' = Set(owner, authority.gen + 1, u)
  /\ opted' = Set(opted, authority.gen + 1, remember)
  /\ \/ /\ lock' = r
        /\ pc' = Set(pc, r, "tombstoned")
        /\ attempt' = Set(attempt, r, [user |-> u, remember |-> remember,
                                       wasRevoked |-> authority.revoked])
     \/ UNCHANGED <<lock, pc, attempt>>
  /\ UNCHANGED <<snapshot, metadata, vault, lease, phase, user, shell, optIn,
                 gate, written, signedOut>>

\* Mutant: an account switch keeps the previous locator.
CarriedAcrossAccounts(a) ==
  IF metadata = NULL \/ a.wasRevoked
  THEN NULL
  ELSE [metadata EXCEPT !.saved = @ /\ a.remember]

\* Mutant: opting out leaves the locator as it was.
CarriedWithOptIn(a) ==
  IF metadata = NULL \/ a.wasRevoked \/ metadata.user # a.user THEN NULL ELSE metadata

\* The metadata a login carries over: the same account keeps its locator,
\* without the opt-in when the user opted out.
Carried(a) ==
  IF metadata = NULL \/ a.wasRevoked \/ metadata.user # a.user
  THEN NULL
  ELSE [metadata EXCEPT !.saved = @ /\ a.remember]

CleanForLogin(r) ==
  /\ pc[r] = "tombstoned"
  /\ snapshot' = NULL
  /\ metadata' = Carried(attempt[r])
  /\ pc' = Set(pc, r, "cleaned")
  /\ UNCHANGED <<authority, vault, lock, memory, history>>

\* Mutant: the error path forgets to unlock.
CleanFailedLocked(r) ==
  /\ pc[r] = "tombstoned"
  /\ snapshot' \in {snapshot, NULL}
  /\ pc' = Set(pc, r, "idle")
  /\ attempt' = Set(attempt, r, NULL)
  /\ UNCHANGED <<authority, metadata, vault, lock, lease, phase, user, shell,
                 optIn, gate, writer, written, history>>

\* Mutant: a failed cleanup is only a warning.
CleanFailureIgnored(r) ==
  /\ pc[r] = "tombstoned"
  /\ pc' = Set(pc, r, "cleaned")
  /\ UNCHANGED <<durable, lock, memory, history>>

\* Cleanup failed, before or after the snapshot was removed: the tombstone
\* stays and the caller keeps the lease it had.
CleanFailed(r) ==
  /\ pc[r] = "tombstoned"
  /\ snapshot' \in {snapshot, NULL}
  /\ lock' = NULL
  /\ pc' = Set(pc, r, "idle")
  /\ attempt' = Set(attempt, r, NULL)
  /\ UNCHANGED <<authority, metadata, vault, lease, phase, user, shell, optIn,
                 gate, writer, written, history>>

PublishLogin(r) ==
  /\ pc[r] = "cleaned"
  /\ authority' = [authority EXCEPT !.revoked = FALSE]
  /\ lease' = Set(lease, r, authority.gen)
  /\ lock' = NULL
  /\ pc' = Set(pc, r, "opened")
  /\ UNCHANGED <<snapshot, metadata, vault, phase, user, shell, optIn, gate,
                 writer, written, attempt, history>>

\* Mutant: the login goes on after the failed write.
PublishFailureIgnored(r) ==
  /\ pc[r] = "cleaned"
  /\ authority' \in {authority, [authority EXCEPT !.revoked = FALSE]}
  /\ lock' = NULL
  /\ pc' = Set(pc, r, "opened")
  /\ UNCHANGED <<snapshot, metadata, vault, memory, history>>

\* The second write of the authority fails, before or after its rename.
PublishFailed(r) ==
  /\ pc[r] = "cleaned"
  /\ authority' \in {authority, [authority EXCEPT !.revoked = FALSE]}
  /\ lock' = NULL
  /\ pc' = Set(pc, r, "idle")
  /\ attempt' = Set(attempt, r, NULL)
  /\ UNCHANGED <<snapshot, metadata, vault, lease, phase, user, shell, optIn,
                 gate, writer, written, history>>

\* Opting out removes the account's record under the new lease (a failure is
\* only a warning); then reset_for_login starts from an empty session.
EnterLogin(r) ==
  /\ pc[r] = "opened"
  /\ \/ ~attempt[r].remember /\ Guarded(r) /\ vault' = vault \ {attempt[r].user}
     \/ UNCHANGED vault
  /\ phase' = Set(phase, r, "authenticating")
  /\ user' = Set(user, r, attempt[r].user)
  /\ optIn' = Set(optIn, r, [remember |-> attempt[r].remember, persisted |-> FALSE])
  /\ shell' = Set(shell, r, NULL)
  /\ gate' = Set(gate, r, "open")
  /\ written' = Set(written, r, FALSE)
  /\ attempt' = Set(attempt, r, NULL)
  /\ pc' = Set(pc, r, "idle")
  /\ UNCHANGED <<authority, snapshot, metadata, lock, lease, writer, history>>

-----------------------------------------------------------------------------
(* The outcome of an authentication, explicit or recovered.  It may be     *)
(* delayed by a second factor; the runtime may log in again or log out     *)
(* meanwhile.                                                              *)

\* Identity proved the account.  A credential still to be saved comes first.
Authenticate(r) ==
  /\ pc[r] = "idle"
  /\ phase[r] = "authenticating"
  /\ phase' = Set(phase, r, "authenticated")
  /\ gate' = Set(gate, r, "open")
  /\ pc' = Set(pc, r, IF optIn[r].remember /\ ~optIn[r].persisted
                      THEN "saveCredential" ELSE "persist")
  /\ UNCHANGED <<durable, lock, lease, user, shell, optIn, writer, written,
                 attempt, history>>

\* Transport or bootstrap failure, a captcha or an ambiguous page: nothing is
\* revoked.  A recovery stays used up unless a safe retry was scheduled.
AttemptFails(r) ==
  /\ pc[r] = "idle"
  /\ phase[r] = "authenticating"
  /\ phase' = Set(phase, r, "anonymous")
  /\ gate' \in {gate, Set(gate, r, "open")}
  /\ UNCHANGED <<durable, lock, pc, lease, user, shell, optIn, writer, written,
                 attempt, history>>

\* persist_opt_in_credential: a failed save is only a warning.
SaveCredential(r) ==
  /\ pc[r] = "saveCredential"
  /\ \/ /\ Guarded(r)
        /\ vault' = vault \cup {user[r]}
        /\ optIn' = Set(optIn, r, [remember |-> optIn[r].remember, persisted |-> TRUE])
     \/ UNCHANGED <<vault, optIn>>
  /\ pc' = Set(pc, r, "persist")
  /\ UNCHANGED <<authority, snapshot, metadata, lock, lease, phase, user, shell,
                 gate, writer, written, attempt, history>>

\* The server rejected the credential explicitly (InvalidCredentials): Identity
\* itself, whose attempt was cancelled before, or a service that asked for the
\* password of the login or of the vault again, which ends the Identity session.
Reject(r) ==
  /\ pc[r] = "idle"
  /\ \/ phase[r] = "authenticating" /\ phase' = Set(phase, r, "anonymous")
     \/ /\ phase[r] \in {"restored", "resumed", "authenticated"}
        /\ phase[r] = "authenticated" \/ optIn[r].remember
        /\ phase' = Set(phase, r, "expired")
  /\ optIn' = Set(optIn, r, [remember |-> optIn[r].remember, persisted |-> FALSE])
  /\ writer' = Set(writer, r, NULL)
  /\ gate' = Set(gate, r, "login")
  /\ pc' = Set(pc, r, "rejecting")
  /\ UNCHANGED <<durable, lock, lease, user, shell, written, attempt, history>>

\* An expired Identity keeps its account.
AfterReject(r) ==
  /\ pc' = Set(pc, r, "idle")
  /\ user' = IF phase[r] = "expired" THEN user ELSE Set(user, r, NULL)

HasSavedShell(r) == shell[r] # NULL /\ shell[r].saved /\ shell[r].user = user[r]

\* The saved record goes; the in-memory metadata decides whether the durable
\* locator is revoked too.
ClearRejected(r) ==
  /\ pc[r] = "rejecting"
  /\ \/ /\ Guarded(r)
        /\ vault' = vault \ {user[r]}
        /\ IF HasSavedShell(r)
           THEN pc' = Set(pc, r, "revokeLocator") /\ UNCHANGED user
           ELSE AfterReject(r)
     \/ /\ pc' = Set(pc, r, "rejectRevoke")
        /\ UNCHANGED <<vault, user>>
  /\ UNCHANGED <<authority, snapshot, metadata, lock, lease, phase, shell, optIn,
                 gate, writer, written, attempt, history>>

RevokeLocator(r) ==
  /\ pc[r] = "revokeLocator"
  /\ shell' = Set(shell, r, [user |-> user[r], saved |-> FALSE])
  /\ \/ /\ Guarded(r)
        /\ metadata' = [user |-> user[r], saved |-> FALSE]
        /\ AfterReject(r)
     \/ /\ pc' = Set(pc, r, "rejectRevoke")
        /\ UNCHANGED <<metadata, user>>
  /\ UNCHANGED <<authority, snapshot, vault, lock, lease, phase, optIn, gate,
                 writer, written, attempt, history>>

-----------------------------------------------------------------------------
(* persist_resume_state: after a proof and after every live read.          *)

\* The runtime is not proven under the current authority, or the authority is
\* busy.  Past the first check the Cookie writer has been stopped again.
CommitRefused(r) ==
  /\ pc[r] = "persist"
  /\ pc' = Set(pc, r, "idle")
  /\ writer' \in {writer, Set(writer, r, NULL)}
  /\ UNCHANGED <<durable, lock, lease, phase, user, shell, optIn, gate,
                 written, attempt, history>>

\* An SDK runtime writes one Identity checkpoint per login.
CommitSkipped(r) ==
  /\ pc[r] = "persist"
  /\ SdkRuntime /\ written[r]
  /\ Guarded(r)
  /\ writer' = Set(writer, r, NULL)
  /\ pc' = Set(pc, r, "idle")
  /\ UNCHANGED <<durable, lock, lease, phase, user, shell, optIn, gate,
                 written, attempt, history>>

\* The pair is committed under one lock, the snapshot first.
CommitSnapshot(r) ==
  /\ pc[r] = "persist"
  /\ ~(SdkRuntime /\ written[r])
  /\ Proven(r)
  /\ lock = NULL
  /\ ~authority.revoked
  /\ CommitLease(r) = authority.gen
  /\ lock' = r
  /\ lease' = Set(lease, r, authority.gen)
  /\ snapshot' = [user |-> user[r], gen |-> authority.gen]
  /\ writer' = Set(writer, r, IF SdkRuntime THEN NULL
                              ELSE [user |-> user[r], gen |-> authority.gen])
  /\ pc' = Set(pc, r, "pairing")
  /\ UNCHANGED <<authority, metadata, vault, phase, user, shell, optIn, gate,
                 written, attempt, history>>

CommitMetadata(r) ==
  LET saved == optIn[r].persisted
  IN /\ pc[r] = "pairing"
     /\ metadata' = [user |-> user[r], saved |-> saved]
     /\ shell' = Set(shell, r, [user |-> user[r], saved |-> saved])
     /\ written' = Set(written, r, SdkRuntime)
     /\ lock' = NULL
     /\ pc' = Set(pc, r, "idle")
     /\ UNCHANGED <<authority, snapshot, vault, lease, phase, user, optIn, gate,
                    writer, attempt, history>>

\* The second file failed, before or after its rename: the snapshot is taken
\* back (best effort) and the Cookie writer stopped.
CommitRolledBack(r) ==
  /\ pc[r] = "pairing"
  /\ metadata' \in {metadata, [user |-> user[r], saved |-> optIn[r].persisted]}
  /\ snapshot' \in {snapshot, NULL}
  /\ writer' = Set(writer, r, NULL)
  /\ lock' = NULL
  /\ pc' = Set(pc, r, "idle")
  /\ UNCHANGED <<authority, vault, lease, phase, user, shell, optIn, gate,
                 written, attempt, history>>

\* A business read answered and refreshes the pair.  The authority was checked
\* before the request; only the commit checks it again.
LiveRead(r) ==
  /\ pc[r] = "idle"
  /\ Proven(r)
  /\ pc' = Set(pc, r, "persist")
  /\ UNCHANGED <<durable, lock, memory, history>>

\* Mutant: the writer checks only that some login is live.
CookieResponseUnchecked(r) ==
  /\ pc[r] = "idle"
  /\ writer[r] # NULL
  /\ lock = NULL
  /\ ~authority.revoked
  /\ snapshot' = writer[r]
  /\ UNCHANGED <<authority, metadata, vault, lock, pc, memory, history>>

\* Any response refreshes the snapshot through the writer's captured lease.
CookieResponse(r) ==
  /\ pc[r] = "idle"
  /\ writer[r] # NULL
  /\ lock = NULL
  /\ ~authority.revoked /\ writer[r].gen = authority.gen
  /\ snapshot' = [user |-> writer[r].user, gen |-> authority.gen]
  /\ UNCHANGED <<authority, metadata, vault, lock, pc, memory, history>>

-----------------------------------------------------------------------------
(* Expiry, re-proof with the current Cookies, and one automatic recovery   *)
(* with the saved credential.                                              *)

\* The expiry date of the restored snapshot passes.
Expire(r) ==
  /\ pc[r] = "idle"
  /\ phase[r] = "resumed"
  /\ phase' = Set(phase, r, "expired")
  /\ UNCHANGED <<durable, lock, pc, lease, user, shell, optIn, gate, writer,
                 written, attempt, history>>

\* A login boundary - the portal's or a service's - without a usable saved
\* credential ends the Identity session until an explicit login.
RequireLogin(r) ==
  /\ pc[r] = "idle"
  /\ phase[r] \in {"restored", "resumed", "authenticated", "expired"}
  /\ phase' = Set(phase, r, "expired")
  /\ gate' = Set(gate, r, "login")
  /\ writer' = Set(writer, r, NULL)
  /\ UNCHANGED <<durable, lock, pc, lease, user, shell, optIn, written, attempt,
                 history>>

\* A refresh stops the Cookie writer before it asks the portal.
BeginRefresh(r) ==
  /\ pc[r] = "idle"
  /\ phase[r] = "expired"
  /\ gate[r] # "login"
  /\ writer' = Set(writer, r, NULL)
  /\ UNCHANGED <<durable, lock, pc, lease, phase, user, shell, optIn, gate,
                 written, attempt, history>>

\* The portal proved the account with the Cookies at hand.  The authority was
\* checked before the probe and may have changed while it was on the network.
ProveCookies(r) ==
  /\ pc[r] = "idle"
  /\ gate[r] # "login" /\ writer[r] = NULL
  /\ \/ phase[r] \in {"restored", "expired"} /\ phase' = Set(phase, r, "authenticated")
     \/ phase[r] = "restored" /\ phase' = Set(phase, r, "resumed")
  /\ user[r] # NULL
  /\ gate' = Set(gate, r, "open")
  /\ pc' = Set(pc, r, "persist")
  /\ UNCHANGED <<durable, lock, lease, user, shell, optIn, writer, written,
                 attempt, history>>

\* The account a recovery works for: the Identity snapshot's, else the locator's.
RecoveryAccount(r) ==
  IF phase[r] \in {"restored", "expired"} THEN user[r]
  ELSE IF shell[r] # NULL THEN shell[r].user ELSE NULL

SavedOptInAnyLocator(r, a) ==     \* mutant: any locator of the account will do
  \/ optIn[r].remember /\ user[r] = a
  \/ shell[r] # NULL /\ shell[r].user = a

SavedOptIn(r, a) ==
  \/ optIn[r].remember /\ user[r] = a
  \/ shell[r] # NULL /\ shell[r].user = a /\ shell[r].saved

MayRecover(r) ==
  /\ pc[r] = "idle"
  /\ phase[r] \in {"restored", "expired", "anonymous"}
  /\ gate[r] = "open" /\ writer[r] = NULL
  /\ RecoveryAccount(r) # NULL
  /\ SavedOptIn(r, RecoveryAccount(r))
  /\ Guarded(r)

\* The record is read under the lease; the old snapshot is cleared under it
\* (best effort), and the session restarts with the opt-in it already had.
Recover(r) ==
  /\ MayRecover(r)
  /\ RecoveryAccount(r) \in vault
  /\ snapshot' \in {NULL, snapshot}
  /\ phase' = Set(phase, r, "authenticating")
  /\ user' = Set(user, r, RecoveryAccount(r))
  /\ optIn' = Set(optIn, r, [remember |-> TRUE, persisted |-> TRUE])
  /\ gate' = Set(gate, r, "spent")
  /\ writer' = Set(writer, r, NULL)
  /\ written' = Set(written, r, FALSE)
  /\ UNCHANGED <<authority, metadata, vault, lock, pc, lease, shell, attempt, history>>

\* No record, or one of another device or stage: the resumption at start-up is
\* used up without a request.
RecoverWithoutRecord(r) ==
  /\ MayRecover(r)
  /\ phase[r] # "expired"
  /\ gate' = Set(gate, r, "spent")
  /\ UNCHANGED <<durable, lock, pc, lease, phase, user, shell, optIn, writer,
                 written, attempt, history>>

-----------------------------------------------------------------------------
(* Logout, and revoke_authority.                                           *)

LogoutName(r) ==
  IF user[r] # NULL THEN user[r]
  ELSE IF shell[r] # NULL THEN shell[r].user ELSE NULL

\* The in-memory session ends before any file is touched; the captured lease
\* is kept for the revocation.
Logout(r) ==
  /\ pc[r] = "idle"
  /\ user' = Set(user, r, LogoutName(r))
  /\ phase' = Set(phase, r, "anonymous")
  /\ shell' = Set(shell, r, NULL)
  /\ optIn' = Set(optIn, r, NoOptIn)
  /\ gate' = Set(gate, r, "open")
  /\ writer' = Set(writer, r, NULL)
  /\ written' = Set(written, r, FALSE)
  /\ pc' = Set(pc, r, "revoke")
  /\ UNCHANGED <<durable, lock, lease, attempt, history>>

Revoking == {"revoke", "rejectRevoke"}

\* A runtime without a lease, or with a superseded one, revokes nothing.
Superseded(r) == ~authority.revoked /\ lease[r] # authority.gen

RevokeSuperseded(r) ==
  /\ lock = NULL
  /\ Superseded(r)
  /\ \/ pc[r] = "revoke" /\ pc' = Set(pc, r, "forget") /\ UNCHANGED user
     \/ pc[r] = "rejectRevoke" /\ AfterReject(r)
  /\ UNCHANGED <<durable, lock, lease, phase, shell, optIn, gate, writer,
                 written, attempt, history>>

\* The tombstone comes before any deletion.
RevokeTombstone(r) ==
  /\ pc[r] \in Revoking
  /\ lock = NULL
  /\ ~Superseded(r)
  /\ authority.gen < MaxGen
  /\ authority' = [gen |-> authority.gen + 1, revoked |-> TRUE]
  /\ lock' = r
  /\ pc' = Set(pc, r, IF pc[r] = "revoke" THEN "sweep" ELSE "rejectSweep")
  /\ UNCHANGED <<snapshot, metadata, vault, memory, history>>

\* Mutant: the error of the revocation is lost.
RevokeFailureSwallowed(r) ==
  /\ pc[r] = "revoke"
  /\ pc' = Set(pc, r, "forget")
  /\ UNCHANGED <<durable, lock, memory, history>>

\* Mutant: a busy authority is waited for.
RevokeFailedWaits(r) ==
  /\ pc[r] = "revoke"
  /\ lock = NULL
  /\ pc' = Set(pc, r, "forgetAfterFailure")
  /\ UNCHANGED <<durable, lock, memory, history>>

\* Busy authority, or a write error before or after the rename.
RevokeFailed(r) ==
  /\ \/ UNCHANGED authority
     \/ /\ lock = NULL
        /\ ~Superseded(r)
        /\ authority.gen < MaxGen
        /\ authority' = [gen |-> authority.gen + 1, revoked |-> TRUE]
  /\ \/ pc[r] = "revoke" /\ pc' = Set(pc, r, "forgetAfterFailure") /\ UNCHANGED user
     \/ pc[r] = "rejectRevoke" /\ AfterReject(r)
  /\ UNCHANGED <<snapshot, metadata, vault, lock, lease, phase, shell, optIn,
                 gate, writer, written, attempt, history>>

\* The vault next to the session files: the SDK keeps its records elsewhere.
SweepVault(r) ==
  IF SdkRuntime \/ pc[r] = "rejectSweep" THEN vault ELSE vault \ {user[r]}

Sweep(r) ==
  /\ pc[r] \in {"sweep", "rejectSweep"}
  /\ vault' = SweepVault(r)
  /\ snapshot' = NULL
  /\ metadata' = NULL
  /\ lock' = NULL
  /\ \/ pc[r] = "sweep" /\ pc' = Set(pc, r, "forget") /\ UNCHANGED user
     \/ pc[r] = "rejectSweep" /\ AfterReject(r)
  /\ UNCHANGED <<authority, lease, phase, shell, optIn, gate, writer, written,
                 attempt, history>>

\* One of the deletions failed; the metadata goes only after the snapshot.
SweepFailed(r) ==
  /\ pc[r] \in {"sweep", "rejectSweep"}
  /\ vault' \in {vault, SweepVault(r)}
  /\ \/ UNCHANGED <<snapshot, metadata>>
     \/ snapshot' = NULL /\ metadata' \in {metadata, NULL}
  /\ lock' = NULL
  /\ \/ pc[r] = "sweep" /\ pc' = Set(pc, r, "forgetAfterFailure") /\ UNCHANGED user
     \/ pc[r] = "rejectSweep" /\ AfterReject(r)
  /\ UNCHANGED <<authority, lease, phase, shell, optIn, gate, writer, written,
                 attempt, history>>

\* The configured vault is cleared outside the authority, whatever the lease;
\* then the lease is dropped.
ForgetCredential(r) ==
  /\ pc[r] \in {"forget", "forgetAfterFailure"}
  /\ \/ /\ vault' = vault \ {user[r]}
        /\ signedOut' = IF pc[r] = "forget" /\ lease[r] # NULL
                        THEN signedOut \cup {lease[r]} ELSE signedOut
     \/ UNCHANGED <<vault, signedOut>>
  /\ lease' = Set(lease, r, NULL)
  /\ user' = Set(user, r, NULL)
  /\ pc' = Set(pc, r, "idle")
  /\ UNCHANGED <<authority, snapshot, metadata, lock, phase, shell, optIn, gate,
                 writer, written, attempt, owner, opted>>

\* The process ends anywhere; the operating system releases its lock.
Crash(r) ==
  /\ pc[r] # "down"
  /\ pc' = Set(pc, r, "down")
  /\ lock' = IF lock = r THEN NULL ELSE lock
  /\ lease' = Set(lease, r, NULL)
  /\ phase' = Set(phase, r, "anonymous")
  /\ user' = Set(user, r, NULL)
  /\ shell' = Set(shell, r, NULL)
  /\ optIn' = Set(optIn, r, NoOptIn)
  /\ gate' = Set(gate, r, "open")
  /\ writer' = Set(writer, r, NULL)
  /\ written' = Set(written, r, FALSE)
  /\ attempt' = Set(attempt, r, NULL)
  /\ UNCHANGED <<durable, history>>

-----------------------------------------------------------------------------
\* A fresh root, or one an older version left without an authority file.
Init ==
  /\ authority = [gen |-> Legacy, revoked |-> FALSE]
  /\ lock = NULL
  /\ opted = [g \in Gens |-> TRUE]
  /\ signedOut = {}
  /\ \E u \in Users :
       /\ owner = [g \in Gens |-> u]
       /\ \/ snapshot = NULL /\ metadata = NULL /\ vault = {}
          \/ /\ snapshot = [user |-> u, gen |-> Legacy]
             /\ metadata \in [user : {u}, saved : BOOLEAN]
             /\ vault = IF metadata.saved THEN {u} ELSE {}
  /\ pc = [r \in Runtimes |-> "down"]
  /\ lease = [r \in Runtimes |-> NULL]
  /\ phase = [r \in Runtimes |-> "anonymous"]
  /\ user = [r \in Runtimes |-> NULL]
  /\ shell = [r \in Runtimes |-> NULL]
  /\ optIn = [r \in Runtimes |-> NoOptIn]
  /\ gate = [r \in Runtimes |-> "open"]
  /\ writer = [r \in Runtimes |-> NULL]
  /\ written = [r \in Runtimes |-> FALSE]
  /\ attempt = [r \in Runtimes |-> NULL]

Open(r)    == OpenUnreadable(r) \/ OpenRevoked(r) \/ OpenAuthorized(r)
Discard(r) == DiscardSnapshot(r) \/ DiscardMetadata(r)
Login(r) ==
  \/ BeginRefused(r)
  \/ \E u \in Users, remember \in BOOLEAN : BeginLogin(r, u, remember)
  \/ CleanForLogin(r) \/ CleanFailed(r)
  \/ PublishLogin(r) \/ PublishFailed(r)
  \/ EnterLogin(r)
Outcome(r) ==
  \/ Authenticate(r) \/ AttemptFails(r) \/ SaveCredential(r)
  \/ Reject(r) \/ ClearRejected(r) \/ RevokeLocator(r)
Persist(r) ==
  \/ CommitRefused(r) \/ CommitSkipped(r) \/ CommitSnapshot(r)
  \/ CommitMetadata(r) \/ CommitRolledBack(r)
  \/ LiveRead(r) \/ CookieResponse(r)
Renew(r) ==
  \/ Expire(r) \/ RequireLogin(r) \/ BeginRefresh(r) \/ ProveCookies(r)
  \/ Recover(r) \/ RecoverWithoutRecord(r)
End(r) ==
  \/ Logout(r) \/ RevokeSuperseded(r) \/ RevokeTombstone(r) \/ RevokeFailed(r)
  \/ Sweep(r) \/ SweepFailed(r) \/ ForgetCredential(r)

Next ==
  \E r \in Runtimes :
    \/ Open(r) \/ Discard(r) \/ Login(r) \/ Outcome(r) \/ Persist(r) \/ Renew(r)
    \/ End(r) \/ Crash(r)

Spec == Init /\ [][Next]_vars

\* A step of a section under the lock, or of a logout.  These are straight
\* code without a network wait, so they run on unless the process ends.
\* Whether a call is made at all, or goes on elsewhere, is not promised.
Work(r) ==
  /\ pc[r] \in Locked \cup {"revoke", "forget", "forgetAfterFailure"}
  /\ \/ CleanForLogin(r) \/ CleanFailed(r) \/ PublishLogin(r) \/ PublishFailed(r)
     \/ CommitMetadata(r) \/ CommitRolledBack(r)
     \/ End(r)

FairSpec == Spec /\ \A r \in Runtimes : WF_vars(Work(r))

-----------------------------------------------------------------------------
(* Properties.                                                             *)

\* Values of the variables: files, memory of each runtime and history.
TypeOK ==
  /\ authority \in [gen : Gens, revoked : BOOLEAN]
  /\ lock \in Runtimes \cup {NULL}
  /\ snapshot \in Snapshots \cup {NULL}
  /\ metadata \in Locators \cup {NULL}
  /\ vault \subseteq Users
  /\ pc \in [Runtimes -> Locked \cup Unlocked]
  /\ lease \in [Runtimes -> Gens \cup {NULL}]
  /\ phase \in [Runtimes -> Phases]
  /\ user \in [Runtimes -> Users \cup {NULL}]
  /\ shell \in [Runtimes -> Locators \cup {NULL}]
  /\ optIn \in [Runtimes -> OptIns]
  /\ gate \in [Runtimes -> Gates]
  /\ writer \in [Runtimes -> Snapshots \cup {NULL}]
  /\ written \in [Runtimes -> BOOLEAN]
  /\ attempt \in [Runtimes -> Attempts \cup {NULL}]
  /\ owner \in [Gens -> Users]
  /\ opted \in [Gens -> BOOLEAN]
  /\ signedOut \in SUBSET Gens

\* "Failed cleanup cannot accidentally make old files current under the new
\* generation": whatever crashed or failed, a snapshot that a restart would
\* read was written under the generation that is live now.
SnapshotOfLiveGeneration ==
  Live # NULL /\ snapshot # NULL => snapshot.gen = Live

\* "An account switch must not restore the previous account's locator": the
\* files a restart would read belong to the account the live generation was
\* opened for.
FilesOfLiveAccount ==
  Live # NULL =>
    /\ snapshot # NULL => snapshot.user = owner[Live]
    /\ metadata # NULL => metadata.user = owner[Live]

\* A runtime that restores, recovers or proves an account does so under a
\* lease opened for that account, whatever other windows did meanwhile.
LeaseBindsAccount ==
  \A r \in Runtimes :
    pc[r] # "opened" /\ phase[r] \in {"restored", "authenticating", "resumed", "authenticated"} =>
      lease[r] # NULL /\ user[r] = owner[lease[r]]

\* Opting out at an explicit login holds for the whole generation: neither
\* carried-over metadata nor a later commit of any window re-enables automatic
\* recovery.
OptOutHolds ==
  Live # NULL /\ ~opted[Live] /\ metadata # NULL => ~metadata.saved

\* A logout that reports no error is final: its generation never authorises
\* again, so no restart restores it.
CleanLogoutIsFinal == Live \notin signedOut

\* "A captured lease may be checked, never refreshed ... only a new explicit
\* login creates a new generation": a runtime whose lease is stale becomes
\* current only by publishing a login of its own.
LeaseNeverRefreshed ==
  [][\A r \in Runtimes :
       lease[r] # NULL /\ lease[r] # Live /\ Live' # NULL /\ lease'[r] = Live' =>
         pc[r] = "cleaned" /\ Live = NULL]_vars

\* An automatic recovery (authentication without an explicit login) only starts
\* under a generation whose user opted in, even when removing the record of a
\* user who opted out had failed.  It speaks of the moment the record's locator
\* is read: Recover takes the locked sections after it together with it.
RecoveryNeedsOptIn ==
  [][\A r \in Runtimes :
       pc[r] = "idle" /\ phase[r] # "authenticating" /\ phase'[r] = "authenticating" =>
         Live # NULL /\ opted[Live]]_vars

\* SessionAuthority implements the abstract revocation specification.
Authority == INSTANCE Revocation WITH
  issued <- authority.gen, live <- Live, held <- lease
ImplementsRevocation == Authority!Spec

\* "Do not freeze the UI indefinitely": whoever locks the authority releases
\* it, and a logout comes to its end, lease dropped, whatever the other windows
\* do with the lock meanwhile.
LockReleased == lock # NULL ~> lock = NULL
LogoutEnds   == \A r \in Runtimes : pc[r] = "revoke" ~> lease[r] = NULL

\* What two comments of the code promise and the code does not keep.

\* session_authority.rs: "A stale runtime must not delete the newer account's
\* files."  The record of the account that is signed in now is removed only by
\* a runtime of the same login.
NewerCredentialKept ==
  [][\A r \in Runtimes :
       Live # NULL /\ owner[Live] \in vault \ vault' /\ pc'[r] # pc[r] =>
         lease[r] = Live]_vars

\* logout: "The current runtime has already logged out. The durable tombstone
\* suppresses surviving files."  When a logout has dropped its lease, the
\* generation it held is no longer live.
LogoutSuppressesFiles ==
  [][\A r \in Runtimes :
       pc[r] \in {"forget", "forgetAfterFailure"} /\ pc'[r] = "idle" /\ lease[r] # NULL =>
         lease[r] # Live']_vars

=============================================================================
