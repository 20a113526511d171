# TLA+ specifications of TsinghuaKit

TsinghuaKit is a Rust engine (with a Flutter front end) that signs a user in to
the campus identity service, keeps that session across restarts, and reads and
writes data of the campus services on the user's behalf. This directory holds
TLA+ specifications of the parts of the engine whose correctness depends on the
order of steps: who may use the files of a session, how requests are paced,
which session a one-time ticket belongs to, what becomes of a second-factor
challenge, when an expired session may be recovered without the user, and how
network profiles are stored and used on the campus portal. TLC checks them on
small instances and TLAPS proves their safety properties for every value of the
constants.

All paths below are relative to `src/rust/crates/tsinghua-kit-engine/src/`.

    tlc -workers 2 -config SessionAuthoritySdk.cfg MCSessionAuthority.tla
    tlapm SessionAuthority_proofs.tla

`PROJECT.json` lists the components, the runs, the lines each definition
models, one mutant per property, the findings, the hazards and the theorems.

## 1. The system

The engine is a library of `async` operations on a `CampusRuntime`. A runtime
serves one call at a time (`&mut self`), so the concurrency is elsewhere:

- several windows or processes have a runtime each over one *session root*
  directory, and meet only in its files and in an advisory file lock;
- within a process, clones of the transport, its Cookie store, its request gate
  and of bound tickets are shared with tasks of other runtimes;
- every call is a future that its caller may drop at any `await`;
- the servers answer late, reject, ask for a delay, or do not answer at all.

| component | state | operations | meets others through |
|---|---|---|---|
| session authority (`session_authority.rs`) | authority file (generation, tombstone), lock file | `begin`, `begin_explicit_login`, `revoke`, `with_current`, `check_current` | files of the session root |
| session persistence (`session_persistence.rs`) | Cookie snapshot, account metadata ("locator"), atomically replaced | load, save, remove, `persist_account_pair` | runs inside the authority's locked sections |
| credential vault (`credential_store.rs`) | encrypted record per account | save, load, clear, status | login, recovery, rejection, logout |
| campus runtime (`api/runtime.rs`, `runtime_lifecycle.rs`) | lease, account shell, opt-in, coordinator, recovery marks, pending second factor | login, send and complete second factor, restore, recover, logout, some 200 reads | everything below |
| recovery lifecycle (`runtime_reference_recovery.rs`, `runtime_lifecycle.rs`, the refresh chains of `api/runtime.rs`) | gate, result, deadline and waiting mark per service, login deadline and one-shot marks, portal proof, nesting depth | refresh, resume, probe, schedule, pause, reset | runtime, replay fence of the transport |
| request gate (`request_gate.rs`) | fair semaphore of 4, dispatch deadline | `acquire`, `acquire_exclusive`, `observe_response` | every transport of the process |
| transport (`transport.rs`) | Cookie store, snapshot writer, replay fence | `execute_once`, `reset`, `persist_snapshot` | gate, authority |
| service sessions (`session.rs`) | one state machine per service, bound tickets with a one-time claim | begin, require second factor, succeed, cancel, expire, logout, claim | identity session, service adapters |
| identity session (`identity_session.rs`, `identity_client.rs`, `webvpn_identity.rs`) | pending challenge, trusted-device options | establish, send code, complete, restore challenge | session machine, runtime |
| network profiles (`network_profile_store.rs`, `network.rs`) | profile file with a generation, lock, memory, prepared values | open, save, update, delete, prepare | files of one directory, portal |
| SelfService / USEREG (`self_service.rs`, `usereg*.rs`) | pending captcha, device list generation, references | login, list, disconnect | client facade |
| TUNet (`tunet*.rs`) | challenge, connection target | challenge, login, status, disconnect | profiles, client facade |
| one-shot writes (`*_write.rs`) | none | plan a request, classify its answer | transport |
| JSON cache (`cache.rs`) | files, one file lock per path | read, write, remove | reads |

The service read adapters (`learn_*`, `registrar_*`, `library_*`, ...) parse
pages and JSON one request at a time; the Flutter bridge, the Dart library and
the `tsinghua-kit` crate forward calls; `cargokit` and the platform projects are
build tooling. None of them has an order of steps of its own to get wrong.

### What is hard

The authority's sections write up to four files and can fail or crash after any
of them; the lease of one window goes stale while another logs in or out; a
response that arrives late still tries to save Cookies; an opt-in remembered by
one window is withdrawn in another. The gate must neither lose a permit on any
error or drop nor let an authentication request overlap another or leave before
a delay just asked for. A ticket's clones race with the machine that ends its
session. A one-time verification code must not be sent again when nobody knows
whether it arrived. A chain of refreshes may stop at any of its requests with
part of them consumed, and elapsed time decides later what may be repeated. A
profile file may be in place although its commit was refused. `PROJECT.json` lists each of these as a hazard with its line.

### What makes each component correct

- *Authority, files, vault, runtime*: a restart reads only files of the live
  generation and of its account; a stale window changes nothing of a newer one;
  a clean logout is final; the user's refusal to be remembered is never undone;
  the lock is always released and a logout always ends.
- *Gate*: permits are conserved, exclusive requests are alone and respect every
  delay, the queue is served.
- *Service session*: a ticket is claimed once, during its own session, and never
  by another service.
- *Identity session*: no verification is repeated unless it was explicitly
  rejected; at most one challenge is open and it belongs to the current login; a
  device is registered at most once and by consent.
- *Recovery*: elapsed time repeats nothing that may have consumed something; a
  service is not handed off in a loop; a required login is terminal; a pending
  challenge is neither dropped nor talked over; a scheduled probe does run.
- *Profiles*: memory never runs ahead of the file; what was deleted stays deleted;
  a prepared value stands for the profile the user saw; a password stays with the
  account it was given for.
- *TUNet*: only the last login that was proven is disconnected, once.

## 2. The models

### 2.1 `SessionAuthority` — who may use the files

`SessionAuthority.tla` models `session_authority.rs`, `session_persistence.rs`
and the parts of `api/runtime.rs`, `transport.rs`, `credential_store.rs` and
`client.rs` that use them, for any set of runtimes over one session root.

| variable | in the code |
|---|---|
| `authority` | the authority file: generation and `revoked`; generation 0 is `legacy-v1`, no file yet. Generations are random strings; here they are numbered in the order they are written, which keeps "is it the same" and bounds them |
| `lock` | the advisory lock, `try_lock` only: a caller that finds it held fails |
| `snapshot`, `metadata` | the two files; `gen` of the snapshot is an annotation that no guard reads |
| `vault` | accounts with a credential record |
| `lease`, `phase`, `user`, `shell`, `optIn`, `gate` | `recovery_lease`, the Identity state, the account, `resume_account_metadata`, `remember_credentials`/`credentials_persisted`, the one-shot recovery mark |
| `writer`, `written` | the transport's snapshot writer, `identity_snapshot_written` |
| `attempt`, `pc` | the call in progress and where it is |
| `owner`, `opted`, `signedOut` | history |

A call is split wherever another process can get in or the process can die
between two durable effects. An explicit login is `BeginLogin` (lock, tombstone),
`CleanForLogin` and `PublishLogin` with their failures, `EnterLogin` (the reset),
the outcome of the network exchange (any answer), `SaveCredential` and the
account pair. The constructor is
`OpenUnreadable`, `OpenRevoked`, `OpenAuthorized` and the discards that follow
outside the first lock. A logout is the revocation under the lock (or its
failure), then the credential record outside it. `Crash` may happen at any step
and releases the lock, as the operating system does.

`SdkRuntime` selects one of the two ways a runtime is set up. The SDK
(`client.rs`) keeps credentials in a root of their own and saves one snapshot per
login; the application's runtime keeps both in one root and saves the Cookie
snapshot after every response that changed it.

`Revocation.tla` is what the authority promises without files and locks: at most
one generation is live, a retired one never comes back, and a stale lease is
never refreshed. `SessionAuthority` implements it under
`issued <- authority.gen`, `live <- Live`, `held <- lease`, where a file that is
written and the lease that is handed out are one step and everything else
stutters.

Contents of Cookies, encryption, file formats and the migration of legacy files
are data: whether a file is usable on this device is a free choice at the point
where the code looks.

### 2.2 `RequestGate` — pacing

`RequestGate.tla` models `request_gate.rs` and `execute_once` of `transport.rs`
for any set of callers. A caller queues for the fair semaphore (one permit, or
all of them for an authentication or consuming request), sleeps while the
deadline has not passed, passes, is sent, and is answered or fails; the answer
extends the deadline before the permit is released; it may be dropped at each
`await`. Time is relative and a clock `Tick` counts it down; a caller past its
wake-up time may be polled as late as the executor likes. `tokio`'s semaphore is
FIFO, so the queue is a sequence. The timing counters are left out.

### 2.3 `ServiceSession` — tickets and sessions

`ServiceSession.tla` models the machine of one service in `session.rs`, with all
of its transitions, and the tickets bound for any service with their clones.
The machine is used through `&mut`, so a transition is one step; clones live on
other threads and touch only the shared atomic flag, which is why every
interleaving is one of single steps. The registry and the coordinator only route
to independent machines. Deadlines are an `Expire` that may come at any time,
which includes every time the clock could make it come.

### 2.4 `SecondFactor` — interactive sign-in

`SecondFactor.tla` models what interrupts a login or the use of a service: the
primary challenge, which is a state of the Identity machine, and a service's
challenge, which the runtime keeps beside it (`service_second_factor`). It covers
`identity_session.rs` (`establish...`, `complete_second_factor`,
`complete_service_second_factor...`, `save_trusted_device`) and the code of
`api/runtime.rs` that decides which of them may run.

| variable | in the code |
|---|---|
| `identity`, `primary` | state of the Identity machine and its challenge |
| `service` | `service_second_factor` |
| `proof` | what `service_session_is_proven` looks at: `restored_session` and the deadline a snapshot brought along |
| `leaseCurrent` | the lease check of `service_session_is_proven` and `check_recovery_authority` |
| `call` | the call in progress: its step, and its local variables that survive an `await`; `resume` is the rest of a `resume_restored_session` whose portal asked for a password and a second factor |
| `password`, `recoveryPending`, `loginRequired`, `locator` | `primary_password`, `recovery_only_pending_second_factor`, `recovery.login_required`, `resume_account_metadata` |
| `trusted` | `trust_device_requested` of the runtime, `pending_trusted_device` and `trusted_device_attempt` of the orchestrator, which no reset reaches |
| `login`, `byRecovery`, `shown`, `spent`, `registered` | history |

A runtime serves one call at a time, so one `call` is enough; it is cut at its
awaits, and at each of them it may be dropped (`Drop`), another window may
supersede the lease (`Supersede`) and the deadline of a resumed session may pass
(`FallDue`). Answers are free choices. A verification is `VerifyPrimary` or
`VerifyService` (the challenge is taken, the code is posted), then
`CodeRejected`, or `CodeAccepted`, perhaps `RegistrationAnswered`, and
`RedirectProves`; any other outcome is `VerificationFails`. What follows in the
same call without a step of its own (opening the target service, also when an
explicit login finishes) is a new call of the model.

The module composes with `SessionAuthority` by abstraction: the lease, the
locator and the saved credential are there; here they are the Booleans the
guards read, which may change whenever they could there. When and how often
recovery is tried is not decided here: `RecoverLogin` may come whenever its
guards (`MayRecover`) let it. That this agrees with `RecoveryLifecycle`, where the
schedule is modelled, is what `SignIn` is for (2.6).

### 2.5 `RecoveryLifecycle` — recovery without the user

`RecoveryLifecycle.tla` models one runtime over its services: Identity, and any of
INFO, the library (behind INFO), Learn and Registrar (behind Learn). It covers
`runtime_lifecycle.rs`, `runtime_reference_recovery.rs`, the replay fence of
`transport.rs`, and in `api/runtime.rs` the refresh of a service after an expiry
(academic and not), the refresh of Identity by its Cookies or the saved
credential, the resume of a restored session, the shared portal bootstrap, manual
establishment, explicit login, logout and both ways to complete a second factor.

| variable | in the code |
|---|---|
| `identity` | the Identity snapshot, `restored_session`, `recovery.login_required` |
| `proven` | targets whose machine is authenticated and whose adapter is there |
| `challenge` | `service_second_factor` |
| `gate` | `automatic_refresh_attempted`, `automatic_refresh_results`, `failure_kinds`, `retry_at` of a service |
| `awaiting` | `recovery.awaiting_business` |
| `resume` | `resume_retry_at`, `resume_attempt`, `credential_recovery_attempted`, `private_credential_attempted` |
| `portal` | `portal_bootstrapped`, `portal_password_required`, `portal_failure`, `current_recovery_portal_proof`, `service_refresh_depth` |
| `pc`, `direct`, `root` | the frames of the running call and their local variables |
| `clean` | frames whose `ReplayFence` would still permit a retry |
| `saved` | the opt-in to a saved credential |
| `history` | what the last attempt of a service may have consumed, services handed off with no read since, a login posted with unknown outcome (`posted`: and whether a retry was scheduled before it) |

A call is a stack of frames; each is cut at its awaits (`Awaits`), where `Drop`
takes the whole stack and time may pass. An error is the `?` of the code: it ends
every frame in one step, each recording its result on the way out (`Unwound`,
`Recorded`). A deadline is `none`, `ahead` or `due`; only `TimeStep` moves it, so
lengths of time play no part. Results of requests are free choices among what the
code tells apart: answered, unanswered before or after something may have been
consumed, refused, a login page, a challenge. A portal that asks for a second
factor (`PortalPauses`) may have wanted a password first; only then the resume goes
on to a login with the saved one. The campus card has the shape of
INFO without a portal and is left out.

### 2.6 `SignIn` — what the two must agree on

`SecondFactor` knows every step of an interactive sign-in and little of recovery,
`RecoveryLifecycle` the reverse, and both change the same Identity session and the
same pending challenge. `SignIn.tla` is the contract they share: the state of
Identity, whether it is live, whether a login of the user is required, the portal's
challenge (`raised` by the work in progress, `waiting` once the user may see it) and
whether work is in progress that the user entered no code for (`engine`). That work
may prove Identity by its Cookies (`CookieProof`), require a login, raise a challenge
or begin a login (`Recovers`); it never answers a challenge, drops one that is
waiting, or logs in beside another login or after one is required. The user's calls
(`Restart`, `Answer`, `AnswerPortal`) come only between two works.

Both modules implement it (`ImplementsSignIn` in each, by `INSTANCE SignIn WITH`
a refinement mapping). `SignIn` is an abstract specification and has no run or
theorem of its own.

### 2.7 `NetworkProfiles` — a profile file and its memory

`NetworkProfiles.tla` models `network_profile_store.rs` and the operations of
`NetworkProfilesClient` (`client.rs`), for any number of clients of one directory
or of memory only. A commit is `Commit` (the new set is computed and its
generation checked), `WriteFails` or `Rename`, `PermitFails` or `Finish`; a client
may end between any two of them (`Close`), and a power failure (`PowerFailure`)
ends all and may undo renames whose directory was not synced (`kept`).

| variable | in the code |
|---|---|
| `phase`, `persistent` | what a client does, and its storage policy; an open persistent client holds `profiles.lock` for its life |
| `store`, `proposed` | `NetworkProfileStore` in memory, and what a running commit writes |
| `file`, `kept` | `profiles-v2.json`, and what a power failure may leave of it |
| `prepared` | a `PreparedNetworkInput` an application keeps |
| `issued`, `reported`, `gone` | identifiers issued (random in the code, never issued twice), the last result, acknowledged deletions |

Left out, and why: a legacy, corrupt, linked or badly permitted file makes `open`
fail without any state; temporary files of interrupted commits have fresh names
and are never read; the Windows branch of `atomic_write` (a backup beside the
file) does not type-check as written — it returns an `io::Error` where an `Error`
is due (`network_profile_store.rs:394`) — so only the other branch is modelled.
The result of `directory.sync_all()` is ignored by the code, so an acknowledged
delete can be undone by a power failure; `PowerFailure` takes such profiles out of
`gone`, and the promise of `DeletedStaysDeleted` is about everything else. That nothing
else takes a profile out of `gone` is proved (`OnlyPowerFailuresUndoDeletions`).

### 2.8 `PortalConnection` — the campus portal

`PortalConnection.tla` extends `NetworkProfiles` with the portal operations of
`NetworkClient` (`client.rs`), `login_tunet`, `load_tunet_status` and
`disconnect_tunet` (`api/runtime.rs`) and the request sequences of
`tunet_client.rs`. `target` is `tunet_connection_target`, `request` the request a
client waits for, `address` the machine's IPv4 address, `posted` a history of the
last login a client posted. A request may be dropped or fail at each await
(`RequestEnds`), and the address changes at any time. The digests of the SRun
protocol, the parsing of answers and the polling of the status (which may end
either way) are left out.

## 3. The runs

| run | constants | properties | what it shows |
|---|---|---|---|
| `sdk` | 2 runtimes, 2 users, 1 further generation, SDK | `IInv`, `LeaseBindsAccount`, `FilesOfLiveAccount`, `OptOutHolds`; `RecoveryNeedsOptIn` | the inductive invariant of the proofs; a runtime works only for the account of its lease, and a restart reads only that account's files; opting out is kept and stops automatic recovery |
| `generations` | 2 runtimes, 1 user, 2 further generations, application runtime | `SnapshotOfLiveGeneration`, `CleanLogoutIsFinal`; `LeaseNeverRefreshed`, `ImplementsRevocation` | a restart reads no snapshot of an earlier generation although every response may write one; a clean logout is final, leases stay stale, the files implement `Revocation` |
| `authority_fair` | 2 runtimes, 1 user, 1 further generation, fair | `LockReleased`, `LogoutEnds` | no step keeps the lock; no logout hangs |
| `gate` | 4 callers, 2 permits, gap 1, delays to 2, fair | `PermitsAccounted`, `DelayKept`; `ExclusiveAfterDelay`, `QueueServed`, `ExclusiveSent` | permits are conserved, exclusive requests are alone and in time, no queued caller starves |
| `tickets` | 3 tickets, 2 services, 2 users | `ClaimedOnce`, `CredentialsBound`; `ClaimWithinSession` | one claim per ticket, within its session, for its service; a session that is authenticated names its user |
| `factor` | 3 logins, 2 challenges per login | `NoBlindReplay`, `CodesForThisLogin`, `OneInteraction`, `RegisteredOnce`, `ContinuesItsLogin`; `NoRecoveryOverInteraction`, `ImplementsSignIn` | a challenge is answered once, under its own login's Cookies and alone; devices are registered once, by this login's consent; a challenge is never discarded by a recovery, but for the one its own resume raised; the sign-in keeps the contract |
| `recovery` | INFO and library, nesting to 1 | `IInv`, `OneAttempt`, `NoBlindRetry`, `LoginIsTerminal`, `NoDispatchOverChallenge`; `ChallengeKept`, `ImplementsSignIn` | the inductive invariant of the proofs; nothing that may have been consumed is repeated by time, a required login ends everything, a pending challenge is left alone; the recovery keeps the contract |
| `recovery_academic` | Learn and Registrar, nesting to 1, fair | `NoHandoffLoop`; `ScheduledProbeRuns` | a handed-off service that expires before a read is not handed off again; a scheduled login probe runs |
| `portal` | 2 clients, 1 profile, 2 accounts, 2 addresses, revisions and generations to 2 | `MemoryBehindFile`, `DeletedStaysDeleted`, `PreparedBinds`, `PasswordsToTheirAccount`; `LogoutOfLastLogin` | file, memory and prepared values agree through failures, crashes and power failures (which may undo a deletion, section 2.7); passwords and disconnects go where they belong |
| `stale_logout`, `failed_logout`, `time_replays` | one property each | the three findings | see section 5 |

A property that another one of the same run implies is proved but not run by itself:
the type invariants and `ProofInsideChain` under `IInv`, and `ExclusiveAlone` under
`PermitsAccounted`. The types of `RequestGate`, `ServiceSession`, `SecondFactor` and
`PortalConnection`, the order and progress of the gate's queue and the extents of the
findings (section 5) are theorems only.

Each property has a mutant in the module next to the definition it replaces: the
code with a plausible bug, under which TLC finds the property violated.

**Bounds.** Two runtimes are enough for every race the code can have over the
files, because a section under the lock excludes all others and outside it a
runtime is disturbed only through the files: what a third one did could have
been done by the second. Two users distinguish "the account" from "another".
`MaxGen` counts the generations written after the one a run starts from; one
login writes one generation (tombstone and publication share it) and one logout
one, so 2 allow a login after a logout and a third party's stale lease, while the
two-account run uses 1 to stay small. Two accounts under the application runtime are left to the
theorems. A login or logout that would pass the bound
is not taken (`authority.gen < MaxGen` is in the guards, and only there). Four
callers over two permits have queued callers of both kinds behind a full gate,
and are the smallest instance in which an exclusive request competes with two
reads and another exclusive one; a delay of 2 can be asked for while one of 1
runs. Three tickets allow the machine's, one it replaced and one of another
service. Three logins are what leftovers need: one that leaves something behind,
one that meets it, and a recovery; two challenges per login are the primary one
and a service's, or a service's and another one's. The bounds are in the guards
of `EnterLogin` and `Discovered` only.

The recovery instances take the two shapes of chain the code has: INFO and the
library share the portal's proof with their parent, Learn and Registrar hand off
to a server that may ask for a challenge. Both have the full depth of a chain (a child, its
parent, Identity, the login). `MaxDepth` bounds only the nesting that dropped
futures leave behind (a guard of `EnterRefresh`): one is enough to make a later
chain miss that it is the root. Two clients of one directory are a holder of its
lock and one that waits for it; one profile is enough because no property relates
two profiles and a commit replaces the whole set; revisions to 2 have a value
prepared before and after an update, and a store at generation 2 meets the limit.
The scopes of the run are two accounts with the portal method; that a change of
the method alone also drops the password is covered by the proof, where scopes are
any set. The theorems of section 4 have none of these bounds.

**Fairness.** `SessionAuthority!FairSpec` has weak fairness of the steps a
runtime takes under the lock and inside a logout: straight-line code without an
await, whose file operations return. Nobody has to start a call, a server does not have to answer,
and crashes are not fair (nor excluded). `RequestGate!FairSpec` has weak fairness
of the clock and of what each caller does next: the executor polls a caller that
can go on, and a request ends because the transport has a timeout
(`transport.rs:526`). Servers may ask for a delay for ever and callers may drop
any request. `RecoveryLifecycle!FairSpec` has weak fairness of the steps of the
running call (requests end or time out and frames return), and strong fairness of
the login deadline and of the application asking again in the foreground, which
is what the retry delay it is shown is for; nothing makes a server answer well,
and users and drops are not fair. `queued ~> sent` for a plain read is *not* claimed: the deadline is
re-checked after every sleep and another caller may always be first.

Deadlock is checked in every run: nothing in the modelled parts may stop, since a
caller can always start again (in `factor`, after the last login the bound allows,
by logging out; in `portal` the address can always change). `RequestGate` and
`ServiceSession` have no bound in their guards other than `MaxDelay`.

## 4. The theorems

The proofs hold for every set of runtimes, users, callers, tickets, services,
clients, profiles and addresses, every bound on generations, delays, nesting and
revisions, and both set-ups of the runtime. They assume
what the modules state: `ConstantsAssumption` (`NULL` is none of the other
values, `MaxGen` is a natural number), `GateAssumption` (at least one permit, the
gap is within the bound of delays), `SessionAssumption` (the machine's service is
one of the services), `FactorAssumption` and the two `NullAssumption`s (bounds are
numbers, `NULL` is none of the other values), `TargetsAssumption` (a child comes
with its parent), `DepthAssumption`, `RevisionAssumption`, `GenerationAssumption`
and `ScopesAssumption` (numbers, and the two access methods).

### `SessionAuthority_proofs`

The invariants one cares about are not inductive: that a restart reads only its
own account's files depends on what a login has already removed when it
publishes, on who holds the lock then, and on the fact that no window can hold
the generation of a tombstone. `IInv` (in `SessionAuthorityInv.tla`, also checked
by the `sdk` run) is the conjunction of `TypeOK` and five parts:

- `StepOK`: what a call relies on at each step (its account, phase, inputs);
- `LockOK`: the lock is held by exactly the runtime at a locked step, so the
  tombstone stays and the snapshot stays removed until the publication, or until
  the sweep of a logout or rejection is done;
- `LeaseOK`: no lease or writer is ahead of the authority, nobody holds the
  generation of a tombstone, signed-out generations are in the past;
- `MemoryOK`: what a runtime remembers belongs to the account and the opt-in its
  generation was opened with;
- `FilesOK`: the same of the files, of a live generation and of one about to be
  published.

`Invariance` proves it, with one lemma per action of the module. From it follow
`TypeCorrect`, `SnapshotIsCurrent`, `FilesAreTheAccounts`, `LeaseIsTheAccounts`,
`OptOutIsKept`, `LogoutIsFinal`, the action properties `LeaseIsNeverRefreshed`
and `RecoveryIsOptedIn`, and `Refinement`: `Spec` implements `Revocation!Spec`,
initial state to initial state and each step to a step or a stutter.

Two action properties say how far the findings of section 5 reach.
`RemovalIsTheAccounts`: a step that removes the vault record of the live account is
taken by the runtime that holds the live lease or, and this is `stale_logout`, by a
logout whose lease is an older one of the same account; no other account can do it.
`DropFollowsRevocation`: a logout that reached the removal through a revocation never
drops a lease that is still live, so `failed_logout` needs the revocation to fail.

### `RequestGate_proofs`

`PermitsAreAccounted` states that either the holders of permits are reads and
`free` plus their number is `Permits`, or one exclusive request holds them all.
That the set of holders is finite is part of the invariant, so the set of
callers need not be. `ExclusiveIsAlone` follows. `DelayIsKept` needs nothing
else. `ExclusiveIsAfterDelay` needs that no other request can be answered
between the check of an exclusive one and its dispatch: `ExclusivePassedCool`.

Of the queue, what does not need fairness is proved. `QueueIsConsistent`: the queue
has no caller twice and exactly those that wait, although a dropped caller leaves it
from the middle. `ServedInOrder`: while a caller waits nobody gets ahead of it, and it
is granted only when nobody is. `QueueIsNotStranded`: when no request is under way the
head of the queue can be granted, so a queue that waits always waits for somebody.
That the queue is then served is `QueueServed`, which needs fairness and stays with
TLC.

### `ServiceSession_proofs`

`TicketsAreClaimedOnce` rests on "a claim is counted only when its flag is set".
`ClaimsAreWithinTheSession` rests on `InstalledIsOwn`: the flag of a ticket that a
session was given is set unless it is the ticket of the machine, in an
authenticated session. `CredentialsAreBound` and `SessionTypeCorrect` follow the
validation every installation passes; that an authenticated session names its user
also needs that a second factor is refused when neither response named one.

### `SecondFactor_proofs`

The properties hold between calls because of what a call relies on while it runs,
so `IInv` adds to them: `StepOK` (which Identity state each step finds; no
challenge is pending while a call runs; a verification carries its challenge),
`SpentOK` (every challenge a code was posted for is older than the next one
discovered, and is not pending), `TrustOK` (the options the orchestrator kept are
those of this login wherever they may be read, although an abandoned login can
leave others behind) and `LoginOK` (what a login in progress keeps for the
challenge that may interrupt it). `Invariance` has one lemma per action. From it
follow `FactorTypeCorrect`, `ChallengesAreNotReplayed`, `CodesAreForThisLogin`,
`InteractionsAreAlone`, `DevicesAreRegisteredOnce`, `PendingContinuesItsLogin`
and the action property `RecoveryKeepsInteractions`. `Refinement` proves
`ImplementsSignIn`, action by action from the same invariant: a verification, whose
challenge is taken out of the runtime while its code is on the way, still is the
challenged state of the contract, and `MayRecover` is what its `Recovers` asks for.

### `RecoveryLifecycle_proofs`

What a step may do depends on which frames are below it, so the invariant is built
in layers (`RecoveryLifecycleInv.tla`, also checked by the `recovery` run). `IInv`
is `TypeOK` and:

- `StackOK`: the frames are a stack with one active frame, in the orders the calls
  allow; without it an action could meet frames that never run together;
- `IdentityOK`: what each step finds Identity like; `LoginIsTerminal` and
  `NoDispatchOverChallenge` follow from it;
- `WaitOK`: only a restored session brings a deadline along, a challenge that waits
  belongs to a session this process proved, and no resume starts over it; what the
  contract `SignIn` needs besides `IdentityOK`;
- `PostOK`: a login is posted with the one attempt consumed, and once the answer of
  one is lost with no retry scheduled before it nothing leads to another: Identity is
  anonymous or in a login of the user, the resume does not run and its attempt stays
  consumed;
- `GateOK`: a service that runs has shut its gate and has no deadline, and what may
  have been consumed is shut wherever time could open it; it contains `OneAttempt`
  and `NoBlindRetry`;
- `TaintOK`: the same for Identity, whose gate is one of three things that stop a
  second login (its gate, its proof, its state);
- `ChainOK`: the nesting depth counts at least the frames above the last root, so
  that leaving a chain clears its portal proof; it contains `ProofInsideChain`;
- `NestedOK`: a frame waits for its parent to begin only while that parent is not
  proven, so a parent that answers at once leaves nothing counted behind;
- `SpentOK`: a service that was handed off and not read is still proven and waited
  for, or its gate is closed; `NoHandoffLoop` follows.

`Invariance` has one lemma per action, with one step per part it can disturb.
From it follow `RecoveryTypeCorrect`, `AtMostOneAttempt`, `RetriesAreProbes`,
`RequiredLoginIsTerminal`, `HandoffsDoNotLoop`,
`ChallengeIsNotOvertaken`, the action property `ChallengeIsKept`,
`OnlyScheduledRetriesReplay` (from `PostOK`: how far the finding `time_replays`
reaches) and `Refinement`, which proves `ImplementsSignIn`.

Two theorems say how long the shared portal proof lives, which no run checks by
itself. `Leaked` says that the counter exceeds the frames that run.
`OnlyDropsLeakTheProof`: between calls the proof and the counter are clear unless the
counter is leaked, and only dropping the future of a call makes it so. Hence
`ProofStaysInChain`: where no future is dropped, no call begins with the proof of
another chain. The restriction is needed, section 5 says why.

`ChallengeKept` excepts the recovery frame of a resume: after the portal raised a
challenge behind a password the resume goes on to a fresh login, which discards it.

### `NetworkProfiles_proofs` and `PortalConnection_proofs`

`NetworkProfiles_proofs` has the invariant of the store (`ProfileInv`) and that
every operation and failure keeps it. `MemoryBehindFile` and `DeletedStaysDeleted`
need that only the holder of the lock writes (`LockExclusive`) and what a running
commit is writing (`CommitOK`); `PreparedBinds` needs that no identifier is issued
twice (`IssuedOnly`) and that revisions only grow, in memory and in what a commit
is about to install (`PreparedFollowed`). `PortalConnection_proofs` adds that a
target is the proven login of its client (`TargetOK`) and a running login the one
it posted (`LoginOK`), and derives `Invariance`, `PortalTypeCorrect`,
`MemoryIsBehindFile`, `DeletedProfilesStayDeleted`, `OnlyPowerFailuresUndoDeletions`,
`PreparedInputBinds`, `PasswordsGoToTheirAccount` and the action property `LogoutIsOfLastLogin`.

### Only model-checked

The liveness properties (`LockReleased`, `LogoutEnds`, `QueueServed`,
`ExclusiveSent`, `ScheduledProbeRuns`): liveness under fairness is out of the
prover's reach. Every invariant and action property of a passing run is proved.

## 5. Findings

1. `stale_logout` — the logout of a superseded window removes the credential
   record that a newer login of the same account saved: the revocation returns
   early for a stale lease, but the record is removed anyway, outside the lock
   (`api/runtime.rs:13704`; contrast `session_authority.rs:231-232`).
2. `failed_logout` — a logout that could not write its tombstone drops the lease
   all the same: nothing suppresses the files, and this window can no longer
   revoke them (`api/runtime.rs:13712`; contrast `13710-13711`).
3. `time_replays` — the resume of a restored session schedules a retry when its
   portal probe failed harmlessly, and then, in the same call, posts the saved
   password. When that answer is lost the older deadline stays, and a minute later
   the password is posted again (`api/runtime.rs:4523`; contrast
   `runtime_reference_recovery.rs:18-20`).

The theorems bound them. Only a superseded lease *of the same account* removes a
newer record (`RemovalIsTheAccounts`); only a revocation that failed leaves a dropped
lease live (`DropFollowsRevocation`); and only a retry that was scheduled *before* the
lost POST repeats it: without one the runtime posts no second login by itself,
whatever is read, probed, dropped or waited for (`OnlyScheduledRetriesReplay`).

Allowed by the code and by the models, promised nowhere: an answer whose future
is dropped while it waits for the deadline's mutex loses its delay; a delay the
clock cannot represent is ignored instead of capped; a starting window that finds
the snapshot unusable discards, in a second locked section, whatever snapshot is
there by then.

`SecondFactor` shows one more: a session resumed from a file keeps the file's
deadline, and when it falls due while a service's challenge is open, neither the
verification nor a recovery goes on. The message the user gets then says to log
in explicitly (`api/runtime.rs:5011`), and that is always possible.

`RecoveryLifecycle` shows three more. When the portal of a resume wants a password
and then a second factor, the pause leaves `portal_password_required` set
(`api/runtime.rs:13984-13988`), so the resume goes on to recover with the saved
password (`4527`), and that login discards the challenge just raised, which the
comments at `13945-13946` and `13993-13994` leave to the user. The user has not seen
the challenge by then; it is what `ChallengeKept` and `NoRecoveryOverInteraction`
except, and why `SignIn` tells a raised challenge from a waiting one. A future dropped inside a chain of refreshes
leaves `service_refresh_depth` raised, so that the next chain does not take itself
for a root and the shared portal proof stays for the one after it; a manual
establishment, a login and a logout reset the counter (`api/runtime.rs:12938`
says so of the first). `ProofInsideChain` is therefore stated against the counter,
`OnlyDropsLeakTheProof` says that nothing else leaves the counter raised, and
`ProofStaysInChain` what holds without it.
And a read served by a child of INFO does not seal INFO's gate, so `NoHandoffLoop`
is about the other services.

## 6. Not modelled

- *SelfService (USEREG)*: one page at a time under `&mut`; a captcha is consumed by
  its login, and a device reference is compared with the list generation in the
  call that uses it, with no await in between. What is left is page parsing.
- *One-shot writes*: the `*_write.rs` files plan one request and classify its
  answer; they keep no state and nothing retries them.
- *JSON cache*: every read, replacement and removal is one critical section under
  a blocking file lock, so nothing interleaves inside it.
- *The operations of single services* in `api/runtime.rs` (reads, submissions, use
  of caches): what they change in a session is the read, expiry and establishment
  of `RecoveryLifecycle`; the rest is data.
- *Service read adapters, page classification, Cookie matching, SM2/SM3, SRun
  digests, vault encryption, file formats*: data transformations without an order
  of steps; they enter as free choices of their result.
- *Flutter bridge and its bindings, Dart library, `tsinghua-kit` crate*: they
  forward calls. *`cargokit`, platform projects, telemetry, command line
  validation*: tooling.

`SecondFactor` and `RecoveryLifecycle` are not composed into one module: they meet in
the contract `SignIn`, which both are proved to implement, so what each assumes of the
Identity session and of the portal's challenge the other provides. `SessionAuthority`
meets them by abstraction: in each, what belongs to another is a Boolean that may
change whenever it could there, which allows more than the composition and so keeps
the safety properties sound, but a property that needs the files of the session root
and the schedule of the recovery at once cannot be stated.
