----------------------- MODULE SessionAuthority_proofs -----------------------
(***************************************************************************)
(* Proofs, for any number of runtimes, accounts and generations, that      *)
(* SessionAuthority keeps its invariants and implements Revocation.        *)
(*                                                                         *)
(* The inductive invariant IInv (module SessionAuthorityInv) has one named *)
(* part per concern; each part is preserved by every step, with the help   *)
(* of the parts before it.                                                 *)
(***************************************************************************)
EXTENDS SessionAuthorityInv, TLAPS

-----------------------------------------------------------------------------
(* The inductive invariant.                                                *)

\* The initial states: every process is down and the files are consistent.
LEMMA InitIInv == Init => IInv
<1> SUFFICES ASSUME Init PROVE IInv
    OBVIOUS
<1> USE ConstantsAssumption DEF Init, Gens, Snapshots, Locators, Attempts, OptIns,
      Gates, Phases, Locked, Unlocked, Legacy, NoOptIn
<1>1. TypeOK
  <2>1. PICK u \in Users :
          /\ owner = [g \in Gens |-> u]
          /\ \/ snapshot = NULL /\ metadata = NULL /\ vault = {}
             \/ /\ snapshot = [user |-> u, gen |-> Legacy]
                /\ metadata \in [user : {u}, saved : BOOLEAN]
                /\ vault = IF metadata.saved THEN {u} ELSE {}
    OBVIOUS
  <2>2. owner \in [Gens -> Users] BY <2>1
  <2>3. snapshot \in Snapshots \cup {NULL} BY <2>1
  <2>4. metadata \in Locators \cup {NULL} BY <2>1
  <2>5. vault \subseteq Users BY <2>1
  <2>. QED BY <2>2, <2>3, <2>4, <2>5 DEF TypeOK
<1>2. StepOK BY DEF StepOK, Ended, Rejected, Proved
<1>3. LockOK BY DEF LockOK
<1>4. LeaseOK BY DEF LeaseOK
<1>5. MemoryOK BY DEF MemoryOK
<1>6. FilesOK BY DEF FilesOK
<1>. QED BY <1>1, <1>2, <1>3, <1>4, <1>5, <1>6 DEF IInv

\* Every step keeps the types; the steps that use an account or an attempt have
\* one.
LEMMA TypeStep == TypeOK /\ StepOK /\ [Next]_vars => TypeOK'
<1> SUFFICES ASSUME TypeOK, StepOK, [Next]_vars PROVE TypeOK'
    OBVIOUS
<1> USE ConstantsAssumption DEF TypeOK, StepOK, Proved, Proven, Locked, Unlocked, Gens,
      Snapshots, Locators, Attempts, OptIns, Gates, Phases, durable, memory, history,
      Set
\* What the steps that follow a proof, a rejection or a revocation share.
<1>a. ASSUME NEW r \in Runtimes, pc[r] \in Proved
      PROVE  /\ user[r] \in Users
             /\ optIn[r].remember \in BOOLEAN /\ optIn[r].persisted \in BOOLEAN
  <2>1. phase[r] # "anonymous" BY <1>a
  <2>2. user[r] # NULL BY <2>1
  <2>3. user[r] \in Users \cup {NULL} /\ optIn[r] \in OptIns OBVIOUS
  <2>. QED BY <2>2, <2>3
<1>b. ASSUME NEW r \in Runtimes, AfterReject(r)
      PROVE  /\ pc' \in [Runtimes -> Locked \cup Unlocked]
             /\ user' \in [Runtimes -> Users \cup {NULL}]
  <2>1. pc' \in [Runtimes -> Locked \cup Unlocked] BY <1>b DEF AfterReject
  <2>2. CASE user' = user BY <2>1, <2>2
  <2>3. CASE user' = Set(user, r, NULL)
    <3>1. user' \in [Runtimes -> Users \cup {NULL}] BY <2>3
    <3>. QED BY <2>1, <3>1
  <2>. QED BY <1>b, <2>2, <2>3 DEF AfterReject
<1>c. vault \subseteq Users /\ optIn \in [Runtimes -> OptIns] OBVIOUS
<1>1. ASSUME NEW r \in Runtimes, Open(r) PROVE TypeOK'
  <2>1. CASE OpenUnreadable(r)
    BY <2>1 DEF OpenUnreadable
  <2>2. CASE OpenRevoked(r)
    BY <2>2 DEF OpenRevoked
  <2>3. CASE OpenAuthorized(r)
    BY <2>3 DEF OpenAuthorized
  <2>. QED BY <1>1, <2>1, <2>2, <2>3 DEF Open
<1>2. ASSUME NEW r \in Runtimes, Discard(r) PROVE TypeOK'
  <2>1. CASE DiscardSnapshot(r)
    BY <2>1 DEF DiscardSnapshot, Guarded, Current
  <2>2. CASE DiscardMetadata(r)
    BY <2>2 DEF DiscardMetadata, Guarded, Current
  <2>. QED BY <1>2, <2>1, <2>2 DEF Discard
<1>3. ASSUME NEW r \in Runtimes, Login(r) PROVE TypeOK'
  <2>1. CASE BeginRefused(r)
    BY <2>1 DEF BeginRefused
  <2>2. ASSUME NEW u \in Users, NEW remember \in BOOLEAN, BeginLogin(r, u, remember)
        PROVE  TypeOK'
    <3>1. authority.gen + 1 \in Gens BY <2>2 DEF BeginLogin
    <3>2. /\ authority' \in [gen : Gens, revoked : BOOLEAN]
          /\ owner' \in [Gens -> Users]
          /\ opted' \in [Gens -> BOOLEAN]
      BY <2>2, <3>1 DEF BeginLogin
    <3>3. CASE UNCHANGED <<lock, pc, attempt>>
      BY <2>2, <3>2, <3>3 DEF BeginLogin
    <3>4. CASE /\ lock' = r /\ pc' = Set(pc, r, "tombstoned")
               /\ attempt' = Set(attempt, r, [user |-> u, remember |-> remember,
                                              wasRevoked |-> authority.revoked])
      <4>1. attempt' \in [Runtimes -> Attempts \cup {NULL}] BY <3>4
      <4>. QED BY <2>2, <3>2, <3>4, <4>1 DEF BeginLogin
    <3>. QED BY <2>2, <3>3, <3>4 DEF BeginLogin
  <2>3. CASE CleanForLogin(r)
    BY <2>3 DEF CleanForLogin, Carried
  <2>4. CASE CleanFailed(r)
    BY <2>4 DEF CleanFailed
  <2>5. CASE PublishLogin(r)
    BY <2>5 DEF PublishLogin
  <2>6. CASE PublishFailed(r)
    BY <2>6 DEF PublishFailed
  <2>7. CASE EnterLogin(r)
    BY <2>7 DEF EnterLogin, Guarded, Current
  <2>. QED BY <1>3, <2>1, <2>2, <2>3, <2>4, <2>5, <2>6, <2>7 DEF Login
<1>4. ASSUME NEW r \in Runtimes, Outcome(r) PROVE TypeOK'
  <2>1. CASE Authenticate(r)
    BY <2>1 DEF Authenticate
  <2>2. CASE AttemptFails(r)
    BY <2>2 DEF AttemptFails
  <2>3. CASE SaveCredential(r)
    <3>1. user[r] \in Users /\ optIn[r].remember \in BOOLEAN
      BY <2>3, <1>a DEF SaveCredential
    <3>2. optIn' \in [Runtimes -> OptIns] /\ vault' \subseteq Users
      <4>. HIDE DEF TypeOK, StepOK
      <4>1. CASE UNCHANGED <<vault, optIn>> BY <1>c, <4>1
      <4>2. CASE /\ vault' = vault \cup {user[r]}
                 /\ optIn' = Set(optIn, r, [remember |-> optIn[r].remember,
                                           persisted |-> TRUE])
        BY <1>c, <3>1, <4>2
      <4>. QED BY <2>3, <4>1, <4>2 DEF SaveCredential
    <3>3. vault' \subseteq Users BY <3>2
    <3>. QED BY <2>3, <3>2, <3>3 DEF SaveCredential
  <2>4. CASE Reject(r)
    <3>1. optIn' \in [Runtimes -> OptIns] BY <2>4 DEF Reject
    <3>. QED BY <2>4, <3>1 DEF Reject
  <2>5. CASE ClearRejected(r)
    <3>1. /\ user' \in [Runtimes -> Users \cup {NULL}]
          /\ vault' \subseteq Users
      BY <2>5 DEF ClearRejected, AfterReject
    <3>2. \E next \in {"revokeLocator", "idle", "rejectRevoke"} :
             pc' = [pc EXCEPT ![r] = next]
      BY <2>5 DEF ClearRejected, AfterReject
    <3>3. pc' \in [Runtimes -> Locked \cup Unlocked] BY <3>2
    <3>. QED BY <2>5, <3>1, <3>3 DEF ClearRejected
  <2>6. CASE RevokeLocator(r)
    <3>1. user[r] \in Users BY <2>6 DEF RevokeLocator
    <3>2. shell' \in [Runtimes -> Locators \cup {NULL}] BY <2>6, <3>1 DEF RevokeLocator
    <3>3. /\ user' \in [Runtimes -> Users \cup {NULL}]
          /\ pc' \in [Runtimes -> Locked \cup Unlocked]
      <4>1. CASE AfterReject(r) BY <4>1, <1>b
      <4>2. CASE pc' = Set(pc, r, "rejectRevoke") /\ UNCHANGED user BY <4>2
      <4>. QED BY <2>6, <4>1, <4>2 DEF RevokeLocator
    <3>4. metadata' \in Locators \cup {NULL}
      <4>1. CASE UNCHANGED metadata BY <4>1
      <4>2. CASE metadata' = [user |-> user[r], saved |-> FALSE] BY <3>1, <4>2
      <4>. QED BY <2>6, <4>1, <4>2 DEF RevokeLocator
    <3>. QED BY <2>6, <3>2, <3>3, <3>4 DEF RevokeLocator
  <2>. QED BY <1>4, <2>1, <2>2, <2>3, <2>4, <2>5, <2>6 DEF Outcome
<1>5. ASSUME NEW r \in Runtimes, Persist(r) PROVE TypeOK'
  <2>1. CASE CommitRefused(r)
    BY <2>1 DEF CommitRefused
  <2>2. CASE CommitSkipped(r)
    BY <2>2 DEF CommitSkipped, Guarded, Current
  <2>3. CASE CommitSnapshot(r)
    BY <2>3 DEF CommitSnapshot, CommitLease, Live
  <2>4. CASE CommitMetadata(r)
    <3>1. optIn[r].persisted \in BOOLEAN /\ user[r] \in Users
      BY <2>4, <1>a DEF CommitMetadata
    <3>. QED BY <2>4, <3>1 DEF CommitMetadata
  <2>5. CASE CommitRolledBack(r)
    <3>1. optIn[r].persisted \in BOOLEAN /\ user[r] \in Users
      BY <2>5, <1>a DEF CommitRolledBack
    <3>2. metadata' \in Locators \cup {NULL} BY <2>5, <3>1 DEF CommitRolledBack
    <3>. QED BY <2>5, <3>2 DEF CommitRolledBack
  <2>6. CASE LiveRead(r)
    BY <2>6 DEF LiveRead
  <2>7. CASE CookieResponse(r)
    BY <2>7 DEF CookieResponse
  <2>. QED BY <1>5, <2>1, <2>2, <2>3, <2>4, <2>5, <2>6, <2>7 DEF Persist
<1>6. ASSUME NEW r \in Runtimes, Renew(r) PROVE TypeOK'
  <2>1. CASE Expire(r)
    BY <2>1 DEF Expire
  <2>2. CASE RequireLogin(r)
    BY <2>2 DEF RequireLogin
  <2>3. CASE BeginRefresh(r)
    BY <2>3 DEF BeginRefresh
  <2>4. CASE ProveCookies(r)
    BY <2>4 DEF ProveCookies
  <2>5. CASE Recover(r)
    BY <2>5 DEF Recover, MayRecover, Guarded, Current, RecoveryAccount, SavedOptIn
  <2>6. CASE RecoverWithoutRecord(r)
    BY <2>6 DEF RecoverWithoutRecord, MayRecover
  <2>. QED BY <1>6, <2>1, <2>2, <2>3, <2>4, <2>5, <2>6 DEF Renew
<1>7. ASSUME NEW r \in Runtimes, End(r) PROVE TypeOK'
  <2>1. CASE Logout(r)
    BY <2>1 DEF Logout, LogoutName, NoOptIn
  <2>2. CASE RevokeSuperseded(r)
    <3>1. CASE AfterReject(r) BY <2>2, <3>1, <1>b DEF RevokeSuperseded
    <3>2. CASE pc' = Set(pc, r, "forget") /\ UNCHANGED user
      BY <2>2, <3>2 DEF RevokeSuperseded
    <3>. QED BY <2>2, <3>1, <3>2 DEF RevokeSuperseded
  <2>3. CASE RevokeTombstone(r)
    BY <2>3 DEF RevokeTombstone, Revoking, Superseded
  <2>4. CASE RevokeFailed(r)
    <3>1. /\ pc' \in [Runtimes -> Locked \cup Unlocked]
          /\ user' \in [Runtimes -> Users \cup {NULL}]
      <4>1. CASE AfterReject(r) BY <4>1, <1>b
      <4>2. CASE pc' = Set(pc, r, "forgetAfterFailure") /\ UNCHANGED user BY <4>2
      <4>. QED BY <2>4, <4>1, <4>2 DEF RevokeFailed
    <3>2. CASE UNCHANGED authority
      BY <2>4, <3>1, <3>2 DEF RevokeFailed
    <3>3. CASE /\ authority.gen < MaxGen
               /\ authority' = [gen |-> authority.gen + 1, revoked |-> TRUE]
      <4>1. authority' \in [gen : Gens, revoked : BOOLEAN] BY <3>3
      <4>. QED BY <2>4, <3>1, <4>1 DEF RevokeFailed
    <3>. QED BY <2>4, <3>2, <3>3 DEF RevokeFailed
  <2>5. CASE Sweep(r)
    <3>1. vault' \subseteq Users BY <2>5 DEF Sweep, SweepVault
    <3>2. CASE AfterReject(r) BY <2>5, <3>1, <3>2, <1>b DEF Sweep
    <3>3. CASE pc' = Set(pc, r, "forget") /\ UNCHANGED user
      BY <2>5, <3>1, <3>3 DEF Sweep
    <3>. QED BY <2>5, <3>2, <3>3 DEF Sweep
  <2>6. CASE SweepFailed(r)
    <3>1. vault' \subseteq Users BY <2>6 DEF SweepFailed, SweepVault
    <3>2. snapshot' \in Snapshots \cup {NULL} /\ metadata' \in Locators \cup {NULL}
      BY <2>6 DEF SweepFailed
    <3>3. CASE AfterReject(r) BY <2>6, <3>1, <3>2, <3>3, <1>b DEF SweepFailed
    <3>4. CASE pc' = Set(pc, r, "forgetAfterFailure") /\ UNCHANGED user
      BY <2>6, <3>1, <3>2, <3>4 DEF SweepFailed
    <3>. QED BY <2>6, <3>3, <3>4 DEF SweepFailed
  <2>7. CASE ForgetCredential(r)
    <3>1. signedOut' \in SUBSET Gens
      <4>1. CASE UNCHANGED signedOut BY <4>1
      <4>2. CASE lease[r] # NULL /\ signedOut' = signedOut \cup {lease[r]}
        <5>1. lease[r] \in Gens BY <4>2
        <5>. QED BY <5>1, <4>2
      <4>. QED BY <2>7, <4>1, <4>2 DEF ForgetCredential
    <3>2. vault' \subseteq Users BY <2>7 DEF ForgetCredential
    <3>. QED BY <2>7, <3>1, <3>2 DEF ForgetCredential
  <2>. QED BY <1>7, <2>1, <2>2, <2>3, <2>4, <2>5, <2>6, <2>7 DEF End
<1>8. ASSUME NEW r \in Runtimes, Crash(r) PROVE TypeOK'
  BY <1>8 DEF Crash, NoOptIn
<1>9. CASE UNCHANGED vars
  BY <1>9 DEF vars
<1>. QED BY <1>1, <1>2, <1>3, <1>4, <1>5, <1>6, <1>7, <1>8, <1>9 DEF Next

\* Every step hands the next one what it relies on.
LEMMA StepStep == TypeOK /\ StepOK /\ [Next]_vars => StepOK'
<1> SUFFICES ASSUME TypeOK, StepOK, [Next]_vars PROVE StepOK'
    OBVIOUS
<1> USE ConstantsAssumption DEF TypeOK, StepOK, Ended, Rejected, Proved, Proven, Locked,
      Unlocked, Gens, Snapshots, Locators, Attempts, OptIns, Gates, Phases, durable,
      memory, history, Set
<1>1. ASSUME NEW r \in Runtimes, Open(r) PROVE StepOK'
  <2>1. CASE OpenUnreadable(r)
    BY <2>1 DEF OpenUnreadable
  <2>2. CASE OpenRevoked(r)
    BY <2>2 DEF OpenRevoked
  <2>3. CASE OpenAuthorized(r)
    BY <2>3 DEF OpenAuthorized
  <2>. QED BY <1>1, <2>1, <2>2, <2>3 DEF Open
<1>2. ASSUME NEW r \in Runtimes, Discard(r) PROVE StepOK'
  <2>1. CASE DiscardSnapshot(r)
    BY <2>1 DEF DiscardSnapshot, Guarded, Current
  <2>2. CASE DiscardMetadata(r)
    BY <2>2 DEF DiscardMetadata, Guarded, Current
  <2>. QED BY <1>2, <2>1, <2>2 DEF Discard
<1>3. ASSUME NEW r \in Runtimes, Login(r) PROVE StepOK'
  <2>1. CASE BeginRefused(r)
    BY <2>1 DEF BeginRefused
  <2>2. ASSUME NEW u \in Users, NEW remember \in BOOLEAN, BeginLogin(r, u, remember)
        PROVE  StepOK'
    <3>1. CASE UNCHANGED <<lock, pc, attempt>>
      BY <2>2, <3>1 DEF BeginLogin
    <3>2. CASE pc' = Set(pc, r, "tombstoned")
      <4>1. attempt'[r] \in Attempts BY <2>2, <3>2 DEF BeginLogin
      <4>. QED BY <2>2, <3>2, <4>1 DEF BeginLogin
    <3>. QED BY <2>2, <3>1, <3>2 DEF BeginLogin
  <2>3. CASE CleanForLogin(r)
    BY <2>3 DEF CleanForLogin, Carried
  <2>4. CASE CleanFailed(r)
    BY <2>4 DEF CleanFailed
  <2>5. CASE PublishLogin(r)
    BY <2>5 DEF PublishLogin
  <2>6. CASE PublishFailed(r)
    BY <2>6 DEF PublishFailed
  <2>7. CASE EnterLogin(r)
    BY <2>7 DEF EnterLogin, Guarded, Current
  <2>. QED BY <1>3, <2>1, <2>2, <2>3, <2>4, <2>5, <2>6, <2>7 DEF Login
<1>4. ASSUME NEW r \in Runtimes, Outcome(r) PROVE StepOK'
  <2>1. CASE Authenticate(r)
    BY <2>1 DEF Authenticate
  <2>2. CASE AttemptFails(r)
    BY <2>2 DEF AttemptFails
  <2>3. CASE SaveCredential(r)
    BY <2>3 DEF SaveCredential, Guarded, Current
  <2>4. CASE Reject(r)
    BY <2>4 DEF Reject
  <2>5. CASE ClearRejected(r)
    BY <2>5 DEF ClearRejected, Guarded, Current, HasSavedShell, AfterReject
  <2>6. CASE RevokeLocator(r)
    BY <2>6 DEF RevokeLocator, Guarded, Current, AfterReject
  <2>. QED BY <1>4, <2>1, <2>2, <2>3, <2>4, <2>5, <2>6 DEF Outcome
<1>5. ASSUME NEW r \in Runtimes, Persist(r) PROVE StepOK'
  <2>1. CASE CommitRefused(r)
    BY <2>1 DEF CommitRefused
  <2>2. CASE CommitSkipped(r)
    BY <2>2 DEF CommitSkipped, Guarded, Current
  <2>3. CASE CommitSnapshot(r)
    BY <2>3 DEF CommitSnapshot, CommitLease, Live
  <2>4. CASE CommitMetadata(r)
    BY <2>4 DEF CommitMetadata
  <2>5. CASE CommitRolledBack(r)
    BY <2>5 DEF CommitRolledBack
  <2>6. CASE LiveRead(r)
    BY <2>6 DEF LiveRead
  <2>7. CASE CookieResponse(r)
    BY <2>7 DEF CookieResponse
  <2>. QED BY <1>5, <2>1, <2>2, <2>3, <2>4, <2>5, <2>6, <2>7 DEF Persist
<1>6. ASSUME NEW r \in Runtimes, Renew(r) PROVE StepOK'
  <2>1. CASE Expire(r)
    BY <2>1 DEF Expire
  <2>2. CASE RequireLogin(r)
    BY <2>2 DEF RequireLogin
  <2>3. CASE BeginRefresh(r)
    BY <2>3 DEF BeginRefresh
  <2>4. CASE ProveCookies(r)
    BY <2>4 DEF ProveCookies
  <2>5. CASE Recover(r)
    BY <2>5 DEF Recover, MayRecover, Guarded, Current, RecoveryAccount, SavedOptIn
  <2>6. CASE RecoverWithoutRecord(r)
    BY <2>6 DEF RecoverWithoutRecord, MayRecover
  <2>. QED BY <1>6, <2>1, <2>2, <2>3, <2>4, <2>5, <2>6 DEF Renew
<1>7. ASSUME NEW r \in Runtimes, End(r) PROVE StepOK'
  <2>1. CASE Logout(r)
    BY <2>1 DEF Logout, LogoutName, NoOptIn
  <2>2. CASE RevokeSuperseded(r)
    BY <2>2 DEF RevokeSuperseded, Superseded, AfterReject
  <2>3. CASE RevokeTombstone(r)
    BY <2>3 DEF RevokeTombstone, Revoking, Superseded
  <2>4. CASE RevokeFailed(r)
    BY <2>4 DEF RevokeFailed, Superseded, AfterReject
  <2>5. CASE Sweep(r)
    BY <2>5 DEF Sweep, SweepVault, AfterReject
  <2>6. CASE SweepFailed(r)
    BY <2>6 DEF SweepFailed, SweepVault, AfterReject
  <2>7. CASE ForgetCredential(r)
    BY <2>7 DEF ForgetCredential
  <2>. QED BY <1>7, <2>1, <2>2, <2>3, <2>4, <2>5, <2>6, <2>7 DEF End
<1>8. ASSUME NEW r \in Runtimes, Crash(r) PROVE StepOK'
  BY <1>8 DEF Crash, NoOptIn
<1>9. CASE UNCHANGED vars
  BY <1>9 DEF vars
<1>. QED BY <1>1, <1>2, <1>3, <1>4, <1>5, <1>6, <1>7, <1>8, <1>9 DEF Next

\* Mutual exclusion on the authority, and what the holder may rely on.
LEMMA LockStep == TypeOK /\ LockOK /\ [Next]_vars => LockOK'
<1> SUFFICES ASSUME TypeOK, LockOK, [Next]_vars PROVE LockOK'
    OBVIOUS
<1> USE ConstantsAssumption DEF TypeOK, LockOK, Locked, Unlocked, Gens, Snapshots,
      Locators, Attempts, OptIns, Gates, Phases, durable, memory, history, Set
<1>1. ASSUME NEW r \in Runtimes, Open(r) PROVE LockOK'
  <2>1. CASE OpenUnreadable(r)
    BY <2>1 DEF OpenUnreadable
  <2>2. CASE OpenRevoked(r)
    BY <2>2 DEF OpenRevoked
  <2>3. CASE OpenAuthorized(r)
    BY <2>3 DEF OpenAuthorized
  <2>. QED BY <1>1, <2>1, <2>2, <2>3 DEF Open
<1>2. ASSUME NEW r \in Runtimes, Discard(r) PROVE LockOK'
  <2>1. CASE DiscardSnapshot(r)
    BY <2>1 DEF DiscardSnapshot, Guarded, Current
  <2>2. CASE DiscardMetadata(r)
    BY <2>2 DEF DiscardMetadata, Guarded, Current
  <2>. QED BY <1>2, <2>1, <2>2 DEF Discard
<1>3. ASSUME NEW r \in Runtimes, Login(r) PROVE LockOK'
  <2>1. CASE BeginRefused(r)
    BY <2>1 DEF BeginRefused
  <2>2. ASSUME NEW u \in Users, NEW remember \in BOOLEAN, BeginLogin(r, u, remember)
        PROVE  LockOK'
    BY <2>2 DEF BeginLogin
  <2>3. CASE CleanForLogin(r)
    BY <2>3 DEF CleanForLogin, Carried
  <2>4. CASE CleanFailed(r)
    BY <2>4 DEF CleanFailed
  <2>5. CASE PublishLogin(r)
    BY <2>5 DEF PublishLogin
  <2>6. CASE PublishFailed(r)
    BY <2>6 DEF PublishFailed
  <2>7. CASE EnterLogin(r)
    BY <2>7 DEF EnterLogin, Guarded, Current
  <2>. QED BY <1>3, <2>1, <2>2, <2>3, <2>4, <2>5, <2>6, <2>7 DEF Login
<1>4. ASSUME NEW r \in Runtimes, Outcome(r) PROVE LockOK'
  <2>1. CASE Authenticate(r)
    BY <2>1 DEF Authenticate
  <2>2. CASE AttemptFails(r)
    BY <2>2 DEF AttemptFails
  <2>3. CASE SaveCredential(r)
    BY <2>3 DEF SaveCredential, Guarded, Current
  <2>4. CASE Reject(r)
    BY <2>4 DEF Reject
  <2>5. CASE ClearRejected(r)
    BY <2>5 DEF ClearRejected, Guarded, Current, HasSavedShell, AfterReject
  <2>6. CASE RevokeLocator(r)
    BY <2>6 DEF RevokeLocator, Guarded, Current, AfterReject
  <2>. QED BY <1>4, <2>1, <2>2, <2>3, <2>4, <2>5, <2>6 DEF Outcome
<1>5. ASSUME NEW r \in Runtimes, Persist(r) PROVE LockOK'
  <2>1. CASE CommitRefused(r)
    BY <2>1 DEF CommitRefused
  <2>2. CASE CommitSkipped(r)
    BY <2>2 DEF CommitSkipped, Guarded, Current
  <2>3. CASE CommitSnapshot(r)
    BY <2>3 DEF CommitSnapshot, CommitLease, Live
  <2>4. CASE CommitMetadata(r)
    BY <2>4 DEF CommitMetadata
  <2>5. CASE CommitRolledBack(r)
    BY <2>5 DEF CommitRolledBack
  <2>6. CASE LiveRead(r)
    BY <2>6 DEF LiveRead
  <2>7. CASE CookieResponse(r)
    BY <2>7 DEF CookieResponse
  <2>. QED BY <1>5, <2>1, <2>2, <2>3, <2>4, <2>5, <2>6, <2>7 DEF Persist
<1>6. ASSUME NEW r \in Runtimes, Renew(r) PROVE LockOK'
  <2>1. CASE Expire(r)
    BY <2>1 DEF Expire
  <2>2. CASE RequireLogin(r)
    BY <2>2 DEF RequireLogin
  <2>3. CASE BeginRefresh(r)
    BY <2>3 DEF BeginRefresh
  <2>4. CASE ProveCookies(r)
    BY <2>4 DEF ProveCookies
  <2>5. CASE Recover(r)
    BY <2>5 DEF Recover, MayRecover, Guarded, Current, RecoveryAccount, SavedOptIn
  <2>6. CASE RecoverWithoutRecord(r)
    BY <2>6 DEF RecoverWithoutRecord, MayRecover
  <2>. QED BY <1>6, <2>1, <2>2, <2>3, <2>4, <2>5, <2>6 DEF Renew
<1>7. ASSUME NEW r \in Runtimes, End(r) PROVE LockOK'
  <2>1. CASE Logout(r)
    BY <2>1 DEF Logout, LogoutName, NoOptIn
  <2>2. CASE RevokeSuperseded(r)
    BY <2>2 DEF RevokeSuperseded, Superseded, AfterReject
  <2>3. CASE RevokeTombstone(r)
    BY <2>3 DEF RevokeTombstone, Revoking, Superseded
  <2>4. CASE RevokeFailed(r)
    BY <2>4 DEF RevokeFailed, Superseded, AfterReject
  <2>5. CASE Sweep(r)
    <3>1. PICK next \in {"forget", "idle"} : pc' = [pc EXCEPT ![r] = next]
      BY <2>5 DEF Sweep, AfterReject
    <3>2. pc[r] \in Locked /\ lock' = NULL BY <2>5 DEF Sweep
    <3>3. \A q \in Runtimes : pc'[q] \notin Locked BY <3>1, <3>2
    <3>. QED BY <3>2, <3>3
  <2>6. CASE SweepFailed(r)
    BY <2>6 DEF SweepFailed, SweepVault, AfterReject
  <2>7. CASE ForgetCredential(r)
    BY <2>7 DEF ForgetCredential
  <2>. QED BY <1>7, <2>1, <2>2, <2>3, <2>4, <2>5, <2>6, <2>7 DEF End
<1>8. ASSUME NEW r \in Runtimes, Crash(r) PROVE LockOK'
  BY <1>8 DEF Crash, NoOptIn
<1>9. CASE UNCHANGED vars
  BY <1>9 DEF vars
<1>. QED BY <1>1, <1>2, <1>3, <1>4, <1>5, <1>6, <1>7, <1>8, <1>9 DEF Next

\* Leases never reach the generation of a tombstone.
LEMMA LeaseStep == TypeOK /\ LockOK /\ LeaseOK /\ [Next]_vars => LeaseOK'
<1> SUFFICES ASSUME TypeOK, LockOK, LeaseOK, [Next]_vars PROVE LeaseOK'
    OBVIOUS
<1> USE ConstantsAssumption DEF TypeOK, LockOK, LeaseOK, Locked, Unlocked, Gens,
      Snapshots, Locators, Attempts, OptIns, Gates, Phases, durable, memory, history,
      Set
<1>1. ASSUME NEW r \in Runtimes, Open(r) PROVE LeaseOK'
  <2>1. CASE OpenUnreadable(r)
    BY <2>1 DEF OpenUnreadable
  <2>2. CASE OpenRevoked(r)
    BY <2>2 DEF OpenRevoked
  <2>3. CASE OpenAuthorized(r)
    BY <2>3 DEF OpenAuthorized
  <2>. QED BY <1>1, <2>1, <2>2, <2>3 DEF Open
<1>2. ASSUME NEW r \in Runtimes, Discard(r) PROVE LeaseOK'
  <2>1. CASE DiscardSnapshot(r)
    BY <2>1 DEF DiscardSnapshot, Guarded, Current
  <2>2. CASE DiscardMetadata(r)
    BY <2>2 DEF DiscardMetadata, Guarded, Current
  <2>. QED BY <1>2, <2>1, <2>2 DEF Discard
<1>3. ASSUME NEW r \in Runtimes, Login(r) PROVE LeaseOK'
  <2>1. CASE BeginRefused(r)
    <3>1. \A q \in Runtimes : writer'[q] \in {writer[q], NULL} BY <2>1 DEF BeginRefused
    <3>. QED BY <2>1, <3>1 DEF BeginRefused
  <2>2. ASSUME NEW u \in Users, NEW remember \in BOOLEAN, BeginLogin(r, u, remember)
        PROVE  LeaseOK'
    BY <2>2 DEF BeginLogin
  <2>3. CASE CleanForLogin(r)
    BY <2>3 DEF CleanForLogin, Carried
  <2>4. CASE CleanFailed(r)
    BY <2>4 DEF CleanFailed
  <2>5. CASE PublishLogin(r)
    BY <2>5 DEF PublishLogin
  <2>6. CASE PublishFailed(r)
    <3>1. CASE UNCHANGED authority
      BY <2>6, <3>1 DEF PublishFailed
    <3>2. CASE authority' = [authority EXCEPT !.revoked = FALSE]
      BY <2>6, <3>2 DEF PublishFailed
    <3>. QED BY <2>6, <3>1, <3>2 DEF PublishFailed
  <2>7. CASE EnterLogin(r)
    BY <2>7 DEF EnterLogin, Guarded, Current
  <2>. QED BY <1>3, <2>1, <2>2, <2>3, <2>4, <2>5, <2>6, <2>7 DEF Login
<1>4. ASSUME NEW r \in Runtimes, Outcome(r) PROVE LeaseOK'
  <2>1. CASE Authenticate(r)
    BY <2>1 DEF Authenticate
  <2>2. CASE AttemptFails(r)
    BY <2>2 DEF AttemptFails
  <2>3. CASE SaveCredential(r)
    BY <2>3 DEF SaveCredential, Guarded, Current
  <2>4. CASE Reject(r)
    BY <2>4 DEF Reject
  <2>5. CASE ClearRejected(r)
    BY <2>5 DEF ClearRejected, Guarded, Current, HasSavedShell, AfterReject
  <2>6. CASE RevokeLocator(r)
    BY <2>6 DEF RevokeLocator, Guarded, Current, AfterReject
  <2>. QED BY <1>4, <2>1, <2>2, <2>3, <2>4, <2>5, <2>6 DEF Outcome
<1>5. ASSUME NEW r \in Runtimes, Persist(r) PROVE LeaseOK'
  <2>1. CASE CommitRefused(r)
    BY <2>1 DEF CommitRefused
  <2>2. CASE CommitSkipped(r)
    BY <2>2 DEF CommitSkipped, Guarded, Current
  <2>3. CASE CommitSnapshot(r)
    BY <2>3 DEF CommitSnapshot, CommitLease, Live
  <2>4. CASE CommitMetadata(r)
    <3>1. /\ pc' = Set(pc, r, "idle") /\ pc[r] = "pairing"
          /\ UNCHANGED <<authority, lease, writer, signedOut>>
      BY <2>4 DEF CommitMetadata
    <3>. QED BY <3>1
  <2>5. CASE CommitRolledBack(r)
    BY <2>5 DEF CommitRolledBack
  <2>6. CASE LiveRead(r)
    BY <2>6 DEF LiveRead
  <2>7. CASE CookieResponse(r)
    BY <2>7 DEF CookieResponse
  <2>. QED BY <1>5, <2>1, <2>2, <2>3, <2>4, <2>5, <2>6, <2>7 DEF Persist
<1>6. ASSUME NEW r \in Runtimes, Renew(r) PROVE LeaseOK'
  <2>1. CASE Expire(r)
    BY <2>1 DEF Expire
  <2>2. CASE RequireLogin(r)
    BY <2>2 DEF RequireLogin
  <2>3. CASE BeginRefresh(r)
    BY <2>3 DEF BeginRefresh
  <2>4. CASE ProveCookies(r)
    BY <2>4 DEF ProveCookies
  <2>5. CASE Recover(r)
    BY <2>5 DEF Recover, MayRecover, Guarded, Current, RecoveryAccount, SavedOptIn
  <2>6. CASE RecoverWithoutRecord(r)
    BY <2>6 DEF RecoverWithoutRecord, MayRecover
  <2>. QED BY <1>6, <2>1, <2>2, <2>3, <2>4, <2>5, <2>6 DEF Renew
<1>7. ASSUME NEW r \in Runtimes, End(r) PROVE LeaseOK'
  <2>1. CASE Logout(r)
    BY <2>1 DEF Logout, LogoutName, NoOptIn
  <2>2. CASE RevokeSuperseded(r)
    <3>1. lease[r] # NULL => lease[r] < authority.gen
      BY <2>2 DEF RevokeSuperseded, Superseded
    <3>2. pc' = Set(pc, r, "forget") \/ pc' = Set(pc, r, "idle")
      BY <2>2 DEF RevokeSuperseded, AfterReject
    <3>3. UNCHANGED <<authority, lease, writer, signedOut>> BY <2>2 DEF RevokeSuperseded
    <3>. QED BY <2>2, <3>1, <3>2, <3>3
  <2>3. CASE RevokeTombstone(r)
    BY <2>3 DEF RevokeTombstone, Revoking, Superseded
  <2>4. CASE RevokeFailed(r)
    BY <2>4 DEF RevokeFailed, Superseded, AfterReject
  <2>5. CASE Sweep(r)
    BY <2>5 DEF Sweep, SweepVault, AfterReject
  <2>6. CASE SweepFailed(r)
    BY <2>6 DEF SweepFailed, SweepVault, AfterReject
  <2>7. CASE ForgetCredential(r)
    <3>1. \A g \in signedOut' : g < authority.gen
      <4>1. CASE UNCHANGED signedOut BY <4>1
      <4>2. CASE /\ pc[r] = "forget" /\ lease[r] # NULL
                 /\ signedOut' = signedOut \cup {lease[r]}
        BY <4>2
      <4>. QED BY <2>7, <4>1, <4>2 DEF ForgetCredential
    <3>. QED BY <2>7, <3>1 DEF ForgetCredential
  <2>. QED BY <1>7, <2>1, <2>2, <2>3, <2>4, <2>5, <2>6, <2>7 DEF End
<1>8. ASSUME NEW r \in Runtimes, Crash(r) PROVE LeaseOK'
  BY <1>8 DEF Crash, NoOptIn
<1>9. CASE UNCHANGED vars
  BY <1>9 DEF vars
<1>. QED BY <1>1, <1>2, <1>3, <1>4, <1>5, <1>6, <1>7, <1>8, <1>9 DEF Next

\* What a runtime remembers stays bound to the account of its lease.
LEMMA MemoryStep == TypeOK /\ StepOK /\ LockOK /\ LeaseOK /\ MemoryOK /\ FilesOK /\
      [Next]_vars => MemoryOK'
<1> SUFFICES ASSUME TypeOK, StepOK, LockOK, LeaseOK, MemoryOK, FilesOK, [Next]_vars
      PROVE MemoryOK'
    OBVIOUS
<1> USE ConstantsAssumption DEF TypeOK, StepOK, LockOK, LeaseOK, MemoryOK, FilesOK,
      Ended, Rejected, Proved, Proven, Locked, Unlocked, Gens, Snapshots, Locators,
      Attempts, OptIns, Gates, Phases, durable, memory, history, Set
<1>1. ASSUME NEW r \in Runtimes, Open(r) PROVE MemoryOK'
  <2>1. CASE OpenUnreadable(r)
    BY <2>1 DEF OpenUnreadable
  <2>2. CASE OpenRevoked(r)
    BY <2>2 DEF OpenRevoked
  <2>3. CASE OpenAuthorized(r)
    BY <2>3 DEF OpenAuthorized
  <2>. QED BY <1>1, <2>1, <2>2, <2>3 DEF Open
<1>2. ASSUME NEW r \in Runtimes, Discard(r) PROVE MemoryOK'
  <2>1. CASE DiscardSnapshot(r)
    BY <2>1 DEF DiscardSnapshot, Guarded, Current
  <2>2. CASE DiscardMetadata(r)
    BY <2>2 DEF DiscardMetadata, Guarded, Current
  <2>. QED BY <1>2, <2>1, <2>2 DEF Discard
<1>3. ASSUME NEW r \in Runtimes, Login(r) PROVE MemoryOK'
  <2>1. CASE BeginRefused(r)
    BY <2>1 DEF BeginRefused
  <2>2. ASSUME NEW u \in Users, NEW remember \in BOOLEAN, BeginLogin(r, u, remember)
        PROVE  MemoryOK'
    BY <2>2 DEF BeginLogin
  <2>3. CASE CleanForLogin(r)
    BY <2>3 DEF CleanForLogin, Carried
  <2>4. CASE CleanFailed(r)
    BY <2>4 DEF CleanFailed
  <2>5. CASE PublishLogin(r)
    BY <2>5 DEF PublishLogin
  <2>6. CASE PublishFailed(r)
    BY <2>6 DEF PublishFailed
  <2>7. CASE EnterLogin(r)
    BY <2>7 DEF EnterLogin, Guarded, Current
  <2>. QED BY <1>3, <2>1, <2>2, <2>3, <2>4, <2>5, <2>6, <2>7 DEF Login
<1>4. ASSUME NEW r \in Runtimes, Outcome(r) PROVE MemoryOK'
  <2>1. CASE Authenticate(r)
    BY <2>1 DEF Authenticate
  <2>2. CASE AttemptFails(r)
    BY <2>2 DEF AttemptFails
  <2>3. CASE SaveCredential(r)
    BY <2>3 DEF SaveCredential, Guarded, Current
  <2>4. CASE Reject(r)
    BY <2>4 DEF Reject
  <2>5. CASE ClearRejected(r)
    BY <2>5 DEF ClearRejected, Guarded, Current, HasSavedShell, AfterReject
  <2>6. CASE RevokeLocator(r)
    BY <2>6 DEF RevokeLocator, Guarded, Current, AfterReject
  <2>. QED BY <1>4, <2>1, <2>2, <2>3, <2>4, <2>5, <2>6 DEF Outcome
<1>5. ASSUME NEW r \in Runtimes, Persist(r) PROVE MemoryOK'
  <2>1. CASE CommitRefused(r)
    BY <2>1 DEF CommitRefused
  <2>2. CASE CommitSkipped(r)
    BY <2>2 DEF CommitSkipped, Guarded, Current
  <2>3. CASE CommitSnapshot(r)
    BY <2>3 DEF CommitSnapshot, CommitLease, Live
  <2>4. CASE CommitMetadata(r)
    <3>1. /\ pc[r] = "pairing" /\ phase[r] # "anonymous"
          /\ lease[r] = authority.gen /\ lease[r] # NULL
      BY <2>4 DEF CommitMetadata
    <3>2. user[r] = owner[authority.gen] /\ (optIn[r].persisted => opted[authority.gen])
      BY <3>1
    <3>. QED BY <2>4, <3>1, <3>2 DEF CommitMetadata
  <2>5. CASE CommitRolledBack(r)
    BY <2>5 DEF CommitRolledBack
  <2>6. CASE LiveRead(r)
    BY <2>6 DEF LiveRead
  <2>7. CASE CookieResponse(r)
    BY <2>7 DEF CookieResponse
  <2>. QED BY <1>5, <2>1, <2>2, <2>3, <2>4, <2>5, <2>6, <2>7 DEF Persist
<1>6. ASSUME NEW r \in Runtimes, Renew(r) PROVE MemoryOK'
  <2>1. CASE Expire(r)
    BY <2>1 DEF Expire
  <2>2. CASE RequireLogin(r)
    BY <2>2 DEF RequireLogin
  <2>3. CASE BeginRefresh(r)
    BY <2>3 DEF BeginRefresh
  <2>4. CASE ProveCookies(r)
    BY <2>4 DEF ProveCookies
  <2>5. CASE Recover(r)
    BY <2>5 DEF Recover, MayRecover, Guarded, Current, RecoveryAccount, SavedOptIn
  <2>6. CASE RecoverWithoutRecord(r)
    BY <2>6 DEF RecoverWithoutRecord, MayRecover
  <2>. QED BY <1>6, <2>1, <2>2, <2>3, <2>4, <2>5, <2>6 DEF Renew
<1>7. ASSUME NEW r \in Runtimes, End(r) PROVE MemoryOK'
  <2>1. CASE Logout(r)
    BY <2>1 DEF Logout, LogoutName, NoOptIn
  <2>2. CASE RevokeSuperseded(r)
    BY <2>2 DEF RevokeSuperseded, Superseded, AfterReject
  <2>3. CASE RevokeTombstone(r)
    BY <2>3 DEF RevokeTombstone, Revoking, Superseded
  <2>4. CASE RevokeFailed(r)
    BY <2>4 DEF RevokeFailed, Superseded, AfterReject
  <2>5. CASE Sweep(r)
    BY <2>5 DEF Sweep, SweepVault, AfterReject
  <2>6. CASE SweepFailed(r)
    BY <2>6 DEF SweepFailed, SweepVault, AfterReject
  <2>7. CASE ForgetCredential(r)
    BY <2>7 DEF ForgetCredential
  <2>. QED BY <1>7, <2>1, <2>2, <2>3, <2>4, <2>5, <2>6, <2>7 DEF End
<1>8. ASSUME NEW r \in Runtimes, Crash(r) PROVE MemoryOK'
  BY <1>8 DEF Crash, NoOptIn
<1>9. CASE UNCHANGED vars
  BY <1>9 DEF vars
<1>. QED BY <1>1, <1>2, <1>3, <1>4, <1>5, <1>6, <1>7, <1>8, <1>9 DEF Next

\* What the files hold stays bound to the account of the live generation.
LEMMA FilesStep == TypeOK /\ StepOK /\ LockOK /\ LeaseOK /\ MemoryOK /\ FilesOK /\
      [Next]_vars => FilesOK'
<1> SUFFICES ASSUME TypeOK, StepOK, LockOK, LeaseOK, MemoryOK, FilesOK, [Next]_vars
      PROVE FilesOK'
    OBVIOUS
<1> USE ConstantsAssumption DEF TypeOK, StepOK, LockOK, LeaseOK, MemoryOK, FilesOK,
      Ended, Rejected, Proved, Proven, Locked, Unlocked, Gens, Snapshots, Locators,
      Attempts, OptIns, Gates, Phases, durable, memory, history, Set
<1>1. ASSUME NEW r \in Runtimes, Open(r) PROVE FilesOK'
  <2>1. CASE OpenUnreadable(r)
    BY <2>1 DEF OpenUnreadable
  <2>2. CASE OpenRevoked(r)
    BY <2>2 DEF OpenRevoked
  <2>3. CASE OpenAuthorized(r)
    BY <2>3 DEF OpenAuthorized
  <2>. QED BY <1>1, <2>1, <2>2, <2>3 DEF Open
<1>2. ASSUME NEW r \in Runtimes, Discard(r) PROVE FilesOK'
  <2>1. CASE DiscardSnapshot(r)
    BY <2>1 DEF DiscardSnapshot, Guarded, Current
  <2>2. CASE DiscardMetadata(r)
    BY <2>2 DEF DiscardMetadata, Guarded, Current
  <2>. QED BY <1>2, <2>1, <2>2 DEF Discard
<1>3. ASSUME NEW r \in Runtimes, Login(r) PROVE FilesOK'
  <2>1. CASE BeginRefused(r)
    BY <2>1 DEF BeginRefused
  <2>2. ASSUME NEW u \in Users, NEW remember \in BOOLEAN, BeginLogin(r, u, remember)
        PROVE  FilesOK'
    BY <2>2 DEF BeginLogin
  <2>3. CASE CleanForLogin(r)
    BY <2>3 DEF CleanForLogin, Carried
  <2>4. CASE CleanFailed(r)
    BY <2>4 DEF CleanFailed
  <2>5. CASE PublishLogin(r)
    BY <2>5 DEF PublishLogin
  <2>6. CASE PublishFailed(r)
    <3>1. CASE UNCHANGED authority
      BY <2>6, <3>1 DEF PublishFailed
    <3>2. CASE authority' = [authority EXCEPT !.revoked = FALSE]
      BY <2>6, <3>2 DEF PublishFailed
    <3>. QED BY <2>6, <3>1, <3>2 DEF PublishFailed
  <2>7. CASE EnterLogin(r)
    BY <2>7 DEF EnterLogin, Guarded, Current
  <2>. QED BY <1>3, <2>1, <2>2, <2>3, <2>4, <2>5, <2>6, <2>7 DEF Login
<1>4. ASSUME NEW r \in Runtimes, Outcome(r) PROVE FilesOK'
  <2>1. CASE Authenticate(r)
    BY <2>1 DEF Authenticate
  <2>2. CASE AttemptFails(r)
    BY <2>2 DEF AttemptFails
  <2>3. CASE SaveCredential(r)
    BY <2>3 DEF SaveCredential, Guarded, Current
  <2>4. CASE Reject(r)
    BY <2>4 DEF Reject
  <2>5. CASE ClearRejected(r)
    BY <2>5 DEF ClearRejected, Guarded, Current, HasSavedShell, AfterReject
  <2>6. CASE RevokeLocator(r)
    BY <2>6 DEF RevokeLocator, Guarded, Current, AfterReject
  <2>. QED BY <1>4, <2>1, <2>2, <2>3, <2>4, <2>5, <2>6 DEF Outcome
<1>5. ASSUME NEW r \in Runtimes, Persist(r) PROVE FilesOK'
  <2>1. CASE CommitRefused(r)
    BY <2>1 DEF CommitRefused
  <2>2. CASE CommitSkipped(r)
    BY <2>2 DEF CommitSkipped, Guarded, Current
  <2>3. CASE CommitSnapshot(r)
    BY <2>3 DEF CommitSnapshot, CommitLease, Live
  <2>4. CASE CommitMetadata(r)
    <3>1. /\ pc[r] = "pairing" /\ phase[r] # "anonymous"
          /\ lease[r] = authority.gen /\ lease[r] # NULL
      BY <2>4 DEF CommitMetadata
    <3>2. user[r] = owner[authority.gen] /\ (optIn[r].persisted => opted[authority.gen])
      BY <3>1
    <3>3. /\ pc' = Set(pc, r, "idle")
          /\ UNCHANGED <<authority, snapshot, lease, owner, opted, attempt>>
      BY <2>4 DEF CommitMetadata
    <3>4. metadata'.user = user[r] /\ metadata'.saved = optIn[r].persisted
      BY <2>4 DEF CommitMetadata
    <3>. QED BY <3>1, <3>2, <3>3, <3>4
  <2>5. CASE CommitRolledBack(r)
    <3>1. /\ pc[r] = "pairing" /\ phase[r] # "anonymous"
          /\ lease[r] = authority.gen /\ lease[r] # NULL
      BY <2>5 DEF CommitRolledBack
    <3>2. user[r] = owner[authority.gen] /\ (optIn[r].persisted => opted[authority.gen])
      BY <3>1
    <3>3. /\ pc' = Set(pc, r, "idle") /\ snapshot' \in {snapshot, NULL}
          /\ UNCHANGED <<authority, lease, owner, opted, attempt>>
      BY <2>5 DEF CommitRolledBack
    <3>4. CASE UNCHANGED metadata BY <3>1, <3>3, <3>4
    <3>5. CASE metadata' = [user |-> user[r], saved |-> optIn[r].persisted]
      BY <3>1, <3>2, <3>3, <3>5
    <3>. QED BY <2>5, <3>4, <3>5 DEF CommitRolledBack
  <2>6. CASE LiveRead(r)
    BY <2>6 DEF LiveRead
  <2>7. CASE CookieResponse(r)
    BY <2>7 DEF CookieResponse
  <2>. QED BY <1>5, <2>1, <2>2, <2>3, <2>4, <2>5, <2>6, <2>7 DEF Persist
<1>6. ASSUME NEW r \in Runtimes, Renew(r) PROVE FilesOK'
  <2>1. CASE Expire(r)
    BY <2>1 DEF Expire
  <2>2. CASE RequireLogin(r)
    BY <2>2 DEF RequireLogin
  <2>3. CASE BeginRefresh(r)
    BY <2>3 DEF BeginRefresh
  <2>4. CASE ProveCookies(r)
    BY <2>4 DEF ProveCookies
  <2>5. CASE Recover(r)
    BY <2>5 DEF Recover, MayRecover, Guarded, Current, RecoveryAccount, SavedOptIn
  <2>6. CASE RecoverWithoutRecord(r)
    BY <2>6 DEF RecoverWithoutRecord, MayRecover
  <2>. QED BY <1>6, <2>1, <2>2, <2>3, <2>4, <2>5, <2>6 DEF Renew
<1>7. ASSUME NEW r \in Runtimes, End(r) PROVE FilesOK'
  <2>1. CASE Logout(r)
    BY <2>1 DEF Logout, LogoutName, NoOptIn
  <2>2. CASE RevokeSuperseded(r)
    BY <2>2 DEF RevokeSuperseded, Superseded, AfterReject
  <2>3. CASE RevokeTombstone(r)
    BY <2>3 DEF RevokeTombstone, Revoking, Superseded
  <2>4. CASE RevokeFailed(r)
    BY <2>4 DEF RevokeFailed, Superseded, AfterReject
  <2>5. CASE Sweep(r)
    BY <2>5 DEF Sweep, SweepVault, AfterReject
  <2>6. CASE SweepFailed(r)
    BY <2>6 DEF SweepFailed, SweepVault, AfterReject
  <2>7. CASE ForgetCredential(r)
    BY <2>7 DEF ForgetCredential
  <2>. QED BY <1>7, <2>1, <2>2, <2>3, <2>4, <2>5, <2>6, <2>7 DEF End
<1>8. ASSUME NEW r \in Runtimes, Crash(r) PROVE FilesOK'
  BY <1>8 DEF Crash, NoOptIn
<1>9. CASE UNCHANGED vars
  BY <1>9 DEF vars
<1>. QED BY <1>1, <1>2, <1>3, <1>4, <1>5, <1>6, <1>7, <1>8, <1>9 DEF Next

\* The inductive step, put together.
LEMMA NextIInv == IInv /\ [Next]_vars => IInv'
BY TypeStep, StepStep, LockStep, LeaseStep, MemoryStep, FilesStep DEF IInv

\* Every reachable state satisfies the inductive invariant.
THEOREM Invariance == Spec => []IInv
BY InitIInv, NextIInv, PTL DEF Spec

-----------------------------------------------------------------------------
(* The safety properties.                                                  *)

\* The variables keep their types.
THEOREM TypeCorrect == Spec => []TypeOK
<1>1. IInv => TypeOK BY DEF IInv
<1>. QED BY <1>1, Invariance, PTL

\* A restart never reads a snapshot of an earlier generation.
THEOREM SnapshotIsCurrent == Spec => []SnapshotOfLiveGeneration
<1>1. IInv => SnapshotOfLiveGeneration
  BY DEF IInv, FilesOK, SnapshotOfLiveGeneration, Live
<1>. QED BY <1>1, Invariance, PTL

\* A restart never reads the files of another account.
THEOREM FilesAreTheAccounts == Spec => []FilesOfLiveAccount
<1>1. IInv => FilesOfLiveAccount
  BY DEF IInv, FilesOK, FilesOfLiveAccount, Live
<1>. QED BY <1>1, Invariance, PTL

\* A runtime works only for the account of its lease.
THEOREM LeaseIsTheAccounts == Spec => []LeaseBindsAccount
<1>1. IInv => LeaseBindsAccount
  BY DEF IInv, StepOK, MemoryOK, LeaseBindsAccount
<1>. QED BY <1>1, Invariance, PTL

\* Opting out holds for the whole generation.
THEOREM OptOutIsKept == Spec => []OptOutHolds
<1>1. IInv => OptOutHolds
  BY DEF IInv, FilesOK, OptOutHolds, Live
<1>. QED BY <1>1, Invariance, PTL

\* A generation that was signed out without an error stays retired.
THEOREM LogoutIsFinal == Spec => []CleanLogoutIsFinal
<1>1. IInv => CleanLogoutIsFinal
  <2>1. IInv => NULL \notin signedOut
    BY ConstantsAssumption DEF IInv, TypeOK, Gens
  <2>2. IInv => authority.gen \notin signedOut
    BY DEF IInv, TypeOK, LeaseOK, Gens
  <2>. QED BY <2>1, <2>2 DEF CleanLogoutIsFinal, Live
<1>. QED BY <1>1, Invariance, PTL

-----------------------------------------------------------------------------
(* What a step may never do.                                               *)

\* A stale lease becomes current only through the holder's own explicit login.
THEOREM LeaseIsNeverRefreshed == Spec => LeaseNeverRefreshed
<1> DEFINE Refreshed(q) ==
      lease[q] # NULL /\ lease[q] # Live /\ Live' # NULL /\ lease'[q] = Live'
<1>1. ASSUME IInv, [Next]_vars, NEW q \in Runtimes, Refreshed(q)
      PROVE  pc[q] = "cleaned" /\ Live = NULL
  <2> USE ConstantsAssumption DEF IInv, TypeOK, StepOK, LockOK, LeaseOK, Live, Gens, Set,
        durable, memory, Proved, Locked
  <2>1. PICK r \in Runtimes :
          \/ Open(r) \/ Discard(r) \/ Login(r) \/ Outcome(r) \/ Persist(r) \/ Renew(r)
          \/ End(r) \/ Crash(r)
    BY <1>1 DEF Next, vars
  <2>2. CASE Open(r)
    BY <1>1, <2>2 DEF Open, OpenUnreadable, OpenRevoked, OpenAuthorized
  <2>3. CASE Discard(r)
    BY <1>1, <2>3 DEF Discard, DiscardSnapshot, DiscardMetadata
  <2>4. CASE Login(r)
    BY <1>1, <2>4 DEF Login, BeginRefused, BeginLogin, CleanForLogin, CleanFailed,
         PublishLogin, PublishFailed, EnterLogin
  <2>5. CASE Outcome(r)
    BY <1>1, <2>5 DEF Outcome, Authenticate, AttemptFails, SaveCredential, Reject,
         ClearRejected, RevokeLocator
  <2>6. CASE Persist(r)
    BY <1>1, <2>6 DEF Persist, CommitRefused, CommitSkipped, CommitSnapshot, CommitLease,
         CommitMetadata, CommitRolledBack, LiveRead, CookieResponse
  <2>7. CASE Renew(r)
    BY <1>1, <2>7 DEF Renew, Expire, RequireLogin, BeginRefresh, ProveCookies, Recover,
         RecoverWithoutRecord
  <2>8. CASE End(r)
    BY <1>1, <2>8 DEF End, Logout, RevokeSuperseded, RevokeTombstone, RevokeFailed, Sweep,
         SweepFailed, ForgetCredential
  <2>9. CASE Crash(r)
    BY <1>1, <2>9 DEF Crash
  <2>. QED BY <2>1, <2>2, <2>3, <2>4, <2>5, <2>6, <2>7, <2>8, <2>9
<1>2. IInv /\ [Next]_vars =>
        [\A r \in Runtimes :
           lease[r] # NULL /\ lease[r] # Live /\ Live' # NULL /\ lease'[r] = Live' =>
             pc[r] = "cleaned" /\ Live = NULL]_vars
  BY <1>1
<1>. QED BY <1>2, Invariance, PTL DEF Spec, LeaseNeverRefreshed

\* An automatic recovery needs the opt-in of the generation that is live.
THEOREM RecoveryIsOptedIn == Spec => RecoveryNeedsOptIn
<1> DEFINE Started(q) ==
      pc[q] = "idle" /\ phase[q] # "authenticating" /\ phase'[q] = "authenticating"
<1>1. ASSUME IInv, [Next]_vars, NEW q \in Runtimes, Started(q)
      PROVE  Live # NULL /\ opted[Live]
  <2> USE ConstantsAssumption DEF IInv, TypeOK, Set, durable, memory
  <2>1. PICK r \in Runtimes :
          \/ Open(r) \/ Discard(r) \/ Login(r) \/ Outcome(r) \/ Persist(r) \/ Renew(r)
          \/ End(r) \/ Crash(r)
    BY <1>1 DEF Next, vars
  <2>2. CASE Open(r)
    BY <1>1, <2>2 DEF Open, OpenUnreadable, OpenRevoked, OpenAuthorized
  <2>3. CASE Discard(r)
    BY <1>1, <2>3 DEF Discard, DiscardSnapshot, DiscardMetadata
  <2>4. CASE Login(r)
    BY <1>1, <2>4 DEF Login, BeginRefused, BeginLogin, CleanForLogin, CleanFailed,
         PublishLogin, PublishFailed, EnterLogin
  <2>5. CASE Outcome(r)
    BY <1>1, <2>5 DEF Outcome, Authenticate, AttemptFails, SaveCredential, Reject,
         ClearRejected, RevokeLocator
  <2>6. CASE Persist(r)
    BY <1>1, <2>6 DEF Persist, CommitRefused, CommitSkipped, CommitSnapshot,
         CommitMetadata, CommitRolledBack, LiveRead, CookieResponse
  <2>7. CASE Renew(r)
    <3>1. CASE Recover(r)
      <4>1. /\ ~authority.revoked /\ lease[r] = authority.gen
            /\ SavedOptIn(r, RecoveryAccount(r))
        BY <3>1 DEF Recover, MayRecover, Guarded, Current
      <4>2. opted[authority.gen]
        BY <1>1, <3>1, <4>1 DEF MemoryOK, SavedOptIn, Recover, MayRecover, Gens
      <4>3. authority.gen # NULL BY <1>1 DEF Gens
      <4>. QED BY <4>1, <4>2, <4>3 DEF Live
    <3>2. CASE \/ Expire(r) \/ RequireLogin(r) \/ BeginRefresh(r) \/ ProveCookies(r)
               \/ RecoverWithoutRecord(r)
      BY <1>1, <3>2 DEF Expire, RequireLogin, BeginRefresh, ProveCookies,
           RecoverWithoutRecord
    <3>. QED BY <2>7, <3>1, <3>2 DEF Renew
  <2>8. CASE End(r)
    BY <1>1, <2>8 DEF End, Logout, RevokeSuperseded, RevokeTombstone, RevokeFailed, Sweep,
         SweepFailed, ForgetCredential
  <2>9. CASE Crash(r)
    BY <1>1, <2>9 DEF Crash
  <2>. QED BY <2>1, <2>2, <2>3, <2>4, <2>5, <2>6, <2>7, <2>8, <2>9
<1>2. IInv /\ [Next]_vars =>
        [\A r \in Runtimes :
           pc[r] = "idle" /\ phase[r] # "authenticating" /\ phase'[r] = "authenticating" =>
             Live # NULL /\ opted[Live]]_vars
  BY <1>1
<1>. QED BY <1>2, Invariance, PTL DEF Spec, RecoveryNeedsOptIn

-----------------------------------------------------------------------------
(* How far the two comments that the code does not keep are wrong: the     *)
(* runs NewerCredentialKept and LogoutSuppressesFiles show that they are.  *)

\* The record of the account that is signed in is removed under the lease of
\* its login, or by the logout of an earlier login to the same account: a login
\* to another account loses nothing.
RemovedByItsOwnAccount ==
  [][\A r \in Runtimes :
       Live # NULL /\ owner[Live] \in vault \ vault' /\ pc'[r] # pc[r] =>
         \/ lease[r] = Live
         \/ /\ pc[r] \in {"forget", "forgetAfterFailure"}
            /\ lease[r] # NULL /\ owner[lease[r]] = owner[Live]]_vars

\* A logout whose revocation reported no error drops only a lease that is not
\* live any more.
RevokedBeforeDropped ==
  [][\A r \in Runtimes :
       pc[r] = "forget" /\ pc'[r] = "idle" /\ lease[r] # NULL => lease[r] # Live']_vars

\* A step of one runtime leaves the others where they are.
LEMMA OnlyItsOwnStep ==
  ASSUME TypeOK, NEW r \in Runtimes, NEW s \in Runtimes,
         Open(s) \/ Discard(s) \/ Login(s) \/ Outcome(s) \/ Persist(s) \/ Renew(s)
           \/ End(s) \/ Crash(s),
         pc'[r] # pc[r]
  PROVE  s = r
<1> USE DEF Set, TypeOK
<1>1. CASE Open(s) \/ Discard(s)
  BY <1>1 DEF Open, OpenUnreadable, OpenRevoked, OpenAuthorized, Discard, DiscardSnapshot,
       DiscardMetadata
<1>2. CASE Login(s)
  BY <1>2 DEF Login, BeginRefused, BeginLogin, CleanForLogin, CleanFailed, PublishLogin,
       PublishFailed, EnterLogin
<1>3. CASE Outcome(s)
  BY <1>3 DEF Outcome, Authenticate, AttemptFails, SaveCredential, Reject, ClearRejected,
       RevokeLocator, AfterReject
<1>4. CASE Persist(s)
  BY <1>4 DEF Persist, CommitRefused, CommitSkipped, CommitSnapshot, CommitMetadata,
       CommitRolledBack, LiveRead, CookieResponse
<1>5. CASE Renew(s)
  BY <1>5 DEF Renew, Expire, RequireLogin, BeginRefresh, ProveCookies, Recover,
       RecoverWithoutRecord
<1>6. CASE End(s) \/ Crash(s)
  BY <1>6 DEF End, Logout, RevokeSuperseded, RevokeTombstone, RevokeFailed, Sweep,
       SweepFailed, ForgetCredential, AfterReject, Crash
<1>. QED BY <1>1, <1>2, <1>3, <1>4, <1>5, <1>6

\* Six steps write the vault; one only adds a record.
LEMMA VaultSteps ==
  ASSUME NEW r \in Runtimes, TypeOK, LockOK,
         Open(r) \/ Discard(r) \/ Login(r) \/ Outcome(r) \/ Persist(r) \/ Renew(r)
           \/ End(r) \/ Crash(r),
         Live # NULL, ~(vault \subseteq vault')
  PROVE  lease[r] = Live \/ ForgetCredential(r)
<1> USE ConstantsAssumption DEF durable, memory
<1>1. CASE Open(r) \/ Discard(r) \/ Persist(r) \/ Renew(r) \/ Crash(r)
  BY <1>1 DEF Open, OpenUnreadable, OpenRevoked, OpenAuthorized, Discard, DiscardSnapshot,
       DiscardMetadata, Persist, CommitRefused, CommitSkipped, CommitSnapshot,
       CommitMetadata, CommitRolledBack, LiveRead, CookieResponse, Renew, Expire,
       RequireLogin, BeginRefresh, ProveCookies, Recover, RecoverWithoutRecord, Crash
<1>2. CASE Login(r)
  <2>1. EnterLogin(r)
    BY <1>2 DEF Login, BeginRefused, BeginLogin, CleanForLogin, CleanFailed, PublishLogin,
         PublishFailed
  <2>. QED BY <2>1 DEF EnterLogin, Guarded, Current, Live
<1>3. CASE Outcome(r)
  <2>1. ClearRejected(r)
    BY <1>3 DEF Outcome, Authenticate, AttemptFails, SaveCredential, Reject, RevokeLocator
  <2>. QED BY <2>1 DEF ClearRejected, Guarded, Current, Live
<1>4. CASE End(r)
  <2>1. ~Sweep(r) /\ ~SweepFailed(r) BY DEF Sweep, SweepFailed, LockOK, Live
  <2>. QED BY <1>4, <2>1 DEF End, Logout, RevokeSuperseded, RevokeTombstone, RevokeFailed
<1>. QED BY <1>1, <1>2, <1>3, <1>4

\* Only the logout's own account goes with the vault record.
THEOREM RemovalIsTheAccounts == Spec => RemovedByItsOwnAccount
<1>1. ASSUME IInv, [Next]_vars, NEW r \in Runtimes, Live # NULL,
             owner[Live] \in vault \ vault', pc'[r] # pc[r]
      PROVE  \/ lease[r] = Live
             \/ /\ pc[r] \in {"forget", "forgetAfterFailure"}
                /\ lease[r] # NULL /\ owner[lease[r]] = owner[Live]
  <2> USE ConstantsAssumption DEF IInv
  <2>1. PICK s \in Runtimes : Open(s) \/ Discard(s) \/ Login(s) \/ Outcome(s) \/ Persist(s)
                               \/ Renew(s) \/ End(s) \/ Crash(s)
    BY <1>1 DEF Next, vars
  <2>2. s = r BY <1>1, <2>1, OnlyItsOwnStep
  <2>3. lease[r] = Live \/ ForgetCredential(r) BY <1>1, <2>1, <2>2, VaultSteps
  <2>4. CASE ForgetCredential(r)
    <3>1. pc[r] \in {"forget", "forgetAfterFailure"} /\ user[r] = owner[Live]
      BY <1>1, <2>4 DEF ForgetCredential
    <3>2. user[r] # NULL BY <1>1, <3>1 DEF TypeOK
    <3>3. lease[r] # NULL /\ user[r] = owner[lease[r]] BY <1>1, <3>1, <3>2 DEF MemoryOK
    <3>. QED BY <3>1, <3>3
  <2>. QED BY <2>3, <2>4
<1>2. IInv /\ [Next]_vars =>
        [\A r \in Runtimes :
           Live # NULL /\ owner[Live] \in vault \ vault' /\ pc'[r] # pc[r] =>
             \/ lease[r] = Live
             \/ /\ pc[r] \in {"forget", "forgetAfterFailure"}
                /\ lease[r] # NULL /\ owner[lease[r]] = owner[Live]]_vars
  BY <1>1
<1>. QED BY <1>2, Invariance, PTL DEF Spec, RemovedByItsOwnAccount

\* What a successful revocation leaves to the drop of the lease.
THEOREM DropFollowsRevocation == Spec => RevokedBeforeDropped
<1>1. ASSUME IInv, [Next]_vars, NEW r \in Runtimes,
             pc[r] = "forget", pc'[r] = "idle", lease[r] # NULL
      PROVE  lease[r] # Live'
  <2> USE ConstantsAssumption DEF IInv
  <2>1. PICK s \in Runtimes : Open(s) \/ Discard(s) \/ Login(s) \/ Outcome(s) \/ Persist(s)
                               \/ Renew(s) \/ End(s) \/ Crash(s)
    BY <1>1 DEF Next, vars
  <2>2. s = r BY <1>1, <2>1, OnlyItsOwnStep
  <2>3. authority' = authority
    BY <1>1, <2>1, <2>2 DEF Open, OpenUnreadable, OpenRevoked, OpenAuthorized, Discard,
         DiscardSnapshot, DiscardMetadata, Login, BeginRefused, BeginLogin, CleanForLogin,
         CleanFailed, PublishLogin, PublishFailed, EnterLogin, Outcome, Authenticate,
         AttemptFails, SaveCredential, Reject, ClearRejected, RevokeLocator, Persist,
         CommitRefused, CommitSkipped, CommitSnapshot, CommitMetadata, CommitRolledBack,
         LiveRead, CookieResponse, Renew, Expire, RequireLogin, BeginRefresh, ProveCookies,
         Recover, RecoverWithoutRecord, End, Logout, RevokeSuperseded, RevokeTombstone,
         RevokeFailed, Revoking, Sweep, SweepFailed, ForgetCredential, Crash, durable
  <2>4. lease[r] \in Gens /\ lease[r] < authority.gen BY <1>1 DEF TypeOK, LeaseOK
  <2>. QED BY <2>3, <2>4 DEF Live, TypeOK, Gens
<1>2. IInv /\ [Next]_vars =>
        [\A r \in Runtimes :
           pc[r] = "forget" /\ pc'[r] = "idle" /\ lease[r] # NULL => lease[r] # Live']_vars
  BY <1>1
<1>. QED BY <1>2, Invariance, PTL DEF Spec, RevokedBeforeDropped

-----------------------------------------------------------------------------
(* Refinement.                                                             *)

\* The initial states are initial states of Revocation.
LEMMA InitRefines == Init => Authority!Init
BY DEF Init, Authority!Init, Live, Legacy

\* Every step retires, publishes, adopts or drops a generation, or stutters.
LEMMA NextRefines == IInv /\ [Next]_vars => [Authority!Next]_(Authority!vars)
<1> SUFFICES ASSUME IInv, [Next]_vars
             PROVE  Authority!Next \/ UNCHANGED <<authority.gen, Live, lease>>
    BY DEF Authority!vars
<1> USE ConstantsAssumption DEF IInv, TypeOK, Gens, Live, Set, durable, memory
<1>1. ASSUME NEW r \in Runtimes, Open(r)
      PROVE  Authority!Next \/ UNCHANGED <<authority.gen, Live, lease>>
  <2>1. CASE OpenAuthorized(r)
    <3>1. Authority!Adopt(r) BY <2>1 DEF OpenAuthorized, LeaseOK, Authority!Adopt
    <3>. QED BY <3>1 DEF Authority!Next
  <2>2. CASE OpenUnreadable(r) \/ OpenRevoked(r)
    BY <2>2 DEF OpenUnreadable, OpenRevoked
  <2>. QED BY <1>1, <2>1, <2>2 DEF Open
<1>2. ASSUME NEW r \in Runtimes, Discard(r)
      PROVE  UNCHANGED <<authority.gen, Live, lease>>
  BY <1>2 DEF Discard, DiscardSnapshot, DiscardMetadata
<1>3. ASSUME NEW r \in Runtimes, Login(r)
      PROVE  Authority!Next \/ UNCHANGED <<authority.gen, Live, lease>>
  <2>1. ASSUME NEW u \in Users, NEW remember \in BOOLEAN, BeginLogin(r, u, remember)
        PROVE  Authority!Next
    <3>1. Authority!Retire BY <2>1 DEF BeginLogin, Authority!Retire
    <3>. QED BY <3>1 DEF Authority!Next
  <2>2. CASE PublishLogin(r)
    <3>1. Authority!Publish(r) BY <2>2 DEF PublishLogin, LockOK, LeaseOK, Authority!Publish
    <3>. QED BY <3>1 DEF Authority!Next
  <2>3. CASE PublishFailed(r)
    <3>1. CASE UNCHANGED authority
      BY <2>3, <3>1 DEF PublishFailed
    <3>2. CASE authority' = [authority EXCEPT !.revoked = FALSE]
      <4>1. Authority!Publish(r)
        BY <2>3, <3>2 DEF PublishFailed, LockOK, LeaseOK, Authority!Publish
      <4>. QED BY <4>1 DEF Authority!Next
    <3>. QED BY <2>3, <3>1, <3>2 DEF PublishFailed
  <2>4. CASE BeginRefused(r) \/ CleanForLogin(r) \/ CleanFailed(r) \/ EnterLogin(r)
    BY <2>4 DEF BeginRefused, CleanForLogin, CleanFailed, EnterLogin
  <2>. QED BY <1>3, <2>1, <2>2, <2>3, <2>4 DEF Login
<1>4. ASSUME NEW r \in Runtimes, Outcome(r)
      PROVE  UNCHANGED <<authority.gen, Live, lease>>
  BY <1>4 DEF Outcome, Authenticate, AttemptFails, SaveCredential, Reject, ClearRejected,
       RevokeLocator
<1>5. ASSUME NEW r \in Runtimes, Persist(r)
      PROVE  Authority!Next \/ UNCHANGED <<authority.gen, Live, lease>>
  <2>1. CASE CommitSnapshot(r)
    <3>1. CASE lease[r] = NULL
      <4>1. Authority!Adopt(r)
        BY <2>1, <3>1 DEF CommitSnapshot, CommitLease, Authority!Adopt
      <4>. QED BY <4>1 DEF Authority!Next
    <3>2. CASE lease[r] # NULL
      BY <2>1, <3>2 DEF CommitSnapshot, CommitLease
    <3>. QED BY <3>1, <3>2
  <2>2. CASE \/ CommitRefused(r) \/ CommitSkipped(r) \/ CommitMetadata(r)
             \/ CommitRolledBack(r) \/ LiveRead(r) \/ CookieResponse(r)
    BY <2>2 DEF CommitRefused, CommitSkipped, CommitMetadata, CommitRolledBack, LiveRead,
         CookieResponse
  <2>. QED BY <1>5, <2>1, <2>2 DEF Persist
<1>6. ASSUME NEW r \in Runtimes, Renew(r)
      PROVE  UNCHANGED <<authority.gen, Live, lease>>
  BY <1>6 DEF Renew, Expire, RequireLogin, BeginRefresh, ProveCookies, Recover,
       RecoverWithoutRecord
<1>7. ASSUME NEW r \in Runtimes, End(r)
      PROVE  Authority!Next \/ UNCHANGED <<authority.gen, Live, lease>>
  <2>1. CASE RevokeTombstone(r)
    <3>1. Authority!Retire BY <2>1 DEF RevokeTombstone, Authority!Retire
    <3>. QED BY <3>1 DEF Authority!Next
  <2>2. CASE RevokeFailed(r)
    <3>1. CASE UNCHANGED authority
      BY <2>2, <3>1 DEF RevokeFailed
    <3>2. CASE authority' = [gen |-> authority.gen + 1, revoked |-> TRUE]
      <4>1. Authority!Retire BY <2>2, <3>2 DEF RevokeFailed, Authority!Retire
      <4>. QED BY <4>1 DEF Authority!Next
    <3>. QED BY <2>2, <3>1, <3>2 DEF RevokeFailed
  <2>3. CASE ForgetCredential(r)
    <3>1. Authority!Drop(r) BY <2>3 DEF ForgetCredential, Authority!Drop
    <3>. QED BY <3>1 DEF Authority!Next
  <2>4. CASE Logout(r) \/ RevokeSuperseded(r) \/ Sweep(r) \/ SweepFailed(r)
    BY <2>4 DEF Logout, RevokeSuperseded, Sweep, SweepFailed
  <2>. QED BY <1>7, <2>1, <2>2, <2>3, <2>4 DEF End
<1>8. ASSUME NEW r \in Runtimes, Crash(r)
      PROVE  Authority!Next
  <2>1. Authority!Drop(r) BY <1>8 DEF Crash, Authority!Drop
  <2>. QED BY <2>1 DEF Authority!Next
<1>9. CASE UNCHANGED vars
  BY <1>9 DEF vars
<1>. QED BY <1>1, <1>2, <1>3, <1>4, <1>5, <1>6, <1>7, <1>8, <1>9 DEF Next

\* SessionAuthority implements Revocation.
THEOREM Refinement == Spec => ImplementsRevocation
BY InitRefines, NextRefines, Invariance, PTL DEF Spec, ImplementsRevocation, Authority!Spec
=============================================================================
