---------------------- MODULE PortalConnection_proofs ----------------------
(***************************************************************************)
(* The theorems about the network profiles and the portal, for any number  *)
(* of clients, profiles, accounts and addresses.                           *)
(*                                                                         *)
(* The authority to disconnect is tied to what was posted: a target is the *)
(* proven login of its client, and a running login is the one it posted.   *)
(***************************************************************************)
EXTENDS PortalConnection, NetworkProfiles_proofs

\* The target of a client is the login it has proven.
TargetOK ==
  \A c \in Clients : target[c] # NULL =>
    posted[c] = [account |-> target[c].account, address |-> target[c].address,
                 proven |-> TRUE]

\* A login that was posted and not proven yet is the one that runs.
LoginOK ==
  \A c \in Clients : request[c] # NULL /\ request[c].step \in {"login", "online"} =>
    posted[c] = [account |-> request[c].account, address |-> request[c].address,
                 proven |-> FALSE]

\* A request sends a password for its own account.
OwnAccount ==
  \A c \in Clients : request[c] # NULL /\ request[c].password # NULL =>
    request[c].password.username = request[c].account

IInv == ProfileInv /\ TypeOK /\ TargetOK /\ LoginOK /\ OwnAccount

LEMMA InitOK == Init => IInv
<1> SUFFICES ASSUME Init PROVE IInv
  OBVIOUS
<1> USE DEF Init
<1>1. ProfileInv
  BY InitProfiles
<1>2. TypeOK
  BY <1>1 DEF TypeOK, ProfileInv
<1> QED
  BY <1>1, <1>2 DEF IInv, TargetOK, LoginOK, OwnAccount

\* The portal leaves the profiles alone.
LEMMA ProfilesKept ==
  ASSUME IInv, UNCHANGED profileVars
  PROVE  ProfileInv' /\ ProfileTypeOK' /\ phase' = phase
BY ProfileStutterKeeps DEF IInv, ProfileInv, profileVars

-----------------------------------------------------------------------------
(* One lemma for every step on the portal.                                 *)

LEMMA ConnectKeeps ==
  ASSUME IInv, NEW c \in Clients, NEW override \in BOOLEAN, Connect(c, override)
  PROVE  IInv'
<1> DEFINE profile == store[c].profiles[prepared.id]
           password == IF override THEN profile.scope ELSE profile.password
           r == [step |-> "challenge", account |-> profile.scope.username,
                 address |-> address, password |-> password]
<1> USE DEF IInv
<1>0. ProfileInv' /\ ProfileTypeOK' /\ phase' = phase
  BY ProfilesKept DEF Connect
<1>1. /\ profile \in Profiles
      /\ profile.password \in {NULL, profile.scope}
  BY BeforeCommit DEF Connect, BelongsTo, Has
<1>2. r \in Requests /\ (password # NULL => password.username = r.account)
  BY <1>1 DEF Requests, Steps, Accounts, Profiles, TypeOK
<1>3. /\ request' = [request EXCEPT ![c] = r]
      /\ target' = [target EXCEPT ![c] = NULL]
      /\ UNCHANGED <<address, posted>>
      /\ phase[c] = "open"
  BY DEF Connect
<1>4. r.step = "challenge" /\ r.password = password
  OBVIOUS
<1> HIDE DEF r, password, profile
<1>5. TypeOK'
  BY <1>0, <1>2, <1>3 DEF TypeOK
<1>6. TargetOK' /\ LoginOK'
  BY <1>3, <1>4 DEF TypeOK, TargetOK, LoginOK
<1>7. OwnAccount'
  BY <1>2, <1>3, <1>4 DEF TypeOK, OwnAccount
<1> QED
  BY <1>0, <1>5, <1>6, <1>7

LEMMA PostLoginKeeps ==
  ASSUME IInv, NEW c \in Clients, PostLogin(c)
  PROVE  IInv'
<1> USE DEF IInv, PostLogin, Asks, Goes
<1>0. ProfileInv' /\ ProfileTypeOK' /\ phase' = phase
  BY ProfilesKept
<1>1. TypeOK'
  BY <1>0 DEF TypeOK, Requests, Steps, Posts
<1>2. TargetOK' /\ LoginOK'
  <2>1. /\ request[c] \in Requests /\ target[c] = NULL
        /\ request'[c].account = request[c].account
        /\ request'[c].address = request[c].address
        /\ posted'[c] = [account |-> request[c].account, address |-> request[c].address,
                         proven |-> FALSE]
    BY DEF TypeOK, Requests
  <2>2. \A d \in Clients \ {c} : request'[d] = request[d] /\ posted'[d] = posted[d]
    BY DEF TypeOK
  <2>3. target' = target
    OBVIOUS
  <2> HIDE DEF PostLogin
  <2>4. TargetOK'
    BY <2>1, <2>2, <2>3 DEF TargetOK
  <2>5. LoginOK'
    BY <2>1, <2>2 DEF LoginOK
  <2> QED
    BY <2>4, <2>5
<1>3. OwnAccount'
  BY DEF TypeOK, OwnAccount, Requests
<1> QED
  BY <1>0, <1>1, <1>2, <1>3

LEMMA LoginAcceptedKeeps ==
  ASSUME IInv, NEW c \in Clients, LoginAccepted(c)
  PROVE  IInv'
<1> USE DEF IInv, LoginAccepted, Asks, Goes
<1>0. ProfileInv' /\ ProfileTypeOK' /\ phase' = phase
  BY ProfilesKept
<1>1. TypeOK'
  BY <1>0 DEF TypeOK, Requests, Steps
<1>2. TargetOK' /\ LoginOK'
  BY DEF TypeOK, TargetOK, LoginOK, Requests
<1>3. OwnAccount'
  BY DEF TypeOK, OwnAccount, Requests
<1> QED
  BY <1>0, <1>1, <1>2, <1>3

LEMMA OnlineProvenKeeps ==
  ASSUME IInv, NEW c \in Clients, OnlineProven(c)
  PROVE  IInv'
<1> DEFINE t == [account |-> request[c].account, address |-> request[c].address]
           q == [account |-> request[c].account, address |-> request[c].address,
                 proven |-> TRUE]
<1>0. ProfileInv' /\ ProfileTypeOK' /\ phase' = phase
  BY ProfilesKept DEF OnlineProven
<1>1. /\ request[c] # NULL /\ request[c] \in Requests /\ t \in Targets /\ q \in Posts
      /\ posted[c] = [account |-> request[c].account, address |-> request[c].address,
                      proven |-> FALSE]
  BY DEF OnlineProven, Asks, IInv, TypeOK, LoginOK, Requests, Targets, Posts
<1>2. [posted[c] EXCEPT !.proven = TRUE] = q
  <2> DEFINE p == posted[c]
             r == [p EXCEPT !.proven = TRUE]
  <2>1. p \in Posts /\ p.account = request[c].account /\ p.address = request[c].address
    BY <1>1 DEF Posts, Requests
  <2> HIDE DEF p
  <2>2. /\ r \in Posts /\ r.proven = TRUE
        /\ r.account = request[c].account /\ r.address = request[c].address
    BY <2>1 DEF Posts
  <2> HIDE DEF r
  <2>3. r = q
    BY <2>2 DEF Posts
  <2> QED
    BY <2>3 DEF r, p
<1>3. posted' = [posted EXCEPT ![c] = q]
  BY <1>2 DEF OnlineProven
<1>4. /\ target' = [target EXCEPT ![c] = t]
      /\ request' = [request EXCEPT ![c] = NULL]
      /\ UNCHANGED address
  BY DEF OnlineProven
<1>5. q = [account |-> t.account, address |-> t.address, proven |-> TRUE]
  OBVIOUS
<1> HIDE DEF q, t
<1>6. TypeOK'
  BY <1>0, <1>1, <1>3, <1>4 DEF IInv, TypeOK
<1>7. TargetOK' /\ LoginOK' /\ OwnAccount'
  BY <1>3, <1>4, <1>5 DEF IInv, TypeOK, TargetOK, LoginOK, OwnAccount
<1> QED
  BY <1>0, <1>6, <1>7 DEF IInv

LEMMA ReadStatusKeeps ==
  ASSUME IInv, NEW c \in Clients, ReadStatus(c)
  PROVE  IInv'
<1> USE DEF IInv, ReadStatus
<1>0. ProfileInv' /\ ProfileTypeOK' /\ phase' = phase
  BY ProfilesKept
<1>1. target' = target \/ target' = [target EXCEPT ![c] = NULL]
  OBVIOUS
<1>2. TypeOK'
  BY <1>0, <1>1 DEF TypeOK
<1>3. TargetOK' /\ LoginOK' /\ OwnAccount'
  BY <1>1 DEF TypeOK, TargetOK, LoginOK, OwnAccount
<1> QED
  BY <1>0, <1>2, <1>3

LEMMA DisconnectKeeps ==
  ASSUME IInv, NEW c \in Clients, Disconnect(c)
  PROVE  IInv'
<1> USE DEF IInv, Disconnect, Quiet
<1>0. ProfileInv' /\ ProfileTypeOK' /\ phase' = phase
  BY ProfilesKept
<1>1. TypeOK'
  BY <1>0 DEF TypeOK, Requests, Steps, Targets
<1>2. TargetOK' /\ LoginOK'
  <2>1. target'[c] = NULL /\ \A d \in Clients \ {c} : target'[d] = target[d]
    BY DEF TypeOK
  <2>2. \/ request' = request /\ posted' = posted
        \/ /\ request'[c].step = "logout"
           /\ \A d \in Clients \ {c} : request'[d] = request[d] /\ posted'[d] = posted[d]
    BY DEF TypeOK
  <2> QED
    BY <2>1, <2>2 DEF TargetOK, LoginOK
<1>3. OwnAccount'
  BY DEF TypeOK, OwnAccount
<1> QED
  BY <1>0, <1>1, <1>2, <1>3

LEMMA LogoutAcceptedKeeps ==
  ASSUME IInv, NEW c \in Clients, LogoutAccepted(c)
  PROVE  IInv'
<1> USE DEF IInv, LogoutAccepted, Asks, Goes
<1>0. ProfileInv' /\ ProfileTypeOK' /\ phase' = phase
  BY ProfilesKept
<1>1. TypeOK'
  BY <1>0 DEF TypeOK, Requests, Steps
<1>2. TargetOK' /\ LoginOK'
  BY DEF TypeOK, TargetOK, LoginOK, Requests
<1>3. OwnAccount'
  BY DEF TypeOK, OwnAccount, Requests
<1> QED
  BY <1>0, <1>1, <1>2, <1>3

LEMMA RequestEndsKeeps ==
  ASSUME IInv, NEW c \in Clients, RequestEnds(c)
  PROVE  IInv'
<1> USE DEF IInv, RequestEnds
<1>0. ProfileInv' /\ ProfileTypeOK' /\ phase' = phase
  BY ProfilesKept
<1> QED
  BY <1>0 DEF TypeOK, TargetOK, LoginOK, OwnAccount

LEMMA ForgetTargetKeeps ==
  ASSUME IInv, NEW c \in Clients, ForgetTarget(c)
  PROVE  IInv'
<1> USE DEF IInv, ForgetTarget
<1>0. ProfileInv' /\ ProfileTypeOK' /\ phase' = phase
  BY ProfilesKept
<1> QED
  BY <1>0 DEF TypeOK, TargetOK, LoginOK, OwnAccount

-----------------------------------------------------------------------------
(* The machine, and the steps of the profile store.                        *)

LEMMA EndsKeeps ==
  ASSUME IInv, NEW c \in Clients, Ends(c)
  PROVE  IInv'
<1> USE DEF IInv, Ends
<1>0. ProfileInv' /\ ProfileTypeOK' /\ \A d \in Clients \ {c} : phase'[d] = phase[d]
  BY CloseKeeps DEF ProfileInv, ProfileTypeOK, Close
<1> QED
  BY <1>0 DEF TypeOK, TargetOK, LoginOK, OwnAccount

LEMMA PowerFailsKeeps ==
  ASSUME IInv, PowerFails
  PROVE  IInv'
<1> USE DEF IInv, PowerFails
<1>0. ProfileInv' /\ ProfileTypeOK'
  BY PowerFailureKeeps DEF ProfileInv
<1> QED
  BY <1>0 DEF TypeOK, TargetOK, LoginOK, OwnAccount

LEMMA AddressChangesKeeps ==
  ASSUME IInv, AddressChanges
  PROVE  IInv'
<1> USE DEF IInv, AddressChanges
<1>0. ProfileInv' /\ ProfileTypeOK' /\ phase' = phase
  BY ProfilesKept
<1> QED
  BY <1>0 DEF TypeOK, TargetOK, LoginOK, OwnAccount

LEMMA StutterKeeps ==
  ASSUME IInv, UNCHANGED vars
  PROVE  IInv'
<1> USE DEF IInv, vars, portalVars
<1>0. ProfileInv' /\ ProfileTypeOK' /\ phase' = phase
  BY ProfilesKept
<1> QED
  BY <1>0 DEF TypeOK, TargetOK, LoginOK, OwnAccount

\* A client that has no request changes only its own phase.
LEMMA ProfileStepOfClient ==
  ASSUME IInv, NEW c \in Clients, Quiet(c), ProfileStep(c), UNCHANGED portalVars
  PROVE  IInv'
<1> USE DEF IInv
<1>0. ProfileInv' /\ ProfileTypeOK'
  BY ProfileStepKeeps DEF ProfileInv
<1>1. \A d \in Clients \ {c} : phase'[d] = phase[d]
  <2> USE DEF Refused, Acknowledged, TypeOK, ProfileTypeOK
  <2>1. \A f : Commit(c, f) => \A d \in Clients \ {c} : phase'[d] = phase[d]
    BY DEF Commit
  <2>2. ASSUME NEW id \in Ids,
               \/ Delete(c, id) \/ PrepareFill(c, id)
               \/ \E scope \in Scopes, password \in Scopes \cup {NULL} :
                    Save(c, id, scope, password) \/ Update(c, id, scope, password)
        PROVE  \A d \in Clients \ {c} : phase'[d] = phase[d]
    BY <2>1, <2>2 DEF Save, Update, Delete, PrepareFill
  <2>3. CASE \/ \E persist \in BOOLEAN : Open(c, persist)
             \/ WriteFails(c) \/ Rename(c) \/ PermitFails(c) \/ Finish(c)
    BY <2>3 DEF Open, WriteFails, Rename, PermitFails, Finish
  <2> QED
    BY <2>2, <2>3 DEF ProfileStep
<1> QED
  BY <1>0, <1>1 DEF TypeOK, TargetOK, LoginOK, OwnAccount, portalVars, Quiet

LEMMA NextKeeps ==
  ASSUME IInv, [Next]_vars
  PROVE  IInv'
<1>1. ASSUME NEW c \in Clients, PortalStep(c) PROVE IInv'
  BY <1>1, ConnectKeeps, PostLoginKeeps, LoginAcceptedKeeps, OnlineProvenKeeps,
     ReadStatusKeeps, DisconnectKeeps, LogoutAcceptedKeeps, RequestEndsKeeps,
     ForgetTargetKeeps DEF PortalStep
<1> QED
  BY <1>1, ProfileStepOfClient, EndsKeeps, AddressChangesKeeps, PowerFailsKeeps,
     StutterKeeps DEF Next

-----------------------------------------------------------------------------
(* The theorems.                                                           *)

\* The inductive invariant holds.
THEOREM Invariance == Spec => []IInv
<1>1. IInv /\ [Next]_vars => IInv'
  BY NextKeeps
<1> QED
  BY InitOK, <1>1, PTL DEF Spec

\* Types, and no target beside a request: open, commit and the steps of a
\* login in client.rs and the runtime.
THEOREM PortalTypeCorrect == Spec => []TypeOK
<1>1. IInv => TypeOK
  BY DEF IInv
<1> QED
  BY Invariance, <1>1, PTL

\* The memory of the holder of the lock is the file or one commit behind it,
\* which is running or was reported as failed (NetworkProfileStore::commit).
THEOREM MemoryIsBehindFile == Spec => []MemoryBehindFile
<1>1. IInv => MemoryBehindFile
  BY DEF IInv, ProfileInv
<1> QED
  BY Invariance, <1>1, PTL

\* A removed profile stays removed over commits, failures and ends of processes
\* (NetworkProfilesClient::delete, atomic_write).
THEOREM DeletedProfilesStayDeleted == Spec => []DeletedStaysDeleted
<1>1. IInv => DeletedStaysDeleted
  BY DEF IInv, ProfileInv
<1> QED
  BY Invariance, <1>1, PTL

\* What may undo an acknowledged deletion: a power failure, while a rename may
\* not have reached the disk (atomic_write ignores a directory sync that fails).
\* No commit, failure, restart or end of a process does.
DeletionsHold == [][gone \subseteq gone' \/ (PowerFails /\ kept # {file})]_vars

THEOREM OnlyPowerFailuresUndoDeletions == Spec => DeletionsHold
<1>1. ASSUME IInv, Next PROVE gone \subseteq gone' \/ (PowerFails /\ kept # {file})
  <2> USE DEF IInv, ProfileInv, ProfileTypeOK
  <2>1. CASE PowerFails
    <3>1. kept = {file} => gone' = gone \ DOMAIN file.profiles
      BY <2>1 DEF PowerFails, PowerFailure
    <3>2. gone \cap DOMAIN file.profiles = {}
      BY <1>1 DEF DeletedStaysDeleted, Has
    <3> QED
      BY <2>1, <3>1, <3>2
  <2>2. ASSUME NEW c \in Clients, ProfileStep(c), ~UNCHANGED gone
        PROVE  gone \subseteq gone'
    <3>1. \A f : Commit(c, f) => UNCHANGED gone
      BY DEF Commit, Refused, Acknowledged
    <3>2. Finish(c)
      BY <2>2, <3>1 DEF ProfileStep, Open, WriteFails, Refused, Rename, PermitFails, Save,
         Update, Delete, PrepareFill
    <3>3. persistent[c] /\ Holds(c)
      BY <2>2, <3>2 DEF Finish, Acknowledged, Holds
    <3>4. gone' = issued \ DOMAIN proposed[c].profiles
      BY <3>2, <3>3 DEF Finish, Acknowledged
    <3>5. gone \cap DOMAIN proposed[c].profiles = {}
      BY <1>1, <3>3 DEF DeletedStaysDeleted, Has
    <3> QED
      BY <1>1, <3>4, <3>5
  <2>3. ASSUME NEW c \in Clients, PortalStep(c) \/ Ends(c) PROVE UNCHANGED gone
    BY <2>3 DEF PortalStep, Connect, PostLogin, LoginAccepted, OnlineProven, ReadStatus,
       Disconnect, LogoutAccepted, RequestEnds, ForgetTarget, Ends, Close, profileVars
  <2>4. AddressChanges => UNCHANGED gone
    BY DEF AddressChanges, profileVars
  <2> QED
    BY <1>1, <2>1, <2>2, <2>3, <2>4 DEF Next
<1> QED
  BY Invariance, <1>1, PTL DEF Spec, DeletionsHold

\* An accepted prepared value is the profile the user saw
\* (PreparedNetworkInput::belongs_to).
THEOREM PreparedInputBinds == Spec => []PreparedBinds
<1>1. IInv => PreparedBinds
  BY PreparedValuesBind DEF IInv
<1> QED
  BY Invariance, <1>1, PTL

\* A password goes with its own account only, in stores, files and logins
\* (NetworkProfilesClient::update, connect_portal_profile).
THEOREM PasswordsGoToTheirAccount == Spec => []PasswordsToTheirAccount
<1>1. IInv => PasswordsToTheirAccount
  BY DEF IInv, ProfileInv, OwnAccount, PasswordsToTheirAccount
<1> QED
  BY Invariance, <1>1, PTL

\* A logout is sent for the last login that was posted and proven, once
\* (disconnect_tunet, login_tunet).
THEOREM LogoutIsOfLastLogin == Spec => LogoutOfLastLogin
<1> DEFINE Sent(c) ==
      request'[c] # request[c] /\ request'[c] # NULL /\ request'[c].step = "logout" =>
        posted[c] = [account |-> request'[c].account, address |-> request'[c].address,
                     proven |-> TRUE]
<1>1. ASSUME IInv, [Next]_vars PROVE \A c \in Clients : Sent(c)
  <2> SUFFICES ASSUME NEW c \in Clients, request'[c] # request[c], request'[c] # NULL,
                      request'[c].step = "logout"
               PROVE  posted[c] = [account |-> request'[c].account,
                                   address |-> request'[c].address, proven |-> TRUE]
    OBVIOUS
  <2>1. request \in [Clients -> Requests \cup {NULL}]
    BY <1>1 DEF IInv, TypeOK
  <2>2. ~(\E d \in Clients : Ends(d)) /\ ~PowerFails /\ ~AddressChanges /\ ~UNCHANGED vars
    BY <2>1 DEF Ends, PowerFails, AddressChanges, vars, portalVars
  <2>3. PICK d \in Clients : PortalStep(d)
    BY <1>1, <2>2 DEF Next, portalVars
  <2>4. ~(\E override \in BOOLEAN : Connect(d, override))
    BY <2>1 DEF Connect
  <2>5. ~PostLogin(d) /\ ~LoginAccepted(d) /\ ~LogoutAccepted(d)
    BY <2>1 DEF PostLogin, LoginAccepted, LogoutAccepted, Asks, Goes, Requests
  <2>6. ~OnlineProven(d) /\ ~ReadStatus(d) /\ ~RequestEnds(d) /\ ~ForgetTarget(d)
    BY <2>1 DEF OnlineProven, ReadStatus, RequestEnds, ForgetTarget
  <2>7. Disconnect(d) /\ d = c
    BY <2>1, <2>3, <2>4, <2>5, <2>6 DEF PortalStep, Disconnect
  <2> QED
    BY <1>1, <2>1, <2>7 DEF IInv, TargetOK, Disconnect
<1> QED
  BY Invariance, <1>1, PTL DEF Spec, LogoutOfLastLogin

=============================================================================
