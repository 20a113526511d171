-------------------------- MODULE PortalConnection --------------------------
(***************************************************************************)
(* The campus network portal (TUNet) of an SDK client: connecting a saved  *)
(* profile, reading the state of the address, and the disconnect, which is *)
(* allowed only for the connection this process has proven                 *)
(* (client.rs, tunet_client.rs and login_tunet, load_tunet_status and      *)
(* disconnect_tunet of the runtime).                                       *)
(*                                                                         *)
(* A client is used through &mut: one call at a time.  A call is cut at    *)
(* its awaits, where its future may be dropped and the address of the      *)
(* machine may change.  The portal answers as it likes.                    *)
(***************************************************************************)
EXTENDS NetworkProfiles

CONSTANT Addresses   \* the IPv4 addresses the machine can have

VARIABLES
  address,  \* the address of the machine
  target,   \* tunet_connection_target of every client
  request,  \* what the portal is being asked for a client
  posted    \* the last login a client posted and did not log out again

portalVars == <<address, target, request, posted>>
vars == <<profileVars, portalVars>>

Accounts == {s.username : s \in Scopes}
Targets == [account : Accounts, address : Addresses]
Steps == {"challenge", "login", "online", "logout", "offline"}
Requests ==
  [step : Steps, account : Accounts, address : Addresses, password : Scopes \cup {NULL}]
Posts == [account : Accounts, address : Addresses, proven : BOOLEAN]

Quiet(c) == request[c] = NULL
Asks(c, step) == request[c] # NULL /\ request[c].step = step
Goes(c, step) == request' = [request EXCEPT ![c].step = step]

-----------------------------------------------------------------------------
(* Connecting a prepared profile.                                          *)

\* Mutant: a new attempt leaves the earlier target.
ConnectKeepsTarget(c, override) ==
  LET profile == store[c].profiles[prepared.id] IN
  /\ phase[c] = "open" /\ Quiet(c)
  /\ prepared # NULL /\ BelongsTo(prepared, c)
  /\ profile.scope.method = "portal"
  /\ override \/ profile.password # NULL
  /\ request' = [request EXCEPT ![c] =
       [step |-> "challenge", account |-> profile.scope.username, address |-> address,
        password |-> IF override THEN profile.scope ELSE profile.password]]
  /\ UNCHANGED <<profileVars, address, posted, target>>

\* connect_portal_profile and login_tunet: the target of an earlier login is
\* given up before anything is sent.  The password is the saved one or given
\* for this attempt.
Connect(c, override) ==
  LET profile == store[c].profiles[prepared.id] IN
  /\ phase[c] = "open" /\ Quiet(c)
  /\ prepared # NULL /\ BelongsTo(prepared, c)
  /\ profile.scope.method = "portal"
  /\ override \/ profile.password # NULL
  /\ target' = [target EXCEPT ![c] = NULL]
  /\ request' = [request EXCEPT ![c] =
       [step |-> "challenge", account |-> profile.scope.username, address |-> address,
        password |-> IF override THEN profile.scope ELSE profile.password]]
  /\ UNCHANGED <<profileVars, address, posted>>

\* The challenge is answered and the login posted.
PostLogin(c) ==
  /\ Asks(c, "challenge")
  /\ Goes(c, "login")
  /\ posted' = [posted EXCEPT ![c] =
       [account |-> request[c].account, address |-> request[c].address, proven |-> FALSE]]
  /\ UNCHANGED <<profileVars, address, target>>

\* The portal acknowledges the login; its state is read next.
LoginAccepted(c) ==
  /\ Asks(c, "login")
  /\ Goes(c, "online")
  /\ UNCHANGED <<profileVars, address, target, posted>>

\* The address is online, for this account if one is named.
OnlineProven(c) ==
  /\ Asks(c, "online")
  /\ target' = [target EXCEPT ![c] =
       [account |-> request[c].account, address |-> request[c].address]]
  /\ posted' = [posted EXCEPT ![c].proven = TRUE]
  /\ request' = [request EXCEPT ![c] = NULL]
  /\ UNCHANGED <<profileVars, address>>

-----------------------------------------------------------------------------
(* The state of the address, and the disconnect.                           *)

\* load_tunet_status: another address ends the authority to disconnect, an
\* answer that denies the connection does too, an unclear one does not.
ReadStatus(c) ==
  /\ phase[c] = "open" /\ Quiet(c)
  /\ target[c] # NULL
  /\ target' \in {[target EXCEPT ![c] = NULL]} \cup
                 {t \in {target} : target[c].address = address}
  /\ UNCHANGED <<profileVars, address, request, posted>>

\* disconnect_tunet: the target is taken before the one-shot request.
Disconnect(c) ==
  /\ phase[c] = "open" /\ Quiet(c)
  /\ target[c] # NULL
  /\ target' = [target EXCEPT ![c] = NULL]
  /\ IF target[c].address # address
     THEN UNCHANGED <<request, posted>>
     ELSE /\ request' = [request EXCEPT ![c] =
               [step |-> "logout", account |-> target[c].account,
                address |-> target[c].address, password |-> NULL]]
          /\ posted' = [posted EXCEPT ![c] = NULL]
  /\ UNCHANGED <<profileVars, address>>

LogoutAccepted(c) ==
  /\ Asks(c, "logout")
  /\ Goes(c, "offline")
  /\ UNCHANGED <<profileVars, address, target, posted>>

\* The proof that the address is offline, any refusal, mismatch or error, or
\* the caller dropping the future: nothing is installed.
RequestEnds(c) ==
  /\ ~Quiet(c)
  /\ request' = [request EXCEPT ![c] = NULL]
  /\ UNCHANGED <<profileVars, address, target, posted>>

\* reset_sessions of a login or logout of the campus account.
ForgetTarget(c) ==
  /\ phase[c] = "open" /\ Quiet(c)
  /\ target[c] # NULL
  /\ target' = [target EXCEPT ![c] = NULL]
  /\ UNCHANGED <<profileVars, address, request, posted>>

-----------------------------------------------------------------------------
(* The machine.                                                            *)

AddressChanges ==
  /\ address' \in Addresses \ {address}
  /\ UNCHANGED <<profileVars, target, request, posted>>

Ends(c) ==
  /\ Close(c)
  /\ target' = [target EXCEPT ![c] = NULL]
  /\ request' = [request EXCEPT ![c] = NULL]
  /\ posted' = [posted EXCEPT ![c] = NULL]
  /\ UNCHANGED address

PowerFails ==
  /\ PowerFailure
  /\ target' = [c \in Clients |-> NULL]
  /\ request' = [c \in Clients |-> NULL]
  /\ posted' = [c \in Clients |-> NULL]
  /\ UNCHANGED address

-----------------------------------------------------------------------------

Init ==
  /\ ProfileInit
  /\ address \in Addresses
  /\ target = [c \in Clients |-> NULL]
  /\ request = [c \in Clients |-> NULL]
  /\ posted = [c \in Clients |-> NULL]

PortalStep(c) ==
  \/ \E override \in BOOLEAN : Connect(c, override)
  \/ PostLogin(c) \/ LoginAccepted(c) \/ OnlineProven(c)
  \/ ReadStatus(c)
  \/ Disconnect(c) \/ LogoutAccepted(c) \/ RequestEnds(c) \/ ForgetTarget(c)

Next ==
  \/ \E c \in Clients :
       \/ Quiet(c) /\ ProfileStep(c) /\ UNCHANGED portalVars
       \/ PortalStep(c)
       \/ Ends(c)
  \/ AddressChanges
  \/ PowerFails

Spec == Init /\ [][Next]_vars

-----------------------------------------------------------------------------
(* Properties.                                                             *)

\* Types; a request runs only in an open client, which has no target then.
TypeOK ==
  /\ ProfileTypeOK
  /\ address \in Addresses
  /\ target \in [Clients -> Targets \cup {NULL}]
  /\ request \in [Clients -> Requests \cup {NULL}]
  /\ posted \in [Clients -> Posts \cup {NULL}]
  /\ \A c \in Clients : request[c] # NULL => phase[c] = "open" /\ target[c] = NULL

\* "so an interrupted/unclear result cannot silently replay it", and "the old
\* target must not be reused": a logout is sent only for the last login this
\* process has posted, proven online, and once for every login.
LogoutOfLastLogin ==
  [][\A c \in Clients :
       request'[c] # request[c] /\ request'[c] # NULL /\ request'[c].step = "logout" =>
         posted[c] = [account |-> request'[c].account, address |-> request'[c].address,
                      proven |-> TRUE]]_vars

\* No account's password is sent for another account: profiles keep only their
\* own passwords, in memory, in every file and over every update, and a login
\* sends the password of the account it names.
PasswordsToTheirAccount ==
  /\ PasswordsBound
  /\ \A c \in Clients : request[c] # NULL /\ request[c].password # NULL =>
       request[c].password.username = request[c].account

=============================================================================
