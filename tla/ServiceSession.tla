--------------------------- MODULE ServiceSession ---------------------------
(***************************************************************************)
(* The session machine of one service and the one-time claims of the       *)
(* tickets bound for it.                                                   *)
(*                                                                         *)
(* The machine is used through &mut, so its transitions do not overlap.  A *)
(* bound ticket can be cloned and sent to other threads: all its clones,   *)
(* the machine's included, share one atomic flag, its lease.  A clone only *)
(* touches the flag, and a transition touches it once, so a transition is  *)
(* one step.  A rejected transition changes nothing and is no step.        *)
(***************************************************************************)
EXTENDS Naturals

CONSTANTS
  Service,    \* the service of the machine
  Services,   \* ServiceId
  Users,      \* user names that are not blank
  Tickets,    \* bindings of a ticket, each with a lease of its own
  NULL        \* None

ASSUME SessionAssumption ==
  /\ Service \in Services
  /\ NULL \notin Services \cup Users \cup Tickets

VARIABLES
  session,    \* ServiceSession: state, user, ticket, csrf and second factor
  boundFor,   \* the service a ticket was bound for, NULL before bind_ticket
  attempted,  \* TicketLease.attempted
  held,       \* tickets of which someone outside the machine has a clone
  claims,     \* history: outbound forms handed out for a ticket
  installed   \* history: tickets an authenticated session was given

vars == <<session, boundFor, attempted, held, claims, installed>>

States == {"anonymous", "authenticating", "second_factor", "authenticated", "expired"}

\* `csrf` is the service a token was bound for; a challenge is there or not.
\* An authenticated session knows its user, a pending second factor its
\* challenge.
Sessions ==
  {s \in [state : States, user : Users \cup {NULL}, ticket : Tickets \cup {NULL},
          csrf : Services \cup {NULL}, challenge : BOOLEAN] :
     /\ s.state = "authenticated" => s.user # NULL
     /\ s.challenge <=> s.state = "second_factor"}

Fresh(state) ==
  [state |-> state, user |-> NULL, ticket |-> NULL, csrf |-> NULL, challenge |-> FALSE]

\* clear_ticket: the lease of the machine's ticket is invalidated.
Invalidated ==
  [t \in Tickets |-> attempted[t] \/ t = session.ticket]

-----------------------------------------------------------------------------
(* Bound tickets and their clones.                                         *)

\* A ticket of a response is bound by the machine of the service it is for.
BindTicket(t, s) ==
  /\ boundFor[t] = NULL
  /\ boundFor' = [boundFor EXCEPT ![t] = s]
  /\ held' = held \cup {t}
  /\ UNCHANGED <<session, attempted, claims, installed>>

\* Mutant: the flag is looked at but not taken.
ClaimUnmarked(t) ==
  /\ t \in held
  /\ ~attempted[t]
  /\ claims' = [claims EXCEPT ![t] = @ + 1]
  /\ UNCHANGED <<session, boundFor, attempted, held, installed>>

\* BoundServiceTicket::claim, by whoever has a clone.
Claim(t) ==
  /\ t \in held
  /\ ~attempted[t]
  /\ attempted' = [attempted EXCEPT ![t] = TRUE]
  /\ claims' = [claims EXCEPT ![t] = @ + 1]
  /\ UNCHANGED <<session, boundFor, held, installed>>

\* The raw ticket is taken out of one clone and ends the others.
IntoTicket(t) ==
  /\ t \in held
  /\ attempted' = [attempted EXCEPT ![t] = TRUE]
  /\ UNCHANGED <<session, boundFor, held, claims, installed>>

DropClones(t) ==
  /\ t \in held
  /\ held' = held \ {t}
  /\ UNCHANGED <<session, boundFor, attempted, claims, installed>>

\* Another clone of the machine's ticket, while it is available.
BoundTicket ==
  /\ session.ticket # NULL /\ ~attempted[session.ticket]
  /\ held' = held \cup {session.ticket}
  /\ UNCHANGED <<session, boundFor, attempted, claims, installed>>

\* The ticket leaves the machine, also when a clone was claimed before.
ClaimTicket ==
  /\ session.ticket # NULL
  /\ session' = [session EXCEPT !.ticket = NULL]
  /\ LET t == session.ticket IN
       IF attempted[t] THEN UNCHANGED <<attempted, claims>>
       ELSE /\ attempted' = [attempted EXCEPT ![t] = TRUE]
            /\ claims' = [claims EXCEPT ![t] = @ + 1]
  /\ UNCHANGED <<boundFor, held, installed>>

-----------------------------------------------------------------------------
(* The transitions.                                                        *)

\* Authentication and re-authentication.
BeginAuthentication ==
  /\ session.state # "authenticating"
  /\ attempted' = Invalidated
  /\ session' = Fresh("authenticating")
  /\ UNCHANGED <<boundFor, held, claims, installed>>

\* The primary response may name the user or leave that to the second one.
RequireSecondFactor(u) ==
  /\ session.state = "authenticating"
  /\ attempted' = Invalidated
  /\ session' = [Fresh("second_factor") EXCEPT !.user = u, !.challenge = TRUE]
  /\ UNCHANGED <<boundFor, held, claims, installed>>

\* Mutant: credentials of another service are accepted.
BindsAnything(t, c) == TRUE

\* validate_credentials
Binds(t, c) ==
  /\ t # NULL => boundFor[t] = Service
  /\ c # NULL => c = Service

\* install_authenticated: a ticket is moved in with its lease as it is.
Install(u, t, c) ==
  /\ t \in held \cup {NULL}
  /\ Binds(t, c)
  /\ attempted' = Invalidated
  /\ session' = [Fresh("authenticated") EXCEPT !.user = u, !.ticket = t, !.csrf = c]
  /\ installed' = installed \cup ({t} \ {NULL})
  /\ UNCHANGED <<boundFor, held, claims>>

AuthenticationSucceeded(u, t, c) ==
  /\ session.state = "authenticating"
  /\ Install(u, t, c)

\* The user of this response, or else the one of the primary response.
SecondFactorSucceeded(u, t, c) ==
  /\ session.state = "second_factor" /\ session.challenge
  /\ \E named \in Users :
       /\ named = IF u # NULL THEN u ELSE session.user
       /\ Install(named, t, c)

RefreshAuthenticatedCsrf(c) ==
  /\ session.state = "authenticated"
  /\ Binds(NULL, c)
  /\ session' = [session EXCEPT !.csrf = c]
  /\ UNCHANGED <<boundFor, attempted, held, claims, installed>>

CancelAuthentication ==
  /\ session.state \in {"authenticating", "second_factor"}
  /\ attempted' = Invalidated
  /\ session' = Fresh("anonymous")
  /\ UNCHANGED <<boundFor, held, claims, installed>>

\* Mutant: the ticket is forgotten, its lease lives on in the clones.
ExpireForgetting ==
  /\ session.state \in {"authenticating", "second_factor", "authenticated"}
  /\ session' = [Fresh("expired") EXCEPT !.user = session.user]
  /\ UNCHANGED <<boundFor, attempted, held, claims, installed>>

\* Asked for, or by expire_if_due once the session's or challenge's deadline
\* passed: the account stays known.
Expire ==
  /\ session.state \in {"authenticating", "second_factor", "authenticated"}
  /\ attempted' = Invalidated
  /\ session' = [Fresh("expired") EXCEPT !.user = session.user]
  /\ UNCHANGED <<boundFor, held, claims, installed>>

Logout ==
  /\ session.state # "anonymous"
  /\ attempted' = Invalidated
  /\ session' = Fresh("anonymous")
  /\ UNCHANGED <<boundFor, held, claims, installed>>

-----------------------------------------------------------------------------
Init ==
  /\ session = Fresh("anonymous")
  /\ boundFor = [t \in Tickets |-> NULL]
  /\ attempted = [t \in Tickets |-> FALSE]
  /\ held = {}
  /\ claims = [t \in Tickets |-> 0]
  /\ installed = {}

Handle(t) ==
  \/ \E s \in Services : BindTicket(t, s)
  \/ Claim(t)
  \/ IntoTicket(t)
  \/ DropClones(t)

Succeed(t, c) ==
  \/ \E u \in Users : AuthenticationSucceeded(u, t, c)
  \/ \E u \in Users \cup {NULL} : SecondFactorSucceeded(u, t, c)

Next ==
  \/ \E t \in Tickets : Handle(t)
  \/ BoundTicket
  \/ ClaimTicket
  \/ BeginAuthentication
  \/ \E u \in Users \cup {NULL} : RequireSecondFactor(u)
  \/ \E t \in Tickets \cup {NULL}, c \in Services \cup {NULL} : Succeed(t, c)
  \/ \E c \in Services : RefreshAuthenticatedCsrf(c)
  \/ CancelAuthentication
  \/ Expire
  \/ Logout

Spec == Init /\ [][Next]_vars

-----------------------------------------------------------------------------
TypeOK ==
  /\ session \in Sessions
  /\ boundFor \in [Tickets -> Services \cup {NULL}]
  /\ attempted \in [Tickets -> BOOLEAN]
  /\ held \subseteq Tickets
  /\ claims \in [Tickets -> Nat]
  /\ installed \subseteq Tickets

\* "Clones share the same one-time claim state": whoever races for a ticket,
\* the machine or a clone of any age, one outbound form is ever handed out.
ClaimedOnce == \A t \in Tickets : claims[t] <= 1

\* A ticket that a session was given is claimed only while that very session
\* lasts: re-authentication, expiry, cancellation and logout end every clone.
ClaimWithinSession ==
  [][\A t \in installed :
       claims'[t] # claims[t] => session.state = "authenticated" /\ session.ticket = t]_vars

\* "a token acquired for one service cannot be silently installed into another
\* service's session", only an authenticated session has credentials, and it
\* names the user they are for, from whichever response did.
CredentialsBound ==
  /\ session.state = "authenticated" => session.user # NULL
  /\ session.ticket # NULL =>
       session.state = "authenticated" /\ boundFor[session.ticket] = Service
  /\ session.csrf # NULL => session.state = "authenticated" /\ session.csrf = Service
=============================================================================
