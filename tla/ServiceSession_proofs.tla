----------------------- MODULE ServiceSession_proofs -----------------------
(***************************************************************************)
(* Proofs, for any services, users and bound tickets, that a ticket is     *)
(* claimed at most once and only while the session it was given to lasts.  *)
(*                                                                         *)
(* What makes ClaimedOnce inductive is that an outbound form exists only   *)
(* of an attempted ticket; what makes ClaimWithinSession hold is that an   *)
(* installed ticket is attempted, or is the machine's own.                 *)
(***************************************************************************)
EXTENDS ServiceSession, TLAPS

ClaimedIsAttempted == \A t \in Tickets : claims[t] # 0 => attempted[t]

InstalledIsOwn == \A t \in installed : attempted[t] \/ session.ticket = t

IInv ==
  /\ TypeOK
  /\ ClaimedOnce
  /\ ClaimedIsAttempted
  /\ InstalledIsOwn
  /\ CredentialsBound

-----------------------------------------------------------------------------
(* The two ways a step treats the leases.                                  *)

\* A transition that invalidates the machine's lease ends all it gave out.
LEMMA InvalidatedFacts ==
  ASSUME TypeOK, ClaimedIsAttempted, InstalledIsOwn, attempted' = Invalidated
  PROVE  /\ attempted' \in [Tickets -> BOOLEAN]
         /\ \A t \in Tickets : claims[t] # 0 => attempted'[t]
         /\ \A t \in installed : attempted'[t]
BY DEF TypeOK, ClaimedIsAttempted, InstalledIsOwn, Invalidated

\* Taking the lease of an available ticket keeps the claims in order.
LEMMA MarkedFacts ==
  ASSUME TypeOK, ClaimedOnce, ClaimedIsAttempted, NEW k \in Tickets, ~attempted[k],
         attempted' = [attempted EXCEPT ![k] = TRUE],
         claims' = [claims EXCEPT ![k] = @ + 1]
  PROVE  /\ attempted' \in [Tickets -> BOOLEAN]
         /\ claims' \in [Tickets -> Nat]
         /\ ClaimedOnce' /\ ClaimedIsAttempted'
         /\ \A t \in Tickets : attempted[t] => attempted'[t]
<1>1. claims[k] = 0 BY DEF ClaimedIsAttempted
<1>2. claims'[k] = 1 BY <1>1 DEF TypeOK
<1>3. \A t \in Tickets : t # k => claims'[t] = claims[t] /\ attempted'[t] = attempted[t]
  BY DEF TypeOK
<1>4. attempted'[k] BY DEF TypeOK
<1>5. claims' \in [Tickets -> Nat] BY DEF TypeOK
<1>6. attempted' \in [Tickets -> BOOLEAN] BY DEF TypeOK
<1>7. ClaimedOnce' BY <1>2, <1>3 DEF ClaimedOnce
<1>8. ClaimedIsAttempted' BY <1>2, <1>3, <1>4 DEF ClaimedIsAttempted
<1>. QED BY <1>3, <1>4, <1>5, <1>6, <1>7, <1>8

\* The sessions the transitions start from scratch.
LEMMA FreshType ==
  ASSUME NEW state \in {"anonymous", "authenticating"}
  PROVE  Fresh(state) \in Sessions
BY DEF Fresh, Sessions, States

\* A transition that ends in a session without credentials.
LEMMA EndingStep ==
  ASSUME IInv, attempted' = Invalidated, session' \in Sessions,
         session'.ticket = NULL, session'.csrf = NULL,
         UNCHANGED <<boundFor, held, claims, installed>>
  PROVE  IInv'
<1> USE DEF IInv
<1>1. TypeOK' BY InvalidatedFacts DEF TypeOK
<1>2. ClaimedOnce' BY DEF ClaimedOnce
<1>3. ClaimedIsAttempted' BY InvalidatedFacts DEF ClaimedIsAttempted
<1>4. InstalledIsOwn' BY InvalidatedFacts DEF InstalledIsOwn
<1>5. CredentialsBound' BY DEF CredentialsBound, Sessions
<1>. QED BY <1>1, <1>2, <1>3, <1>4, <1>5

\* A success, of the primary or the second response.
LEMMA InstallStep ==
  ASSUME IInv, NEW u \in Users, NEW t \in Tickets \cup {NULL},
         NEW c \in Services \cup {NULL}, Install(u, t, c)
  PROVE  IInv'
<1> USE SessionAssumption DEF IInv
<1>1. /\ attempted' = Invalidated
      /\ UNCHANGED <<boundFor, held, claims>>
      /\ installed' = installed \cup ({t} \ {NULL})
      /\ Binds(t, c)
  BY DEF Install
<1>2. session' = [state |-> "authenticated", user |-> u, ticket |-> t, csrf |-> c,
                  challenge |-> FALSE]
  BY DEF Install, Fresh
<1>3. TypeOK'
  <2>1. session' \in Sessions BY <1>2 DEF Sessions, States
  <2>. QED BY <1>1, <2>1, InvalidatedFacts DEF TypeOK
<1>4. ClaimedOnce' BY <1>1 DEF ClaimedOnce
<1>5. ClaimedIsAttempted' BY <1>1, InvalidatedFacts DEF ClaimedIsAttempted
<1>6. InstalledIsOwn' BY <1>1, <1>2, InvalidatedFacts DEF InstalledIsOwn
<1>7. CredentialsBound' BY <1>1, <1>2 DEF CredentialsBound, Binds
<1>. QED BY <1>3, <1>4, <1>5, <1>6, <1>7

-----------------------------------------------------------------------------
(* The inductive invariant.                                                *)

LEMMA InitIInv == Init => IInv
<1> SUFFICES ASSUME Init PROVE IInv
    OBVIOUS
<1>1. TypeOK BY FreshType DEF Init, TypeOK
<1>2. ClaimedOnce BY DEF Init, ClaimedOnce
<1>3. ClaimedIsAttempted BY DEF Init, ClaimedIsAttempted
<1>4. InstalledIsOwn BY DEF Init, InstalledIsOwn
<1>5. CredentialsBound BY DEF Init, CredentialsBound, Fresh
<1>. QED BY <1>1, <1>2, <1>3, <1>4, <1>5 DEF IInv

\* Clones and the machine's ticket: the flag decides.
LEMMA HandleStep ==
  ASSUME IInv, (\E t \in Tickets : Handle(t)) \/ BoundTicket \/ ClaimTicket
  PROVE  IInv'
<1> USE SessionAssumption DEF IInv
<1>1. ASSUME NEW t \in Tickets, NEW s \in Services, BindTicket(t, s) PROVE IInv'
  <2>1. boundFor[t] = NULL /\ boundFor' = [boundFor EXCEPT ![t] = s]
        /\ held' = held \cup {t}
        /\ UNCHANGED <<session, attempted, claims, installed>>
    BY <1>1 DEF BindTicket
  <2>2. TypeOK' BY <2>1 DEF TypeOK
  <2>3. CredentialsBound'
    <3>1. session.ticket # t BY <2>1 DEF CredentialsBound
    <3>2. session.ticket # NULL => session.ticket \in Tickets BY DEF TypeOK, Sessions
    <3>. QED BY <2>1, <3>1, <3>2 DEF CredentialsBound, TypeOK
  <2>. QED BY <2>1, <2>2, <2>3 DEF ClaimedOnce, ClaimedIsAttempted, InstalledIsOwn
<1>2. ASSUME NEW t \in Tickets, Claim(t) PROVE IInv'
  <2>1. /\ ~attempted[t]
        /\ attempted' = [attempted EXCEPT ![t] = TRUE]
        /\ claims' = [claims EXCEPT ![t] = @ + 1]
        /\ UNCHANGED <<session, boundFor, held, installed>>
    BY <1>2 DEF Claim
  <2>2. TypeOK' BY <2>1, MarkedFacts DEF TypeOK
  <2>3. InstalledIsOwn' BY <2>1, MarkedFacts DEF InstalledIsOwn, TypeOK
  <2>. QED BY <2>1, <2>2, <2>3, MarkedFacts DEF CredentialsBound
<1>3. ASSUME NEW t \in Tickets, IntoTicket(t) PROVE IInv'
  <2>1. /\ attempted' = [attempted EXCEPT ![t] = TRUE]
        /\ UNCHANGED <<session, boundFor, held, claims, installed>>
    BY <1>3 DEF IntoTicket
  <2>2. TypeOK' BY <2>1 DEF TypeOK
  <2>3. \A k \in Tickets : attempted[k] => attempted'[k] BY <2>1 DEF TypeOK
  <2>. QED BY <2>1, <2>2, <2>3 DEF ClaimedOnce, ClaimedIsAttempted, InstalledIsOwn,
                                   CredentialsBound, TypeOK
<1>4. ASSUME NEW t \in Tickets, DropClones(t) PROVE IInv'
  BY <1>4 DEF DropClones, TypeOK, ClaimedOnce, ClaimedIsAttempted, InstalledIsOwn,
              CredentialsBound
<1>5. ASSUME BoundTicket PROVE IInv'
  BY <1>5 DEF BoundTicket, TypeOK, Sessions, ClaimedOnce, ClaimedIsAttempted,
              InstalledIsOwn, CredentialsBound
<1>6. ASSUME ClaimTicket PROVE IInv'
  <2> DEFINE k == session.ticket
  <2>1. /\ k \in Tickets
        /\ session' = [session EXCEPT !.ticket = NULL]
        /\ UNCHANGED <<boundFor, held, installed>>
    BY <1>6 DEF ClaimTicket, TypeOK, Sessions
  <2>2. session' \in Sessions BY <2>1 DEF TypeOK, Sessions
  <2>3. CredentialsBound' BY <2>1, <2>2 DEF CredentialsBound, TypeOK, Sessions
  <2>4. CASE attempted[k]
    <3>1. UNCHANGED <<attempted, claims>> BY <1>6, <2>4 DEF ClaimTicket
    <3>. QED BY <2>1, <2>2, <2>3, <2>4, <3>1 DEF TypeOK, ClaimedOnce,
                ClaimedIsAttempted, InstalledIsOwn
  <2>5. CASE ~attempted[k]
    <3>1. /\ attempted' = [attempted EXCEPT ![k] = TRUE]
          /\ claims' = [claims EXCEPT ![k] = @ + 1]
      BY <1>6, <2>5 DEF ClaimTicket
    <3> HIDE DEF k
    <3>2. TypeOK' BY <2>1, <2>2, <2>5, <3>1, MarkedFacts DEF TypeOK
    <3>3. \A t \in installed : attempted'[t] BY <2>1, <3>1 DEF TypeOK, InstalledIsOwn, k
    <3>4. InstalledIsOwn' BY <2>1, <3>3 DEF InstalledIsOwn
    <3>. QED BY <2>1, <2>3, <2>5, <3>1, <3>2, <3>4, MarkedFacts
  <2>. QED BY <2>4, <2>5
<1>. QED BY <1>1, <1>2, <1>3, <1>4, <1>5, <1>6 DEF Handle

\* The transitions of the machine.
LEMMA TransitionStep ==
  ASSUME IInv,
         \/ BeginAuthentication
         \/ \E u \in Users \cup {NULL} : RequireSecondFactor(u)
         \/ \E t \in Tickets \cup {NULL}, c \in Services \cup {NULL} : Succeed(t, c)
         \/ \E c \in Services : RefreshAuthenticatedCsrf(c)
         \/ CancelAuthentication
         \/ Expire
         \/ Logout
  PROVE  IInv'
<1> USE SessionAssumption
<1>1. ASSUME BeginAuthentication \/ CancelAuthentication \/ Logout PROVE IInv'
  <2>1. PICK state \in {"anonymous", "authenticating"} : session' = Fresh(state)
    BY <1>1 DEF BeginAuthentication, CancelAuthentication, Logout
  <2>2. session'.ticket = NULL /\ session'.csrf = NULL BY <2>1 DEF Fresh
  <2>3. attempted' = Invalidated /\ UNCHANGED <<boundFor, held, claims, installed>>
    BY <1>1 DEF BeginAuthentication, CancelAuthentication, Logout
  <2>. QED BY <2>1, <2>2, <2>3, FreshType, EndingStep
<1>2. ASSUME NEW u \in Users \cup {NULL}, RequireSecondFactor(u) PROVE IInv'
  <2>1. session' = [state |-> "second_factor", user |-> u, ticket |-> NULL,
                    csrf |-> NULL, challenge |-> TRUE]
    BY <1>2 DEF RequireSecondFactor, Fresh
  <2>2. session' \in Sessions BY <2>1 DEF Sessions, States
  <2>3. session'.ticket = NULL /\ session'.csrf = NULL BY <2>1
  <2>4. attempted' = Invalidated /\ UNCHANGED <<boundFor, held, claims, installed>>
    BY <1>2 DEF RequireSecondFactor
  <2>. QED BY <2>2, <2>3, <2>4, EndingStep
<1>3. ASSUME NEW t \in Tickets \cup {NULL}, NEW c \in Services \cup {NULL}, Succeed(t, c)
      PROVE  IInv'
  <2>1. PICK u \in Users : Install(u, t, c)
    BY <1>3 DEF Succeed, AuthenticationSucceeded, SecondFactorSucceeded
  <2>. QED BY <2>1, InstallStep
<1>4. ASSUME NEW c \in Services, RefreshAuthenticatedCsrf(c) PROVE IInv'
  <2>1. /\ session.state = "authenticated" /\ c = Service
        /\ session' = [session EXCEPT !.csrf = c]
        /\ UNCHANGED <<boundFor, attempted, held, claims, installed>>
    BY <1>4 DEF RefreshAuthenticatedCsrf, Binds
  <2>2. session' \in Sessions BY <2>1 DEF IInv, TypeOK, Sessions
  <2>3. /\ session'.ticket = session.ticket /\ session'.csrf = Service
        /\ session'.state = "authenticated"
    BY <2>1 DEF IInv, TypeOK, Sessions
  <2>. QED BY <2>1, <2>2, <2>3 DEF IInv, TypeOK, ClaimedOnce, ClaimedIsAttempted,
                                  InstalledIsOwn, CredentialsBound
<1>5. ASSUME Expire PROVE IInv'
  <2>1. session' = [state |-> "expired", user |-> session.user, ticket |-> NULL,
                    csrf |-> NULL, challenge |-> FALSE]
    BY <1>5 DEF Expire, Fresh
  <2>2. session' \in Sessions BY <2>1 DEF IInv, TypeOK, Sessions, States
  <2>3. session'.ticket = NULL /\ session'.csrf = NULL BY <2>1
  <2>4. attempted' = Invalidated /\ UNCHANGED <<boundFor, held, claims, installed>>
    BY <1>5 DEF Expire
  <2>. QED BY <2>2, <2>3, <2>4, EndingStep
<1>. QED BY <1>1, <1>2, <1>3, <1>4, <1>5

LEMMA StepIInv == IInv /\ [Next]_vars => IInv'
<1> SUFFICES ASSUME IInv, [Next]_vars PROVE IInv'
    OBVIOUS
<1>1. CASE UNCHANGED vars
  BY <1>1 DEF vars, IInv, TypeOK, ClaimedOnce, ClaimedIsAttempted, InstalledIsOwn,
              CredentialsBound
<1>2. CASE (\E t \in Tickets : Handle(t)) \/ BoundTicket \/ ClaimTicket
  BY <1>2, HandleStep
<1>. QED BY <1>1, <1>2, TransitionStep DEF Next

-----------------------------------------------------------------------------
(* The theorems.                                                           *)

LEMMA SessionInvariance == Spec => []IInv
BY InitIInv, StepIInv, PTL DEF Spec

\* The machine's fields stay consistent: an authenticated session has a user,
\* and exactly a pending second factor has a challenge.
THEOREM SessionTypeCorrect == Spec => []TypeOK
<1>1. IInv => TypeOK BY DEF IInv
<1>. QED BY <1>1, SessionInvariance, PTL

\* However many clones of however many tickets are around, each ticket leaves
\* for one outbound request.
THEOREM TicketsAreClaimedOnce == Spec => []ClaimedOnce
<1>1. IInv => ClaimedOnce BY DEF IInv
<1>. QED BY <1>1, SessionInvariance, PTL

\* No credential of another service, and none outside an authenticated session.
THEOREM CredentialsAreBound == Spec => []CredentialsBound
<1>1. IInv => CredentialsBound BY DEF IInv
<1>. QED BY <1>1, SessionInvariance, PTL

\* A claim changes `claims` only for a ticket whose lease was available, and an
\* available ticket that was installed is the machine's own.
THEOREM ClaimsAreWithinTheSession == Spec => ClaimWithinSession
<1>1. IInv /\ [Next]_vars =>
        [\A t \in installed :
           claims'[t] # claims[t] => session.state = "authenticated" /\ session.ticket = t]_vars
  <2> SUFFICES ASSUME IInv, [Next]_vars, NEW t \in installed, claims'[t] # claims[t]
               PROVE  session.state = "authenticated" /\ session.ticket = t
      OBVIOUS
  <2>1. ~attempted[t]
    <3>1. t \in Tickets BY DEF IInv, TypeOK
    <3>2. \/ \E k \in Tickets : Claim(k)
          \/ ClaimTicket /\ ~attempted[session.ticket]
      BY DEF Next, Handle, BindTicket, IntoTicket, DropClones, BoundTicket, ClaimTicket,
             BeginAuthentication, RequireSecondFactor, Succeed, AuthenticationSucceeded,
             SecondFactorSucceeded, Install, RefreshAuthenticatedCsrf,
             CancelAuthentication, Expire, Logout, vars
    <3>3. PICK k \in Tickets : ~attempted[k] /\ claims' = [claims EXCEPT ![k] = @ + 1]
      BY <3>2 DEF Claim, ClaimTicket, IInv, TypeOK, Sessions
    <3>. QED BY <3>1, <3>3 DEF IInv, TypeOK
  <2>2. session.ticket = t BY <2>1 DEF IInv, InstalledIsOwn
  <2>3. t # NULL BY SessionAssumption DEF IInv, TypeOK
  <2>. QED BY <2>2, <2>3 DEF IInv, CredentialsBound
<1>2. [][\A t \in installed :
           claims'[t] # claims[t] => session.state = "authenticated" /\ session.ticket = t]_vars
        <=> ClaimWithinSession
  BY DEF ClaimWithinSession
<1>. QED BY <1>1, <1>2, SessionInvariance, PTL DEF Spec
=============================================================================
