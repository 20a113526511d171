------------------------- MODULE SecondFactor_proofs -------------------------
(***************************************************************************)
(* Proofs, for any number of logins and challenges, that no challenge is   *)
(* answered twice, under another login's Cookies or beside another one,    *)
(* and that a device is registered once and by consent to this login.      *)
(*                                                                         *)
(* The invariants hold between calls because of what a call relies on at   *)
(* each of its steps (StepOK), because a discovery returns a challenge     *)
(* that no code was posted for (SpentOK), and because the options kept for *)
(* a device are those of this login wherever they are read (TrustOK).      *)
(***************************************************************************)
EXTENDS SecondFactor, TLAPS

StepOK ==
  /\ call.challenge # NULL <=> Verifying
  /\ ~At("idle") => primary = NULL
  /\ ~At("idle") /\ ~At("resume") => service = NULL
  /\ At("resume") /\ service # NULL => service.nth = shown
  /\ At("bootstrap") => identity = "anonymous"
  /\ At("submit") => identity = "authenticating"
  /\ call.step \in {"finish", "discover", "resume"} => identity = "authenticated"
  /\ identity # "authenticated" => proof = "live"
  /\ Verifying => identity = (IF call.forService THEN "authenticated" ELSE "anonymous")

\* What was discovered so far is older than the next discovery.
SpentOK ==
  /\ \A c \in spent \cup Pending :
       c.login < login \/ (c.login = login /\ c.nth <= shown)
  /\ Pending \cap spent = {}
  /\ call.challenge # NULL => call.challenge \in spent

\* The options kept are those of the login that may use them.
TrustOK ==
  /\ registered = 0 \/ (registered = 1 /\ trusted.attempted /\ trusted.requested)
  /\ At("bootstrap") => registered = 0
  /\ trusted.pending
       /\ (At("submit") \/ identity = "second_factor" \/ (Verifying /\ ~call.forService))
       => trusted.requested

\* What a pending or posted primary challenge keeps of its login.
LoginOK ==
  /\ (At("bootstrap") \/ At("submit")) =>
       /\ call.recovery = byRecovery
       /\ password
       /\ ~recoveryPending
       /\ shown = 0
       /\ ~loginRequired
  /\ Verifying /\ ~call.forService /\ leaseCurrent =>
       recoveryPending = byRecovery /\ call.password = ~byRecovery
  /\ (identity = "second_factor" \/ (Verifying /\ ~call.forService)) => ~loginRequired

IInv ==
  /\ TypeOK
  /\ StepOK
  /\ SpentOK
  /\ CodesForThisLogin
  /\ OneInteraction
  /\ TrustOK
  /\ LoginOK
  /\ ContinuesItsLogin

\* What both kinds of login have in common.
LEMMA EnterLoginStep ==
  ASSUME IInv, NEW trust \in BOOLEAN, NEW recovery \in BOOLEAN,
         EnterLogin(trust, recovery),
         leaseCurrent' \in BOOLEAN, locator' \in BOOLEAN, loginRequired' = FALSE
  PROVE  IInv'
<1> USE DEF IInv, EnterLogin
<1>1. TypeOK'
  <2>1. call' \in Calls
    BY DEF Call, Calls, Steps
  <2>2. trusted' \in [requested : BOOLEAN, pending : BOOLEAN, attempted : BOOLEAN]
    BY DEF TypeOK
  <2>3. login' \in 0 .. MaxLogins /\ shown' \in 0 .. MaxChallenges
    BY FactorAssumption DEF TypeOK
  <2>4. /\ identity' \in IdentityStates /\ proof' \in Proofs
        /\ primary' = NULL /\ service' = NULL /\ identity' # "second_factor"
        /\ registered' \in Nat /\ recoveryPending' \in BOOLEAN
    BY DEF ResetSessions, IdentityStates, Proofs
  <2>5. password' \in BOOLEAN /\ byRecovery' \in BOOLEAN /\ spent' \subseteq Challenges
    BY DEF TypeOK
  <2>. QED BY <2>1, <2>2, <2>3, <2>4, <2>5 DEF TypeOK
<1>2. StepOK'
  BY DEF ResetSessions, StepOK, Verifying, Call, At
<1>3. SpentOK'
  BY DEF ResetSessions, TypeOK, SpentOK, Challenges, Pending, Call
<1>4. CodesForThisLogin'
  BY DEF ResetSessions, CodesForThisLogin, Pending, Call
<1>5. OneInteraction'
  BY DEF ResetSessions, OneInteraction
<1>6. TrustOK'
  BY DEF ResetSessions, TrustOK, Verifying, Call, At
<1>7. LoginOK'
  BY DEF ResetSessions, LoginOK, Verifying, Call, At
<1>8. ContinuesItsLogin'
  BY DEF ResetSessions, ContinuesItsLogin
<1>. QED BY <1>1, <1>2, <1>3, <1>4, <1>5, <1>6, <1>7, <1>8

LEMMA BeginLoginStep ==
  ASSUME IInv, NEW trust \in BOOLEAN, BeginLogin(trust)
  PROVE  IInv'
<1>1. EnterLogin(trust, FALSE)
  BY DEF BeginLogin
<1>2. leaseCurrent' \in BOOLEAN /\ locator' \in BOOLEAN /\ loginRequired' = FALSE
  BY DEF BeginLogin
<1>. QED BY <1>1, <1>2, EnterLoginStep

LEMMA RecoverLoginStep ==
  ASSUME IInv, RecoverLogin
  PROVE  IInv'
<1>1. EnterLogin(FALSE, TRUE)
  BY DEF RecoverLogin
<1>2. leaseCurrent' \in BOOLEAN /\ locator' \in BOOLEAN /\ loginRequired' = FALSE
  BY DEF IInv, TypeOK, RecoverLogin
<1>. QED BY <1>1, <1>2, EnterLoginStep

LEMMA BootstrapFailsStep ==
  ASSUME IInv, BootstrapFails
  PROVE  IInv'
<1> USE DEF IInv
<1>1. TypeOK'
  <2>1. call' \in Calls
    BY DEF BootstrapFails, Call, Idle, Calls, Steps
  <2>. QED BY <2>1 DEF TypeOK, BootstrapFails, session, history
<1>2. StepOK' BY DEF BootstrapFails, StepOK, Verifying, Call, Idle, At, session
<1>3. SpentOK'
  BY DEF BootstrapFails, SpentOK, Pending, Call, Idle, session, history
<1>4. CodesForThisLogin'
  BY DEF BootstrapFails, CodesForThisLogin, Pending, Call, Idle, session, history
<1>5. OneInteraction' BY DEF BootstrapFails, OneInteraction, session
<1>6. TrustOK'
  BY DEF BootstrapFails, TrustOK, Verifying, Call, Idle, At, session, history
<1>7. LoginOK' BY DEF BootstrapFails, LoginOK, Verifying, Call, Idle, At
<1>8. ContinuesItsLogin'
  BY DEF BootstrapFails, StepOK, ContinuesItsLogin, session
<1>. QED BY <1>1, <1>2, <1>3, <1>4, <1>5, <1>6, <1>7, <1>8

LEMMA EstablishStep ==
  ASSUME IInv, Establish
  PROVE  IInv'
<1> USE DEF IInv
<1>1. TypeOK'
  <2>1. call' \in Calls
    BY DEF TypeOK, Establish, Goes, Calls, Steps
  <2>2. trusted' \in [requested : BOOLEAN, pending : BOOLEAN, attempted : BOOLEAN]
    BY DEF TypeOK, Establish
  <2>3. identity # "second_factor"
    BY DEF StepOK, Establish, At
  <2>4. identity' \in IdentityStates /\ identity' # "second_factor" /\ primary' = NULL
    BY <2>3 DEF TypeOK, Establish, IdentityStates
  <2>. QED BY <2>1, <2>2, <2>4 DEF TypeOK, Establish, history
<1>2. StepOK' BY DEF Establish, StepOK, Verifying, Goes, At
<1>3. SpentOK' BY DEF Establish, SpentOK, Pending, Goes, history
<1>4. CodesForThisLogin'
  BY DEF Establish, CodesForThisLogin, Pending, Goes, history
<1>5. OneInteraction' BY DEF Establish, StepOK, OneInteraction
<1>6. TrustOK' BY DEF Establish, TrustOK, history
<1>7. LoginOK' BY DEF Establish, LoginOK, Verifying, Goes, history
<1>8. ContinuesItsLogin' BY DEF Establish, ContinuesItsLogin
<1>. QED BY <1>1, <1>2, <1>3, <1>4, <1>5, <1>6, <1>7, <1>8

LEMMA SubmitProvesStep ==
  ASSUME IInv, SubmitProves
  PROVE  IInv'
<1> USE DEF IInv
<1>1. TypeOK'
  BY DEF SubmitProves, TypeOK, StepOK, LoginOK, Calls, Steps, IdentityStates,
    Goes, history
<1>2. StepOK' BY DEF SubmitProves, StepOK, Verifying, Goes, At
<1>3. SpentOK' BY DEF SubmitProves, SpentOK, Pending, Goes, history
<1>4. CodesForThisLogin'
  BY DEF SubmitProves, CodesForThisLogin, Pending, Goes, history
<1>5. OneInteraction' BY DEF SubmitProves, OneInteraction
<1>6. TrustOK' BY DEF SubmitProves, TrustOK, Goes, At, history
<1>7. LoginOK' BY DEF SubmitProves, LoginOK, Verifying, Goes, history
<1>8. ContinuesItsLogin' BY DEF SubmitProves, ContinuesItsLogin
<1>. QED BY <1>1, <1>2, <1>3, <1>4, <1>5, <1>6, <1>7, <1>8

LEMMA SubmitFailsStep ==
  ASSUME IInv, SubmitFails
  PROVE  IInv'
<1> USE DEF IInv
<1>1. TypeOK'
  <2>1. call' \in Calls
    BY DEF SubmitFails, Call, Idle, Calls, Steps
  <2>2. trusted' \in [requested : BOOLEAN, pending : BOOLEAN, attempted : BOOLEAN]
    BY DEF TypeOK, SubmitFails
  <2>3. primary = NULL
    BY DEF TypeOK, StepOK, SubmitFails
  <2>. QED
    BY <2>1, <2>2, <2>3 DEF TypeOK, SubmitFails, IdentityStates, history
<1>2. StepOK' BY DEF SubmitFails, StepOK, Verifying, Call, Idle, At
<1>3. SpentOK' BY DEF SubmitFails, SpentOK, Pending, Call, Idle, history
<1>4. CodesForThisLogin'
  BY DEF SubmitFails, CodesForThisLogin, Pending, Call, Idle, history
<1>5. OneInteraction' BY DEF SubmitFails, StepOK, OneInteraction
<1>6. TrustOK' BY DEF SubmitFails, TrustOK, Call, Idle, At, history
<1>7. LoginOK' BY DEF SubmitFails, LoginOK, Verifying, Call, Idle, At
<1>8. ContinuesItsLogin' BY DEF SubmitFails, ContinuesItsLogin
<1>. QED BY <1>1, <1>2, <1>3, <1>4, <1>5, <1>6, <1>7, <1>8

LEMMA SubmitChallengedStep ==
  ASSUME IInv, SubmitChallenged
  PROVE  IInv'
<1> USE DEF IInv
<1>1. TypeOK'
  BY FactorAssumption, NullAssumption DEF SubmitChallenged, Discoverable, TypeOK,
    LoginOK, Calls, Steps, IdentityStates, Challenges, Call, Idle
<1>2. StepOK' BY DEF SubmitChallenged, StepOK, Verifying, Call, Idle, At
<1>3. SpentOK'
  BY DEF SubmitChallenged, Discoverable, TypeOK, SpentOK, Challenges, Pending,
    Call, Idle
<1>4. CodesForThisLogin'
  BY DEF SubmitChallenged, Discoverable, CodesForThisLogin, Pending, Call, Idle
<1>5. OneInteraction' BY DEF SubmitChallenged, StepOK, OneInteraction
<1>6. TrustOK' BY DEF SubmitChallenged, TrustOK, Call, Idle, At
<1>7. LoginOK' BY DEF SubmitChallenged, LoginOK, Verifying, Call, Idle, At
<1>8. ContinuesItsLogin'
  BY DEF SubmitChallenged, TypeOK, LoginOK, ContinuesItsLogin
<1>. QED BY <1>1, <1>2, <1>3, <1>4, <1>5, <1>6, <1>7, <1>8

LEMMA VerifyPrimaryStep ==
  ASSUME IInv, VerifyPrimary
  PROVE  IInv'
<1> USE DEF IInv
<1>1. TypeOK'
  BY DEF VerifyPrimary, TypeOK, OneInteraction, LoginOK, ContinuesItsLogin, Calls,
    Steps, IdentityStates, Call
<1>2. StepOK'
  BY DEF VerifyPrimary, TypeOK, StepOK, OneInteraction, Verifying, Call, At
<1>3. SpentOK' BY DEF VerifyPrimary, TypeOK, SpentOK, OneInteraction, Pending
<1>4. CodesForThisLogin' BY DEF VerifyPrimary, CodesForThisLogin, Pending
<1>5. OneInteraction' BY DEF VerifyPrimary, OneInteraction
<1>6. TrustOK' BY DEF VerifyPrimary, TrustOK, Call, At
<1>7. LoginOK' BY DEF VerifyPrimary, LoginOK, ContinuesItsLogin, Call, At
<1>8. ContinuesItsLogin' BY DEF VerifyPrimary, ContinuesItsLogin
<1>. QED BY <1>1, <1>2, <1>3, <1>4, <1>5, <1>6, <1>7, <1>8

LEMMA VerifyServiceStep ==
  ASSUME IInv, VerifyService
  PROVE  IInv'
<1> USE DEF IInv
<1>1. TypeOK'
  <2>1. service \in Challenges /\ service' = NULL /\ spent' \subseteq Challenges
    BY DEF TypeOK, VerifyService
  <2>2. call' \in Calls
    BY <2>1 DEF VerifyService, Call, Calls, Steps
  <2>. QED BY <2>1, <2>2 DEF TypeOK, VerifyService, memory
<1>2. StepOK' BY DEF VerifyService, TypeOK, StepOK, Verifying, Proven, Call, At
<1>3. SpentOK' BY DEF VerifyService, TypeOK, SpentOK, Pending, Proven
<1>4. CodesForThisLogin' BY DEF VerifyService, CodesForThisLogin, Pending
<1>5. OneInteraction' BY DEF VerifyService, OneInteraction
<1>6. TrustOK' BY DEF VerifyService, TrustOK, Call, At, memory
<1>7. LoginOK' BY DEF VerifyService, LoginOK, Call, At, memory
<1>8. ContinuesItsLogin' BY DEF VerifyService, ContinuesItsLogin, memory
<1>. QED BY <1>1, <1>2, <1>3, <1>4, <1>5, <1>6, <1>7, <1>8

LEMMA CodeRejectedStep ==
  ASSUME IInv, CodeRejected
  PROVE  IInv'
<1> USE DEF IInv
<1>1. TypeOK'
  BY DEF CodeRejected, TypeOK, StepOK, Calls, Steps, IdentityStates, Verifying,
    Call, Idle, At
<1>2. StepOK' BY DEF CodeRejected, StepOK, Verifying, Call, Idle, At
<1>3. SpentOK' BY DEF CodeRejected, SpentOK, Pending, Call, Idle
<1>4. CodesForThisLogin'
  BY DEF CodeRejected, CodesForThisLogin, Pending, Call, Idle
<1>5. OneInteraction' BY DEF CodeRejected, StepOK, OneInteraction, At
<1>6. TrustOK' BY DEF CodeRejected, TrustOK, Verifying, Call, Idle, At
<1>7. LoginOK' BY DEF CodeRejected, LoginOK, Verifying, Call, Idle, At
<1>8. ContinuesItsLogin'
  BY DEF CodeRejected, LoginOK, ContinuesItsLogin, Verifying, At
<1>. QED BY <1>1, <1>2, <1>3, <1>4, <1>5, <1>6, <1>7, <1>8

LEMMA CodeAcceptedStep ==
  ASSUME IInv, CodeAccepted
  PROVE  IInv'
<1> USE DEF IInv
<1>1. TypeOK'
  <2>1. call' \in Calls
    <3>1. PICK s \in Steps : call' = [call EXCEPT !.step = s]
      BY DEF CodeAccepted, Goes, Steps
    <3>. QED BY <3>1 DEF TypeOK, Calls
  <2>2. trusted' \in [requested : BOOLEAN, pending : BOOLEAN, attempted : BOOLEAN]
    BY DEF TypeOK, CodeAccepted
  <2>3. registered' \in Nat
    BY DEF TypeOK, CodeAccepted
  <2>. QED
    BY <2>1, <2>2, <2>3 DEF TypeOK, CodeAccepted, session
<1>2. StepOK'
  BY DEF CodeAccepted, TypeOK, StepOK, Calls, Verifying, Goes, At, session
<1>3. SpentOK'
  BY DEF CodeAccepted, TypeOK, SpentOK, Calls, Pending, Goes, session
<1>4. CodesForThisLogin'
  BY DEF CodeAccepted, TypeOK, CodesForThisLogin, Calls, Pending, Goes, session
<1>5. OneInteraction' BY DEF CodeAccepted, OneInteraction, session
<1>6. TrustOK'
  BY DEF CodeAccepted, WantsRegistration, TypeOK, TrustOK, Calls, Verifying, Goes,
    At, session
<1>7. LoginOK'
  BY DEF CodeAccepted, TypeOK, LoginOK, Calls, Verifying, Goes, At, session
<1>8. ContinuesItsLogin' BY DEF CodeAccepted, ContinuesItsLogin, session
<1>. QED BY <1>1, <1>2, <1>3, <1>4, <1>5, <1>6, <1>7, <1>8

LEMMA RegistrationAnsweredStep ==
  ASSUME IInv, RegistrationAnswered
  PROVE  IInv'
<1> USE DEF IInv
<1>1. TypeOK'
  BY DEF RegistrationAnswered, TypeOK, Calls, Steps, Goes, session, memory,
         history
<1>2. StepOK' BY DEF RegistrationAnswered, StepOK, Verifying, Goes, At, session
<1>3. SpentOK'
  BY DEF RegistrationAnswered, SpentOK, Pending, Goes, session, history
<1>4. CodesForThisLogin'
  BY DEF RegistrationAnswered, CodesForThisLogin, Pending, Goes, session, history
<1>5. OneInteraction' BY DEF RegistrationAnswered, OneInteraction, session
<1>6. TrustOK'
  BY DEF RegistrationAnswered, TrustOK, Verifying, Goes, At, session, memory,
         history
<1>7. LoginOK'
  BY DEF RegistrationAnswered, LoginOK, Verifying, Goes, At, session, memory,
         history
<1>8. ContinuesItsLogin'
  BY DEF RegistrationAnswered, ContinuesItsLogin, session, memory, history
<1>. QED BY <1>1, <1>2, <1>3, <1>4, <1>5, <1>6, <1>7, <1>8

LEMMA RedirectProvesStep ==
  ASSUME IInv, RedirectProves
  PROVE  IInv'
<1> USE DEF IInv
<1>1. TypeOK'
  <2>1. call' \in Calls
    <3>1. CASE call.forService
      <4>1. call' = Idle
        BY <3>1 DEF RedirectProves
      <4>. QED BY <4>1 DEF Idle, Call, Calls, Steps
    <3>2. CASE ~call.forService
      <4>1. call' = [step |-> "finish", challenge |-> NULL, forService |-> FALSE,
                     password |-> FALSE, recovery |-> recoveryPending, finishing |-> FALSE]
        BY <3>2 DEF RedirectProves, Call
      <4>. QED BY <4>1 DEF TypeOK, Calls, Steps
    <3>. QED BY <3>1, <3>2
  <2>2. trusted' \in [requested : BOOLEAN, pending : BOOLEAN, attempted : BOOLEAN]
    BY DEF TypeOK, RedirectProves
  <2>3. password' \in BOOLEAN /\ recoveryPending' \in BOOLEAN
    BY DEF TypeOK, RedirectProves, Calls
  <2>4. identity' \in IdentityStates /\ (primary' # NULL <=> identity' = "second_factor")
    BY DEF TypeOK, RedirectProves, StepOK, Verifying, At, IdentityStates
  <2>. QED
    BY <2>1, <2>2, <2>3, <2>4 DEF TypeOK, RedirectProves, history
<1>2. StepOK' BY DEF RedirectProves, StepOK, Verifying, Call, Idle, At
<1>3. SpentOK' BY DEF RedirectProves, SpentOK, Pending, Call, Idle, history
<1>4. CodesForThisLogin'
  BY DEF RedirectProves, CodesForThisLogin, Pending, Call, Idle, history
<1>5. OneInteraction' BY DEF RedirectProves, OneInteraction
<1>6. TrustOK'
  BY DEF RedirectProves, TypeOK, TrustOK, Verifying, Call, Idle, At, history
<1>7. LoginOK' BY DEF RedirectProves, LoginOK, Verifying, Call, Idle, At
<1>8. ContinuesItsLogin' BY DEF RedirectProves, ContinuesItsLogin, history
<1>. QED BY <1>1, <1>2, <1>3, <1>4, <1>5, <1>6, <1>7, <1>8

LEMMA VerificationFailsStep ==
  ASSUME IInv, VerificationFails
  PROVE  IInv'
<1> USE DEF IInv
<1>1. TypeOK'
  BY DEF VerificationFails, TypeOK, Calls, Steps, Call, Idle, session, history
<1>2. StepOK'
  BY DEF VerificationFails, StepOK, Verifying, Call, Idle, At, session
<1>3. SpentOK'
  BY DEF VerificationFails, SpentOK, Pending, Call, Idle, session, history
<1>4. CodesForThisLogin'
  BY DEF VerificationFails, CodesForThisLogin, Pending, Call, Idle, session,
         history
<1>5. OneInteraction' BY DEF VerificationFails, OneInteraction, session
<1>6. TrustOK'
  BY DEF VerificationFails, StepOK, TrustOK, Verifying, Call, Idle, At, session,
    history
<1>7. LoginOK'
  BY DEF VerificationFails, LoginOK, Verifying, Call, Idle, At, session
<1>8. ContinuesItsLogin'
  BY DEF VerificationFails, ContinuesItsLogin, session, history
<1>. QED BY <1>1, <1>2, <1>3, <1>4, <1>5, <1>6, <1>7, <1>8

LEMMA FinishStep ==
  ASSUME IInv, Finish
  PROVE  IInv'
<1> USE DEF IInv
<1>1. TypeOK'
  <2>1. call' \in Calls
    BY DEF Finish, Call, Idle, Calls, Steps
  <2>2. locator' \in BOOLEAN
    BY DEF TypeOK, Finish
  <2>. QED
    BY <2>1, <2>2 DEF TypeOK, Finish, session, history
<1>2. StepOK' BY DEF Finish, StepOK, Verifying, Call, Idle, At, session
<1>3. SpentOK' BY DEF Finish, SpentOK, Pending, Call, Idle, session, history
<1>4. CodesForThisLogin'
  BY DEF Finish, CodesForThisLogin, Pending, Call, Idle, session, history
<1>5. OneInteraction' BY DEF Finish, OneInteraction, session
<1>6. TrustOK'
  BY DEF Finish, TrustOK, Verifying, Call, Idle, At, session, history
<1>7. LoginOK' BY DEF Finish, LoginOK, Verifying, Call, Idle, At, session
<1>8. ContinuesItsLogin' BY DEF Finish, StepOK, ContinuesItsLogin, At, session
<1>. QED BY <1>1, <1>2, <1>3, <1>4, <1>5, <1>6, <1>7, <1>8

LEMMA FinishExpiresStep ==
  ASSUME IInv, FinishExpires
  PROVE  IInv'
<1> USE DEF IInv
<1>1. TypeOK'
  BY DEF FinishExpires, LoginIsRequired, TypeOK, StepOK, Calls, Steps,
    IdentityStates, Proofs, Call, Idle, At, history
<1>2. StepOK'
  BY DEF FinishExpires, LoginIsRequired, StepOK, Verifying, Call, Idle, At
<1>3. SpentOK' BY DEF FinishExpires, SpentOK, Pending, Call, Idle, history
<1>4. CodesForThisLogin'
  BY DEF FinishExpires, CodesForThisLogin, Pending, Call, Idle, history
<1>5. OneInteraction' BY DEF FinishExpires, StepOK, OneInteraction, At
<1>6. TrustOK'
  BY DEF FinishExpires, LoginIsRequired, TrustOK, Verifying, Call, Idle, At,
         history
<1>7. LoginOK'
  BY DEF FinishExpires, LoginIsRequired, LoginOK, Verifying, Call, Idle, At
<1>8. ContinuesItsLogin'
  BY DEF FinishExpires, LoginIsRequired, ContinuesItsLogin
<1>. QED BY <1>1, <1>2, <1>3, <1>4, <1>5, <1>6, <1>7, <1>8

LEMMA RequireLoginStep ==
  ASSUME IInv, RequireLogin
  PROVE  IInv'
<1> USE DEF IInv
<1>1. TypeOK'
  BY DEF RequireLogin, LoginIsRequired, TypeOK, Calls, IdentityStates, Proofs,
    Call, Idle, At, history
<1>2. StepOK'
  BY DEF RequireLogin, LoginIsRequired, StepOK, Verifying, Call, Idle, At
<1>3. SpentOK' BY DEF RequireLogin, SpentOK, Pending, Call, Idle, history
<1>4. CodesForThisLogin'
  BY DEF RequireLogin, CodesForThisLogin, Pending, Call, Idle, history
<1>5. OneInteraction' BY DEF RequireLogin, HandoffAllowed, OneInteraction
<1>6. TrustOK'
  BY DEF RequireLogin, LoginIsRequired, TrustOK, Verifying, Call, Idle, At,
         history
<1>7. LoginOK'
  BY DEF RequireLogin, LoginIsRequired, LoginOK, Verifying, Call, Idle, At
<1>8. ContinuesItsLogin' BY DEF RequireLogin, LoginIsRequired, ContinuesItsLogin
<1>. QED BY <1>1, <1>2, <1>3, <1>4, <1>5, <1>6, <1>7, <1>8

LEMMA ResumeEndsStep ==
  ASSUME IInv, ResumeEnds
  PROVE  IInv'
<1> USE DEF IInv
<1>1. TypeOK'
  BY DEF ResumeEnds, TypeOK, Calls, Steps, Call, Idle, session, memory, history
<1>2. StepOK' BY DEF ResumeEnds, StepOK, Verifying, Call, Idle, At, session
<1>3. SpentOK'
  BY DEF ResumeEnds, SpentOK, Pending, Call, Idle, session, history
<1>4. CodesForThisLogin'
  BY DEF ResumeEnds, CodesForThisLogin, Pending, Call, Idle, session, history
<1>5. OneInteraction' BY DEF ResumeEnds, OneInteraction, session
<1>6. TrustOK'
  BY DEF ResumeEnds, TrustOK, Verifying, Call, Idle, At, session, memory, history
<1>7. LoginOK'
  BY DEF ResumeEnds, LoginOK, Verifying, Call, Idle, At, session, memory
<1>8. ContinuesItsLogin'
  BY DEF ResumeEnds, ContinuesItsLogin, session, memory, history
<1>. QED BY <1>1, <1>2, <1>3, <1>4, <1>5, <1>6, <1>7, <1>8

LEMMA PauseStep ==
  ASSUME IInv, NEW resuming \in BOOLEAN, Pause(resuming)
  PROVE  IInv'
<1> USE DEF IInv
<1>1. TypeOK'
  <2>1. call' \in Calls
    <3>1. PICK f \in BOOLEAN :
            call' = [step |-> "discover", challenge |-> NULL, forService |-> FALSE,
                     password |-> FALSE, recovery |-> resuming, finishing |-> f]
      BY DEF Pause, Call, At
    <3>. QED BY <3>1 DEF Calls, Steps
  <2>. QED
    BY <2>1 DEF TypeOK, Pause, session, memory, history
<1>2. StepOK'
  BY DEF Pause, HandoffAllowed, TypeOK, StepOK, Verifying, Proven, Call, At,
         session
<1>3. SpentOK' BY DEF Pause, SpentOK, Pending, Call, session, history
<1>4. CodesForThisLogin'
  BY DEF Pause, CodesForThisLogin, Pending, Call, session, history
<1>5. OneInteraction' BY DEF Pause, OneInteraction, session
<1>6. TrustOK'
  BY DEF Pause, TrustOK, Verifying, Call, At, session, memory, history
<1>7. LoginOK' BY DEF Pause, LoginOK, Verifying, Call, At, session, memory
<1>8. ContinuesItsLogin'
  BY DEF Pause, ContinuesItsLogin, session, memory, history
<1>. QED BY <1>1, <1>2, <1>3, <1>4, <1>5, <1>6, <1>7, <1>8

\* How a pause ends: the call is over, or the resume goes on.
LEMMA PausedCall ==
  ASSUME TypeOK, Paused
  PROVE  /\ call' = Idle \/ call' = Call("resume")
         /\ call' \in Calls
         /\ password' \in BOOLEAN
<1>1. call' = Idle \/ call' = Call("resume")
  BY DEF Paused
<1>2. call' \in Calls
  <2>1. Idle \in Calls
    BY DEF Idle, Call, Calls, Steps
  <2>2. Call("resume") \in Calls
    BY DEF Call, Calls, Steps
  <2>. QED BY <1>1, <2>1, <2>2
<1>3. password' \in BOOLEAN
  BY DEF TypeOK, Paused, Calls
<1>. QED BY <1>1, <1>2, <1>3

LEMMA DiscoveredStep ==
  ASSUME IInv, Discovered
  PROVE  IInv'
<1> USE DEF IInv
<1>0. /\ call' = Idle \/ call' = Call("resume")
      /\ call' \in Calls
      /\ password' \in BOOLEAN
  BY PausedCall DEF Discovered
<1>1. TypeOK'
  BY <1>0, FactorAssumption DEF Discovered, Discoverable, TypeOK, Challenges
<1>2. StepOK'
  BY <1>0 DEF Discovered, Discoverable, StepOK, Verifying, Call, Idle, At
<1>3. SpentOK'
  BY <1>0 DEF Discovered, Discoverable, TypeOK, SpentOK, Challenges, Pending, Call, Idle
<1>4. CodesForThisLogin'
  BY <1>0 DEF Discovered, Discoverable, CodesForThisLogin, Pending, Call, Idle
<1>5. OneInteraction' BY DEF Discovered, StepOK, OneInteraction, At
<1>6. TrustOK' BY <1>0 DEF Discovered, TrustOK, Verifying, Call, Idle, At
<1>7. LoginOK' BY <1>0 DEF Discovered, LoginOK, Verifying, Call, Idle, At
<1>8. ContinuesItsLogin' BY DEF Discovered, StepOK, ContinuesItsLogin, At
<1>. QED BY <1>1, <1>2, <1>3, <1>4, <1>5, <1>6, <1>7, <1>8

LEMMA DiscoveryFailsStep ==
  ASSUME IInv, DiscoveryFails
  PROVE  IInv'
<1> USE DEF IInv
<1>0. /\ call' = Idle \/ call' = Call("resume")
      /\ call' \in Calls
      /\ password' \in BOOLEAN
  BY PausedCall DEF DiscoveryFails
<1>1. TypeOK'
  BY <1>0 DEF DiscoveryFails, TypeOK, session, history
<1>2. StepOK'
  BY <1>0 DEF DiscoveryFails, StepOK, Verifying, Call, Idle, At, session
<1>3. SpentOK'
  BY <1>0 DEF DiscoveryFails, SpentOK, Pending, Call, Idle, session, history
<1>4. CodesForThisLogin'
  BY <1>0 DEF DiscoveryFails, CodesForThisLogin, Pending, Call, Idle, session, history
<1>5. OneInteraction' BY DEF DiscoveryFails, OneInteraction, session
<1>6. TrustOK'
  BY <1>0 DEF DiscoveryFails, TrustOK, Verifying, Call, Idle, At, session, history
<1>7. LoginOK'
  BY <1>0 DEF DiscoveryFails, LoginOK, Verifying, Call, Idle, At, session
<1>8. ContinuesItsLogin'
  BY DEF DiscoveryFails, StepOK, ContinuesItsLogin, At, session
<1>. QED BY <1>1, <1>2, <1>3, <1>4, <1>5, <1>6, <1>7, <1>8

LEMMA CookiesProveStep ==
  ASSUME IInv, CookiesProve
  PROVE  IInv'
<1> USE DEF IInv
<1>1. TypeOK'
  <2>1. proof' \in Proofs /\ locator' \in BOOLEAN
    BY DEF TypeOK, CookiesProve, Proofs
  <2>2. identity' \in IdentityStates /\ (primary' # NULL <=> identity' = "second_factor")
    BY DEF TypeOK, CookiesProve, IdentityStates
  <2>. QED
    BY <2>1, <2>2 DEF TypeOK, CookiesProve, history
<1>2. StepOK' BY DEF CookiesProve, StepOK, Verifying, At
<1>3. SpentOK' BY DEF CookiesProve, SpentOK, Pending, history
<1>4. CodesForThisLogin'
  BY DEF CookiesProve, CodesForThisLogin, Pending, history
<1>5. OneInteraction' BY DEF CookiesProve, OneInteraction
<1>6. TrustOK' BY DEF CookiesProve, TrustOK, Verifying, At, history
<1>7. LoginOK' BY DEF CookiesProve, LoginOK, Verifying, At
<1>8. ContinuesItsLogin' BY DEF CookiesProve, ContinuesItsLogin
<1>. QED BY <1>1, <1>2, <1>3, <1>4, <1>5, <1>6, <1>7, <1>8

LEMMA LogoutStep ==
  ASSUME IInv, Logout
  PROVE  IInv'
<1> USE DEF IInv
<1>1. TypeOK' BY DEF Logout, ResetSessions, TypeOK, IdentityStates, Proofs
<1>2. StepOK' BY DEF Logout, ResetSessions, StepOK, Verifying, At
<1>3. SpentOK' BY DEF Logout, ResetSessions, SpentOK, Pending
<1>4. CodesForThisLogin'
  BY DEF Logout, ResetSessions, CodesForThisLogin, Pending
<1>5. OneInteraction' BY DEF Logout, ResetSessions, OneInteraction
<1>6. TrustOK' BY DEF Logout, ResetSessions, TrustOK, Verifying, At
<1>7. LoginOK' BY DEF Logout, LoginOK, Verifying, At
<1>8. ContinuesItsLogin' BY DEF Logout, ResetSessions, ContinuesItsLogin
<1>. QED BY <1>1, <1>2, <1>3, <1>4, <1>5, <1>6, <1>7, <1>8

LEMMA DropStep ==
  ASSUME IInv, Drop
  PROVE  IInv'
<1> USE DEF IInv
<1>1. TypeOK'
  BY DEF Drop, TypeOK, Calls, Steps, Call, Idle, session, memory, history
<1>2. StepOK' BY DEF Drop, StepOK, Verifying, Call, Idle, At, session
<1>3. SpentOK' BY DEF Drop, SpentOK, Pending, Call, Idle, session, history
<1>4. CodesForThisLogin'
  BY DEF Drop, CodesForThisLogin, Pending, Call, Idle, session, history
<1>5. OneInteraction' BY DEF Drop, OneInteraction, session
<1>6. TrustOK'
  BY DEF Drop, TrustOK, Verifying, Call, Idle, At, session, memory, history
<1>7. LoginOK' BY DEF Drop, LoginOK, Verifying, Call, Idle, At, session, memory
<1>8. ContinuesItsLogin'
  BY DEF Drop, ContinuesItsLogin, session, memory, history
<1>. QED BY <1>1, <1>2, <1>3, <1>4, <1>5, <1>6, <1>7, <1>8

LEMMA SupersedeStep ==
  ASSUME IInv, Supersede
  PROVE  IInv'
<1> USE DEF IInv
<1>1. TypeOK'
  <2>1. leaseCurrent' \in BOOLEAN
    BY DEF Supersede
  <2>. QED
    BY <2>1 DEF TypeOK, Supersede, memory, history
<1>2. StepOK' BY DEF Supersede, StepOK, Verifying, At, history
<1>3. SpentOK' BY DEF Supersede, SpentOK, Pending, history
<1>4. CodesForThisLogin' BY DEF Supersede, CodesForThisLogin, Pending, history
<1>5. OneInteraction' BY DEF Supersede, OneInteraction
<1>6. TrustOK' BY DEF Supersede, TrustOK, Verifying, At, memory, history
<1>7. LoginOK' BY DEF Supersede, LoginOK, Verifying, At, memory, history
<1>8. ContinuesItsLogin' BY DEF Supersede, ContinuesItsLogin
<1>. QED BY <1>1, <1>2, <1>3, <1>4, <1>5, <1>6, <1>7, <1>8

LEMMA FallDueStep ==
  ASSUME IInv, FallDue
  PROVE  IInv'
<1> USE DEF IInv
<1>1. TypeOK' BY DEF FallDue, TypeOK, Proofs, memory, history
<1>2. StepOK' BY DEF FallDue, StepOK, Verifying, At, history
<1>3. SpentOK' BY DEF FallDue, SpentOK, Pending, history
<1>4. CodesForThisLogin' BY DEF FallDue, CodesForThisLogin, Pending, history
<1>5. OneInteraction' BY DEF FallDue, OneInteraction
<1>6. TrustOK' BY DEF FallDue, TrustOK, Verifying, At, memory, history
<1>7. LoginOK' BY DEF FallDue, LoginOK, Verifying, At, memory, history
<1>8. ContinuesItsLogin' BY DEF FallDue, ContinuesItsLogin
<1>. QED BY <1>1, <1>2, <1>3, <1>4, <1>5, <1>6, <1>7, <1>8

LEMMA InitIInv == Init => IInv
<1> SUFFICES ASSUME Init PROVE IInv
  OBVIOUS
<1> USE FactorAssumption, NullAssumption DEF Init, Idle, Call, At, Pending, Verifying
<1>1. TypeOK
  <2>1. call \in Calls
    BY DEF Calls, Steps
  <2>2. trusted \in [requested : BOOLEAN, pending : BOOLEAN, attempted : BOOLEAN]
    OBVIOUS
  <2>3. /\ identity \in IdentityStates /\ proof \in Proofs
        /\ identity # "second_factor" /\ locator \in BOOLEAN
    BY DEF IdentityStates, Proofs
  <2>4. /\ shown \in 0 .. MaxChallenges /\ login \in 0 .. MaxLogins
        /\ registered \in Nat /\ spent \subseteq Challenges
    OBVIOUS
  <2>. HIDE DEF Idle, Call
  <2>. QED BY <2>1, <2>2, <2>3, <2>4 DEF TypeOK
<1>2. StepOK
  BY DEF StepOK
<1>3. SpentOK
  BY DEF SpentOK
<1>4. CodesForThisLogin
  BY DEF CodesForThisLogin
<1>5. OneInteraction
  BY DEF OneInteraction
<1>6. TrustOK
  BY DEF TrustOK
<1>7. LoginOK
  BY DEF LoginOK
<1>8. ContinuesItsLogin
  BY DEF ContinuesItsLogin
<1>. QED BY <1>1, <1>2, <1>3, <1>4, <1>5, <1>6, <1>7, <1>8 DEF IInv

\* A step that changes nothing keeps every part.
LEMMA StutterStep ==
  ASSUME IInv, UNCHANGED vars
  PROVE  IInv'
<1> USE DEF IInv, vars, session, memory, history, At, Verifying, Pending
<1>1. TypeOK'
  BY DEF TypeOK
<1>2. StepOK'
  BY DEF StepOK
<1>3. SpentOK'
  BY DEF SpentOK
<1>4. CodesForThisLogin'
  BY DEF CodesForThisLogin
<1>5. OneInteraction'
  BY DEF OneInteraction
<1>6. TrustOK'
  BY DEF TrustOK
<1>7. LoginOK'
  BY DEF LoginOK
<1>8. ContinuesItsLogin'
  BY DEF ContinuesItsLogin
<1>. QED BY <1>1, <1>2, <1>3, <1>4, <1>5, <1>6, <1>7, <1>8

LEMMA NextIInv == IInv /\ [Next]_vars => IInv'
<1> SUFFICES ASSUME IInv, [Next]_vars PROVE IInv'
  OBVIOUS
<1>. QED
  BY BeginLoginStep, RecoverLoginStep, ResumeEndsStep, BootstrapFailsStep, EstablishStep,
     SubmitProvesStep, SubmitFailsStep, SubmitChallengedStep, VerifyPrimaryStep,
     VerifyServiceStep, CodeRejectedStep, CodeAcceptedStep, RegistrationAnsweredStep,
     RedirectProvesStep, VerificationFailsStep, FinishStep, FinishExpiresStep,
     RequireLoginStep, PauseStep, DiscoveredStep, DiscoveryFailsStep,
     CookiesProveStep, LogoutStep, DropStep, SupersedeStep, FallDueStep, StutterStep
  DEF Next

\* IInv is an invariant for every bound on logins and challenges.
THEOREM Invariance == Spec => []IInv
BY InitIInv, NextIInv, PTL DEF Spec

-----------------------------------------------------------------------------
\* Every variable keeps its type, and there is a primary challenge exactly
\* while the Identity machine waits for a second factor.
THEOREM FactorTypeCorrect == Spec => []TypeOK
<1>1. IInv => TypeOK
  BY DEF IInv
<1>. QED BY <1>1, Invariance, PTL

\* Between calls no challenge is offered again for which a code was posted and
\* not explicitly rejected: complete_second_factor takes it before the POST.
THEOREM ChallengesAreNotReplayed == Spec => []NoBlindReplay
<1>1. IInv => NoBlindReplay
  BY DEF IInv, SpentOK, NoBlindReplay
<1>. QED BY <1>1, Invariance, PTL

\* A challenge that is pending or being answered was discovered with the
\* Cookies of the current login: reset_sessions ends every other.
THEOREM CodesAreForThisLogin == Spec => []CodesForThisLogin
<1>1. IInv => CodesForThisLogin
  BY DEF IInv
<1>. QED BY <1>1, Invariance, PTL

\* A service waits for a code only beside an authenticated Identity: no second
\* interaction is opened, as allow_new_identity_handoff is asked first.
THEOREM InteractionsAreAlone == Spec => []OneInteraction
<1>1. IInv => OneInteraction
  BY DEF IInv
<1>. QED BY <1>1, Invariance, PTL

\* A login registers the device at most once, and only if its user asked for
\* it, although no reset clears what the orchestrator kept of an earlier login.
THEOREM DevicesAreRegisteredOnce == Spec => []RegisteredOnce
<1>1. IInv => RegisteredOnce
  BY DEF IInv, TypeOK, TrustOK, RegisteredOnce
<1>. QED BY <1>1, Invariance, PTL

\* A pending primary challenge has the password of the user's own login to
\* complete it with, and that of a recovery has none.
THEOREM PendingContinuesItsLogin == Spec => []ContinuesItsLogin
<1>1. IInv => ContinuesItsLogin
  BY DEF IInv
<1>. QED BY <1>1, Invariance, PTL

\* recover_restored_session_with_private_credential never begins a login while
\* a primary or a service's challenge is pending, except the one its own resume
\* has just raised.
THEOREM RecoveryKeepsInteractions == Spec => NoRecoveryOverInteraction
<1>1. IInv /\ [Next]_vars
        => [login' # login /\ byRecovery' => Pending \subseteq RaisedByResume]_vars
  <2> SUFFICES ASSUME IInv, Next, login' # login, byRecovery'
               PROVE  Pending \subseteq RaisedByResume
    OBVIOUS
  <2>1. RecoverLogin
    BY DEF IInv, TypeOK, Next, BeginLogin, EnterLogin, ResumeEnds, BootstrapFails,
           Establish, SubmitProves, SubmitFails, SubmitChallenged, VerifyPrimary,
           VerifyService, CodeRejected, CodeAccepted, RegistrationAnswered,
           RedirectProves, VerificationFails, Finish, FinishExpires, RequireLogin,
           Pause, Discovered, DiscoveryFails, CookiesProve, Logout, Drop, Supersede,
           FallDue, history
  <2>2. MayRecover
    BY <2>1 DEF RecoverLogin
  <2>3. primary = NULL
    BY <2>2 DEF IInv, TypeOK, StepOK, MayRecover, At
  <2>4. service # NULL => At("resume") /\ service = [login |-> login, nth |-> shown]
    <3>1. service # NULL => service.login = login
      BY DEF IInv, CodesForThisLogin, Pending
    <3>2. service # NULL => At("resume") /\ service.nth = shown
      BY <2>2 DEF IInv, StepOK, OneInteraction, MayRecover, At
    <3>. QED BY <3>1, <3>2 DEF IInv, TypeOK, Challenges
  <2>. QED BY <2>3, <2>4 DEF Pending, RaisedByResume
<1>2. Spec => [][login' # login /\ byRecovery' => Pending \subseteq RaisedByResume]_vars
  BY <1>1, Invariance, PTL DEF Spec
<1>. QED BY <1>2 DEF NoRecoveryOverInteraction

-----------------------------------------------------------------------------
(* The contract with the automatic recovery, one step at a time: what every *)
(* action of the interactive sign-in is to somebody who sees only the state *)
(* of Identity and the portal's challenge.                                  *)

LEMMA BeginLoginMaps ==
  ASSUME IInv, NEW trust \in BOOLEAN, BeginLogin(trust)
  PROVE  Contract!Restart
<1>1. /\ At("idle")
      /\ identity' = "anonymous" /\ service' = NULL /\ loginRequired' = FALSE
      /\ call'.step = "idle" \/ (call'.step = "bootstrap" /\ ~call'.recovery)
  BY DEF BeginLogin, EnterLogin, ResetSessions, Call
<1>. QED BY <1>1 DEF At, Verifying, Contract!Restart, Contract!States

LEMMA LogoutMaps ==
  ASSUME IInv, Logout
  PROVE  Contract!Restart
<1>1. /\ At("idle")
      /\ identity' = "anonymous" /\ service' = NULL /\ loginRequired' = FALSE
      /\ call'.step = "idle" \/ (call'.step = "bootstrap" /\ ~call'.recovery)
  BY DEF Logout, ResetSessions, IInv, TypeOK, StepOK, At, Call, Idle
<1>. QED BY <1>1 DEF At, Verifying, Contract!Restart, Contract!States

LEMMA RecoverLoginMaps ==
  ASSUME IInv, RecoverLogin
  PROVE  Contract!Recovers
BY DEF IInv, TypeOK, StepOK, OneInteraction, Verifying, At, Call, Idle,
       RecoverLogin, EnterLogin, ResetSessions, MayRecover, Contract!Recovers

LEMMA ResumeEndsMaps ==
  ASSUME IInv, ResumeEnds
  PROVE  Contract!Works
BY DEF IInv, TypeOK, StepOK, OneInteraction, Verifying, At, Call, Idle,
       ResumeEnds, session, memory, Contract!Works

LEMMA BootstrapFailsMaps ==
  ASSUME IInv, BootstrapFails
  PROVE  Contract!Works
BY DEF IInv, TypeOK, StepOK, OneInteraction, Verifying, At, Call, Idle,
       BootstrapFails, session, Contract!Works

LEMMA EstablishMaps ==
  ASSUME IInv, Establish
  PROVE  Contract!Enters
BY DEF IInv, TypeOK, StepOK, OneInteraction, Verifying, At, Call, Idle,
       Establish, LoginOK, Goes, Contract!Enters

LEMMA SubmitProvesMaps ==
  ASSUME IInv, SubmitProves
  PROVE  Contract!Proves
BY DEF IInv, TypeOK, StepOK, OneInteraction, Verifying, At, Call, Idle,
       SubmitProves, LoginOK, Goes, Contract!Proves

LEMMA SubmitFailsMaps ==
  ASSUME IInv, SubmitFails
  PROVE  Contract!Rejected
BY DEF IInv, TypeOK, StepOK, OneInteraction, Verifying, At, Call, Idle,
       SubmitFails, Contract!Rejected

LEMMA SubmitChallengedMaps ==
  ASSUME IInv, SubmitChallenged
  PROVE  Contract!Meets
BY DEF IInv, TypeOK, StepOK, OneInteraction, Verifying, At, Call, Idle,
       SubmitChallenged, LoginOK, Contract!Meets

LEMMA VerifyPrimaryMaps ==
  ASSUME IInv, VerifyPrimary
  PROVE  UNCHANGED Contract!vars
BY DEF IInv, TypeOK, StepOK, OneInteraction, Verifying, At, Call, Idle,
       VerifyPrimary, Contract!vars

LEMMA VerifyServiceMaps ==
  ASSUME IInv, VerifyService
  PROVE  UNCHANGED Contract!vars
BY DEF IInv, TypeOK, StepOK, OneInteraction, Verifying, At, Call, Idle,
       VerifyService, memory, Contract!vars

LEMMA CodeRejectedMaps ==
  ASSUME IInv, CodeRejected
  PROVE  UNCHANGED Contract!vars
BY DEF IInv, TypeOK, StepOK, OneInteraction, Verifying, At, Call, Idle,
       CodeRejected, Contract!vars

LEMMA CodeAcceptedMaps ==
  ASSUME IInv, CodeAccepted
  PROVE  UNCHANGED Contract!vars
BY DEF IInv, TypeOK, StepOK, OneInteraction, Verifying, At, Call, Idle,
       CodeAccepted, Goes, session, Calls, Contract!vars

LEMMA RegistrationAnsweredMaps ==
  ASSUME IInv, RegistrationAnswered
  PROVE  UNCHANGED Contract!vars
BY DEF IInv, TypeOK, StepOK, OneInteraction, Verifying, At, Call, Idle,
       RegistrationAnswered, Goes, session, memory, Contract!vars

LEMMA RedirectProvesMaps ==
  ASSUME IInv, RedirectProves
  PROVE  Contract!Answer \/ Contract!AnswerPortal
BY DEF IInv, TypeOK, StepOK, OneInteraction, Verifying, At, Call, Idle,
       RedirectProves, Contract!Answer, Contract!AnswerPortal

LEMMA VerificationFailsMaps ==
  ASSUME IInv, VerificationFails
  PROVE  Contract!Answer \/ Contract!AnswerPortal
BY DEF IInv, TypeOK, StepOK, OneInteraction, Verifying, At, Call, Idle,
       VerificationFails, session, Contract!Answer, Contract!AnswerPortal

LEMMA FinishMaps ==
  ASSUME IInv, Finish
  PROVE  UNCHANGED Contract!vars
BY DEF IInv, TypeOK, StepOK, OneInteraction, Verifying, At, Call, Idle, Finish,
       session, Contract!vars

LEMMA FinishExpiresMaps ==
  ASSUME IInv, FinishExpires
  PROVE  Contract!Requires
BY DEF IInv, TypeOK, StepOK, OneInteraction, Verifying, At, Call, Idle,
       FinishExpires, LoginIsRequired, HandoffAllowed, Contract!Requires

LEMMA RequireLoginMaps ==
  ASSUME IInv, RequireLogin
  PROVE  Contract!Requires
BY DEF IInv, TypeOK, StepOK, OneInteraction, Verifying, At, Call, Idle,
       RequireLogin, LoginIsRequired, HandoffAllowed, Contract!Requires

LEMMA PauseMaps ==
  ASSUME IInv, NEW resuming \in BOOLEAN, Pause(resuming)
  PROVE  Contract!Works
<1>1. call.step \in {"idle", "finish"}
  BY DEF Pause, At
<1>2. call'.step = "discover"
  BY DEF Pause, Call
<1>3. /\ service = NULL /\ identity = "authenticated"
      /\ UNCHANGED <<session, memory>>
  BY DEF Pause, Proven, HandoffAllowed
<1>4. At("discover")' /\ ~At("resume") /\ ~At("resume")' /\ ~Verifying /\ ~Verifying'
  BY <1>1, <1>2 DEF At, Verifying
<1>5. UNCHANGED <<identity, service, proof, loginRequired>>
  BY <1>3 DEF session, memory
<1>. QED BY <1>3, <1>4, <1>5 DEF Contract!Works

LEMMA DiscoveredMaps ==
  ASSUME IInv, Discovered
  PROVE  Contract!Raises
<1>1. service' # NULL
  BY FactorAssumption, NullAssumption
  DEF IInv, TypeOK, Discovered, Discoverable, Challenges
<1>2. At("discover") /\ call'.step \in {"idle", "resume"}
  BY DEF Discovered, Paused, Call, Idle
<1>3. service = NULL /\ identity = "authenticated"
  BY <1>2 DEF IInv, StepOK, At
<1>4. UNCHANGED <<identity, proof, loginRequired>>
  BY DEF Discovered
<1>. QED BY <1>1, <1>2, <1>3, <1>4 DEF At, Verifying, Contract!Raises

LEMMA DiscoveryFailsMaps ==
  ASSUME IInv, DiscoveryFails
  PROVE  Contract!Works
BY DEF IInv, TypeOK, StepOK, OneInteraction, Verifying, At, Call, Idle,
       DiscoveryFails, Paused, session, Contract!Works

LEMMA CookiesProveMaps ==
  ASSUME IInv, CookiesProve
  PROVE  Contract!CookieProof
BY DEF IInv, TypeOK, StepOK, OneInteraction, Verifying, At, Call, Idle,
       CookiesProve, HandoffAllowed, Contract!CookieProof

LEMMA DropMaps ==
  ASSUME IInv, Drop
  PROVE  Contract!Answer \/ Contract!AnswerPortal \/ Contract!Works
BY DEF IInv, TypeOK, StepOK, OneInteraction, Verifying, At, Call, Idle, Drop,
       session, memory, Contract!Answer, Contract!AnswerPortal, Contract!Works

LEMMA SupersedeMaps ==
  ASSUME IInv, Supersede
  PROVE  UNCHANGED Contract!vars
BY DEF IInv, TypeOK, StepOK, OneInteraction, Verifying, At, Call, Idle,
       Supersede, memory, Contract!vars

LEMMA FallDueMaps ==
  ASSUME IInv, FallDue
  PROVE  Contract!FallsDue
BY DEF IInv, TypeOK, StepOK, OneInteraction, Verifying, At, Call, Idle,
       FallDue, memory, Contract!FallsDue

LEMMA InitMaps == Init => Contract!Init
BY DEF Init, Idle, Call, At, Verifying, Contract!Init

LEMMA NextMaps == IInv /\ [Next]_vars => [Contract!Next]_(Contract!vars)
<1> SUFFICES ASSUME IInv, [Next]_vars PROVE [Contract!Next]_(Contract!vars)
  OBVIOUS
<1>1. CASE UNCHANGED vars
  BY <1>1 DEF vars, session, memory, Verifying, At, Contract!vars
<1>2. CASE Next
  BY <1>2, BeginLoginMaps, LogoutMaps, RecoverLoginMaps, ResumeEndsMaps,
     BootstrapFailsMaps, EstablishMaps, SubmitProvesMaps, SubmitFailsMaps,
     SubmitChallengedMaps, VerifyPrimaryMaps, VerifyServiceMaps,
     CodeRejectedMaps, CodeAcceptedMaps, RegistrationAnsweredMaps,
     RedirectProvesMaps, VerificationFailsMaps, FinishMaps, FinishExpiresMaps,
     RequireLoginMaps, PauseMaps, DiscoveredMaps, DiscoveryFailsMaps,
     CookiesProveMaps, DropMaps, SupersedeMaps, FallDueMaps
  DEF Next, Contract!Next
<1>. QED BY <1>1, <1>2

\* The interactive sign-in keeps the contract with the automatic recovery: it
\* answers a challenge only for the user and one call at a time, an automatic
\* login discards only the challenge its own resume raised, and once a login is
\* required no other follows than the user's.
THEOREM Refinement == Spec => ImplementsSignIn
<1>1. Spec => Contract!Spec
  BY InitMaps, NextMaps, Invariance, PTL DEF Spec, Contract!Spec
<1>. QED BY <1>1 DEF ImplementsSignIn
=============================================================================
