---------------------- MODULE RecoveryLifecycle_proofs ----------------------
(***************************************************************************)
(* The theorems about the automatic recovery, for every set of services    *)
(* and any nesting left behind by dropped futures.                         *)
(***************************************************************************)
EXTENDS RecoveryLifecycleInv, FiniteSetTheorems, TLAPS

-----------------------------------------------------------------------------
(* Names, services and frames.                                             *)

LEMMA Names ==
  /\ "identity" \notin Targets /\ "resume" \notin Targets /\ "direct" \notin Targets
  /\ "none" \notin Targets
  /\ Targets \subseteq Services /\ Services \subseteq Callers
  /\ {"identity", "resume", "direct"} \subseteq Callers
  /\ Callers = Targets \cup {"identity", "resume", "direct"}
  /\ Services = Targets \cup {"identity"}
BY TargetsAssumption DEF Services, Callers

LEMMA Parents ==
  \A s : HasParent(s) =>
    /\ s \in {"library", "registrar"}
    /\ ParentOf[s] \in {"info", "learn"} /\ ~HasParent(ParentOf[s]) /\ ParentOf[s] # s
    /\ \A t : HasParent(t) /\ ParentOf[t] = ParentOf[s] => t = s
    /\ s \in Targets => ParentOf[s] \in Targets
<1>1. ParentOf["library"] = "info" /\ ParentOf["registrar"] = "learn"
  BY DEF ParentOf
<1> QED
  BY <1>1, TargetsAssumption DEF HasParent

LEMMA FiniteServices ==
  /\ IsFiniteSet({}) /\ Cardinality({}) = 0
  /\ \A S : Cardinality(S \cap Targets) \in Nat
  /\ \A s : Cardinality({s}) = 1
  /\ \A s, t : s # t => Cardinality({s, t}) = 2
<1>1. IsFiniteSet({"info", "library", "learn", "registrar"})
  <2>1. IsFiniteSet({"info"})
    BY FS_Singleton
  <2>2. IsFiniteSet({"info"} \cup {"library"})
    BY <2>1, FS_AddElement
  <2>3. IsFiniteSet({"info"} \cup {"library"} \cup {"learn"})
    BY <2>2, FS_AddElement
  <2>4. IsFiniteSet({"info"} \cup {"library"} \cup {"learn"} \cup {"registrar"})
    BY <2>3, FS_AddElement
  <2>5. {"info", "library", "learn", "registrar"}
          = {"info"} \cup {"library"} \cup {"learn"} \cup {"registrar"}
    OBVIOUS
  <2> QED
    BY <2>4, <2>5
<1>2. IsFiniteSet(Targets)
  BY <1>1, FS_Subset, TargetsAssumption
<1>3. \A S : IsFiniteSet(S \cap Targets)
  <2>1. \A S : S \cap Targets \in SUBSET Targets
    OBVIOUS
  <2> QED
    BY <1>2, <2>1, FS_Subset
<1>4. \A S : Cardinality(S \cap Targets) \in Nat
  BY <1>3, FS_CardinalityType
<1>5. \A s, t : s # t => Cardinality({s, t}) = 2
  <2> SUFFICES ASSUME NEW s, NEW t, s # t PROVE Cardinality({s, t}) = 2
    OBVIOUS
  <2>1. IsFiniteSet({s}) /\ Cardinality({s}) = 1
    BY FS_Singleton
  <2>2. Cardinality({s} \cup {t}) = Cardinality({s}) + 1
    BY <2>1, FS_AddElement
  <2>3. {s} \cup {t} = {s, t}
    OBVIOUS
  <2> QED
    BY <2>1, <2>2, <2>3
<1> QED
  BY <1>4, <1>5, FS_EmptySet, FS_Singleton

-----------------------------------------------------------------------------
(* What the operators on the state return.                                 *)

LEMMA RequireLoginReturns ==
  ASSUME NEW i \in Identities
  PROVE  /\ RequireLogin(i) \in Identities
         /\ RequireLogin(i).login /\ ~RequireLogin(i).restored
         /\ RequireLogin(i).deadline = i.deadline
         /\ RequireLogin(i).state =
              IF i.state \in {"authenticated", "authenticating"} THEN "expired" ELSE i.state
BY DEF RequireLogin, Identities, Deadlines

LEMMA OpenGate == Open \in Gates /\ Sealed \in Gates
BY DEF Open, Sealed, Gates, Deadlines

LEMMA ClearedReturns ==
  ASSUME NEW g \in [Services -> Gates], NEW S
  PROVE  /\ Cleared(g, S) \in [Services -> Gates]
         /\ \A s \in Services : Cleared(g, S)[s] = IF s \in S THEN Open ELSE g[s]
BY OpenGate DEF Cleared

LEMMA SealedReturns ==
  ASSUME gate \in [Services -> Gates], NEW s \in Services
  PROVE  /\ SealedIfPending(s) \in [Services -> Gates]
         /\ \A t \in Services :
              SealedIfPending(s)[t] = IF t = s /\ s \in awaiting THEN Sealed ELSE gate[t]
BY OpenGate DEF SealedIfPending

\* The gates after a finished cycle, and after a deadline.
LEMMA CycleReturns ==
  ASSUME NEW g \in [Services -> Gates]
  PROVE  /\ CycleFinished(g) \in [Services -> Gates]
         /\ \A s \in Services :
              CycleFinished(g)[s] = IF s = "identity" \/ g[s].result = "notice" THEN Open
                                    ELSE g[s]
<1> DEFINE S == {"identity"} \cup {s \in Services : g[s].result = "notice"}
<1>1. CycleFinished(g) = Cleared(g, S)
  BY DEF CycleFinished
<1>2. \A s \in Services : s \in S <=> s = "identity" \/ g[s].result = "notice"
  OBVIOUS
<1> HIDE DEF S
<1> QED
  BY <1>1, <1>2, ClearedReturns

LEMMA ProbeReopenedReturns ==
  ASSUME NEW g \in [Services -> Gates], NEW s \in Services
  PROVE  /\ ProbeReopened(g, s) \in [Services -> Gates]
         /\ \A t \in Services :
              ProbeReopened(g, s)[t] = IF t = s /\ g[s].retry = "due" THEN Open ELSE g[t]
BY ClearedReturns DEF ProbeReopened

LEMMA GateReopenedReturns ==
  ASSUME gate \in [Services -> Gates]
  PROVE  /\ GateReopened \in [Services -> Gates]
         /\ \A t \in Services :
              GateReopened[t] = IF t = "identity" /\ LoginDue THEN Open ELSE gate[t]
BY ClearedReturns DEF GateReopened

LEMMA ResumeReopenedReturns ==
  ASSUME resume \in Resumes
  PROVE  /\ ResumeReopened \in Resumes
         /\ ResumeReopened.at = IF LoginDue THEN "none" ELSE resume.at
BY DEF ResumeReopened, Resumes, Deadlines

LEMMA ResumeFinishedReturns ==
  ASSUME NEW r \in Resumes
  PROVE  /\ ResumeFinished(r) \in Resumes /\ ResumeFinished(r).at = "none"
         /\ [ResumeFinished(r) EXCEPT !.opened = FALSE] \in Resumes
         /\ [ResumeFinished(r) EXCEPT !.opened = FALSE].at = "none"
BY DEF ResumeFinished, Resumes, Deadlines

LEMMA PortalReopenedReturns ==
  ASSUME portal \in Portals, NEW due
  PROVE  /\ PortalReopened(due) \in Portals
         /\ PortalReopened(due).up = portal.up
         /\ PortalReopened(due).proof = portal.proof
         /\ PortalReopened(due).depth = portal.depth
BY DEF PortalReopened, Portals

\* A gate whose attempt is taken.
LEMMA AttemptedReturns ==
  ASSUME NEW g \in [Services -> Gates], NEW s \in Services, NEW h,
         h = [g EXCEPT ![s].attempted = TRUE]
  PROVE  /\ h \in [Services -> Gates]
         /\ h[s].attempted /\ h[s].result = g[s].result /\ h[s].retry = g[s].retry
         /\ h[s].kind = g[s].kind
         /\ \A t \in Services \ {s} : h[t] = g[t]
<1>1. g[s] \in Gates
  OBVIOUS
<1>2. [g[s] EXCEPT !.attempted = TRUE] \in Gates
  BY <1>1 DEF Gates
<1>3. h = [g EXCEPT ![s] = [g[s] EXCEPT !.attempted = TRUE]]
  OBVIOUS
<1>4. h[s] = [g[s] EXCEPT !.attempted = TRUE] /\ \A t \in Services \ {s} : h[t] = g[t]
  BY <1>3
<1>5. h \in [Services -> Gates]
  BY <1>2, <1>3
<1> QED
  BY <1>1, <1>4, <1>5 DEF Gates

LEMMA UnwoundReturns ==
  ASSUME NEW p \in Portals, NEW S
  PROVE  /\ Unwound(p, S) \in Portals
         /\ Unwound(p, S).up = p.up
         /\ Unwound(p, S).proof <=> p.proof /\ root \cap S = {}
         /\ Unwound(p, S).depth =
              IF p.depth > Cardinality(S \cap Targets)
              THEN p.depth - Cardinality(S \cap Targets) ELSE 0
<1> DEFINE n == Cardinality(S \cap Targets)
<1>1. n \in Nat
  BY FiniteServices
<1>2. Unwound(p, S) = [p EXCEPT !.depth = IF @ > n THEN @ - n ELSE 0,
                                !.proof = @ /\ root \cap S = {}]
  BY DEF Unwound
<1> HIDE DEF n
<1>3. (IF p.depth > n THEN p.depth - n ELSE 0) \in Nat
  BY <1>1 DEF Portals
<1>4. (p.proof /\ root \cap S = {}) \in BOOLEAN
  OBVIOUS
<1> QED
  BY <1>2, <1>3, <1>4 DEF Portals, n

-----------------------------------------------------------------------------
(* A call that fails: all its frames end.                                  *)

\* What the gates of g become, and the rest that every failure has in common.
Failed(g, p, why, kept) ==
  /\ gate' = [s \in Services |->
                IF s \in Running THEN Recorded(g[s], why, s \in kept) ELSE g[s]]
  /\ portal' = Unwound(p, Running)
  /\ Ends
  /\ history'.tainted =
       IF why = "notice" THEN history.tainted ELSE history.tainted \cup (Running \ kept)
  /\ history'.spent = history.spent

LEMMA FailsIsFailed ==
  ASSUME TypeOK, NEW g, NEW p, NEW why, NEW kept, Fails(g, p, why, kept)
  PROVE  Failed(g, p, why, kept) /\ history' \in Histories
BY DEF TypeOK, Histories, Fails, Failed, Running

LEMMA PostUnansweredFails ==
  ASSUME TypeOK, NEW c, PostUnanswered(c)
  PROVE  Failed(gate, portal, "failed", {})
<1>1. gate' = [s \in Services |->
                 IF s \in Running THEN Recorded(gate[s], "failed", s \in {}) ELSE gate[s]]
  <2> DEFINE G == [s \in Services |->
                     IF s \in Running THEN Recorded(gate[s], "failed", FALSE) ELSE gate[s]]
             H == [s \in Services |->
                     IF s \in Running THEN Recorded(gate[s], "failed", s \in {}) ELSE gate[s]]
  <2>1. \A s \in Services : G[s] = H[s]
    BY DEF Recorded
  <2>2. G = H
    BY <2>1
  <2> QED
    BY <2>2 DEF PostUnanswered
<1>2. portal' = Unwound(portal, Running) /\ Ends
  BY DEF PostUnanswered
<1>3. history'.tainted = history.tainted \cup (Running \ {}) /\ history'.spent = history.spent
  BY DEF PostUnanswered, TypeOK, Histories
<1> QED
  BY <1>1, <1>2, <1>3 DEF Failed

LEMMA EndsIdle ==
  ASSUME Ends
  PROVE  /\ \A c \in Callers : pc'[c] = "idle"
         /\ pc' \in [Callers -> Steps] /\ direct' = "none" /\ root' = {} /\ clean' = {}
         /\ Running' = {} /\ Nested' = {} /\ ~AtAwait' /\ StackOK'
<1>1. \A c \in Callers : pc'[c] = "idle"
  BY DEF Ends
<1>2. pc' \in [Callers -> Steps] /\ direct' = "none" /\ root' = {} /\ clean' = {}
  BY DEF Ends, Steps
<1>3. Running' = {} /\ Nested' = {} /\ ~AtAwait'
  BY <1>1, Names DEF Running, Nested, AtAwait, Awaits
<1>4. StackOK'
  BY <1>1, <1>2, <1>3, Names DEF StackOK, Active
<1> QED
  BY <1>1, <1>2, <1>3, <1>4

\* The shape of the frames that run.
LEMMA NestedFrames ==
  ASSUME StackOK
  PROVE  \/ Nested = {}
         \/ \E s \in Targets : Nested = {s}
         \/ \E s \in Targets :
              HasParent(s) /\ ParentOf[s] \in Targets /\ Nested = {s, ParentOf[s]}
<1>1. \A s, t \in Nested : s = t \/ (HasParent(s) /\ t = ParentOf[s])
                                 \/ (HasParent(t) /\ s = ParentOf[t])
  BY DEF Nested, Running, StackOK
<1>2. Nested \subseteq Targets
  BY DEF Nested
<1>3. CASE \E s \in Nested : HasParent(s) /\ ParentOf[s] \in Nested
  <2>1. PICK s \in Nested : HasParent(s) /\ ParentOf[s] \in Nested
    BY <1>3
  <2>2. \A t \in Nested : t = s \/ t = ParentOf[s]
    BY <1>1, <2>1, Parents
  <2> QED
    BY <2>1, <2>2, <1>2
<1>4. CASE ~(\E s \in Nested : HasParent(s) /\ ParentOf[s] \in Nested)
  BY <1>1, <1>2, <1>4
<1> QED
  BY <1>3, <1>4

\* A proof that a failure keeps is covered by what it leaves of the depth.
LEMMA FailedChain ==
  ASSUME TypeOK, StackOK, ChainOK, NEW g, NEW p \in Portals, NEW why, NEW kept,
         Failed(g, p, why, kept), p.depth = portal.depth, p.proof => portal.depth > 0
  PROVE  ChainOK'
<1>1. Nested' = {}
  BY EndsIdle DEF Failed
<1>2. SUFFICES ASSUME portal'.proof PROVE portal'.depth > 0
  BY <1>1 DEF ChainOK, ProofInsideChain
<1>3. portal' = Unwound(p, Running)
  BY DEF Failed
<1>4. p.proof /\ root \cap Running = {}
  BY <1>2, <1>3, UnwoundReturns
<1>5. root = {} /\ portal.depth > 0 /\ portal.depth \in Nat
  BY <1>4 DEF StackOK, Nested, TypeOK, Portals
<1>6. Cardinality(Nested) < portal.depth
  <2>1. CASE Nested = {}
    BY <2>1, <1>5, FiniteServices
  <2>2. CASE \E s \in Targets : Nested = {s}
    <3>1. PICK s \in Targets : Nested = {s}
      BY <2>2
    <3>2. portal.depth > 1
      BY <3>1, <1>5, Parents DEF ChainOK
    <3> QED
      BY <3>1, <3>2, FiniteServices
  <2>3. CASE \E s \in Targets :
               HasParent(s) /\ ParentOf[s] \in Targets /\ Nested = {s, ParentOf[s]}
    <3>1. PICK s \in Targets : HasParent(s) /\ Nested = {s, ParentOf[s]}
      BY <2>3
    <3>2. portal.depth > 2
      BY <3>1, <1>5 DEF ChainOK
    <3>3. Cardinality(Nested) = 2
      BY <3>1, Parents, FiniteServices
    <3> QED
      BY <3>2, <3>3
  <2> QED
    BY <2>1, <2>2, <2>3, NestedFrames
<1>7. Cardinality(Running \cap Targets) < p.depth /\ Cardinality(Running \cap Targets) \in Nat
  BY <1>6, FiniteServices DEF Nested
<1> QED
  BY <1>3, <1>5, <1>7, UnwoundReturns

\* A gate records the failure of its frame, and may open by itself only where
\* nothing may have been consumed.
LEMMA FailedGates ==
  ASSUME TypeOK, GateOK, NEW g \in [Services -> Gates], NEW p, NEW kept,
         NEW why \in {"notice", "transient", "failed"},
         Failed(g, p, why, kept), resume' \in Resumes,
         \A s \in Services : g[s].result = "none" => g[s].retry = "none",
         g["identity"].result # "ok",
         \A s \in Running \cup history.tainted : g[s].retry = "none",
         \A s \in history.tainted \cap Targets : Shut(g[s]),
         "identity" \in Running => "identity" \notin history.tainted \/ why = "failed"
  PROVE  /\ gate' \in [Services -> Gates]
         /\ OneAttempt' /\ NoBlindRetry' /\ gate'["identity"].result # "ok"
         /\ \A s \in Services : gate'[s].result = "none" => gate'[s].retry = "none"
         /\ \A s \in history'.tainted \cap Targets : Shut(gate'[s])
         /\ \A s \in Running :
              gate'[s].result = why /\ (gate'[s].retry # "none" => why # "failed")
         /\ \A s \in Services \ Running : gate'[s] = g[s]
<1>1. \A s \in Services : gate'[s] = IF s \in Running THEN Recorded(g[s], why, s \in kept)
                                     ELSE g[s]
  BY DEF Failed
<1>2. /\ history.tainted \subseteq Services /\ Running \subseteq Services
      /\ history'.tainted \subseteq Services
  BY DEF TypeOK, Histories, Running, Failed
<1>3. \A s \in Running :
        /\ gate'[s] \in Gates /\ gate'[s].result = why
        /\ gate'[s].retry # "none" =>
             (why = "notice" /\ resume'.at # "none") \/ (why = "transient" /\ s \in kept)
  <2> SUFFICES ASSUME NEW s \in Running
               PROVE  /\ gate'[s] \in Gates /\ gate'[s].result = why
                      /\ gate'[s].retry # "none" =>
                           \/ why = "notice" /\ resume'.at # "none"
                           \/ why = "transient" /\ s \in kept
    OBVIOUS
  <2> DEFINE gs == g[s]
             gn == gate'[s]
  <2>1. /\ gn = Recorded(gs, why, s \in kept)
        /\ gs \in Gates /\ gs.retry = "none"
    BY <1>1, <1>2
  <2> HIDE DEF gs, gn
  <2>2. /\ gn \in Gates /\ gn.result = why
        /\ gn.retry # "none" =>
             (why = "notice" /\ resume'.at # "none") \/ (why = "transient" /\ s \in kept)
    BY <2>1 DEF Recorded, Gates, Resumes, Deadlines
  <2> QED
    BY <2>2 DEF gn
<1>4. \A s \in Services \ Running : gate'[s] = g[s]
  BY <1>1
<1>5. gate' \in [Services -> Gates]
  BY <1>3, <1>4 DEF Failed
<1>6. OneAttempt'
  BY EndsIdle DEF Failed, OneAttempt
<1>7. Running \cap Targets \cap history.tainted = {}
  BY DEF GateOK, OneAttempt
<1>8. NoBlindRetry'
  <2> SUFFICES ASSUME NEW s \in Services, gate'[s].retry # "none", s \in history'.tainted
               PROVE  FALSE
    BY DEF NoBlindRetry
  <2>1. CASE s \in Running
    <3>1. s \notin history.tainted
      BY <2>1, <1>3, <1>7, Names
    <3> QED
      BY <2>1, <3>1, <1>3 DEF Failed
  <2>2. CASE s \notin Running
    BY <2>2, <1>4 DEF Failed
  <2> QED
    BY <2>1, <2>2
<1>9. \A s \in history'.tainted \cap Targets : Shut(gate'[s])
  <2> SUFFICES ASSUME NEW s \in history'.tainted \cap Targets PROVE Shut(gate'[s])
    OBVIOUS
  <2>1. CASE s \in Running
    BY <2>1, <1>3, <1>7 DEF Failed, Shut
  <2>2. CASE s \notin Running
    BY <2>2, <1>2, <1>4 DEF Failed
  <2> QED
    BY <2>1, <2>2
<1>10. /\ gate'["identity"].result # "ok"
       /\ \A s \in Services : gate'[s].result = "none" => gate'[s].retry = "none"
  BY <1>3, <1>4, Names
<1>11. \A s \in Running :
         gate'[s].result = why /\ (gate'[s].retry # "none" => why # "failed")
  BY <1>3
<1> QED
  BY <1>4, <1>5, <1>6, <1>8, <1>9, <1>10, <1>11

-----------------------------------------------------------------------------
(* The stack of frames.                                                    *)

LEMMA StackStays ==
  ASSUME StackOK, UNCHANGED <<pc, direct, root>>
  PROVE  StackOK'
BY DEF StackOK, Active, Nested, Running, Callers, Services

\* Nothing waits and nothing is left of an earlier call.
LEMMA IdleStack ==
  ASSUME TypeOK, StackOK, Idle
  PROVE  /\ \A c \in Callers : pc[c] = "idle" /\ ~Active(c)
         /\ direct = "none" /\ root = {} /\ Running = {} /\ Nested = {} /\ ~AtAwait
BY Names DEF Idle, StackOK, Active, Running, Nested, AtAwait, Awaits

LEMMA StackBegins ==
  ASSUME TypeOK, StackOK, Idle, NEW c, NEW step,
         pc' = [pc EXCEPT ![c] = step], root' = root,
         \/ c \in Services /\ step = "begin" /\ direct' = direct
         \/ c = "resume" /\ step \in {"recover", "bootstrap"} /\ direct' = direct
         \/ c = "direct" /\ step \in {"bootstrap", "establish"} /\ direct' \in Targets
  PROVE  /\ StackOK' /\ pc' \in [Callers -> Steps] /\ direct' \in Targets \cup {"none"}
         /\ Running' = {} /\ Nested' = {}
         /\ \A d \in Callers : pc'[d] = IF d = c THEN step ELSE "idle"
<1>1. c \in Callers /\ step \in Steps
  BY Names DEF Steps, Awaits
<1>2. /\ pc' \in [Callers -> Steps]
      /\ \A d \in Callers : pc'[d] = IF d = c THEN step ELSE "idle"
  BY <1>1, IdleStack DEF TypeOK
<1>3. direct' \in Targets \cup {"none"} /\ root' = {}
  BY IdleStack DEF TypeOK
<1>4. Running' = {} /\ Nested' = {}
  BY <1>2, Names DEF Running, Nested
<1>5. c # "direct" => direct' = "none"
  BY IdleStack, Names
<1>6. \A d, e \in Callers : Active(d)' /\ Active(e)' => d = e
  BY <1>2 DEF Active
<1>7. \A d \in Callers : pc'[d] = "idle" \/ (d = c /\ Active(d)')
  BY <1>2 DEF Active
<1>8. \A s, t \in Targets : pc'[s] # "idle" /\ pc'[t] # "idle" => s = t
  BY <1>2, Names
<1> QED
  BY <1>2, <1>3, <1>4, <1>5, <1>6, <1>7, <1>8, Names DEF StackOK

\* The steps a running frame goes through.
StepsOf(c) ==
  CASE c = "identity" -> {"inner", "probe", "recover", "discover", "submit"}
    [] c = "resume" -> {"bootstrap", "portal", "recover", "discover", "submit"}
    [] c = "direct" -> {"bootstrap", "portal", "establish"}
    [] OTHER -> {"prepare", "bootstrap", "portal", "parent", "establish"}

LEMMA StackMoves ==
  ASSUME TypeOK, StackOK, NEW c \in Callers, Active(c), NEW step \in StepsOf(c),
         pc' = [pc EXCEPT ![c] = step], direct' = direct,
         root' \subseteq root \cup ({c} \cap Targets),
         step = "parent" => HasParent(c),
         c = "direct" /\ step = "establish" => direct # "none"
  PROVE  /\ StackOK' /\ pc' \in [Callers -> Steps] /\ root' \subseteq Targets
         /\ \A d \in Callers : pc'[d] = IF d = c THEN step ELSE pc[d]
         /\ Running' = Running \cup ({c} \cap Services)
         /\ Nested' = Nested \cup ({c} \cap Targets)
<1>1. step \in Steps /\ step \notin {"idle", "begin", "identity", "nested"}
  BY DEF Steps, Awaits, StepsOf
<1>2. /\ pc' \in [Callers -> Steps]
      /\ \A d \in Callers : pc'[d] = IF d = c THEN step ELSE pc[d]
  BY <1>1 DEF TypeOK
<1>3. \A d \in Callers : Active(d)' <=> d = c
  BY <1>1, <1>2 DEF StackOK, Active
<1>4. Running' = Running \cup ({c} \cap Services) /\ Nested' = Nested \cup ({c} \cap Targets)
  BY <1>1, <1>2, Names DEF Running, Nested
<1>5. root' \subseteq Nested' /\ root' \subseteq Targets
  BY <1>4 DEF StackOK, Nested
<1>6. \A d \in Callers : pc'[d] = "idle" <=> pc[d] = "idle"
  BY <1>1, <1>2 DEF Active
<1>7. \A d \in Callers : pc'[d] \in {"identity", "nested"} => pc'[d] = pc[d]
  BY <1>1, <1>2
<1>8. /\ pc'["identity"] \in {"idle", "begin", "inner", "probe", "recover", "discover", "submit"}
      /\ pc'["resume"] \in {"idle", "bootstrap", "portal", "recover", "discover", "submit"}
      /\ pc'["direct"] \in {"idle", "bootstrap", "portal", "establish", "nested"}
  BY <1>2, Names DEF StackOK, StepsOf
<1>9. \A s \in Targets :
        /\ pc'[s] \in {"idle", "begin", "identity", "prepare", "bootstrap", "portal", "parent",
                       "nested", "establish"}
        /\ pc'[s] = "identity" => pc'["identity"] # "idle"
        /\ pc'[s] = "nested" => HasParent(s) /\ pc'[ParentOf[s]] # "idle"
        /\ pc'[s] = "parent" => HasParent(s)
  BY <1>2, <1>6, <1>7, Names, Parents DEF StackOK, StepsOf
<1>10. \A s, t \in Targets : pc'[s] # "idle" /\ pc'[t] # "idle" =>
        \/ s = t
        \/ HasParent(s) /\ t = ParentOf[s] /\ pc'[s] = "nested"
        \/ HasParent(t) /\ s = ParentOf[t] /\ pc'[t] = "nested"
  <2> SUFFICES ASSUME NEW s \in Targets, NEW t \in Targets, pc'[s] # "idle", pc'[t] # "idle"
               PROVE  \/ s = t
                      \/ HasParent(s) /\ t = ParentOf[s] /\ pc'[s] = "nested"
                      \/ HasParent(t) /\ s = ParentOf[t] /\ pc'[t] = "nested"
    OBVIOUS
  <2>1. pc[s] # "idle" /\ pc[t] # "idle"
    BY <1>6, Names
  <2>2. pc[c] # "nested"
    BY DEF Active
  <2> QED
    BY <2>1, <2>2, <1>2, Names DEF StackOK
<1>11. /\ pc'["direct"] = "nested" =>
           direct' = "library" /\ "library" \in Targets /\ pc'["library"] # "idle"
       /\ direct' # "none" => pc'["direct"] # "idle"
       /\ pc'["direct"] = "establish" => direct' # "none"
  BY <1>2, <1>6, <1>7, Names DEF StackOK
<1>12. Active("direct")' \/ pc'["resume"] # "idle" =>
         \A d \in Callers : Active(d)' \/ pc'[d] = "idle"
  BY <1>3, <1>6, Names DEF StackOK
<1> QED
  BY <1>2, <1>3, <1>4, <1>5, <1>8, <1>9, <1>10, <1>11, <1>12 DEF StackOK

\* The last frame of a resume, or of a call outside the gates, returns.
LEMMA StackLast ==
  ASSUME TypeOK, StackOK, NEW c \in {"resume", "direct"}, Active(c),
         c = "direct" => direct = "none",
         pc' = [pc EXCEPT ![c] = "idle"], direct' = direct, root' = root
  PROVE  /\ StackOK' /\ pc' \in [Callers -> Steps]
         /\ \A d \in Callers : pc'[d] = "idle"
         /\ direct' = "none" /\ root' = {} /\ Running' = {} /\ Nested' = {} /\ ~AtAwait'
<1>1. c \in Callers /\ "idle" \in Steps
  BY Names DEF Steps
<1>2. \A d \in Callers : d # c => pc[d] = "idle"
  BY Names DEF StackOK, Active
<1>3. pc' \in [Callers -> Steps] /\ \A d \in Callers : pc'[d] = "idle"
  BY <1>1, <1>2 DEF TypeOK
<1>4. direct' = "none"
  BY <1>2, Names DEF StackOK
<1>5. root' = {}
  BY <1>2, Names DEF StackOK, Nested, Running
<1>6. Running' = {} /\ Nested' = {} /\ ~AtAwait'
  BY <1>3, Names DEF Running, Nested, AtAwait, Awaits
<1>7. StackOK'
  BY <1>3, <1>4, <1>5, <1>6, Names DEF StackOK, Active
<1> QED
  BY <1>3, <1>4, <1>5, <1>6, <1>7

\* A frame waits for another one that begins.
LEMMA StackPushes ==
  ASSUME TypeOK, StackOK, NEW c \in Callers, Active(c), NEW wait, NEW d \in Services,
         pc' = [pc EXCEPT ![c] = wait, ![d] = "begin"], direct' = direct,
         \/ c \in Targets /\ wait = "identity" /\ d = "identity" /\ root' \subseteq root \cup {c}
         \/ c \in Targets /\ wait = "nested" /\ HasParent(c) /\ d = ParentOf[c] /\ root' = root
            /\ pc[c] = "parent"
         \/ c = "direct" /\ wait = "nested" /\ d = "library" /\ direct = "library" /\ root' = root
  PROVE  /\ StackOK' /\ pc' \in [Callers -> Steps] /\ root' \subseteq Targets
         /\ pc[d] = "idle" /\ c # d
         /\ \A e \in Callers : pc'[e] = IF e = d THEN "begin" ELSE IF e = c THEN wait ELSE pc[e]
         /\ Running' = Running \cup ({c} \cap Services)
         /\ Nested' = Nested \cup ({c} \cap Targets)
<1>1. /\ {wait, "begin"} \subseteq Steps /\ wait \in {"identity", "nested"}
      /\ d \in Callers
  BY Names DEF Steps
<1>2. c # d
  BY Names, Parents
<1>3. pc[d] = "idle"
  <2>1. CASE d = "identity"
    BY <2>1, <1>2, Names DEF StackOK, Active
  <2>2. CASE c \in Targets /\ d = ParentOf[c] /\ HasParent(c) /\ pc[c] = "parent"
    <3>1. d \in Targets /\ c # d /\ pc[c] # "idle" /\ ~HasParent(d)
      BY <2>2, Parents
    <3> QED
      BY <2>2, <3>1 DEF StackOK
  <2>3. CASE c = "direct"
    BY <2>3, <1>1, <1>2 DEF StackOK, Active
  <2> QED
    BY <2>1, <2>2, <2>3, Names
<1>4. /\ pc' \in [Callers -> Steps]
      /\ \A e \in Callers : pc'[e] = IF e = d THEN "begin" ELSE IF e = c THEN wait ELSE pc[e]
  BY <1>1, <1>2 DEF TypeOK
<1>5. \A e \in Callers : Active(e)' <=> e = d
  BY <1>1, <1>4 DEF StackOK, Active
<1>6. Running' = Running \cup ({c} \cap Services) /\ Nested' = Nested \cup ({c} \cap Targets)
  BY <1>1, <1>3, <1>4, Names DEF Running, Nested
<1>7. root' \subseteq Nested' /\ root' \subseteq Targets
  BY <1>6 DEF StackOK, Nested
<1>8. pc[c] # "idle" /\ \A e \in Callers : pc'[e] = "idle" <=> pc[e] = "idle" /\ e # d
  BY <1>1, <1>4 DEF Active
<1>9. /\ pc'["identity"] \in {"idle", "begin", "inner", "probe", "recover", "discover", "submit"}
      /\ pc'["resume"] \in {"idle", "bootstrap", "portal", "recover", "discover", "submit"}
      /\ pc'["direct"] \in {"idle", "bootstrap", "portal", "establish", "nested"}
  BY <1>4, Names DEF StackOK
<1>10. \A s \in Targets :
        /\ pc'[s] \in {"idle", "begin", "identity", "prepare", "bootstrap", "portal", "parent",
                       "nested", "establish"}
        /\ pc'[s] = "identity" => pc'["identity"] # "idle"
        /\ pc'[s] = "nested" => HasParent(s) /\ pc'[ParentOf[s]] # "idle"
        /\ pc'[s] = "parent" => HasParent(s)
  <2> SUFFICES ASSUME NEW s \in Targets
               PROVE  /\ pc'[s] \in {"idle", "begin", "identity", "prepare", "bootstrap",
                                     "portal", "parent", "nested", "establish"}
                      /\ pc'[s] = "identity" => pc'["identity"] # "idle"
                      /\ pc'[s] = "nested" => HasParent(s) /\ pc'[ParentOf[s]] # "idle"
                      /\ pc'[s] = "parent" => HasParent(s)
    OBVIOUS
  <2>1. CASE s = d
    BY <2>1, <1>4, Names
  <2>2. CASE s = c /\ s # d
    <3>1. CASE wait = "identity"
      BY <3>1, <2>2, <1>4, <1>8, Names
    <3>2. CASE wait = "nested"
      BY <3>2, <2>2, <1>4, <1>8, Names
    <3> QED
      BY <3>1, <3>2, <1>1
  <2>3. CASE s # c /\ s # d
    <3>1. pc'[s] = pc[s]
      BY <2>3, <1>4, Names
    <3>2. /\ pc[s] \in {"idle", "begin", "identity", "prepare", "bootstrap", "portal", "parent",
                       "nested", "establish"}
          /\ pc[s] = "identity" => pc["identity"] # "idle"
          /\ pc[s] = "nested" => HasParent(s) /\ pc[ParentOf[s]] # "idle"
          /\ pc[s] = "parent" => HasParent(s)
      BY DEF StackOK
    <3>3. pc[s] = "identity" => pc'["identity"] # "idle"
      BY <1>8, <3>2, Names
    <3>4. pc[s] = "nested" => pc'[ParentOf[s]] # "idle"
      BY <1>8, <3>2, Names, Parents
    <3> QED
      BY <3>1, <3>2, <3>3, <3>4
  <2> QED
    BY <2>1, <2>2, <2>3
<1>14. \A s, t \in Targets : pc'[s] # "idle" /\ pc'[t] # "idle" /\ s # t /\ t # d =>
        \/ HasParent(s) /\ t = ParentOf[s] /\ pc'[s] = "nested"
        \/ HasParent(t) /\ s = ParentOf[t] /\ pc'[t] = "nested"
  <2> SUFFICES ASSUME NEW s \in Targets, NEW t \in Targets, pc'[s] # "idle", pc'[t] # "idle",
                      s # t, t # d
               PROVE  \/ HasParent(s) /\ t = ParentOf[s] /\ pc'[s] = "nested"
                      \/ HasParent(t) /\ s = ParentOf[t] /\ pc'[t] = "nested"
    OBVIOUS
  <2>1. pc[t] # "idle"
    BY <1>8, Names
  <2>2. CASE s # d
    <3>1. pc[s] # "idle" /\ pc[c] # "nested"
      BY <2>2, <1>8, Names DEF Active
    <3> QED
      BY <2>1, <2>2, <3>1, <1>4, Names DEF StackOK
  <2>3. CASE s = d
    <3>1. CASE c = "direct"
      BY <3>1, <2>1, <1>3, <2>3, Names, <1>1, <1>5 DEF StackOK, Active
    <3>2. CASE c \in Targets
      <4>1. HasParent(c) /\ s = ParentOf[c] /\ pc'[c] = "nested" /\ pc[c] = "parent"
        BY <3>2, <2>3, <1>2, <1>4, Names
      <4>2. t = c
        BY <4>1, <3>2, <2>1, Parents DEF StackOK
      <4> QED
        BY <4>1, <4>2
    <3> QED
      BY <3>1, <3>2, <2>3, Names
  <2> QED
    BY <2>2, <2>3
<1>11. \A s, t \in Targets : pc'[s] # "idle" /\ pc'[t] # "idle" =>
        \/ s = t
        \/ HasParent(s) /\ t = ParentOf[s] /\ pc'[s] = "nested"
        \/ HasParent(t) /\ s = ParentOf[t] /\ pc'[t] = "nested"
  <2> SUFFICES ASSUME NEW s \in Targets, NEW t \in Targets, pc'[s] # "idle", pc'[t] # "idle",
                      s # t
               PROVE  \/ HasParent(s) /\ t = ParentOf[s] /\ pc'[s] = "nested"
                      \/ HasParent(t) /\ s = ParentOf[t] /\ pc'[t] = "nested"
    OBVIOUS
  <2>1. CASE t # d
    BY <2>1, <1>14
  <2>2. CASE s # d
    BY <2>2, <1>14
  <2> QED
    BY <2>1, <2>2
<1>12. /\ pc'["direct"] = "nested" =>
           direct' = "library" /\ "library" \in Targets /\ pc'["library"] # "idle"
       /\ direct' # "none" => pc'["direct"] # "idle"
       /\ pc'["direct"] = "establish" => direct' # "none"
  BY <1>4, <1>8, Names DEF StackOK, Services
<1>13. Active("direct")' \/ pc'["resume"] # "idle" =>
         \A e \in Callers : Active(e)' \/ pc'[e] = "idle"
  <2>1. ~Active("direct")'
    BY <1>5, Names
  <2>2. pc["resume"] = "idle"
    BY <1>1, <1>2, Names DEF StackOK, Active
  <2> QED
    BY <2>1, <2>2, <1>8, Names
<1>15. \A e, f \in Callers : Active(e)' /\ Active(f)' => e = f
  BY <1>5
<1>16. StackOK'
  BY <1>7, <1>9, <1>10, <1>11, <1>12, <1>13, <1>15 DEF StackOK
<1> QED
  BY <1>2, <1>3, <1>4, <1>6, <1>7, <1>16

\* Identity returned: who waited for it goes on.
LEMMA StackIdentityReturns ==
  ASSUME TypeOK, StackOK, Active("identity"), IdentityReturns("prepare"), direct' = direct,
         root' = root
  PROVE  /\ StackOK' /\ pc' \in [Callers -> Steps]
         /\ \A c \in Callers : pc'[c] = IF c = "identity" THEN "idle"
                                        ELSE IF pc[c] = "identity" THEN "prepare" ELSE pc[c]
         /\ Running' \subseteq Running /\ Nested' = Nested /\ "identity" \notin Running'
<1>1. \A c \in Callers : pc'[c] = IF c = "identity" THEN "idle"
                                  ELSE IF pc[c] = "identity" THEN "prepare" ELSE pc[c]
  <2> SUFFICES ASSUME NEW c \in Callers
               PROVE  pc'[c] = IF c = "identity" THEN "idle"
                               ELSE IF pc[c] = "identity" THEN "prepare" ELSE pc[c]
    OBVIOUS
  <2>1. pc["identity"] # "identity"
    BY DEF StackOK
  <2>2. pc'[c] = CASE c = "identity" -> "idle" [] pc[c] = "identity" -> "prepare"
                   [] OTHER -> pc[c]
    BY DEF IdentityReturns
  <2>3. CASE c = "identity"
    BY <2>1, <2>2, <2>3
  <2>4. CASE c # "identity" /\ pc[c] = "identity"
    BY <2>2, <2>4
  <2>5. CASE c # "identity" /\ pc[c] # "identity"
    BY <2>2, <2>5
  <2> QED
    BY <2>3, <2>4, <2>5
<1>2. pc' \in [Callers -> Steps]
  BY DEF IdentityReturns, TypeOK, Steps
<1>3. \A c \in Callers : Active(c)' <=> pc[c] = "identity"
  <2>1. \A c \in Callers : Active(c) => c = "identity"
    BY Names DEF StackOK
  <2>2. pc["identity"] \notin {"identity", "nested"}
    BY DEF StackOK
  <2> QED
    BY <1>1, <2>1, <2>2 DEF Active
<1>4. \A c \in Callers : pc[c] = "identity" => c \in Targets
  BY Names DEF StackOK
<1>5. \A c, d \in Callers : Active(c)' /\ Active(d)' => c = d
  BY <1>3, <1>4 DEF StackOK
<1>6. \A c \in Callers : c # "identity" => (pc'[c] = "idle" <=> pc[c] = "idle")
  BY <1>1
<1>7. Nested' = Nested /\ Running' \subseteq Running /\ "identity" \notin Running'
  BY <1>1, Names DEF Running, Nested
<1>8. root' \subseteq Nested'
  BY <1>7 DEF StackOK
<1>9. /\ pc'["identity"] = "idle"
      /\ pc'["resume"] \in {"idle", "bootstrap", "portal", "recover", "discover", "submit"}
      /\ pc'["direct"] \in {"idle", "bootstrap", "portal", "establish", "nested"}
  BY <1>1, Names DEF StackOK
<1>10. \A s \in Targets :
        /\ pc'[s] \in {"idle", "begin", "prepare", "bootstrap", "portal", "parent",
                       "nested", "establish"}
        /\ pc'[s] = "nested" => HasParent(s) /\ pc'[ParentOf[s]] # "idle"
        /\ pc'[s] = "parent" => HasParent(s)
  BY <1>1, <1>6, Names, Parents DEF StackOK
<1>11. \A s, t \in Targets : pc'[s] # "idle" /\ pc'[t] # "idle" =>
        \/ s = t
        \/ HasParent(s) /\ t = ParentOf[s] /\ pc'[s] = "nested"
        \/ HasParent(t) /\ s = ParentOf[t] /\ pc'[t] = "nested"
  <2> SUFFICES ASSUME NEW s \in Targets, NEW t \in Targets, pc'[s] # "idle", pc'[t] # "idle"
               PROVE  \/ s = t
                      \/ HasParent(s) /\ t = ParentOf[s] /\ pc'[s] = "nested"
                      \/ HasParent(t) /\ s = ParentOf[t] /\ pc'[t] = "nested"
    OBVIOUS
  <2>1. pc[s] # "idle" /\ pc[t] # "idle"
    BY <1>6, Names
  <2> QED
    BY <2>1, <1>1, Names DEF StackOK
<1>12. /\ pc'["direct"] = "nested" =>
           direct' = "library" /\ "library" \in Targets /\ pc'["library"] # "idle"
       /\ direct' # "none" => pc'["direct"] # "idle"
       /\ pc'["direct"] = "establish" => direct' # "none"
  BY <1>1, <1>6, Names DEF StackOK
<1>13. Active("direct")' \/ pc'["resume"] # "idle" =>
         \A e \in Callers : Active(e)' \/ pc'[e] = "idle"
  <2>1. ~Active("direct")'
    BY <1>3, <1>4, Names
  <2>2. pc["resume"] = "idle"
    BY Names DEF StackOK, Active
  <2> QED
    BY <2>1, <2>2, <1>6, Names
<1>14. StackOK'
  BY <1>5, <1>8, <1>9, <1>10, <1>11, <1>12, <1>13 DEF StackOK
<1> QED
  BY <1>1, <1>2, <1>7, <1>14

\* A target returned: who waited for it goes on.
LEMMA StackReturns ==
  ASSUME TypeOK, StackOK, NEW s \in Targets, pc[s] = "establish", Returns(s),
         direct' = IF direct = s THEN "none" ELSE direct, root' = root \ {s}
  PROVE  /\ StackOK' /\ pc' \in [Callers -> Steps] /\ direct' \in Targets \cup {"none"}
         /\ \A c \in Callers :
              pc'[c] = IF c = s \/ (c = "direct" /\ pc[c] = "nested" /\ direct = s) THEN "idle"
                       ELSE IF pc[c] = "nested" /\ HasParent(c) /\ ParentOf[c] = s
                       THEN "establish" ELSE pc[c]
         /\ Running' = Running \ {s} /\ Nested' = Nested \ {s}
<1>1. \A c \in Callers :
        pc'[c] = IF c = s \/ (c = "direct" /\ pc[c] = "nested" /\ direct = s) THEN "idle"
                 ELSE IF pc[c] = "nested" /\ HasParent(c) /\ ParentOf[c] = s
                 THEN "establish" ELSE pc[c]
  BY DEF Returns
<1>2. pc' \in [Callers -> Steps] /\ direct' \in Targets \cup {"none"}
  BY DEF Returns, TypeOK, Steps, Awaits
<1>3. \A c \in Callers : Active(c) <=> c = s
  BY Names DEF StackOK, Active
<1>4. \A c \in Callers :
        Active(c)' <=> c # s /\ pc[c] = "nested" /\ HasParent(c) /\ ParentOf[c] = s
  <2>1. ~HasParent("direct")
    BY DEF HasParent
  <2> QED
    BY <1>1, <1>3, <2>1 DEF Active
<1>5. \A c, d \in Callers : Active(c)' /\ Active(d)' => c = d
  BY <1>4, Parents
<1>6. \A c \in Callers : c \notin {s, "direct"} => (pc'[c] = "idle" <=> pc[c] = "idle")
  BY <1>1
<1>7. Running' = Running \ {s} /\ Nested' = Nested \ {s}
  BY <1>1, Names DEF Running, Nested
<1>8. root' \subseteq Nested'
  BY <1>7 DEF StackOK
<1>9. pc["identity"] = "idle" /\ pc["resume"] = "idle"
  BY <1>3, Names DEF StackOK, Active
<1>10. /\ pc'["identity"] = "idle" /\ pc'["resume"] = "idle"
       /\ pc'["direct"] \in {"idle", "nested"}
  <2>1. ~HasParent("direct") /\ pc["direct"] \in {"idle", "nested"}
    BY <1>3, Names DEF HasParent, StackOK, Active
  <2> QED
    BY <1>1, <1>9, <2>1, Names
<1>11. \A t \in Targets :
        /\ pc'[t] \in {"idle", "nested", "establish"}
        /\ pc'[t] = "nested" => HasParent(t) /\ pc'[ParentOf[t]] # "idle"
  <2> SUFFICES ASSUME NEW t \in Targets
               PROVE  /\ pc'[t] \in {"idle", "nested", "establish"}
                      /\ pc'[t] = "nested" => HasParent(t) /\ pc'[ParentOf[t]] # "idle"
    OBVIOUS
  <2>1. t # s => pc[t] \in {"idle", "nested"}
    BY <1>3, <1>9, Names DEF StackOK, Active
  <2>2. pc'[t] \in {"idle", "nested", "establish"}
    BY <2>1, <1>1, Names
  <2>3. ASSUME pc'[t] = "nested" PROVE HasParent(t) /\ pc'[ParentOf[t]] # "idle"
    <3>1. t # s /\ pc[t] = "nested" /\ HasParent(t) /\ ParentOf[t] # s /\ ParentOf[t] \in Targets
      BY <2>3, <2>1, <1>1, Names, Parents DEF StackOK
    <3> QED
      BY <3>1, <1>6, Names DEF StackOK
  <2> QED
    BY <2>2, <2>3
<1>12. \A t, u \in Targets : pc'[t] # "idle" /\ pc'[u] # "idle" =>
        \/ t = u
        \/ HasParent(t) /\ u = ParentOf[t] /\ pc'[t] = "nested"
        \/ HasParent(u) /\ t = ParentOf[u] /\ pc'[u] = "nested"
  <2> SUFFICES ASSUME NEW t \in Targets, NEW u \in Targets, pc'[t] # "idle", pc'[u] # "idle"
               PROVE  \/ t = u
                      \/ HasParent(t) /\ u = ParentOf[t] /\ pc'[t] = "nested"
                      \/ HasParent(u) /\ t = ParentOf[u] /\ pc'[u] = "nested"
    OBVIOUS
  <2>1. t # s /\ u # s /\ pc[t] # "idle" /\ pc[u] # "idle"
    BY <1>1, <1>6, Names
  <2> QED
    BY <2>1, <1>1, Names, Parents DEF StackOK
<1>13. /\ pc'["direct"] = "nested" =>
           direct' = "library" /\ "library" \in Targets /\ pc'["library"] # "idle"
       /\ direct' # "none" => pc'["direct"] # "idle"
  <2>1. ASSUME pc'["direct"] = "nested"
        PROVE  direct' = "library" /\ "library" \in Targets /\ pc'["library"] # "idle"
    <3>1. pc["direct"] = "nested" /\ direct # s
      BY <2>1, <1>1, Names
    <3> QED
      BY <3>1, <1>6, Names DEF StackOK
  <2>2. ASSUME direct' # "none" PROVE pc'["direct"] # "idle"
    <3>1. direct # s /\ pc["direct"] # "idle"
      BY <2>2 DEF StackOK
    <3> QED
      BY <3>1, <1>1, Names
  <2> QED
    BY <2>1, <2>2
<1>14. ~Active("direct")'
  BY <1>10 DEF Active
<1>15. StackOK'
  BY <1>5, <1>8, <1>10, <1>11, <1>12, <1>13, <1>14, Names DEF StackOK
<1> QED
  BY <1>1, <1>2, <1>7, <1>15

\* The resume's login proved Identity, and the resume goes on to the portal.
LEMMA StackPasses ==
  ASSUME TypeOK, StackOK, pc["resume"] = "submit",
         pc' = [pc EXCEPT !["resume"] = "idle", !["direct"] = "bootstrap"],
         direct' = direct, root' = root
  PROVE  /\ StackOK' /\ pc' \in [Callers -> Steps]
         /\ \A c \in Callers : pc'[c] = IF c = "direct" THEN "bootstrap" ELSE "idle"
         /\ direct' = "none" /\ Running' = {} /\ Nested' = {}
<1>1. \A c \in Callers : c # "resume" => pc[c] = "idle"
  BY Names DEF StackOK, Active
<1>2. pc' \in [Callers -> Steps] /\ {"idle", "bootstrap"} \subseteq Steps
  BY DEF TypeOK, Steps
<1>3. \A c \in Callers : pc'[c] = IF c = "direct" THEN "bootstrap" ELSE "idle"
  BY <1>1, Names DEF TypeOK
<1>4. direct' = "none" /\ root' = {}
  BY <1>1, Names DEF StackOK, Nested, Running
<1>5. Running' = {} /\ Nested' = {}
  <2>1. \A s \in Services : pc'[s] = "idle"
    BY <1>3, Names
  <2> QED
    BY <2>1 DEF Running, Nested
<1>6. \A c \in Callers : Active(c)' => c = "direct"
  BY <1>3 DEF Active
<1>7. /\ \A c \in Callers : Active(c)' \/ pc'[c] = "idle"
      /\ \A s \in Targets : pc'[s] = "idle"
      /\ pc'["identity"] = "idle" /\ pc'["resume"] = "idle" /\ pc'["direct"] = "bootstrap"
  <2>1. \A s \in Targets \cup {"identity", "resume"} : pc'[s] = "idle"
    BY <1>3, Names
  <2>2. pc'["direct"] = "bootstrap"
    BY <1>3, Names
  <2>3. Active("direct")'
    BY <2>2 DEF Active
  <2> QED
    BY <2>1, <2>2, <2>3, Names
<1>8. \A c, d \in Callers : Active(c)' /\ Active(d)' => c = d
  BY <1>6
<1>9. StackOK'
  BY <1>4, <1>5, <1>7, <1>8 DEF StackOK
<1> QED
  BY <1>2, <1>3, <1>4, <1>5, <1>9

-----------------------------------------------------------------------------
(* Types and frames, action by action.                                     *)

\* The call's own variables.
CallOK ==
  /\ pc \in [Callers -> Steps] /\ direct \in Targets \cup {"none"}
  /\ root \subseteq Targets /\ clean \subseteq Callers
  /\ StackOK

LEMMA FailsTyped ==
  ASSUME TypeOK, resume' \in Resumes, NEW g \in [Services -> Gates], NEW p \in Portals,
         NEW why \in {"ok", "notice", "transient", "failed"}, NEW kept,
         Fails(g, p, why, kept)
  PROVE  /\ gate' \in [Services -> Gates] /\ portal' \in Portals /\ history' \in Histories
         /\ CallOK'
<1>1. gate' \in [Services -> Gates]
  <2> SUFFICES ASSUME NEW s \in Services
               PROVE  (IF s \in Running THEN Recorded(g[s], why, s \in kept) ELSE g[s]) \in Gates
    BY DEF Fails
  <2> DEFINE gs == g[s]
             r == Recorded(gs, why, s \in kept)
  <2>1. gs \in Gates
    OBVIOUS
  <2> HIDE DEF gs
  <2>2. r \in Gates
    BY <2>1 DEF Recorded, Gates, Resumes, Deadlines
  <2> QED
    BY <2>2 DEF gs
<1>2. portal' \in Portals
  BY UnwoundReturns DEF Fails
<1>3. history' \in Histories
  BY FailsIsFailed
<1>4. CallOK'
  BY EndsIdle DEF Fails, CallOK
<1> QED
  BY <1>1, <1>2, <1>3, <1>4

LEMMA MovesTyped ==
  ASSUME TypeOK, StackOK, NEW c \in Callers, Active(c), NEW step \in StepsOf(c),
         Goes(c, step), direct' = direct, root' = root, clean' \subseteq clean \cup {c},
         step = "parent" => HasParent(c),
         c = "direct" /\ step = "establish" => direct # "none"
  PROVE  CallOK'
<1>1. StackOK' /\ pc' \in [Callers -> Steps] /\ root' \subseteq Targets
  BY StackMoves DEF Goes
<1> QED
  BY <1>1 DEF CallOK, TypeOK

LEMMA EnterIdentityTyped ==
  ASSUME TypeOK, StackOK, EnterIdentity
  PROVE  TypeOK' /\ StackOK'
<1> DEFINE g == ProbeReopened(GateReopened, "identity")
           due == LoginDue \/ GateReopened["identity"].retry = "due"
           p == PortalReopened(due)
<1>1. GateReopened \in [Services -> Gates] /\ PortalReopened(LoginDue) \in Portals
  BY GateReopenedReturns, PortalReopenedReturns DEF TypeOK
<1>2. g \in [Services -> Gates] /\ p \in Portals
  BY <1>1, ProbeReopenedReturns, PortalReopenedReturns, Names DEF TypeOK
<1>3. resume' \in Resumes
  BY ResumeReopenedReturns DEF EnterIdentity, TypeOK
<1>4. g["identity"].result \in {"none", "ok", "notice", "transient", "failed"}
  BY <1>2, Names DEF Gates
<1>5. UNCHANGED <<identity, proven, challenge, saved, awaiting>> /\ pc["identity"] = "begin"
  BY DEF EnterIdentity
<1>6. SUFFICES /\ gate' \in [Services -> Gates] /\ portal' \in Portals
               /\ history' \in Histories /\ CallOK'
  BY <1>3, <1>5 DEF TypeOK, CallOK
<1>7. \/ Fails(GateReopened, PortalReopened(LoginDue), "notice", clean)
      \/ Fails(GateReopened, PortalReopened(LoginDue), "failed", clean)
      \/ g["identity"].result # "none" /\ Fails(g, p, g["identity"].result, clean)
      \/ Fails(g, p, "failed", clean)
      \/ /\ gate' = [g EXCEPT !["identity"].attempted = TRUE]
         /\ portal' = p
         /\ Goes("identity", "inner")
         /\ clean' = clean \cup {"identity"}
         /\ UNCHANGED <<direct, root, history>>
  BY DEF EnterIdentity
<1> HIDE DEF g, p
<1>8. CASE Fails(GateReopened, PortalReopened(LoginDue), "notice", clean)
  BY <1>1, <1>3, <1>8, FailsTyped
<1>9. CASE Fails(GateReopened, PortalReopened(LoginDue), "failed", clean)
  BY <1>1, <1>3, <1>9, FailsTyped
<1>10. CASE g["identity"].result # "none" /\ Fails(g, p, g["identity"].result, clean)
  BY <1>2, <1>3, <1>4, <1>10, FailsTyped
<1>11. CASE Fails(g, p, "failed", clean)
  BY <1>2, <1>3, <1>11, FailsTyped
<1>12. CASE /\ gate' = [g EXCEPT !["identity"].attempted = TRUE]
            /\ portal' = p
            /\ Goes("identity", "inner")
            /\ clean' = clean \cup {"identity"}
            /\ UNCHANGED <<direct, root, history>>
  <2>1. CallOK'
    BY <1>5, <1>12, MovesTyped, Names DEF Active, StepsOf
  <2>2. gate' \in [Services -> Gates]
    BY <1>2, <1>12, AttemptedReturns, Names
  <2> QED
    BY <2>1, <2>2, <1>2, <1>12 DEF TypeOK
<1> QED
  BY <1>7, <1>8, <1>9, <1>10, <1>11, <1>12

LEMMA IdentityInnerTyped ==
  ASSUME TypeOK, StackOK, IdentityInner
  PROVE  TypeOK' /\ StackOK'
<1>1. CASE challenge \/ identity.state \notin {"authenticated", "expired"}
  <2>1. Fails(gate, portal, "failed", clean) /\ resume' \in Resumes
    BY <1>1 DEF IdentityInner, TypeOK
  <2>2. /\ gate' \in [Services -> Gates] /\ portal' \in Portals
        /\ history' \in Histories /\ CallOK'
    BY <2>1, FailsTyped DEF TypeOK
  <2> QED
    BY <2>2 DEF IdentityInner, TypeOK, CallOK
<1>2. CASE ~(challenge \/ identity.state \notin {"authenticated", "expired"})
  <2>1. /\ portal' = [portal EXCEPT !.up = FALSE, !.failure = "none", !.password = FALSE]
        /\ Goes("identity", "probe") /\ UNCHANGED <<gate, direct, root, clean, history>>
        /\ pc["identity"] = "inner"
        /\ UNCHANGED <<identity, proven, challenge, saved, awaiting, resume>>
    BY <1>2 DEF IdentityInner
  <2>2. CallOK'
    BY <2>1, MovesTyped, Names DEF Active, StepsOf
  <2>3. portal' \in Portals
    BY <2>1 DEF TypeOK, Portals
  <2> QED
    BY <2>1, <2>2, <2>3 DEF TypeOK, CallOK
<1> QED
  BY <1>1, <1>2

LEMMA CookiesProveTyped ==
  ASSUME TypeOK, StackOK, CookiesProve
  PROVE  TypeOK' /\ StackOK'
<1> DEFINE p == [portal EXCEPT !.up = TRUE, !.password = FALSE,
                               !.proof = @ \/ portal.depth > 0]
<1>1. p \in Portals /\ CycleFinished(gate) \in [Services -> Gates]
  BY CycleReturns DEF TypeOK, Portals
<1>2. identity' \in Identities
  BY DEF CookiesProve, TypeOK, Identities, Deadlines
<1>3. resume' \in Resumes
  BY ResumeFinishedReturns DEF CookiesProve, TypeOK
<1>4. pc["identity"] = "probe" /\ UNCHANGED <<proven, challenge, saved, awaiting>>
  BY DEF CookiesProve
<1>5. SUFFICES /\ gate' \in [Services -> Gates] /\ portal' \in Portals
               /\ history' \in Histories /\ CallOK'
  BY <1>2, <1>3, <1>4 DEF TypeOK, CallOK
<1>6. \/ /\ gate' = CycleFinished(gate) /\ portal' = p
         /\ IdentityReturns("prepare")
         /\ clean' \in {clean \ {"identity"}, {}}
         /\ history' = [history EXCEPT !.spent = {}, !.posted = "no",
                          !.tainted = @ \ {"identity"}]
         /\ UNCHANGED <<direct, root>>
      \/ \E dirty \in BOOLEAN : Fails(CycleFinished(gate), p, "failed", Kept(dirty))
  BY DEF CookiesProve
<1> HIDE DEF p
<1>7. CASE /\ gate' = CycleFinished(gate) /\ portal' = p
           /\ IdentityReturns("prepare")
           /\ clean' \in {clean \ {"identity"}, {}}
           /\ history' = [history EXCEPT !.spent = {}, !.posted = "no",
                            !.tainted = @ \ {"identity"}]
           /\ UNCHANGED <<direct, root>>
  <2>1. CallOK'
    BY <1>4, <1>7, StackIdentityReturns DEF CallOK, TypeOK, Active
  <2>2. history' \in Histories
    BY <1>7 DEF TypeOK, Histories
  <2> QED
    BY <1>1, <1>7, <2>1, <2>2
<1>8. CASE \E dirty \in BOOLEAN : Fails(CycleFinished(gate), p, "failed", Kept(dirty))
  BY <1>1, <1>3, <1>8, FailsTyped
<1> QED
  BY <1>6, <1>7, <1>8

LEMMA ProbeTyped ==
  ASSUME TypeOK, StackOK, ProbeFails \/ ProbeNeedsLogin
  PROVE  TypeOK' /\ StackOK'
<1>1. CASE ProbeFails
  <2>1. PICK why \in {"transient", "failed"}, dirty \in BOOLEAN :
          Fails(gate, portal, why, Kept(dirty))
    BY <1>1 DEF ProbeFails
  <2>2. /\ gate' \in [Services -> Gates] /\ portal' \in Portals
        /\ history' \in Histories /\ CallOK'
    BY <1>1, <2>1, FailsTyped DEF ProbeFails, TypeOK
  <2> QED
    BY <1>1, <2>2 DEF ProbeFails, TypeOK, CallOK
<1>2. CASE ProbeNeedsLogin
  <2>1. CallOK'
    BY <1>2, MovesTyped, Names DEF ProbeNeedsLogin, Active, StepsOf
  <2>2. portal' \in Portals
    BY <1>2 DEF ProbeNeedsLogin, TypeOK, Portals
  <2> QED
    BY <1>2, <2>1, <2>2 DEF ProbeNeedsLogin, TypeOK, CallOK
<1> QED
  BY <1>1, <1>2

LEMMA NotRecoveredTyped ==
  ASSUME TypeOK, StackOK, NEW c \in {"identity", "resume"}, NEW r \in Resumes,
         NotRecovered(c, identity, r, clean), UNCHANGED <<proven, challenge, saved, awaiting>>
  PROVE  TypeOK' /\ StackOK'
<1>1. resume' = r /\ resume' \in Resumes
  BY DEF NotRecovered
<1>2. identity' \in Identities
  BY RequireLoginReturns DEF NotRecovered, TypeOK
<1>3. SUFFICES /\ gate' \in [Services -> Gates] /\ portal' \in Portals
               /\ history' \in Histories /\ CallOK'
  BY <1>1, <1>2 DEF TypeOK, CallOK
<1>4. \/ Ends /\ UNCHANGED <<gate, portal, history>>
      \/ Fails(gate, portal, "transient", clean)
      \/ Fails(gate, [portal EXCEPT !.up = FALSE], "failed", clean)
  BY DEF NotRecovered
<1>5. portal \in Portals /\ gate \in [Services -> Gates] /\ history \in Histories
  BY DEF TypeOK
<1>6. [portal EXCEPT !.up = FALSE] \in Portals
  BY <1>5 DEF Portals
<1>7. CASE Ends /\ UNCHANGED <<gate, portal, history>>
  BY <1>5, <1>7, EndsIdle DEF CallOK
<1>8. CASE Fails(gate, portal, "transient", clean)
  BY <1>1, <1>5, <1>8, FailsTyped
<1>9. CASE Fails(gate, [portal EXCEPT !.up = FALSE], "failed", clean)
  BY <1>1, <1>5, <1>6, <1>9, FailsTyped
<1> QED
  BY <1>4, <1>7, <1>8, <1>9

LEMMA ResumeSet ==
  ASSUME resume \in Resumes
  PROVE  /\ [resume EXCEPT !.attempt = "retryable", !.tried = FALSE, !.opened = FALSE] \in Resumes
         /\ [resume EXCEPT !.tried = TRUE, !.opened = TRUE] \in Resumes
         /\ [resume EXCEPT !.attempt = "consumed", !.tried = FALSE, !.opened = FALSE] \in Resumes
         /\ [resume EXCEPT !.at = "ahead", !.attempt = "consumed"] \in Resumes
         /\ \A b \in BOOLEAN : [resume EXCEPT !.opened = b] \in Resumes
         /\ \A r \in Resumes : [r EXCEPT !.tried = TRUE] \in Resumes
         /\ \A r \in Resumes : [r EXCEPT !.at = "ahead"] \in Resumes
BY DEF Resumes, Deadlines

LEMMA LoginFailsTyped ==
  ASSUME TypeOK, StackOK, NEW i \in Identities, NEW r \in Resumes,
         NEW why \in {"notice", "failed"}, LoginFails(i, r, why), saved' \in BOOLEAN,
         UNCHANGED <<proven, challenge, awaiting>>
  PROVE  TypeOK' /\ StackOK'
<1>1. resume' \in Resumes /\ identity' \in Identities
  BY ResumeSet DEF LoginFails, TypeOK
<1>2. Fails(gate, portal, why, {})
  BY DEF LoginFails
<1>3. /\ gate' \in [Services -> Gates] /\ portal' \in Portals
      /\ history' \in Histories /\ CallOK'
  BY <1>1, <1>2, FailsTyped DEF TypeOK
<1> QED
  BY <1>1, <1>3 DEF TypeOK, CallOK

LEMMA RecoveryTyped ==
  ASSUME TypeOK, StackOK, NEW c \in {"identity", "resume"},
         \/ RecoveryRefused(c) \/ RecoveryVaultBusy(c) \/ RecoveryNoRecord(c)
         \/ RecoveryLogin(c)
  PROVE  TypeOK' /\ StackOK'
<1>1. resume \in Resumes
  BY DEF TypeOK
<1>2. CASE RecoveryRefused(c)
  BY <1>1, <1>2, NotRecoveredTyped DEF RecoveryRefused
<1>3. CASE RecoveryVaultBusy(c)
  BY <1>1, <1>3, ResumeSet, NotRecoveredTyped DEF RecoveryVaultBusy
<1>4. CASE RecoveryNoRecord(c)
  BY <1>1, <1>4, ResumeSet, NotRecoveredTyped DEF RecoveryNoRecord
<1>5. CASE RecoveryLogin(c)
  <2>1. CallOK'
    BY <1>5, MovesTyped, Names DEF RecoveryLogin, Recovering, Active, StepsOf
  <2>2. identity' \in Identities
    BY <1>5 DEF RecoveryLogin, TypeOK, Identities, Deadlines
  <2>3. portal' \in Portals
    BY <1>5 DEF RecoveryLogin, Portals
  <2>4. resume' \in Resumes
    BY <1>1, <1>5, ResumeSet DEF RecoveryLogin
  <2>5. history' \in Histories
    BY <1>5 DEF RecoveryLogin, TypeOK, Histories
  <2> QED
    BY <1>5, <2>1, <2>2, <2>3, <2>4, <2>5 DEF RecoveryLogin, TypeOK, CallOK
<1> QED
  BY <1>2, <1>3, <1>4, <1>5

LEMMA EntryTyped ==
  ASSUME TypeOK, StackOK, NEW c \in {"identity", "resume"},
         EntryUnavailable(c) \/ EntryRefused(c) \/ EntryRead(c)
  PROVE  TypeOK' /\ StackOK'
<1>1. resume \in Resumes /\ identity \in Identities /\ saved \in BOOLEAN
  BY DEF TypeOK
<1>2. CASE EntryUnavailable(c)
  BY <1>1, <1>2, ResumeSet, LoginFailsTyped DEF EntryUnavailable
<1>3. CASE EntryRefused(c)
  BY <1>1, <1>3, LoginFailsTyped DEF EntryRefused
<1>4. CASE EntryRead(c)
  <2>1. CallOK'
    BY <1>4, MovesTyped, Names DEF EntryRead, Active, StepsOf
  <2>2. identity' \in Identities
    BY <1>1, <1>4 DEF EntryRead, Identities
  <2> QED
    BY <1>4, <2>1, <2>2 DEF EntryRead, TypeOK, CallOK
<1> QED
  BY <1>2, <1>3, <1>4

LEMMA PostTyped ==
  ASSUME TypeOK, StackOK, NEW c \in {"identity", "resume"},
         PostUnanswered(c) \/ PostRejected(c) \/ PostChallenged(c) \/ PostProves(c)
  PROVE  TypeOK' /\ StackOK'
<1>1. resume \in Resumes /\ identity \in Identities /\ saved \in BOOLEAN
  BY DEF TypeOK
<1>2. CASE PostUnanswered(c)
  <2>1. identity' \in Identities
    BY <1>1, <1>2 DEF PostUnanswered, Identities
  <2>2. resume' \in Resumes
    BY <1>1, <1>2, ResumeSet DEF PostUnanswered
  <2>3. gate' \in [Services -> Gates]
    <3> SUFFICES ASSUME NEW s \in Services
                 PROVE  (IF s \in Running THEN Recorded(gate[s], "failed", FALSE)
                         ELSE gate[s]) \in Gates
      BY <1>2 DEF PostUnanswered
    <3> DEFINE gs == gate[s]
               r == Recorded(gs, "failed", FALSE)
    <3>1. gs \in Gates
      BY DEF TypeOK
    <3> HIDE DEF gs
    <3>2. r \in Gates
      BY <3>1, <2>2 DEF Recorded, Gates, Resumes, Deadlines
    <3> QED
      BY <3>1, <3>2 DEF gs
  <2>4. portal' \in Portals
    BY <1>2, UnwoundReturns DEF PostUnanswered, TypeOK
  <2>5. history' \in Histories
    BY <1>2 DEF PostUnanswered, TypeOK, Histories, Running, Posted
  <2>6. CallOK'
    BY <1>2, EndsIdle DEF PostUnanswered, CallOK
  <2> QED
    BY <1>2, <2>1, <2>2, <2>3, <2>4, <2>5, <2>6 DEF PostUnanswered, TypeOK, CallOK
<1>3. CASE PostRejected(c)
  <2>1. [RequireLogin(identity) EXCEPT !.state = "anonymous"] \in Identities
    <3> DEFINE i == RequireLogin(identity)
    <3>1. i \in Identities
      BY <1>1, RequireLoginReturns
    <3> HIDE DEF i
    <3>2. [i EXCEPT !.state = "anonymous"] \in Identities
      BY <3>1 DEF Identities
    <3> QED
      BY <3>2 DEF i
  <2> QED
    BY <1>1, <1>3, <2>1, LoginFailsTyped DEF PostRejected
<1>4. CASE PostChallenged(c)
  <2>1. [identity EXCEPT !.state = "challenged"] \in Identities
    BY <1>1 DEF Identities
  <2> QED
    BY <1>1, <1>4, <2>1, LoginFailsTyped DEF PostChallenged
<1>5. CASE PostProves(c)
  <2>1. identity' \in Identities
    BY <1>1, <1>5 DEF PostProves, Identities
  <2>2. resume' \in Resumes /\ gate' \in [Services -> Gates]
    BY <1>1, <1>5, ResumeFinishedReturns, CycleReturns DEF PostProves, TypeOK
  <2>3. history' \in Histories
    BY <1>5 DEF PostProves, TypeOK, Histories
  <2>4. CallOK'
    <3>1. CASE c = "resume"
      BY <1>5, <3>1, StackPasses DEF PostProves, TypeOK, CallOK
    <3>2. CASE c = "identity"
      BY <1>5, <3>2, StackIdentityReturns DEF PostProves, TypeOK, CallOK, Active
    <3> QED
      BY <3>1, <3>2
  <2> QED
    BY <1>5, <2>1, <2>2, <2>3, <2>4 DEF PostProves, TypeOK, CallOK
<1> QED
  BY <1>2, <1>3, <1>4, <1>5

LEMMA PortalFailsTyped ==
  ASSUME TypeOK, StackOK, NEW c \in Targets \cup {"resume", "direct"},
         pc[c] \in {"bootstrap", "portal"}, NEW r \in Resumes, NEW p \in Portals,
         NEW why \in {"transient", "failed"}, NEW kept, PortalFails(c, r, p, why, kept),
         identity' \in Identities, challenge' \in BOOLEAN, saved' \in BOOLEAN,
         UNCHANGED <<proven, awaiting>>
  PROVE  TypeOK' /\ StackOK'
<1>1. CASE c = "resume"
  <2>1. resume' \in Resumes /\ portal' = p /\ UNCHANGED <<gate, direct, root, history>>
        /\ clean' = {} /\ (Goes(c, "recover") \/ Goes(c, "idle"))
    BY <1>1, ResumeSet DEF PortalFails, TypeOK
  <2>2. CASE Goes(c, "recover")
    <3>1. CallOK'
      BY <1>1, <2>1, <2>2, MovesTyped, Names DEF Active, StepsOf
    <3> QED
      BY <2>1, <3>1 DEF TypeOK, CallOK
  <2>3. CASE Goes(c, "idle")
    <3>1. CallOK'
      BY <1>1, <2>1, <2>3, StackLast DEF Active, Goes, CallOK
    <3> QED
      BY <2>1, <3>1 DEF TypeOK, CallOK
  <2> QED
    BY <2>1, <2>2, <2>3
<1>2. CASE c # "resume"
  <2>1. resume' \in Resumes /\ Fails(gate, p, why, kept)
    BY <1>2 DEF PortalFails
  <2>2. /\ gate' \in [Services -> Gates] /\ portal' \in Portals
        /\ history' \in Histories /\ CallOK'
    BY <2>1, FailsTyped DEF TypeOK
  <2> QED
    BY <2>1, <2>2 DEF TypeOK, CallOK
<1> QED
  BY <1>1, <1>2

LEMMA PortalDoneTyped ==
  ASSUME TypeOK, StackOK, NEW c \in Targets \cup {"resume", "direct"},
         pc[c] \in {"bootstrap", "portal"}, NEW r \in Resumes, NEW p \in Portals,
         PortalDone(c, p, r), identity' \in Identities, clean' \subseteq clean,
         UNCHANGED <<proven, challenge, saved, awaiting, direct, root, history>>
  PROVE  TypeOK' /\ StackOK'
<1>1. portal' \in Portals /\ resume' \in Resumes /\ gate' \in [Services -> Gates]
  BY ResumeFinishedReturns, CycleReturns DEF PortalDone, TypeOK
<1>2. CallOK'
  <2>1. CASE c \in Targets
    <3>1. AfterPortal(c) = IF HasParent(c) THEN "parent" ELSE "establish"
      BY <2>1, Names DEF AfterPortal
    <3>2. AfterPortal(c) \in StepsOf(c)
      BY <2>1, <3>1, Names DEF StepsOf
    <3> QED
      BY <2>1, <3>1, <3>2, MovesTyped, Names DEF PortalDone, Active
  <2>2. CASE c = "resume" \/ (c = "direct" /\ direct = "none")
    <3>1. AfterPortal(c) = "idle"
      BY <2>2, Names DEF AfterPortal
    <3> QED
      BY <2>2, <3>1, StackLast DEF PortalDone, Goes, Active, CallOK, TypeOK
  <2>3. CASE c = "direct" /\ direct # "none"
    <3>1. AfterPortal(c) = "establish" /\ "establish" \in StepsOf(c)
      BY <2>3, Names DEF AfterPortal, StepsOf
    <3> QED
      BY <2>3, <3>1, MovesTyped, Names DEF PortalDone, Active
  <2> QED
    BY <2>1, <2>2, <2>3
<1> QED
  BY <1>1, <1>2 DEF TypeOK, CallOK

LEMMA PortalSet ==
  ASSUME portal \in Portals
  PROVE  /\ [portal EXCEPT !.failure = "failed"] \in Portals
         /\ [portal EXCEPT !.failure = "none"] \in Portals
         /\ [portal EXCEPT !.failure = "failed"].proof = portal.proof
         /\ [portal EXCEPT !.failure = "failed"].depth = portal.depth
         /\ [portal EXCEPT !.failure = "failed"].up = portal.up
         /\ \A why \in {"transient", "failed"}, b \in BOOLEAN :
              /\ Noted(why, b) \in Portals
              /\ Noted(why, b).proof = portal.proof /\ Noted(why, b).depth = portal.depth
              /\ Noted(why, b).up = portal.up
              /\ [Noted(why, b) EXCEPT !.up = FALSE] \in Portals
              /\ [Noted(why, b) EXCEPT !.up = FALSE].up = FALSE
              /\ [Noted(why, b) EXCEPT !.up = FALSE].proof = portal.proof
              /\ [Noted(why, b) EXCEPT !.up = FALSE].depth = portal.depth
BY DEF Noted, Portals

LEMMA BootstrapTyped ==
  ASSUME TypeOK, StackOK, NEW c \in Targets \cup {"resume", "direct"}, Bootstrap(c)
  PROVE  TypeOK' /\ StackOK'
<1>1. /\ resume \in Resumes /\ portal \in Portals /\ identity' \in Identities
      /\ challenge' \in BOOLEAN /\ saved' \in BOOLEAN
      /\ UNCHANGED <<identity, proven, challenge, saved, awaiting>> /\ pc[c] = "bootstrap"
  BY DEF TypeOK, Bootstrap
<1>2. \/ PortalFails(c, resume, portal, "failed", clean)
      \/ PortalDone(c, portal, resume) /\ UNCHANGED <<direct, root, clean, history>>
      \/ portal.failure \in {"transient", "failed"}
         /\ PortalFails(c, resume, portal, portal.failure, clean)
      \/ PortalFails(c, resume, [portal EXCEPT !.failure = "failed"], "failed", clean)
      \/ Goes(c, "portal") /\ UNCHANGED <<gate, resume, portal, direct, root, clean, history>>
  BY <1>1 DEF Bootstrap, Portals
<1>3. CASE PortalFails(c, resume, portal, "failed", clean)
  BY <1>1, <1>3, PortalFailsTyped
<1>4. CASE PortalDone(c, portal, resume) /\ UNCHANGED <<direct, root, clean, history>>
  BY <1>1, <1>4, PortalDoneTyped
<1>5. CASE portal.failure \in {"transient", "failed"}
           /\ PortalFails(c, resume, portal, portal.failure, clean)
  BY <1>1, <1>5, PortalFailsTyped
<1>6. CASE PortalFails(c, resume, [portal EXCEPT !.failure = "failed"], "failed", clean)
  BY <1>1, <1>6, PortalSet, PortalFailsTyped
<1>7. CASE Goes(c, "portal") /\ UNCHANGED <<gate, resume, portal, direct, root, clean, history>>
  <2>1. "portal" \in StepsOf(c) /\ Active(c)
    BY <1>1, Names DEF StepsOf, Active
  <2>2. CallOK'
    BY <1>7, <2>1, MovesTyped, Names
  <2> QED
    BY <1>1, <1>7, <2>2 DEF TypeOK, CallOK
<1> QED
  BY <1>2, <1>3, <1>4, <1>5, <1>6, <1>7

LEMMA PortalTyped ==
  ASSUME TypeOK, StackOK, NEW c \in Targets \cup {"resume", "direct"},
         \/ PortalProves(c) \/ PortalUnanswered(c) \/ PortalVaultBusy(c)
         \/ PortalNeedsLogin(c) \/ PortalPostUnanswered(c) \/ PortalPostRejected(c)
         \/ PortalPauses(c)
  PROVE  TypeOK' /\ StackOK'
<1>1. /\ resume \in Resumes /\ portal \in Portals /\ identity \in Identities
      /\ saved \in BOOLEAN /\ challenge \in BOOLEAN /\ resume.opened \in BOOLEAN
      /\ CanOpenVault \in BOOLEAN
  BY DEF TypeOK, Resumes, CanOpenVault
<1>2. CASE PortalProves(c)
  <2> DEFINE p == [portal EXCEPT !.up = TRUE, !.password = FALSE, !.failure = "none",
                                 !.proof = @ \/ portal.depth > 0]
             r == [resume EXCEPT !.opened = FALSE]
  <2>1. p \in Portals
    BY <1>1 DEF Portals
  <2>2. r \in Resumes
    BY <1>1, ResumeSet
  <2>3. identity' \in Identities
    BY <1>1, <1>2 DEF PortalProves, Identities
  <2>4. /\ PortalDone(c, p, r) /\ pc[c] = "portal" /\ clean' \subseteq clean
        /\ UNCHANGED <<proven, challenge, saved, awaiting, direct, root, history>>
    BY <1>2 DEF PortalProves, Asked
  <2> HIDE DEF p, r
  <2> QED
    BY <2>1, <2>2, <2>3, <2>4, PortalDoneTyped
<1>3. CASE PortalUnanswered(c)
  <2>1. PICK why \in {"transient", "failed"}, dirty \in BOOLEAN :
          PortalFails(c, resume, Noted(why, FALSE), why, Kept(dirty))
    BY <1>3 DEF PortalUnanswered
  <2>2. Noted(why, FALSE) \in Portals
    BY <1>1, PortalSet
  <2> QED
    BY <1>1, <1>3, <2>1, <2>2, PortalFailsTyped DEF PortalUnanswered, Asked
<1>4. CASE PortalVaultBusy(c)
  <2>1. PICK dirty \in BOOLEAN :
          PortalFails(c, resume, Noted("transient", TRUE), "transient", Kept(dirty))
    BY <1>4 DEF PortalVaultBusy
  <2>2. Noted("transient", TRUE) \in Portals
    BY <1>1, PortalSet
  <2> QED
    BY <1>1, <1>4, <2>1, <2>2, PortalFailsTyped DEF PortalVaultBusy, Asked
<1>5. CASE PortalNeedsLogin(c)
  <2>1. PICK dirty \in BOOLEAN :
          PortalFails(c, [resume EXCEPT !.opened = @ \/ saved],
                      [Noted("failed", TRUE) EXCEPT !.up = FALSE], "failed", Kept(dirty))
    BY <1>5 DEF PortalNeedsLogin
  <2>2. [Noted("failed", TRUE) EXCEPT !.up = FALSE] \in Portals
        /\ [resume EXCEPT !.opened = @ \/ saved] \in Resumes
    BY <1>1, PortalSet, ResumeSet
  <2>3. identity' \in Identities
    BY <1>1, <1>5, RequireLoginReturns DEF PortalNeedsLogin
  <2> QED
    BY <1>1, <1>5, <2>1, <2>2, <2>3, PortalFailsTyped DEF PortalNeedsLogin, Asked
<1>6. CASE PortalPostUnanswered(c)
  <2>1. [resume EXCEPT !.opened = TRUE] \in Resumes /\ Noted("failed", TRUE) \in Portals
    BY <1>1, PortalSet, ResumeSet
  <2> QED
    BY <1>1, <1>6, <2>1, PortalFailsTyped DEF PortalPostUnanswered, Asked
<1>7. CASE PortalPostRejected(c)
  <2>1. [resume EXCEPT !.opened = TRUE] \in Resumes /\ Noted("failed", TRUE) \in Portals
    BY <1>1, PortalSet, ResumeSet
  <2>2. identity' \in Identities
    BY <1>1, <1>7, RequireLoginReturns DEF PortalPostRejected
  <2> QED
    BY <1>1, <1>7, <2>1, <2>2, PortalFailsTyped DEF PortalPostRejected, Asked
<1>8. CASE PortalPauses(c)
  <2>1. PICK opened \in {resume.opened, CanOpenVault \/ resume.opened},
             password \in BOOLEAN, dirty \in BOOLEAN :
          PortalFails(c, [resume EXCEPT !.opened = opened], Noted("failed", password),
                      "failed", Kept(dirty))
    BY <1>8 DEF PortalPauses
  <2>2. opened \in BOOLEAN
    BY <1>1
  <2>3. [resume EXCEPT !.opened = opened] \in Resumes
        /\ Noted("failed", password) \in Portals
    BY <1>1, <2>2, PortalSet, ResumeSet
  <2> QED
    BY <1>1, <1>8, <2>1, <2>3, PortalFailsTyped DEF PortalPauses, Asked
<1> QED
  BY <1>2, <1>3, <1>4, <1>5, <1>6, <1>7, <1>8

LEMMA EnterRefreshTyped ==
  ASSUME TypeOK, StackOK, NEW s \in Targets, EnterRefresh(s)
  PROVE  TypeOK' /\ StackOK'
<1> DEFINE g == ProbeReopened(gate, s)
           q == PortalReopened(gate[s].retry = "due")
<1>1. /\ g \in [Services -> Gates] /\ q \in Portals /\ resume' \in Resumes /\ s \in Services
      /\ s # "identity" /\ s # "resume" /\ s # "direct" /\ s \in Callers
      /\ UNCHANGED <<identity, proven, challenge, saved, awaiting, resume>> /\ pc[s] = "begin"
  BY ProbeReopenedReturns, PortalReopenedReturns, Names DEF TypeOK, EnterRefresh
<1>2. g[s].result \in {"none", "ok", "notice", "transient", "failed"}
  BY <1>1 DEF Gates
<1>3. Cleared(g, {s}) \in [Services -> Gates]
  BY <1>1, ClearedReturns
<1>4. [q EXCEPT !.depth = @ + 1] \in Portals
  BY <1>1 DEF Portals
<1>5. SUFFICES /\ gate' \in [Services -> Gates] /\ portal' \in Portals
               /\ history' \in Histories /\ CallOK'
  BY <1>1 DEF TypeOK, CallOK
<1>6. \/ /\ gate' = Cleared(g, {s}) /\ portal' = q
         /\ Ends /\ UNCHANGED history
      \/ g[s].result # "none"
         /\ Fails(g, q, IF g[s].result = "ok" THEN "failed" ELSE g[s].result, clean)
      \/ Fails(g, q, "failed", clean)
      \/ /\ gate' = [g EXCEPT ![s].attempted = TRUE]
         /\ portal' = [q EXCEPT !.depth = @ + 1]
         /\ root' \subseteq root \cup {s}
         /\ clean' = clean \cup {s}
         /\ \/ Goes(s, "prepare")
            \/ pc' = [pc EXCEPT ![s] = "identity", !["identity"] = "begin"]
         /\ UNCHANGED <<direct, history>>
  BY DEF EnterRefresh
<1> HIDE DEF g, q
<1>7. CASE gate' = Cleared(g, {s}) /\ portal' = q /\ Ends /\ UNCHANGED history
  BY <1>1, <1>3, <1>7, EndsIdle DEF CallOK, TypeOK
<1>8. CASE g[s].result # "none"
           /\ Fails(g, q, IF g[s].result = "ok" THEN "failed" ELSE g[s].result, clean)
  <2> DEFINE w == IF g[s].result = "ok" THEN "failed" ELSE g[s].result
  <2>1. w \in {"ok", "notice", "transient", "failed"} /\ Fails(g, q, w, clean)
    BY <1>2, <1>8
  <2> HIDE DEF w
  <2> QED
    BY <1>1, <2>1, FailsTyped
<1>9. CASE Fails(g, q, "failed", clean)
  BY <1>1, <1>9, FailsTyped
<1>10. CASE /\ gate' = [g EXCEPT ![s].attempted = TRUE]
            /\ portal' = [q EXCEPT !.depth = @ + 1]
            /\ root' \subseteq root \cup {s}
            /\ clean' = clean \cup {s}
            /\ \/ Goes(s, "prepare")
               \/ pc' = [pc EXCEPT ![s] = "identity", !["identity"] = "begin"]
            /\ UNCHANGED <<direct, history>>
  <2>1. gate' \in [Services -> Gates]
    BY <1>1, <1>10, AttemptedReturns
  <2>2. Active(s) /\ s \in Targets /\ "prepare" \in StepsOf(s)
    BY <1>1 DEF Active, StepsOf
  <2>3. CallOK'
    <3>1. CASE Goes(s, "prepare")
      <4>1. StackOK' /\ pc' \in [Callers -> Steps] /\ root' \subseteq Targets
        BY <1>1, <1>10, <2>2, <3>1, StackMoves DEF Goes
      <4> QED
        BY <1>1, <1>10, <4>1 DEF CallOK, TypeOK
    <3>2. CASE pc' = [pc EXCEPT ![s] = "identity", !["identity"] = "begin"]
      <4>1. StackOK' /\ pc' \in [Callers -> Steps] /\ root' \subseteq Targets
        BY <1>1, <1>10, <2>2, <3>2, StackPushes, Names
      <4> QED
        BY <1>1, <1>10, <4>1 DEF CallOK, TypeOK
    <3> QED
      BY <1>10, <3>1, <3>2
  <2> QED
    BY <1>4, <1>10, <2>1, <2>3 DEF TypeOK
<1> QED
  BY <1>6, <1>7, <1>8, <1>9, <1>10

LEMMA PrepareTyped ==
  ASSUME TypeOK, StackOK, NEW s \in Targets, Prepare(s) \/ Parent(s)
  PROVE  TypeOK' /\ StackOK'
<1>1. s \in Services /\ s \in Callers
  BY Names
<1>2. CASE Prepare(s)
  <2>1. /\ gate' \in [Services -> Gates]
        /\ awaiting' \subseteq Targets /\ proven' \subseteq Targets
        /\ pc[s] = "prepare"
        /\ UNCHANGED <<identity, challenge, saved, resume, direct, root, clean, history>>
    BY <1>1, <1>2, SealedReturns DEF Prepare, TypeOK
  <2>2. portal' \in Portals
    BY <1>2 DEF Prepare, TypeOK, Portals
  <2>3. CallOK'
    <3>1. CASE s = "library"
      BY <1>1, <1>2, <2>1, <3>1, MovesTyped DEF Prepare, Active, StepsOf, HasParent
    <3>2. CASE s # "library"
      <4>1. "bootstrap" \in StepsOf(s)
        BY Names DEF StepsOf
      <4> QED
        BY <1>1, <1>2, <2>1, <3>2, <4>1, MovesTyped, Names DEF Prepare, Active
    <3> QED
      BY <3>1, <3>2
  <2> QED
    BY <2>1, <2>2, <2>3 DEF TypeOK, CallOK
<1>3. CASE Parent(s)
  <2>1. HasParent(s) /\ ParentOf[s] \in Services /\ pc[s] = "parent" /\ Active(s)
        /\ UNCHANGED <<runtime, direct, root, clean, history>>
    BY <1>3, Parents, Names DEF Parent, StackOK, Active
  <2>2. CASE Proven(ParentOf[s])
    <3>1. "establish" \in StepsOf(s)
      BY Names DEF StepsOf
    <3>2. CallOK'
      BY <1>1, <1>3, <2>1, <2>2, <3>1, MovesTyped, Names DEF Parent
    <3> QED
      BY <2>1, <3>2 DEF runtime, TypeOK, CallOK
  <2>3. CASE ~Proven(ParentOf[s])
    <3>1. pc' = [pc EXCEPT ![s] = "nested", ![ParentOf[s]] = "begin"]
      BY <1>3, <2>3 DEF Parent
    <3>2. StackOK' /\ pc' \in [Callers -> Steps]
      BY <1>1, <2>1, <3>1, StackPushes
    <3> QED
      BY <2>1, <3>2 DEF runtime, TypeOK
  <2> QED
    BY <2>2, <2>3
<1> QED
  BY <1>2, <1>3

LEMMA EstablishedTyped ==
  ASSUME TypeOK, StackOK, NEW s \in Targets, Established(s) \/ EstablishFails(s)
  PROVE  TypeOK' /\ StackOK'
<1>1. /\ pc[s] = "establish" /\ s \in Services /\ proven' \subseteq Targets
      /\ UNCHANGED <<identity, challenge, saved, resume>> /\ resume' \in Resumes
      /\ gate \in [Services -> Gates] /\ portal \in Portals
  BY Names DEF Established, EstablishFails, TypeOK
<1>2. CASE \E dirty \in BOOLEAN : Fails(gate, portal, "failed", Kept(dirty)) /\ UNCHANGED awaiting
  <2>1. /\ gate' \in [Services -> Gates] /\ portal' \in Portals
        /\ history' \in Histories /\ CallOK'
    BY <1>1, <1>2, FailsTyped
  <2> QED
    BY <1>1, <1>2, <2>1 DEF TypeOK, CallOK
<1>3. CASE /\ Established(s)
           /\ s = "info" => Current
           /\ IF Current
              THEN /\ gate' = Cleared(gate, {s})
                   /\ awaiting' = awaiting \cup {s}
              ELSE /\ gate' = [gate EXCEPT ![s] = Recorded(@, "ok", FALSE)]
                   /\ UNCHANGED awaiting
           /\ portal' = Unwound(portal, {s})
           /\ Returns(s)
           /\ clean' = clean \ {s}
           /\ root' = root \ {s}
           /\ direct' = IF direct = s THEN "none" ELSE direct
           /\ history' = [history EXCEPT !.spent = @ \cup {s}, !.tainted = @ \ {s}]
  <2>1. gate' \in [Services -> Gates]
    <3>1. Cleared(gate, {s}) \in [Services -> Gates]
      BY <1>1, ClearedReturns
    <3>2. [gate EXCEPT ![s] = Recorded(@, "ok", FALSE)] \in [Services -> Gates]
      <4> DEFINE gs == gate[s]
                 r == Recorded(gs, "ok", FALSE)
      <4>1. gs \in Gates
        BY <1>1
      <4> HIDE DEF gs
      <4>2. r \in Gates
        BY <1>1, <4>1 DEF Recorded, Gates, Resumes, Deadlines
      <4>3. [gate EXCEPT ![s] = Recorded(@, "ok", FALSE)] = [gate EXCEPT ![s] = r]
        BY DEF gs
      <4> HIDE DEF r
      <4> QED
        BY <1>1, <4>2, <4>3
    <3> QED
      BY <1>3, <3>1, <3>2
  <2>2. portal' \in Portals
    BY <1>1, <1>3, UnwoundReturns
  <2>3. history' \in Histories
    BY <1>3 DEF TypeOK, Histories
  <2>4. awaiting' \subseteq Targets /\ clean' \subseteq Callers /\ root' \subseteq Targets
    BY <1>3 DEF TypeOK
  <2>5. StackOK' /\ pc' \in [Callers -> Steps] /\ direct' \in Targets \cup {"none"}
    BY <1>1, <1>3, StackReturns
  <2> QED
    BY <1>1, <2>1, <2>2, <2>3, <2>4, <2>5 DEF TypeOK
<1> QED
  BY <1>2, <1>3 DEF Established, EstablishFails

LEMMA DirectTyped ==
  ASSUME TypeOK, StackOK, DirectLibrary \/ DirectEstablish
  PROVE  TypeOK' /\ StackOK'
<1>1. pc["direct"] = "establish" /\ Active("direct") /\ direct \in Targets
  BY DEF DirectLibrary, DirectEstablish, Active, StackOK, TypeOK
<1>2. CASE DirectLibrary
  <2>1. StackOK' /\ pc' \in [Callers -> Steps]
    BY <1>1, <1>2, StackPushes, Names DEF DirectLibrary
  <2> QED
    BY <1>2, <2>1 DEF DirectLibrary, runtime, TypeOK
<1>3. CASE DirectEstablish
  <2> DEFINE parents == IF HasParent(direct) THEN {ParentOf[direct]} ELSE {}
  <2>1. parents \subseteq Targets
    BY <1>1, Parents
  <2>2. \/ proven' = proven \cup parents \cup {direct}
        \/ proven' = (proven \cup parents) \ {direct}
        \/ proven' = proven \ ({direct} \cup {p \in parents : ~Proven(p)})
    BY <1>3 DEF DirectEstablish
  <2>3. proven' \subseteq Targets
    BY <1>1, <2>1, <2>2 DEF TypeOK
  <2>4. CallOK'
    BY <1>3, EndsIdle DEF DirectEstablish, CallOK
  <2> QED
    BY <1>3, <2>3, <2>4 DEF DirectEstablish, TypeOK, CallOK
<1> QED
  BY <1>2, <1>3

LEMMA BeginsTyped ==
  ASSUME TypeOK, StackOK, Idle, NEW c, NEW step, Begins(c, step),
         \/ c \in Services /\ step = "begin" /\ direct' = direct
         \/ c = "resume" /\ step \in {"recover", "bootstrap"} /\ direct' = direct
         \/ c = "direct" /\ step \in {"bootstrap", "establish"} /\ direct' \in Targets
  PROVE  CallOK'
<1>1. StackOK' /\ pc' \in [Callers -> Steps] /\ direct' \in Targets \cup {"none"}
  BY StackBegins DEF Begins
<1> QED
  BY <1>1 DEF Begins, CallOK, TypeOK

LEMMA ReadTyped ==
  ASSUME TypeOK, StackOK, NEW s \in Targets, ReadStep(s)
  PROVE  TypeOK' /\ StackOK'
<1>1. s \in Services
  BY Names
<1>2. /\ \A S : Cleared(gate, S) \in [Services -> Gates]
      /\ SealedIfPending(s) \in [Services -> Gates]
  BY <1>1, ClearedReturns, SealedReturns DEF TypeOK
<1>3. CASE EstablishManually(s)
  <2>1. Idle /\ UNCHANGED <<identity, proven, challenge, saved>>
        /\ gate' \in [Services -> Gates] /\ awaiting' \subseteq Targets
    BY <1>2, <1>3 DEF EstablishManually, TypeOK
  <2>2. portal' \in Portals
    BY <1>3 DEF EstablishManually, TypeOK, Portals
  <2>3. resume' \in Resumes
    BY <1>3, ResumeSet DEF EstablishManually, TypeOK
  <2>4. history' \in Histories
    BY <1>3 DEF EstablishManually, TypeOK, Histories
  <2>5. CallOK'
    <3>1. CASE Proven(s)
      <4>1. UNCHANGED call
        BY <1>3, <3>1 DEF EstablishManually
      <4> QED
        BY <4>1, StackStays DEF call, CallOK, TypeOK
    <3>2. CASE ~Proven(s)
      <4>1. direct' = s /\ (Begins("direct", "establish") \/ Begins("direct", "bootstrap"))
        BY <1>3, <3>2 DEF EstablishManually
      <4> QED
        BY <2>1, <4>1, BeginsTyped
    <3> QED
      BY <3>1, <3>2
  <2> QED
    BY <2>1, <2>2, <2>3, <2>4, <2>5 DEF TypeOK, CallOK
<1>4. CASE ReadUnproven(s)
  <2>1. CallOK'
    BY <1>1, <1>4, BeginsTyped DEF ReadUnproven
  <2>2. gate' \in [Services -> Gates] /\ awaiting' \subseteq Targets
    BY <1>2, <1>4 DEF ReadUnproven, TypeOK
  <2> QED
    BY <1>4, <2>1, <2>2 DEF ReadUnproven, TypeOK, CallOK
<1>5. CASE ReadExpired(s)
  <2>1. CallOK'
    BY <1>1, <1>5, BeginsTyped DEF ReadExpired
  <2> QED
    BY <1>2, <1>5, <2>1 DEF ReadExpired, TypeOK, CallOK
<1>6. CASE ReadServed(s)
  <2>1. history' \in Histories
    BY <1>6 DEF ReadServed, TypeOK, Histories
  <2>2. StackOK'
    BY <1>6, StackStays DEF ReadServed, call
  <2> QED
    BY <1>2, <1>6, <2>1, <2>2 DEF ReadServed, TypeOK, call
<1> QED
  BY <1>3, <1>4, <1>5, <1>6 DEF ReadStep

LEMMA ForegroundTyped ==
  ASSUME TypeOK, StackOK, Foreground
  PROVE  TypeOK' /\ StackOK'
<1> DEFINE r == ResumeReopened
           step == IF identity.state = "anonymous" THEN "recover" ELSE "bootstrap"
<1>1. r \in Resumes /\ [r EXCEPT !.attempt = "consumed"] \in Resumes
  <2>1. r \in Resumes
    BY ResumeReopenedReturns DEF TypeOK
  <2> HIDE DEF r
  <2>2. [r EXCEPT !.attempt = "consumed"] \in Resumes
    BY <2>1 DEF Resumes
  <2> QED
    BY <2>1, <2>2
<1>2. gate' \in [Services -> Gates] /\ portal' \in Portals
  BY GateReopenedReturns, PortalReopenedReturns DEF Foreground, TypeOK
<1>3. Idle /\ UNCHANGED <<identity, proven, challenge, saved, awaiting, history>>
  BY DEF Foreground
<1>4. \/ resume' = r /\ UNCHANGED call
      \/ resume' = r /\ Begins("identity", "begin") /\ UNCHANGED direct
      \/ /\ resume' = [r EXCEPT !.attempt = "consumed"]
         /\ pc' = [pc EXCEPT !["resume"] = step] /\ clean' = {"resume"}
         /\ UNCHANGED <<direct, root>>
  BY DEF Foreground
<1> HIDE DEF r
<1>5. CallOK'
  <2>1. CASE UNCHANGED call
    BY <2>1, StackStays DEF call, CallOK, TypeOK
  <2>2. CASE Begins("identity", "begin") /\ UNCHANGED direct
    BY <1>3, <2>2, BeginsTyped, Names
  <2>3. CASE /\ pc' = [pc EXCEPT !["resume"] = step] /\ clean' = {"resume"}
             /\ UNCHANGED <<direct, root>>
    <3>1. StackOK' /\ pc' \in [Callers -> Steps]
      BY <1>3, <2>3, StackBegins
    <3> QED
      BY <2>3, <3>1, Names DEF CallOK, TypeOK
  <2> QED
    BY <1>4, <2>1, <2>2, <2>3
<1> QED
  BY <1>1, <1>2, <1>3, <1>4, <1>5 DEF TypeOK, CallOK

LEMMA ForgottenTyped ==
  ASSUME TypeOK, Forgotten
  PROVE  /\ proven' = {} /\ challenge' = FALSE /\ awaiting' = {}
         /\ gate' \in [Services -> Gates] /\ \A s \in Services : gate'[s] = Open
         /\ portal' \in Portals /\ portal'.depth = 0 /\ ~portal'.proof /\ ~portal'.up
         /\ history' \in Histories /\ history'.tainted = {} /\ history'.spent = {}
BY ClearedReturns DEF Forgotten, TypeOK, Portals, Histories

LEMMA UserTyped ==
  ASSUME TypeOK, StackOK,
         \/ ChildExpired \/ ReadIdentityLost \/ ExplicitLogin \/ Logout
         \/ CompletePrimary \/ CompletePortal
  PROVE  TypeOK' /\ StackOK'
<1>1. \A S : Cleared(gate, S) \in [Services -> Gates]
  BY ClearedReturns DEF TypeOK
<1>2. CASE ChildExpired
  <2>1. CallOK'
    BY <1>2, BeginsTyped, Names DEF ChildExpired
  <2> QED
    BY <1>2, <2>1 DEF ChildExpired, runtime, TypeOK, CallOK
<1>3. CASE ReadIdentityLost
  <2>1. CallOK'
    BY <1>3, BeginsTyped, Names DEF ReadIdentityLost
  <2> QED
    BY <1>3, <2>1 DEF ReadIdentityLost, runtime, TypeOK, CallOK
<1>4. CASE ExplicitLogin
  <2>1. identity' \in Identities /\ saved' \in BOOLEAN
    <3>1. PICK state \in {"anonymous", "authenticating", "challenged", "authenticated"},
               required \in BOOLEAN :
            /\ identity' = [state |-> state, restored |-> FALSE, deadline |-> "none",
                            login |-> required]
            /\ saved' \in IF required THEN {FALSE} ELSE BOOLEAN
      BY <1>4 DEF ExplicitLogin
    <3>2. identity' \in Identities
      BY <3>1 DEF Identities, Deadlines
    <3> QED
      BY <3>1, <3>2
  <2>2. resume' \in Resumes
    BY <1>4 DEF ExplicitLogin, Resumes, Deadlines
  <2>3. StackOK' /\ UNCHANGED <<pc, direct, root, clean>>
    BY <1>4, StackStays DEF ExplicitLogin, call
  <2>4. Forgotten
    BY <1>4 DEF ExplicitLogin
  <2> QED
    BY <2>1, <2>2, <2>3, <2>4, ForgottenTyped DEF TypeOK
<1>5. CASE Logout
  <2>1. identity' \in Identities /\ saved' \in BOOLEAN
    BY <1>5 DEF Logout, Identities, Deadlines
  <2>2. resume' \in Resumes
    BY <1>5 DEF Logout, Resumes, Deadlines, TypeOK
  <2>3. StackOK' /\ UNCHANGED <<pc, direct, root, clean>>
    BY <1>5, StackStays DEF Logout, call
  <2>4. Forgotten
    BY <1>5 DEF Logout
  <2> QED
    BY <2>1, <2>2, <2>3, <2>4, ForgottenTyped DEF TypeOK
<1>6. CASE CompletePrimary
  <2>1. identity' \in Identities
    BY <1>6 DEF CompletePrimary, TypeOK, Identities
  <2>2. resume' \in Resumes /\ portal' \in Portals
    BY <1>6, ResumeFinishedReturns, PortalSet DEF CompletePrimary, TypeOK
  <2>3. gate' \in [Services -> Gates]
    BY <1>1, <1>6, CycleReturns DEF CompletePrimary, TypeOK
  <2>4. history' \in Histories /\ awaiting' \subseteq Targets
    <3>1. [history EXCEPT !.tainted = @ \ (Paused \cup {"identity"}), !.spent = @ \ Paused,
                           !.posted = "no"] \in Histories
      BY DEF TypeOK, Histories
    <3>2. history' = history \/
          history' = [history EXCEPT !.tainted = @ \ (Paused \cup {"identity"}),
                                     !.spent = @ \ Paused, !.posted = "no"]
      BY <1>6 DEF CompletePrimary
    <3>3. awaiting' \subseteq awaiting
      BY <1>6 DEF CompletePrimary
    <3> QED
      BY <3>1, <3>2, <3>3 DEF TypeOK
  <2>5. StackOK' /\ UNCHANGED <<proven, challenge, saved, pc, direct, root, clean>>
    BY <1>6, StackStays DEF CompletePrimary, call
  <2> QED
    BY <2>1, <2>2, <2>3, <2>4, <2>5 DEF TypeOK
<1>7. CASE CompletePortal
  <2>1. portal' \in Portals
    <3>1. /\ [portal EXCEPT !.up = TRUE, !.password = FALSE, !.failure = "none"] \in Portals
          /\ [portal EXCEPT !.failure = "none"] \in Portals
      BY DEF TypeOK, Portals
    <3> QED
      BY <1>7, <3>1 DEF CompletePortal, TypeOK
  <2>2. resume' \in Resumes
    BY <1>7, ResumeSet DEF CompletePortal, TypeOK
  <2>3. gate' \in [Services -> Gates] /\ awaiting' \subseteq Targets /\ challenge' = FALSE
    BY <1>1, <1>7 DEF CompletePortal, TypeOK
  <2>4. history' \in Histories
    <3>1. \A S : [history EXCEPT !.tainted = @ \ S, !.spent = @ \ S] \in Histories
      BY DEF TypeOK, Histories
    <3>2. history' = history \/
          history' = [history EXCEPT !.tainted = @ \ Paused, !.spent = @ \ Paused]
      BY <1>7 DEF CompletePortal
    <3> QED
      BY <3>1, <3>2 DEF TypeOK
  <2>5. StackOK' /\ UNCHANGED <<identity, proven, saved, pc, direct, root, clean>>
    BY <1>7, StackStays DEF CompletePortal, call
  <2> QED
    BY <2>1, <2>2, <2>3, <2>4, <2>5 DEF TypeOK
<1> QED
  BY <1>2, <1>3, <1>4, <1>5, <1>6, <1>7

LEMMA TimeTyped ==
  ASSUME TypeOK, StackOK, TimeStep
  PROVE  TypeOK' /\ StackOK'
<1>1. CASE \E s \in Services : RetryFallsDue(s)
  <2>1. PICK s \in Services : RetryFallsDue(s)
    BY <1>1
  <2>2. gate' \in [Services -> Gates]
    <3>1. [gate[s] EXCEPT !.retry = "due"] \in Gates
      BY DEF TypeOK, Gates, Deadlines
    <3>2. gate' = [gate EXCEPT ![s] = [gate[s] EXCEPT !.retry = "due"]]
      BY <2>1 DEF RetryFallsDue
    <3> QED
      BY <3>1, <3>2 DEF TypeOK
  <2> QED
    BY <2>1, <2>2, StackStays DEF RetryFallsDue, call, TypeOK
<1>2. CASE LoginFallsDue
  <2>1. resume' \in Resumes
    BY <1>2 DEF LoginFallsDue, TypeOK, Resumes, Deadlines
  <2> QED
    BY <1>2, <2>1, StackStays DEF LoginFallsDue, call, TypeOK
<1>3. CASE SnapshotFallsDue
  <2>1. identity' \in Identities
    BY <1>3 DEF SnapshotFallsDue, TypeOK, Identities, Deadlines
  <2> QED
    BY <1>3, <2>1, StackStays DEF SnapshotFallsDue, call, TypeOK
<1>4. CASE PortalCools
  <2>1. portal' \in Portals
    BY <1>4, PortalSet DEF PortalCools, TypeOK
  <2> QED
    BY <1>4, <2>1, StackStays DEF PortalCools, call, TypeOK
<1>5. CASE Drop
  <2>1. CallOK'
    BY <1>5, EndsIdle DEF Drop, CallOK
  <2>2. resume' \in Resumes
    <3>1. resume.opened \in BOOLEAN /\ (CanOpenVault \/ resume.opened) \in BOOLEAN
      BY DEF TypeOK, Resumes, CanOpenVault
    <3> QED
      BY <1>5, <3>1, ResumeSet DEF Drop, TypeOK
  <2>3. portal' \in Portals
    <3>1. \A b \in BOOLEAN : [portal EXCEPT !.password = b] \in Portals
      BY DEF TypeOK, Portals
    <3>2. portal.password \in BOOLEAN
      BY DEF TypeOK, Portals
    <3> QED
      BY <1>5, <3>1, <3>2 DEF Drop, TypeOK
  <2>4. history' \in Histories
    <3>1. {history.posted, Posted} \subseteq {"no", "timed", "final"}
      BY DEF TypeOK, Histories, Posted
    <3> QED
      BY <1>5, <3>1 DEF Drop, TypeOK, Histories, Running
  <2> QED
    BY <1>5, <2>1, <2>2, <2>3, <2>4 DEF Drop, TypeOK, CallOK
<1> QED
  BY <1>1, <1>2, <1>3, <1>4, <1>5 DEF TimeStep

LEMMA TypeStep ==
  ASSUME TypeOK, StackOK, [Next]_vars
  PROVE  TypeOK' /\ StackOK'
<1>1. CASE IdentityStep
  BY <1>1, EnterIdentityTyped, IdentityInnerTyped, CookiesProveTyped, ProbeTyped
     DEF IdentityStep
<1>2. CASE \E c \in {"identity", "resume"} : LoginStep(c)
  BY <1>2, RecoveryTyped, EntryTyped, PostTyped DEF LoginStep
<1>3. CASE \E c \in Targets \cup {"resume", "direct"} : PortalStep(c)
  BY <1>3, BootstrapTyped, PortalTyped DEF PortalStep
<1>4. CASE \E s \in Targets : RefreshStep(s)
  BY <1>4, EnterRefreshTyped, PrepareTyped, EstablishedTyped DEF RefreshStep
<1>5. CASE DirectLibrary \/ DirectEstablish
  BY <1>5, DirectTyped
<1>6. CASE UserStep
  BY <1>6, ReadTyped, ForegroundTyped, UserTyped DEF UserStep
<1>7. CASE TimeStep
  BY <1>7, TimeTyped
<1>8. CASE UNCHANGED vars
  BY <1>8, StackStays DEF vars, runtime, call, TypeOK
<1> QED
  BY <1>1, <1>2, <1>3, <1>4, <1>5, <1>6, <1>7, <1>8 DEF Next, CallStep

-----------------------------------------------------------------------------
(* What a step finds Identity like.                                        *)

\* No frame is left.
LEMMA IdentityIdle ==
  ASSUME \A c \in Callers : pc'[c] = "idle",
         identity'.login => identity'.state \in {"anonymous", "expired"} /\ ~portal'.up,
         identity'.restored => identity'.state = "authenticated"
  PROVE  IdentityOK'
BY Names DEF IdentityOK, NoDispatchOverChallenge, AtAwait, Awaits

\* The frame c is the one that takes the next step.
LEMMA IdentityActive ==
  ASSUME StackOK', NEW c \in Callers, Active(c)',
         identity'.login =>
           /\ identity'.state \in {"anonymous", "expired"} /\ ~portal'.up
           /\ pc'[c] \notin Awaits,
         identity'.restored => identity'.state = "authenticated" /\ c = "resume",
         c = "identity" =>
           /\ ~Live'
           /\ pc'[c] = "inner" => ~identity'.login
           /\ pc'[c] # "begin" => resume'.at = "none"
           /\ pc'[c] \in {"probe", "recover"} => identity'.state \in {"authenticated", "expired"}
           /\ pc'[c] = "recover" => ~challenge' /\ ~identity'.login,
         c = "resume" /\ pc'[c] \in {"bootstrap", "recover"} =>
           identity'.state \notin {"authenticating", "challenged"},
         pc'[c] \in {"portal", "establish"} => identity'.state = "authenticated",
         pc'[c] \in {"portal", "discover", "submit"} => ~portal'.up,
         pc'[c] \in {"discover", "submit"} => history'.spent = {},
         pc'[c] = "discover" => identity'.state = "anonymous",
         pc'[c] = "submit" => identity'.state = "authenticating",
         pc'[c] \in {"portal", "probe", "discover", "submit"} => ~challenge'
  PROVE  IdentityOK'
<1>2. \A d \in Callers : d # c => pc'[d] \in {"idle", "identity", "nested"}
  BY DEF StackOK, Active
<1>3. AtAwait' => pc'[c] \in Awaits
  BY <1>2 DEF AtAwait, Awaits
<1>4. c # "identity" => pc'["identity"] = "idle"
  BY <1>2, Names DEF StackOK
<1>5. c # "resume" => pc'["resume"] = "idle"
  BY <1>2, Names DEF StackOK
<1>6. c = "resume" => \A d \in Callers \ {"resume"} : pc'[d] = "idle"
  BY <1>2, Names DEF StackOK, Active
<1>7. \A d \in Callers :
        /\ pc'[d] \in {"portal", "establish"} => identity'.state = "authenticated"
        /\ pc'[d] \in {"portal", "discover", "submit"} => ~portal'.up
        /\ pc'[d] \in {"discover", "submit"} => history'.spent = {} /\ ~challenge'
        /\ pc'[d] = "discover" => identity'.state = "anonymous"
        /\ pc'[d] = "submit" => identity'.state = "authenticating"
        /\ pc'[d] \in {"portal", "probe", "discover", "submit"} => ~challenge'
  BY <1>2
<1>8. NoDispatchOverChallenge'
  BY <1>7 DEF NoDispatchOverChallenge
<1>9. /\ identity'.login =>
           identity'.state \in {"anonymous", "expired"} /\ ~AtAwait' /\ ~portal'.up
      /\ identity'.restored => identity'.state = "authenticated"
      /\ identity'.restored => \A d \in Callers \ {"resume"} : pc'[d] = "idle"
  BY <1>3, <1>6
<1>10. /\ pc'["identity"] = "inner" => ~identity'.login
       /\ pc'["identity"] \notin {"idle", "begin"} => resume'.at = "none"
       /\ pc'["identity"] # "idle" => ~Live'
       /\ pc'["identity"] \in {"probe", "recover"} =>
            identity'.state \in {"authenticated", "expired"}
       /\ pc'["identity"] = "recover" => ~challenge' /\ ~identity'.login
  BY <1>4
<1>11. pc'["resume"] \in {"bootstrap", "recover"} =>
         identity'.state \notin {"authenticating", "challenged"}
  BY <1>5
<1> QED
  BY <1>7, <1>8, <1>9, <1>10, <1>11 DEF IdentityOK

\* The frames stay, and so does what they found.
LEMMA IdentityStays ==
  ASSUME IdentityOK, UNCHANGED <<pc, challenge>>, history'.spent = history.spent,
         identity'.state = identity.state, identity'.login = identity.login,
         identity'.restored = identity.restored, Live' => Live, portal'.up = portal.up,
         resume'.at = resume.at \/ pc["identity"] \in {"idle", "begin"}
  PROVE  IdentityOK'
BY DEF IdentityOK, NoDispatchOverChallenge, AtAwait, Awaits, Callers, Services

\* A call that fails leaves Identity as it was, or asks for a login.
LEMMA IdentityFails ==
  ASSUME TypeOK, IdentityOK, NEW g, NEW p \in Portals, NEW why, NEW kept,
         Fails(g, p, why, kept),
         \/ identity' = identity /\ (p.up = portal.up \/ ~p.up)
         \/ /\ identity' = RequireLogin(identity) /\ ~p.up
            /\ identity.state \in {"anonymous", "authenticating", "authenticated", "expired"}
  PROVE  IdentityOK'
<1>1. \A c \in Callers : pc'[c] = "idle"
  BY EndsIdle DEF Fails
<1>2. portal'.up = p.up
  BY UnwoundReturns DEF Fails
<1>3. CASE identity' = identity /\ (p.up = portal.up \/ ~p.up)
  BY <1>1, <1>2, <1>3, IdentityIdle DEF IdentityOK
<1>4. CASE /\ identity' = RequireLogin(identity) /\ ~p.up
           /\ identity.state \in {"anonymous", "authenticating", "authenticated", "expired"}
  <2>1. identity'.login /\ ~identity'.restored /\ identity'.state \in {"anonymous", "expired"}
    BY <1>4, RequireLoginReturns DEF TypeOK
  <2> QED
    BY <1>1, <1>2, <1>4, <2>1, IdentityIdle
<1> QED
  BY <1>3, <1>4

LEMMA GoesTo ==
  ASSUME TypeOK, NEW c \in Callers, NEW step, Goes(c, step)
  PROVE  /\ pc'[c] = step
         /\ \A d \in Callers : pc'[d] = IF d = c THEN step ELSE pc[d]
BY DEF TypeOK, Goes

\* Identity was proven, and who waited for it goes on.
LEMMA IdentityReturned ==
  ASSUME TypeOK, StackOK, StackOK', Active("identity"), IdentityReturns("prepare"),
         UNCHANGED <<direct, root>>,
         identity'.state = "authenticated", ~identity'.login, ~identity'.restored
  PROVE  IdentityOK'
<1>1. \A c \in Callers : pc'[c] = IF c = "identity" THEN "idle"
                                  ELSE IF pc[c] = "identity" THEN "prepare" ELSE pc[c]
  BY StackIdentityReturns
<1>2. \A c \in Callers : c # "identity" => pc[c] \in {"idle", "identity", "nested"}
  BY Names DEF StackOK, Active
<1>3. CASE \E c \in Callers : pc[c] = "identity"
  <2>1. PICK c \in Callers : pc[c] = "identity"
    BY <1>3
  <2>2. c # "identity"
    BY <2>1 DEF Active
  <2>3. pc'[c] = "prepare"
    BY <1>1, <2>1, <2>2
  <2>4. Active(c)'
    BY <2>3 DEF Active
  <2> QED
    BY <2>2, <2>3, <2>4, IdentityActive DEF Awaits
<1>4. CASE ~(\E c \in Callers : pc[c] = "identity")
  <2>1. \A c \in Callers : pc'[c] \in {"idle", "nested"}
    BY <1>1, <1>2, <1>4
  <2>2. pc'["identity"] = "idle" /\ pc'["resume"] = "idle"
    BY <1>1, <2>1, Names DEF StackOK
  <2> QED
    BY <2>1, <2>2 DEF IdentityOK, NoDispatchOverChallenge
<1> QED
  BY <1>3, <1>4

LEMMA IdentityStepOK ==
  ASSUME TypeOK, StackOK, IdentityOK, TypeOK', StackOK', IdentityStep
  PROVE  IdentityOK'
<1>1. CASE EnterIdentity
  <2> DEFINE g == ProbeReopened(GateReopened, "identity")
             due == LoginDue \/ GateReopened["identity"].retry = "due"
             p == PortalReopened(due)
             q == PortalReopened(LoginDue)
  <2>1. p \in Portals /\ p.up = portal.up /\ q \in Portals /\ q.up = portal.up
    BY PortalReopenedReturns DEF TypeOK
  <2>2. \/ Fails(GateReopened, q, "notice", clean)
        \/ Fails(GateReopened, q, "failed", clean)
        \/ Fails(g, p, g["identity"].result, clean)
        \/ Fails(g, p, "failed", clean)
        \/ resume'.at = "none" /\ ~identity.login /\ portal' = p /\ Goes("identity", "inner")
    BY <1>1 DEF EnterIdentity
  <2>3. /\ UNCHANGED <<identity, proven, challenge>> /\ pc["identity"] = "begin"
    BY <1>1 DEF EnterIdentity
  <2> HIDE DEF g, p, q
  <2>4. CASE resume'.at = "none" /\ ~identity.login /\ portal' = p /\ Goes("identity", "inner")
    <3>1. pc'["identity"] = "inner" /\ Active("identity")'
      BY <2>4, GoesTo, Names DEF Active
    <3>2. ~Live' /\ ~identity.restored
      BY <2>3, Names DEF IdentityOK, Live, Current
    <3> QED
      BY <2>3, <2>4, <3>1, <3>2, IdentityActive, Names
  <2>5. CASE ~(resume'.at = "none" /\ ~identity.login /\ portal' = p /\ Goes("identity", "inner"))
    BY <2>1, <2>2, <2>3, <2>5, IdentityFails
  <2> QED
    BY <2>4, <2>5
<1>2. CASE IdentityInner
  <2>1. UNCHANGED <<identity, challenge, resume>> /\ pc["identity"] = "inner"
    BY <1>2 DEF IdentityInner
  <2>2. CASE challenge \/ identity.state \notin {"authenticated", "expired"}
    <3>1. Fails(gate, portal, "failed", clean) /\ portal \in Portals
      BY <1>2, <2>2 DEF IdentityInner, TypeOK
    <3> QED
      BY <2>1, <3>1, IdentityFails
  <2>3. CASE ~challenge /\ identity.state \in {"authenticated", "expired"}
    <3>1. pc'["identity"] = "probe" /\ Active("identity")'
      BY <1>2, <2>3, GoesTo, Names DEF IdentityInner, Active
    <3>2. ~Live' /\ ~identity.restored /\ ~identity.login /\ resume.at = "none"
      BY <2>1, Names DEF IdentityOK, Live, Current
    <3> QED
      BY <2>1, <2>3, <3>1, <3>2, IdentityActive, Names
  <2> QED
    BY <2>2, <2>3
<1>3. CASE CookiesProve
  <2> DEFINE p == [portal EXCEPT !.up = TRUE, !.password = FALSE,
                                 !.proof = @ \/ portal.depth > 0]
  <2>1. /\ identity'.state = "authenticated" /\ ~identity'.restored
        /\ identity'.login = identity.login /\ pc["identity"] = "probe"
    BY <1>3 DEF CookiesProve, TypeOK, Identities
  <2>2. AtAwait
    BY <2>1, Names DEF AtAwait, Awaits
  <2>3. ~identity'.login
    BY <2>1, <2>2 DEF IdentityOK
  <2>4. CASE IdentityReturns("prepare") /\ UNCHANGED <<direct, root>>
    BY <2>1, <2>3, <2>4, IdentityReturned DEF Active
  <2>5. CASE \E dirty \in BOOLEAN : Fails(CycleFinished(gate), p, "failed", Kept(dirty))
    <3>1. \A c \in Callers : pc'[c] = "idle"
      BY <2>5, EndsIdle DEF Fails
    <3> QED
      BY <2>1, <2>3, <3>1, IdentityIdle
  <2> QED
    BY <1>3, <2>4, <2>5 DEF CookiesProve
<1>4. CASE ProbeFails
  <2>1. PICK why \in {"transient", "failed"}, dirty \in BOOLEAN :
          Fails(gate, portal, why, Kept(dirty))
    BY <1>4 DEF ProbeFails
  <2>2. portal \in Portals /\ UNCHANGED identity
    BY <1>4 DEF TypeOK, ProbeFails
  <2> QED
    BY <2>1, <2>2, IdentityFails
<1>5. CASE ProbeNeedsLogin
  <2>1. pc["identity"] = "probe" /\ UNCHANGED <<identity, challenge, resume>>
        /\ portal'.up = portal.up
    BY <1>5 DEF ProbeNeedsLogin, TypeOK, Portals
  <2>2. AtAwait
    BY <2>1, Names DEF AtAwait, Awaits
  <2>3. ~identity.login /\ ~identity.restored /\ ~Live' /\ ~challenge /\ resume.at = "none"
        /\ identity.state \in {"authenticated", "expired"}
    BY <2>1, <2>2, Names DEF IdentityOK, NoDispatchOverChallenge, Live, Current
  <2>4. pc'["identity"] = "recover" /\ Active("identity")'
    BY <1>5, GoesTo, Names DEF ProbeNeedsLogin, Active
  <2> QED
    BY <2>1, <2>3, <2>4, IdentityActive, Names DEF Awaits
<1> QED
  BY <1>1, <1>2, <1>3, <1>4, <1>5 DEF IdentityStep

LEMMA IdentityLoginOK ==
  ASSUME TypeOK, StackOK, IdentityOK, TypeOK', StackOK',
         NEW c \in {"identity", "resume"}, LoginStep(c)
  PROVE  IdentityOK'
<1>1. c \in Callers /\ portal \in Portals
  BY Names DEF TypeOK
<1>2. CASE \/ RecoveryRefused(c) \/ RecoveryVaultBusy(c) \/ RecoveryNoRecord(c)
  <2>1. PICK r : NotRecovered(c, identity, r, clean) /\ pc[c] = "recover"
    BY <1>2 DEF RecoveryRefused, RecoveryVaultBusy, RecoveryNoRecord, Recovering
  <2>2. CASE c = "resume"
    <3>1. Ends /\ identity' = identity /\ portal' = portal
      BY <2>1, <2>2 DEF NotRecovered
    <3> QED
      BY <3>1, EndsIdle, IdentityIdle DEF IdentityOK
  <2>3. CASE c = "identity"
    <3>1. identity.state \in {"authenticated", "expired"}
      BY <2>1, <2>3 DEF IdentityOK
    <3>2. CASE r.attempt = "retryable"
      <4>1. identity' = identity /\ Fails(gate, portal, "transient", clean)
        BY <2>1, <2>3, <3>2 DEF NotRecovered
      <4> QED
        BY <1>1, <4>1, IdentityFails
    <3>3. CASE r.attempt # "retryable"
      <4> DEFINE p == [portal EXCEPT !.up = FALSE]
      <4>1. identity' = RequireLogin(identity) /\ Fails(gate, p, "failed", clean)
        BY <2>1, <2>3, <3>3 DEF NotRecovered
      <4>2. p \in Portals /\ ~p.up
        BY <1>1 DEF Portals
      <4> HIDE DEF p
      <4> QED
        BY <3>1, <4>1, <4>2, IdentityFails
    <3> QED
      BY <3>2, <3>3
  <2> QED
    BY <2>2, <2>3
<1>3. CASE RecoveryLogin(c)
  <2>1. pc'[c] = "discover"
    BY <1>1, <1>3, GoesTo DEF RecoveryLogin
  <2>2. Active(c)'
    BY <2>1 DEF Active
  <2>3. /\ identity'.state = "anonymous" /\ ~identity'.restored /\ ~identity'.login
        /\ ~challenge' /\ ~portal'.up /\ history'.spent = {} /\ resume'.at = resume.at
        /\ pc[c] = "recover"
    BY <1>3 DEF RecoveryLogin, Recovering, TypeOK, Identities, Histories, Resumes
  <2>4. c = "identity" => resume'.at = "none"
    BY <2>3 DEF IdentityOK
  <2>5. ~Live'
    BY <2>3 DEF Live, Current
  <2> QED
    BY <1>1, <2>1, <2>2, <2>3, <2>4, <2>5, IdentityActive
<1>4. CASE pc[c] \in {"discover", "submit"}
  <2>1. /\ ~identity.login /\ ~identity.restored /\ ~portal.up /\ ~challenge
        /\ history.spent = {} /\ (c = "identity" => resume.at = "none")
    <3>1. AtAwait
      BY <1>1, <1>4 DEF AtAwait, Awaits
    <3>2. identity.state \in {"anonymous", "authenticating"}
      BY <1>1, <1>4 DEF IdentityOK
    <3> QED
      BY <1>1, <1>4, <3>1, <3>2 DEF IdentityOK
  <2>2. CASE EntryUnavailable(c) \/ EntryRefused(c)
    <3>1. PICK why : identity' = identity /\ Fails(gate, portal, why, {})
      BY <2>2 DEF EntryUnavailable, EntryRefused, LoginFails
    <3> QED
      BY <1>1, <3>1, IdentityFails
  <2>3. CASE EntryRead(c)
    <3>1. pc'[c] = "submit"
      BY <1>1, <2>3, GoesTo DEF EntryRead
    <3>2. Active(c)'
      BY <3>1 DEF Active
    <3>3. /\ identity'.state = "authenticating" /\ identity'.restored = identity.restored
          /\ identity'.login = identity.login
          /\ UNCHANGED <<challenge, resume, portal, history>>
      BY <2>3 DEF EntryRead, TypeOK, Identities
    <3>4. ~Live'
      BY <3>3 DEF Live, Current
    <3> QED
      BY <1>1, <2>1, <3>1, <3>2, <3>3, <3>4, IdentityActive
  <2>4. CASE PostUnanswered(c)
    <3>1. Ends /\ ~identity'.login /\ ~identity'.restored
      BY <2>1, <2>4 DEF PostUnanswered, TypeOK, Identities
    <3> QED
      BY <3>1, EndsIdle, IdentityIdle
  <2>5. CASE PostRejected(c)
    <3> DEFINE i == RequireLogin(identity)
    <3>1. Fails(gate, portal, "failed", {}) /\ identity' = [i EXCEPT !.state = "anonymous"]
      BY <2>5 DEF PostRejected, LoginFails
    <3>2. i \in Identities /\ ~i.restored
      BY RequireLoginReturns DEF TypeOK
    <3> HIDE DEF i
    <3>3. identity'.state = "anonymous" /\ ~identity'.restored
      BY <3>1, <3>2 DEF Identities
    <3>4. portal'.up = portal.up /\ Ends
      BY <1>1, <3>1, UnwoundReturns DEF Fails
    <3> QED
      BY <2>1, <3>3, <3>4, EndsIdle, IdentityIdle
  <2>6. CASE PostChallenged(c)
    <3>1. Ends /\ ~identity'.login /\ ~identity'.restored
      BY <2>1, <2>6 DEF PostChallenged, LoginFails, Fails, TypeOK, Identities
    <3> QED
      BY <3>1, EndsIdle, IdentityIdle
  <2>7. CASE PostProves(c)
    <3>1. identity'.state = "authenticated" /\ ~identity'.login /\ ~identity'.restored
          /\ UNCHANGED <<direct, root>> /\ pc[c] = "submit"
      BY <2>1, <2>7 DEF PostProves, TypeOK, Identities
    <3>2. CASE c = "identity"
      <4>1. IdentityReturns("prepare")
        BY <2>7, <3>2 DEF PostProves
      <4> QED
        BY <3>1, <3>2, <4>1, IdentityReturned DEF Active
    <3>3. CASE c = "resume"
      <4>1. \A d \in Callers : pc'[d] = IF d = "direct" THEN "bootstrap" ELSE "idle"
        BY <2>7, <3>1, <3>3, StackPasses DEF PostProves
      <4>2. pc'["direct"] = "bootstrap"
        BY <4>1, Names
      <4>3. Active("direct")'
        BY <4>2 DEF Active
      <4> QED
        BY <3>1, <4>2, <4>3, IdentityActive, Names DEF Awaits
    <3> QED
      BY <3>2, <3>3
  <2> QED
    BY <1>4, <2>2, <2>3, <2>4, <2>5, <2>6, <2>7
       DEF LoginStep, RecoveryRefused, RecoveryVaultBusy, RecoveryNoRecord, RecoveryLogin,
           Recovering
<1>5. \/ pc[c] \in {"discover", "submit"}
      \/ RecoveryRefused(c) \/ RecoveryVaultBusy(c) \/ RecoveryNoRecord(c) \/ RecoveryLogin(c)
  BY DEF LoginStep, EntryUnavailable, EntryRefused, EntryRead, PostUnanswered, PostRejected,
         PostChallenged, PostProves
<1> QED
  BY <1>2, <1>3, <1>4, <1>5

\* What a frame at the portal found.
LEMMA AtPortal ==
  ASSUME StackOK, IdentityOK, NEW c \in Callers, pc[c] = "portal"
  PROVE  /\ identity.state = "authenticated" /\ ~identity.login /\ ~portal.up /\ ~challenge
         /\ identity.restored => c = "resume"
<1>1. AtAwait
  BY DEF AtAwait, Awaits
<1> QED
  BY <1>1 DEF IdentityOK, NoDispatchOverChallenge

LEMMA IdentityPortalFails ==
  ASSUME TypeOK, StackOK, IdentityOK, TypeOK', StackOK',
         NEW c \in Targets \cup {"resume", "direct"}, pc[c] \in {"bootstrap", "portal"},
         NEW r, NEW p \in Portals, NEW why, NEW kept, PortalFails(c, r, p, why, kept),
         \/ identity' = identity /\ p.up = portal.up
         \/ identity' = RequireLogin(identity) /\ ~p.up /\ pc[c] = "portal"
  PROVE  IdentityOK'
<1>1. c \in Callers
  BY Names
<1>2. pc[c] = "portal" => identity.state = "authenticated"
  BY <1>1, AtPortal
<1>3. CASE c # "resume"
  <2>1. Fails(gate, p, why, kept)
    BY <1>3 DEF PortalFails
  <2> QED
    BY <1>2, <2>1, IdentityFails
<1>4. CASE c = "resume"
  <2>1. portal' = p /\ Goes(c, IF p.password THEN "recover" ELSE "idle")
        /\ UNCHANGED <<direct, root>>
    BY <1>4 DEF PortalFails
  <2>2. \A d \in Callers : d # c => pc[d] = "idle"
    BY <1>4, Names DEF StackOK, Active
  <2>3. /\ identity'.login => identity'.state \in {"anonymous", "expired"} /\ ~portal'.up
        /\ identity'.restored => identity'.state = "authenticated"
        /\ identity'.state \notin {"authenticating", "challenged"}
    <3>1. CASE identity' = identity /\ p.up = portal.up
      BY <1>2, <1>4, <2>1, <3>1 DEF IdentityOK
    <3>2. CASE identity' = RequireLogin(identity) /\ ~p.up /\ pc[c] = "portal"
      <4>1. identity'.state = "expired" /\ ~identity'.restored
        BY <1>2, <3>2, RequireLoginReturns DEF TypeOK
      <4> QED
        BY <2>1, <3>2, <4>1
    <3> QED
      BY <3>1, <3>2
  <2>4. CASE p.password
    <3>1. pc'[c] = "recover"
      BY <1>1, <2>1, <2>4, GoesTo
    <3>2. Active(c)'
      BY <3>1 DEF Active
    <3> QED
      BY <1>1, <1>4, <2>3, <3>1, <3>2, IdentityActive DEF Awaits
  <2>5. CASE ~p.password
    <3>1. \A d \in Callers : pc'[d] = "idle"
      BY <1>1, <2>1, <2>2, <2>5, GoesTo
    <3> QED
      BY <2>3, <3>1, IdentityIdle
  <2> QED
    BY <2>4, <2>5
<1> QED
  BY <1>3, <1>4

LEMMA IdentityPortalDone ==
  ASSUME TypeOK, StackOK, IdentityOK, TypeOK', StackOK',
         NEW c \in Targets \cup {"resume", "direct"}, pc[c] \in {"bootstrap", "portal"},
         NEW r, NEW p, PortalDone(c, p, r),
         identity.state = "authenticated", identity'.state = identity.state,
         identity'.login = identity.login, identity'.restored => identity.restored
  PROVE  IdentityOK'
<1>1. c \in Callers /\ c # "identity" /\ Goes(c, AfterPortal(c))
  BY Names DEF PortalDone
<1>2. ~identity'.login
  BY DEF IdentityOK
<1>3. identity'.restored => c = "resume"
  BY <1>1 DEF IdentityOK
<1>4. CASE AfterPortal(c) = "idle"
  <2>1. c \in {"resume", "direct"}
    BY <1>4, Names DEF AfterPortal
  <2>2. \A d \in Callers : d # c => pc[d] = "idle"
    BY <2>1, Names DEF StackOK, Active
  <2>3. \A d \in Callers : pc'[d] = "idle"
    BY <1>1, <1>4, <2>2, GoesTo
  <2> QED
    BY <1>2, <2>3, IdentityIdle
<1>5. CASE AfterPortal(c) # "idle"
  <2>1. c # "resume" /\ AfterPortal(c) \in {"parent", "establish"}
    BY <1>5, Names DEF AfterPortal
  <2>2. pc'[c] = AfterPortal(c)
    BY <1>1, GoesTo
  <2>3. Active(c)'
    BY <2>1, <2>2 DEF Active
  <2> QED
    BY <1>1, <1>2, <1>3, <2>1, <2>2, <2>3, IdentityActive
<1> QED
  BY <1>4, <1>5

LEMMA IdentityPortalOK ==
  ASSUME TypeOK, StackOK, IdentityOK, TypeOK', StackOK',
         NEW c \in Targets \cup {"resume", "direct"}, PortalStep(c)
  PROVE  IdentityOK'
<1>1. c \in Callers /\ c # "identity" /\ portal \in Portals /\ resume \in Resumes
  BY Names DEF TypeOK
<1>2. CASE Bootstrap(c)
  <2>1. pc[c] = "bootstrap" /\ UNCHANGED <<identity, challenge>>
    BY <1>2 DEF Bootstrap
  <2>2. \/ PortalFails(c, resume, portal, "failed", clean)
        \/ Current /\ PortalDone(c, portal, resume)
        \/ PortalFails(c, resume, portal, portal.failure, clean)
        \/ PortalFails(c, resume, [portal EXCEPT !.failure = "failed"], "failed", clean)
        \/ Current /\ ~portal.up /\ ~challenge /\ Goes(c, "portal") /\ UNCHANGED portal
    BY <1>2 DEF Bootstrap
  <2>3. CASE \/ PortalFails(c, resume, portal, "failed", clean)
             \/ PortalFails(c, resume, portal, portal.failure, clean)
    BY <1>1, <2>1, <2>3, IdentityPortalFails
  <2>4. CASE PortalFails(c, resume, [portal EXCEPT !.failure = "failed"], "failed", clean)
    BY <1>1, <2>1, <2>4, PortalSet, IdentityPortalFails
  <2>5. CASE Current /\ PortalDone(c, portal, resume)
    BY <2>1, <2>5, IdentityPortalDone DEF Current
  <2>6. CASE Current /\ ~portal.up /\ ~challenge /\ Goes(c, "portal") /\ UNCHANGED portal
    <3>1. pc'[c] = "portal"
      BY <1>1, <2>6, GoesTo
    <3>2. Active(c)'
      BY <3>1 DEF Active
    <3>3. identity.state = "authenticated" /\ ~identity.login
          /\ (identity.restored => c = "resume")
      BY <1>1, <2>1, <2>6 DEF Current, IdentityOK
    <3> QED
      BY <1>1, <2>1, <2>6, <3>1, <3>2, <3>3, IdentityActive
  <2> QED
    BY <2>2, <2>3, <2>4, <2>5, <2>6
<1>3. CASE PortalProves(c)
  <2>1. pc[c] = "portal" /\ identity' = [identity EXCEPT !.restored = FALSE]
        /\ \E p, r : PortalDone(c, p, r)
    BY <1>3 DEF PortalProves, Asked
  <2>2. identity'.state = identity.state /\ identity'.login = identity.login
        /\ ~identity'.restored
    BY <2>1 DEF TypeOK, Identities
  <2>3. identity.state = "authenticated"
    BY <1>1, <2>1, AtPortal
  <2> QED
    BY <2>1, <2>2, <2>3, IdentityPortalDone
<1>4. CASE \/ PortalUnanswered(c) \/ PortalVaultBusy(c) \/ PortalNeedsLogin(c)
           \/ PortalPostUnanswered(c) \/ PortalPostRejected(c) \/ PortalPauses(c)
  <2>1. pc[c] = "portal"
    BY <1>4 DEF PortalUnanswered, PortalVaultBusy, PortalNeedsLogin, PortalPostUnanswered,
                PortalPostRejected, PortalPauses, Asked
  <2>2. ~portal.up /\ resume.opened \in BOOLEAN /\ CanOpenVault \in BOOLEAN
    BY <1>1, <2>1, AtPortal DEF CanOpenVault, TypeOK, Resumes
  <2>3. \E p, r, why, kept :
          /\ p \in Portals
          /\ PortalFails(c, r, p, why, kept)
          /\ ~p.up
          /\ identity' = identity \/ identity' = RequireLogin(identity)
    <3>1. CASE PortalUnanswered(c)
      <4>1. PICK why \in {"transient", "failed"}, dirty \in BOOLEAN :
              PortalFails(c, resume, Noted(why, FALSE), why, Kept(dirty))
        BY <3>1 DEF PortalUnanswered
      <4>2. Noted(why, FALSE) \in Portals /\ ~Noted(why, FALSE).up
        BY <1>1, <2>2, PortalSet
      <4> QED
        BY <3>1, <4>1, <4>2 DEF PortalUnanswered
    <3>2. CASE PortalVaultBusy(c)
      <4>1. Noted("transient", TRUE) \in Portals /\ ~Noted("transient", TRUE).up
        BY <1>1, <2>2, PortalSet
      <4> QED
        BY <3>2, <4>1 DEF PortalVaultBusy
    <3>3. CASE PortalNeedsLogin(c)
      <4>1. /\ [Noted("failed", TRUE) EXCEPT !.up = FALSE] \in Portals
            /\ ~[Noted("failed", TRUE) EXCEPT !.up = FALSE].up
        BY <1>1, PortalSet
      <4> QED
        BY <3>3, <4>1 DEF PortalNeedsLogin
    <3>4. CASE PortalPostUnanswered(c) \/ PortalPostRejected(c)
      <4>1. Noted("failed", TRUE) \in Portals /\ ~Noted("failed", TRUE).up
        BY <1>1, <2>2, PortalSet
      <4> QED
        BY <3>4, <4>1 DEF PortalPostUnanswered, PortalPostRejected
    <3>5. CASE PortalPauses(c)
      <4>1. PICK opened \in {resume.opened, CanOpenVault \/ resume.opened},
                 password \in BOOLEAN, dirty \in BOOLEAN :
              PortalFails(c, [resume EXCEPT !.opened = opened], Noted("failed", password),
                          "failed", Kept(dirty))
        BY <3>5 DEF PortalPauses
      <4>2. Noted("failed", password) \in Portals /\ ~Noted("failed", password).up
        BY <1>1, <2>2, PortalSet
      <4> QED
        BY <3>5, <4>1, <4>2 DEF PortalPauses
    <3> QED
      BY <1>4, <3>1, <3>2, <3>3, <3>4, <3>5
  <2>4. PICK p, r, why, kept :
          /\ p \in Portals
          /\ PortalFails(c, r, p, why, kept)
          /\ ~p.up
          /\ identity' = identity \/ identity' = RequireLogin(identity)
    BY <2>3
  <2>5. p.up = portal.up
    BY <1>1, <2>2, <2>4 DEF Portals
  <2> QED
    BY <2>1, <2>4, <2>5, IdentityPortalFails
<1> QED
  BY <1>2, <1>3, <1>4 DEF PortalStep

LEMMA IdentityRefreshOK ==
  ASSUME TypeOK, StackOK, IdentityOK, TypeOK', StackOK', NEW s \in Targets, RefreshStep(s)
  PROVE  IdentityOK'
<1>1. s \in Callers /\ s \notin {"identity", "resume", "direct"} /\ portal \in Portals
  BY Names DEF TypeOK
<1>2. CASE EnterRefresh(s)
  <2> DEFINE g == ProbeReopened(gate, s)
             q == PortalReopened(gate[s].retry = "due")
  <2>1. q \in Portals /\ q.up = portal.up /\ pc[s] = "begin" /\ UNCHANGED <<identity, resume>>
    BY <1>1, <1>2, PortalReopenedReturns DEF EnterRefresh
  <2>2. ~identity.restored
    BY <1>1, <2>1 DEF IdentityOK
  <2>3. \/ portal' = q /\ Ends
        \/ \E why : Fails(g, q, why, clean)
        \/ portal' = [q EXCEPT !.depth = @ + 1] /\ Goes(s, "prepare")
        \/ /\ portal' = [q EXCEPT !.depth = @ + 1] /\ ~Live
           /\ pc' = [pc EXCEPT ![s] = "identity", !["identity"] = "begin"]
    BY <1>2 DEF EnterRefresh
  <2> HIDE DEF g, q
  <2>4. CASE portal' = q /\ Ends
    BY <2>1, <2>4, EndsIdle, IdentityIdle DEF IdentityOK
  <2>5. CASE \E why : Fails(g, q, why, clean)
    BY <2>1, <2>5, IdentityFails
  <2>6. CASE portal' = [q EXCEPT !.depth = @ + 1] /\ Goes(s, "prepare")
    <3>1. pc'[s] = "prepare" /\ portal'.up = portal.up
      BY <1>1, <2>1, <2>6, GoesTo DEF Portals
    <3>2. Active(s)'
      BY <3>1 DEF Active
    <3>3. identity'.login => identity'.state \in {"anonymous", "expired"} /\ ~portal'.up
      BY <2>1, <3>1 DEF IdentityOK
    <3> QED
      BY <1>1, <2>1, <2>2, <3>1, <3>2, <3>3, IdentityActive DEF Awaits
  <2>7. CASE /\ portal' = [q EXCEPT !.depth = @ + 1] /\ ~Live
             /\ pc' = [pc EXCEPT ![s] = "identity", !["identity"] = "begin"]
    <3>1. pc'["identity"] = "begin" /\ portal'.up = portal.up
      BY <1>1, <2>1, <2>7, Names DEF Portals, TypeOK
    <3>2. Active("identity")'
      BY <3>1 DEF Active
    <3>3. identity'.login => identity'.state \in {"anonymous", "expired"} /\ ~portal'.up
      BY <2>1, <3>1 DEF IdentityOK
    <3>4. ~Live'
      BY <2>1, <2>7 DEF Live, Current
    <3> QED
      BY <2>1, <2>2, <3>1, <3>2, <3>3, <3>4, IdentityActive, Names DEF Awaits
  <2> QED
    BY <2>3, <2>4, <2>5, <2>6, <2>7
<1>3. CASE Prepare(s)
  <2>1. /\ pc[s] = "prepare" /\ UNCHANGED identity /\ (portal'.up => portal.up)
        /\ (Goes(s, "parent") \/ Goes(s, "bootstrap"))
    BY <1>1, <1>3 DEF Prepare, Portals
  <2>2. pc'[s] \in {"parent", "bootstrap"}
    BY <1>1, <2>1, GoesTo
  <2>3. Active(s)' /\ ~identity.restored
    BY <1>1, <2>1, <2>2 DEF Active, IdentityOK
  <2>4. identity'.login => identity'.state \in {"anonymous", "expired"} /\ ~portal'.up
    BY <2>1 DEF IdentityOK
  <2> QED
    BY <1>1, <2>1, <2>2, <2>3, <2>4, IdentityActive DEF Awaits
<1>4. CASE Parent(s)
  <2>1. /\ pc[s] = "parent" /\ UNCHANGED <<identity, portal>> /\ HasParent(s)
        /\ ParentOf[s] \in Targets
    BY <1>4, Parents DEF Parent, runtime, StackOK
  <2>2. ~identity.restored
    BY <1>1, <2>1 DEF IdentityOK
  <2>3. CASE Proven(ParentOf[s])
    <3>1. pc'[s] = "establish"
      BY <1>1, <1>4, <2>3, GoesTo DEF Parent
    <3>2. Active(s)'
      BY <3>1 DEF Active
    <3>3. identity.state = "authenticated" /\ ~identity.login
      BY <2>3 DEF Proven, Current, IdentityOK
    <3> QED
      BY <1>1, <2>1, <2>2, <3>1, <3>2, <3>3, IdentityActive
  <2>4. CASE ~Proven(ParentOf[s])
    <3> DEFINE d == ParentOf[s]
    <3>1. d \in Callers /\ d \notin {"identity", "resume", "direct"} /\ pc'[d] = "begin"
      BY <1>1, <1>4, <2>1, <2>4, Names DEF Parent, TypeOK
    <3> HIDE DEF d
    <3>2. Active(d)'
      BY <3>1 DEF Active
    <3>3. identity'.login => identity'.state \in {"anonymous", "expired"} /\ ~portal'.up
      BY <2>1 DEF IdentityOK
    <3> QED
      BY <2>1, <2>2, <3>1, <3>2, <3>3, IdentityActive DEF Awaits
  <2> QED
    BY <2>3, <2>4
<1>5. CASE Established(s) \/ EstablishFails(s)
  <2>1. pc[s] = "establish" /\ UNCHANGED identity
    BY <1>5 DEF Established, EstablishFails
  <2>2. identity.state = "authenticated" /\ ~identity.login /\ ~identity.restored
    BY <1>1, <2>1 DEF IdentityOK
  <2>3. CASE \E dirty \in BOOLEAN : Fails(gate, portal, "failed", Kept(dirty))
    BY <1>1, <2>1, <2>3, IdentityFails
  <2>4. CASE Returns(s)
    <3>1. \A c \in Callers : pc'[c] \in {"idle", "nested", "establish", pc[c]}
      BY <2>4 DEF Returns
    <3>2. \A c \in Callers : c # s => pc[c] \in {"idle", "identity", "nested"}
      BY <1>1, <2>1 DEF StackOK, Active
    <3>3. pc'[s] = "idle"
      BY <1>1, <2>4 DEF Returns
    <3>4. \A c \in Callers : pc'[c] \in {"idle", "identity", "nested", "establish"}
      BY <3>1, <3>2, <3>3
    <3>5. pc'["identity"] = "idle" /\ pc'["resume"] = "idle"
      BY <3>4, Names DEF StackOK
    <3> QED
      BY <2>1, <2>2, <3>4, <3>5 DEF IdentityOK, NoDispatchOverChallenge
  <2> QED
    BY <1>5, <2>3, <2>4 DEF Established, EstablishFails
<1> QED
  BY <1>2, <1>3, <1>4, <1>5 DEF RefreshStep

LEMMA IdentityDirectOK ==
  ASSUME TypeOK, StackOK, IdentityOK, TypeOK', StackOK', DirectLibrary \/ DirectEstablish
  PROVE  IdentityOK'
<1>1. pc["direct"] = "establish" /\ UNCHANGED <<identity, portal>>
  BY DEF DirectLibrary, DirectEstablish, runtime
<1>2. identity.state = "authenticated" /\ ~identity.login /\ ~identity.restored
  BY <1>1, Names DEF IdentityOK
<1>3. CASE DirectLibrary
  <2>1. "library" \in Targets
    BY <1>1, <1>3, Names DEF DirectLibrary, StackOK, TypeOK
  <2>2. pc'["library"] = "begin" /\ "library" \in Callers
    BY <1>3, <2>1, Names DEF DirectLibrary, TypeOK
  <2>3. Active("library")'
    BY <2>2 DEF Active
  <2> QED
    BY <1>1, <1>2, <2>1, <2>2, <2>3, IdentityActive, Names DEF Awaits
<1>4. CASE DirectEstablish
  BY <1>1, <1>2, <1>4, EndsIdle, IdentityIdle DEF DirectEstablish
<1> QED
  BY <1>3, <1>4

LEMMA IdentityBegins ==
  ASSUME TypeOK, StackOK, IdentityOK, TypeOK', StackOK', Idle, NEW c \in Callers, NEW step,
         pc' = [pc EXCEPT ![c] = step], UNCHANGED identity, portal'.up => portal.up,
         identity.restored => c = "resume",
         \/ step = "begin" /\ (c = "identity" => ~Live)
         \/ c = "resume" /\ step = "recover" /\ identity.state = "anonymous"
         \/ step = "bootstrap" /\ c # "identity" /\ identity.state = "authenticated"
         \/ step = "establish" /\ c # "identity" /\ identity.state = "authenticated"
  PROVE  IdentityOK'
<1>1. pc'[c] = step
  BY DEF TypeOK
<1>2. Active(c)'
  BY <1>1 DEF Active
<1>3. identity'.login => identity'.state \in {"anonymous", "expired"} /\ ~portal'.up
  BY DEF IdentityOK
<1>4. identity'.restored => identity'.state = "authenticated"
  BY DEF IdentityOK
<1>5. c = "identity" => ~Live' /\ step = "begin"
  BY DEF Live, Current
<1> QED
  BY <1>1, <1>2, <1>3, <1>4, <1>5, IdentityActive DEF Awaits

LEMMA IdentityUserOK ==
  ASSUME TypeOK, StackOK, IdentityOK, TypeOK', StackOK', UserStep
  PROVE  IdentityOK'
<1>1. Idle
  BY DEF UserStep, ReadStep, EstablishManually, ReadUnproven, ReadExpired, ReadServed,
         ChildExpired, Foreground, ReadIdentityLost, ExplicitLogin, Logout, CompletePrimary,
         CompletePortal
<1>2. \A c \in Callers : pc[c] = "idle"
  BY <1>1 DEF Idle
<1>3. UNCHANGED call => \A c \in Callers : pc'[c] = "idle"
  BY <1>2 DEF call
<1>4. ASSUME NEW s \in Targets, ReadStep(s)
      PROVE  IdentityOK'
  <2>1. s \in Callers /\ s \notin {"identity", "resume", "direct"} /\ "direct" \in Callers
    BY Names
  <2>2. /\ Live /\ UNCHANGED <<identity, challenge>>
        /\ (portal'.up => portal.up)
    BY <1>4 DEF ReadStep, EstablishManually, ReadUnproven, ReadExpired, ReadServed, TypeOK,
                Portals
  <2>3. identity.state = "authenticated" /\ ~identity.restored /\ ~identity.login
    BY <2>2 DEF Live, Current, IdentityOK
  <2>4. \/ UNCHANGED call
        \/ Begins("direct", "establish") \/ Begins("direct", "bootstrap")
        \/ Begins(s, "begin")
    BY <1>4 DEF ReadStep, EstablishManually, ReadUnproven, ReadExpired, ReadServed
  <2>5. CASE UNCHANGED call
    BY <1>3, <2>2, <2>3, <2>5, IdentityIdle
  <2>6. CASE \/ Begins("direct", "establish") \/ Begins("direct", "bootstrap")
    BY <1>1, <2>1, <2>2, <2>3, <2>6, IdentityBegins, Names DEF Begins
  <2>7. CASE Begins(s, "begin")
    BY <1>1, <2>1, <2>2, <2>3, <2>7, IdentityBegins DEF Begins
  <2> QED
    BY <2>4, <2>5, <2>6, <2>7
<1>5. CASE ChildExpired
  <2>1. "info" \in Callers /\ "info" # "identity" /\ ~identity.restored
        /\ Begins("info", "begin") /\ UNCHANGED runtime
    BY <1>5, Names DEF ChildExpired, Live
  <2> QED
    BY <1>1, <2>1, IdentityBegins DEF Begins, runtime
<1>6. CASE ReadIdentityLost
  <2>1. ~Live /\ ~identity.restored /\ Begins("identity", "begin") /\ UNCHANGED runtime
    BY <1>6 DEF ReadIdentityLost
  <2> QED
    BY <1>1, <2>1, IdentityBegins, Names DEF Begins, runtime
<1>7. CASE Foreground
  <2> DEFINE step == IF identity.state = "anonymous" THEN "recover" ELSE "bootstrap"
  <2>1. UNCHANGED identity /\ portal'.up = portal.up
    BY <1>7, PortalReopenedReturns DEF Foreground, TypeOK
  <2>2. \/ UNCHANGED call
        \/ ~identity.restored /\ ~Live /\ Begins("identity", "begin")
        \/ /\ identity.restored \/ Live \/ identity.state = "anonymous"
           /\ pc' = [pc EXCEPT !["resume"] = step]
    BY <1>7 DEF Foreground
  <2>3. CASE UNCHANGED call
    BY <1>3, <2>1, <2>3, IdentityIdle DEF IdentityOK
  <2>4. CASE ~identity.restored /\ ~Live /\ Begins("identity", "begin")
    BY <1>1, <2>1, <2>4, IdentityBegins, Names DEF Begins
  <2>5. CASE /\ identity.restored \/ Live \/ identity.state = "anonymous"
             /\ pc' = [pc EXCEPT !["resume"] = step]
    <3>1. identity.state = "authenticated" \/ identity.state = "anonymous"
      BY <2>5 DEF Live, Current, IdentityOK
    <3>2. CASE identity.state = "anonymous"
      <4>1. pc' = [pc EXCEPT !["resume"] = "recover"]
        BY <2>5, <3>2
      <4> QED
        BY <1>1, <2>1, <3>2, <4>1, IdentityBegins, Names
    <3>3. CASE identity.state = "authenticated"
      <4>1. pc' = [pc EXCEPT !["resume"] = "bootstrap"]
        BY <2>5, <3>3
      <4> QED
        BY <1>1, <2>1, <3>3, <4>1, IdentityBegins, Names
    <3> QED
      BY <3>1, <3>2, <3>3
  <2> QED
    BY <2>2, <2>3, <2>4, <2>5
<1>8. CASE ExplicitLogin \/ Logout
  <2>1. UNCHANGED call /\ Forgotten
    BY <1>8 DEF ExplicitLogin, Logout
  <2>2. (identity'.login => identity'.state = "anonymous") /\ ~identity'.restored
    <3>1. CASE ExplicitLogin
      <4>1. PICK state \in {"anonymous", "authenticating", "challenged", "authenticated"},
                 required \in BOOLEAN :
              /\ required => state = "anonymous"
              /\ identity' = [state |-> state, restored |-> FALSE, deadline |-> "none",
                              login |-> required]
        BY <3>1 DEF ExplicitLogin
      <4> QED
        BY <4>1
    <3>2. CASE Logout
      BY <3>2 DEF Logout
    <3> QED
      BY <1>8, <3>1, <3>2
  <2> QED
    BY <1>3, <2>1, <2>2, ForgottenTyped, IdentityIdle
<1>9. CASE CompletePrimary
  <2>1. ~identity.login /\ ~identity.restored /\ UNCHANGED call
    BY <1>9 DEF CompletePrimary, IdentityOK
  <2>2. ~identity'.login /\ ~identity'.restored
    BY <1>9, <2>1 DEF CompletePrimary, TypeOK, Identities
  <2> QED
    BY <1>3, <2>1, <2>2, IdentityIdle
<1>10. CASE CompletePortal
  <2>1. ~identity'.login /\ ~identity'.restored /\ UNCHANGED call
    BY <1>10 DEF CompletePortal, Live, Current, IdentityOK
  <2> QED
    BY <1>3, <2>1, IdentityIdle
<1> QED
  BY <1>4, <1>5, <1>6, <1>7, <1>8, <1>9, <1>10 DEF UserStep

LEMMA IdentityTimeOK ==
  ASSUME TypeOK, StackOK, IdentityOK, TypeOK', TimeStep \/ UNCHANGED vars
  PROVE  IdentityOK'
<1>1. CASE (\E s \in Services : RetryFallsDue(s)) \/ UNCHANGED vars
  <2>1. UNCHANGED <<pc, challenge, history, identity, portal, resume>>
    BY <1>1 DEF RetryFallsDue, vars, runtime, call
  <2> QED
    BY <2>1, IdentityStays DEF Live, Current
<1>2. CASE LoginFallsDue
  <2>1. /\ UNCHANGED <<pc, challenge, history, identity, portal>>
        /\ pc["identity"] \in {"idle", "begin"}
    BY <1>2 DEF LoginFallsDue, call, IdentityOK
  <2> QED
    BY <2>1, IdentityStays DEF Live, Current
<1>3. CASE SnapshotFallsDue
  <2>1. /\ UNCHANGED <<pc, challenge, history, resume, portal>>
        /\ identity'.state = identity.state /\ identity'.login = identity.login
        /\ identity'.restored = identity.restored /\ identity'.deadline = "due"
    BY <1>3 DEF SnapshotFallsDue, call, TypeOK, Identities
  <2>2. ~Live'
    BY <2>1 DEF Live, Current
  <2> QED
    BY <2>1, <2>2, IdentityStays
<1>4. CASE PortalCools
  <2>1. /\ UNCHANGED <<pc, challenge, history, identity, resume>> /\ portal'.up = portal.up
    BY <1>4 DEF PortalCools, call, TypeOK, Portals
  <2> QED
    BY <2>1, IdentityStays DEF Live, Current
<1>5. CASE Drop
  <2>1. Ends /\ UNCHANGED identity /\ portal'.up = portal.up
    BY <1>5 DEF Drop, TypeOK, Portals
  <2> QED
    BY <2>1, EndsIdle, IdentityIdle DEF IdentityOK
<1> QED
  BY <1>1, <1>2, <1>3, <1>4, <1>5 DEF TimeStep

LEMMA IdentityNext ==
  ASSUME TypeOK, StackOK, IdentityOK, TypeOK', StackOK', [Next]_vars
  PROVE  IdentityOK'
BY IdentityStepOK, IdentityLoginOK, IdentityPortalOK, IdentityRefreshOK, IdentityDirectOK,
   IdentityUserOK, IdentityTimeOK DEF Next, CallStep

-----------------------------------------------------------------------------
(* The nesting depth and the shared proof.                                 *)

\* The counter counts frames that no longer run.
Leaked == portal.depth > Cardinality(Nested)
NoNewLeak == Leaked' => Leaked

LEMMA ChainStays ==
  ASSUME ChainOK, Nested' = Nested, root' = root, portal'.depth = portal.depth,
         portal'.proof => portal.proof \/ portal.depth > 0
  PROVE  ChainOK' /\ NoNewLeak
BY DEF ChainOK, ProofInsideChain, Leaked, NoNewLeak

LEMMA ChainEmpty ==
  ASSUME Nested' = {}, portal'.proof => portal'.depth > 0
  PROVE  ChainOK'
BY DEF ChainOK, ProofInsideChain

\* No target's refresh runs before or after the step.
LEMMA ChainOutside ==
  ASSUME TypeOK, ChainOK, Nested = {}, Nested' = {},
         \/ portal'.depth = portal.depth /\ portal'.proof = portal.proof
         \/ portal'.depth = 0 /\ ~portal'.proof
  PROVE  ChainOK' /\ NoNewLeak
<1>1. ChainOK'
  BY ChainEmpty DEF ChainOK, ProofInsideChain
<1>2. NoNewLeak
  BY FiniteServices DEF Leaked, NoNewLeak
<1> QED
  BY <1>1, <1>2

\* What a failure leaves of the counter was there in excess of its frames.
LEMMA LeakFails ==
  ASSUME TypeOK, NEW g, NEW p \in Portals, NEW why, NEW kept,
         Failed(g, p, why, kept), p.depth = portal.depth
  PROVE  NoNewLeak
<1>1. Cardinality(Nested') = 0 /\ portal' = Unwound(p, Running)
  BY EndsIdle, FiniteServices DEF Failed
<1>2. Cardinality(Nested) \in Nat /\ portal.depth \in Nat
  BY FiniteServices DEF Nested, TypeOK, Portals
<1>3. portal'.depth = IF portal.depth > Cardinality(Nested)
                      THEN portal.depth - Cardinality(Nested) ELSE 0
  BY <1>1, UnwoundReturns DEF Nested
<1> QED
  BY <1>1, <1>2, <1>3 DEF Leaked, NoNewLeak

LEMMA ChainFailed ==
  ASSUME TypeOK, StackOK, ChainOK, NEW g, NEW p \in Portals, NEW why, NEW kept,
         Failed(g, p, why, kept), p.depth = portal.depth, p.proof => portal.depth > 0
  PROVE  ChainOK' /\ NoNewLeak
BY FailedChain, LeakFails

LEMMA ChainFails ==
  ASSUME TypeOK, StackOK, ChainOK, NEW g, NEW p \in Portals, NEW why, NEW kept,
         Fails(g, p, why, kept), p.depth = portal.depth, p.proof => portal.depth > 0
  PROVE  ChainOK' /\ NoNewLeak
BY FailsIsFailed, ChainFailed

\* A step of a frame that is not the first of a target's refresh.
LEMMA NestedStays ==
  ASSUME TypeOK, NEW c \in Callers, NEW step, Goes(c, step),
         c \in Targets => pc[c] \notin {"idle", "begin"} /\ step \notin {"idle", "begin"}
  PROVE  Nested' = Nested
BY GoesTo, Names DEF Nested, Running

LEMMA ChainIdentity ==
  ASSUME TypeOK, StackOK, ChainOK, IdentityStep
  PROVE  ChainOK' /\ NoNewLeak
<1>1. portal \in Portals /\ portal.depth \in Nat /\ (portal.proof => portal.depth > 0)
      /\ "identity" \in Callers /\ "identity" \notin Targets
  BY Names DEF TypeOK, Portals, ChainOK, ProofInsideChain
<1>2. CASE EnterIdentity
  <2> DEFINE g == ProbeReopened(GateReopened, "identity")
             due == LoginDue \/ GateReopened["identity"].retry = "due"
             p == PortalReopened(due)
             q == PortalReopened(LoginDue)
  <2>1. /\ p \in Portals /\ p.proof = portal.proof /\ p.depth = portal.depth
        /\ q \in Portals /\ q.proof = portal.proof /\ q.depth = portal.depth
    BY <1>1, PortalReopenedReturns
  <2>2. \/ \E why : Fails(GateReopened, q, why, clean)
        \/ \E why : Fails(g, p, why, clean)
        \/ portal' = p /\ Goes("identity", "inner") /\ UNCHANGED root
    BY <1>2 DEF EnterIdentity
  <2> HIDE DEF g, p, q
  <2>3. CASE portal' = p /\ Goes("identity", "inner") /\ UNCHANGED root
    BY <1>1, <2>1, <2>3, NestedStays, ChainStays
  <2>4. CASE \E why : Fails(GateReopened, q, why, clean)
    BY <1>1, <2>1, <2>4, ChainFails
  <2>5. CASE \E why : Fails(g, p, why, clean)
    BY <1>1, <2>1, <2>5, ChainFails
  <2> QED
    BY <2>2, <2>3, <2>4, <2>5
<1>3. CASE IdentityInner
  <2>1. CASE Fails(gate, portal, "failed", clean)
    BY <1>1, <2>1, ChainFails
  <2>2. CASE /\ portal' = [portal EXCEPT !.up = FALSE, !.failure = "none", !.password = FALSE]
             /\ Goes("identity", "probe") /\ UNCHANGED root
    <3>1. portal'.depth = portal.depth /\ portal'.proof = portal.proof
      BY <1>1, <2>2 DEF Portals
    <3> QED
      BY <1>1, <2>2, <3>1, NestedStays, ChainStays
  <2> QED
    BY <1>3, <2>1, <2>2 DEF IdentityInner
<1>4. CASE CookiesProve
  <2> DEFINE p == [portal EXCEPT !.up = TRUE, !.password = FALSE,
                                 !.proof = @ \/ portal.depth > 0]
  <2>1. p \in Portals /\ p.depth = portal.depth /\ (p.proof => portal.depth > 0)
    BY <1>1 DEF Portals
  <2>2. \/ portal' = p /\ IdentityReturns("prepare") /\ UNCHANGED <<direct, root>>
        \/ \E dirty \in BOOLEAN : Fails(CycleFinished(gate), p, "failed", Kept(dirty))
    BY <1>4 DEF CookiesProve
  <2>3. pc["identity"] = "probe"
    BY <1>4 DEF CookiesProve
  <2> HIDE DEF p
  <2>4. CASE portal' = p /\ IdentityReturns("prepare") /\ UNCHANGED <<direct, root>>
    <3>1. Nested' = Nested
      BY <2>3, <2>4, StackIdentityReturns DEF Active
    <3> QED
      BY <2>1, <2>4, <3>1, ChainStays
  <2>5. CASE \E dirty \in BOOLEAN : Fails(CycleFinished(gate), p, "failed", Kept(dirty))
    BY <2>1, <2>5, ChainFails
  <2> QED
    BY <2>2, <2>4, <2>5
<1>5. CASE ProbeFails
  BY <1>1, <1>5, ChainFails DEF ProbeFails
<1>6. CASE ProbeNeedsLogin
  <2>1. portal'.depth = portal.depth /\ portal'.proof = portal.proof
    BY <1>1, <1>6 DEF ProbeNeedsLogin, Portals
  <2>2. Goes("identity", "recover") /\ UNCHANGED root
    BY <1>6 DEF ProbeNeedsLogin
  <2> QED
    BY <1>1, <2>1, <2>2, NestedStays, ChainStays
<1> QED
  BY <1>2, <1>3, <1>4, <1>5, <1>6 DEF IdentityStep

\* While the resume recovers, no target's refresh runs.
LEMMA ResumeAlone ==
  ASSUME TypeOK, StackOK, Recovering("resume")
  PROVE  Nested = {}
BY Names DEF Recovering, StackOK, Active, Nested, Running

LEMMA ChainLogin ==
  ASSUME TypeOK, StackOK, ChainOK, NEW c \in {"identity", "resume"}, LoginStep(c)
  PROVE  ChainOK' /\ NoNewLeak
<1>1. portal \in Portals /\ portal.depth \in Nat /\ (portal.proof => portal.depth > 0)
      /\ c \in Callers /\ c \notin Targets
  BY Names DEF TypeOK, Portals, ChainOK, ProofInsideChain
<1>2. CASE Recovering(c) /\ \E r : NotRecovered(c, identity, r, clean)
  <2>1. [portal EXCEPT !.up = FALSE] \in Portals
        /\ [portal EXCEPT !.up = FALSE].depth = portal.depth
        /\ [portal EXCEPT !.up = FALSE].proof = portal.proof
    BY <1>1 DEF Portals
  <2>2. \/ Ends /\ portal' = portal /\ c = "resume"
        \/ Fails(gate, portal, "transient", clean)
        \/ Fails(gate, [portal EXCEPT !.up = FALSE], "failed", clean)
    BY <1>2 DEF NotRecovered
  <2>3. CASE Ends /\ portal' = portal /\ c = "resume"
    <3>1. Nested = {}
      BY <1>1, <1>2, <2>3, ResumeAlone
    <3> QED
      BY <2>3, <3>1, EndsIdle, ChainOutside
  <2>4. CASE Fails(gate, portal, "transient", clean)
    BY <1>1, <2>4, ChainFails
  <2>5. CASE Fails(gate, [portal EXCEPT !.up = FALSE], "failed", clean)
    BY <1>1, <2>1, <2>5, ChainFails
  <2> QED
    BY <2>2, <2>3, <2>4, <2>5
<1>3. CASE RecoveryLogin(c)
  <2>1. portal'.depth = 0 /\ ~portal'.proof
    BY <1>3 DEF RecoveryLogin
  <2>2. ~Leaked'
    BY <2>1, FiniteServices DEF Leaked, Nested
  <2> QED
    BY <2>1, <2>2 DEF ChainOK, ProofInsideChain, NoNewLeak
<1>4. CASE \E i, r, why : LoginFails(i, r, why)
  BY <1>1, <1>4, ChainFails DEF LoginFails
<1>5. CASE EntryRead(c)
  <2>1. Goes(c, "submit") /\ UNCHANGED <<portal, root>>
    BY <1>5 DEF EntryRead
  <2> QED
    BY <1>1, <2>1, NestedStays, ChainStays
<1>6. CASE PostUnanswered(c)
  <2>1. Failed(gate, portal, "failed", {})
    BY <1>6, PostUnansweredFails
  <2> QED
    BY <1>1, <2>1, ChainFailed
<1>7. CASE PostProves(c)
  <2>1. UNCHANGED <<portal, direct, root>> /\ pc[c] = "submit"
    BY <1>7 DEF PostProves
  <2>2. Nested' = Nested
    <3>1. CASE c = "identity"
      BY <1>7, <2>1, <3>1, StackIdentityReturns DEF PostProves, Active
    <3>2. CASE c = "resume"
      <4>1. \A t \in Targets : pc'[t] = pc[t]
        BY <1>7, <3>2, Names DEF PostProves, TypeOK
      <4> QED
        BY <4>1 DEF Nested, Running, Services
    <3> QED
      BY <3>1, <3>2
  <2> QED
    BY <2>1, <2>2, ChainStays
<1> QED
  BY <1>2, <1>3, <1>4, <1>5, <1>6, <1>7
     DEF LoginStep, RecoveryRefused, RecoveryVaultBusy, RecoveryNoRecord, EntryUnavailable,
         EntryRefused, PostRejected, PostChallenged

LEMMA ChainPortalFails ==
  ASSUME TypeOK, StackOK, ChainOK, NEW c \in Targets \cup {"resume", "direct"},
         NEW r, NEW p \in Portals, NEW why, NEW kept, PortalFails(c, r, p, why, kept),
         p.depth = portal.depth, p.proof = portal.proof
  PROVE  ChainOK' /\ NoNewLeak
<1>1. c \in Callers /\ (portal.proof => portal.depth > 0)
  BY Names DEF ChainOK, ProofInsideChain
<1>2. CASE c = "resume"
  <2>1. /\ portal' = p /\ UNCHANGED root
        /\ (Goes(c, "recover") \/ Goes(c, "idle"))
    BY <1>2 DEF PortalFails
  <2>2. Nested' = Nested
    BY <1>1, <1>2, <2>1, NestedStays, Names
  <2> QED
    BY <2>1, <2>2, ChainStays
<1>3. CASE c # "resume"
  BY <1>1, <1>3, ChainFails DEF PortalFails
<1> QED
  BY <1>2, <1>3

LEMMA ChainPortalDone ==
  ASSUME TypeOK, StackOK, ChainOK, NEW c \in Targets \cup {"resume", "direct"},
         pc[c] \in {"bootstrap", "portal"}, NEW r, NEW p, PortalDone(c, p, r), root' = root,
         p.depth = portal.depth, p.proof => portal.proof \/ portal.depth > 0
  PROVE  ChainOK' /\ NoNewLeak
<1>1. c \in Callers /\ Goes(c, AfterPortal(c)) /\ portal' = p
  BY Names DEF PortalDone
<1>2. c \in Targets => AfterPortal(c) \in {"parent", "establish"}
  BY Names DEF AfterPortal
<1>3. Nested' = Nested
  BY <1>1, <1>2, NestedStays
<1> QED
  BY <1>1, <1>3, ChainStays

LEMMA ChainPortal ==
  ASSUME TypeOK, StackOK, ChainOK, NEW c \in Targets \cup {"resume", "direct"}, PortalStep(c)
  PROVE  ChainOK' /\ NoNewLeak
<1>1. portal \in Portals /\ resume.opened \in BOOLEAN /\ CanOpenVault \in BOOLEAN
      /\ c \in Callers
  BY Names DEF TypeOK, Resumes, CanOpenVault
<1>2. CASE Bootstrap(c)
  <2>1. pc[c] = "bootstrap"
    BY <1>2 DEF Bootstrap
  <2>2. \/ \E why : PortalFails(c, resume, portal, why, clean)
        \/ PortalDone(c, portal, resume) /\ UNCHANGED root
        \/ PortalFails(c, resume, [portal EXCEPT !.failure = "failed"], "failed", clean)
        \/ Goes(c, "portal") /\ UNCHANGED <<portal, root>>
    BY <1>2 DEF Bootstrap
  <2>3. CASE \E why : PortalFails(c, resume, portal, why, clean)
    BY <1>1, <2>3, ChainPortalFails
  <2>4. CASE PortalDone(c, portal, resume) /\ UNCHANGED root
    BY <2>1, <2>4, ChainPortalDone
  <2>5. CASE PortalFails(c, resume, [portal EXCEPT !.failure = "failed"], "failed", clean)
    BY <1>1, <2>5, PortalSet, ChainPortalFails
  <2>6. CASE Goes(c, "portal") /\ UNCHANGED <<portal, root>>
    BY <1>1, <2>1, <2>6, NestedStays, ChainStays
  <2> QED
    BY <2>2, <2>3, <2>4, <2>5, <2>6
<1>3. CASE PortalProves(c)
  <2> DEFINE p == [portal EXCEPT !.up = TRUE, !.password = FALSE, !.failure = "none",
                                 !.proof = @ \/ portal.depth > 0]
             r == [resume EXCEPT !.opened = FALSE]
  <2>1. p.depth = portal.depth /\ (p.proof => portal.proof \/ portal.depth > 0)
    BY <1>1 DEF Portals
  <2>2. PortalDone(c, p, r) /\ pc[c] = "portal" /\ root' = root
    BY <1>3 DEF PortalProves, Asked
  <2> HIDE DEF p, r
  <2> QED
    BY <2>1, <2>2, ChainPortalDone
<1>4. CASE PortalUnanswered(c)
  <2>1. PICK why \in {"transient", "failed"}, dirty \in BOOLEAN :
          PortalFails(c, resume, Noted(why, FALSE), why, Kept(dirty))
    BY <1>4 DEF PortalUnanswered
  <2>2. Noted(why, FALSE) \in Portals /\ Noted(why, FALSE).depth = portal.depth
        /\ Noted(why, FALSE).proof = portal.proof
    BY <1>1, PortalSet
  <2> QED
    BY <2>1, <2>2, ChainPortalFails
<1>5. CASE PortalVaultBusy(c)
  <2>1. Noted("transient", TRUE) \in Portals
        /\ Noted("transient", TRUE).depth = portal.depth
        /\ Noted("transient", TRUE).proof = portal.proof
    BY <1>1, PortalSet
  <2> QED
    BY <1>5, <2>1, ChainPortalFails DEF PortalVaultBusy
<1>6. CASE PortalNeedsLogin(c)
  <2>1. /\ [Noted("failed", TRUE) EXCEPT !.up = FALSE] \in Portals
        /\ [Noted("failed", TRUE) EXCEPT !.up = FALSE].depth = portal.depth
        /\ [Noted("failed", TRUE) EXCEPT !.up = FALSE].proof = portal.proof
    BY <1>1, PortalSet
  <2> QED
    BY <1>6, <2>1, ChainPortalFails DEF PortalNeedsLogin
<1>7. CASE PortalPostUnanswered(c) \/ PortalPostRejected(c)
  <2>1. Noted("failed", TRUE) \in Portals /\ Noted("failed", TRUE).depth = portal.depth
        /\ Noted("failed", TRUE).proof = portal.proof
    BY <1>1, PortalSet
  <2> QED
    BY <1>7, <2>1, ChainPortalFails DEF PortalPostUnanswered, PortalPostRejected
<1>8. CASE PortalPauses(c)
  <2>1. PICK opened \in {resume.opened, CanOpenVault \/ resume.opened},
             password \in BOOLEAN, dirty \in BOOLEAN :
          PortalFails(c, [resume EXCEPT !.opened = opened], Noted("failed", password),
                      "failed", Kept(dirty))
    BY <1>8 DEF PortalPauses
  <2>2. /\ Noted("failed", password) \in Portals
        /\ Noted("failed", password).depth = portal.depth
        /\ Noted("failed", password).proof = portal.proof
    BY <1>1, PortalSet
  <2> QED
    BY <2>1, <2>2, ChainPortalFails
<1> QED
  BY <1>2, <1>3, <1>4, <1>5, <1>6, <1>7, <1>8 DEF PortalStep

\* A target's refresh takes its place in the chain.
LEMMA ChainEnters ==
  ASSUME TypeOK, StackOK, ChainOK, NEW s \in Targets, pc[s] = "begin",
         Nested' = Nested \cup {s}, portal'.depth = portal.depth + 1,
         portal'.proof = portal.proof,
         root' = IF portal.depth = 0 THEN root \cup {s} ELSE root
  PROVE  ChainOK' /\ NoNewLeak
<1>1. portal.depth \in Nat /\ (portal.proof => portal.depth > 0) /\ root \subseteq Nested
      /\ s \notin Nested
  BY DEF TypeOK, Portals, ChainOK, ProofInsideChain, StackOK, Nested, Running
<1>2. \A t \in Nested : HasParent(t) /\ s = ParentOf[t]
  BY <1>1 DEF StackOK, Nested, Running
<1>3. \A t \in Nested : Nested = {t}
  BY <1>2, Parents
<1>4. ~(HasParent(s) /\ ParentOf[s] \in Nested')
  BY <1>2, Parents
<1>5. root' = {} => root = {} /\ portal.depth > 0
  BY <1>1
<1>6. ASSUME NEW t \in Nested
      PROVE  /\ HasParent(t) /\ ParentOf[t] \in Nested'
             /\ ParentOf[t] \in root' => portal'.depth <= 1
             /\ ParentOf[t] \notin root' /\ portal'.depth > 0 => portal'.depth > 1
             /\ root' = {} /\ portal'.depth > 0 => portal'.depth > 2
  <2>1. HasParent(t) /\ ParentOf[t] = s /\ Nested = {t}
    BY <1>2, <1>3
  <2>2. s \in root' <=> portal.depth = 0
    BY <1>1
  <2>3. root = {} /\ portal.depth > 0 => portal.depth > 1
    <3>1. ParentOf[t] \notin Nested
      BY <1>1, <2>1
    <3> QED
      BY <2>1, <3>1 DEF ChainOK
  <2>4. s \in root' => portal'.depth <= 1
    BY <1>1, <2>2
  <2>5. s \notin root' => portal'.depth > 1
    BY <1>1, <2>2
  <2>6. root' = {} => portal'.depth > 2
    BY <1>1, <1>5, <2>3
  <2> QED
    BY <2>1, <2>4, <2>5, <2>6
<1>7. Nested' = {s} /\ root' = {} /\ portal'.depth > 0 => portal'.depth > 1
  BY <1>1, <1>5
<1>8. ProofInsideChain'
  BY <1>1 DEF ProofInsideChain
<1>9. \A t \in Nested' :
        IF HasParent(t) /\ ParentOf[t] \in Nested'
        THEN /\ ParentOf[t] \in root' => portal'.depth <= 1
             /\ ParentOf[t] \notin root' /\ portal'.depth > 0 => portal'.depth > 1
             /\ root' = {} /\ portal'.depth > 0 => portal'.depth > 2
        ELSE Nested' = {t} /\ root' = {} /\ portal'.depth > 0 => portal'.depth > 1
  <2> SUFFICES ASSUME NEW t \in Nested'
               PROVE  IF HasParent(t) /\ ParentOf[t] \in Nested'
                      THEN /\ ParentOf[t] \in root' => portal'.depth <= 1
                           /\ ParentOf[t] \notin root' /\ portal'.depth > 0 => portal'.depth > 1
                           /\ root' = {} /\ portal'.depth > 0 => portal'.depth > 2
                      ELSE Nested' = {t} /\ root' = {} /\ portal'.depth > 0 => portal'.depth > 1
    OBVIOUS
  <2>1. CASE t = s
    BY <1>4, <1>7, <2>1
  <2>2. CASE t \in Nested
    BY <1>6, <2>2
  <2> QED
    BY <2>1, <2>2
<1>10. NoNewLeak
  <2>1. CASE Nested = {}
    <3>1. Nested' = {s}
      BY <2>1
    <3>2. Cardinality({s}) = 1 /\ Cardinality({}) = 0
      BY FiniteServices
    <3>3. Cardinality(Nested) = 0 /\ Cardinality(Nested') = 1
      BY <2>1, <3>1, <3>2, Zenon
    <3> QED
      BY <1>1, <3>3 DEF Leaked, NoNewLeak
  <2>2. CASE Nested # {}
    <3>1. PICK t \in Nested : Nested = {t} /\ t # s
      BY <1>1, <1>3, <2>2
    <3>2. Nested' = {t, s}
      BY <3>1
    <3>3. Cardinality({t}) = 1 /\ Cardinality({t, s}) = 2
      BY <3>1, FiniteServices
    <3>4. Cardinality(Nested) = 1 /\ Cardinality(Nested') = 2
      BY <3>1, <3>2, <3>3, Zenon
    <3> QED
      BY <1>1, <3>4 DEF Leaked, NoNewLeak
  <2> QED
    BY <2>1, <2>2
<1> QED
  BY <1>8, <1>9, <1>10 DEF ChainOK

\* A target's refresh leaves the chain.
LEMMA ChainLeaves ==
  ASSUME TypeOK, StackOK, ChainOK, NEW s \in Targets, pc[s] = "establish",
         Nested' = Nested \ {s}, portal' = Unwound(portal, {s}), root' = root \ {s}
  PROVE  ChainOK' /\ NoNewLeak
<1>1. portal \in Portals /\ portal.depth \in Nat /\ (portal.proof => portal.depth > 0)
      /\ root \subseteq Nested /\ s \in Nested
  BY Names DEF TypeOK, Portals, ChainOK, ProofInsideChain, StackOK, Nested, Running
<1>2. \A t \in Nested \ {s} : HasParent(t) /\ s = ParentOf[t]
  BY <1>1 DEF StackOK, Nested, Running
<1>3. \A t \in Nested \ {s} : Nested = {s, t} /\ Nested' = {t} /\ ~HasParent(s)
  BY <1>1, <1>2, Parents
<1>4. {s} \cap Targets = {s}
  OBVIOUS
<1>5. /\ portal'.proof <=> portal.proof /\ s \notin root
      /\ portal'.depth = IF portal.depth > 1 THEN portal.depth - 1 ELSE 0
  <2>1. /\ Unwound(portal, {s}).proof <=> portal.proof /\ root \cap {s} = {}
        /\ Unwound(portal, {s}).depth =
             IF portal.depth > Cardinality({s} \cap Targets)
             THEN portal.depth - Cardinality({s} \cap Targets) ELSE 0
    BY <1>1, UnwoundReturns
  <2> QED
    BY <1>4, <2>1, FiniteServices
<1>6. CASE Nested = {s}
  <2>1. portal.proof /\ s \notin root => portal.depth > 1
    <3>1. ~(HasParent(s) /\ ParentOf[s] \in Nested)
      BY <1>6, Parents
    <3> QED
      BY <1>1, <1>6, <3>1 DEF ChainOK
  <2>2. Nested' = {}
    BY <1>6
  <2>3. Cardinality(Nested) = 1 /\ Cardinality(Nested') = 0
    BY <1>6, <2>2, FiniteServices
  <2>4. NoNewLeak
    BY <1>1, <1>5, <2>3 DEF Leaked, NoNewLeak
  <2> QED
    BY <1>1, <1>5, <2>1, <2>2, <2>4, ChainEmpty
<1>7. CASE Nested # {s}
  <2>1. PICK t \in Nested \ {s} : TRUE
    BY <1>1, <1>7
  <2>2. HasParent(t) /\ ParentOf[t] = s /\ Nested = {s, t} /\ Nested' = {t}
    BY <1>2, <1>3, <2>1
  <2>3. /\ s \in root => portal.depth <= 1
        /\ s \notin root /\ portal.depth > 0 => portal.depth > 1
        /\ root = {} /\ portal.depth > 0 => portal.depth > 2
    BY <1>1, <2>1, <2>2 DEF ChainOK
  <2>4. ProofInsideChain'
    BY <1>1, <1>5, <2>3 DEF ProofInsideChain
  <2>5. root' = {} /\ portal'.depth > 0 => portal'.depth > 1
    BY <1>1, <1>5, <2>3
  <2>6. s \notin Nested'
    BY <2>1, <2>2
  <2>7. Cardinality(Nested) = 2 /\ Cardinality(Nested') = 1
    BY <2>1, <2>2, FiniteServices
  <2>8. NoNewLeak
    BY <1>1, <1>5, <2>7 DEF Leaked, NoNewLeak
  <2> QED
    BY <2>2, <2>4, <2>5, <2>6, <2>8 DEF ChainOK
<1> QED
  BY <1>6, <1>7

LEMMA ChainRefresh ==
  ASSUME TypeOK, StackOK, ChainOK, NestedOK, NEW s \in Targets, RefreshStep(s)
  PROVE  ChainOK' /\ NoNewLeak
<1>1. portal \in Portals /\ portal.depth \in Nat /\ (portal.proof => portal.depth > 0)
      /\ s \in Callers /\ s \in Services
  BY Names DEF TypeOK, Portals, ChainOK, ProofInsideChain
<1>2. CASE EnterRefresh(s)
  <2> DEFINE g == ProbeReopened(gate, s)
             q == PortalReopened(gate[s].retry = "due")
  <2>1. q \in Portals /\ q.proof = portal.proof /\ q.depth = portal.depth /\ pc[s] = "begin"
    BY <1>1, <1>2, PortalReopenedReturns DEF EnterRefresh
  <2>2. \/ portal' = q /\ Ends /\ Proven(s)
        \/ \E why : Fails(g, q, why, clean)
        \/ /\ portal' = [q EXCEPT !.depth = @ + 1]
           /\ root' = IF portal.depth = 0 THEN root \cup {s} ELSE root
           /\ direct' = direct
           /\ \/ Goes(s, "prepare")
              \/ pc' = [pc EXCEPT ![s] = "identity", !["identity"] = "begin"]
    BY <1>2 DEF EnterRefresh
  <2> HIDE DEF g, q
  <2>3. CASE portal' = q /\ Ends /\ Proven(s)
    <3>1. Nested = {}
      BY <2>1, <2>3 DEF NestedOK, StackOK, Nested, Running
    <3> QED
      BY <2>1, <2>3, <3>1, EndsIdle, ChainOutside
  <2>4. CASE \E why : Fails(g, q, why, clean)
    BY <1>1, <2>1, <2>4, ChainFails
  <2>5. CASE /\ portal' = [q EXCEPT !.depth = @ + 1]
             /\ root' = IF portal.depth = 0 THEN root \cup {s} ELSE root
             /\ direct' = direct
             /\ \/ Goes(s, "prepare")
                \/ pc' = [pc EXCEPT ![s] = "identity", !["identity"] = "begin"]
    <3>1. portal'.depth = portal.depth + 1 /\ portal'.proof = portal.proof
      BY <1>1, <2>1, <2>5 DEF Portals
    <3>2. /\ Active(s) /\ "prepare" \in StepsOf(s) /\ root' \subseteq root \cup {s}
          /\ root' \subseteq root \cup ({s} \cap Targets)
      BY <2>1, <2>5, Names DEF Active, StepsOf
    <3>3. Nested' = Nested \cup ({s} \cap Targets)
      <4>1. CASE Goes(s, "prepare")
        BY <1>1, <2>5, <3>2, <4>1, StackMoves, Names DEF Goes
      <4>2. CASE pc' = [pc EXCEPT ![s] = "identity", !["identity"] = "begin"]
        BY <1>1, <2>5, <3>2, <4>2, StackPushes, Names
      <4> QED
        BY <2>5, <4>1, <4>2
    <3>4. Nested' = Nested \cup {s}
      BY <3>3
    <3> QED
      BY <2>1, <2>5, <3>1, <3>4, ChainEnters
  <2> QED
    BY <2>2, <2>3, <2>4, <2>5
<1>3. CASE Prepare(s)
  <2>1. /\ portal'.depth = portal.depth /\ portal'.proof = portal.proof /\ root' = root
        /\ pc[s] = "prepare" /\ (Goes(s, "parent") \/ Goes(s, "bootstrap"))
    BY <1>1, <1>3 DEF Prepare, Portals
  <2>2. Nested' = Nested
    BY <1>1, <2>1, NestedStays
  <2> QED
    BY <2>1, <2>2, ChainStays
<1>4. CASE Parent(s)
  <2>1. UNCHANGED <<portal, direct, root>> /\ pc[s] = "parent" /\ HasParent(s)
        /\ ParentOf[s] \in Services
    BY <1>4, Parents, Names DEF Parent, runtime, StackOK
  <2>2. Nested' = Nested
    <3>1. CASE Goes(s, "establish")
      BY <1>1, <2>1, <3>1, NestedStays
    <3>2. CASE pc' = [pc EXCEPT ![s] = "nested", ![ParentOf[s]] = "begin"]
      <4>1. Active(s)
        BY <2>1 DEF Active
      <4>2. Nested' = Nested \cup ({s} \cap Targets)
        BY <1>1, <2>1, <3>2, <4>1, StackPushes
      <4> QED
        BY <1>1, <2>1, <4>2 DEF Nested, Running
    <3> QED
      BY <1>4, <3>1, <3>2 DEF Parent
  <2> QED
    BY <2>1, <2>2, ChainStays
<1>5. CASE Established(s) \/ EstablishFails(s)
  <2>1. CASE \E dirty \in BOOLEAN : Fails(gate, portal, "failed", Kept(dirty))
    BY <1>1, <2>1, ChainFails
  <2>2. CASE /\ pc[s] = "establish" /\ Returns(s) /\ portal' = Unwound(portal, {s})
             /\ root' = root \ {s} /\ direct' = IF direct = s THEN "none" ELSE direct
    <3>1. Nested' = Nested \ {s}
      BY <2>2, StackReturns
    <3> QED
      BY <2>2, <3>1, ChainLeaves
  <2> QED
    BY <1>5, <2>1, <2>2 DEF Established, EstablishFails
<1> QED
  BY <1>2, <1>3, <1>4, <1>5 DEF RefreshStep

LEMMA ChainDirect ==
  ASSUME TypeOK, StackOK, ChainOK, DirectLibrary \/ DirectEstablish
  PROVE  ChainOK' /\ NoNewLeak
<1>1. portal \in Portals /\ (portal.proof => portal.depth > 0) /\ UNCHANGED portal
      /\ pc["direct"] = "establish"
  BY DEF TypeOK, ChainOK, ProofInsideChain, DirectLibrary, DirectEstablish, runtime
<1>2. CASE DirectLibrary
  <2>1. Active("direct") /\ "library" \in Services
    BY <1>1, <1>2, Names DEF Active, DirectLibrary, StackOK, TypeOK
  <2>2. Nested' = Nested \cup ({"direct"} \cap Targets)
    BY <1>2, <2>1, StackPushes, Names DEF DirectLibrary
  <2>3. Nested' = Nested
    BY <2>2, Names
  <2> QED
    BY <1>1, <1>2, <2>3, ChainStays DEF DirectLibrary
<1>3. CASE DirectEstablish
  <2>1. Nested = {}
    BY <1>1, Names DEF StackOK, Active, Nested, Running
  <2> QED
    BY <1>1, <1>3, <2>1, EndsIdle, ChainOutside DEF DirectEstablish
<1> QED
  BY <1>2, <1>3

LEMMA ChainUser ==
  ASSUME TypeOK, StackOK, ChainOK, UserStep
  PROVE  ChainOK' /\ NoNewLeak
<1>1. portal \in Portals /\ (portal.proof => portal.depth > 0)
  BY DEF TypeOK, ChainOK, ProofInsideChain
<1>2. Idle
  BY DEF UserStep, ReadStep, EstablishManually, ReadUnproven, ReadExpired, ReadServed,
         ChildExpired, Foreground, ReadIdentityLost, ExplicitLogin, Logout, CompletePrimary,
         CompletePortal
<1>3. Nested = {} /\ \A c \in Callers : pc[c] = "idle"
  BY <1>2, IdleStack
<1>4. UNCHANGED call => Nested' = {}
  BY <1>3 DEF call, Nested, Running, Services
<1>5. \A c, step : Begins(c, step) /\ step = "begin" => Nested' = {}
  BY <1>3, Names DEF Begins, TypeOK, Nested, Running
<1>6. \A c, step : c \notin Targets /\ pc' = [pc EXCEPT ![c] = step] => Nested' = {}
  BY <1>3, Names DEF TypeOK, Nested, Running
<1>7. ASSUME NEW s \in Targets, ReadStep(s)
      PROVE  ChainOK' /\ NoNewLeak
  <2>1. \/ portal' = portal
        \/ portal'.depth = 0 /\ ~portal'.proof
    BY <1>7 DEF ReadStep, EstablishManually, ReadUnproven, ReadExpired, ReadServed, TypeOK,
                Portals
  <2>2. \/ UNCHANGED call
        \/ \E step : Begins("direct", step)
        \/ Begins(s, "begin")
    BY <1>7 DEF ReadStep, EstablishManually, ReadUnproven, ReadExpired, ReadServed
  <2>3. Nested' = {}
    BY <1>4, <1>5, <1>6, <2>2, Names DEF Begins
  <2> QED
    BY <1>3, <2>1, <2>3, ChainOutside
<1>8. CASE ChildExpired \/ ReadIdentityLost
  BY <1>3, <1>5, <1>8, ChainOutside DEF ChildExpired, ReadIdentityLost, runtime
<1>9. CASE Foreground
  <2>1. portal'.proof = portal.proof /\ portal'.depth = portal.depth
    BY <1>9, PortalReopenedReturns DEF Foreground, TypeOK
  <2>2. \/ UNCHANGED call
        \/ Begins("identity", "begin")
        \/ \E step : pc' = [pc EXCEPT !["resume"] = step]
    BY <1>9 DEF Foreground
  <2>3. Nested' = {}
    BY <1>4, <1>5, <1>6, <2>2, Names
  <2> QED
    BY <1>3, <2>1, <2>3, ChainOutside
<1>10. CASE ExplicitLogin \/ Logout
  BY <1>3, <1>4, <1>10, ForgottenTyped, ChainOutside DEF ExplicitLogin, Logout
<1>11. CASE CompletePrimary \/ CompletePortal
  <2>1. UNCHANGED call /\ portal'.proof = portal.proof /\ portal'.depth = portal.depth
    BY <1>1, <1>11 DEF CompletePrimary, CompletePortal, Portals
  <2> QED
    BY <1>3, <1>4, <2>1, ChainOutside
<1> QED
  BY <1>7, <1>8, <1>9, <1>10, <1>11 DEF UserStep

LEMMA ChainTime ==
  ASSUME TypeOK, ChainOK, TimeStep \/ UNCHANGED vars
  PROVE  ChainOK' /\ (Drop \/ NoNewLeak)
<1>1. portal \in Portals /\ (portal.proof => portal.depth > 0)
  BY DEF TypeOK, ChainOK, ProofInsideChain
<1>2. portal'.proof = portal.proof /\ portal'.depth = portal.depth
  BY <1>1 DEF TimeStep, RetryFallsDue, LoginFallsDue, SnapshotFallsDue, PortalCools, Drop,
              vars, runtime, Portals
<1>3. CASE Drop
  BY <1>1, <1>2, <1>3, EndsIdle, ChainEmpty DEF Drop
<1>4. CASE ~Drop
  <2>1. UNCHANGED <<pc, root>>
    BY <1>4 DEF TimeStep, RetryFallsDue, LoginFallsDue, SnapshotFallsDue, PortalCools, vars,
                call
  <2>2. Nested' = Nested
    BY <2>1 DEF Nested, Running
  <2> QED
    BY <1>2, <2>1, <2>2, ChainStays
<1> QED
  BY <1>3, <1>4

LEMMA ChainNext ==
  ASSUME TypeOK, StackOK, ChainOK, NestedOK, [Next]_vars
  PROVE  ChainOK' /\ (Drop \/ NoNewLeak)
BY ChainIdentity, ChainLogin, ChainPortal, ChainRefresh, ChainDirect, ChainUser, ChainTime
   DEF Next, CallStep

-----------------------------------------------------------------------------
(* A frame that waits for a parent that begins.                            *)

\* The frame that runs moves like this: no target is about to begin.
LEMMA NestedMoves ==
  ASSUME TypeOK, StackOK, NEW d \in Callers, Active(d),
         \/ Ends
         \/ \E step \in Steps \ {"begin"} : Goes(d, step)
         \/ \E step \in Steps \ {"begin"} :
              pc' = [pc EXCEPT ![d] = step, !["identity"] = "begin"]
         \/ d = "resume" /\ pc' = [pc EXCEPT !["resume"] = "idle", !["direct"] = "bootstrap"]
         \/ d = "identity" /\ IdentityReturns("prepare")
         \/ d \in Targets /\ Returns(d)
  PROVE  NestedOK'
<1>1. \A s \in Targets : s = d \/ pc[s] # "begin"
  BY Names DEF StackOK, Active
<1>2. \A s \in Targets : pc'[s] # "begin"
  <2>1. CASE Ends
    BY <2>1, EndsIdle, Names
  <2>2. CASE \E step \in Steps \ {"begin"} : Goes(d, step)
    BY <1>1, <2>2, GoesTo, Names
  <2>3. CASE \E step \in Steps \ {"begin"} :
               pc' = [pc EXCEPT ![d] = step, !["identity"] = "begin"]
    BY <1>1, <2>3, Names DEF TypeOK
  <2>4. CASE d = "resume" /\ pc' = [pc EXCEPT !["resume"] = "idle", !["direct"] = "bootstrap"]
    BY <1>1, <2>4, Names DEF TypeOK
  <2>5. CASE d = "identity" /\ IdentityReturns("prepare")
    BY <1>1, <2>5, Names DEF IdentityReturns
  <2>6. CASE d \in Targets /\ Returns(d)
    BY <1>1, <2>6, Names DEF Returns
  <2> QED
    BY <2>1, <2>2, <2>3, <2>4, <2>5, <2>6
<1> QED
  BY <1>2, Parents DEF NestedOK

LEMMA NestedLogin ==
  ASSUME TypeOK, StackOK,
         IdentityStep \/ \E c \in {"identity", "resume"} : LoginStep(c)
  PROVE  NestedOK'
<1>1. {"inner", "probe", "recover", "discover", "submit"} \subseteq Steps \ {"begin"}
  BY DEF Steps, Awaits
<1>2. CASE IdentityStep
  <2>1. "identity" \in Callers /\ Active("identity")
    BY <1>2, Names DEF IdentityStep, EnterIdentity, IdentityInner, CookiesProve, ProbeFails,
       ProbeNeedsLogin, Active
  <2>2. \/ Ends
        \/ \E step \in {"inner", "probe", "recover"} : Goes("identity", step)
        \/ IdentityReturns("prepare")
    BY <1>2 DEF IdentityStep, EnterIdentity, IdentityInner, CookiesProve, ProbeFails,
       ProbeNeedsLogin, Fails
  <2> QED
    BY <1>1, <2>1, <2>2, NestedMoves
<1>3. ASSUME NEW c \in {"identity", "resume"}, LoginStep(c)
      PROVE  NestedOK'
  <2>1. c \in Callers /\ Active(c)
    BY <1>3, Names DEF LoginStep, RecoveryRefused, RecoveryVaultBusy, RecoveryNoRecord,
       RecoveryLogin, EntryUnavailable, EntryRefused, EntryRead, PostUnanswered, PostRejected,
       PostChallenged, PostProves, Recovering, Active
  <2>2. \/ Ends
        \/ \E step \in {"discover", "submit"} : Goes(c, step)
        \/ c = "resume" /\ pc' = [pc EXCEPT !["resume"] = "idle", !["direct"] = "bootstrap"]
        \/ c = "identity" /\ IdentityReturns("prepare")
    BY <1>3 DEF LoginStep, RecoveryRefused, RecoveryVaultBusy, RecoveryNoRecord,
       RecoveryLogin, EntryUnavailable, EntryRefused, EntryRead, PostUnanswered, PostRejected,
       PostChallenged, PostProves, NotRecovered, LoginFails, Fails
  <2> QED
    BY <1>1, <2>1, <2>2, NestedMoves
<1> QED
  BY <1>2, <1>3

LEMMA NestedPortal ==
  ASSUME TypeOK, StackOK, NEW c \in Targets \cup {"resume", "direct"}, PortalStep(c)
  PROVE  NestedOK'
<1>1. c \in Callers /\ Active(c)
  BY Names DEF PortalStep, Bootstrap, PortalProves, PortalUnanswered, PortalVaultBusy,
     PortalNeedsLogin, PortalPostUnanswered, PortalPostRejected, PortalPauses, Asked, Active
<1>2. \/ \E r, p, why, kept : PortalFails(c, r, p, why, kept)
      \/ Goes(c, AfterPortal(c))
      \/ Goes(c, "portal")
  BY DEF PortalStep, Bootstrap, PortalProves, PortalUnanswered, PortalVaultBusy,
         PortalNeedsLogin, PortalPostUnanswered, PortalPostRejected, PortalPauses, PortalDone
<1>3. \/ Ends
      \/ \E step \in {"recover", "idle", "portal", AfterPortal(c)} : Goes(c, step)
  BY <1>2 DEF PortalFails, Fails
<1>4. AfterPortal(c) \in {"parent", "establish", "idle"}
  BY Names DEF AfterPortal
<1>5. {"recover", "idle", "portal", "parent", "establish"} \subseteq Steps \ {"begin"}
  BY DEF Steps, Awaits
<1> QED
  BY <1>1, <1>3, <1>4, <1>5, NestedMoves

\* Only a parent that is not proven is waited for.
LEMMA NestedRefresh ==
  ASSUME TypeOK, StackOK, NEW s \in Targets, RefreshStep(s)
  PROVE  NestedOK'
<1>1. s \in Callers /\ Active(s)
  BY Names DEF RefreshStep, EnterRefresh, Prepare, Parent, Established, EstablishFails, Active
<1>2. {"prepare", "parent", "bootstrap", "establish", "identity"} \subseteq Steps \ {"begin"}
  BY DEF Steps, Awaits
<1>3. CASE Parent(s) /\ pc' = [pc EXCEPT ![s] = "nested", ![ParentOf[s]] = "begin"]
           /\ ~Proven(ParentOf[s])
  <2>1. HasParent(s) /\ UNCHANGED <<identity, proven>>
    BY <1>3 DEF Parent, StackOK, runtime
  <2>2. \A t \in Targets \ {s} : pc[t] # "begin"
    BY <1>1, Names DEF StackOK, Active
  <2>3. \A t \in Targets : pc'[t] = "begin" => t = ParentOf[s]
    BY <1>1, <1>3, <2>2, Names DEF TypeOK
  <2>4. ~Proven(ParentOf[s])'
    BY <1>3, <2>1 DEF Proven, Current
  <2> QED
    BY <2>1, <2>3, <2>4, Parents DEF NestedOK
<1>4. CASE ~(Parent(s) /\ ~Proven(ParentOf[s]))
  <2>1. \/ Ends
        \/ \E step \in {"prepare", "parent", "bootstrap", "establish"} : Goes(s, step)
        \/ pc' = [pc EXCEPT ![s] = "identity", !["identity"] = "begin"]
        \/ Returns(s)
    BY <1>4 DEF RefreshStep, EnterRefresh, Prepare, Parent, Established, EstablishFails, Fails
  <2> QED
    BY <1>1, <1>2, <2>1, NestedMoves
<1>5. Parent(s) /\ ~Proven(ParentOf[s]) =>
        pc' = [pc EXCEPT ![s] = "nested", ![ParentOf[s]] = "begin"]
  BY DEF Parent
<1> QED
  BY <1>3, <1>4, <1>5

LEMMA NestedRest ==
  ASSUME TypeOK, StackOK, NestedOK,
         DirectLibrary \/ DirectEstablish \/ UserStep \/ TimeStep \/ UNCHANGED vars
  PROVE  NestedOK'
<1>1. CASE DirectLibrary
  <2>1. Active("direct") /\ "library" \in Targets
    BY <1>1 DEF DirectLibrary, Active, TypeOK
  <2>2. \A t \in Targets : pc[t] # "begin"
    BY <2>1, Names DEF StackOK, Active
  <2>3. \A t \in Targets : pc'[t] = "begin" => t = "library"
    BY <1>1, <2>1, <2>2, Names DEF DirectLibrary, TypeOK
  <2> QED
    BY <2>3, Parents DEF NestedOK
<1>2. CASE DirectEstablish
  BY <1>2, EndsIdle, Names DEF DirectEstablish, NestedOK
<1>3. CASE UserStep
  <2>1. \A c \in Callers : pc[c] = "idle"
    BY <1>3, IdleStack
       DEF UserStep, ReadStep, EstablishManually, ReadUnproven, ReadExpired, ReadServed,
           ChildExpired, Foreground, ReadIdentityLost, ExplicitLogin, Logout, CompletePrimary,
           CompletePortal
  <2>2. \/ UNCHANGED pc
        \/ \E c : \E step \in {"begin", "establish", "bootstrap", "recover"} :
             pc' = [pc EXCEPT ![c] = step]
    BY <1>3
       DEF UserStep, ReadStep, EstablishManually, ReadUnproven, ReadExpired, ReadServed,
           ChildExpired, Foreground, ReadIdentityLost, ExplicitLogin, Logout, CompletePrimary,
           CompletePortal, Begins, call
  <2>3. \A c \in Callers : pc'[c] # "nested"
    BY <2>1, <2>2 DEF TypeOK
  <2> QED
    BY <2>3, Names DEF NestedOK
<1>4. CASE Drop
  BY <1>4, EndsIdle, Names DEF Drop, NestedOK
<1>5. CASE (TimeStep \/ UNCHANGED vars) /\ ~Drop
  <2>1. UNCHANGED pc
    BY <1>5 DEF TimeStep, RetryFallsDue, LoginFallsDue, SnapshotFallsDue, PortalCools, vars,
                call
  <2>2. UNCHANGED vars \/ TimePasses
    BY <1>5 DEF TimeStep, RetryFallsDue, LoginFallsDue, SnapshotFallsDue, PortalCools
  <2>3. CASE UNCHANGED vars
    BY <2>3 DEF vars, runtime, call, NestedOK, Proven, Current
  <2>4. CASE TimePasses
    <3>1. \A s \in Targets : pc[s] # "begin" \/ \A c \in Callers : c = s \/ ~Active(c)
      BY Names DEF StackOK, Active
    <3>2. ~Idle => \A s \in Targets : pc[s] # "begin"
      BY <2>4, <3>1 DEF TimePasses, AtAwait, Awaits, Active
    <3>3. \A s \in Targets : pc[s] # "begin"
      BY <3>2, Names DEF Idle
    <3> QED
      BY <2>1, <3>3, Parents DEF NestedOK
  <2> QED
    BY <2>2, <2>3, <2>4
<1> QED
  BY <1>1, <1>2, <1>3, <1>4, <1>5

LEMMA NestedNext ==
  ASSUME TypeOK, StackOK, NestedOK, [Next]_vars
  PROVE  NestedOK'
BY NestedLogin, NestedPortal, NestedRefresh, NestedRest DEF Next, CallStep

-----------------------------------------------------------------------------
(* The gates.                                                              *)

\* What a step does to the gates that no failure closed: it leaves them, seals
\* them, opens those that nothing may have consumed, or takes an attempt.
LEMMA GateMoves ==
  ASSUME TypeOK, GateOK, gate' \in [Services -> Gates],
         history'.tainted \subseteq history.tainted,
         \A s \in Services :
           \/ gate'[s] = gate[s]
           \/ gate'[s] = Sealed
           \/ gate'[s] = Open /\ s \notin Running' /\ (s \in Targets => s \notin history'.tainted)
           \/ gate'[s].attempted /\ gate'[s].result = "none" /\ gate'[s].retry = "none",
         \A s \in Running' \ Running :
           /\ Shut(gate'[s]) /\ gate'[s].retry = "none"
           /\ s \in Targets => s \notin history'.tainted
  PROVE  GateOK'
<1>1. history'.tainted \subseteq Services /\ Running' \subseteq Services
  BY DEF TypeOK, Histories, Running
<1>2. /\ Open.retry = "none" /\ Open.result = "none"
      /\ Sealed.retry = "none" /\ Sealed.result = "failed"
  BY DEF Open, Sealed
<1>3. OneAttempt'
  BY DEF GateOK, OneAttempt
<1>4. NoBlindRetry'
  BY <1>1, <1>2 DEF GateOK, NoBlindRetry
<1>5. gate'["identity"].result # "ok"
  BY <1>2, Names DEF GateOK
<1>6. \A s \in Services : gate'[s].result = "none" => gate'[s].retry = "none"
  BY <1>2 DEF GateOK
<1>7. \A s \in Running' : gate'[s].retry = "none" /\ Shut(gate'[s])
  <2> SUFFICES ASSUME NEW s \in Running' PROVE gate'[s].retry = "none" /\ Shut(gate'[s])
    OBVIOUS
  <2>1. s \in Services
    BY <1>1
  <2>2. CASE s \in Running
    BY <1>2, <2>1, <2>2 DEF GateOK, Shut
  <2> QED
    BY <2>2
<1>8. \A s \in history'.tainted \cap Targets : Shut(gate'[s])
  BY <1>1, <1>2 DEF GateOK, Shut
<1> QED
  BY <1>3, <1>4, <1>5, <1>6, <1>7, <1>8 DEF GateOK

\* Gates that a deadline or a finished cycle may have opened before a failure.
Opened(g) ==
  /\ g \in [Services -> Gates]
  /\ \A s \in Services :
       g[s] = gate[s] \/ (g[s] = Open /\ (s \in Targets => s \notin history.tainted))

LEMMA OpenedGates ==
  ASSUME TypeOK, GateOK
  PROVE  /\ Opened(gate) /\ Opened(GateReopened) /\ Opened(CycleFinished(gate))
         /\ \A s \in Services : Opened(ProbeReopened(gate, s))
         /\ Opened(ProbeReopened(GateReopened, "identity"))
<1>1. gate \in [Services -> Gates] /\ "identity" \in Services /\ "identity" \notin Targets
  BY Names DEF TypeOK
<1>2. GateReopened \in [Services -> Gates]
  BY <1>1, GateReopenedReturns
<1>3. \A s \in Services : s \in Targets /\ gate[s].result = "notice" => s \notin history.tainted
  BY DEF GateOK, Shut
<1>4. \A s \in Services : gate[s].retry = "due" => s \notin history.tainted
  BY DEF GateOK, NoBlindRetry
<1>5. Opened(gate) /\ Opened(GateReopened)
  BY <1>1, GateReopenedReturns DEF Opened
<1>6. Opened(CycleFinished(gate))
  BY <1>1, <1>3, CycleReturns DEF Opened
<1>7. \A s \in Services : Opened(ProbeReopened(gate, s))
  BY <1>1, <1>4, ProbeReopenedReturns DEF Opened
<1>8. Opened(ProbeReopened(GateReopened, "identity"))
  BY <1>1, <1>2, <1>5, ProbeReopenedReturns DEF Opened
<1> QED
  BY <1>5, <1>6, <1>7, <1>8

\* A call that fails.
LEMMA GateFails ==
  ASSUME TypeOK, StackOK, GateOK, TaintOK, resume' \in Resumes, NEW g, Opened(g), NEW p,
         NEW kept,
         NEW why \in {"notice", "transient", "failed"}, Failed(g, p, why, kept),
         pc["identity"] = "inner" => why = "failed"
  PROVE  GateOK' /\ \A s \in Running : gate'[s].result = why
<1>1. /\ history.tainted \subseteq Services /\ Running \subseteq Services
      /\ "identity" \in Services /\ Targets \subseteq Services
  BY Names DEF TypeOK, Histories, Running
<1>2. Open.retry = "none" /\ Open.result = "none"
  BY DEF Open
<1>3. \A s \in Services : g[s].result = "none" => g[s].retry = "none"
  BY <1>2 DEF Opened, GateOK
<1>4. g["identity"].result # "ok"
  BY <1>1, <1>2 DEF Opened, GateOK
<1>5. \A s \in Running \cup history.tainted : g[s].retry = "none"
  <2> SUFFICES ASSUME NEW s \in Running \cup history.tainted PROVE g[s].retry = "none"
    OBVIOUS
  <2>1. s \in Services /\ gate[s].retry = "none"
    BY <1>1 DEF GateOK, NoBlindRetry
  <2> QED
    BY <1>2, <2>1 DEF Opened
<1>6. \A s \in history.tainted \cap Targets : Shut(g[s])
  BY <1>1 DEF Opened, GateOK
<1>7. "identity" \in Running => "identity" \notin history.tainted \/ why = "failed"
  <2> SUFFICES ASSUME "identity" \in Running, "identity" \in history.tainted
               PROVE  why = "failed"
    OBVIOUS
  <2>1. pc["identity"] \in {"inner", "probe", "recover", "discover", "submit"}
    BY DEF Running, StackOK
  <2> QED
    BY <2>1 DEF TaintOK
<1>8. g \in [Services -> Gates]
  BY DEF Opened
<1>9. /\ OneAttempt' /\ NoBlindRetry' /\ gate'["identity"].result # "ok"
      /\ \A s \in Services : gate'[s].result = "none" => gate'[s].retry = "none"
      /\ \A s \in history'.tainted \cap Targets : Shut(gate'[s])
      /\ \A s \in Running : gate'[s].result = why
  BY <1>3, <1>4, <1>5, <1>6, <1>7, <1>8, FailedGates
<1>10. Running' = {}
  BY EndsIdle DEF Failed
<1> QED
  BY <1>9, <1>10 DEF GateOK

\* What Identity is like after a failure that may have consumed something.
LEMMA TaintFails ==
  ASSUME TypeOK, StackOK, IdentityOK, GateOK, TaintOK, IdentityOK', resume' \in Resumes,
         NEW g, Opened(g), NEW p, NEW kept,
         NEW why \in {"notice", "transient", "failed"}, Failed(g, p, why, kept),
         pc["identity"] = "inner" => why = "failed",
         \/ /\ identity' = identity
            /\ resume.at = "none" => resume'.at = "none"
            /\ resume.at = "none" /\ gate["identity"].retry = "none" =>
                 g["identity"] = gate["identity"]
         \/ identity'.login
         \/ identity'.state \notin {"authenticated", "expired"}
         \/ identity'.state = "authenticated" /\ identity'.deadline = "none"
            /\ ~identity'.restored
  PROVE  TaintOK'
<1> SUFFICES ASSUME "identity" \in history'.tainted PROVE TaintOK'
  BY DEF TaintOK
<1>1. pc'["resume"] = "idle" /\ pc'["identity"] = "idle"
  BY EndsIdle, Names DEF Failed
<1>2. CASE identity'.login \/ identity'.state \notin {"authenticated", "expired"}
  BY <1>1, <1>2 DEF TaintOK, IdentityOK
<1>3. CASE /\ identity'.state = "authenticated" /\ identity'.deadline = "none"
           /\ ~identity'.restored
  BY <1>1, <1>3 DEF TaintOK
<1>4. CASE /\ identity' = identity
           /\ resume.at = "none" => resume'.at = "none"
           /\ resume.at = "none" /\ gate["identity"].retry = "none" =>
                g["identity"] = gate["identity"]
  <2>1. CASE "identity" \in history.tainted
    <3>1. gate["identity"].retry = "none"
      BY <2>1, Names DEF GateOK, NoBlindRetry
    <3>2. CASE Shut(gate["identity"]) /\ resume.at = "none"
      <4>1. g["identity"] = gate["identity"] /\ resume'.at = "none"
        BY <1>4, <3>1, <3>2
      <4>2. CASE "identity" \in Running
        <5>1. pc["identity"] = "inner"
          BY <2>1, <4>2 DEF Running, TaintOK, StackOK
        <5> QED
          BY <1>1, <1>4, <2>1, <5>1 DEF TaintOK
      <4>3. CASE "identity" \notin Running
        <5>1. gate'["identity"] = gate["identity"]
          BY <4>1, <4>3, Names DEF Failed
        <5> QED
          BY <1>1, <1>4, <2>1, <3>2, <4>1, <5>1 DEF TaintOK
      <4> QED
        BY <4>2, <4>3
    <3>3. CASE ~(Shut(gate["identity"]) /\ resume.at = "none")
      BY <1>1, <1>4, <2>1, <3>3 DEF TaintOK
    <3> QED
      BY <3>2, <3>3
  <2>2. CASE "identity" \notin history.tainted
    <3>1. "identity" \in Running /\ why # "notice"
      BY <2>2 DEF Failed
    <3>2. gate'["identity"].result = why
      BY <3>1, GateFails
    <3>3. Shut(gate'["identity"])
      BY <3>1, <3>2 DEF Shut
    <3>4. resume'.at = "none" /\ ~Live
      BY <1>4, <3>1 DEF IdentityOK, Running
    <3>5. ~identity.restored
      BY <3>1, Names DEF IdentityOK, Running
    <3>6. identity.state = "authenticated" => identity.deadline = "due"
      BY <3>4, <3>5 DEF Live, Current
    <3> QED
      BY <1>1, <1>4, <3>3, <3>4, <3>5, <3>6 DEF TaintOK
  <2> QED
    BY <2>1, <2>2
<1> QED
  BY <1>2, <1>3, <1>4

\* Identity stays, or is not to be tried any more.
LEMMA TaintStays ==
  ASSUME TaintOK,
         "identity" \in history'.tainted =>
           /\ "identity" \in history.tainted
           /\ identity'.state = identity.state /\ identity'.login = identity.login
           /\ identity'.deadline = identity.deadline
           /\ identity'.restored => identity.restored
           /\ resume.at = "none" => resume'.at = "none" /\ gate'["identity"] = gate["identity"]
           /\ pc'["resume"] = "portal" => pc["resume"] = "portal"
           /\ pc'["identity"] = pc["identity"] \/ pc'["identity"] \in {"idle", "begin"}
  PROVE  TaintOK'
BY DEF TaintOK, Shut

LEMMA TaintLost ==
  ASSUME IdentityOK', identity'.login \/ identity'.state \notin {"authenticated", "expired"},
         pc'["resume"] # "portal", pc'["identity"] \in {"idle", "begin"}
  PROVE  TaintOK'
BY DEF IdentityOK, TaintOK

\* Both after a failure.
LEMMA FailsGates ==
  ASSUME TypeOK, StackOK, IdentityOK, GateOK, TaintOK, TypeOK', IdentityOK',
         NEW g, Opened(g), NEW p, NEW kept,
         NEW why \in {"notice", "transient", "failed"}, Failed(g, p, why, kept),
         pc["identity"] = "inner" => why = "failed",
         \/ /\ identity' = identity
            /\ resume.at = "none" => resume'.at = "none"
            /\ resume.at = "none" /\ gate["identity"].retry = "none" =>
                 g["identity"] = gate["identity"]
         \/ identity'.login
         \/ identity'.state \notin {"authenticated", "expired"}
         \/ identity'.state = "authenticated" /\ identity'.deadline = "none"
            /\ ~identity'.restored
  PROVE  GateOK' /\ TaintOK'
<1>1. resume' \in Resumes
  BY DEF TypeOK
<1> QED
  BY <1>1, GateFails, TaintFails

\* A step that moves the active frame and leaves the gates.
LEMMA GateStays ==
  ASSUME TypeOK, GateOK, UNCHANGED gate, history'.tainted \subseteq history.tainted,
         Running' \subseteq Running
  PROVE  GateOK'
<1>1. gate' \in [Services -> Gates]
  BY DEF TypeOK
<1> QED
  BY <1>1, GateMoves

LEMMA GateIdentity ==
  ASSUME TypeOK, StackOK, IdentityOK, GateOK, TaintOK, TypeOK', StackOK', IdentityOK',
         IdentityStep
  PROVE  GateOK' /\ TaintOK'
<1>1. /\ gate \in [Services -> Gates] /\ resume \in Resumes /\ portal \in Portals
      /\ gate' \in [Services -> Gates]
      /\ "identity" \in Callers /\ "identity" \in Services /\ "identity" \notin Targets
  BY Names DEF TypeOK
<1>2. CASE EnterIdentity
  <2> DEFINE g == ProbeReopened(GateReopened, "identity")
             due == LoginDue \/ GateReopened["identity"].retry = "due"
             p == PortalReopened(due)
             q == PortalReopened(LoginDue)
  <2>1. /\ Opened(g) /\ Opened(GateReopened)
        /\ g \in [Services -> Gates]
        /\ \A t \in Services \ {"identity"} : g[t] = gate[t]
        /\ resume.at = "none" => GateReopened["identity"] = gate["identity"]
        /\ resume.at = "none" /\ gate["identity"].retry = "none" =>
             g["identity"] = gate["identity"]
    <3>1. GateReopened \in [Services -> Gates]
      BY <1>1, GateReopenedReturns
    <3> QED
      BY <1>1, <3>1, OpenedGates, GateReopenedReturns, ProbeReopenedReturns DEF LoginDue
  <2>2. resume' = ResumeReopened /\ identity' = identity /\ pc["identity"] = "begin"
        /\ UNCHANGED awaiting
    BY <1>2 DEF EnterIdentity
  <2>3. resume.at = "none" => resume'.at = "none"
    BY <1>1, <2>2, ResumeReopenedReturns
  <2>4. g["identity"].result \in {"none", "notice", "transient", "failed"}
    <3>1. Open.result = "none" /\ gate["identity"].result # "ok" /\ g["identity"] \in Gates
      BY <1>1, <2>1 DEF Open, GateOK
    <3>2. g["identity"].result # "ok"
      BY <1>1, <2>1, <3>1 DEF Opened
    <3> QED
      BY <3>1, <3>2 DEF Gates
  <2>5. \/ \E why \in {"notice", "failed"} : Fails(GateReopened, q, why, clean)
        \/ g["identity"].result # "none" /\ Fails(g, p, g["identity"].result, clean)
        \/ Fails(g, p, "failed", clean)
        \/ /\ resume'.at = "none" /\ ~identity.login
           /\ g["identity"].result = "none" /\ ~g["identity"].attempted
           /\ gate' = [g EXCEPT !["identity"].attempted = TRUE]
           /\ Goes("identity", "inner")
           /\ UNCHANGED <<direct, root, history>>
    BY <1>2 DEF EnterIdentity
  <2> HIDE DEF g, due, p, q
  <2>6. CASE \E why \in {"notice", "failed"} : Fails(GateReopened, q, why, clean)
    <3>1. PICK why \in {"notice", "failed"} : Failed(GateReopened, q, why, clean)
      BY <2>6, FailsIsFailed
    <3> QED
      BY <2>1, <2>2, <2>3, <3>1, FailsGates
  <2>7. CASE g["identity"].result # "none" /\ Fails(g, p, g["identity"].result, clean)
    <3>1. PICK why \in {"notice", "transient", "failed"} : Failed(g, p, why, clean)
      BY <2>4, <2>7, FailsIsFailed
    <3> QED
      BY <2>1, <2>2, <2>3, <3>1, FailsGates
  <2>8. CASE Fails(g, p, "failed", clean)
    <3>1. Failed(g, p, "failed", clean)
      BY <2>8, FailsIsFailed
    <3> QED
      BY <2>1, <2>2, <2>3, <3>1, FailsGates
  <2>9. CASE /\ resume'.at = "none" /\ ~identity.login
             /\ g["identity"].result = "none" /\ ~g["identity"].attempted
             /\ gate' = [g EXCEPT !["identity"].attempted = TRUE]
             /\ Goes("identity", "inner")
             /\ UNCHANGED <<direct, root, history>>
    <3>1. /\ gate'["identity"].attempted /\ gate'["identity"].result = "none"
          /\ gate'["identity"].retry = g["identity"].retry
          /\ \A t \in Services \ {"identity"} : gate'[t] = g[t]
      BY <1>1, <2>1, <2>9, AttemptedReturns
    <3>2. gate'["identity"].retry = "none"
      <4>1. Open.retry = "none"
        BY DEF Open
      <4> QED
        BY <1>1, <2>1, <2>9, <3>1, <4>1 DEF Opened, GateOK
    <3>3. /\ pc'["identity"] = "inner"
          /\ \A d \in Callers : pc'[d] = IF d = "identity" THEN "inner" ELSE pc[d]
      BY <1>1, <2>9, GoesTo
    <3>4. Running' \subseteq Running \cup {"identity"}
      BY <3>3, Names DEF Running
    <3>5. Shut(gate'["identity"])
      BY <3>1 DEF Shut
    <3>6. GateOK'
      BY <1>1, <2>1, <2>9, <3>1, <3>2, <3>4, <3>5, GateMoves
    <3>7. "identity" \in history.tainted => identity.state \notin {"authenticated", "expired"}
      <4> SUFFICES ASSUME "identity" \in history.tainted
                   PROVE  identity.state \notin {"authenticated", "expired"}
        OBVIOUS
      <4>1. gate["identity"].retry = "none"
        BY <1>1 DEF GateOK, NoBlindRetry
      <4>2. ~(Shut(gate["identity"]) /\ resume.at = "none")
        BY <2>1, <2>9, <4>1 DEF Shut
      <4>3. ~(identity.state = "authenticated" /\ identity.deadline = "none")
        BY <2>2 DEF IdentityOK, TaintOK, Live, Current
      <4> QED
        BY <2>9, <4>2, <4>3 DEF TaintOK
    <3>8. pc'["resume"] = pc["resume"]
      BY <3>3, Names
    <3> QED
      BY <2>2, <2>9, <3>3, <3>6, <3>7, <3>8 DEF TaintOK
  <2> QED
    BY <2>5, <2>6, <2>7, <2>8, <2>9
<1>3. CASE IdentityInner
  <2>1. identity' = identity /\ UNCHANGED resume /\ pc["identity"] = "inner"
    BY <1>3 DEF IdentityInner
  <2>2. CASE Fails(gate, portal, "failed", clean)
    BY <2>1, <2>2, FailsIsFailed, FailsGates, OpenedGates
  <2>3. CASE /\ identity.state \in {"authenticated", "expired"}
             /\ Goes("identity", "probe") /\ UNCHANGED <<gate, history>>
    <3>1. \A d \in Callers : pc'[d] = IF d = "identity" THEN "probe" ELSE pc[d]
      BY <1>1, <2>3, GoesTo
    <3>2. Running' \subseteq Running
      BY <2>1, <3>1, Names DEF Running
    <3>3. "identity" \notin history.tainted
      BY <2>1, <2>3 DEF TaintOK
    <3> QED
      BY <2>3, <3>2, <3>3, GateStays DEF TaintOK
  <2> QED
    BY <1>3, <2>2, <2>3 DEF IdentityInner
<1>4. CASE CookiesProve
  <2> DEFINE p == [portal EXCEPT !.up = TRUE, !.password = FALSE,
                                 !.proof = @ \/ portal.depth > 0]
  <2>1. /\ pc["identity"] = "probe" /\ identity'.state = "authenticated"
        /\ identity'.deadline = "none" /\ ~identity'.restored
    BY <1>4 DEF CookiesProve, TypeOK, Identities
  <2>2. \/ \E dirty \in BOOLEAN : Fails(CycleFinished(gate), p, "failed", Kept(dirty))
        \/ /\ gate' = CycleFinished(gate) /\ IdentityReturns("prepare")
           /\ history' = [history EXCEPT !.spent = {}, !.posted = "no",
                            !.tainted = @ \ {"identity"}]
           /\ UNCHANGED <<direct, root>>
    BY <1>4 DEF CookiesProve
  <2> HIDE DEF p
  <2>3. CASE \E dirty \in BOOLEAN : Fails(CycleFinished(gate), p, "failed", Kept(dirty))
    <3>1. PICK dirty \in BOOLEAN : Failed(CycleFinished(gate), p, "failed", Kept(dirty))
      BY <2>3, FailsIsFailed
    <3> QED
      BY <2>1, <3>1, FailsGates, OpenedGates
  <2>4. CASE /\ gate' = CycleFinished(gate) /\ IdentityReturns("prepare")
             /\ history' = [history EXCEPT !.spent = {}, !.posted = "no",
                              !.tainted = @ \ {"identity"}]
             /\ UNCHANGED <<direct, root>>
    <3>1. Active("identity")
      BY <2>1 DEF Active
    <3>2. Running' \subseteq Running /\ "identity" \notin Running'
      BY <2>4, <3>1, StackIdentityReturns
    <3>3. history'.tainted = history.tainted \ {"identity"}
      BY <2>4 DEF TypeOK, Histories
    <3>4. \A s \in Services :
            \/ gate'[s] = gate[s]
            \/ gate'[s] = Open /\ s \notin Running' /\ (s \in Targets => s \notin history'.tainted)
      BY <1>1, <2>4, <3>2, <3>3, CycleReturns DEF GateOK, Shut
    <3>5. GateOK'
      BY <1>1, <3>2, <3>3, <3>4, GateMoves
    <3> QED
      BY <3>3, <3>5 DEF TaintOK
  <2> QED
    BY <2>2, <2>3, <2>4
<1>5. CASE ProbeFails
  <2>1. identity' = identity /\ UNCHANGED resume /\ pc["identity"] = "probe"
    BY <1>5 DEF ProbeFails
  <2>2. PICK why \in {"transient", "failed"}, dirty \in BOOLEAN :
          Failed(gate, portal, why, Kept(dirty))
    BY <1>5, FailsIsFailed DEF ProbeFails
  <2> QED
    BY <2>1, <2>2, FailsGates, OpenedGates
<1>6. CASE ProbeNeedsLogin
  <2>1. pc["identity"] = "probe" /\ Goes("identity", "recover") /\ UNCHANGED <<gate, history>>
    BY <1>6 DEF ProbeNeedsLogin
  <2>2. \A d \in Callers : pc'[d] = IF d = "identity" THEN "recover" ELSE pc[d]
    BY <1>1, <2>1, GoesTo
  <2>3. Running' \subseteq Running
    BY <2>1, <2>2, Names DEF Running
  <2>4. "identity" \notin history.tainted
    BY <2>1 DEF TaintOK
  <2> QED
    BY <2>1, <2>3, <2>4, GateStays DEF TaintOK
<1> QED
  BY <1>2, <1>3, <1>4, <1>5, <1>6 DEF IdentityStep

\* The end of a recovery that tried no login.
LEMMA GateNotRecovered ==
  ASSUME TypeOK, StackOK, IdentityOK, GateOK, TaintOK, TypeOK', StackOK', IdentityOK',
         NEW c \in {"identity", "resume"}, pc[c] = "recover", NEW r, NEW k,
         NotRecovered(c, identity, r, k), r.at = resume.at
  PROVE  GateOK' /\ TaintOK'
<1>1. CASE c = "resume"
  <2>1. /\ identity' = identity /\ resume'.at = resume.at /\ Ends
        /\ UNCHANGED <<gate, history>>
    BY <1>1 DEF NotRecovered
  <2>2. Running' = {} /\ pc'["resume"] = "idle" /\ pc'["identity"] = "idle"
    BY <2>1, EndsIdle, Names
  <2> QED
    BY <2>1, <2>2, GateStays, TaintStays
<1>2. CASE c = "identity"
  <2>1. PICK p : /\ resume' = r
                 /\ \/ identity' = identity /\ Fails(gate, p, "transient", k)
                    \/ identity' = RequireLogin(identity) /\ Fails(gate, p, "failed", k)
    BY <1>2, Names DEF NotRecovered
  <2>2. pc["identity"] = "recover"
    BY <1>2
  <2>3. CASE identity' = identity /\ Fails(gate, p, "transient", k)
    <3>1. Failed(gate, p, "transient", k)
      BY <2>3, FailsIsFailed
    <3> QED
      BY <2>1, <2>2, <2>3, <3>1, FailsGates, OpenedGates
  <2>4. CASE identity' = RequireLogin(identity) /\ Fails(gate, p, "failed", k)
    <3>1. Failed(gate, p, "failed", k)
      BY <2>4, FailsIsFailed
    <3>2. identity'.login
      BY <2>4, RequireLoginReturns DEF TypeOK
    <3> QED
      BY <2>2, <3>1, <3>2, FailsGates, OpenedGates
  <2> QED
    BY <2>1, <2>3, <2>4
<1> QED
  BY <1>1, <1>2

LEMMA GateLogin ==
  ASSUME TypeOK, StackOK, IdentityOK, GateOK, TaintOK, TypeOK', StackOK', IdentityOK',
         NEW c \in {"identity", "resume"}, LoginStep(c)
  PROVE  GateOK' /\ TaintOK'
<1>1. /\ gate \in [Services -> Gates] /\ resume \in Resumes /\ identity \in Identities
      /\ gate' \in [Services -> Gates] /\ c \in Callers
      /\ "identity" \in Callers /\ "identity" \in Services /\ "identity" \notin Targets
  BY Names DEF TypeOK
<1>2. CASE RecoveryRefused(c) \/ RecoveryVaultBusy(c) \/ RecoveryNoRecord(c)
  <2>1. pc[c] = "recover"
    BY <1>2 DEF RecoveryRefused, RecoveryVaultBusy, RecoveryNoRecord, Recovering
  <2>2. CASE RecoveryRefused(c)
    BY <2>1, <2>2, GateNotRecovered DEF RecoveryRefused
  <2>3. CASE RecoveryVaultBusy(c)
    <3> DEFINE r == [resume EXCEPT !.attempt = "retryable", !.tried = FALSE, !.opened = FALSE]
    <3>1. NotRecovered(c, identity, r, clean)
      BY <2>3 DEF RecoveryVaultBusy
    <3>2. r.at = resume.at
      BY <1>1 DEF Resumes
    <3> HIDE DEF r
    <3> QED
      BY <2>1, <3>1, <3>2, GateNotRecovered
  <2>4. CASE RecoveryNoRecord(c)
    <3> DEFINE r == [resume EXCEPT !.tried = TRUE, !.opened = TRUE]
    <3>1. NotRecovered(c, identity, r, clean)
      BY <2>4 DEF RecoveryNoRecord
    <3>2. r.at = resume.at
      BY <1>1 DEF Resumes
    <3> HIDE DEF r
    <3> QED
      BY <2>1, <3>1, <3>2, GateNotRecovered
  <2> QED
    BY <1>2, <2>2, <2>3, <2>4
\* The steps that go on with a login.
<1>3. CASE RecoveryLogin(c) \/ EntryRead(c)
  <2>1. PICK step \in {"discover", "submit"} :
          /\ Goes(c, step) /\ UNCHANGED gate /\ history'.tainted = history.tainted
          /\ identity'.state \notin {"authenticated", "expired"}
          /\ pc[c] \in {"recover", "discover"}
    <3>1. CASE RecoveryLogin(c)
      BY <1>1, <3>1 DEF RecoveryLogin, Recovering, TypeOK, Histories, Identities
    <3>2. CASE EntryRead(c)
      BY <1>1, <3>2 DEF EntryRead, Identities
    <3> QED
      BY <1>3, <3>1, <3>2
  <2>2. \A d \in Callers : pc'[d] = IF d = c THEN step ELSE pc[d]
    BY <1>1, <2>1, GoesTo
  <2>3. Running' \subseteq Running
    BY <2>1, <2>2, Names DEF Running
  <2>4. GateOK'
    BY <2>1, <2>3, GateStays
  <2>5. CASE c = "identity"
    <3>1. "identity" \notin history'.tainted
      BY <2>1, <2>5 DEF TaintOK
    <3> QED
      BY <2>4, <3>1 DEF TaintOK
  <2>6. CASE c = "resume"
    <3>1. pc["identity"] = "idle"
      BY <2>1, <2>6, Names DEF StackOK, Active
    <3>2. pc'["resume"] # "portal" /\ pc'["identity"] = "idle"
      BY <2>2, <2>6, <3>1, Names
    <3> QED
      BY <2>1, <2>4, <3>2, TaintLost
  <2> QED
    BY <2>5, <2>6
<1>4. CASE PostProves(c)
  <2>1. /\ gate' = CycleFinished(gate) /\ history'.tainted = history.tainted \ {"identity"}
        /\ pc[c] = "submit" /\ UNCHANGED <<direct, root>>
    BY <1>1, <1>4 DEF PostProves, TypeOK, Histories
  <2>2. Running' \subseteq Running /\ "identity" \notin Running'
    <3>1. CASE c = "resume"
      <4>1. pc' = [pc EXCEPT !["resume"] = "idle", !["direct"] = "bootstrap"]
        BY <1>4, <3>1 DEF PostProves
      <4> QED
        BY <2>1, <3>1, <4>1, StackPasses
    <3>2. CASE c = "identity"
      <4>1. IdentityReturns("prepare") /\ Active("identity")
        BY <1>4, <2>1, <3>2 DEF PostProves, Active
      <4> QED
        BY <2>1, <4>1, StackIdentityReturns
    <3> QED
      BY <3>1, <3>2
  <2>3. \A s \in Services :
          \/ gate'[s] = gate[s]
          \/ gate'[s] = Open /\ s \notin Running' /\ (s \in Targets => s \notin history'.tainted)
    BY <1>1, <2>1, <2>2, CycleReturns DEF GateOK, Shut
  <2>4. GateOK'
    BY <1>1, <2>1, <2>2, <2>3, GateMoves
  <2> QED
    BY <2>1, <2>4 DEF TaintOK
\* The login fails.
<1>5. CASE PostUnanswered(c)
  <2>1. identity'.state = "anonymous" /\ pc[c] = "submit"
    BY <1>1, <1>5 DEF PostUnanswered, Identities
  <2>2. pc["identity"] # "inner"
    BY <2>1, Names DEF StackOK, Active
  <2> QED
    BY <1>5, <2>1, <2>2, PostUnansweredFails, FailsGates, OpenedGates
<1>6. CASE EntryUnavailable(c) \/ EntryRefused(c) \/ PostRejected(c) \/ PostChallenged(c)
  <2>1. \E why \in {"notice", "failed"} : Fails(gate, portal, why, {})
    BY <1>6 DEF EntryUnavailable, EntryRefused, PostRejected, PostChallenged, LoginFails
  <2>2. pc[c] \in {"discover", "submit"} /\ (pc[c] = "discover" => identity' = identity)
    BY <1>6 DEF EntryUnavailable, EntryRefused, PostRejected, PostChallenged, LoginFails
  <2>3. pc["identity"] # "inner"
    BY <2>2, Names DEF StackOK, Active
  <2>4. identity'.state \notin {"authenticated", "expired"}
    <3>1. CASE pc[c] = "discover"
      BY <1>1, <2>2, <3>1 DEF IdentityOK
    <3>2. CASE PostRejected(c)
      BY <1>1, <3>2, RequireLoginReturns DEF PostRejected, LoginFails, Identities
    <3>3. CASE PostChallenged(c)
      BY <1>1, <3>3 DEF PostChallenged, LoginFails, Identities
    <3> QED
      BY <1>6, <3>1, <3>2, <3>3 DEF EntryUnavailable, EntryRefused
  <2>5. PICK why \in {"notice", "failed"} : Failed(gate, portal, why, {})
    BY <2>1, FailsIsFailed
  <2> QED
    BY <2>3, <2>4, <2>5, FailsGates, OpenedGates
<1> QED
  BY <1>2, <1>3, <1>4, <1>5, <1>6 DEF LoginStep

\* The portal stays unproven for c.
LEMMA GatePortalFails ==
  ASSUME TypeOK, StackOK, IdentityOK, GateOK, TaintOK, TypeOK', StackOK', IdentityOK',
         NEW c \in Targets \cup {"resume", "direct"}, pc[c] \in {"bootstrap", "portal"},
         NEW r, NEW p, NEW why \in {"transient", "failed"}, NEW kept,
         PortalFails(c, r, p, why, kept), r.at = resume.at,
         identity' = identity \/ identity'.login,
         c = "resume" /\ why = "transient" => Current \/ pc[c] = "portal"
  PROVE  GateOK' /\ TaintOK'
<1>1. c \in Callers
  BY Names
<1>2. CASE c = "resume"
  <2>1. /\ UNCHANGED <<gate, history>>
        /\ Goes(c, IF p.password THEN "recover" ELSE "idle")
        /\ why = "failed" => resume'.at = resume.at
    BY <1>2, Names DEF PortalFails
  <2>2. PICK step \in {"recover", "idle"} : Goes(c, step)
    BY <2>1
  <2>3. \A d \in Callers : pc'[d] = IF d = c THEN step ELSE pc[d]
    BY <1>1, <2>2, GoesTo
  <2>4. Running' \subseteq Running
    BY <1>2, <2>3, Names DEF Running
  <2>5. GateOK'
    BY <2>1, <2>4, GateStays
  <2>6. pc["identity"] = "idle"
    BY <1>2, Names DEF StackOK, Active
  <2>7. pc'["resume"] # "portal" /\ pc'["identity"] = "idle"
    BY <1>2, <2>3, <2>6, Names
  <2>8. CASE identity'.login
    BY <2>5, <2>7, <2>8, TaintLost
  <2>9. CASE identity' = identity /\ why = "failed"
    BY <2>1, <2>5, <2>7, <2>9, TaintStays
  <2>10. CASE identity' = identity /\ why = "transient"
    <3>1. Current \/ pc["resume"] = "portal"
      BY <1>2, <2>10
    <3>2. "identity" \in history.tainted =>
            /\ identity.state = "authenticated" /\ identity.deadline = "none"
            /\ ~identity.restored
      <4>1. identity.deadline \in {"none", "ahead", "due"}
        BY DEF TypeOK, Identities, Deadlines
      <4>2. pc["resume"] = "portal" => identity.state = "authenticated"
        BY Names, AtPortal
      <4> QED
        BY <3>1, <4>1, <4>2 DEF TaintOK, Current
    <3> QED
      BY <2>1, <2>5, <2>7, <2>10, <3>2 DEF TaintOK
  <2> QED
    BY <2>8, <2>9, <2>10
<1>3. CASE c # "resume"
  <2>1. resume'.at = resume.at /\ Failed(gate, p, why, kept)
    BY <1>3, FailsIsFailed DEF PortalFails
  <2>2. pc["identity"] # "inner"
    BY <1>1, Names DEF StackOK, Active
  <2> QED
    BY <2>1, <2>2, FailsGates, OpenedGates
<1> QED
  BY <1>2, <1>3

\* The portal is proven for c, for an Identity that is live or was asked for
\* in time.
LEMMA GatePortalDone ==
  ASSUME TypeOK, StackOK, IdentityOK, GateOK, TaintOK, TypeOK', StackOK', IdentityOK',
         NEW c \in Targets \cup {"resume", "direct"}, pc[c] \in {"bootstrap", "portal"},
         NEW r, NEW p, PortalDone(c, p, r), r.at = resume.at, UNCHANGED <<direct, root, history>>,
         identity'.state = identity.state, identity'.login = identity.login,
         identity'.deadline = identity.deadline, identity'.restored => identity.restored,
         pc[c] = "bootstrap" => Current
  PROVE  GateOK' /\ TaintOK'
<1>1. /\ c \in Callers /\ c # "identity" /\ gate \in [Services -> Gates]
      /\ gate' \in [Services -> Gates] /\ Active(c)
  BY Names DEF TypeOK, Active
<1>2. Goes(c, AfterPortal(c))
  BY DEF PortalDone
<1>3. AfterPortal(c) \in {"parent", "establish", "idle"}
  BY Names DEF AfterPortal
<1>4. \A d \in Callers : pc'[d] = IF d = c THEN AfterPortal(c) ELSE pc[d]
  BY <1>1, <1>2, GoesTo
<1>5. Running' \subseteq Running
  BY <1>1, <1>4, Names DEF Running, Active
<1>6. pc'["resume"] # "portal" \/ pc'["resume"] = pc["resume"]
  BY <1>3, <1>4, Names
<1>7. pc'["identity"] = pc["identity"]
  BY <1>1, <1>4, Names
<1>8. CASE resume' = r /\ UNCHANGED gate
  <2>1. GateOK'
    BY <1>5, <1>8, GateStays
  <2> QED
    BY <1>6, <1>7, <1>8, <2>1, TaintStays
<1>9. CASE c = "resume" /\ gate' = CycleFinished(gate)
  <2>1. \A s \in Services : s \notin Running'
    <3>1. \A d \in Callers : d # "resume" => pc[d] = "idle"
      BY <1>9, <1>1, Names DEF StackOK, Active
    <3> QED
      BY <1>4, <1>9, <3>1, Names DEF Running
  <2>2. \A s \in Services :
          gate'[s] = gate[s] \/ (gate'[s] = Open /\ (s \in Targets => s \notin history.tainted))
    BY <1>9, OpenedGates DEF Opened
  <2>3. GateOK'
    BY <1>1, <1>5, <2>1, <2>2, GateMoves
  <2>4. "identity" \in history.tainted =>
          /\ identity'.state = "authenticated" /\ identity'.deadline = "none"
          /\ ~identity'.restored
    <3> SUFFICES ASSUME "identity" \in history.tainted
                 PROVE  identity.state = "authenticated" /\ identity.deadline = "none"
      BY DEF TaintOK
    <3>1. CASE pc[c] = "bootstrap"
      <4>1. Current /\ identity.deadline \in {"none", "ahead", "due"}
        BY <3>1 DEF TypeOK, Identities, Deadlines
      <4> QED
        BY <4>1 DEF TaintOK, Current
    <3>2. CASE pc[c] = "portal"
      BY <1>1, <1>9, <3>2, AtPortal DEF TaintOK
    <3> QED
      BY <3>1, <3>2
  <2>5. pc["identity"] = "idle"
    BY <1>9, Names DEF StackOK, Active
  <2>6. pc'["resume"] = "idle"
    BY <1>1, <1>4, <1>9, Names DEF AfterPortal
  <2> QED
    BY <1>7, <2>3, <2>4, <2>5, <2>6 DEF TaintOK
<1> QED
  BY <1>8, <1>9 DEF PortalDone

LEMMA GatePortal ==
  ASSUME TypeOK, StackOK, IdentityOK, GateOK, TaintOK, TypeOK', StackOK', IdentityOK',
         NEW c \in Targets \cup {"resume", "direct"}, PortalStep(c)
  PROVE  GateOK' /\ TaintOK'
<1>1. c \in Callers /\ c # "identity" /\ portal \in Portals /\ resume \in Resumes
      /\ identity \in Identities
  BY Names DEF TypeOK
<1>2. CASE Bootstrap(c)
  <2>1. pc[c] = "bootstrap" /\ UNCHANGED identity
    BY <1>2 DEF Bootstrap
  <2>2. \/ PortalFails(c, resume, portal, "failed", clean)
        \/ Current /\ PortalDone(c, portal, resume) /\ UNCHANGED <<direct, root, history>>
        \/ Current /\ portal.failure # "none" /\
           PortalFails(c, resume, portal, portal.failure, clean)
        \/ PortalFails(c, resume, [portal EXCEPT !.failure = "failed"], "failed", clean)
        \/ Current /\ Goes(c, "portal") /\ UNCHANGED <<gate, resume, history>>
    BY <1>2 DEF Bootstrap
  <2>3. CASE PortalFails(c, resume, portal, "failed", clean)
    BY <1>1, <2>1, <2>3, GatePortalFails
  <2>4. CASE Current /\ portal.failure # "none" /\
             PortalFails(c, resume, portal, portal.failure, clean)
    <3>1. PICK why \in {"transient", "failed"} : PortalFails(c, resume, portal, why, clean)
      BY <1>1, <2>4 DEF Portals
    <3> QED
      BY <1>1, <2>1, <2>4, <3>1, GatePortalFails
  <2>5. CASE PortalFails(c, resume, [portal EXCEPT !.failure = "failed"], "failed", clean)
    BY <1>1, <2>1, <2>5, GatePortalFails
  <2>6. CASE Current /\ PortalDone(c, portal, resume) /\ UNCHANGED <<direct, root, history>>
    BY <1>1, <2>1, <2>6, GatePortalDone
  <2>7. CASE Current /\ Goes(c, "portal") /\ UNCHANGED <<gate, resume, history>>
    <3>1. \A d \in Callers : pc'[d] = IF d = c THEN "portal" ELSE pc[d]
      BY <1>1, <2>7, GoesTo
    <3>2. Running' \subseteq Running
      BY <2>1, <3>1, Names DEF Running
    <3>3. GateOK'
      BY <2>7, <3>2, GateStays
    <3>4. pc'["identity"] = pc["identity"] /\ pc'["resume"] = IF c = "resume" THEN "portal"
                                                              ELSE pc["resume"]
      BY <1>1, <3>1, Names
    <3>5. "identity" \in history.tainted => identity.deadline = "none"
      <4>1. identity.deadline \in {"none", "ahead", "due"}
        BY <1>1 DEF Identities, Deadlines
      <4> QED
        BY <2>7, <4>1 DEF TaintOK, Current
    <3>6. TaintOK'
      BY <2>1, <2>7, <3>4, <3>5 DEF TaintOK
    <3> QED
      BY <3>3, <3>6
  <2> QED
    BY <2>2, <2>3, <2>4, <2>5, <2>6, <2>7
<1>3. CASE PortalProves(c)
  <2>1. pc[c] = "portal" /\ identity' = [identity EXCEPT !.restored = FALSE]
        /\ UNCHANGED <<direct, root, history>>
        /\ \E p : PortalDone(c, p, [resume EXCEPT !.opened = FALSE])
    BY <1>3 DEF PortalProves, Asked
  <2>2. identity'.state = identity.state /\ identity'.login = identity.login
        /\ ~identity'.restored /\ identity'.deadline = identity.deadline
    BY <1>1, <2>1 DEF Identities
  <2>3. [resume EXCEPT !.opened = FALSE].at = resume.at
    BY <1>1 DEF Resumes
  <2> QED
    BY <1>1, <2>1, <2>2, <2>3, GatePortalDone
<1>4. CASE \/ PortalUnanswered(c) \/ PortalVaultBusy(c) \/ PortalNeedsLogin(c)
           \/ PortalPostUnanswered(c) \/ PortalPostRejected(c) \/ PortalPauses(c)
  <2>1. pc[c] = "portal"
    BY <1>4 DEF PortalUnanswered, PortalVaultBusy, PortalNeedsLogin, PortalPostUnanswered,
                PortalPostRejected, PortalPauses, Asked
  <2>2. \A o : [resume EXCEPT !.opened = o].at = resume.at
    BY <1>1 DEF Resumes
  <2>3. identity' = identity \/ identity'.login
    BY <1>1, <1>4, RequireLoginReturns
       DEF PortalUnanswered, PortalVaultBusy, PortalNeedsLogin, PortalPostUnanswered,
           PortalPostRejected, PortalPauses
  <2>4. CASE PortalUnanswered(c)
    <3>1. PICK why \in {"transient", "failed"}, dirty \in BOOLEAN :
            PortalFails(c, resume, Noted(why, FALSE), why, Kept(dirty))
      BY <2>4 DEF PortalUnanswered
    <3> QED
      BY <2>1, <2>3, <3>1, GatePortalFails
  <2>5. CASE PortalVaultBusy(c)
    BY <2>1, <2>3, <2>5, GatePortalFails DEF PortalVaultBusy
  <2>6. CASE PortalNeedsLogin(c) \/ PortalPostUnanswered(c) \/ PortalPostRejected(c)
    <3>1. PICK o, p, kept : PortalFails(c, [resume EXCEPT !.opened = o], p, "failed", kept)
      <4>1. CASE PortalNeedsLogin(c)
        BY <4>1 DEF PortalNeedsLogin
      <4>2. CASE PortalPostUnanswered(c) \/ PortalPostRejected(c)
        BY <4>2 DEF PortalPostUnanswered, PortalPostRejected
      <4> QED
        BY <2>6, <4>1, <4>2
    <3> QED
      BY <2>1, <2>2, <2>3, <3>1, GatePortalFails
  <2>7. CASE PortalPauses(c)
    <3>1. PICK o, p, kept : PortalFails(c, [resume EXCEPT !.opened = o], p, "failed", kept)
      BY <2>7 DEF PortalPauses
    <3> QED
      BY <2>1, <2>2, <2>3, <3>1, GatePortalFails
  <2> QED
    BY <1>4, <2>4, <2>5, <2>6, <2>7
<1> QED
  BY <1>2, <1>3, <1>4 DEF PortalStep

LEMMA GateRefresh ==
  ASSUME TypeOK, StackOK, IdentityOK, GateOK, TaintOK, TypeOK', StackOK', IdentityOK',
         NEW s \in Targets, RefreshStep(s)
  PROVE  GateOK' /\ TaintOK'
<1>1. /\ s \in Callers /\ s \in Services /\ s \notin {"identity", "resume", "direct"}
      /\ gate \in [Services -> Gates] /\ gate' \in [Services -> Gates]
      /\ {"identity", "resume"} \subseteq Callers /\ "identity" \in Services
      /\ UNCHANGED <<identity, resume>>
  BY Names DEF TypeOK, RefreshStep, EnterRefresh, Prepare, Parent, Established, EstablishFails,
               runtime
<1>2. pc["identity"] = "inner" => ~Active(s)
  BY <1>1 DEF StackOK, Active
<1>3. CASE EnterRefresh(s)
  <2> DEFINE g == ProbeReopened(gate, s)
             q == PortalReopened(gate[s].retry = "due")
  <2>1. /\ Opened(g) /\ g \in [Services -> Gates] /\ pc[s] = "begin"
        /\ \A t \in Services \ {s} : g[t] = gate[t]
    BY <1>1, <1>3, OpenedGates, ProbeReopenedReturns DEF EnterRefresh
  <2>2. g["identity"] = gate["identity"] /\ pc["identity"] # "inner"
    BY <1>1, <1>2, <2>1 DEF Active
  <2>3. g[s].result \in {"none", "ok", "notice", "transient", "failed"}
    BY <1>1, <2>1 DEF Gates
  <2>4. \/ g[s].result = "ok" /\ gate' = Cleared(g, {s}) /\ Ends /\ UNCHANGED history
        \/ g[s].result # "none" /\
           Fails(g, q, IF g[s].result = "ok" THEN "failed" ELSE g[s].result, clean)
        \/ Fails(g, q, "failed", clean)
        \/ /\ g[s].result = "none" /\ ~g[s].attempted
           /\ gate' = [g EXCEPT ![s].attempted = TRUE]
           /\ UNCHANGED history
           /\ \/ Goes(s, "prepare")
              \/ pc' = [pc EXCEPT ![s] = "identity", !["identity"] = "begin"]
    BY <1>3 DEF EnterRefresh
  <2>5. g[s].result = "none" /\ ~g[s].attempted => s \notin history.tainted
    <3>1. s \in history.tainted => Shut(gate[s]) /\ g[s] = gate[s]
      BY <1>1, <2>1 DEF GateOK, Opened
    <3> QED
      BY <3>1 DEF Shut
  <2> HIDE DEF g, q
  <2>6. CASE g[s].result = "ok" /\ gate' = Cleared(g, {s}) /\ Ends /\ UNCHANGED history
    <3>1. /\ Running' = {} /\ pc'["identity"] = "idle" /\ pc'["resume"] = "idle"
      BY <2>6, EndsIdle, Names
    <3>2. \A t \in Services :
            gate'[t] = gate[t] \/ (gate'[t] = Open /\ (t \in Targets => t \notin history.tainted))
      <4>1. ASSUME NEW t \in Services \ {s}
            PROVE  gate'[t] = gate[t]
        BY <2>1, <2>6, ClearedReturns
      <4>2. gate'[s] = Open
        BY <1>1, <2>1, <2>6, ClearedReturns
      <4>3. s \notin history.tainted
        <5>1. Open.result = "none"
          BY DEF Open
        <5> QED
          BY <1>1, <2>1, <2>6, <5>1 DEF Opened, GateOK, Shut
      <4> QED
        BY <4>1, <4>2, <4>3
    <3>3. GateOK'
      BY <1>1, <2>6, <3>1, <3>2, GateMoves
    <3>4. gate'["identity"] = gate["identity"]
      BY <1>1, <2>1, <2>6, ClearedReturns
    <3> QED
      BY <1>1, <2>6, <3>1, <3>3, <3>4, TaintStays
  <2>7. CASE g[s].result # "none" /\
             Fails(g, q, IF g[s].result = "ok" THEN "failed" ELSE g[s].result, clean)
    <3>1. PICK why \in {"notice", "transient", "failed"} : Failed(g, q, why, clean)
      BY <2>3, <2>7, FailsIsFailed
    <3> QED
      BY <1>1, <2>1, <2>2, <3>1, FailsGates
  <2>8. CASE Fails(g, q, "failed", clean)
    <3>1. Failed(g, q, "failed", clean)
      BY <2>8, FailsIsFailed
    <3> QED
      BY <1>1, <2>1, <2>2, <3>1, FailsGates
  <2>9. CASE /\ g[s].result = "none" /\ ~g[s].attempted
             /\ gate' = [g EXCEPT ![s].attempted = TRUE]
             /\ UNCHANGED history
             /\ \/ Goes(s, "prepare")
                \/ pc' = [pc EXCEPT ![s] = "identity", !["identity"] = "begin"]
    <3>1. /\ gate'[s].attempted /\ gate'[s].result = "none" /\ gate'[s].retry = g[s].retry
          /\ \A t \in Services \ {s} : gate'[t] = g[t]
      BY <1>1, <2>1, <2>9, AttemptedReturns
    <3>2. gate'[s].retry = "none"
      <4>1. Open.retry = "none"
        BY DEF Open
      <4> QED
        BY <1>1, <2>1, <2>9, <3>1, <4>1 DEF Opened, GateOK
    <3>3. /\ \A d \in Callers : d \notin {s, "identity"} => pc'[d] = pc[d]
          /\ pc'["identity"] = pc["identity"] \/ pc'["identity"] = "begin"
      BY <1>1, <2>9 DEF Goes, TypeOK
    <3>4. Running' \subseteq Running \cup {s}
      BY <3>3, Names DEF Running
    <3>5. GateOK'
      BY <1>1, <2>1, <2>5, <2>9, <3>1, <3>2, <3>4, GateMoves DEF Shut
    <3>6. pc'["resume"] = pc["resume"] /\ gate'["identity"] = gate["identity"]
      BY <1>1, <2>2, <3>1, <3>3
    <3> QED
      BY <1>1, <2>9, <3>3, <3>5, <3>6, TaintStays
  <2> QED
    BY <2>4, <2>6, <2>7, <2>8, <2>9
<1>4. CASE Prepare(s) \/ Parent(s)
  <2>1. /\ UNCHANGED history /\ Active(s)
        /\ gate' = gate \/ gate' = SealedIfPending(s)
        /\ \/ \E step \in {"parent", "bootstrap", "establish"} : Goes(s, step)
           \/ pc[s] = "parent" /\ pc' = [pc EXCEPT ![s] = "nested", ![ParentOf[s]] = "begin"]
    BY <1>4 DEF Prepare, Parent, Active, runtime
  <2>2. \A t \in Services : gate'[t] = gate[t] \/ (t = s /\ gate'[t] = Sealed)
    BY <1>1, <2>1, SealedReturns
  <2>3. pc[s] = "parent" => ParentOf[s] \in Targets
    BY Parents DEF StackOK
  <2>4. pc'["resume"] = pc["resume"] /\ pc'["identity"] = pc["identity"]
    BY <1>1, <2>1, <2>3, Names DEF Goes, TypeOK
  <2>5. Running' \subseteq Running
    <3>1. pc'[s] # "idle" /\ \A d \in Callers : d # s => pc'[d] = pc[d] \/ pc'[d] = "begin"
      BY <1>1, <2>1, <2>3, Names DEF Goes, TypeOK
    <3>2. s \in Running
      BY <1>1, <1>4 DEF Running, Prepare, Parent
    <3> QED
      BY <3>1, <3>2, Names DEF Running
  <2>6. GateOK'
    BY <1>1, <2>1, <2>2, <2>5, GateMoves
  <2> QED
    BY <1>1, <2>1, <2>2, <2>4, <2>6, TaintStays
<1>5. CASE Established(s) \/ EstablishFails(s)
  <2>1. pc[s] = "establish" /\ pc["identity"] # "inner"
    BY <1>2, <1>5 DEF Established, EstablishFails, Active
  <2>2. CASE \E dirty \in BOOLEAN : Fails(gate, portal, "failed", Kept(dirty))
    <3>1. PICK dirty \in BOOLEAN : Failed(gate, portal, "failed", Kept(dirty))
      BY <2>2, FailsIsFailed
    <3> QED
      BY <1>1, <2>1, <3>1, FailsGates, OpenedGates
  <2>3. CASE /\ \/ gate' = Cleared(gate, {s})
                \/ gate' = [gate EXCEPT ![s] = Recorded(@, "ok", FALSE)]
             /\ Returns(s) /\ root' = root \ {s}
             /\ direct' = IF direct = s THEN "none" ELSE direct
             /\ history' = [history EXCEPT !.spent = @ \cup {s}, !.tainted = @ \ {s}]
    <3>1. /\ Running' = Running \ {s}
          /\ \A c \in Callers :
               pc'[c] = IF c = s \/ (c = "direct" /\ pc[c] = "nested" /\ direct = s) THEN "idle"
                        ELSE IF pc[c] = "nested" /\ HasParent(c) /\ ParentOf[c] = s
                        THEN "establish" ELSE pc[c]
      BY <2>1, <2>3, StackReturns
    <3>2. history'.tainted = history.tainted \ {s}
      BY <2>3 DEF TypeOK, Histories
    <3>3. \A t \in Services \ {s} : gate'[t] = gate[t]
      <4>1. CASE gate' = Cleared(gate, {s})
        BY <1>1, <4>1, ClearedReturns
      <4>2. CASE gate' = [gate EXCEPT ![s] = Recorded(@, "ok", FALSE)]
        BY <1>1, <4>2
      <4> QED
        BY <2>3, <4>1, <4>2
    <3>4. /\ gate'[s].result = "none" => gate'[s].retry = "none"
          /\ gate'[s].result # "none" \/ gate'[s] = Open
      <4>1. CASE gate' = Cleared(gate, {s})
        BY <1>1, <4>1, ClearedReturns DEF Open
      <4>2. CASE gate' = [gate EXCEPT ![s] = Recorded(@, "ok", FALSE)]
        <5>1. gate'[s] = Recorded(gate[s], "ok", FALSE) /\ gate[s] \in Gates
          BY <1>1, <4>2
        <5> QED
          BY <5>1 DEF Recorded, Gates
      <4> QED
        BY <2>3, <4>1, <4>2
    <3>5. GateOK'
      <4>1. s \notin Running' /\ s \notin history'.tainted /\ history'.tainted \subseteq Services
        BY <3>1, <3>2 DEF TypeOK, Histories
      <4>2. OneAttempt'
        BY <3>1, <3>2 DEF GateOK, OneAttempt
      <4>3. NoBlindRetry'
        BY <3>2, <3>3, <4>1 DEF GateOK, NoBlindRetry
      <4>4. gate'["identity"].result # "ok"
        BY <1>1, <3>3 DEF GateOK
      <4>5. \A t \in Services : gate'[t].result = "none" => gate'[t].retry = "none"
        BY <3>3, <3>4 DEF GateOK
      <4>6. \A t \in Running' : gate'[t].retry = "none" /\ Shut(gate'[t])
        BY <3>1, <3>3 DEF GateOK, Running
      <4>7. \A t \in history'.tainted \cap Targets : Shut(gate'[t])
        BY <3>2, <3>3, <4>1 DEF GateOK
      <4> QED
        BY <4>2, <4>3, <4>4, <4>5, <4>6, <4>7 DEF GateOK
    <3>6. /\ pc'["resume"] = "portal" => pc["resume"] = "portal"
          /\ pc'["identity"] = pc["identity"] \/ pc'["identity"] = "idle"
          /\ gate'["identity"] = gate["identity"]
      <4>1. pc["identity"] # "nested" /\ pc["resume"] # "nested"
        BY DEF StackOK
      <4> QED
        BY <1>1, <3>1, <3>3, <4>1
    <3> QED
      BY <1>1, <3>2, <3>5, <3>6, TaintStays
  <2> QED
    BY <1>5, <2>2, <2>3 DEF Established, EstablishFails
<1> QED
  BY <1>3, <1>4, <1>5 DEF RefreshStep

LEMMA GateDirect ==
  ASSUME TypeOK, StackOK, IdentityOK, GateOK, TaintOK, TypeOK',
         DirectLibrary \/ DirectEstablish
  PROVE  GateOK' /\ TaintOK'
<1>1. UNCHANGED <<identity, gate, resume, history>> /\ pc["direct"] = "establish"
  BY DEF DirectLibrary, DirectEstablish, runtime
<1>2. CASE DirectLibrary
  <2>1. pc' = [pc EXCEPT !["direct"] = "nested", !["library"] = "begin"]
        /\ "library" \in Targets
    BY <1>2 DEF DirectLibrary, TypeOK
  <2>2. pc'["resume"] = pc["resume"] /\ pc'["identity"] = pc["identity"]
    BY <2>1, Names DEF TypeOK
  <2>3. Running' \subseteq Running
    BY <2>1, Names DEF Running, TypeOK
  <2> QED
    BY <1>1, <2>2, <2>3, GateStays, TaintStays
<1>3. CASE DirectEstablish
  <2>1. Running' = {} /\ pc'["identity"] = "idle" /\ pc'["resume"] = "idle"
    BY <1>3, EndsIdle, Names DEF DirectEstablish
  <2> QED
    BY <1>1, <2>1, GateStays, TaintStays
<1> QED
  BY <1>2, <1>3

\* Gates that a call, an answered read or the user opens, with their attempts
\* forgotten.
LEMMA GateClears ==
  ASSUME TypeOK, GateOK, gate' \in [Services -> Gates], NEW S,
         gate' = Cleared(gate, S), history'.tainted \subseteq history.tainted \ S,
         Running' = {}
  PROVE  GateOK'
<1>1. gate \in [Services -> Gates]
  BY DEF TypeOK
<1>2. \A s \in Services :
        gate'[s] = gate[s] \/ (gate'[s] = Open /\ s \notin history'.tainted)
  BY <1>1, ClearedReturns
<1> QED
  BY <1>2, GateMoves

LEMMA GateUser ==
  ASSUME TypeOK, StackOK, IdentityOK, GateOK, TaintOK, TypeOK', StackOK', IdentityOK',
         UserStep
  PROVE  GateOK' /\ TaintOK'
<1>1. /\ gate \in [Services -> Gates] /\ gate' \in [Services -> Gates]
      /\ resume \in Resumes /\ identity \in Identities
      /\ {"identity", "resume"} \subseteq Callers /\ "identity" \in Services
      /\ "identity" \notin Targets
  BY Names DEF TypeOK
<1>2. Idle
  BY DEF UserStep, ReadStep, EstablishManually, ReadUnproven, ReadExpired, ReadServed,
         ChildExpired, Foreground, ReadIdentityLost, ExplicitLogin, Logout, CompletePrimary,
         CompletePortal
<1>3. \A c \in Callers : pc[c] = "idle"
  BY <1>2, IdleStack
<1>4. UNCHANGED call => Running' = {} /\ pc'["resume"] = "idle" /\ pc'["identity"] = "idle"
  BY <1>1, <1>3, Names DEF call, Running
<1>5. \A c \in Callers, step \in {"begin", "bootstrap", "establish", "recover"} :
        pc' = [pc EXCEPT ![c] = step] /\ (c \in Services => step = "begin") =>
          /\ Running' = {}
          /\ pc'["resume"] # "portal" /\ pc'["identity"] \in {"idle", "begin"}
  BY <1>1, <1>3, Names DEF TypeOK, Running
<1>6. ASSUME NEW s \in Targets, ReadStep(s)
      PROVE  GateOK' /\ TaintOK'
  <2>1. UNCHANGED identity /\ resume'.at = resume.at /\ s \in Callers /\ s \in Services
        /\ s # "identity"
    BY <1>1, <1>6, Names
       DEF ReadStep, EstablishManually, ReadUnproven, ReadExpired, ReadServed, Resumes
  <2>2. /\ Running' = {}
        /\ pc'["resume"] # "portal" /\ pc'["identity"] \in {"idle", "begin"}
    <3>1. \/ UNCHANGED call
          \/ \E step \in {"bootstrap", "establish"} : Begins("direct", step)
          \/ Begins(s, "begin")
      BY <1>6 DEF ReadStep, EstablishManually, ReadUnproven, ReadExpired, ReadServed
    <3> QED
      BY <1>4, <1>5, <2>1, <3>1, Names DEF Begins
  <2>3. CASE EstablishManually(s)
    <3>1. /\ gate' = Cleared(gate, Reopened(s))
          /\ history'.tainted = history.tainted \ Reopened(s)
          /\ Reopened(s) \subseteq Targets
      BY <2>3 DEF EstablishManually, TypeOK, Histories, Reopened
    <3>2. GateOK'
      BY <1>1, <2>2, <3>1, GateClears
    <3>3. gate'["identity"] = gate["identity"]
      BY <1>1, <3>1, ClearedReturns
    <3> QED
      BY <2>1, <2>2, <3>1, <3>2, <3>3, TaintStays
  <2>4. CASE ReadUnproven(s) \/ ReadExpired(s)
    <3>1. UNCHANGED history /\ (gate' = gate \/ gate' = SealedIfPending(s))
      BY <2>4 DEF ReadUnproven, ReadExpired
    <3>2. \A t \in Services : gate'[t] = gate[t] \/ (t = s /\ gate'[t] = Sealed)
      BY <1>1, <2>1, <3>1, SealedReturns
    <3>3. GateOK'
      BY <1>1, <2>2, <3>1, <3>2, GateMoves
    <3> QED
      BY <1>1, <2>1, <2>2, <3>1, <3>2, <3>3, TaintStays
  <2>5. CASE ReadServed(s)
    <3>1. /\ gate' = Cleared(gate, Released(s))
          /\ history'.tainted = history.tainted \ Released(s)
      BY <2>5 DEF ReadServed, TypeOK, Histories
    <3>2. "identity" \notin Released(s)
      BY <2>1 DEF Released
    <3>3. GateOK'
      BY <1>1, <2>2, <3>1, GateClears
    <3>4. gate'["identity"] = gate["identity"]
      BY <1>1, <3>1, <3>2, ClearedReturns
    <3> QED
      BY <2>1, <2>2, <3>1, <3>3, <3>4, TaintStays
  <2> QED
    BY <1>6, <2>3, <2>4, <2>5 DEF ReadStep
<1>7. CASE ChildExpired \/ ReadIdentityLost
  <2>1. UNCHANGED <<identity, gate, resume, history>>
    BY <1>7 DEF ChildExpired, ReadIdentityLost, runtime
  <2>2. \E c \in Services : Begins(c, "begin")
    BY <1>1, <1>7, Names DEF ChildExpired, ReadIdentityLost
  <2>3. Running' = {} /\ pc'["resume"] # "portal" /\ pc'["identity"] \in {"idle", "begin"}
    BY <1>5, <2>2, Names DEF Begins
  <2> QED
    BY <2>1, <2>3, GateStays, TaintStays
<1>8. CASE Foreground
  <2>1. /\ gate' = GateReopened /\ UNCHANGED <<identity, history>>
        /\ \/ UNCHANGED call
           \/ Begins("identity", "begin")
           \/ \E step \in {"recover", "bootstrap"} : pc' = [pc EXCEPT !["resume"] = step]
        /\ resume'.at = ResumeReopened.at
    <3>1. ResumeReopened \in Resumes
      BY <1>1, ResumeReopenedReturns
    <3>2. [ResumeReopened EXCEPT !.attempt = "consumed"].at = ResumeReopened.at
      BY <3>1 DEF Resumes
    <3> QED
      BY <1>8, <3>2 DEF Foreground
  <2>2. Running' = {} /\ pc'["resume"] # "portal" /\ pc'["identity"] \in {"idle", "begin"}
    BY <1>1, <1>4, <1>5, <2>1, Names DEF Begins
  <2>3. \A s \in Services :
          gate'[s] = gate[s] \/ (gate'[s] = Open /\ (s \in Targets => s \notin history.tainted))
    BY <2>1, OpenedGates DEF Opened
  <2>4. GateOK'
    BY <1>1, <2>1, <2>2, <2>3, GateMoves
  <2>5. resume.at = "none" => resume'.at = "none" /\ gate'["identity"] = gate["identity"]
    BY <1>1, <2>1, ResumeReopenedReturns, GateReopenedReturns DEF LoginDue
  <2> QED
    BY <2>1, <2>2, <2>4, <2>5, TaintStays
<1>9. CASE ExplicitLogin \/ Logout
  <2>1. Forgotten /\ UNCHANGED call
    BY <1>9 DEF ExplicitLogin, Logout
  <2>2. gate' = Cleared(gate, Services) /\ history'.tainted = {}
    BY <2>1 DEF Forgotten
  <2>3. GateOK'
    BY <1>1, <1>4, <2>1, <2>2, GateClears
  <2> QED
    BY <2>2, <2>3 DEF TaintOK
<1>10. CASE CompletePrimary
  <2>1. UNCHANGED call
    BY <1>10 DEF CompletePrimary
  <2>2. CASE /\ gate' = CycleFinished(Cleared(gate, Paused))
             /\ history'.tainted = history.tainted \ (Paused \cup {"identity"})
    <3>1. Cleared(gate, Paused) \in [Services -> Gates]
      BY <1>1, ClearedReturns
    <3>2. \A s \in Services : gate'[s] = gate[s] \/ (gate'[s] = Open /\ s \notin Running')
      BY <1>1, <1>4, <2>1, <2>2, <3>1, ClearedReturns, CycleReturns
    <3>3. \A s \in Services : gate'[s] # gate[s] /\ s \in Targets => s \notin history'.tainted
      <4> SUFFICES ASSUME NEW s \in Targets, gate'[s] # gate[s], s \in history'.tainted
                   PROVE  FALSE
        OBVIOUS
      <4>1. s \in Services /\ s \notin Paused /\ s # "identity" /\ s \in history.tainted
        BY <1>1, <2>2, Names
      <4>2. Cleared(gate, Paused)[s] = gate[s]
        BY <1>1, <4>1, ClearedReturns
      <4>3. gate[s].result = "notice"
        BY <2>2, <3>1, <4>1, <4>2, CycleReturns
      <4> QED
        BY <4>1, <4>3 DEF GateOK, Shut
    <3>4. GateOK'
      BY <1>1, <1>4, <2>1, <2>2, <3>2, <3>3, GateMoves
    <3> QED
      BY <2>2, <3>4 DEF TaintOK
  <2>3. CASE identity'.state = "anonymous" /\ UNCHANGED <<gate, history>>
    BY <1>4, <2>1, <2>3, GateStays, TaintLost
  <2> QED
    BY <1>10, <2>2, <2>3 DEF CompletePrimary, TypeOK, Histories, Identities
<1>11. CASE CompletePortal
  <2>1. UNCHANGED <<identity, call>> /\ resume'.at = resume.at
    BY <1>1, <1>11 DEF CompletePortal, Resumes
  <2>2. CASE gate' = Cleared(gate, Paused) /\ history'.tainted = history.tainted \ Paused
    <3>1. GateOK'
      BY <1>1, <1>4, <2>1, <2>2, GateClears
    <3>2. "identity" \in history'.tainted => gate'["identity"] = gate["identity"]
      BY <1>1, <2>2, ClearedReturns
    <3> QED
      BY <1>4, <2>1, <2>2, <3>1, <3>2, TaintStays
  <2>3. CASE UNCHANGED <<gate, history>>
    BY <1>4, <2>1, <2>3, GateStays, TaintStays
  <2> QED
    BY <1>11, <2>2, <2>3 DEF CompletePortal, TypeOK, Histories
<1> QED
  BY <1>6, <1>7, <1>8, <1>9, <1>10, <1>11 DEF UserStep

LEMMA GateTime ==
  ASSUME TypeOK, StackOK, IdentityOK, GateOK, TaintOK, TypeOK',
         TimeStep \/ UNCHANGED vars
  PROVE  GateOK' /\ TaintOK'
<1>1. /\ gate \in [Services -> Gates] /\ gate' \in [Services -> Gates]
      /\ resume \in Resumes /\ identity \in Identities
      /\ {"identity", "resume"} \subseteq Callers /\ "identity" \in Services
      /\ history.tainted \subseteq Services /\ Running \subseteq Services
  BY Names DEF TypeOK, Histories, Running
<1>2. ASSUME NEW s \in Services, RetryFallsDue(s)
      PROVE  GateOK' /\ TaintOK'
  <2>1. /\ UNCHANGED <<identity, resume, pc, history>>
        /\ gate[s].retry = "ahead" /\ gate' = [gate EXCEPT ![s].retry = "due"]
    BY <1>2 DEF RetryFallsDue, call
  <2>2. Running' = Running /\ s \notin Running /\ s \notin history.tainted
        /\ gate[s].result # "none"
    BY <2>1 DEF Running, GateOK, NoBlindRetry
  <2>3. /\ \A t \in Services \ {s} : gate'[t] = gate[t]
        /\ gate'[s].result = gate[s].result
    <3>1. gate[s] \in Gates
      BY <1>1
    <3>2. gate'[s] = [gate[s] EXCEPT !.retry = "due"]
      BY <1>1, <2>1
    <3> QED
      BY <1>1, <2>1, <3>1, <3>2 DEF Gates
  <2>4. OneAttempt' /\ NoBlindRetry'
    BY <2>1, <2>2, <2>3 DEF GateOK, OneAttempt, NoBlindRetry
  <2>5. /\ gate'["identity"].result # "ok"
        /\ \A t \in Services : gate'[t].result = "none" => gate'[t].retry = "none"
    BY <1>1, <2>2, <2>3 DEF GateOK
  <2>6. /\ \A t \in Running' : gate'[t].retry = "none" /\ Shut(gate'[t])
        /\ \A t \in history'.tainted \cap Targets : Shut(gate'[t])
    BY <1>1, <2>1, <2>2, <2>3 DEF GateOK
  <2>7. GateOK'
    BY <2>4, <2>5, <2>6 DEF GateOK
  <2> QED
    BY <1>1, <2>1, <2>2, <2>3, <2>7, TaintStays
<1>3. CASE LoginFallsDue \/ PortalCools \/ UNCHANGED vars
  <2>1. UNCHANGED <<identity, gate, pc, history>> /\ (resume.at = "none" => UNCHANGED resume)
    BY <1>3 DEF LoginFallsDue, PortalCools, vars, runtime, call
  <2>2. Running' \subseteq Running
    BY <2>1 DEF Running
  <2> QED
    BY <2>1, <2>2, GateStays, TaintStays
<1>4. CASE SnapshotFallsDue
  <2>1. UNCHANGED <<gate, pc, history, resume>> /\ identity.deadline = "ahead"
        /\ identity' = [identity EXCEPT !.deadline = "due"]
    BY <1>4 DEF SnapshotFallsDue, call
  <2>2. /\ identity'.deadline = "due" /\ identity'.state = identity.state
        /\ identity'.login = identity.login /\ identity'.restored = identity.restored
    BY <1>1, <2>1 DEF Identities
  <2>3. Running' \subseteq Running
    BY <2>1 DEF Running
  <2>4. GateOK'
    BY <2>1, <2>3, GateStays
  <2>5. TaintOK'
    BY <2>1, <2>2 DEF TaintOK
  <2> QED
    BY <2>4, <2>5
<1>5. CASE Drop
  <2>1. /\ UNCHANGED <<identity, gate>> /\ Ends /\ resume'.at = resume.at
        /\ history'.tainted = history.tainted \cup Running
    BY <1>1, <1>5 DEF Drop, TypeOK, Histories, Resumes, Running
  <2>2. /\ Running' = {} /\ pc'["resume"] = "idle" /\ pc'["identity"] = "idle"
    BY <1>1, <2>1, EndsIdle
  <2>3. GateOK'
    BY <1>1, <2>1, <2>2 DEF GateOK, OneAttempt, NoBlindRetry
  <2>4. CASE "identity" \notin Running
    BY <2>1, <2>2, <2>3, <2>4, TaintStays
  <2>5. CASE "identity" \in Running
    <3>1. Shut(gate["identity"]) /\ resume.at = "none" /\ ~Live
      BY <2>5 DEF GateOK, IdentityOK, Running
    <3>2. ~identity.restored
      BY <2>5, Names DEF IdentityOK, Running
    <3>3. identity.state = "authenticated" => identity.deadline = "due"
      BY <3>1, <3>2 DEF Live, Current
    <3> QED
      BY <2>1, <2>2, <2>3, <3>1, <3>2, <3>3 DEF TaintOK
  <2> QED
    BY <2>4, <2>5
<1> QED
  BY <1>2, <1>3, <1>4, <1>5 DEF TimeStep

LEMMA GateNext ==
  ASSUME TypeOK, StackOK, IdentityOK, GateOK, TaintOK, TypeOK', StackOK', IdentityOK',
         [Next]_vars
  PROVE  GateOK' /\ TaintOK'
BY GateIdentity, GateLogin, GatePortal, GateRefresh, GateDirect, GateUser, GateTime
   DEF Next, CallStep

-----------------------------------------------------------------------------
(* The services handed off with no business read since.                    *)

\* The running call leaves t alone, or ends.
LEMMA WaitedStays ==
  ASSUME NEW t, Waited(t),
         pc'[t] = pc[t] \/ pc'[t] = "idle",
         pc'[t] = "begin" => UNCHANGED <<identity, proven>>,
         direct' \in {direct, "none"},
         t # "none",
         t \in awaiting => t \in awaiting',
         t \in proven => t \in proven',
         gate[t].result \in {"failed", "ok"} /\ gate[t].retry = "none" => gate'[t] = gate[t]
  PROVE  Waited(t)'
BY DEF Waited, Live, Proven, Current

\* No gate that a failure or a sealing closed was opened.
Closed(g) ==
  \A t \in Targets :
    gate[t].result \in {"failed", "ok"} /\ gate[t].retry = "none" => g[t] = gate[t]

LEMMA ClosedGates ==
  ASSUME TypeOK
  PROVE  /\ Closed(gate) /\ Closed(GateReopened) /\ Closed(CycleFinished(gate))
         /\ \A s \in Services : Closed(ProbeReopened(gate, s))
         /\ Closed(ProbeReopened(GateReopened, "identity"))
<1>1. gate \in [Services -> Gates] /\ "identity" \in Services /\ "identity" \notin Targets
      /\ Targets \subseteq Services
  BY Names DEF TypeOK
<1>2. GateReopened \in [Services -> Gates] /\ \A t \in Targets : GateReopened[t] = gate[t]
  BY <1>1, GateReopenedReturns
<1>3. Closed(gate) /\ Closed(GateReopened)
  BY <1>2 DEF Closed
<1>4. Closed(CycleFinished(gate))
  BY <1>1, CycleReturns DEF Closed
<1>5. \A s \in Services : Closed(ProbeReopened(gate, s))
  BY <1>1, ProbeReopenedReturns DEF Closed
<1>6. Closed(ProbeReopened(GateReopened, "identity"))
  BY <1>1, <1>2, ProbeReopenedReturns DEF Closed
<1> QED
  BY <1>3, <1>4, <1>5, <1>6

\* A call that fails: who it waited for is waited for still.
LEMMA SpentFails ==
  ASSUME TypeOK, StackOK, SpentOK, NEW g, Closed(g), NEW p, NEW why, NEW kept,
         Failed(g, p, why, kept),
         \A t \in (Targets \cap history.spent) \ {"info"} :
           (t \in awaiting => t \in awaiting') /\ (t \in proven => t \in proven'),
         history.spent # {} => identity'.state \in {"authenticated", "expired"}
  PROVE  SpentOK'
<1>1. /\ \A c \in Callers : pc'[c] = "idle"
      /\ direct' = "none" /\ history'.spent = history.spent
  BY EndsIdle DEF Failed
<1> SUFFICES ASSUME NEW t \in (Targets \cap history.spent) \ {"info"}
             PROVE  Waited(t)'
  BY <1>1 DEF SpentOK
<1>2. Waited(t) /\ pc'[t] = "idle" /\ t # "none" /\ t \in Services
  BY <1>1, Names DEF SpentOK
<1>3. CASE t \in awaiting /\ t \in proven
  BY <1>1, <1>2, <1>3 DEF Waited
<1>4. CASE ~(t \in awaiting /\ t \in proven)
  <2>1. /\ gate[t].result \in {"failed", "ok"} /\ gate[t].retry = "none"
        /\ t \notin Running
    BY <1>2, <1>4 DEF Waited, Running
  <2>2. gate'[t] = gate[t]
    BY <1>2, <2>1 DEF Failed, Closed
  <2> QED
    BY <1>1, <1>2, <1>4, <2>2 DEF Waited
<1> QED
  BY <1>3, <1>4

\* The frame c moves, which is not one of a service that is waited for.
LEMMA SpentMoves ==
  ASSUME TypeOK, StackOK, StackOK', SpentOK, NEW c \in Callers,
         Active(c) \/ \A d \in Callers : pc'[d] # "begin",
         c \in history.spent \ {"info"} => pc[c] \notin {"idle", "begin", "identity"},
         \A d \in Callers : d # c => pc'[d] \in {pc[d], "idle"},
         direct' \in {direct, "none"}, history'.spent = history.spent, UNCHANGED <<proven, awaiting>>,
         Closed(gate'), history.spent # {} => identity'.state \in {"authenticated", "expired"}
  PROVE  SpentOK'
<1> SUFFICES ASSUME NEW t \in (Targets \cap history.spent) \ {"info"}
             PROVE  Waited(t)'
  BY DEF SpentOK
<1>1. Waited(t) /\ t # "none" /\ t \in Callers
  BY Names DEF SpentOK
<1>2. t # c
  BY <1>1 DEF Waited
<1>3. pc'[t] \in {pc[t], "idle"}
  BY <1>1, <1>2
<1>4. pc'[t] # "begin"
  BY <1>1, <1>2, <1>3 DEF StackOK, Active
<1> QED
  BY <1>1, <1>3, <1>4, WaitedStays DEF Closed

LEMMA SpentEmpty ==
  ASSUME history'.spent = {}
  PROVE  SpentOK'
BY DEF SpentOK

LEMMA SpentIdentity ==
  ASSUME TypeOK, StackOK, IdentityOK, SpentOK, TypeOK', StackOK', IdentityStep
  PROVE  SpentOK'
<1>1. /\ gate \in [Services -> Gates] /\ "identity" \in Callers /\ "identity" \in Services
      /\ "identity" \notin Targets /\ history.spent \subseteq Targets
      /\ Targets \subseteq Services
  BY Names DEF TypeOK, Histories
<1>2. ASSUME NEW g, NEW p, NEW why, NEW kept, Fails(g, p, why, kept), Closed(g),
             UNCHANGED <<awaiting, proven>>, identity' = identity \/ identity'.state = "authenticated"
      PROVE  SpentOK'
  BY <1>2, FailsIsFailed, SpentFails DEF SpentOK
<1>3. ASSUME Active("identity"), NEW step, Goes("identity", step), Closed(gate'),
             UNCHANGED <<identity, awaiting, proven, direct, history>>
      PROVE  SpentOK'
  <2>1. \A d \in Callers : d # "identity" => pc'[d] = pc[d]
    BY <1>1, <1>3, GoesTo
  <2> QED
    BY <1>1, <1>3, <2>1, SpentMoves DEF SpentOK
<1>4. CASE EnterIdentity
  <2> DEFINE g == ProbeReopened(GateReopened, "identity")
  <2>1. Closed(g) /\ Closed(GateReopened) /\ g \in [Services -> Gates]
    <3>1. GateReopened \in [Services -> Gates]
      BY <1>1, GateReopenedReturns
    <3> QED
      BY <1>1, <3>1, ClosedGates, ProbeReopenedReturns
  <2>2. /\ UNCHANGED <<identity, awaiting, proven>> /\ pc["identity"] = "begin"
        /\ \/ \E h, p, why : h \in {g, GateReopened} /\ Fails(h, p, why, clean)
           \/ /\ gate' = [g EXCEPT !["identity"].attempted = TRUE]
              /\ Goes("identity", "inner")
              /\ UNCHANGED <<direct, history>>
    BY <1>4 DEF EnterIdentity
  <2> HIDE DEF g
  <2>3. CASE \E h, p, why : h \in {g, GateReopened} /\ Fails(h, p, why, clean)
    BY <1>2, <2>1, <2>2, <2>3
  <2>4. CASE /\ gate' = [g EXCEPT !["identity"].attempted = TRUE]
             /\ Goes("identity", "inner")
             /\ UNCHANGED <<direct, history>>
    <3>1. Active("identity")
      BY <2>2 DEF Active
    <3>2. Closed(gate')
      BY <1>1, <2>1, <2>4, AttemptedReturns DEF Closed
    <3> QED
      BY <1>3, <2>2, <2>4, <3>1, <3>2
  <2> QED
    BY <2>2, <2>3, <2>4
<1>5. CASE IdentityInner \/ ProbeFails \/ ProbeNeedsLogin
  <2>1. /\ UNCHANGED <<identity, awaiting, proven>> /\ Active("identity")
        /\ \/ \E p, why, kept : Fails(gate, p, why, kept)
           \/ /\ \E step : Goes("identity", step)
              /\ UNCHANGED <<gate, direct, history>>
    BY <1>5 DEF IdentityInner, ProbeFails, ProbeNeedsLogin, Active
  <2> QED
    BY <1>2, <1>3, <2>1, ClosedGates DEF Closed
<1>6. CASE CookiesProve
  <2>1. /\ UNCHANGED <<awaiting, proven>> /\ identity'.state = "authenticated"
        /\ \/ \E p, kept : Fails(CycleFinished(gate), p, "failed", kept)
           \/ history'.spent = {}
    BY <1>6 DEF CookiesProve, TypeOK, Identities, Histories
  <2> QED
    BY <1>2, <2>1, SpentEmpty, ClosedGates
<1> QED
  BY <1>4, <1>5, <1>6 DEF IdentityStep

LEMMA SpentNotRecovered ==
  ASSUME TypeOK, StackOK, StackOK', IdentityOK, SpentOK,
         NEW c \in {"identity", "resume"}, pc[c] = "recover", NEW r, NEW k,
         NotRecovered(c, identity, r, k), UNCHANGED <<awaiting, proven>>
  PROVE  SpentOK'
<1>1. /\ history.spent # {} => identity.state \in {"authenticated", "expired"}
      /\ history.spent \subseteq Targets
  BY DEF SpentOK, TypeOK, Histories
<1>2. identity' = identity \/ identity' = RequireLogin(identity)
  BY DEF NotRecovered
<1>3. history.spent # {} => identity'.state \in {"authenticated", "expired"}
  BY <1>1, <1>2, RequireLoginReturns DEF TypeOK
<1>4. CASE c = "identity"
  <2>1. \E p, why : Fails(gate, p, why, k)
    BY <1>4, Names DEF NotRecovered
  <2> QED
    BY <1>3, <2>1, FailsIsFailed, SpentFails, ClosedGates
<1>5. CASE c = "resume"
  <2>1. Ends /\ UNCHANGED <<gate, history>>
    BY <1>5 DEF NotRecovered
  <2>2. direct' = "none" /\ \A d \in Callers : pc'[d] = "idle"
    BY <2>1, EndsIdle
  <2>3. Closed(gate')
    BY <2>1 DEF Closed
  <2>4. c \in Callers /\ c \notin history.spent
    BY <1>1, <1>5, Names
  <2> QED
    BY <1>3, <2>1, <2>2, <2>3, <2>4, SpentMoves
<1> QED
  BY <1>4, <1>5

LEMMA SpentLogin ==
  ASSUME TypeOK, StackOK, StackOK', IdentityOK, SpentOK, TypeOK',
         NEW c \in {"identity", "resume"}, LoginStep(c)
  PROVE  SpentOK'
<1>1. c \in Callers
  BY Names
<1>2. CASE RecoveryRefused(c) \/ RecoveryVaultBusy(c) \/ RecoveryNoRecord(c)
  <2>1. pc[c] = "recover" /\ UNCHANGED <<awaiting, proven>>
    BY <1>2 DEF RecoveryRefused, RecoveryVaultBusy, RecoveryNoRecord, Recovering
  <2>2. \E r, k : NotRecovered(c, identity, r, k)
    BY <1>2 DEF RecoveryRefused, RecoveryVaultBusy, RecoveryNoRecord
  <2> QED
    BY <2>1, <2>2, SpentNotRecovered
<1>3. CASE RecoveryLogin(c)
  BY <1>3, SpentEmpty DEF RecoveryLogin, TypeOK, Histories
<1>4. CASE \/ EntryUnavailable(c) \/ EntryRefused(c) \/ EntryRead(c)
           \/ PostUnanswered(c) \/ PostRejected(c) \/ PostChallenged(c) \/ PostProves(c)
  <2>1. pc[c] \in {"discover", "submit"} /\ history'.spent = history.spent
    BY <1>4 DEF EntryUnavailable, EntryRefused, EntryRead, PostUnanswered, PostRejected,
                PostChallenged, PostProves, LoginFails, Fails, TypeOK, Histories
  <2>2. history.spent = {}
    BY <1>1, <2>1 DEF IdentityOK
  <2> QED
    BY <2>1, <2>2, SpentEmpty
<1> QED
  BY <1>2, <1>3, <1>4 DEF LoginStep

LEMMA SpentPortal ==
  ASSUME TypeOK, StackOK, StackOK', IdentityOK, SpentOK, TypeOK',
         NEW c \in Targets \cup {"resume", "direct"}, PortalStep(c)
  PROVE  SpentOK'
<1>1. c \in Callers /\ c # "identity" /\ identity \in Identities
  BY Names DEF TypeOK
<1>2. /\ UNCHANGED <<awaiting, proven>> /\ pc[c] \in {"bootstrap", "portal"}
      /\ \/ identity' = identity \/ identity' = RequireLogin(identity)
         \/ identity' = [identity EXCEPT !.restored = FALSE]
  BY DEF PortalStep, Bootstrap, PortalProves, PortalUnanswered, PortalVaultBusy,
         PortalNeedsLogin, PortalPostUnanswered, PortalPostRejected, PortalPauses, Asked
<1>3. history.spent # {} => identity'.state \in {"authenticated", "expired"}
  <2>1. history.spent # {} => identity.state \in {"authenticated", "expired"}
    BY DEF SpentOK
  <2>2. CASE identity' = identity
    BY <2>1, <2>2
  <2>3. CASE identity' = RequireLogin(identity)
    BY <1>1, <2>1, <2>3, RequireLoginReturns
  <2>4. CASE identity' = [identity EXCEPT !.restored = FALSE]
    BY <1>1, <2>1, <2>4 DEF Identities
  <2> QED
    BY <1>2, <2>2, <2>3, <2>4
<1>4. \/ \E r, p, why, kept : PortalFails(c, r, p, why, kept)
      \/ \E p, r : PortalDone(c, p, r) /\ UNCHANGED <<direct, history>>
      \/ Goes(c, "portal") /\ UNCHANGED <<gate, direct, history>>
  <2>1. CASE Bootstrap(c)
    BY <2>1 DEF Bootstrap
  <2>2. CASE PortalProves(c)
    BY <2>2 DEF PortalProves
  <2>3. CASE PortalUnanswered(c) \/ PortalVaultBusy(c)
    BY <2>3 DEF PortalUnanswered, PortalVaultBusy
  <2>4. CASE PortalNeedsLogin(c)
    BY <2>4 DEF PortalNeedsLogin
  <2>5. CASE PortalPostUnanswered(c) \/ PortalPostRejected(c)
    BY <2>5 DEF PortalPostUnanswered, PortalPostRejected
  <2>6. CASE PortalPauses(c)
    BY <2>6 DEF PortalPauses
  <2> QED
    BY <2>1, <2>2, <2>3, <2>4, <2>5, <2>6 DEF PortalStep
<1>5. ASSUME NEW step, Goes(c, step), UNCHANGED <<direct, history>>, Closed(gate')
      PROVE  SpentOK'
  <2>1. \A d \in Callers : d # c => pc'[d] = pc[d]
    BY <1>1, <1>5, GoesTo
  <2>2. Active(c)
    BY <1>2 DEF Active
  <2> QED
    BY <1>1, <1>2, <1>3, <1>5, <2>1, <2>2, SpentMoves
<1>6. CASE \E r, p, why, kept : PortalFails(c, r, p, why, kept)
  <2>1. CASE c = "resume"
    <3>1. UNCHANGED <<gate, direct, history>> /\ \E step : Goes(c, step)
      BY <1>6, <2>1 DEF PortalFails
    <3> QED
      BY <1>5, <3>1, ClosedGates DEF Closed
  <2>2. CASE c # "resume"
    <3>1. \E p, why, kept : Fails(gate, p, why, kept)
      BY <1>6, <2>2 DEF PortalFails
    <3> QED
      BY <1>2, <1>3, <3>1, FailsIsFailed, SpentFails, ClosedGates
  <2> QED
    BY <2>1, <2>2
<1>7. CASE \E p, r : PortalDone(c, p, r) /\ UNCHANGED <<direct, history>>
  <2>1. Goes(c, AfterPortal(c)) /\ (gate' = gate \/ gate' = CycleFinished(gate))
    BY <1>7 DEF PortalDone
  <2> QED
    BY <1>5, <1>7, <2>1, ClosedGates
<1>8. CASE Goes(c, "portal") /\ UNCHANGED <<gate, direct, history>>
  BY <1>5, <1>8, ClosedGates DEF Closed
<1> QED
  BY <1>4, <1>6, <1>7, <1>8

LEMMA SpentEnters ==
  ASSUME TypeOK, StackOK, IdentityOK, SpentOK, TypeOK', NEW s \in Targets, EnterRefresh(s)
  PROVE  SpentOK'
<1> DEFINE g == ProbeReopened(gate, s)
<1>1. /\ gate \in [Services -> Gates] /\ s \in Callers /\ s \in Services
      /\ s \notin {"identity", "resume", "direct", "none"}
      /\ Targets \subseteq Callers /\ Targets \subseteq Services
      /\ {"identity", "none"} \cap Targets = {} /\ history.spent \subseteq Targets
  BY Names DEF TypeOK, Histories
<1>2. Closed(g) /\ g \in [Services -> Gates] /\ \A t \in Services \ {s} : g[t] = gate[t]
  BY <1>1, ClosedGates, ProbeReopenedReturns
<1>3. /\ UNCHANGED <<identity, proven, awaiting>> /\ pc[s] = "begin"
      /\ history.spent # {} => identity'.state \in {"authenticated", "expired"}
  BY DEF EnterRefresh, SpentOK
<1>4. \/ /\ g[s].result = "ok" /\ Proven(s) /\ gate' = Cleared(g, {s}) /\ Ends
         /\ UNCHANGED history
      \/ \E p, why : Fails(g, p, why, clean)
      \/ /\ g[s].result = "none" /\ gate' = [g EXCEPT ![s].attempted = TRUE]
         /\ UNCHANGED <<direct, history>>
         /\ IF Live THEN Goes(s, "prepare")
            ELSE pc' = [pc EXCEPT ![s] = "identity", !["identity"] = "begin"]
  BY DEF EnterRefresh
<1> HIDE DEF g
<1>5. ASSUME NEW t \in (Targets \cap history.spent) \ {"info"}
      PROVE  Waited(t) /\ t \in Callers /\ t # "none"
             /\ (t # s => pc[t] # "begin" /\ pc[t] \in {"idle", "identity"})
  <2>1. Waited(t)
    BY DEF SpentOK
  <2> QED
    BY <1>1, <1>3, <2>1 DEF StackOK, Active, Waited
<1>6. CASE /\ g[s].result = "ok" /\ Proven(s) /\ gate' = Cleared(g, {s}) /\ Ends
           /\ UNCHANGED history
  <2> SUFFICES ASSUME NEW t \in (Targets \cap history.spent) \ {"info"}
               PROVE  Waited(t)'
    BY <1>3, <1>6 DEF SpentOK
  <2>1. direct' = "none" /\ pc'[t] = "idle"
    BY <1>5, <1>6, EndsIdle
  <2>2. CASE t = s
    <3>1. Waited(s) /\ g[s].result = "ok" /\ Proven(s)
          /\ (gate[s].result \in {"failed", "ok"} /\ gate[s].retry = "none" => g[s] = gate[s])
      BY <1>2, <1>5, <1>6, <2>2 DEF Closed
    <3>2. s \in awaiting /\ s \in proven
      BY <1>3, <3>1 DEF Waited
    <3> QED
      BY <1>3, <2>1, <2>2, <3>2, <1>1 DEF Waited
  <2>3. CASE t # s
    <3>1. gate'[t] = gate[t]
      BY <1>1, <1>2, <1>6, <2>3, ClearedReturns
    <3> QED
      BY <1>3, <1>5, <2>1, <3>1, WaitedStays
  <2> QED
    BY <2>2, <2>3
<1>7. CASE \E p, why : Fails(g, p, why, clean)
  BY <1>2, <1>3, <1>7, FailsIsFailed, SpentFails
<1>8. CASE /\ g[s].result = "none" /\ gate' = [g EXCEPT ![s].attempted = TRUE]
           /\ UNCHANGED <<direct, history>>
           /\ IF Live THEN Goes(s, "prepare")
              ELSE pc' = [pc EXCEPT ![s] = "identity", !["identity"] = "begin"]
  <2> SUFFICES ASSUME NEW t \in (Targets \cap history.spent) \ {"info"}
               PROVE  Waited(t)'
    BY <1>3, <1>8 DEF SpentOK
  <2>1. CASE t = s
    <3>1. /\ Waited(s) /\ g[s].result = "none"
          /\ gate[s].result \in {"failed", "ok"} /\ gate[s].retry = "none" => g[s] = gate[s]
      BY <1>2, <1>5, <1>8, <2>1 DEF Closed
    <3>2. s \in awaiting /\ s \in proven /\ ~Live
      BY <1>3, <3>1 DEF Waited
    <3>3. pc'[s] = "identity"
      BY <1>1, <1>8, <3>2 DEF TypeOK
    <3> QED
      BY <1>3, <1>8, <2>1, <3>1, <3>2, <3>3 DEF Waited
  <2>2. CASE t # s
    <3>1. gate'[t] = gate[t]
      BY <1>1, <1>2, <1>8, <2>2, AttemptedReturns
    <3>2. pc'[t] = pc[t]
      BY <1>1, <1>5, <1>8, <2>2 DEF Goes, TypeOK
    <3> QED
      BY <1>3, <1>5, <1>8, <2>2, <3>1, <3>2, WaitedStays
  <2> QED
    BY <2>1, <2>2
<1> QED
  BY <1>4, <1>6, <1>7, <1>8

LEMMA SpentEstablished ==
  ASSUME TypeOK, StackOK, IdentityOK, GateOK, SpentOK, TypeOK', NEW s \in Targets,
         Established(s) \/ EstablishFails(s)
  PROVE  SpentOK'
<1>1. /\ gate \in [Services -> Gates] /\ s \in Callers /\ s \in Services
      /\ s \notin {"identity", "resume", "direct", "none"}
      /\ Targets \subseteq Callers /\ Targets \subseteq Services
      /\ {"identity", "direct", "none"} \cap Targets = {} /\ history.spent \subseteq Targets
  BY Names DEF TypeOK, Histories
<1>2. /\ pc[s] = "establish" /\ UNCHANGED identity /\ proven' \in {proven \cup {s}, proven \ {s}}
      /\ awaiting \subseteq awaiting'
  BY DEF Established, EstablishFails
<1>3. identity'.state = "authenticated"
  BY <1>1, <1>2 DEF IdentityOK
<1>4. ASSUME NEW t \in (Targets \cap history.spent) \ {"info"}
      PROVE  /\ Waited(t) /\ t # s /\ t \in Callers /\ t # "none"
             /\ pc[t] \in {"idle", "identity"}
             /\ (t \in awaiting => t \in awaiting') /\ (t \in proven => t \in proven')
  <2>1. Waited(t)
    BY DEF SpentOK
  <2>2. t # s
    BY <1>2, <2>1 DEF Waited
  <2> QED
    BY <1>1, <1>2, <2>1, <2>2 DEF StackOK, Active, Waited
<1>5. CASE \E dirty \in BOOLEAN : Fails(gate, portal, "failed", Kept(dirty))
  BY <1>3, <1>4, <1>5, FailsIsFailed, SpentFails, ClosedGates
<1>6. CASE /\ Established(s)
           /\ \/ Current /\ gate' = Cleared(gate, {s}) /\ awaiting' = awaiting \cup {s}
              \/ ~Current /\ gate' = [gate EXCEPT ![s] = Recorded(@, "ok", FALSE)]
           /\ Returns(s) /\ root' = root \ {s}
           /\ direct' = IF direct = s THEN "none" ELSE direct
           /\ history' = [history EXCEPT !.spent = @ \cup {s}, !.tainted = @ \ {s}]
  <2>1. \A c \in Callers :
          pc'[c] = IF c = s \/ (c = "direct" /\ pc[c] = "nested" /\ direct = s) THEN "idle"
                   ELSE IF pc[c] = "nested" /\ HasParent(c) /\ ParentOf[c] = s
                   THEN "establish" ELSE pc[c]
    BY <1>2, <1>6, StackReturns
  <2>2. history'.spent = history.spent \cup {s}
    BY <1>6 DEF TypeOK, Histories
  <2>3. ASSUME NEW t \in (Targets \cap history.spent) \ {"info"}
        PROVE  Waited(t)'
    <3>1. pc'[t] = pc[t] /\ pc'[t] # "begin"
      BY <1>4, <2>1, <1>1
    <3>2. gate'[t] = gate[t]
      <4>1. CASE gate' = Cleared(gate, {s})
        BY <1>1, <1>4, <4>1, ClearedReturns
      <4>2. CASE gate' = [gate EXCEPT ![s] = Recorded(@, "ok", FALSE)]
        BY <1>1, <1>4, <4>2
      <4> QED
        BY <1>6, <4>1, <4>2
    <3> QED
      BY <1>4, <1>6, <3>1, <3>2, WaitedStays
  <2>4. s # "info" => Waited(s)'
    <3> SUFFICES ASSUME s # "info" PROVE Waited(s)'
      OBVIOUS
    <3>1. pc'[s] = "idle"
      BY <1>1, <2>1
    <3>2. direct' # s /\ (direct' # "none" /\ HasParent(direct') => ParentOf[direct'] # s)
      <4>1. direct' # s
        BY <1>1, <1>6
      <4>2. direct' # "none" => direct' = direct /\ pc["direct"] = "nested" /\ direct = "library"
        <5>1. direct' # "none" => direct' = direct /\ direct # "none"
          BY <1>6
        <5>2. direct # "none" => pc["direct"] \notin {"idle", "bootstrap", "portal", "establish"}
          BY <1>1, <1>2, Names DEF StackOK, Active
        <5> QED
          BY <5>1, <5>2 DEF StackOK
      <4>3. ParentOf["library"] = "info"
        BY DEF ParentOf
      <4> QED
        BY <4>1, <4>2, <4>3
    <3>3. \/ s \in awaiting' /\ s \in proven'
          \/ gate'[s].result = "ok" /\ gate'[s].retry = "none"
      <4>1. CASE Current /\ awaiting' = awaiting \cup {s}
        BY <1>6, <4>1 DEF Established
      <4>2. CASE gate' = [gate EXCEPT ![s] = Recorded(@, "ok", FALSE)]
        <5>1. gate'[s] = Recorded(gate[s], "ok", FALSE) /\ gate[s] \in Gates
          BY <1>1, <4>2
        <5>2. gate[s].retry = "none"
          BY <1>1, <1>2 DEF GateOK, Running
        <5> QED
          BY <5>1, <5>2 DEF Recorded, Gates
      <4> QED
        BY <1>6, <4>1, <4>2
    <3> QED
      BY <3>1, <3>2, <3>3 DEF Waited
  <2> QED
    BY <1>3, <2>2, <2>3, <2>4 DEF SpentOK
<1> QED
  BY <1>5, <1>6 DEF Established, EstablishFails

LEMMA SpentRefresh ==
  ASSUME TypeOK, StackOK, StackOK', IdentityOK, GateOK, SpentOK, TypeOK', NEW s \in Targets,
         RefreshStep(s)
  PROVE  SpentOK'
<1>1. /\ gate \in [Services -> Gates] /\ s \in Callers /\ s \in Services
      /\ s \notin {"identity", "resume", "direct", "none"}
      /\ Targets \subseteq Callers /\ Targets \subseteq Services
      /\ {"identity", "none"} \cap Targets = {}
  BY Names DEF TypeOK
<1>2. CASE Prepare(s) \/ Parent(s)
  <2>1. /\ UNCHANGED <<identity, direct, history>> /\ Active(s)
        /\ pc[s] \in {"prepare", "parent"}
        /\ \/ UNCHANGED gate
           \/ gate' = SealedIfPending(s)
        /\ proven \ {s} \subseteq proven' /\ awaiting \ {s} \subseteq awaiting'
    BY <1>2 DEF Prepare, Parent, Active, runtime
  <2>2. \A t \in Services : t # s => gate'[t] = gate[t]
    BY <1>1, <2>1, SealedReturns
  <2>3. \/ \E step \in {"parent", "bootstrap", "establish"} : Goes(s, step)
        \/ /\ pc' = [pc EXCEPT ![s] = "nested", ![ParentOf[s]] = "begin"]
           /\ ~Proven(ParentOf[s]) /\ pc[s] = "parent" /\ UNCHANGED proven
    BY <1>2 DEF Prepare, Parent, runtime
  <2> SUFFICES ASSUME NEW t \in (Targets \cap history.spent) \ {"info"}
               PROVE  Waited(t)'
    BY <2>1 DEF SpentOK
  <2>4. Waited(t)
    BY DEF SpentOK
  <2>5. /\ t # s /\ t # "none" /\ t \in Callers /\ gate'[t] = gate[t]
        /\ (t \in awaiting => t \in awaiting') /\ (t \in proven => t \in proven')
        /\ pc[t] # "begin"
    BY <1>1, <2>1, <2>2, <2>4 DEF Waited, StackOK, Active
  <2>6. CASE \E step \in {"parent", "bootstrap", "establish"} : Goes(s, step)
    <3>1. pc'[t] = pc[t]
      BY <1>1, <2>5, <2>6, GoesTo
    <3> QED
      BY <2>1, <2>4, <2>5, <3>1, WaitedStays
  <2>7. CASE /\ pc' = [pc EXCEPT ![s] = "nested", ![ParentOf[s]] = "begin"]
             /\ ~Proven(ParentOf[s]) /\ pc[s] = "parent" /\ UNCHANGED proven
    <3>1. CASE t # ParentOf[s]
      <4>1. pc'[t] = pc[t]
        BY <2>5, <2>7, <3>1 DEF TypeOK
      <4> QED
        BY <2>1, <2>4, <2>5, <4>1, WaitedStays
    <3>2. CASE t = ParentOf[s]
      <4>1. pc'[t] = "begin"
        BY <2>5, <2>7, <3>2 DEF TypeOK
      <4>2. t \in proven => ~Live
        BY <2>7, <3>2 DEF Proven, Live
      <4>3. ~Proven(t)' /\ (Live' = Live)
        BY <2>1, <2>7, <3>2 DEF Proven, Live, Current
      <4> QED
        BY <2>1, <2>4, <2>5, <4>1, <4>2, <4>3 DEF Waited
    <3> QED
      BY <3>1, <3>2
  <2> QED
    BY <2>3, <2>6, <2>7
<1> QED
  BY <1>2, SpentEnters, SpentEstablished DEF RefreshStep

LEMMA SpentDirect ==
  ASSUME TypeOK, StackOK, SpentOK, DirectLibrary \/ DirectEstablish
  PROVE  SpentOK'
<1>1. /\ UNCHANGED <<identity, gate, awaiting, history>> /\ pc["direct"] = "establish"
      /\ Targets \subseteq Callers /\ {"direct", "none"} \cap Targets = {}
  BY Names DEF DirectLibrary, DirectEstablish, runtime
<1> SUFFICES ASSUME NEW t \in (Targets \cap history.spent) \ {"info"}
             PROVE  Waited(t)'
  BY <1>1 DEF SpentOK
<1>2. /\ Waited(t) /\ direct # t /\ (direct # "none" /\ HasParent(direct) => ParentOf[direct] # t)
      /\ direct # "none" /\ t \in Callers /\ t # "none"
  BY <1>1, Names DEF SpentOK, Waited, StackOK
<1>3. CASE DirectLibrary
  <2>1. pc'[t] = pc[t]
    BY <1>1, <1>2, <1>3 DEF DirectLibrary, TypeOK
  <2> QED
    BY <1>1, <1>2, <1>3, <2>1, WaitedStays DEF DirectLibrary, runtime
<1>4. CASE DirectEstablish
  <2>1. t \in proven => t \in proven'
    BY <1>2, <1>4 DEF DirectEstablish
  <2>2. pc'[t] = "idle" /\ direct' = "none"
    BY <1>2, <1>4, EndsIdle DEF DirectEstablish
  <2> QED
    BY <1>1, <1>2, <2>1, <2>2, WaitedStays
<1> QED
  BY <1>3, <1>4

\* The services of S are let go, the others wait as they did.
LEMMA SpentLetsGo ==
  ASSUME TypeOK, StackOK, SpentOK, Idle, NEW S, gate' = Cleared(gate, S),
         awaiting' = awaiting \ S, history'.spent = history.spent \ S,
         UNCHANGED <<identity, proven>>,
         UNCHANGED call \/
           \E s \in S \cap Targets, step \in {"bootstrap", "establish"} :
             /\ direct' = s /\ pc' = [pc EXCEPT !["direct"] = step]
             /\ HasParent(s) => ParentOf[s] \in S \cup {"info"}
  PROVE  SpentOK'
<1>1. /\ gate \in [Services -> Gates] /\ Targets \subseteq Services
      /\ Targets \subseteq Callers /\ {"direct", "none"} \cap Targets = {}
  BY Names DEF TypeOK
<1> SUFFICES ASSUME NEW t \in (Targets \cap history.spent) \ {"info"}, t \notin S
             PROVE  Waited(t)'
  BY DEF SpentOK
<1>2. Waited(t) /\ gate'[t] = gate[t] /\ t # "none"
  BY <1>1, ClearedReturns DEF SpentOK
<1>3. pc[t] = "idle" /\ direct = "none"
  BY <1>1, IdleStack
<1>4. pc'[t] = "idle"
  BY <1>1, <1>3 DEF call, TypeOK
<1>5. CASE UNCHANGED call
  BY <1>2, <1>3, <1>4, <1>5 DEF call, Waited
<1>6. CASE \E s \in S \cap Targets, step \in {"bootstrap", "establish"} :
             /\ direct' = s /\ pc' = [pc EXCEPT !["direct"] = step]
             /\ HasParent(s) => ParentOf[s] \in S \cup {"info"}
  BY <1>2, <1>3, <1>4, <1>6 DEF Waited
<1> QED
  BY <1>5, <1>6

LEMMA SpentRead ==
  ASSUME TypeOK, StackOK, SpentOK, TypeOK', NEW s \in Targets,
         ReadUnproven(s) \/ ReadExpired(s)
  PROVE  SpentOK'
<1>1. /\ gate \in [Services -> Gates] /\ Targets \subseteq Services /\ s \in Callers
      /\ Targets \subseteq Callers /\ "none" \notin Targets
  BY Names DEF TypeOK
<1>2. /\ Idle /\ Live /\ UNCHANGED <<identity, direct, history>> /\ Begins(s, "begin")
      /\ \/ UNCHANGED <<gate, awaiting>>
         \/ gate' = SealedIfPending(s) /\ awaiting' = awaiting \ {s}
      /\ proven' \in {proven, proven \ {s}}
      /\ ~Proven(s)'
      /\ s \in awaiting /\ s \in proven => gate' = SealedIfPending(s)
  BY DEF ReadUnproven, ReadExpired, Live, Proven, Current
<1> SUFFICES ASSUME NEW t \in (Targets \cap history.spent) \ {"info"}
             PROVE  Waited(t)'
  BY <1>2 DEF SpentOK
<1>3. Waited(t) /\ direct' = "none" /\ t # "none" /\ t \in Callers /\ t \in Services
  BY <1>1, <1>2, IdleStack DEF SpentOK
<1>4. \A c \in Callers : pc'[c] = IF c = s THEN "begin" ELSE "idle"
  BY <1>1, <1>2, IdleStack DEF Begins, TypeOK
<1>5. CASE t # s
  <2>1. gate'[t] = gate[t]
    BY <1>1, <1>2, <1>3, <1>5, SealedReturns
  <2> QED
    BY <1>2, <1>3, <1>4, <1>5, <2>1, WaitedStays
<1>6. CASE t = s
  <2>1. CASE gate'[s] = Sealed
    BY <1>3, <1>4, <1>6, <2>1 DEF Waited, Sealed
  <2>2. CASE gate'[s] # Sealed
    <3>1. gate'[s] = gate[s] /\ ~(s \in awaiting /\ s \in proven)
      BY <1>1, <1>2, <2>2, SealedReturns
    <3> QED
      BY <1>2, <1>3, <1>4, <1>6, <3>1 DEF Waited
  <2> QED
    BY <2>1, <2>2
<1> QED
  BY <1>5, <1>6

LEMMA SpentUser ==
  ASSUME TypeOK, StackOK, StackOK', SpentOK, TypeOK', UserStep
  PROVE  SpentOK'
<1>1. /\ gate \in [Services -> Gates] /\ Targets \subseteq Services
      /\ Targets \subseteq Callers /\ {"identity", "resume", "direct", "none"} \cap Targets = {}
      /\ {"identity", "resume"} \subseteq Callers /\ history.spent \subseteq Targets
      /\ history \in Histories
      /\ history.spent # {} => identity.state \in {"authenticated", "expired"}
  BY Names DEF TypeOK, Histories, SpentOK
<1>2. Idle
  BY DEF UserStep, ReadStep, EstablishManually, ReadUnproven, ReadExpired, ReadServed,
         ChildExpired, Foreground, ReadIdentityLost, ExplicitLogin, Logout, CompletePrimary,
         CompletePortal
<1>3. \A c \in Callers : pc[c] = "idle"
  BY <1>2, IdleStack
<1>4. ASSUME NEW s \in Targets, ReadStep(s)
      PROVE  SpentOK'
  <2>1. CASE EstablishManually(s)
    <3>1. /\ gate' = Cleared(gate, Reopened(s)) /\ awaiting' = awaiting \ Reopened(s)
          /\ history'.spent = history.spent \ Reopened(s)
          /\ UNCHANGED <<identity, proven>>
      BY <1>1, <2>1 DEF EstablishManually, Histories
    <3>2. s \in Reopened(s) \cap Targets
          /\ (HasParent(s) => ParentOf[s] \in Reopened(s) \cup {"info"})
      BY TargetsAssumption, Parents DEF Reopened, HasParent, ParentOf
    <3>3. \/ UNCHANGED call
          \/ \E step \in {"bootstrap", "establish"} :
               direct' = s /\ pc' = [pc EXCEPT !["direct"] = step]
      BY <2>1 DEF EstablishManually, Begins
    <3> QED
      BY <1>2, <3>1, <3>2, <3>3, SpentLetsGo
  <2>2. CASE ReadUnproven(s) \/ ReadExpired(s)
    BY <2>2, SpentRead
  <2>3. CASE ReadServed(s)
    <3>1. /\ gate' = Cleared(gate, Released(s)) /\ awaiting' = awaiting \ Released(s)
          /\ history'.spent = history.spent \ Released(s)
          /\ UNCHANGED <<identity, proven, call>>
      BY <1>1, <2>3 DEF ReadServed, Histories
    <3> QED
      BY <1>2, <3>1, SpentLetsGo
  <2> QED
    BY <1>4, <2>1, <2>2, <2>3 DEF ReadStep
<1>5. CASE ChildExpired \/ ReadIdentityLost
  <2>1. /\ UNCHANGED <<identity, proven, awaiting, gate, direct, history>>
        /\ \E c \in {"info", "identity"} : c \in Callers /\ Begins(c, "begin")
    BY <1>1, <1>5 DEF ChildExpired, ReadIdentityLost, runtime
  <2> SUFFICES ASSUME NEW t \in (Targets \cap history.spent) \ {"info"}
               PROVE  Waited(t)'
    BY <1>1, <2>1 DEF SpentOK
  <2>2. Waited(t) /\ pc'[t] = pc[t] /\ pc'[t] # "begin" /\ t # "none"
    BY <1>1, <1>3, <2>1 DEF SpentOK, Begins, TypeOK
  <2> QED
    BY <2>1, <2>2, WaitedStays
<1>6. CASE Foreground
  <2>1. /\ gate' = GateReopened /\ UNCHANGED <<identity, proven, awaiting, history>>
        /\ \/ UNCHANGED call
           \/ Begins("identity", "begin") /\ UNCHANGED direct
           \/ \E step \in {"recover", "bootstrap"} :
                pc' = [pc EXCEPT !["resume"] = step] /\ UNCHANGED direct
    BY <1>6 DEF Foreground
  <2> SUFFICES ASSUME NEW t \in (Targets \cap history.spent) \ {"info"}
               PROVE  Waited(t)'
    BY <1>1, <2>1 DEF SpentOK
  <2>2. Waited(t) /\ pc'[t] = pc[t] /\ pc'[t] # "begin" /\ t # "none" /\ direct' = direct
    BY <1>1, <1>3, <2>1 DEF SpentOK, Begins, TypeOK, call
  <2> QED
    BY <2>1, <2>2, ClosedGates, WaitedStays DEF Closed
<1>7. CASE ExplicitLogin \/ Logout
  <2>1. Forgotten
    BY <1>7 DEF ExplicitLogin, Logout
  <2> QED
    BY <2>1, SpentEmpty DEF Forgotten
<1>8. CASE CompletePrimary
  <2>1. history.spent = {}
    BY <1>1, <1>8 DEF CompletePrimary
  <2>2. history'.spent \subseteq history.spent
    BY <1>1, <1>8 DEF CompletePrimary, Histories
  <2> QED
    BY <2>1, <2>2, SpentEmpty
<1>9. CASE CompletePortal
  <2>1. UNCHANGED <<identity, proven, call>>
    BY <1>9 DEF CompletePortal
  <2>2. CASE /\ gate' = Cleared(gate, Paused) /\ awaiting' = awaiting \ Paused
             /\ history'.spent = history.spent \ Paused
    BY <1>2, <2>1, <2>2, SpentLetsGo
  <2>3. CASE UNCHANGED <<gate, awaiting, history>>
    <3> SUFFICES ASSUME NEW t \in (Targets \cap history.spent) \ {"info"}
                 PROVE  Waited(t)'
      BY <1>1, <2>1, <2>3 DEF SpentOK
    <3>1. Waited(t) /\ pc'[t] = pc[t] /\ pc'[t] # "begin" /\ t # "none" /\ direct' = direct
      BY <1>1, <1>3, <2>1 DEF SpentOK, call
    <3> QED
      BY <2>1, <2>3, <3>1, WaitedStays
  <2> QED
    BY <1>1, <1>9, <2>2, <2>3 DEF CompletePortal, Histories
<1> QED
  BY <1>4, <1>5, <1>6, <1>7, <1>8, <1>9 DEF UserStep

LEMMA SpentTime ==
  ASSUME TypeOK, StackOK, SpentOK, TypeOK', TimeStep \/ UNCHANGED vars
  PROVE  SpentOK'
<1>1. /\ gate \in [Services -> Gates] /\ Targets \subseteq Services
      /\ Targets \subseteq Callers /\ "none" \notin Targets
      /\ identity'.state = identity.state /\ history'.spent = history.spent
      /\ UNCHANGED <<proven, awaiting>>
  <2>1. gate \in [Services -> Gates] /\ identity \in Identities /\ history \in Histories
    BY DEF TypeOK
  <2>2. identity'.state = identity.state
    BY <2>1 DEF TimeStep, RetryFallsDue, LoginFallsDue, SnapshotFallsDue, PortalCools, Drop,
                vars, runtime, Identities
  <2>3. history'.spent = history.spent
    BY <2>1 DEF TimeStep, RetryFallsDue, LoginFallsDue, SnapshotFallsDue, PortalCools, Drop,
                vars, Histories
  <2>4. UNCHANGED <<proven, awaiting>>
    BY DEF TimeStep, RetryFallsDue, LoginFallsDue, SnapshotFallsDue, PortalCools, Drop,
           vars, runtime
  <2> QED
    BY <2>1, <2>2, <2>3, <2>4, Names
<1>2. Closed(gate')
  BY <1>1 DEF TimeStep, RetryFallsDue, LoginFallsDue, SnapshotFallsDue, PortalCools, Drop,
              vars, runtime, Closed
<1> SUFFICES ASSUME NEW t \in (Targets \cap history.spent) \ {"info"}
             PROVE  Waited(t)'
  BY <1>1 DEF SpentOK
<1>3. Waited(t) /\ t # "none" /\ t \in Callers
  BY <1>1 DEF SpentOK
<1>4. CASE Drop
  <2>1. pc'[t] = "idle" /\ direct' = "none"
    BY <1>3, <1>4, EndsIdle DEF Drop
  <2> QED
    BY <1>1, <1>2, <1>3, <2>1, WaitedStays DEF Closed
<1>5. CASE UNCHANGED vars
  BY <1>3, <1>5, <1>2, WaitedStays DEF vars, runtime, call, Closed
<1>6. CASE TimeStep /\ ~Drop
  <2>1. TimePasses /\ UNCHANGED call
    BY <1>6 DEF TimeStep, RetryFallsDue, LoginFallsDue, SnapshotFallsDue, PortalCools
  <2>2. pc[t] # "begin"
    <3>1. Idle => pc[t] = "idle"
      BY <1>3 DEF Idle
    <3>2. AtAwait => \E c \in Callers : (Active(c) /\ c # t) \/ pc[t] \in Awaits
      BY DEF AtAwait, Active, Awaits
    <3> QED
      BY <1>3, <2>1, <3>1, <3>2 DEF TimePasses, StackOK, Active, Awaits, AtAwait
  <2> QED
    BY <1>1, <1>2, <1>3, <2>1, <2>2, WaitedStays DEF Closed, call
<1> QED
  BY <1>4, <1>5, <1>6

LEMMA SpentNext ==
  ASSUME TypeOK, StackOK, IdentityOK, GateOK, SpentOK, TypeOK', StackOK', [Next]_vars
  PROVE  SpentOK'
BY SpentIdentity, SpentLogin, SpentPortal, SpentRefresh, SpentDirect, SpentUser, SpentTime
   DEF Next, CallStep

-----------------------------------------------------------------------------
(* The contract with the interactive sign-in, and what its steps rely on.  *)

\* A frame of any other call runs: the resume does not.
LEMMA ResumeSleeps ==
  ASSUME TypeOK, StackOK, NEW c \in Callers, Active(c), c # "resume"
  PROVE  pc["resume"] = "idle" /\ ~Idle
<1>1. ~Active("resume")
  BY Names DEF StackOK
<1>2. pc["resume"] = "idle"
  BY <1>1 DEF StackOK, Active
<1>3. pc[c] # "idle"
  BY DEF Active
<1> QED
  BY <1>2, <1>3 DEF Idle

LEMMA ResumeStaysAsleep ==
  ASSUME TypeOK, pc["resume"] = "idle",
         \/ Ends
         \/ \E c \in Callers \ {"resume"} : \E step : Goes(c, step)
         \/ \E step : IdentityReturns(step)
         \/ \E s \in Targets : Returns(s)
  PROVE  pc'["resume"] = "idle"
<1>1. CASE Ends
  BY <1>1, EndsIdle, Names
<1>2. CASE \E c \in Callers \ {"resume"} : \E step : Goes(c, step)
  BY <1>2, GoesTo, Names
<1>3. CASE \E step : IdentityReturns(step)
  BY <1>3, Names DEF IdentityReturns
<1>4. CASE \E s \in Targets : Returns(s)
  BY <1>4, Names DEF Returns, HasParent
<1> QED
  BY <1>1, <1>2, <1>3, <1>4

\* Work that leaves Identity and the challenge as they are.
LEMMA ContractWorks ==
  ASSUME UNCHANGED <<identity, challenge>>,
         \/ ~challenge
         \/ ~Recovering("resume") /\ ~Recovering("resume")'
         \/ Idle'
  PROVE  Contract!Works
<1>1. Live' <=> Live
  BY DEF Live, Current
<1>2. Idle' => ~Recovering("resume")'
  BY Names DEF Idle, Recovering
<1> QED
  BY <1>1, <1>2 DEF Contract!Works

LEMMA WaitStays ==
  ASSUME WaitOK, UNCHANGED <<identity, challenge>>,
         pc'["resume"] = "bootstrap" => pc["resume"] = "bootstrap" \/ ~challenge
  PROVE  WaitOK'
BY DEF WaitOK

\* A frame other than the resume's that changes nothing of Identity.
LEMMA WorksAside ==
  ASSUME WaitOK, UNCHANGED <<identity, challenge>>,
         pc["resume"] = "idle", pc'["resume"] = "idle"
  PROVE  WaitOK' /\ Contract!Works
BY WaitStays, ContractWorks DEF Recovering

\* Identity's refresh or the resume finds that a login is required.
LEMMA ContractRequires ==
  ASSUME TypeOK, WaitOK, identity' = RequireLogin(identity), ~challenge, ~challenge',
         identity.state \in {"authenticated", "expired"}
  PROVE  WaitOK' /\ Contract!Requires
<1>1. identity'.login /\ ~identity'.restored /\ identity'.state = "expired"
      /\ identity'.deadline = identity.deadline
  BY RequireLoginReturns DEF TypeOK
<1>2. WaitOK'
  BY <1>1 DEF WaitOK
<1>3. ~Live'
  BY <1>1 DEF Live, Current
<1> QED
  BY <1>1, <1>2, <1>3 DEF Contract!Requires

LEMMA IdentityContract ==
  ASSUME TypeOK, StackOK, IdentityOK, WaitOK, IdentityStep
  PROVE  WaitOK' /\ Contract!Next
<1>1. pc["identity"] \in {"begin", "inner", "probe"}
  BY DEF IdentityStep, EnterIdentity, IdentityInner, CookiesProve, ProbeFails, ProbeNeedsLogin
<1>2. pc["resume"] = "idle" /\ ~Idle
  BY <1>1, ResumeSleeps, Names DEF Active
<1>3. \/ Ends
      \/ \E step : Goes("identity", step)
      \/ \E step : IdentityReturns(step)
  BY DEF IdentityStep, EnterIdentity, IdentityInner, CookiesProve, ProbeFails, ProbeNeedsLogin,
         Fails
<1>4. pc'["resume"] = "idle"
  BY <1>2, <1>3, ResumeStaysAsleep, Names
<1>5. CASE CookiesProve
  <2>1. pc["identity"] = "probe" /\ UNCHANGED challenge
        /\ identity' = [identity EXCEPT !.state = "authenticated", !.restored = FALSE,
                                        !.deadline = "none"]
    BY <1>5 DEF CookiesProve
  <2>2. AtAwait
    BY <2>1, Names DEF AtAwait, Awaits
  <2>3. ~identity.login /\ ~challenge /\ identity.state \in {"authenticated", "expired"}
    BY <2>1, <2>2, Names DEF IdentityOK, NoDispatchOverChallenge
  <2>4. identity'.state = "authenticated" /\ ~identity'.restored
        /\ identity'.deadline = "none" /\ identity'.login = identity.login
    BY <2>1 DEF TypeOK, Identities
  <2>5. Live'
    BY <2>4 DEF Live, Current
  <2>6. WaitOK'
    BY <2>1, <2>3, <2>4 DEF WaitOK
  <2>7. Contract!CookieProof
    BY <2>1, <2>3, <2>4, <2>5 DEF Contract!CookieProof
  <2> QED
    BY <2>6, <2>7 DEF Contract!Next
<1>6. CASE ~CookiesProve
  <2>1. UNCHANGED <<identity, challenge>>
    BY <1>6 DEF IdentityStep, EnterIdentity, IdentityInner, ProbeFails, ProbeNeedsLogin
  <2> QED
    BY <1>2, <1>4, <2>1, WorksAside DEF Contract!Next
<1> QED
  BY <1>5, <1>6

\* What a frame of a login finds.
LEMMA AtLogin ==
  ASSUME StackOK, IdentityOK, NEW c \in {"identity", "resume"},
         pc[c] \in {"discover", "submit"}
  PROVE  /\ ~identity.login /\ ~challenge
         /\ pc[c] = "discover" => identity.state = "anonymous"
         /\ pc[c] = "submit" => identity.state = "authenticating"
         /\ ~Idle /\ ~Recovering("resume")
<1>1. c \in Callers /\ AtAwait /\ Active(c)
  BY Names DEF AtAwait, Awaits, Active
<1>2. ~Recovering("resume")
  BY <1>1, Names DEF StackOK, Active, Recovering
<1>3. ~Idle
  BY <1>1 DEF Idle
<1> QED
  BY <1>1, <1>2, <1>3 DEF IdentityOK

\* Before a login is tried.
LEMMA RecoverContract ==
  ASSUME TypeOK, StackOK, IdentityOK, WaitOK, NEW c \in {"identity", "resume"},
         RecoveryRefused(c) \/ RecoveryVaultBusy(c) \/ RecoveryNoRecord(c) \/ RecoveryLogin(c)
  PROVE  WaitOK' /\ Contract!Next
<1>1. pc[c] = "recover" /\ c \in Callers
  BY Names DEF RecoveryRefused, RecoveryVaultBusy, RecoveryNoRecord, RecoveryLogin, Recovering
<1>2. ~Idle /\ Active(c)
  BY <1>1 DEF Idle, Active
<1>3. c = "identity" => pc["resume"] = "idle"
  BY <1>2, ResumeSleeps, Names
<1>4. CASE RecoveryLogin(c)
  <2>1. identity' = [identity EXCEPT !.state = "anonymous", !.restored = FALSE,
                                     !.deadline = "none"]
        /\ challenge' = FALSE /\ ~identity.login /\ Goes(c, "discover")
    BY <1>4 DEF RecoveryLogin
  <2>2. identity'.state = "anonymous" /\ ~identity'.restored
        /\ identity'.deadline = "none" /\ identity'.login = identity.login
    BY <2>1 DEF TypeOK, Identities
  <2>3. identity.state \notin {"authenticating", "challenged"}
    BY <1>1 DEF IdentityOK
  <2>4. ~challenge \/ Recovering("resume")
    BY <1>1 DEF IdentityOK, Recovering
  <2>5. pc'[c] = "discover" /\ ~Idle'
    BY <1>1, <2>1, GoesTo DEF Idle
  <2>6. ~Live'
    BY <2>2 DEF Live, Current
  <2>7. WaitOK'
    BY <2>1, <2>2 DEF WaitOK
  <2>8. Contract!Recovers
    BY <2>1, <2>2, <2>3, <2>4, <2>5, <2>6 DEF Contract!Recovers
  <2> QED
    BY <2>7, <2>8 DEF Contract!Next
<1>5. CASE ~RecoveryLogin(c)
  <2>1. PICK r, k : NotRecovered(c, identity, r, k)
    BY <1>5 DEF RecoveryRefused, RecoveryVaultBusy, RecoveryNoRecord
  <2>2. UNCHANGED challenge
    BY <1>5 DEF RecoveryRefused, RecoveryVaultBusy, RecoveryNoRecord
  <2>3. Ends
    BY <2>1 DEF NotRecovered, Fails
  <2>4. \A d \in Callers : pc'[d] = "idle"
    BY <2>3, EndsIdle
  <2>5. CASE UNCHANGED identity
    <3>1. Idle' /\ pc'["resume"] = "idle"
      BY <2>4, Names DEF Idle
    <3> QED
      BY <2>2, <2>5, <3>1, WaitStays, ContractWorks DEF Contract!Next
  <2>6. CASE c = "identity" /\ identity' = RequireLogin(identity)
    <3>1. ~challenge /\ identity.state \in {"authenticated", "expired"}
      BY <1>1, <2>6 DEF IdentityOK
    <3> QED
      BY <2>2, <2>6, <3>1, ContractRequires DEF Contract!Next
  <2> QED
    BY <2>1, <2>5, <2>6 DEF NotRecovered
<1> QED
  BY <1>4, <1>5

\* A login that has begun.
LEMMA LoginContract ==
  ASSUME TypeOK, StackOK, IdentityOK, WaitOK, NEW c \in {"identity", "resume"},
         \/ EntryUnavailable(c) \/ EntryRefused(c) \/ EntryRead(c)
         \/ PostUnanswered(c) \/ PostRejected(c) \/ PostChallenged(c) \/ PostProves(c)
  PROVE  WaitOK' /\ Contract!Next
<1>1. pc[c] \in {"discover", "submit"} /\ c \in Callers /\ identity \in Identities
  BY Names DEF EntryUnavailable, EntryRefused, EntryRead, PostUnanswered, PostRejected,
               PostChallenged, PostProves, TypeOK
<1>2. /\ ~identity.login /\ ~challenge
      /\ pc[c] = "discover" => identity.state = "anonymous"
      /\ pc[c] = "submit" => identity.state = "authenticating"
      /\ ~Idle /\ ~Recovering("resume")
  BY <1>1, AtLogin
<1>3. UNCHANGED challenge
  BY DEF EntryUnavailable, EntryRefused, EntryRead, PostUnanswered, PostRejected,
         PostChallenged, PostProves
<1>4. identity.deadline = "none" /\ ~identity.restored /\ ~Live
  BY <1>1, <1>2 DEF WaitOK, IdentityOK, Live, Current
<1>5. ASSUME identity'.state = "authenticated"
             \/ (identity'.deadline = "none" /\ ~identity'.restored)
      PROVE  WaitOK'
  BY <1>2, <1>3, <1>5 DEF WaitOK
<1>6. Ends => Idle'
  BY EndsIdle DEF Idle
<1>7. CASE EntryUnavailable(c) \/ EntryRefused(c)
  <2>1. UNCHANGED identity
    BY <1>7 DEF EntryUnavailable, EntryRefused, LoginFails
  <2> QED
    BY <1>2, <1>3, <1>4, <1>5, <2>1, ContractWorks DEF Contract!Next
<1>8. CASE EntryRead(c)
  <2>1. pc[c] = "discover" /\ identity' = [identity EXCEPT !.state = "authenticating"]
        /\ Goes(c, "submit")
    BY <1>8 DEF EntryRead
  <2>2. identity'.state = "authenticating" /\ ~identity'.restored
        /\ identity'.deadline = "none" /\ identity'.login = identity.login
    BY <1>1, <1>4, <2>1 DEF Identities
  <2>3. ~Idle' /\ ~Live'
    BY <1>1, <2>1, <2>2, GoesTo DEF Idle, Live, Current
  <2>4. Contract!Enters
    BY <1>2, <1>3, <1>4, <2>1, <2>2, <2>3 DEF Contract!Enters, Live, Current
  <2> QED
    BY <1>5, <2>2, <2>4 DEF Contract!Next
<1>9. CASE PostUnanswered(c) \/ PostRejected(c)
  <2>1. pc[c] = "submit" /\ Ends
    BY <1>9 DEF PostUnanswered, PostRejected, LoginFails, Fails
  <2>2. identity'.state = "anonymous" /\ identity'.deadline = "none" /\ ~identity'.restored
        /\ identity'.login \in {identity.login, TRUE}
    <3>1. CASE PostUnanswered(c)
      BY <1>1, <1>4, <3>1 DEF PostUnanswered, Identities
    <3>2. CASE PostRejected(c)
      <4> DEFINE i == RequireLogin(identity)
      <4>1. i \in Identities /\ i.login /\ ~i.restored /\ i.deadline = identity.deadline
        BY <1>1, RequireLoginReturns
      <4>2. identity' = [i EXCEPT !.state = "anonymous"]
        BY <3>2 DEF PostRejected, LoginFails
      <4> HIDE DEF i
      <4> QED
        BY <1>4, <4>1, <4>2 DEF Identities
    <3> QED
      BY <1>9, <3>1, <3>2
  <2>3. ~Live'
    BY <2>2 DEF Live, Current
  <2>4. Contract!Rejected
    BY <1>2, <1>3, <1>4, <1>6, <2>1, <2>2, <2>3
    DEF Contract!Rejected, Live, Current
  <2> QED
    BY <1>5, <2>2, <2>4 DEF Contract!Next
<1>10. CASE PostChallenged(c)
  <2>1. pc[c] = "submit" /\ Ends /\ identity' = [identity EXCEPT !.state = "challenged"]
    BY <1>10 DEF PostChallenged, LoginFails, Fails
  <2>2. identity'.state = "challenged" /\ identity'.deadline = "none" /\ ~identity'.restored
        /\ identity'.login = identity.login
    BY <1>1, <1>4, <2>1 DEF Identities
  <2>3. ~Live'
    BY <2>2 DEF Live, Current
  <2>4. Contract!Meets
    BY <1>2, <1>3, <1>4, <1>6, <2>1, <2>2, <2>3
    DEF Contract!Meets, Live, Current
  <2> QED
    BY <1>5, <2>2, <2>4 DEF Contract!Next
<1>11. CASE PostProves(c)
  <2>1. pc[c] = "submit" /\ identity' = [identity EXCEPT !.state = "authenticated"]
    BY <1>11 DEF PostProves
  <2>2. identity'.state = "authenticated" /\ identity'.deadline = "none"
        /\ ~identity'.restored /\ identity'.login = identity.login
    BY <1>1, <1>4, <2>1 DEF Identities
  <2>3. Live'
    BY <2>2 DEF Live, Current
  <2>4. Contract!Proves
    BY <1>2, <1>3, <2>1, <2>2, <2>3 DEF Contract!Proves
  <2> QED
    BY <1>5, <2>2, <2>4 DEF Contract!Next
<1> QED
  BY <1>7, <1>8, <1>9, <1>10, <1>11

\* A portal's frame, and where it goes when the portal stays unproven.
LEMMA PortalFrame ==
  ASSUME TypeOK, StackOK, IdentityOK, WaitOK, NEW c \in Targets \cup {"resume", "direct"},
         pc[c] \in {"bootstrap", "portal"}
  PROVE  /\ c \in Callers /\ ~Idle /\ ~Recovering("resume")
         /\ c # "resume" => pc["resume"] = "idle"
         /\ c = "resume" => ~challenge /\ \A d \in Callers \ {"resume"} : pc[d] = "idle"
         /\ pc[c] = "portal" => ~challenge
<1>1. c \in Callers /\ Active(c)
  BY Names DEF Active
<1>2. c # "resume" => pc["resume"] = "idle"
  BY <1>1, ResumeSleeps
<1>3. ~Idle /\ ~Recovering("resume")
  BY <1>1, <1>2 DEF Idle, Recovering
<1>4. pc[c] = "portal" => ~challenge
  BY <1>1 DEF IdentityOK, NoDispatchOverChallenge
<1>5. c = "resume" => ~challenge
  BY <1>4 DEF WaitOK
<1>6. c = "resume" => \A d \in Callers \ {"resume"} : pc[d] = "idle"
  BY <1>1, Names DEF StackOK, Active
<1> QED
  BY <1>1, <1>2, <1>3, <1>4, <1>5, <1>6

LEMMA PortalFailsGoes ==
  ASSUME TypeOK, NEW c \in Callers, NEW r, NEW p, NEW why, NEW kept,
         PortalFails(c, r, p, why, kept)
  PROVE  /\ c = "resume" => \E step \in {"recover", "idle"} : Goes(c, step)
         /\ c # "resume" => Idle' /\ pc'["resume"] = "idle"
<1>1. c # "resume" => Ends
  BY DEF PortalFails, Fails
<1>2. c = "resume" => \E step \in {"recover", "idle"} : Goes(c, step)
  BY DEF PortalFails
<1> QED
  BY <1>1, <1>2, EndsIdle, Names DEF Idle

LEMMA PortalContract ==
  ASSUME TypeOK, StackOK, IdentityOK, WaitOK, NEW c \in Targets \cup {"resume", "direct"},
         PortalStep(c)
  PROVE  WaitOK' /\ Contract!Next
<1>1. pc[c] \in {"bootstrap", "portal"}
  BY DEF PortalStep, Bootstrap, PortalProves, PortalUnanswered, PortalVaultBusy,
         PortalNeedsLogin, PortalPostUnanswered, PortalPostRejected, PortalPauses, Asked
<1>2. /\ c \in Callers /\ ~Idle /\ ~Recovering("resume")
      /\ c # "resume" => pc["resume"] = "idle"
      /\ c = "resume" => ~challenge /\ \A d \in Callers \ {"resume"} : pc[d] = "idle"
      /\ pc[c] = "portal" => ~challenge
  BY <1>1, PortalFrame
<1>3. \/ \E r, p, why, kept : PortalFails(c, r, p, why, kept)
      \/ Goes(c, AfterPortal(c))
      \/ Goes(c, "portal")
  BY DEF PortalStep, Bootstrap, PortalProves, PortalUnanswered, PortalVaultBusy,
         PortalNeedsLogin, PortalPostUnanswered, PortalPostRejected, PortalPauses, PortalDone
<1>4. pc'["resume"] # "bootstrap" /\ (c # "resume" => pc'["resume"] = "idle")
  <2>1. CASE \E r, p, why, kept : PortalFails(c, r, p, why, kept)
    BY <1>2, <2>1, PortalFailsGoes, GoesTo, Names
  <2>2. CASE \E step \in {AfterPortal(c), "portal"} : Goes(c, step)
    <3>1. PICK step \in {AfterPortal(c), "portal"} : Goes(c, step)
      BY <2>2
    <3>2. pc'[c] = step /\ \A d \in Callers \ {c} : pc'[d] = pc[d]
      BY <1>2, <3>1, GoesTo
    <3>3. c = "resume" => AfterPortal(c) = "idle"
      BY Names DEF AfterPortal
    <3> QED
      BY <1>2, <3>2, <3>3, Names
  <2> QED
    BY <1>3, <2>1, <2>2
<1>5. CASE UNCHANGED <<identity, challenge>>
  <2>1. WaitOK'
    BY <1>4, <1>5, WaitStays
  <2>2. Contract!Works
    BY <1>2, <1>4, <1>5, ContractWorks DEF Recovering
  <2> QED
    BY <2>1, <2>2 DEF Contract!Next
<1>6. CASE PortalProves(c)
  <2>1. pc[c] = "portal" /\ UNCHANGED challenge
        /\ identity' = [identity EXCEPT !.restored = FALSE]
    BY <1>6 DEF PortalProves, Asked
  <2>2. identity.state = "authenticated" /\ ~identity.login /\ ~challenge
    BY <1>2, <2>1, AtPortal
  <2>3. identity'.state = "authenticated" /\ ~identity'.restored
        /\ identity'.deadline = identity.deadline /\ identity'.login = identity.login
    BY <2>1, <2>2 DEF TypeOK, Identities
  <2>4. WaitOK'
    BY <1>4, <2>1, <2>2, <2>3 DEF WaitOK
  <2>5. CASE identity.deadline = "due"
    <3>1. Live' = Live
      BY <2>3, <2>5 DEF Live, Current
    <3>2. Contract!Works
      BY <2>1, <2>2, <2>3, <3>1 DEF Contract!Works
    <3> QED
      BY <2>4, <3>2 DEF Contract!Next
  <2>6. CASE identity.deadline # "due"
    <3>1. Live'
      BY <2>3, <2>6 DEF Live, Current
    <3>2. Contract!CookieProof
      BY <2>1, <2>2, <2>3, <3>1 DEF Contract!CookieProof
    <3> QED
      BY <2>4, <3>2 DEF Contract!Next
  <2> QED
    BY <2>5, <2>6
<1>7. CASE PortalNeedsLogin(c) \/ PortalPostRejected(c)
  <2>1. pc[c] = "portal" /\ UNCHANGED challenge /\ identity' = RequireLogin(identity)
    BY <1>7 DEF PortalNeedsLogin, PortalPostRejected, Asked
  <2>2. identity.state = "authenticated" /\ ~challenge
    BY <1>2, <2>1, AtPortal
  <2> QED
    BY <2>1, <2>2, ContractRequires DEF Contract!Next
<1>8. CASE PortalPauses(c)
  <2>1. pc[c] = "portal" /\ UNCHANGED identity /\ ~challenge /\ challenge' \in BOOLEAN
        /\ (challenge' => Live)
    BY <1>8 DEF PortalPauses, Asked
  <2>2. identity.state = "authenticated"
    BY <1>2, <2>1, AtPortal
  <2>3. CASE ~challenge'
    BY <1>5, <2>1, <2>3 DEF TypeOK
  <2>4. CASE challenge'
    <3>1. Live /\ ~identity.restored
      BY <2>1, <2>4 DEF Live
    <3>2. WaitOK'
      BY <1>4, <2>1, <2>2, <3>1 DEF WaitOK
    <3>3. PICK r, p, why, kept : PortalFails(c, r, p, why, kept)
      BY <1>8 DEF PortalPauses
    <3>4. Recovering("resume")' <=> ~Idle'
      <4>1. CASE c # "resume"
        BY <1>2, <3>3, <4>1, PortalFailsGoes DEF Recovering
      <4>2. CASE c = "resume"
        <5>1. PICK step \in {"recover", "idle"} : Goes(c, step)
          BY <1>2, <3>3, <4>2, PortalFailsGoes
        <5>2. pc'["resume"] = step /\ \A d \in Callers \ {"resume"} : pc'[d] = "idle"
          BY <1>2, <4>2, <5>1, GoesTo
        <5> QED
          BY <5>2, Names DEF Idle, Recovering
      <4> QED
        BY <4>1, <4>2
    <3>5. Live' = Live
      BY <2>1 DEF Live, Current
    <3>6. Contract!Raises
      BY <2>1, <2>2, <2>4, <3>4, <3>5 DEF Contract!Raises
    <3> QED
      BY <3>2, <3>6 DEF Contract!Next
  <2> QED
    BY <2>3, <2>4
<1> QED
  BY <1>5, <1>6, <1>7, <1>8
  DEF PortalStep, Bootstrap, PortalUnanswered, PortalVaultBusy, PortalPostUnanswered

\* The refreshes of the targets leave Identity to its own frame.
LEMMA RefreshContract ==
  ASSUME TypeOK, StackOK, IdentityOK, WaitOK,
         (\E s \in Targets : RefreshStep(s)) \/ DirectLibrary \/ DirectEstablish
  PROVE  WaitOK' /\ Contract!Next
<1>1. UNCHANGED <<identity, challenge>>
  BY DEF RefreshStep, EnterRefresh, Prepare, Parent, Established, EstablishFails,
         DirectLibrary, DirectEstablish, runtime
<1>2. CASE \E s \in Targets : RefreshStep(s)
  <2>1. PICK s \in Targets : RefreshStep(s)
    BY <1>2
  <2>2. s \in Callers \ {"resume"} /\ Active(s)
    BY <2>1, Names DEF RefreshStep, EnterRefresh, Prepare, Parent, Established,
                       EstablishFails, Active
  <2>3. pc["resume"] = "idle"
    BY <2>2, ResumeSleeps
  <2>4. \/ Ends
        \/ \E step : Goes(s, step)
        \/ Returns(s)
        \/ pc' = [pc EXCEPT ![s] = "identity", !["identity"] = "begin"]
        \/ HasParent(s) /\ pc' = [pc EXCEPT ![s] = "nested", ![ParentOf[s]] = "begin"]
    <3>1. CASE Parent(s)
      <4>1. HasParent(s)
        BY <3>1 DEF Parent, StackOK
      <4> QED
        BY <3>1, <4>1 DEF Parent
    <3>2. CASE EnterRefresh(s) \/ Prepare(s) \/ Established(s) \/ EstablishFails(s)
      BY <3>2 DEF EnterRefresh, Prepare, Established, EstablishFails, Fails
    <3> QED
      BY <2>1, <3>1, <3>2 DEF RefreshStep
  <2>5. pc'["resume"] = "idle"
    <3>1. CASE pc' = [pc EXCEPT ![s] = "identity", !["identity"] = "begin"]
      BY <2>2, <2>3, <3>1, Names DEF TypeOK
    <3>2. CASE HasParent(s) /\ pc' = [pc EXCEPT ![s] = "nested", ![ParentOf[s]] = "begin"]
      <4>1. ParentOf[s] \in Targets
        BY <3>2, Parents
      <4> QED
        BY <2>2, <2>3, <3>2, <4>1, Names DEF TypeOK
    <3> QED
      BY <2>2, <2>3, <2>4, <3>1, <3>2, ResumeStaysAsleep
  <2> QED
    BY <1>1, <2>3, <2>5, WorksAside DEF Contract!Next
<1>3. CASE DirectLibrary \/ DirectEstablish
  <2>1. pc["direct"] = "establish" /\ "direct" \in Callers /\ "direct" # "resume"
    BY <1>3, Names DEF DirectLibrary, DirectEstablish
  <2>2. pc["resume"] = "idle"
    BY <2>1, ResumeSleeps DEF Active
  <2>3. pc'["resume"] = "idle"
    <3>1. CASE DirectLibrary
      BY <2>2, <3>1, Names DEF DirectLibrary, TypeOK
    <3>2. CASE DirectEstablish
      BY <3>2, EndsIdle, Names DEF DirectEstablish
    <3> QED
      BY <1>3, <3>1, <3>2
  <2> QED
    BY <1>1, <2>2, <2>3, WorksAside DEF Contract!Next
<1> QED
  BY <1>2, <1>3

\* The calls of the user begin while nothing runs.
LEMMA UserContract ==
  ASSUME TypeOK, StackOK, IdentityOK, WaitOK, UserStep
  PROVE  WaitOK' /\ Contract!Next
<1>1. Idle /\ identity \in Identities /\ pc \in [Callers -> Steps]
  BY DEF UserStep, ReadStep, EstablishManually, ReadUnproven, ReadExpired, ReadServed,
         ChildExpired, Foreground, ReadIdentityLost, ExplicitLogin, Logout,
         CompletePrimary, CompletePortal, TypeOK
<1>2. pc["resume"] = "idle" /\ ~Recovering("resume")
  BY <1>1, Names DEF Idle, Recovering
<1>3. UNCHANGED call => Idle' /\ pc'["resume"] = "idle" /\ ~Recovering("resume")'
  BY <1>1, <1>2 DEF call, Idle, Recovering
<1>4. CASE Foreground
  <2>1. UNCHANGED <<identity, challenge>>
    BY <1>4 DEF Foreground
  <2>2. pc'["resume"] \in {"bootstrap", "recover"} => ~challenge
    <3>1. CASE UNCHANGED call
      BY <1>3, <3>1
    <3>2. CASE Begins("identity", "begin")
      BY <1>1, <1>2, <3>2, Names DEF Begins
    <3>3. CASE ~InteractionPending /\ (identity.restored \/ Live \/ identity.state = "anonymous")
      BY <3>3 DEF InteractionPending, WaitOK
    <3> QED
      BY <1>4, <3>1, <3>2, <3>3 DEF Foreground
  <2>3. WaitOK'
    BY <2>1, <2>2, WaitStays
  <2>4. Contract!Works
    BY <1>2, <2>1, <2>2, ContractWorks DEF Recovering
  <2> QED
    BY <2>3, <2>4 DEF Contract!Next
<1>5. CASE (\E s \in Targets : ReadStep(s)) \/ ChildExpired \/ ReadIdentityLost
  <2>1. UNCHANGED <<identity, challenge>>
    BY <1>5 DEF ReadStep, EstablishManually, ReadUnproven, ReadExpired, ReadServed,
       ChildExpired, ReadIdentityLost, runtime
  <2>2. UNCHANGED call \/ \E c \in Callers \ {"resume"} : \E step : Begins(c, step)
    BY <1>5, Names DEF ReadStep, EstablishManually, ReadUnproven, ReadExpired, ReadServed,
       ChildExpired, ReadIdentityLost
  <2>3. pc'["resume"] = "idle"
    BY <1>1, <1>2, <1>3, <2>2, Names DEF Begins
  <2> QED
    BY <1>2, <2>1, <2>3, WorksAside DEF Contract!Next
<1>6. CASE ExplicitLogin \/ Logout
  <2>1. /\ identity'.state \in
             {"anonymous", "authenticating", "challenged", "authenticated"}
        /\ ~identity'.restored /\ identity'.deadline = "none"
        /\ identity'.login \in BOOLEAN
        /\ identity'.login => identity'.state = "anonymous"
    <3>1. CASE ExplicitLogin
      <4>1. PICK state \in {"anonymous", "authenticating", "challenged", "authenticated"},
                 required \in BOOLEAN :
              /\ required => state = "anonymous"
              /\ identity' = [state |-> state, restored |-> FALSE, deadline |-> "none",
                              login |-> required]
        BY <3>1 DEF ExplicitLogin
      <4> QED
        BY <4>1
    <3>2. CASE Logout
      BY <3>2 DEF Logout
    <3> QED
      BY <1>6, <3>1, <3>2
  <2>2. challenge' = FALSE /\ UNCHANGED call
    BY <1>6 DEF ExplicitLogin, Logout, Forgotten
  <2>3. Live' <=> identity'.state = "authenticated"
    BY <2>1 DEF Live, Current
  <2>4. Live' \in BOOLEAN
    BY DEF Live, Current
  <2>5. WaitOK'
    BY <2>1, <2>2 DEF WaitOK
  <2>6. Contract!Restart
    BY <1>1, <1>3, <2>1, <2>2, <2>3, <2>4 DEF Contract!Restart, Contract!States
  <2> QED
    BY <2>5, <2>6 DEF Contract!Next
<1>7. CASE CompletePrimary
  <2>1. identity.state = "challenged" /\ UNCHANGED <<challenge, call>>
    BY <1>7 DEF CompletePrimary
  <2>2. identity.deadline = "none" /\ ~identity.restored /\ ~challenge
    BY <2>1 DEF WaitOK, IdentityOK
  <2>3. \E state \in {"authenticated", "anonymous"} :
          identity' = [identity EXCEPT !.state = state]
    BY <1>7 DEF CompletePrimary
  <2>4. /\ identity'.state \in {"authenticated", "anonymous"}
        /\ identity'.deadline = "none" /\ ~identity'.restored
        /\ identity'.login = identity.login
    BY <1>1, <2>2, <2>3 DEF Identities
  <2>5. WaitOK'
    BY <2>1, <2>2, <2>4 DEF WaitOK
  <2>6. CASE identity'.state = "authenticated"
    <3>1. Live'
      BY <2>4, <2>6 DEF Live, Current
    <3>2. Contract!Answer
      BY <1>1, <1>3, <2>1, <2>2, <2>4, <2>6, <3>1 DEF Contract!Answer
    <3> QED
      BY <2>5, <3>2 DEF Contract!Next
  <2>7. CASE identity'.state = "anonymous"
    <3>1. Live' = Live
      BY <2>1, <2>7 DEF Live, Current
    <3>2. Contract!Answer
      BY <1>1, <1>3, <2>1, <2>2, <2>4, <2>7, <3>1 DEF Contract!Answer
    <3> QED
      BY <2>5, <3>2 DEF Contract!Next
  <2> QED
    BY <2>4, <2>6, <2>7
<1>8. CASE CompletePortal
  <2>1. challenge /\ challenge' = FALSE /\ UNCHANGED <<identity, call>>
    BY <1>8 DEF CompletePortal
  <2>2. Live' = Live
    BY <2>1 DEF Live, Current
  <2>3. WaitOK'
    BY <2>1 DEF WaitOK
  <2>4. Contract!AnswerPortal
    BY <1>1, <1>2, <1>3, <2>1, <2>2 DEF Contract!AnswerPortal
  <2> QED
    BY <2>3, <2>4 DEF Contract!Next
<1> QED
  BY <1>4, <1>5, <1>6, <1>7, <1>8 DEF UserStep

\* Time and a dropped future.
LEMMA TimeContract ==
  ASSUME TypeOK, StackOK, WaitOK, TimeStep \/ UNCHANGED vars
  PROVE  WaitOK' /\ (Contract!Next \/ UNCHANGED Contract!vars)
<1>1. CASE Drop
  <2>1. UNCHANGED <<identity, challenge>> /\ Ends
    BY <1>1 DEF Drop
  <2>2. Idle' /\ pc'["resume"] = "idle"
    BY <2>1, EndsIdle, Names DEF Idle
  <2> QED
    BY <2>1, <2>2, WaitStays, ContractWorks DEF Contract!Next
<1>2. CASE SnapshotFallsDue
  <2>1. identity' = [identity EXCEPT !.deadline = "due"] /\ identity.deadline = "ahead"
        /\ UNCHANGED <<challenge, pc>>
    BY <1>2 DEF SnapshotFallsDue, call
  <2>2. identity'.deadline = "due" /\ identity'.state = identity.state
        /\ identity'.restored = identity.restored /\ identity'.login = identity.login
    BY <2>1 DEF TypeOK, Identities
  <2>3. WaitOK'
    BY <2>1, <2>2 DEF WaitOK
  <2>4. ~Live'
    BY <2>2 DEF Live, Current
  <2>5. (Idle' <=> Idle) /\ (Recovering("resume")' <=> Recovering("resume"))
    BY <2>1 DEF Idle, Recovering
  <2>6. CASE Live
    <3>1. Contract!FallsDue
      BY <2>1, <2>2, <2>4, <2>5, <2>6 DEF Contract!FallsDue
    <3> QED
      BY <2>3, <3>1 DEF Contract!Next
  <2>7. CASE ~Live
    <3>1. Live' = Live
      BY <2>4, <2>7 DEF Live, Current
    <3>2. UNCHANGED Contract!vars
      BY <2>1, <2>2, <2>5, <3>1 DEF Contract!vars
    <3> QED
      BY <2>3, <3>2
  <2> QED
    BY <2>6, <2>7
<1>3. CASE \/ \E s \in Services : RetryFallsDue(s)
           \/ LoginFallsDue \/ PortalCools \/ UNCHANGED vars
  <2>1. UNCHANGED <<identity, challenge, pc>>
    BY <1>3 DEF RetryFallsDue, LoginFallsDue, PortalCools, vars, runtime, call
  <2>2. WaitOK'
    BY <2>1 DEF WaitOK
  <2>3. UNCHANGED Contract!vars
    BY <2>1 DEF Contract!vars, Live, Current, Recovering, Idle
  <2> QED
    BY <2>2, <2>3
<1> QED
  BY <1>1, <1>2, <1>3 DEF TimeStep

LEMMA ContractNext ==
  ASSUME TypeOK, StackOK, IdentityOK, WaitOK, [Next]_vars
  PROVE  WaitOK' /\ [Contract!Next]_(Contract!vars)
<1>1. CASE CallStep
  BY <1>1, IdentityContract, RecoverContract, LoginContract, PortalContract, RefreshContract
  DEF CallStep, LoginStep
<1> QED
  BY <1>1, UserContract, TimeContract DEF Next

-----------------------------------------------------------------------------
(* A login whose outcome is unknown.                                       *)

Posting == {"discover", "submit"}

\* The frame that runs is not at a login: no frame is.
LEMMA NoneLogsIn ==
  ASSUME StackOK, NEW d \in Callers, Active(d), pc[d] \notin Posting
  PROVE  \A c \in Callers : pc[c] \notin Posting
BY DEF StackOK, Active, Posting

\* No login begins in a step that moves the frames like this.
LEMMA NoneBegins ==
  ASSUME TypeOK, \A c \in Callers : pc[c] \notin Posting,
         \/ Ends
         \/ UNCHANGED pc
         \/ \E c \in Callers : \E step \in Steps \ Posting : Goes(c, step)
         \/ \E c, d \in Callers : \E step, begun \in Steps \ Posting :
              pc' = [pc EXCEPT ![c] = step, ![d] = begun]
         \/ IdentityReturns("prepare")
         \/ \E s \in Targets : Returns(s)
  PROVE  \A c \in Callers : pc'[c] \notin Posting
<1>1. CASE Ends
  BY <1>1, EndsIdle DEF Posting
<1>2. CASE \E c \in Callers : \E step \in Steps \ Posting : Goes(c, step)
  BY <1>2, GoesTo
<1>3. CASE \E c, d \in Callers : \E step, begun \in Steps \ Posting :
             pc' = [pc EXCEPT ![c] = step, ![d] = begun]
  BY <1>3 DEF TypeOK
<1>4. CASE IdentityReturns("prepare")
  BY <1>4 DEF IdentityReturns, Posting
<1>5. CASE \E s \in Targets : Returns(s)
  BY <1>5 DEF Returns, Posting
<1> QED
  BY <1>1, <1>2, <1>3, <1>4, <1>5

\* A step that leaves Identity, the attempt and its deadline as they are.
LEMMA PostStays ==
  ASSUME PostOK, UNCHANGED identity, resume'.at = resume.at \/ resume'.at = "none",
         resume'.attempt = resume.attempt, history'.posted = history.posted,
         \A c \in Callers : pc'[c] \in Posting => pc[c] \in Posting,
         history.posted = "final" =>
           /\ pc'["resume"] = "idle"
           /\ pc'["identity"] \notin {"probe", "recover", "discover", "submit"}
  PROVE  PostOK'
BY DEF PostOK, Posting

LEMMA PostFails ==
  ASSUME NEW g, NEW p, NEW why, NEW kept, Fails(g, p, why, kept)
  PROVE  Ends /\ (TypeOK => history'.posted = history.posted)
BY DEF Fails, TypeOK, Histories

LEMMA PostIdentity ==
  ASSUME TypeOK, StackOK, IdentityOK, PostOK, IdentityStep
  PROVE  PostOK'
<1>1. pc["identity"] \in {"begin", "inner", "probe"}
  BY DEF IdentityStep, EnterIdentity, IdentityInner, CookiesProve, ProbeFails, ProbeNeedsLogin
<1>2. \A c \in Callers : pc[c] \notin Posting
  BY <1>1, NoneLogsIn, Names DEF Active, Posting
<1>3. pc["resume"] = "idle"
  BY <1>1, ResumeSleeps, Names DEF Active
<1>4. \/ Ends
      \/ \E step \in {"inner", "probe", "recover"} : Goes("identity", step)
      \/ IdentityReturns("prepare")
  BY DEF IdentityStep, EnterIdentity, IdentityInner, CookiesProve, ProbeFails, ProbeNeedsLogin,
         Fails
<1>5. \A c \in Callers : pc'[c] \notin Posting
  BY <1>2, <1>4, NoneBegins, Names DEF Posting, Steps, Awaits
<1>6. pc'["resume"] = "idle"
  BY <1>3, <1>4, ResumeStaysAsleep, Names
<1>7. CASE EnterIdentity
  <2>1. UNCHANGED identity /\ resume' = ResumeReopened
        /\ (Ends \/ Goes("identity", "inner"))
    BY <1>7 DEF EnterIdentity, Fails
  <2>2. history'.posted = history.posted
    BY <1>7, PostFails DEF EnterIdentity
  <2>3. history.posted = "final" => UNCHANGED resume
    BY <2>1 DEF PostOK, ResumeReopened, LoginDue
  <2>4. pc'["identity"] \in {"idle", "inner"}
    BY <2>1, EndsIdle, GoesTo, Names
  <2> QED
    BY <1>5, <1>6, <2>1, <2>2, <2>3, <2>4 DEF PostOK, Posting
<1>8. CASE IdentityInner
  <2>1. UNCHANGED <<identity, resume>> /\ history'.posted = history.posted
    BY <1>8, PostFails DEF IdentityInner
  <2>2. history.posted = "final" => Ends
    BY <1>8, PostFails DEF IdentityInner, PostOK
  <2>3. history.posted = "final" => pc'["identity"] = "idle"
    BY <2>2, EndsIdle, Names
  <2> QED
    BY <1>5, <1>6, <2>1, <2>3, PostStays
<1>9. CASE CookiesProve \/ ProbeFails \/ ProbeNeedsLogin
  <2>1. history.posted # "final"
    BY <1>9 DEF CookiesProve, ProbeFails, ProbeNeedsLogin, PostOK
  <2>2. history'.posted \in {"no", history.posted}
    <3>1. CASE CookiesProve
      <4>1. [history EXCEPT !.spent = {}, !.posted = "no",
                            !.tainted = @ \ {"identity"}].posted = "no"
        BY DEF TypeOK, Histories
      <4> QED
        BY <3>1, <4>1, PostFails DEF CookiesProve
    <3>2. CASE ProbeFails
      BY <3>2, PostFails DEF ProbeFails
    <3>3. CASE ProbeNeedsLogin
      BY <3>3 DEF ProbeNeedsLogin
    <3> QED
      BY <1>9, <3>1, <3>2, <3>3
  <2> QED
    BY <1>5, <2>1, <2>2 DEF PostOK, Posting
<1> QED
  BY <1>7, <1>8, <1>9 DEF IdentityStep

\* A login posts with its attempt consumed.  Where the answer is lost and no
\* retry was scheduled, there is none, and Identity is anonymous.
LEMMA PostLogin ==
  ASSUME TypeOK, StackOK, IdentityOK, PostOK, NEW c \in {"identity", "resume"}, LoginStep(c)
  PROVE  PostOK'
<1>1. c \in Callers /\ Active(c) /\ pc[c] \in {"recover", "discover", "submit"}
  BY Names DEF LoginStep, RecoveryRefused, RecoveryVaultBusy, RecoveryNoRecord, RecoveryLogin,
     EntryUnavailable, EntryRefused, EntryRead, PostUnanswered, PostRejected, PostChallenged,
     PostProves, Recovering, Active
<1>2. history.posted # "final"
  BY <1>1 DEF PostOK
<1>3. \A d \in Callers \ {c} : pc[d] \notin Posting
  BY <1>1 DEF StackOK, Active, Posting
<1>4. resume \in Resumes /\ history \in Histories
  BY DEF TypeOK
<1>5. CASE RecoveryRefused(c) \/ RecoveryVaultBusy(c) \/ RecoveryNoRecord(c)
  <2>1. PICK r : NotRecovered(c, identity, r, clean)
    BY <1>5 DEF RecoveryRefused, RecoveryVaultBusy, RecoveryNoRecord
  <2>2. Ends /\ history'.posted = history.posted
    BY <2>1, PostFails DEF NotRecovered
  <2> QED
    BY <1>2, <2>2, EndsIdle DEF PostOK
<1>6. CASE RecoveryLogin(c)
  <2>1. resume'.attempt = "consumed" /\ history'.posted = history.posted
    BY <1>4, <1>6 DEF RecoveryLogin, Resumes, Histories
  <2> QED
    BY <1>2, <2>1 DEF PostOK
<1>7. CASE EntryRead(c)
  BY <1>1, <1>2, <1>3, <1>7, GoesTo DEF EntryRead, PostOK, Posting
<1>8. CASE EntryUnavailable(c) \/ EntryRefused(c) \/ PostRejected(c) \/ PostChallenged(c)
  <2>1. Ends /\ history'.posted = history.posted
    BY <1>8, PostFails DEF EntryUnavailable, EntryRefused, PostRejected, PostChallenged,
       LoginFails
  <2> QED
    BY <1>2, <2>1, EndsIdle DEF PostOK
<1>9. CASE PostUnanswered(c)
  <2>1. Ends /\ pc[c] = "submit" /\ identity' = [identity EXCEPT !.state = "anonymous"]
        /\ resume' = [resume EXCEPT !.tried = TRUE]
        /\ history' = [history EXCEPT !.tainted = @ \cup Running, !.posted = Posted]
    BY <1>9 DEF PostUnanswered
  <2>2. resume.attempt = "consumed"
    BY <1>1, <2>1 DEF PostOK
  <2>3. /\ identity'.state = "anonymous"
        /\ resume'.at = resume.at /\ resume'.attempt = "consumed"
        /\ history'.posted = Posted
    BY <1>4, <2>1, <2>2 DEF TypeOK, Identities, Resumes, Histories
  <2>4. \A d \in Callers : pc'[d] = "idle"
    BY <2>1, EndsIdle
  <2> QED
    BY <2>3, <2>4, Names DEF PostOK, Posted
<1>10. CASE PostProves(c)
  <2>1. history'.posted = "no"
    BY <1>4, <1>10 DEF PostProves, Histories
  <2>2. \A d \in Callers : pc'[d] \notin Posting
    <3>1. CASE c = "resume"
      BY <1>3, <1>10, <3>1 DEF PostProves, TypeOK, Posting
    <3>2. CASE c = "identity"
      BY <1>3, <1>10, <3>2 DEF PostProves, IdentityReturns, Posting
    <3> QED
      BY <3>1, <3>2
  <2> QED
    BY <2>1, <2>2 DEF PostOK, Posting
<1> QED
  BY <1>5, <1>6, <1>7, <1>8, <1>9, <1>10 DEF LoginStep

\* A portal's frame finds Identity proven, so no login is left unanswered.
LEMMA PostPortal ==
  ASSUME TypeOK, StackOK, IdentityOK, PostOK, NEW c \in Targets \cup {"resume", "direct"},
         PortalStep(c)
  PROVE  PostOK'
<1>1. c \in Callers /\ Active(c) /\ pc[c] \in {"bootstrap", "portal"}
  BY Names DEF PortalStep, Bootstrap, PortalProves, PortalUnanswered, PortalVaultBusy,
     PortalNeedsLogin, PortalPostUnanswered, PortalPostRejected, PortalPauses, Asked, Active
<1>2. \A d \in Callers : pc[d] \notin Posting
  BY <1>1, NoneLogsIn DEF Posting
<1>3. \/ \E r, p, why, kept : PortalFails(c, r, p, why, kept)
      \/ Goes(c, AfterPortal(c))
      \/ Goes(c, "portal")
  BY DEF PortalStep, Bootstrap, PortalProves, PortalUnanswered, PortalVaultBusy,
         PortalNeedsLogin, PortalPostUnanswered, PortalPostRejected, PortalPauses, PortalDone
<1>4. \/ Ends
      \/ \E step \in {"recover", "idle", "portal", AfterPortal(c)} : Goes(c, step)
  BY <1>3, PortalFailsGoes, <1>1 DEF PortalFails, Fails
<1>5. AfterPortal(c) \in {"parent", "establish", "idle"}
  BY Names DEF AfterPortal
<1>6. \A d \in Callers : pc'[d] \notin Posting
  <2>1. {"recover", "idle", "portal", "parent", "establish"} \subseteq Steps \ Posting
    BY DEF Posting, Steps, Awaits
  <2> QED
    BY <1>1, <1>2, <1>4, <1>5, <2>1, NoneBegins
<1>7. history'.posted = history.posted
  <2>1. \/ UNCHANGED history
        \/ \E r, p, why, kept : PortalFails(c, r, p, why, kept)
    BY DEF PortalStep, Bootstrap, PortalProves, PortalUnanswered, PortalVaultBusy,
           PortalNeedsLogin, PortalPostUnanswered, PortalPostRejected, PortalPauses
  <2> QED
    BY <2>1, PostFails DEF PortalFails
<1>8. CASE history.posted # "final"
  BY <1>6, <1>7, <1>8 DEF PostOK, Posting
<1>9. CASE history.posted = "final"
  <2>1. ~Current /\ c # "resume"
    BY <1>1, <1>9 DEF PostOK, Current
  <2>2. pc[c] = "bootstrap"
    BY <1>1, <1>9 DEF PostOK, IdentityOK
  <2>3. UNCHANGED <<identity, resume>> /\ Ends
    BY <2>1, <2>2 DEF PortalStep, Bootstrap, PortalProves, PortalUnanswered, PortalVaultBusy,
       PortalNeedsLogin, PortalPostUnanswered, PortalPostRejected, PortalPauses, Asked,
       PortalFails, Fails
  <2>4. pc'["resume"] = "idle" /\ pc'["identity"] = "idle"
    BY <2>3, EndsIdle, Names
  <2> QED
    BY <1>6, <1>7, <2>3, <2>4, PostStays
<1> QED
  BY <1>8, <1>9

LEMMA PostRefresh ==
  ASSUME TypeOK, StackOK, IdentityOK, PostOK,
         (\E s \in Targets : RefreshStep(s)) \/ DirectLibrary \/ DirectEstablish
  PROVE  PostOK'
<1>1. UNCHANGED <<identity, resume>>
  BY DEF RefreshStep, EnterRefresh, Prepare, Parent, Established, EstablishFails,
         DirectLibrary, DirectEstablish, runtime
<1>2. PICK d \in Callers \ {"resume", "identity"} :
        /\ Active(d) /\ pc[d] \notin Posting
        /\ \/ Ends
           \/ \E step \in Steps \ Posting : Goes(d, step)
           \/ \E e \in Callers \ {"resume"} : \E step \in Steps \ Posting :
                pc' = [pc EXCEPT ![d] = step, ![e] = "begin"]
           \/ \E s \in Targets : Returns(s)
  <2>1. {"prepare", "parent", "bootstrap", "establish", "nested", "identity", "begin"}
          \subseteq Steps \ Posting
    BY DEF Posting, Steps, Awaits
  <2>2. ASSUME NEW s \in Targets, RefreshStep(s)
        PROVE  /\ Active(s) /\ pc[s] \notin Posting
               /\ \/ Ends
                  \/ \E step \in Steps \ Posting : Goes(s, step)
                  \/ \E e \in Callers \ {"resume"} : \E step \in Steps \ Posting :
                       pc' = [pc EXCEPT ![s] = step, ![e] = "begin"]
                  \/ Returns(s)
    <3>1. Active(s) /\ pc[s] \notin Posting
      BY <2>2 DEF RefreshStep, EnterRefresh, Prepare, Parent, Established, EstablishFails,
                  Active, Posting
    <3>2. CASE EnterRefresh(s)
      <4>1. \/ Ends
            \/ Goes(s, "prepare")
            \/ pc' = [pc EXCEPT ![s] = "identity", !["identity"] = "begin"]
        BY <3>2 DEF EnterRefresh, Fails
      <4> QED
        BY <2>1, <3>1, <4>1, Names
    <3>3. CASE Parent(s)
      <4>1. HasParent(s)
        BY <3>3 DEF Parent, StackOK
      <4>2. ParentOf[s] \in Callers \ {"resume"}
        BY <4>1, Parents, Names
      <4> QED
        BY <2>1, <3>1, <3>3, <4>2 DEF Parent
    <3>4. CASE Prepare(s) \/ Established(s) \/ EstablishFails(s)
      BY <2>1, <3>1, <3>4 DEF Prepare, Established, EstablishFails, Fails
    <3> QED
      BY <2>2, <3>2, <3>3, <3>4 DEF RefreshStep
  <2>3. CASE DirectLibrary \/ DirectEstablish
    <3>1. Active("direct") /\ pc["direct"] \notin Posting
      BY <2>3 DEF DirectLibrary, DirectEstablish, Active, Posting
    <3>2. CASE DirectLibrary
      <4>1. "library" \in Callers \ {"resume"}
        BY <3>2, Names DEF DirectLibrary, TypeOK
      <4>2. pc' = [pc EXCEPT !["direct"] = "nested", !["library"] = "begin"]
        BY <3>2 DEF DirectLibrary
      <4> QED
        BY <2>1, <3>1, <4>1, <4>2, Names
    <3>3. CASE DirectEstablish
      BY <3>1, <3>3, Names DEF DirectEstablish
    <3> QED
      BY <2>3, <3>2, <3>3
  <2> QED
    BY <2>2, <2>3, Names
<1>3. \A c \in Callers : pc[c] \notin Posting
  BY <1>2, NoneLogsIn
<1>4. \A c \in Callers : pc'[c] \notin Posting
  <2>1. "begin" \in Steps \ Posting
    BY DEF Posting, Steps
  <2> QED
    BY <1>2, <1>3, <2>1, NoneBegins
<1>5. pc["resume"] = "idle"
  BY <1>2, ResumeSleeps
<1>6. pc'["resume"] = "idle"
  <2>1. CASE \E e \in Callers \ {"resume"} : \E step :
               pc' = [pc EXCEPT ![d] = step, ![e] = "begin"]
    BY <1>2, <1>5, <2>1, Names DEF TypeOK
  <2> QED
    BY <1>2, <1>5, <2>1, ResumeStaysAsleep
<1>7. pc'["identity"] \in {pc["identity"], "idle", "begin", "prepare", "establish"}
  <2>1. CASE Ends
    BY <2>1, EndsIdle, Names
  <2>2. CASE \E step : Goes(d, step)
    BY <1>2, <2>2, GoesTo, Names
  <2>3. CASE \E e \in Callers \ {"resume"} : \E step :
               pc' = [pc EXCEPT ![d] = step, ![e] = "begin"]
    BY <1>2, <2>3, Names DEF TypeOK
  <2>4. CASE \E s \in Targets : Returns(s)
    BY <2>4, Names DEF Returns
  <2> QED
    BY <1>2, <2>1, <2>2, <2>3, <2>4
<1>8. history'.posted = history.posted
  <2>1. ASSUME NEW s \in Targets, RefreshStep(s)
        PROVE  history'.posted = history.posted
    <3>1. CASE Established(s)
      <4>1. [history EXCEPT !.spent = @ \cup {s}, !.tainted = @ \ {s}].posted = history.posted
        BY DEF TypeOK, Histories
      <4> QED
        BY <3>1, <4>1, PostFails DEF Established
    <3>2. CASE EnterRefresh(s)
      BY <3>2, PostFails DEF EnterRefresh
    <3>3. CASE EstablishFails(s)
      BY <3>3, PostFails DEF EstablishFails
    <3>4. CASE Prepare(s) \/ Parent(s)
      BY <3>4 DEF Prepare, Parent
    <3> QED
      BY <2>1, <3>1, <3>2, <3>3, <3>4 DEF RefreshStep
  <2>2. DirectLibrary \/ DirectEstablish => UNCHANGED history
    BY DEF DirectLibrary, DirectEstablish
  <2> QED
    BY <2>1, <2>2
<1> QED
  BY <1>1, <1>4, <1>6, <1>7, <1>8 DEF PostOK, Posting

\* The calls of the user: only Foreground starts the resume, and it needs an
\* attempt that is not consumed.
LEMMA PostUser ==
  ASSUME TypeOK, PostOK, UserStep
  PROVE  PostOK'
<1>1. Idle /\ resume \in Resumes /\ history \in Histories
  BY DEF UserStep, ReadStep, EstablishManually, ReadUnproven, ReadExpired, ReadServed,
         ChildExpired, Foreground, ReadIdentityLost, ExplicitLogin, Logout,
         CompletePrimary, CompletePortal, TypeOK
<1>2. \A c \in Callers : pc[c] = "idle"
  BY <1>1 DEF Idle
<1>3. CASE ExplicitLogin \/ Logout
  <2>1. Forgotten /\ UNCHANGED call
    BY <1>3 DEF ExplicitLogin, Logout
  <2>2. history'.posted = "no" /\ UNCHANGED pc
    BY <2>1 DEF Forgotten, call
  <2> QED
    BY <1>2, <2>2 DEF PostOK
<1>4. CASE CompletePrimary
  <2>1. history.posted # "final" /\ UNCHANGED pc
    BY <1>4 DEF CompletePrimary, PostOK, call
  <2>2. history'.posted \in {"no", history.posted}
    BY <1>1, <1>4 DEF CompletePrimary, Histories
  <2> QED
    BY <1>2, <2>1, <2>2 DEF PostOK
<1>5. CASE CompletePortal
  <2>1. UNCHANGED <<identity, pc>>
    BY <1>5 DEF CompletePortal, call
  <2>2. history'.posted = history.posted /\ resume'.at = resume.at
        /\ resume'.attempt = resume.attempt
    BY <1>1, <1>5 DEF CompletePortal, Resumes, Histories
  <2> QED
    BY <2>1, <2>2, PostStays DEF PostOK
<1>6. CASE (\E s \in Targets : ReadStep(s)) \/ ChildExpired \/ ReadIdentityLost
  <2>1. UNCHANGED identity /\ history'.posted = history.posted
        /\ resume'.at = resume.at /\ resume'.attempt = resume.attempt
    BY <1>1, <1>6 DEF ReadStep, EstablishManually, ReadUnproven, ReadExpired, ReadServed,
       ChildExpired, ReadIdentityLost, runtime, Resumes, Histories
  <2>2. \/ UNCHANGED pc
        \/ \E c \in Callers \ {"resume"} : \E step \in {"begin", "establish", "bootstrap"} :
             Goes(c, step)
    BY <1>6, Names DEF ReadStep, EstablishManually, ReadUnproven, ReadExpired, ReadServed,
       ChildExpired, ReadIdentityLost, Begins, Goes, call
  <2>3. /\ \A c \in Callers : pc'[c] \in {"idle", "begin", "establish", "bootstrap"}
        /\ pc'["resume"] = "idle"
    BY <1>2, <2>2, GoesTo, Names
  <2> QED
    BY <2>1, <2>3, PostStays, Names DEF Posting
<1>7. CASE Foreground
  <2>1. UNCHANGED identity /\ UNCHANGED history
    BY <1>7 DEF Foreground
  <2>2. \/ UNCHANGED pc
        \/ Goes("identity", "begin")
        \/ \E step \in {"recover", "bootstrap"} : Goes("resume", step)
    BY <1>7 DEF Foreground, Begins, Goes, call
  <2>3. \A c \in Callers : pc'[c] \in {"idle", "begin", "recover", "bootstrap"}
    BY <1>2, <2>2, GoesTo, Names
  <2>4. pc'["identity"] \in {"idle", "begin"}
    BY <1>2, <2>2, GoesTo, Names
  <2>5. ASSUME history.posted = "final"
        PROVE  UNCHANGED resume /\ pc'["resume"] = "idle"
    <3>1. ResumeReopened = resume /\ resume.attempt = "consumed"
      BY <2>5 DEF PostOK, ResumeReopened, LoginDue
    <3>2. UNCHANGED resume /\ (UNCHANGED pc \/ Goes("identity", "begin"))
      BY <1>7, <3>1 DEF Foreground, Begins, Goes, call
    <3> QED
      BY <1>2, <3>2, GoesTo, Names
  <2> QED
    BY <2>1, <2>3, <2>4, <2>5 DEF PostOK
<1> QED
  BY <1>3, <1>4, <1>5, <1>6, <1>7 DEF UserStep

\* A future dropped at a login leaves its outcome unknown, too.
LEMMA PostTime ==
  ASSUME TypeOK, StackOK, IdentityOK, PostOK, TimeStep \/ UNCHANGED vars
  PROVE  PostOK'
<1>1. resume \in Resumes /\ history \in Histories /\ identity \in Identities
  BY DEF TypeOK
<1>2. CASE Drop
  <2>1. UNCHANGED identity /\ \A c \in Callers : pc'[c] = "idle"
    BY <1>2, EndsIdle DEF Drop
  <2>2. resume'.at = resume.at /\ resume'.attempt = resume.attempt
    BY <1>1, <1>2 DEF Drop, Resumes
  <2>3. history'.posted = IF \E c \in Callers : pc[c] = "submit" THEN Posted
                          ELSE history.posted
    BY <1>1, <1>2 DEF Drop, Histories
  <2>4. CASE \E c \in Callers : pc[c] = "submit"
    <3>1. resume.attempt = "consumed" /\ identity.state = "authenticating"
      BY <2>4 DEF PostOK, IdentityOK
    <3> QED
      BY <2>1, <2>2, <2>3, <2>4, <3>1, Names DEF PostOK, Posted
  <2>5. CASE ~\E c \in Callers : pc[c] = "submit"
    BY <2>1, <2>2, <2>3, <2>5, PostStays, Names DEF Posting
  <2> QED
    BY <2>4, <2>5
<1>3. CASE LoginFallsDue
  <2>1. /\ UNCHANGED <<identity, pc, history>>
        /\ resume.at = "ahead" /\ resume'.attempt = resume.attempt
    BY <1>1, <1>3 DEF LoginFallsDue, Resumes, call
  <2> QED
    BY <2>1 DEF PostOK
<1>4. CASE SnapshotFallsDue
  <2>1. UNCHANGED <<resume, pc, history>> /\ identity'.state = identity.state
    BY <1>1, <1>4 DEF SnapshotFallsDue, Identities, call
  <2> QED
    BY <2>1 DEF PostOK
<1>5. CASE (\E s \in Services : RetryFallsDue(s)) \/ PortalCools \/ UNCHANGED vars
  <2>1. UNCHANGED <<identity, resume, pc, history>>
    BY <1>5 DEF RetryFallsDue, PortalCools, vars, runtime, call
  <2> QED
    BY <2>1 DEF PostOK
<1> QED
  BY <1>2, <1>3, <1>4, <1>5 DEF TimeStep

LEMMA PostNext ==
  ASSUME TypeOK, StackOK, IdentityOK, PostOK, [Next]_vars
  PROVE  PostOK'
BY PostIdentity, PostLogin, PostPortal, PostRefresh, PostUser, PostTime DEF Next, CallStep

-----------------------------------------------------------------------------
(* The theorems.                                                           *)

LEMMA InitInvariant ==
  ASSUME Init
  PROVE  IInv
<1>1. /\ \A c \in Callers : pc[c] = "idle"
      /\ direct = "none" /\ root = {} /\ clean = {}
      /\ history.tainted = {} /\ history.spent = {}
      /\ portal.depth = 0 /\ ~portal.proof /\ ~portal.up
      /\ gate \in [Services -> Gates]
      /\ \A s \in Services : gate[s] = Open
      /\ ~identity.login /\ (identity.restored => identity.state = "authenticated")
  BY OpenGate DEF Init
<1>2. Running = {} /\ Nested = {} /\ ~AtAwait
  BY <1>1, Names DEF Running, Nested, AtAwait, Awaits
<1>3. identity \in Identities /\ resume \in Resumes /\ portal \in Portals
      /\ history \in Histories /\ pc \in [Callers -> Steps]
  <2>1. identity \in Identities
    <3>1. CASE identity = [state |-> "authenticated", restored |-> TRUE, deadline |-> "ahead",
                           login |-> FALSE]
      BY <3>1 DEF Identities, Deadlines
    <3>2. CASE identity = [state |-> "anonymous", restored |-> FALSE, deadline |-> "none",
                           login |-> FALSE]
      BY <3>2 DEF Identities, Deadlines
    <3> QED
      BY <3>1, <3>2 DEF Init
  <2>2. resume \in Resumes /\ portal \in Portals
    BY DEF Init, Resumes, Portals, Deadlines
  <2>3. history \in Histories
    BY DEF Init, Histories
  <2>4. pc \in [Callers -> Steps]
    BY DEF Init, Steps
  <2> QED
    BY <2>1, <2>2, <2>3, <2>4
<1>4. TypeOK
  BY <1>1, <1>3 DEF TypeOK, Init
<1>5. StackOK
  BY <1>1, <1>2, Names DEF StackOK, Active
<1>6. IdentityOK
  BY <1>1, <1>2, Names DEF IdentityOK, NoDispatchOverChallenge
<1>7. Open.retry = "none" /\ Open.result = "none"
  BY DEF Open
<1>8. GateOK
  BY <1>1, <1>2, <1>7, Names DEF GateOK, OneAttempt, NoBlindRetry
<1>9. TaintOK /\ ChainOK /\ NestedOK /\ SpentOK
  BY <1>1, <1>2, Names DEF TaintOK, ChainOK, NestedOK, ProofInsideChain, SpentOK
<1>10. WaitOK
  BY <1>1, Names DEF Init, WaitOK
<1>11. PostOK
  BY <1>1 DEF Init, PostOK
<1> QED
  BY <1>4, <1>5, <1>6, <1>8, <1>9, <1>10, <1>11 DEF IInv

LEMMA InitContract == Init => Contract!Init
<1> SUFFICES ASSUME Init PROVE Contract!Init
  OBVIOUS
<1>1. /\ identity.state \in {"anonymous", "authenticated"}
      /\ ~identity.login /\ ~Live /\ challenge = FALSE
  BY DEF Init, Live, Current
<1>2. Idle
  BY DEF Init, Idle
<1> QED
  BY <1>1, <1>2 DEF Contract!Init

LEMMA NextInvariant ==
  ASSUME IInv, [Next]_vars
  PROVE  IInv'
<1>1. TypeOK' /\ StackOK'
  BY TypeStep DEF IInv
<1>2. IdentityOK'
  BY <1>1, IdentityNext DEF IInv
<1>3. GateOK' /\ TaintOK'
  BY <1>1, <1>2, GateNext DEF IInv
<1>4. ChainOK' /\ NestedOK'
  BY ChainNext, NestedNext DEF IInv
<1>5. SpentOK'
  BY <1>1, SpentNext DEF IInv
<1>6. WaitOK'
  BY ContractNext DEF IInv
<1>7. PostOK'
  BY PostNext DEF IInv
<1> QED
  BY <1>1, <1>2, <1>3, <1>4, <1>5, <1>6, <1>7 DEF IInv

\* The frames stay a stack, and what they find is what the steps rely on,
\* whatever is dropped at an await and whatever the server answers.
THEOREM Invariance == Spec => []IInv
<1>1. Init => IInv
  BY InitInvariant
<1>2. IInv /\ [Next]_vars => IInv'
  BY NextInvariant
<1> QED
  BY <1>1, <1>2, PTL DEF Spec

\* The state of the runtime keeps its types; service_refresh_depth, which
\* dropped and failed refreshes unwind by subtraction, never wraps.
THEOREM RecoveryTypeCorrect == Spec => []TypeOK
<1>1. IInv => TypeOK
  BY DEF IInv
<1> QED
  BY <1>1, Invariance, PTL

\* No refresh of a service runs again by itself once its last attempt may have
\* consumed a one-time handoff or posted a password.
THEOREM AtMostOneAttempt == Spec => []OneAttempt
<1>1. IInv => OneAttempt
  BY DEF IInv, GateOK
<1> QED
  BY <1>1, Invariance, PTL

\* The extent of the disagreement on TimeNeverReplays: only a retry that was
\* scheduled before a login posts another one while its outcome is unknown.
\* Without such a retry no elapsed time, read or probe posts it again.
LostPostIsFinal == \A c \in Callers : pc[c] \in Posting => history.posted # "final"

THEOREM OnlyScheduledRetriesReplay == Spec => []LostPostIsFinal
<1>1. IInv => LostPostIsFinal
  <2> SUFFICES ASSUME IInv, NEW c \in Callers, pc[c] \in Posting, history.posted = "final"
               PROVE  FALSE
    BY DEF LostPostIsFinal
  <2>1. c \in {"identity", "resume"}
    <3>1. ASSUME NEW s \in Targets PROVE pc[s] \notin Posting
      BY DEF IInv, StackOK, Posting
    <3>2. pc["direct"] \notin Posting
      BY DEF IInv, StackOK, Posting
    <3> QED
      BY <3>1, <3>2, Names
  <2> QED
    BY <2>1 DEF IInv, PostOK, Posting
<1> QED
  BY <1>1, Invariance, PTL

\* A gate that time will open is one whose attempt consumed nothing.
THEOREM RetriesAreProbes == Spec => []NoBlindRetry
<1>1. IInv => NoBlindRetry
  BY DEF IInv, GateOK
<1> QED
  BY <1>1, Invariance, PTL

\* "Do not let a portal proof obtained for one expiry chain leak into a later
\* user operation" (runtime.rs:13500): the call that ends a chain leaves neither
\* the proof nor any nesting behind, unless the counter was raised before it;
\* and only a future dropped inside a chain raises it.
LeakNeedsDrop ==
  /\ [](Idle /\ ~Leaked => ~portal.proof /\ portal.depth = 0)
  /\ [][Leaked' => Leaked \/ Drop]_vars

THEOREM OnlyDropsLeakTheProof == Spec => LeakNeedsDrop
<1>1. IInv => (Idle /\ ~Leaked => ~portal.proof /\ portal.depth = 0)
  <2> SUFFICES ASSUME IInv, Idle, ~Leaked PROVE ~portal.proof /\ portal.depth = 0
    OBVIOUS
  <2>1. Cardinality(Nested) = 0 /\ portal.depth \in Nat
    BY IdleStack, FiniteServices DEF IInv, TypeOK, Portals
  <2> QED
    BY <2>1 DEF Leaked, IInv, ChainOK, ProofInsideChain
<1>2. ASSUME IInv, [Next]_vars
      PROVE  [Leaked' => Leaked \/ Drop]_vars
  BY <1>2, ChainNext DEF IInv, NoNewLeak
<1> QED
  BY <1>1, <1>2, Invariance, PTL DEF Spec, LeakNeedsDrop

\* Where no future is dropped, no call ever begins with the proof of another
\* one or with frames counted that do not run.
NothingLeaks == [](Idle => ~portal.proof /\ portal.depth = 0)

THEOREM ProofStaysInChain == Spec /\ [][~Drop]_vars => NothingLeaks
<1>1. ASSUME Init
      PROVE  ~Leaked
  <2>1. Cardinality(Nested) \in Nat
    BY FiniteServices DEF Nested
  <2>2. portal.depth = 0
    BY <1>1 DEF Init
  <2> QED
    BY <2>1, <2>2 DEF Leaked
<1>2. ASSUME IInv, [Next]_vars, [~Drop]_vars, ~Leaked
      PROVE  ~Leaked'
  <2>1. CASE UNCHANGED vars
    BY <1>2, <2>1 DEF Leaked, Nested, Running, vars, runtime, call
  <2>2. CASE ~Drop
    BY <1>2, <2>2, ChainNext DEF IInv, NoNewLeak
  <2> QED
    BY <1>2, <2>1, <2>2
<1> QED
  BY <1>1, <1>2, Invariance, OnlyDropsLeakTheProof, PTL DEF Spec, LeakNeedsDrop, NothingLeaks

\* Once a login is required no recovery request is sent.
THEOREM RequiredLoginIsTerminal == Spec => []LoginIsTerminal
<1>1. IInv => LoginIsTerminal
  BY DEF IInv, IdentityOK, LoginIsTerminal, Current
<1> QED
  BY <1>1, Invariance, PTL

\* A service whose handoff worked and whose reads still find it expired is not
\* handed off in a loop.
THEOREM HandoffsDoNotLoop == Spec => []NoHandoffLoop
<1>1. IInv => NoHandoffLoop
  BY DEF IInv, SpentOK, Waited, NoHandoffLoop
<1> QED
  BY <1>1, Invariance, PTL

\* Recovery sends nothing while the user is answering a portal's challenge.
THEOREM ChallengeIsNotOvertaken == Spec => []NoDispatchOverChallenge
<1>1. IInv => NoDispatchOverChallenge
  BY DEF IInv, IdentityOK
<1> QED
  BY <1>1, Invariance, PTL

\* No step of a running call drops the challenge, but the login of the resume
\* that raised it.
THEOREM ChallengeIsKept == Spec => ChallengeKept
<1>1. ASSUME IInv, [Next]_vars
      PROVE  [challenge /\ ~Idle /\ ~Recovering("resume") => challenge']_vars
  <2> SUFFICES ASSUME challenge, ~Idle, ~Recovering("resume"), Next
               PROVE  challenge'
    BY <1>1
  <2>1. ASSUME NEW c \in {"identity", "resume"}, LoginStep(c)
        PROVE  challenge'
    <3>1. RecoveryLogin(c) => FALSE
      BY <1>1 DEF IInv, IdentityOK, RecoveryLogin, Recovering
    <3>2. ~RecoveryLogin(c) => UNCHANGED challenge
      BY <2>1 DEF LoginStep, RecoveryRefused, RecoveryVaultBusy, RecoveryNoRecord,
         EntryUnavailable, EntryRefused, EntryRead, PostUnanswered, PostRejected,
         PostChallenged, PostProves
    <3> QED
      BY <3>1, <3>2
  <2>2. IdentityStep => challenge'
    BY DEF IdentityStep, EnterIdentity, IdentityInner, CookiesProve, ProbeFails,
           ProbeNeedsLogin
  <2>3. ASSUME NEW c \in Targets \cup {"resume", "direct"}, PortalStep(c)
        PROVE  challenge'
    BY <2>3 DEF PortalStep, Bootstrap, PortalProves, PortalUnanswered, PortalVaultBusy,
       PortalNeedsLogin, PortalPostUnanswered, PortalPostRejected, PortalPauses
  <2>4. ASSUME NEW s \in Targets, RefreshStep(s)
        PROVE  challenge'
    BY <2>4 DEF RefreshStep, EnterRefresh, Prepare, Parent, Established, EstablishFails,
                runtime
  <2>5. DirectLibrary \/ DirectEstablish => challenge'
    BY DEF DirectLibrary, DirectEstablish, runtime
  <2>6. ~UserStep
    BY DEF UserStep, ReadStep, EstablishManually, ReadUnproven, ReadExpired, ReadServed,
           ChildExpired, Foreground, ReadIdentityLost, ExplicitLogin, Logout,
           CompletePrimary, CompletePortal
  <2>7. TimeStep => challenge'
    BY DEF TimeStep, RetryFallsDue, LoginFallsDue, SnapshotFallsDue, PortalCools, Drop
  <2> QED
    BY <2>1, <2>2, <2>3, <2>4, <2>5, <2>6, <2>7 DEF Next, CallStep
<1> QED
  BY <1>1, Invariance, PTL DEF Spec, ChallengeKept

\* The automatic recovery keeps the contract with the interactive sign-in: it
\* never answers a challenge, logs in beside a login or after one is required,
\* and what it leaves of Identity is what the user's own calls may find.
THEOREM Refinement == Spec => ImplementsSignIn
<1>1. IInv /\ [Next]_vars => [Contract!Next]_(Contract!vars)
  BY ContractNext DEF IInv
<1>2. Spec => Contract!Spec
  BY <1>1, InitContract, Invariance, PTL DEF Spec, Contract!Spec
<1> QED
  BY <1>2 DEF ImplementsSignIn
=============================================================================
