------------------------ MODULE RecoveryLifecycleInv ------------------------
(***************************************************************************)
(* The inductive invariant of RecoveryLifecycle.                           *)
(***************************************************************************)
EXTENDS RecoveryLifecycle

\* A frame that takes the next step, and one that waits for another.
Active(c) == pc[c] \notin {"idle", "identity", "nested"}
Nested == Running \cap Targets

\* The frames are a stack: direct, a target, its parent, identity; or resume.
StackOK ==
  /\ \A c, d \in Callers : Active(c) /\ Active(d) => c = d
  /\ pc["identity"] \in {"idle", "begin", "inner", "probe", "recover", "discover", "submit"}
  /\ pc["resume"] \in {"idle", "bootstrap", "portal", "recover", "discover", "submit"}
  /\ pc["direct"] \in {"idle", "bootstrap", "portal", "establish", "nested"}
  /\ \A s \in Targets :
       /\ pc[s] \in {"idle", "begin", "identity", "prepare", "bootstrap", "portal", "parent",
                     "nested", "establish"}
       /\ pc[s] = "identity" => pc["identity"] # "idle"
       /\ pc[s] = "nested" => HasParent(s) /\ pc[ParentOf[s]] # "idle"
       /\ pc[s] = "parent" => HasParent(s)
  /\ \A s, t \in Targets : pc[s] # "idle" /\ pc[t] # "idle" =>
       \/ s = t
       \/ HasParent(s) /\ t = ParentOf[s] /\ pc[s] = "nested"
       \/ HasParent(t) /\ s = ParentOf[t] /\ pc[t] = "nested"
  /\ pc["direct"] = "nested" =>
       direct = "library" /\ "library" \in Targets /\ pc["library"] # "idle"
  /\ direct # "none" => pc["direct"] # "idle"
  /\ pc["direct"] = "establish" => direct # "none"
  /\ Active("direct") \/ pc["resume"] # "idle" =>
       \A c \in Callers : Active(c) \/ pc[c] = "idle"
  /\ root \subseteq Nested

\* What a step finds Identity like; a call for a target never meets a session
\* that was restored and not proven.
IdentityOK ==
  /\ identity.login =>
       identity.state \in {"anonymous", "expired"} /\ ~AtAwait /\ ~portal.up
  /\ identity.restored => identity.state = "authenticated"
  /\ identity.restored => \A c \in Callers \ {"resume"} : pc[c] = "idle"
  /\ pc["identity"] = "inner" => ~identity.login
  /\ pc["identity"] \notin {"idle", "begin"} => resume.at = "none"
  /\ pc["identity"] # "idle" => ~Live
  /\ pc["identity"] \in {"probe", "recover"} => identity.state \in {"authenticated", "expired"}
  /\ pc["identity"] = "recover" => ~challenge /\ ~identity.login
  /\ pc["resume"] \in {"bootstrap", "recover"} =>
       identity.state \notin {"authenticating", "challenged"}
  /\ \A c \in Callers :
       /\ pc[c] \in {"portal", "establish"} => identity.state = "authenticated"
       /\ pc[c] \in {"portal", "discover", "submit"} => ~portal.up
       /\ pc[c] \in {"discover", "submit"} => history.spent = {} /\ ~challenge
       /\ pc[c] = "discover" => identity.state = "anonymous"
       /\ pc[c] = "submit" => identity.state = "authenticating"
  /\ NoDispatchOverChallenge

\* Only a session that was restored brings a deadline along.  A challenge that
\* waits belongs to a session this process proved; no resume starts over it.
WaitOK ==
  /\ identity.deadline # "none" => identity.state \in {"authenticated", "expired"}
  /\ challenge => identity.state \in {"authenticated", "expired"} /\ ~identity.restored
  /\ pc["resume"] = "bootstrap" => ~challenge

\* What a gate that was tried says: nothing may have been consumed where it
\* can open by itself.
Shut(g) == (g.attempted \/ g.result # "none") /\ g.result \notin {"notice", "ok"}
GateOK ==
  /\ OneAttempt
  /\ NoBlindRetry
  /\ gate["identity"].result # "ok"
  /\ \A s \in Services : gate[s].result = "none" => gate[s].retry = "none"
  /\ \A s \in Running :
       /\ gate[s].retry = "none"
       /\ Shut(gate[s])
  /\ \A s \in history.tainted \cap Targets : Shut(gate[s])

\* An Identity whose last login may have consumed something is not tried again
\* by itself: its gate is shut, it was proven, or there is nothing to try.
TaintOK ==
  "identity" \in history.tainted =>
    /\ ~identity.restored
    /\ identity.state = "authenticated" => identity.deadline # "ahead"
    /\ pc["resume"] = "portal" => identity.deadline = "none"
    /\ \/ Shut(gate["identity"]) /\ resume.at = "none"
       \/ identity.state = "authenticated" /\ identity.deadline = "none"
       \/ identity.state \notin {"authenticated", "expired"}
       \/ identity.login
    /\ pc["identity"] \notin {"probe", "recover", "discover", "submit"}
    /\ pc["identity"] = "inner" => identity.state \notin {"authenticated", "expired"}

\* A login whose outcome is unknown, with no retry scheduled before it, is the
\* last one that this runtime posts by itself.
PostOK ==
  /\ \A c \in Callers : pc[c] \in {"discover", "submit"} => resume.attempt = "consumed"
  /\ history.posted = "final" =>
       /\ identity.state \in {"anonymous", "authenticating"}
       /\ resume.at = "none" /\ resume.attempt = "consumed"
       /\ pc["resume"] = "idle"
       /\ pc["identity"] \notin {"probe", "recover", "discover", "submit"}

\* The nesting depth covers the frames above the last one that found it zero.
ChainOK ==
  /\ ProofInsideChain
  /\ \A s \in Nested :
       IF HasParent(s) /\ ParentOf[s] \in Nested
       THEN /\ ParentOf[s] \in root => portal.depth <= 1
            /\ ParentOf[s] \notin root /\ portal.depth > 0 => portal.depth > 1
            /\ root = {} /\ portal.depth > 0 => portal.depth > 2
       ELSE Nested = {s} /\ root = {} /\ portal.depth > 0 => portal.depth > 1

\* A frame waits for its parent's refresh only while the parent is not proven:
\* whoever answers the parent at once leaves no frame behind.
NestedOK ==
  \A s \in Targets :
    pc[s] = "nested" /\ HasParent(s) /\ pc[ParentOf[s]] = "begin" => ~Proven(ParentOf[s])

\* A service handed off with no business read since is still proven and
\* waited for, or its gate is closed.
Waited(s) ==
  /\ pc[s] \in {"idle", "begin", "identity"}
  /\ pc[s] = "identity" => s \in awaiting /\ s \in proven
  /\ direct # s /\ (direct # "none" /\ HasParent(direct) => ParentOf[direct] # s)
  /\ \/ s \in awaiting /\ s \in proven /\ (pc[s] = "begin" => ~Live)
     \/ gate[s].result = "failed" /\ gate[s].retry = "none"
     \/ gate[s].result = "ok" /\ gate[s].retry = "none" /\ (pc[s] = "begin" => ~Proven(s))
SpentOK ==
  /\ history.spent # {} => identity.state \in {"authenticated", "expired"}
  /\ \A s \in (Targets \cap history.spent) \ {"info"} : Waited(s)

IInv ==
  /\ TypeOK /\ StackOK /\ IdentityOK /\ WaitOK /\ PostOK
  /\ GateOK /\ TaintOK /\ ChainOK /\ NestedOK /\ SpentOK

=============================================================================
