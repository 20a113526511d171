---------------------------- MODULE RequestGate ----------------------------
(***************************************************************************)
(* The process-wide pacing of campus requests: a fair semaphore bounds the *)
(* requests in flight, an authentication or consuming request takes every  *)
(* permit, and a shared deadline holds dispatches back when a server asks  *)
(* for it.                                                                 *)
(*                                                                         *)
(* Time is relative: `cooldown` and `sleep` count down what is left.  The  *)
(* deadline is checked under a short mutex, so a check is one step; a      *)
(* future may be dropped wherever the code awaits.                         *)
(***************************************************************************)
EXTENDS Naturals, Sequences, FiniteSets

CONSTANTS
  Tasks,      \* callers of execute_once
  Permits,    \* MAX_READ_DISPATCHES
  Gap,        \* configured_request_gap: least distance of two dispatches
  MaxDelay    \* bound on the delay a server asks for

ASSUME GateAssumption ==
  /\ Permits \in Nat \ {0}
  /\ MaxDelay \in Nat
  /\ Gap \in 0..MaxDelay

VARIABLES
  pc,         \* where a caller is
  exclusive,  \* does its request take every permit
  queue,      \* callers waiting for permits, in order of arrival
  free,       \* permits available
  cooldown,   \* time left until next_dispatch
  sleep,      \* time left a caller sleeps
  told        \* history: time left of the longest delay observed

vars == <<pc, exclusive, queue, free, cooldown, sleep, told>>

\* A permit is held from its grant until the response was observed.
Holding == {"check", "asleep", "passed", "sent", "answered"}
Steps   == {"idle", "queued"} \cup Holding

NeedOne(t) == 1     \* mutant: an authentication request is a read like any other
Need(t) == IF exclusive[t] THEN Permits ELSE 1

Later(a, b) == IF a < b THEN b ELSE a
Elapse(d)   == IF d = 0 THEN 0 ELSE d - 1

To(t, step) == pc' = [pc EXCEPT ![t] = step]

-----------------------------------------------------------------------------
(* acquire_for: the semaphore, then the deadline.                          *)

\* dispatch_requires_exclusivity, or the caller, decides the kind.
Arrive(t) ==
  /\ pc[t] = "idle"
  /\ \E x \in BOOLEAN : exclusive' = [exclusive EXCEPT ![t] = x]
  /\ queue' = Append(queue, t)
  /\ To(t, "queued")
  /\ UNCHANGED <<free, cooldown, sleep, told>>

Without(q, i) == SubSeq(q, 1, i - 1) \o SubSeq(q, i + 1, Len(q))

\* Mutant: whoever fits is served, so that reads overtake an exclusive request.
GrantBarging(t) ==
  /\ pc[t] = "queued"
  /\ Need(t) <= free
  /\ free' = free - Need(t)
  /\ \E i \in 1..Len(queue) : queue[i] = t /\ queue' = Without(queue, i)
  /\ To(t, "check")
  /\ UNCHANGED <<exclusive, cooldown, sleep, told>>

\* The semaphore serves the caller that waits longest; the permits it still
\* lacks are kept for it.
Grant(t) ==
  /\ pc[t] = "queued"
  /\ queue # <<>> /\ Head(queue) = t
  /\ Need(t) <= free
  /\ free' = free - Need(t)
  /\ queue' = Tail(queue)
  /\ To(t, "check")
  /\ UNCHANGED <<exclusive, cooldown, sleep, told>>

\* The deadline has not passed: sleep without reserving it.
Wait(t) ==
  /\ pc[t] = "check"
  /\ cooldown > 0
  /\ sleep' = [sleep EXCEPT ![t] = cooldown]
  /\ To(t, "asleep")
  /\ UNCHANGED <<exclusive, queue, free, cooldown, told>>

\* Mutant: the deadline seen before the sleep is trusted.
WakeWithoutRecheck(t) ==
  /\ pc[t] = "asleep"
  /\ sleep[t] = 0
  /\ cooldown' = Gap
  /\ To(t, "passed")
  /\ UNCHANGED <<exclusive, queue, free, sleep, told>>

\* Another answer may have extended the deadline meanwhile: check again.
Wake(t) ==
  /\ pc[t] = "asleep"
  /\ sleep[t] = 0
  /\ To(t, "check")
  /\ UNCHANGED <<exclusive, queue, free, cooldown, sleep, told>>

Pass(t) ==
  /\ pc[t] = "check"
  /\ cooldown = 0
  /\ cooldown' = Gap
  /\ To(t, "passed")
  /\ UNCHANGED <<exclusive, queue, free, sleep, told>>

-----------------------------------------------------------------------------
(* execute_once_with_exclusivity: one dispatch under the permit.           *)

Send(t) ==
  /\ pc[t] = "passed"
  /\ To(t, "sent")
  /\ UNCHANGED <<exclusive, queue, free, cooldown, sleep, told>>

Answer(t) ==
  /\ pc[t] = "sent"
  /\ To(t, "answered")
  /\ UNCHANGED <<exclusive, queue, free, cooldown, sleep, told>>

\* Mutant: the error path forgets its permit.
FailForgotten(t) ==
  /\ pc[t] = "sent"
  /\ To(t, "idle")
  /\ UNCHANGED <<exclusive, queue, free, cooldown, sleep, told>>

\* Transport error or timeout: nothing to observe.
Fail(t) ==
  /\ pc[t] = "sent"
  /\ free' = free + Need(t)
  /\ To(t, "idle")
  /\ UNCHANGED <<exclusive, queue, cooldown, sleep, told>>

\* The deadline is extended before the permit is released.  A delay of 0 is an
\* answer that asks for none, or for one the clock cannot represent.
Observe(t) ==
  /\ pc[t] = "answered"
  /\ \E delay \in 0..MaxDelay :
       /\ cooldown' = Later(cooldown, delay)
       /\ told' = Later(told, delay)
  /\ free' = free + Need(t)
  /\ To(t, "idle")
  /\ UNCHANGED <<exclusive, queue, sleep>>

\* Mutant: the permit of a dropped future is lost.
DropLeaking(t) ==
  /\ pc[t] \in Holding \ {"passed"}
  /\ sleep' = [sleep EXCEPT ![t] = 0]
  /\ To(t, "idle")
  /\ UNCHANGED <<exclusive, queue, free, cooldown, told>>

\* The caller is dropped at an await: in the queue, or holding its permit.
\* "passed" is not one: the request goes out in the same poll.
Drop(t) ==
  /\ pc[t] \in Holding \ {"passed"}
  /\ free' = free + Need(t)
  /\ sleep' = [sleep EXCEPT ![t] = 0]
  /\ To(t, "idle")
  /\ UNCHANGED <<exclusive, queue, cooldown, told>>

Leave(t) ==
  /\ pc[t] = "queued"
  /\ \E i \in 1..Len(queue) : queue[i] = t /\ queue' = Without(queue, i)
  /\ To(t, "idle")
  /\ UNCHANGED <<exclusive, free, cooldown, sleep, told>>

Tick ==
  /\ cooldown > 0 \/ \E t \in Tasks : sleep[t] > 0
  /\ cooldown' = Elapse(cooldown)
  /\ sleep' = [t \in Tasks |-> Elapse(sleep[t])]
  /\ told' = Elapse(told)
  /\ UNCHANGED <<pc, exclusive, queue, free>>

-----------------------------------------------------------------------------
Init ==
  /\ pc = [t \in Tasks |-> "idle"]
  /\ exclusive = [t \in Tasks |-> FALSE]
  /\ queue = <<>>
  /\ free = Permits
  /\ cooldown = 0
  /\ sleep = [t \in Tasks |-> 0]
  /\ told = 0

\* What a caller does on its own, or its server and transport for it.
Run(t) ==
  \/ Grant(t) \/ Wait(t) \/ Wake(t) \/ Pass(t)
  \/ Send(t) \/ Answer(t) \/ Fail(t) \/ Observe(t)

Next ==
  \/ \E t \in Tasks : Arrive(t) \/ Run(t) \/ Drop(t) \/ Leave(t)
  \/ Tick

Spec == Init /\ [][Next]_vars

\* The executor polls a caller that can go on, the transport has a timeout and
\* the clock advances.  Nobody has to make a request or to drop one.
FairSpec == Spec /\ WF_vars(Tick) /\ \A t \in Tasks : WF_vars(Run(t))

-----------------------------------------------------------------------------
TypeOK ==
  /\ pc \in [Tasks -> Steps]
  /\ exclusive \in [Tasks -> BOOLEAN]
  /\ queue \in Seq(Tasks)
  /\ free \in 0..Permits
  /\ cooldown \in 0..MaxDelay
  /\ sleep \in [Tasks -> 0..MaxDelay]
  /\ told \in 0..MaxDelay

Holders == {t \in Tasks : pc[t] \in Holding}

\* Whatever fails, times out or is dropped, no permit is lost or handed out
\* twice: the permits are free or held one by each read, or an exclusive
\* request holds them all.
PermitsAccounted ==
  /\ IsFiniteSet(Holders)
  /\ \/ /\ \A t \in Holders : ~exclusive[t]
        /\ free + Cardinality(Holders) = Permits
     \/ /\ \E t \in Holders : exclusive[t] /\ Holders = {t}
        /\ free = 0

\* "Auth submissions and consuming navigation acquire every permit": while one
\* is past the semaphore no other request is.
ExclusiveAlone ==
  \A t, u \in Tasks :
    pc[t] \in Holding /\ pc[u] \in Holding /\ exclusive[t] => t = u

\* "A successful concurrent response must never erase a server-requested
\* deadline", and neither does the spacing a dispatch reserves.
DelayKept == told <= cooldown

\* The strengthening of the two invariants above that the proofs need: an
\* exclusive request that passed its check has no delay left to respect, since
\* nobody else can observe an answer meanwhile.
ExclusivePassedCool ==
  \A t \in Tasks : exclusive[t] /\ pc[t] = "passed" => told = 0

\* "Extend cooldown before releasing the dispatch permit": an exclusive request
\* goes out only when every delay a server asked for has passed - even between
\* its check and its dispatch no other answer can ask for one.
ExclusiveAfterDelay ==
  [][\A t \in Tasks :
       exclusive[t] /\ pc[t] = "passed" /\ pc'[t] = "sent" => told = 0]_vars

\* "The fair semaphore prevents queued auth from starving behind new reads":
\* whatever the servers answer, a queued request gets its permit and a queued
\* exclusive request is dispatched, unless its caller drops it.
QueueServed    == \A t \in Tasks : pc[t] = "queued" ~> pc[t] # "queued"
ExclusiveSent  == \A t \in Tasks : pc[t] = "queued" /\ exclusive[t] ~> pc[t] \in {"sent", "idle"}
=============================================================================
