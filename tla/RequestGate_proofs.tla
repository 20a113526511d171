------------------------- MODULE RequestGate_proofs -------------------------
(***************************************************************************)
(* Proofs, for any callers, number of permits, spacing and bound on the    *)
(* delays, that RequestGate keeps its invariants.                          *)
(*                                                                         *)
(* The set of callers need not be finite: only finitely many hold permits, *)
(* which is part of PermitsAccounted.                                      *)
(*                                                                         *)
(* That nobody starves needs fairness and is checked, not proved; proved   *)
(* is what it rests on: nobody gets ahead of a caller that waits, and the  *)
(* first in the queue waits for nothing but requests under way.            *)
(***************************************************************************)
EXTENDS RequestGate, FiniteSetTheorems, SequenceTheorems, TLAPS

IInv == TypeOK /\ PermitsAccounted /\ DelayKept /\ ExclusivePassedCool

-----------------------------------------------------------------------------
(* What the permits say of the callers.                                    *)

\* A request needs at least a permit and at most all of them.
LEMMA NeedRange ==
  ASSUME TypeOK, NEW t \in Tasks
  PROVE  Need(t) \in 1..Permits
BY GateAssumption DEF TypeOK, Need

\* No two requests are past the semaphore when one of them is exclusive.
LEMMA AccountedAlone ==
  ASSUME PermitsAccounted
  PROVE  ExclusiveAlone
<1> SUFFICES ASSUME NEW t \in Tasks, NEW u \in Tasks,
                    pc[t] \in Holding, pc[u] \in Holding, exclusive[t]
             PROVE  t = u
    BY DEF ExclusiveAlone
<1>1. t \in Holders /\ u \in Holders BY DEF Holders
<1>2. PICK h \in Holders : Holders = {h} BY <1>1 DEF PermitsAccounted
<1>. QED BY <1>1, <1>2

\* A holder's permits fit into the ones that are taken.
LEMMA ReleaseFits ==
  ASSUME TypeOK, PermitsAccounted, NEW t \in Tasks, pc[t] \in Holding
  PROVE  free + Need(t) \in 0..Permits
<1>1. t \in Holders BY DEF Holders
<1>2. CASE (\A h \in Holders : ~exclusive[h]) /\ free + Cardinality(Holders) = Permits
  <2>1. Need(t) = 1 BY <1>1, <1>2 DEF Need
  <2>2. IsFiniteSet(Holders) BY DEF PermitsAccounted
  <2>3. Cardinality(Holders) # 0 BY <1>1, <2>2, FS_EmptySet
  <2>4. Cardinality(Holders) \in Nat BY <2>2, FS_CardinalityType
  <2>. QED BY <1>2, <2>1, <2>3, <2>4, GateAssumption DEF TypeOK
<1>3. CASE free = 0
  BY <1>3, NeedRange, GateAssumption DEF TypeOK
<1>. QED BY <1>2, <1>3 DEF PermitsAccounted

\* A step that grants and releases nothing keeps the account.
LEMMA AccountKept ==
  ASSUME PermitsAccounted, Holders' = Holders, free' = free,
         \A t \in Holders : exclusive'[t] = exclusive[t]
  PROVE  PermitsAccounted'
BY DEF PermitsAccounted

\* A grant moves permits from the free ones to a caller that held none.
LEMMA AccountGranted ==
  ASSUME TypeOK, PermitsAccounted, NEW t \in Tasks, t \notin Holders,
         Need(t) <= free, free' = free - Need(t), exclusive' = exclusive,
         Holders' = Holders \cup {t}
  PROVE  PermitsAccounted'
<1>1. Need(t) \in 1..Permits BY NeedRange
<1>2. free \in 0..Permits /\ Permits \in Nat \ {0} BY GateAssumption DEF TypeOK
<1>3. IsFiniteSet(Holders) BY DEF PermitsAccounted
<1>4. Cardinality(Holders) \in Nat BY <1>3, FS_CardinalityType
<1>5. (\A h \in Holders : ~exclusive[h]) /\ free + Cardinality(Holders) = Permits
  BY <1>1, <1>2 DEF PermitsAccounted
<1>6. /\ IsFiniteSet(Holders \cup {t})
      /\ Cardinality(Holders \cup {t}) = Cardinality(Holders) + 1
  BY <1>3, FS_AddElement
<1>7. CASE ~exclusive[t]
  <2>1. Need(t) = 1 BY <1>7 DEF Need
  <2>2. free' + Cardinality(Holders \cup {t}) = Permits
    BY <1>2, <1>4, <1>5, <1>6, <2>1
  <2>. QED BY <1>5, <1>6, <1>7, <2>2 DEF PermitsAccounted
<1>8. CASE exclusive[t]
  <2>1. Need(t) = Permits BY <1>8 DEF Need
  <2>2. free = Permits BY <1>2, <2>1
  <2>3. Cardinality(Holders) = 0 BY <1>2, <1>4, <1>5, <2>2
  <2>4. Holders = {} BY <1>3, <2>3, FS_EmptySet
  <2>5. Holders' = {t} BY <2>4
  <2>6. free' = 0 BY <1>2, <2>1, <2>2
  <2>. QED BY <1>6, <1>8, <2>5, <2>6 DEF PermitsAccounted
<1>. QED BY <1>7, <1>8

\* A release returns what the caller held.
LEMMA AccountReleased ==
  ASSUME TypeOK, PermitsAccounted, NEW t \in Tasks, t \in Holders,
         free' = free + Need(t), exclusive' = exclusive,
         Holders' = Holders \ {t}
  PROVE  PermitsAccounted'
<1>1. free \in 0..Permits /\ Permits \in Nat \ {0} BY GateAssumption DEF TypeOK
<1>2. IsFiniteSet(Holders) BY DEF PermitsAccounted
<1>3. Cardinality(Holders) \in Nat BY <1>2, FS_CardinalityType
<1>4. /\ IsFiniteSet(Holders \ {t})
      /\ Cardinality(Holders \ {t}) = Cardinality(Holders) - 1
  BY <1>2, FS_RemoveElement
<1>5. CASE (\A h \in Holders : ~exclusive[h]) /\ free + Cardinality(Holders) = Permits
  <2>1. Need(t) = 1 BY <1>5 DEF Need
  <2>2. free' + Cardinality(Holders \ {t}) = Permits BY <1>1, <1>3, <1>4, <1>5, <2>1
  <2>. QED BY <1>4, <1>5, <2>2 DEF PermitsAccounted
<1>6. CASE (\E h \in Holders : exclusive[h] /\ Holders = {h}) /\ free = 0
  <2>1. exclusive[t] /\ Holders = {t} BY <1>6
  <2>2. Holders' = {} BY <2>1
  <2>3. free' = Permits BY <1>1, <1>6, <2>1 DEF Need
  <2>4. free' + Cardinality({}) = Permits BY <1>1, <2>3, FS_EmptySet
  <2>. QED BY <1>4, <2>2, <2>4 DEF PermitsAccounted
<1>. QED BY <1>5, <1>6 DEF PermitsAccounted

\* A caller that leaves the wait queue leaves the others in it.
LEMMA WithoutType ==
  ASSUME NEW q \in Seq(Tasks), NEW i \in 1..Len(q)
  PROVE  Without(q, i) \in Seq(Tasks)
<1>1. Len(q) \in Nat BY LenProperties
<1>2. \A j \in 1..Len(q) : q[j] \in Tasks BY ElementOfSeq
<1>3. SubSeq(q, 1, i - 1) \in Seq(Tasks)
  <2>1. \A j \in 1..(i - 1) : q[j] \in Tasks BY <1>1, <1>2
  <2>. QED BY <1>1, <2>1, SubSeqProperties
<1>4. SubSeq(q, i + 1, Len(q)) \in Seq(Tasks)
  <2>1. \A j \in (i + 1)..Len(q) : q[j] \in Tasks BY <1>1, <1>2
  <2>. QED BY <1>1, <2>1, SubSeqProperties
<1>. QED BY <1>3, <1>4, ConcatProperties DEF Without

-----------------------------------------------------------------------------
(* The inductive invariant.                                                *)

LEMMA InitIInv == Init => IInv
<1> SUFFICES ASSUME Init PROVE IInv
    OBVIOUS
<1>1. TypeOK BY GateAssumption DEF Init, TypeOK, Steps, Holding
<1>2. PermitsAccounted
  <2>1. Holders = {} BY DEF Init, Holders, Holding
  <2>2. free + Cardinality(Holders) = Permits BY <2>1, FS_EmptySet, GateAssumption DEF Init
  <2>. QED BY <2>1, <2>2, FS_EmptySet DEF PermitsAccounted
<1>3. DelayKept BY DEF Init, DelayKept
<1>4. ExclusivePassedCool BY DEF Init, ExclusivePassedCool
<1>. QED BY <1>1, <1>2, <1>3, <1>4 DEF IInv

LEMMA StepTypeOK ==
  ASSUME IInv, [Next]_vars
  PROVE  TypeOK'
<1> USE GateAssumption DEF IInv, TypeOK
<1>1. ASSUME NEW t \in Tasks, Arrive(t) PROVE TypeOK'
  BY <1>1 DEF Arrive, To, Steps
<1>2. ASSUME NEW t \in Tasks, Grant(t) PROVE TypeOK'
  <2>1. queue' \in Seq(Tasks) BY <1>2, HeadTailProperties DEF Grant
  <2>2. free' \in 0..Permits BY <1>2, NeedRange DEF Grant
  <2>. QED BY <1>2, <2>1, <2>2 DEF Grant, To, Steps, Holding
<1>3. ASSUME NEW t \in Tasks, Wait(t) PROVE TypeOK'
  BY <1>3 DEF Wait, To, Steps, Holding
<1>4. ASSUME NEW t \in Tasks, Wake(t) PROVE TypeOK'
  BY <1>4 DEF Wake, To, Steps, Holding
<1>5. ASSUME NEW t \in Tasks, Pass(t) PROVE TypeOK'
  BY <1>5 DEF Pass, To, Steps, Holding
<1>6. ASSUME NEW t \in Tasks, Send(t) PROVE TypeOK'
  BY <1>6 DEF Send, To, Steps, Holding
<1>7. ASSUME NEW t \in Tasks, Answer(t) PROVE TypeOK'
  BY <1>7 DEF Answer, To, Steps, Holding
<1>8. ASSUME NEW t \in Tasks, Fail(t) PROVE TypeOK'
  <2>1. pc[t] \in Holding BY <1>8 DEF Fail, Holding
  <2>2. free' \in 0..Permits BY <1>8, <2>1, ReleaseFits DEF Fail
  <2>. QED BY <1>8, <2>2 DEF Fail, To, Steps
<1>9. ASSUME NEW t \in Tasks, Observe(t) PROVE TypeOK'
  <2>1. pc[t] \in Holding BY <1>9 DEF Observe, Holding
  <2>2. free' \in 0..Permits BY <1>9, <2>1, ReleaseFits DEF Observe
  <2>3. cooldown' \in 0..MaxDelay /\ told' \in 0..MaxDelay BY <1>9 DEF Observe, Later
  <2>. QED BY <1>9, <2>2, <2>3 DEF Observe, To, Steps
<1>10. ASSUME NEW t \in Tasks, Drop(t) PROVE TypeOK'
  <2>1. free' \in 0..Permits BY <1>10, ReleaseFits DEF Drop
  <2>. QED BY <1>10, <2>1 DEF Drop, To, Steps
<1>11. ASSUME NEW t \in Tasks, Leave(t) PROVE TypeOK'
  <2>1. queue' \in Seq(Tasks) BY <1>11, WithoutType DEF Leave
  <2>. QED BY <1>11, <2>1 DEF Leave, To, Steps
<1>12. ASSUME Tick PROVE TypeOK'
  BY <1>12 DEF Tick, Elapse
<1>13. ASSUME UNCHANGED vars PROVE TypeOK'
  BY <1>13 DEF vars
<1>. QED BY <1>1, <1>2, <1>3, <1>4, <1>5, <1>6, <1>7, <1>8, <1>9, <1>10, <1>11,
         <1>12, <1>13 DEF Next, Run

LEMMA StepPermits ==
  ASSUME IInv, [Next]_vars
  PROVE  PermitsAccounted'
<1> USE DEF IInv
<1>1. ASSUME NEW t \in Tasks, Arrive(t) PROVE PermitsAccounted'
  <2>1. t \notin Holders BY <1>1 DEF Arrive, Holders, Holding
  <2>2. Holders' = Holders BY <1>1 DEF Arrive, To, Holders, Holding, TypeOK
  <2>3. \A h \in Holders : exclusive'[h] = exclusive[h]
    BY <1>1, <2>1 DEF Arrive, TypeOK, Holders
  <2>. QED BY <1>1, <2>2, <2>3, AccountKept DEF Arrive
<1>2. ASSUME NEW t \in Tasks, Grant(t) PROVE PermitsAccounted'
  <2>1. t \notin Holders BY <1>2 DEF Grant, Holders, Holding
  <2>2. Holders' = Holders \cup {t} BY <1>2 DEF Grant, To, Holders, Holding, TypeOK
  <2>. QED BY <1>2, <2>1, <2>2, AccountGranted DEF Grant
<1>3. ASSUME NEW t \in Tasks, Wait(t) \/ Wake(t) \/ Pass(t) \/ Send(t) \/ Answer(t)
      PROVE  PermitsAccounted'
  <2>1. pc[t] \in Holding /\ exclusive' = exclusive /\ free' = free
    BY <1>3 DEF Wait, Wake, Pass, Send, Answer, Holding
  <2>2. PICK s \in Holding : pc' = [pc EXCEPT ![t] = s]
    BY <1>3 DEF Wait, Wake, Pass, Send, Answer, Holding, To
  <2>3. Holders' = Holders BY <2>1, <2>2 DEF Holders, TypeOK
  <2>. QED BY <2>1, <2>3, AccountKept
<1>4. ASSUME NEW t \in Tasks, Fail(t) \/ Observe(t) \/ Drop(t) PROVE PermitsAccounted'
  <2>1. pc[t] \in Holding /\ exclusive' = exclusive /\ free' = free + Need(t)
    BY <1>4 DEF Fail, Observe, Drop, Holding
  <2>2. pc' = [pc EXCEPT ![t] = "idle"] BY <1>4 DEF Fail, Observe, Drop, To
  <2>3. t \in Holders BY <2>1 DEF Holders
  <2>4. Holders' = Holders \ {t} BY <2>2 DEF Holders, Holding, TypeOK
  <2>. QED BY <2>1, <2>3, <2>4, AccountReleased
<1>5. ASSUME NEW t \in Tasks, Leave(t) PROVE PermitsAccounted'
  <2>1. Holders' = Holders BY <1>5 DEF Leave, To, Holders, Holding, TypeOK
  <2>. QED BY <1>5, <2>1, AccountKept DEF Leave
<1>6. ASSUME Tick \/ UNCHANGED vars PROVE PermitsAccounted'
  <2>1. Holders' = Holders BY <1>6 DEF Tick, vars, Holders
  <2>. QED BY <1>6, <2>1, AccountKept DEF Tick, vars
<1>. QED BY <1>1, <1>2, <1>3, <1>4, <1>5, <1>6 DEF Next, Run

\* Only a dispatch sets the deadline anew, and it does so when no delay is left.
LEMMA StepDelay ==
  ASSUME IInv, [Next]_vars
  PROVE  DelayKept'
<1> USE GateAssumption DEF IInv, TypeOK, DelayKept
<1>1. ASSUME NEW t \in Tasks, Pass(t) PROVE DelayKept'
  BY <1>1 DEF Pass
<1>2. ASSUME NEW t \in Tasks, Observe(t) PROVE DelayKept'
  BY <1>2 DEF Observe, Later
<1>3. ASSUME Tick PROVE DelayKept'
  BY <1>3 DEF Tick, Elapse
<1>4. ASSUME UNCHANGED <<cooldown, told>> PROVE DelayKept'
  BY <1>4
<1>. QED BY <1>1, <1>2, <1>3, <1>4 DEF Next, Run, vars, Arrive, Grant, Wait, Wake,
         Send, Answer, Fail, Drop, Leave

\* Between its check and its dispatch an exclusive request is alone, so that
\* no answer is observed.
LEMMA StepPassedCool ==
  ASSUME IInv, [Next]_vars
  PROVE  ExclusivePassedCool'
<1> SUFFICES ASSUME NEW x \in Tasks, exclusive'[x], pc'[x] = "passed"
             PROVE  told' = 0
    BY DEF ExclusivePassedCool
<1> USE GateAssumption DEF IInv, TypeOK
<1>1. ASSUME NEW t \in Tasks, Pass(t) PROVE told' = 0
  BY <1>1 DEF Pass, DelayKept
<1>2. ASSUME NEW t \in Tasks, Observe(t) PROVE told' = 0
  <2>1. x # t /\ exclusive[x] /\ pc[x] = "passed" BY <1>2 DEF Observe, To
  <2>2. pc[x] \in Holding /\ pc[t] \in Holding BY <1>2, <2>1 DEF Observe, Holding
  <2>. QED BY <2>1, <2>2, AccountedAlone DEF ExclusiveAlone
<1>3. ASSUME told' = told \/ told' = Elapse(told), exclusive[x], pc[x] = "passed"
      PROVE  told' = 0
  BY <1>3 DEF ExclusivePassedCool, Elapse
<1>4. ASSUME NEW t \in Tasks,
             Arrive(t) \/ Grant(t) \/ Wait(t) \/ Wake(t) \/ Send(t) \/ Answer(t)
               \/ Fail(t) \/ Drop(t) \/ Leave(t)
      PROVE  told' = 0
  <2>1. PICK s \in Steps \ {"passed"} : pc' = [pc EXCEPT ![t] = s]
    BY <1>4 DEF Arrive, Grant, Wait, Wake, Send, Answer, Fail, Drop, Leave, To, Steps,
                Holding
  <2>2. x # t /\ pc[x] = "passed" BY <2>1
  <2>3. exclusive[x] BY <1>4, <2>2 DEF Arrive, Grant, Wait, Wake, Send, Answer, Fail,
                                        Drop, Leave
  <2>4. told' = told BY <1>4 DEF Arrive, Grant, Wait, Wake, Send, Answer, Fail, Drop,
                                 Leave
  <2>. QED BY <1>3, <2>2, <2>3, <2>4
<1>5. CASE Tick BY <1>3, <1>5 DEF Tick
<1>6. CASE UNCHANGED vars BY <1>3, <1>6 DEF vars
<1>. QED BY <1>1, <1>2, <1>4, <1>5, <1>6 DEF Next, Run

LEMMA StepIInv == IInv /\ [Next]_vars => IInv'
BY StepTypeOK, StepPermits, StepDelay, StepPassedCool DEF IInv

LEMMA GateInvariance == Spec => []IInv
BY InitIInv, StepIInv, PTL DEF Spec

-----------------------------------------------------------------------------
(* The queue: every waiting caller is in it once, and in order of arrival.  *)

QueueOK ==
  /\ \A i, j \in 1..Len(queue) : queue[i] = queue[j] => i = j
  /\ \A t \in Tasks : pc[t] = "queued" <=> \E i \in 1..Len(queue) : queue[i] = t

\* The callers that arrived before t and still wait.
Ahead(t) ==
  {u \in Tasks : \E i, j \in 1..Len(queue) : i < j /\ queue[i] = u /\ queue[j] = t}

\* "The fair semaphore prevents queued auth from starving behind new reads":
\* nobody ever gets ahead of a caller that waits, and a permit is granted only
\* to the one that nobody is ahead of.
FirstComeFirstServed ==
  [][\A t \in Tasks :
       pc[t] = "queued" =>
         /\ pc'[t] = "queued" => Ahead(t)' \subseteq Ahead(t)
         /\ pc'[t] \in Holding => Ahead(t) = {}]_vars

\* Whoever waits longest has its permits at once, or waits for a request that
\* is under way.
NobodyStranded == queue # <<>> => Need(Head(queue)) <= free \/ Holders # {}

\* What is left of a queue when one of it goes.
LEMMA WithoutProperties ==
  ASSUME NEW q \in Seq(Tasks), NEW i \in 1..Len(q)
  PROVE  /\ Len(Without(q, i)) = Len(q) - 1
         /\ \A k \in 1..(Len(q) - 1) : Without(q, i)[k] = IF k < i THEN q[k] ELSE q[k + 1]
<1>1. Len(q) \in Nat BY LenProperties
<1>2. \A j \in 1..Len(q) : q[j] \in Tasks BY ElementOfSeq
<1> DEFINE a == SubSeq(q, 1, i - 1)
           b == SubSeq(q, i + 1, Len(q))
<1>3. /\ a \in Seq(Tasks) /\ Len(a) = i - 1
      /\ \A k \in 1..(i - 1) : a[k] = q[k]
  <2>1. \A j \in 1..(i - 1) : q[j] \in Tasks BY <1>1, <1>2
  <2>2. /\ a \in Seq(Tasks)
        /\ Len(a) = IF 1 <= i - 1 THEN (i - 1) - 1 + 1 ELSE 0
        /\ \A k \in 1..((i - 1) - 1 + 1) : a[k] = q[1 + k - 1]
    BY <1>1, <2>1, SubSeqProperties
  <2>. QED BY <1>1, <2>2
<1>4. /\ b \in Seq(Tasks) /\ Len(b) = Len(q) - i
      /\ \A k \in 1..(Len(q) - i) : b[k] = q[i + k]
  <2>1. \A j \in (i + 1)..Len(q) : q[j] \in Tasks BY <1>1, <1>2
  <2>2. /\ b \in Seq(Tasks)
        /\ Len(b) = IF i + 1 <= Len(q) THEN Len(q) - (i + 1) + 1 ELSE 0
        /\ \A k \in 1..(Len(q) - (i + 1) + 1) : b[k] = q[(i + 1) + k - 1]
    BY <1>1, <2>1, SubSeqProperties
  <2>. QED BY <1>1, <2>2
<1> HIDE DEF a, b
<1>5. Without(q, i) = a \o b BY DEF Without, a, b
<1>6. /\ Len(a \o b) = Len(a) + Len(b)
      /\ \A k \in 1..(Len(a) + Len(b)) :
           (a \o b)[k] = IF k <= Len(a) THEN a[k] ELSE b[k - Len(a)]
  BY <1>3, <1>4, ConcatProperties
<1>7. Len(a) + Len(b) = Len(q) - 1 BY <1>1, <1>3, <1>4
<1>8. ASSUME NEW k \in 1..(Len(q) - 1)
      PROVE  (a \o b)[k] = IF k < i THEN q[k] ELSE q[k + 1]
  <2>1. CASE k < i
    <3>1. k \in 1..(i - 1) /\ k <= Len(a) BY <1>1, <1>3, <2>1
    <3>. QED BY <1>3, <1>6, <1>7, <2>1, <3>1
  <2>2. CASE ~(k < i)
    <3>1. /\ k - (i - 1) \in 1..(Len(q) - i) /\ ~(k <= i - 1)
          /\ i + (k - (i - 1)) = k + 1
      BY <1>1, <2>2
    <3>2. (a \o b)[k] = b[k - (i - 1)] BY <1>3, <1>6, <1>7, <3>1
    <3>. QED BY <1>4, <2>2, <3>1, <3>2
  <2>. QED BY <2>1, <2>2
<1>. QED BY <1>5, <1>6, <1>7, <1>8

\* The caller at position i goes, granted or dropped: the others keep their order.
LEMMA OneGoes ==
  ASSUME TypeOK, QueueOK, NEW i \in 1..Len(queue), NEW s \in Steps \ {"queued"},
         Len(queue') = Len(queue) - 1,
         \A k \in 1..(Len(queue) - 1) :
           queue'[k] = IF k < i THEN queue[k] ELSE queue[k + 1],
         pc' = [pc EXCEPT ![queue[i]] = s]
  PROVE  QueueOK' /\ \A t \in Tasks : Ahead(t)' \subseteq Ahead(t)
<1> DEFINE at(k) == IF k < i THEN k ELSE k + 1
<1>1. Len(queue) \in Nat BY LenProperties DEF TypeOK
<1>2. \A k \in 1..Len(queue') : at(k) \in 1..Len(queue) /\ at(k) # i /\ queue'[k] = queue[at(k)]
  BY <1>1
<1>3. \A k, l \in 1..Len(queue') : (k < l <=> at(k) < at(l)) /\ (at(k) = at(l) => k = l)
  BY <1>1
<1>4. \A j \in 1..Len(queue) : j # i => \E k \in 1..Len(queue') : at(k) = j
  <2> SUFFICES ASSUME NEW j \in 1..Len(queue), j # i
               PROVE  \E k \in 1..Len(queue') : at(k) = j
      OBVIOUS
  <2>1. CASE j < i
    <3>1. j \in 1..Len(queue') /\ at(j) = j BY <1>1, <2>1
    <3>. QED BY <3>1
  <2>2. CASE j > i
    <3>1. j - 1 \in 1..Len(queue') /\ at(j - 1) = j BY <1>1, <2>2
    <3>. QED BY <3>1
  <2>. QED BY <1>1, <2>1, <2>2
<1> HIDE DEF at
<1>5. queue[i] \in Tasks BY ElementOfSeq DEF TypeOK
<1>6. ASSUME NEW k \in 1..Len(queue'), NEW l \in 1..Len(queue'), queue'[k] = queue'[l]
      PROVE  k = l
  BY <1>2, <1>3, <1>6 DEF QueueOK
<1>7. ASSUME NEW t \in Tasks
      PROVE  pc'[t] = "queued" <=> \E k \in 1..Len(queue') : queue'[k] = t
  <2>1. CASE t = queue[i]
    <3>1. pc'[t] # "queued" BY <1>5, <2>1 DEF TypeOK
    <3>2. \A k \in 1..Len(queue') : queue'[k] # t BY <1>2, <2>1 DEF QueueOK
    <3>. QED BY <3>1, <3>2
  <2>2. CASE t # queue[i]
    <3>1. pc'[t] = pc[t] BY <1>5, <2>2 DEF TypeOK
    <3>2. (\E j \in 1..Len(queue) : queue[j] = t) <=> \E k \in 1..Len(queue') : queue'[k] = t
      BY <1>2, <1>4, <2>2
    <3>. QED BY <3>1, <3>2 DEF QueueOK
  <2>. QED BY <2>1, <2>2
<1>8. ASSUME NEW t \in Tasks, NEW u \in Ahead(t)' PROVE u \in Ahead(t)
  <2>1. PICK k, l \in 1..Len(queue') : k < l /\ queue'[k] = u /\ queue'[l] = t
    BY <1>8 DEF Ahead
  <2>2. /\ at(k) \in 1..Len(queue) /\ at(l) \in 1..Len(queue) /\ at(k) < at(l)
        /\ queue[at(k)] = u /\ queue[at(l)] = t
    BY <1>2, <1>3, <2>1
  <2>3. u \in Tasks BY <1>8 DEF Ahead
  <2>. QED BY <2>2, <2>3 DEF Ahead
<1>. QED BY <1>6, <1>7, <1>8 DEF QueueOK

\* A newcomer goes to the end.
LEMMA OneArrives ==
  ASSUME TypeOK, QueueOK, NEW t \in Tasks, Arrive(t)
  PROVE  /\ QueueOK'
         /\ \A v \in Tasks : pc[v] = "queued" => Ahead(v)' \subseteq Ahead(v)
<1>1. Len(queue) \in Nat BY LenProperties DEF TypeOK
<1>2. /\ Len(queue') = Len(queue) + 1
      /\ \A k \in 1..Len(queue) : queue'[k] = queue[k]
      /\ queue'[Len(queue) + 1] = t
  BY AppendProperties DEF Arrive, TypeOK
<1>3. pc[t] = "idle" /\ pc' = [pc EXCEPT ![t] = "queued"] BY DEF Arrive, To
<1>4. \A k \in 1..Len(queue) : queue[k] # t BY <1>3 DEF QueueOK
<1>5. \A k \in 1..Len(queue') : k \in 1..Len(queue) \/ k = Len(queue) + 1 BY <1>1, <1>2
<1>6. \A k \in 1..Len(queue) : k \in 1..Len(queue') BY <1>1, <1>2
<1>7. ASSUME NEW k \in 1..Len(queue'), NEW l \in 1..Len(queue'), queue'[k] = queue'[l]
      PROVE  k = l
  BY <1>2, <1>4, <1>5, <1>7 DEF QueueOK
<1>8. ASSUME NEW v \in Tasks
      PROVE  pc'[v] = "queued" <=> \E k \in 1..Len(queue') : queue'[k] = v
  <2>1. CASE v = t
    <3>1. Len(queue) + 1 \in 1..Len(queue') BY <1>1, <1>2
    <3>. QED BY <1>2, <1>3, <2>1, <3>1 DEF TypeOK
  <2>2. CASE v # t
    <3>1. pc'[v] = pc[v] BY <1>3, <2>2 DEF TypeOK
    <3>2. (\E k \in 1..Len(queue) : queue[k] = v) <=> \E k \in 1..Len(queue') : queue'[k] = v
      BY <1>2, <1>5, <1>6, <2>2
    <3>. QED BY <3>1, <3>2 DEF QueueOK
  <2>. QED BY <2>1, <2>2
<1>9. ASSUME NEW v \in Tasks, pc[v] = "queued", NEW u \in Ahead(v)' PROVE u \in Ahead(v)
  <2>1. PICK k, l \in 1..Len(queue') : k < l /\ queue'[k] = u /\ queue'[l] = v
    BY <1>9 DEF Ahead
  <2>2. v # t BY <1>3, <1>9
  <2>3. l \in 1..Len(queue) BY <1>2, <1>5, <2>1, <2>2
  <2>4. k \in 1..Len(queue) BY <1>1, <2>1, <2>3
  <2>5. u \in Tasks BY <1>9 DEF Ahead
  <2>. QED BY <1>2, <2>1, <2>3, <2>4, <2>5 DEF Ahead
<1>. QED BY <1>7, <1>8, <1>9 DEF QueueOK

\* Grant and Leave as OneGoes sees them.
LEMMA GrantGoes ==
  ASSUME TypeOK, QueueOK, NEW t \in Tasks, Grant(t)
  PROVE  /\ QueueOK' /\ \A v \in Tasks : Ahead(v)' \subseteq Ahead(v)
         /\ Ahead(t) = {}
<1>1. Len(queue) \in Nat BY LenProperties DEF TypeOK
<1>2. queue # <<>> /\ Head(queue) = t /\ queue' = Tail(queue) BY DEF Grant
<1>3. /\ 1 \in 1..Len(queue) /\ queue[1] = t
      /\ Len(queue') = Len(queue) - 1
      /\ \A k \in 1..(Len(queue) - 1) : queue'[k] = queue[k + 1]
  BY <1>1, <1>2, HeadTailProperties, EmptySeq DEF TypeOK
<1>4. \A k \in 1..(Len(queue) - 1) : queue'[k] = IF k < 1 THEN queue[k] ELSE queue[k + 1]
  BY <1>1, <1>3
<1>5. pc' = [pc EXCEPT ![queue[1]] = "check"] BY <1>3 DEF Grant, To
<1>6. "check" \in Steps \ {"queued"} BY DEF Steps, Holding
<1>7. QueueOK' /\ \A v \in Tasks : Ahead(v)' \subseteq Ahead(v)
  BY <1>3, <1>4, <1>5, <1>6, OneGoes
<1>8. ASSUME NEW u \in Ahead(t) PROVE FALSE
  <2>1. PICK i, j \in 1..Len(queue) : i < j /\ queue[i] = u /\ queue[j] = t
    BY <1>8 DEF Ahead
  <2>2. j = 1 BY <1>3, <2>1 DEF QueueOK
  <2>. QED BY <1>1, <2>1, <2>2
<1>. QED BY <1>7, <1>8

LEMMA LeaveGoes ==
  ASSUME TypeOK, QueueOK, NEW t \in Tasks, Leave(t)
  PROVE  QueueOK' /\ \A v \in Tasks : Ahead(v)' \subseteq Ahead(v)
<1>1. PICK i \in 1..Len(queue) : queue[i] = t /\ queue' = Without(queue, i) BY DEF Leave
<1>2. /\ Len(queue') = Len(queue) - 1
      /\ \A k \in 1..(Len(queue) - 1) :
           queue'[k] = IF k < i THEN queue[k] ELSE queue[k + 1]
  BY <1>1, WithoutProperties DEF TypeOK
<1>3. pc' = [pc EXCEPT ![queue[i]] = "idle"] BY <1>1 DEF Leave, To
<1>4. "idle" \in Steps \ {"queued"} BY DEF Steps
<1>. QED BY <1>2, <1>3, <1>4, OneGoes

\* Every other step leaves the queue and who is in it alone.
LEMMA QueueLeftAlone ==
  ASSUME TypeOK, [Next]_vars,
         ~\E t \in Tasks : Arrive(t) \/ Grant(t) \/ Leave(t)
  PROVE  queue' = queue /\ \A t \in Tasks : pc'[t] = "queued" <=> pc[t] = "queued"
<1>1. ASSUME NEW t \in Tasks,
             Wait(t) \/ Wake(t) \/ Pass(t) \/ Send(t) \/ Answer(t) \/ Fail(t) \/ Observe(t)
               \/ Drop(t)
      PROVE  /\ queue' = queue
             /\ \A u \in Tasks : pc'[u] = "queued" <=> pc[u] = "queued"
  <2>1. PICK s \in Steps \ {"queued"} : pc' = [pc EXCEPT ![t] = s]
    BY <1>1 DEF Wait, Wake, Pass, Send, Answer, Fail, Observe, Drop, To, Steps, Holding
  <2>2. pc[t] # "queued"
    BY <1>1 DEF Wait, Wake, Pass, Send, Answer, Fail, Observe, Drop, Holding
  <2>3. queue' = queue
    BY <1>1 DEF Wait, Wake, Pass, Send, Answer, Fail, Observe, Drop
  <2>. QED BY <2>1, <2>2, <2>3 DEF TypeOK
<1>2. CASE Tick \/ UNCHANGED vars BY <1>2 DEF Tick, vars
<1>. QED BY <1>1, <1>2 DEF Next, Run

LEMMA StepQueue ==
  ASSUME TypeOK, QueueOK, [Next]_vars
  PROVE  /\ QueueOK'
         /\ \A t \in Tasks :
              pc[t] = "queued" =>
                /\ pc'[t] = "queued" => Ahead(t)' \subseteq Ahead(t)
                /\ pc'[t] \in Holding => Ahead(t) = {}
<1>1. CASE \E t \in Tasks : Arrive(t)
  <2>1. PICK t \in Tasks : Arrive(t) BY <1>1
  <2>2. \A v \in Tasks : pc[v] = "queued" => pc'[v] = "queued"
    BY <2>1 DEF Arrive, To, TypeOK
  <2>. QED BY <2>1, <2>2, OneArrives DEF Holding
<1>2. CASE \E t \in Tasks : Grant(t)
  <2>1. PICK t \in Tasks : Grant(t) BY <1>2
  <2>2. \A v \in Tasks : v # t => pc'[v] = pc[v] BY <2>1 DEF Grant, To, TypeOK
  <2>3. \A v \in Tasks : pc[v] = "queued" /\ pc'[v] \in Holding => v = t
    BY <2>2 DEF Holding
  <2>. QED BY <2>1, <2>3, GrantGoes
<1>3. CASE \E t \in Tasks : Leave(t)
  <2>1. PICK t \in Tasks : Leave(t) BY <1>3
  <2>2. \A v \in Tasks : pc'[v] \in Holding => pc[v] = pc'[v]
    BY <2>1 DEF Leave, To, TypeOK, Holding
  <2>. QED BY <2>1, <2>2, LeaveGoes DEF Holding
<1>4. CASE ~\E t \in Tasks : Arrive(t) \/ Grant(t) \/ Leave(t)
  <2>1. queue' = queue /\ \A t \in Tasks : pc'[t] = "queued" <=> pc[t] = "queued"
    BY <1>4, QueueLeftAlone
  <2>. QED BY <2>1 DEF QueueOK, Ahead, Holding
<1>. QED BY <1>1, <1>2, <1>3, <1>4

LEMMA QueueInvariance == Spec => [](IInv /\ QueueOK)
<1>1. Init => QueueOK
  <2>1. ASSUME Init PROVE Len(queue) = 0 BY <2>1, EmptySeq DEF Init
  <2>. QED BY <2>1 DEF Init, QueueOK
<1>2. IInv /\ QueueOK /\ [Next]_vars => QueueOK' BY StepQueue DEF IInv
<1>. QED BY <1>1, <1>2, GateInvariance, PTL DEF Spec

-----------------------------------------------------------------------------
(* The theorems.                                                           *)

\* Every variable keeps its type, in particular the free permits stay between
\* none and all: nobody releases more than was taken.
THEOREM GateTypeCorrect == Spec => []TypeOK
<1>1. IInv => TypeOK BY DEF IInv
<1>. QED BY <1>1, GateInvariance, PTL

\* Permits are neither lost nor handed out twice, however callers fail, time
\* out or are dropped.
THEOREM PermitsAreAccounted == Spec => []PermitsAccounted
<1>1. IInv => PermitsAccounted BY DEF IInv
<1>. QED BY <1>1, GateInvariance, PTL

\* An authentication or consuming request is the only one in flight.
THEOREM ExclusiveIsAlone == Spec => []ExclusiveAlone
<1>1. IInv => ExclusiveAlone BY AccountedAlone DEF IInv
<1>. QED BY <1>1, GateInvariance, PTL

\* No answer, dispatch or drop shortens a delay that a server asked for.
THEOREM DelayIsKept == Spec => []DelayKept
<1>1. IInv => DelayKept BY DEF IInv
<1>. QED BY <1>1, GateInvariance, PTL

\* An exclusive request is dispatched only when every delay has passed.
THEOREM ExclusiveIsAfterDelay == Spec => ExclusiveAfterDelay
<1>1. IInv /\ [Next]_vars =>
        [\A t \in Tasks :
           exclusive[t] /\ pc[t] = "passed" /\ pc'[t] = "sent" => told = 0]_vars
  BY DEF IInv, ExclusivePassedCool
<1>2. [][\A t \in Tasks :
           exclusive[t] /\ pc[t] = "passed" /\ pc'[t] = "sent" => told = 0]_vars
        <=> ExclusiveAfterDelay
  BY DEF ExclusiveAfterDelay
<1>. QED BY <1>1, <1>2, GateInvariance, PTL DEF Spec

\* No caller is in the wait queue twice, none of it is elsewhere and none that
\* waits is missing from it, whoever is dropped.
THEOREM QueueIsConsistent == Spec => []QueueOK
BY QueueInvariance, PTL

\* Callers are served in order of arrival.
THEOREM ServedInOrder == Spec => FirstComeFirstServed
<1>1. (IInv /\ QueueOK) /\ [Next]_vars =>
        [\A t \in Tasks :
           pc[t] = "queued" =>
             /\ pc'[t] = "queued" => Ahead(t)' \subseteq Ahead(t)
             /\ pc'[t] \in Holding => Ahead(t) = {}]_vars
  BY StepQueue DEF IInv
<1>2. [][\A t \in Tasks :
           pc[t] = "queued" =>
             /\ pc'[t] = "queued" => Ahead(t)' \subseteq Ahead(t)
             /\ pc'[t] \in Holding => Ahead(t) = {}]_vars
        <=> FirstComeFirstServed
  BY DEF FirstComeFirstServed
<1>. QED BY <1>1, <1>2, QueueInvariance, PTL DEF Spec

\* The queue waits only for requests that are under way: a permit that is lost,
\* or a grant that asks for more than there is, would stall it for ever.
THEOREM QueueIsNotStranded == Spec => []NobodyStranded
<1>1. IInv => NobodyStranded
  <2> SUFFICES ASSUME IInv, queue # <<>>, Holders = {}
               PROVE  Need(Head(queue)) <= free
      BY DEF NobodyStranded
  <2>1. Head(queue) \in Tasks BY HeadTailProperties DEF IInv, TypeOK
  <2>2. free = Permits
    <3>1. Cardinality(Holders) = 0 BY FS_EmptySet
    <3>. QED BY <3>1 DEF IInv, PermitsAccounted, TypeOK
  <2>. QED BY <2>1, <2>2, NeedRange, GateAssumption DEF IInv
<1>. QED BY <1>1, GateInvariance, PTL
=============================================================================
