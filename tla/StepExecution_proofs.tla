----------------------- MODULE StepExecution_proofs -----------------------
(***************************************************************************)
(* Type correctness and lock safety of the step execution, for every set   *)
(* of tasks and resources, every plan, and with or without lock expiry.    *)
(***************************************************************************)
EXTENDS StepExecution, FiniteSetTheorems, TLAPS

-----------------------------------------------------------------------------
(* The lock operations.                                                     *)

\* Closing the queue up over the granted requests leaves requests.
LEMMA WithoutType ==
    ASSUME queued \in SUBSET Request, IsFiniteSet(queued), NEW G \in SUBSET queued
    PROVE  Without(G) \in SUBSET Request /\ IsFiniteSet(Without(G))
<1> DEFINE rest == queued \ G
           place(q) == Cardinality({p \in rest : p.index < q.index})
           close == [q \in rest |-> [q EXCEPT !.index = place(q)]]
<1>1. IsFiniteSet(rest)
  BY FS_Subset
<1>2. \A q \in rest : place(q) \in Nat
  <2> TAKE q \in rest
  <2>1. IsFiniteSet({p \in rest : p.index < q.index})
    BY <1>1, FS_Subset
  <2> QED BY <2>1, FS_CardinalityType
<1>3. \A q \in rest : [q EXCEPT !.index = place(q)] \in Request
  <2> HIDE DEF place
  <2> QED BY <1>2 DEF Request
<1>4. Without(G) = {[q EXCEPT !.index = place(q)] : q \in rest}
  BY DEF Without
<1>5. close \in Surjection(rest, Without(G))
  BY <1>4 DEF Surjection
<1>6. IsFiniteSet(Without(G))
  BY <1>1, <1>5, FS_Surjection
<1>7. Without(G) \in SUBSET Request
  <2> HIDE DEF place, rest
  <2> QED BY <1>3, <1>4
<1> QED BY <1>6, <1>7

\* A request that waits is a request of some task for some resources.
LEMMA EnqueueType ==
    ASSUME queued \in SUBSET Request, IsFiniteSet(queued), NEW t \in Tasks,
           NEW Rs \in SUBSET ((SUBSET Resources) \ {{}}), Enqueue(t, Rs)
    PROVE  queued' \in SUBSET Request /\ IsFiniteSet(queued')
<1>1. CASE queued' = queued
  BY <1>1
<1>2. CASE \E R \in Rs :
        queued' = queued \cup {[task |-> t, resources |-> R, index |-> Cardinality(queued)]}
  <2>1. PICK R \in Rs :
          queued' = queued \cup {[task |-> t, resources |-> R, index |-> Cardinality(queued)]}
    BY <1>2
  <2>2. Cardinality(queued) \in Nat
    BY FS_CardinalityType
  <2>3. [task |-> t, resources |-> R, index |-> Cardinality(queued)] \in Request
    BY <2>2 DEF Request
  <2> QED BY <2>1, <2>3, FS_AddElement
<1> QED BY <1>1, <1>2 DEF Enqueue

\* A release frees the locks of t, leaves those of the other tasks alone, and
\* hands free ones to tasks.
LEMMA ReleaseEffect ==
    ASSUME ManagerTypeOK, NEW t \in Tasks, Release(t)
    PROVE  /\ ManagerTypeOK'
           /\ \A r \in Resources : holder[r] \notin {Free, t} => holder'[r] = holder[r]
<1> DEFINE freed == [r \in Resources |-> IF holder[r] = t THEN Free ELSE holder[r]]
<1>1. PICK G \in SUBSET queued :
        /\ GrantedBy(G, freed)
        /\ queued' = Without(G)
        /\ holder' = [r \in Resources |->
                        IF r \in UNION {q.resources : q \in G}
                          THEN (CHOOSE q \in G : r \in q.resources).task ELSE freed[r]]
        /\ age' = [r \in Resources |->
                     IF r \in UNION {q.resources : q \in G} \/ freed[r] = Free THEN 0 ELSE age[r]]
  BY DEF Release
<1>2. queued' \in SUBSET Request /\ IsFiniteSet(queued')
  BY <1>1, WithoutType DEF ManagerTypeOK
<1>3. \A r \in UNION {q.resources : q \in G} :
        (CHOOSE q \in G : r \in q.resources).task \in Tasks
  BY DEF ManagerTypeOK, Request
<1>4. freed \in [Resources -> Tasks \cup {Free}]
  BY DEF ManagerTypeOK
<1>5. holder' \in [Resources -> Tasks \cup {Free}]
  BY <1>1, <1>3, <1>4
<1>6. age' \in [Resources -> 0 .. MaxHold]
  BY <1>1, MaxHoldAssumption DEF ManagerTypeOK
<1>7. \A r \in UNION {q.resources : q \in G} : freed[r] = Free
  BY <1>1 DEF GrantedBy
<1>8. ASSUME NEW r \in Resources, holder[r] \notin {Free, t} PROVE holder'[r] = holder[r]
  <2>1. freed[r] = holder[r] /\ r \notin UNION {q.resources : q \in G}
    BY <1>7, <1>8
  <2> QED BY <1>1, <2>1
<1> QED BY <1>2, <1>5, <1>6, <1>8 DEF ManagerTypeOK
-----------------------------------------------------------------------------
(* The inductive invariant: the types and the locks of executing steps.     *)

IInv == TypeOK /\ LocksHeld

LEMMA InitIInv == Init => IInv
<1> SUFFICES ASSUME Init PROVE IInv
  OBVIOUS
<1>1. ManagerTypeOK
  BY FS_EmptySet, MaxHoldAssumption DEF Init, ManagerInit, ManagerTypeOK
<1>2. TypeOK
  BY <1>1, PlansAssumption, ReplansAssumption DEF Init, TypeOK, Statuses
<1>3. LocksHeld
  BY DEF Init, LocksHeld, Needs, LocksOf, Writes
<1> QED BY <1>2, <1>3 DEF IInv

\* What a task needs depends on its own executing steps only.
LEMMA NeedsUnchanged ==
    ASSUME NEW u, active'[u] = active[u]
    PROVE  Needs(u)' = Needs(u)
BY DEF Needs, LocksOf, Writes

LEMMA StepIInv == IInv /\ [Next]_vars => IInv'
<1> SUFFICES ASSUME IInv, [Next]_vars PROVE IInv'
  OBVIOUS
<1> USE DEF IInv
<1>1. ASSUME NEW t \in Tasks, StartGroup(t) PROVE IInv'
  <2>1. PICK denied \in SUBSET Head(todo[t]) :
          LET allowed == Head(todo[t]) \ denied
              blocked == BlockedSteps(t, allowed)
              started == allowed \ blocked
          IN  /\ Grant(t, LocksOf(Writes(started)))
              /\ Enqueue(t, {s.locks : s \in blocked})
              /\ active' = [active EXCEPT ![t] = started]
              /\ broken' = [broken EXCEPT ![t] = denied # {} \/ blocked # {}]
              /\ revoked' = revoked \ {t}
    BY <1>1 DEF StartGroup
  <2> DEFINE allowed == Head(todo[t]) \ denied
             blocked == BlockedSteps(t, allowed)
             started == allowed \ blocked
  <2>2. Head(todo[t]) \in SUBSET Step /\ Tail(todo[t]) \in Seq(SUBSET Step)
    BY <1>1 DEF StartGroup, TypeOK
  <2>3. started \in SUBSET Step /\ blocked \in SUBSET Step
    BY <2>2 DEF BlockedSteps, Writes
  <2>4. {s.locks : s \in blocked} \in SUBSET ((SUBSET Resources) \ {{}})
    <3>1. \A s \in blocked : s.locks \in SUBSET Resources
      BY <2>3 DEF Step
    <3>2. \A s \in blocked : s.locks # {}
      BY DEF BlockedSteps, Blocked
    <3> QED BY <3>1, <3>2
  <2>5. queued' \in SUBSET Request /\ IsFiniteSet(queued')
    BY <2>1, <2>4, EnqueueType DEF TypeOK, ManagerTypeOK
  <2>6. /\ holder' \in [Resources -> Tasks \cup {Free}]
        /\ age' \in [Resources -> 0 .. MaxHold]
    BY <2>1, MaxHoldAssumption DEF Grant, TypeOK, ManagerTypeOK
  <2>7. /\ active' \in [Tasks -> SUBSET Step]
        /\ broken' \in [Tasks -> BOOLEAN]
        /\ revoked' \in SUBSET Tasks
    BY <2>1, <2>3 DEF TypeOK
  <2>8. /\ status' \in [Tasks -> Statuses]
        /\ todo' \in [Tasks -> Seq(SUBSET Step)]
        /\ attempt' \in [Tasks -> 0 .. MaxReplans]
    BY <1>1, <2>2 DEF StartGroup, TypeOK, Statuses
  <2>9. TypeOK'
    BY <2>5, <2>6, <2>7, <2>8 DEF TypeOK, ManagerTypeOK
  <2>10. ASSUME NEW u \in Tasks, u \notin revoked', NEW r \in Needs(u)' PROVE holder'[r] = u
    <3>1. CASE u = t
      <4>1. Needs(t)' = LocksOf(Writes(started))
        BY <2>1 DEF Needs, TypeOK
      <4>2. r \in Resources /\ r \in LocksOf(Writes(started))
        BY <2>3, <2>10, <3>1, <4>1 DEF LocksOf, Writes, Step
      <4> QED BY <2>1, <3>1, <4>2 DEF Grant
    <3>2. CASE u # t
      <4>1. r \in Needs(u) /\ u \notin revoked
        BY <2>1, <2>10, <3>2, NeedsUnchanged DEF TypeOK
      <4>2. holder[r] = u /\ r \in Resources
        BY <4>1 DEF LocksHeld, Needs, LocksOf, Writes, Step, TypeOK
      <4>3. r \notin LocksOf(Writes(started))
        <5> SUFFICES ASSUME NEW s \in Writes(started), r \in s.locks PROVE FALSE
          BY DEF LocksOf
        <5>1. s \in Writes(allowed) /\ ~ Blocked(t, s.locks)
          BY DEF Writes, BlockedSteps
        <5> QED BY <3>2, <4>2, <5>1, FreeAssumption DEF Blocked
      <4> QED BY <2>1, <4>2, <4>3 DEF Grant
    <3> QED BY <3>1, <3>2
  <2> QED BY <2>9, <2>10 DEF LocksHeld
<1>2. ASSUME NEW t \in Tasks, NEW s \in active[t], FinishStep(t, s) PROVE IInv'
  <2>1. /\ active' = [active EXCEPT ![t] = @ \ {s}]
        /\ active' \in [Tasks -> SUBSET Step]
        /\ broken' \in [Tasks -> BOOLEAN]
        /\ status' = status /\ todo' = todo /\ attempt' = attempt
    BY <1>2 DEF FinishStep, TypeOK
  <2>2. Needs(t)' \subseteq Needs(t) /\ \A u \in Tasks \ {t} : Needs(u)' = Needs(u)
    BY <2>1 DEF Needs, LocksOf, Writes, TypeOK
  <2>3. CASE s.readOnly
    <3>1. UNCHANGED <<managerVars, revoked>>
      BY <1>2, <2>3 DEF FinishStep
    <3>2. TypeOK'
      BY <2>1, <3>1 DEF TypeOK, ManagerTypeOK, managerVars
    <3>3. LocksHeld'
      BY <2>2, <3>1 DEF LocksHeld, managerVars
    <3> QED BY <3>2, <3>3
  <2>4. CASE ~ s.readOnly
    <3>1. /\ Release(t)
          /\ revoked' = IF LocksOf(Writes(active'[t])) # {} THEN revoked \cup {t} ELSE revoked
      BY <1>2, <2>4 DEF FinishStep
    <3>2. /\ ManagerTypeOK'
          /\ \A r \in Resources : holder[r] \notin {Free, t} => holder'[r] = holder[r]
      BY <3>1, ReleaseEffect DEF TypeOK
    <3>3. TypeOK'
      BY <2>1, <3>1, <3>2 DEF TypeOK
    <3>4. ASSUME NEW u \in Tasks, u \notin revoked', NEW r \in Needs(u)' PROVE holder'[r] = u
      <4>1. u # t
        BY <3>1, <3>4 DEF Needs
      <4>2. holder[r] = u /\ r \in Resources
        BY <2>2, <3>1, <3>4, <4>1 DEF LocksHeld, Needs, LocksOf, Writes, Step, TypeOK
      <4> QED BY <3>2, <4>1, <4>2, FreeAssumption
    <3> QED BY <3>3, <3>4 DEF LocksHeld
  <2> QED BY <2>3, <2>4
<1>3. ASSUME NEW t \in Tasks, Complete(t) PROVE IInv'
  <2>1. TypeOK'
    BY <1>3 DEF Complete, TypeOK, ManagerTypeOK, managerVars, Statuses
  <2> QED BY <1>3, <2>1 DEF Complete, managerVars, LocksHeld, Needs
<1>4. ASSUME NEW t \in Tasks, Replan(t) PROVE IInv'
  <2>1. /\ UNCHANGED <<managerVars, active, revoked>>
        /\ status' \in [Tasks -> Statuses] /\ broken' \in [Tasks -> BOOLEAN]
    BY <1>4 DEF Replan, TypeOK, Statuses
  <2>2. todo' \in [Tasks -> Seq(SUBSET Step)]
    BY <1>4, PlansAssumption DEF Replan, TypeOK
  <2>3. attempt' \in [Tasks -> 0 .. MaxReplans]
    <3>1. CASE attempt' = attempt
      BY <3>1 DEF TypeOK
    <3>2. CASE attempt[t] < MaxReplans /\ attempt' = [attempt EXCEPT ![t] = @ + 1]
      <4>1. attempt[t] + 1 \in 0 .. MaxReplans
        BY <3>2, ReplansAssumption DEF TypeOK
      <4> QED BY <3>2, <4>1 DEF TypeOK
    <3> QED BY <1>4, <3>1, <3>2 DEF Replan
  <2>4. TypeOK'
    BY <2>1, <2>2, <2>3 DEF TypeOK, ManagerTypeOK, managerVars
  <2> QED BY <2>1, <2>4 DEF managerVars, LocksHeld, Needs
<1>5. ASSUME ExpireLocks PROVE IInv'
  <2>1. /\ UNCHANGED coordinatorVars
        /\ revoked' = revoked \cup {t \in Tasks : \E r \in Needs(t) : r \in Expired /\ holder[r] = t}
        /\ holder' = [r \in Resources |-> IF r \in Expired THEN Free ELSE holder[r]]
        /\ age' = [r \in Resources |-> IF r \in Expired THEN 0 ELSE age[r]]
        /\ queued' = queued
    BY <1>5 DEF ExpireLocks, Expire
  <2>2. TypeOK'
    BY <2>1, MaxHoldAssumption DEF TypeOK, ManagerTypeOK, coordinatorVars
  <2>3. \A u \in Tasks : Needs(u)' = Needs(u)
    BY <2>1 DEF coordinatorVars, Needs
  <2>4. \A u \in Tasks : Needs(u) \subseteq Resources
    BY DEF Needs, LocksOf, Writes, Step, TypeOK
  <2>5. LocksHeld'
    BY <2>1, <2>3, <2>4 DEF LocksHeld
  <2> QED BY <2>2, <2>5
<1>6. ASSUME Tick PROVE IInv'
  <2>1. UNCHANGED <<coordinatorVars, revoked, holder, queued>>
    BY <1>6 DEF Tick, Age
  <2>2. age' \in [Resources -> 0 .. MaxHold]
    BY <1>6, MaxHoldAssumption DEF Tick, Age, TypeOK, ManagerTypeOK
  <2>3. TypeOK'
    BY <2>1, <2>2 DEF TypeOK, ManagerTypeOK, coordinatorVars
  <2> QED BY <2>1, <2>3 DEF LocksHeld, Needs, coordinatorVars
<1>7. CASE UNCHANGED vars
  BY <1>7 DEF vars, TypeOK, ManagerTypeOK, LocksHeld, Needs
<1> QED BY <1>1, <1>2, <1>3, <1>4, <1>5, <1>6, <1>7 DEF Next

\* The invariant holds of every behaviour.
THEOREM Invariant == Spec => []IInv
<1>1. Spec => Init /\ [][Next]_vars
  BY PTL DEF Spec
<1> QED BY <1>1, InitIInv, StepIInv, PTL

\* The state variables keep their types.
THEOREM TypeCorrect == Spec => []TypeOK
<1>1. IInv => TypeOK
  BY DEF IInv
<1> QED BY <1>1, Invariant, PTL

\* An executing write step holds its locks until they expire or a sibling of
\* its group finishes.
THEOREM LocksHeldHolds == Spec => []LocksHeld
<1>1. IInv => LocksHeld
  BY DEF IInv
<1> QED BY <1>1, Invariant, PTL

\* Tasks that kept their locks never write to one resource at once.
THEOREM ExclusiveWritesHolds == Spec => []ExclusiveWrites
<1>1. IInv => ExclusiveWrites
  BY DEF IInv, LocksHeld, ExclusiveWrites
<1> QED BY <1>1, Invariant, PTL

\* A held lock changes hands only in the step in which its holder releases it.
THEOREM NeverTakenHolds == Spec => NeverTaken
<1> DEFINE Kept == \A r \in Resources :
                      (holder[r] # Free /\ holder'[r] \notin {Free, holder[r]})
                         => \E s \in Writes(active[holder[r]]) : s \notin active'[holder[r]]
<1>1. ASSUME IInv, [Next]_vars PROVE [Kept]_vars
  <2> SUFFICES ASSUME NEW r \in Resources, holder[r] # Free,
                      holder'[r] \notin {Free, holder[r]}
               PROVE  \E s \in Writes(active[holder[r]]) : s \notin active'[holder[r]]
    OBVIOUS
  <2>1. CASE \E t \in Tasks : StartGroup(t)
    <3>1. PICK t \in Tasks : StartGroup(t)
      BY <2>1
    <3>2. PICK S : /\ \A s \in Writes(S) : ~ Blocked(t, s.locks)
                   /\ Grant(t, LocksOf(Writes(S)))
      BY <3>1 DEF StartGroup, BlockedSteps, Writes
    <3>3. holder'[r] = t /\ r \in LocksOf(Writes(S))
      BY <3>2 DEF Grant
    <3> QED BY <3>2, <3>3 DEF LocksOf, Blocked
  <2>2. CASE \E t \in Tasks : \E s \in active[t] : FinishStep(t, s)
    <3>1. PICK t \in Tasks : \E s \in active[t] : FinishStep(t, s)
      BY <2>2
    <3>2. PICK s \in active[t] : FinishStep(t, s)
      BY <3>1
    <3>3. ~ s.readOnly /\ Release(t)
      BY <3>2 DEF FinishStep, managerVars
    <3>4. holder[r] = t
      BY <1>1, <3>3, ReleaseEffect DEF IInv, TypeOK
    <3>5. s \in Writes(active[t]) /\ s \notin active'[t]
      BY <1>1, <3>2, <3>3 DEF FinishStep, Writes, IInv, TypeOK
    <3> QED BY <3>4, <3>5
  <2>3. CASE ExpireLocks
    BY <2>3 DEF ExpireLocks, Expire
  <2>4. CASE \/ \E t \in Tasks : Complete(t) \/ Replan(t)
             \/ Tick \/ UNCHANGED vars
    BY <2>4 DEF Complete, Replan, Tick, Age, vars, managerVars
  <2> QED BY <1>1, <2>1, <2>2, <2>3, <2>4 DEF Next
<1>2. Spec => [][Next]_vars
  BY PTL DEF Spec
<1> QED BY <1>1, <1>2, Invariant, PTL DEF NeverTaken

\* After a release, a request that still waits does so for a lock that is held.
LEMMA ReleaseServes ==
    ASSUME ManagerTypeOK, NEW t \in Tasks, Release(t), NEW q \in queued'
    PROVE  \E r \in q.resources : holder'[r] # Free
<1> DEFINE freed == [r \in Resources |-> IF holder[r] = t THEN Free ELSE holder[r]]
<1>1. PICK G \in SUBSET queued :
        /\ GrantedBy(G, freed)
        /\ queued' = Without(G)
        /\ holder' = [r \in Resources |->
                        IF r \in UNION {q1.resources : q1 \in G}
                          THEN (CHOOSE q1 \in G : r \in q1.resources).task ELSE freed[r]]
  BY DEF Release
<1>2. PICK waits \in queued \ G : q.resources = waits.resources
  BY <1>1 DEF Without, ManagerTypeOK, Request
<1>3. waits \in Request /\ q.resources \in SUBSET Resources
  BY <1>2 DEF ManagerTypeOK, Request
<1>4. CASE \E r \in waits.resources : freed[r] # Free
  <2>1. PICK r \in waits.resources : freed[r] # Free
    BY <1>4
  <2>2. r \notin UNION {q1.resources : q1 \in G}
    BY <1>1, <2>1 DEF GrantedBy
  <2> QED BY <1>1, <1>2, <1>3, <2>1, <2>2
<1>5. CASE \E p \in G : p.resources \cap waits.resources # {}
  <2>1. PICK p \in G, r \in waits.resources : r \in p.resources
    BY <1>5
  <2>2. (CHOOSE q1 \in G : r \in q1.resources) \in G
    BY <2>1
  <2>3. holder'[r] \in Tasks
    BY <1>1, <1>2, <1>3, <2>1, <2>2 DEF ManagerTypeOK, Request
  <2> QED BY <1>2, <2>1, <2>3, FreeAssumption
<1> QED BY <1>1, <1>2, <1>4, <1>5 DEF GrantedBy

\* A write step that settles leaves no request behind that could be granted.
THEOREM ReleaseServesQueueHolds == Spec => ReleaseServesQueue
<1> DEFINE Serves == (\E t \in Tasks : \E s \in Writes(active[t]) : s \notin active'[t])
                        => \A q \in queued' : \E r \in q.resources : holder'[r] # Free
<1>1. ASSUME IInv, [Next]_vars PROVE [Serves]_vars
  <2> SUFFICES ASSUME NEW t \in Tasks, NEW s \in Writes(active[t]), s \notin active'[t]
               PROVE  \A q \in queued' : \E r \in q.resources : holder'[r] # Free
    OBVIOUS
  <2>1. s \in active[t] /\ ~ s.readOnly /\ active'[t] # active[t]
    BY DEF Writes
  <2>2. ASSUME NEW u \in Tasks, StartGroup(u) PROVE FALSE
    BY <1>1, <2>1, <2>2 DEF StartGroup, GroupSettled, IInv, TypeOK
  <2>3. CASE \E u \in Tasks : \E w \in active[u] : FinishStep(u, w)
    <3>1. PICK u \in Tasks : \E w \in active[u] : FinishStep(u, w)
      BY <2>3
    <3>2. PICK w \in active[u] : FinishStep(u, w)
      BY <3>1
    <3>3. u = t /\ w = s
      BY <1>1, <2>1, <3>2 DEF FinishStep, IInv, TypeOK
    <3>4. Release(t)
      BY <2>1, <3>2, <3>3 DEF FinishStep
    <3> QED BY <1>1, <3>4, ReleaseServes DEF IInv, TypeOK
  <2>4. CASE ExpireLocks \/ Tick \/ UNCHANGED vars \/ \E u \in Tasks : Complete(u) \/ Replan(u)
    BY <2>1, <2>4 DEF ExpireLocks, Tick, Complete, Replan, coordinatorVars, vars
  <2> QED BY <1>1, <2>2, <2>3, <2>4 DEF Next
<1>2. Spec => [][Next]_vars
  BY PTL DEF Spec
<1> QED BY <1>1, <1>2, Invariant, PTL DEF ReleaseServesQueue
=============================================================================
