----------------------- MODULE TaskScheduler_proofs -----------------------
(***************************************************************************)
(* The safety of the dispatch queue for every set of tasks, every          *)
(* concurrency limit and every starvation threshold.                       *)
(***************************************************************************)
EXTENDS TaskScheduler, FiniteSetTheorems, WellFoundedInduction, TLAPS

\* The entries carry distinct sequence numbers, which follow the time at which
\* they were enqueued.
QueueOrder ==
    /\ \A e \in queue : e.sequence < sequence /\ e.at <= now
    /\ \A e, f \in queue : e.sequence = f.sequence => e = f
    /\ \A e, f \in queue : e.sequence < f.sequence => e.at <= f.at

IInv ==
    /\ TypeOK
    /\ ConcurrencyBound
    /\ NeverTwice
    /\ NoStrandedWork
    /\ QueueOrder

\* A set of entries on which the preference of nextIndex is a total order.
Sequenced(q) ==
    /\ q \in SUBSET Entry
    /\ IsFiniteSet(q)
    /\ \A e, f \in q : e.sequence = f.sequence => e = f
-----------------------------------------------------------------------------
(* The preference order.                                                    *)

\* A score is an integer.
LEMMA ScoreType ==
    ASSUME now \in Nat, NEW e \in Entry
    PROVE  Score(e) \in Int
<1>1. Rank(e.priority) \in Int
  BY DEF Rank, Entry, Priorities
<1>2. ((now - e.at) \div Threshold) \in Int
  BY OptionsAssumption DEF Entry
<1> QED BY <1>1, <1>2 DEF Score

\* nextIndex compares the entries of the queue by a strict total order.
LEMMA BeforeOrder ==
    ASSUME now \in Nat, NEW q, Sequenced(q)
    PROVE  /\ \A e \in q : ~ Before(e, e)
           /\ \A e, f, g \in q : Before(e, f) /\ Before(f, g) => Before(e, g)
           /\ \A e, f \in q : e = f \/ Before(e, f) \/ Before(f, e)
<1>1. \A e \in q : Score(e) \in Int /\ e.sequence \in Int
  BY ScoreType DEF Sequenced, Entry
<1> QED BY <1>1 DEF Before, Sequenced

\* What precedes a preferred entry is a smaller set.
LEMMA AheadSmaller ==
    ASSUME now \in Nat, NEW q, Sequenced(q), NEW e \in q, NEW f \in q, Before(e, f)
    PROVE  /\ Ahead(e, q) \subseteq Ahead(f, q)
           /\ Ahead(e, q) # Ahead(f, q)
           /\ Cardinality(Ahead(e, q)) \in Nat
           /\ Cardinality(Ahead(f, q)) \in Nat
           /\ Cardinality(Ahead(e, q)) < Cardinality(Ahead(f, q))
<1>1. Ahead(e, q) \subseteq Ahead(f, q)
  BY BeforeOrder DEF Ahead
<1>2. e \in Ahead(f, q) /\ e \notin Ahead(e, q)
  BY BeforeOrder DEF Ahead
<1>3. IsFiniteSet(Ahead(f, q))
  BY FS_Subset DEF Ahead, Sequenced
<1>4. IsFiniteSet(Ahead(e, q))
  BY <1>1, <1>3, FS_Subset
<1>5. /\ Cardinality(Ahead(e, q)) <= Cardinality(Ahead(f, q))
      /\ Cardinality(Ahead(f, q)) # Cardinality(Ahead(e, q))
  BY <1>1, <1>2, <1>3, FS_Subset
<1>6. Cardinality(Ahead(e, q)) \in Nat /\ Cardinality(Ahead(f, q)) \in Nat
  BY <1>3, <1>4, FS_CardinalityType
<1> QED BY <1>1, <1>2, <1>5, <1>6

\* The loop of fillSlots takes no more entries than there are free slots.
LEMMA PickedBound ==
    ASSUME now \in Nat, NEW q, Sequenced(q), NEW slots \in Nat
    PROVE  /\ IsFiniteSet(Picked(q, slots))
           /\ Cardinality(Picked(q, slots)) <= slots
<1> DEFINE P == Picked(q, slots)
           pos == [e \in P |-> Cardinality(Ahead(e, q))]
<1>1. P \subseteq q
  BY DEF Picked
<1>2. \A e \in P : Cardinality(Ahead(e, q)) \in 0 .. (slots - 1)
  <2> TAKE e \in P
  <2>1. IsFiniteSet(Ahead(e, q))
    BY FS_Subset DEF Ahead, Sequenced
  <2>2. Cardinality(Ahead(e, q)) \in Nat
    BY <2>1, FS_CardinalityType
  <2> QED BY <2>2 DEF Picked
<1>3. \A e, f \in P : pos[e] = pos[f] => e = f
  <2> SUFFICES ASSUME NEW e \in P, NEW f \in P, e # f
               PROVE  pos[e] # pos[f]
    OBVIOUS
  <2>1. Before(e, f) \/ Before(f, e)
    BY <1>1, BeforeOrder
  <2>2. CASE Before(e, f)
    BY <1>1, <2>2, AheadSmaller
  <2>3. CASE Before(f, e)
    BY <1>1, <2>3, AheadSmaller
  <2> QED BY <2>1, <2>2, <2>3
<1>4. pos \in Injection(P, 0 .. (slots - 1))
  BY <1>2, <1>3 DEF Injection, IsInjective
<1>5. IsFiniteSet(0 .. (slots - 1)) /\ Cardinality(0 .. (slots - 1)) = slots
  BY FS_Interval
<1> QED BY <1>4, <1>5, FS_Injection

\* When a slot is free and something waits, the loop takes at least one entry.
LEMMA PickedSome ==
    ASSUME now \in Nat, NEW q, Sequenced(q), q # {}, NEW slots \in Nat \ {0}
    PROVE  Picked(q, slots) # {}
<1> DEFINE T == {Ahead(e, q) : e \in q}
<1>1. IsWellFoundedOn(StrictSubsetOrdering(q), FiniteSubsetsOf(q))
  BY FS_StrictSubsetOrderingWellFounded
<1>2. T \subseteq FiniteSubsetsOf(q) /\ T # {}
  <2>1. \A e \in q : Ahead(e, q) \in SUBSET q
    BY DEF Ahead
  <2>2. \A e \in q : IsFiniteSet(Ahead(e, q))
    BY <2>1, FS_Subset DEF Sequenced
  <2> QED BY <2>1, <2>2 DEF FiniteSubsetsOf
<1>3. \E x \in T : \A y \in T : <<y, x>> \notin StrictSubsetOrdering(q)
  BY <1>1, <1>2, WFMin
<1>4. PICK e \in q : \A f \in q : <<Ahead(f, q), Ahead(e, q)>> \notin StrictSubsetOrdering(q)
  BY <1>3
<1>5. Ahead(e, q) = {}
  <2> SUFFICES ASSUME NEW f \in Ahead(e, q) PROVE FALSE
    OBVIOUS
  <2>1. f \in q /\ Before(f, e)
    BY DEF Ahead
  <2>2. Ahead(f, q) \subseteq Ahead(e, q) /\ Ahead(f, q) # Ahead(e, q)
    BY <2>1, AheadSmaller
  <2>3. <<Ahead(f, q), Ahead(e, q)>> \in StrictSubsetOrdering(q)
    BY <2>2 DEF StrictSubsetOrdering, Ahead
  <2> QED BY <1>4, <2>1, <2>3
<1>6. Cardinality(Ahead(e, q)) < slots
  BY <1>5, FS_EmptySet
<1> QED BY <1>6 DEF Picked

\* No two entries of q are of one task, and none is of a task of r.
OneEntryPerTask(q, r) ==
    /\ \A e, f \in q : e.task = f.task => e = f
    /\ \A e \in q : e.task \notin r

\* What fillSlots establishes on a queue q and a set r of running tasks.
LEMMA FillSlotsEffect ==
    ASSUME now \in Nat, NEW q, Sequenced(q), NEW r \in SUBSET Tasks, IsFiniteSet(r),
           Cardinality(r) <= MaxConcurrent, OneEntryPerTask(q, r),
           FillSlots(q, r)
    PROVE  /\ queue' \subseteq q /\ IsFiniteSet(queue')
           /\ running' \in SUBSET Tasks /\ IsFiniteSet(running')
           /\ r \subseteq running'
           /\ Cardinality(running') <= MaxConcurrent
           /\ NeverTwice'
           /\ running' = {} => queue' = {}
<1> DEFINE slots == MaxConcurrent - Cardinality(r)
           P == Picked(q, slots)
<1>1. queue' = q \ P /\ running' = r \cup TasksOf(P)
  BY DEF FillSlots
<1>2. slots \in Nat /\ Cardinality(r) \in Nat
  BY OptionsAssumption, FS_CardinalityType
<1>3. P \subseteq q /\ P \subseteq Entry
  BY DEF Picked, Sequenced
<1>4. IsFiniteSet(P) /\ Cardinality(P) <= slots
  <2> HIDE DEF slots
  <2> QED BY <1>2, PickedBound
<1>5. IsFiniteSet(TasksOf(P)) /\ Cardinality(TasksOf(P)) <= Cardinality(P)
  <2> DEFINE f == [e \in P |-> e.task]
  <2>1. f \in Surjection(P, TasksOf(P))
    BY DEF Surjection, TasksOf
  <2> QED BY <1>4, <2>1, FS_Surjection
<1>6. /\ IsFiniteSet(running')
      /\ Cardinality(running') <= Cardinality(r) + Cardinality(TasksOf(P))
  <2>1. /\ IsFiniteSet(r \cup TasksOf(P))
        /\ Cardinality(r \cup TasksOf(P))
             = Cardinality(r) + Cardinality(TasksOf(P)) - Cardinality(r \cap TasksOf(P))
    BY <1>5, FS_Union
  <2>2. Cardinality(r \cap TasksOf(P)) \in Nat
    BY FS_Intersection, FS_CardinalityType
  <2>3. Cardinality(TasksOf(P)) \in Nat
    BY <1>5, FS_CardinalityType
  <2> QED BY <1>1, <1>2, <2>1, <2>2, <2>3
<1>7. Cardinality(running') <= MaxConcurrent
  <2>1. Cardinality(TasksOf(P)) \in Nat /\ Cardinality(P) \in Nat /\ Cardinality(running') \in Nat
    BY <1>4, <1>5, <1>6, FS_CardinalityType
  <2> QED BY <1>2, <1>4, <1>5, <1>6, <2>1, OptionsAssumption
<1>8. IsFiniteSet(queue')
  BY <1>1, FS_Difference DEF Sequenced
<1>9. running' \in SUBSET Tasks
  BY <1>1, <1>3 DEF TasksOf, Entry
<1>10. NeverTwice'
  BY <1>1, <1>3 DEF NeverTwice, OneEntryPerTask, TasksOf
<1>11. ASSUME running' = {} PROVE queue' = {}
  <2>1. r = {} /\ P = {}
    BY <1>1, <1>11 DEF TasksOf
  <2>2. slots \in Nat \ {0}
    BY <2>1, OptionsAssumption, FS_EmptySet
  <2>3. q = {}
    <3> HIDE DEF slots
    <3> QED BY <2>1, <2>2, PickedSome
  <2> QED BY <1>1, <2>3
<1> QED BY <1>1, <1>6, <1>7, <1>8, <1>9, <1>10, <1>11
-----------------------------------------------------------------------------
(* The inductive invariant.                                                 *)

LEMMA InitIInv == Init => IInv
<1> SUFFICES ASSUME Init PROVE IInv
  OBVIOUS
<1>1. TypeOK
  BY FS_EmptySet DEF Init, TypeOK
<1>2. ConcurrencyBound
  BY FS_EmptySet, OptionsAssumption DEF Init, ConcurrencyBound
<1>3. NeverTwice /\ NoStrandedWork /\ QueueOrder
  BY DEF Init, NeverTwice, NoStrandedWork, QueueOrder
<1> QED BY <1>1, <1>2, <1>3 DEF IInv

\* A queue that only loses entries keeps their order.
LEMMA QueueOrderShrinks ==
    ASSUME QueueOrder, queue' \subseteq queue, sequence' = sequence, now' = now
    PROVE  QueueOrder'
BY DEF QueueOrder

\* The entry enqueue() adds comes last.
LEMMA NewEntriesOrder ==
    ASSUME TypeOK, QueueOrder, NeverTwice, NEW t \in Tasks, NEW p \in Priorities
    PROVE  LET new == NewEntries(t, p)
               q == queue \cup new
           IN  /\ Sequenced(q)
               /\ OneEntryPerTask(q, running)
               /\ Cardinality(new) \in Nat
               /\ new # {} => Cardinality(new) = 1
               /\ \A e \in q : e.sequence < sequence + Cardinality(new) /\ e.at <= now
               /\ \A e, f \in q : e.sequence < f.sequence => e.at <= f.at
<1> DEFINE new == NewEntries(t, p)
           entry == [task |-> t, priority |-> p, sequence |-> sequence, at |-> now]
<1>1. CASE new = {}
  <2>1. Cardinality(new) = 0
    BY <1>1, FS_EmptySet
  <2>2. \A e \in queue : e.sequence \in Nat
    BY DEF TypeOK, Entry
  <2> QED
    BY <1>1, <2>1, <2>2 DEF TypeOK, QueueOrder, NeverTwice, Sequenced, OneEntryPerTask
<1>2. CASE new = {entry} /\ t \notin running /\ t \notin TasksOf(queue)
  <2>1. Cardinality(new) = 1 /\ IsFiniteSet(new)
    BY <1>2, FS_Singleton
  <2>2. entry \in Entry
    BY DEF TypeOK, Entry
  <2>3. IsFiniteSet(queue \cup new)
    BY <2>1, FS_Union DEF TypeOK
  <2>4. \A e \in queue : /\ e.sequence \in Nat /\ e.sequence < sequence
                         /\ e.at \in Nat /\ e.at <= now
                         /\ e.task # t
    BY <1>2 DEF TypeOK, Entry, QueueOrder, TasksOf
  <2>5. sequence \in Nat /\ now \in Nat /\ queue \subseteq Entry
    BY DEF TypeOK
  <2>6. /\ \A e, f \in queue : e.sequence = f.sequence => e = f
        /\ \A e, f \in queue : e.sequence < f.sequence => e.at <= f.at
        /\ \A e, f \in queue : e.task = f.task => e = f
        /\ \A e \in queue : e.task \notin running
    BY DEF QueueOrder, NeverTwice
  <2>7. \A e \in queue \cup new : e \in queue \/ e = entry
    BY <1>2
  <2>8. Sequenced(queue \cup new)
    BY <1>2, <2>2, <2>3, <2>4, <2>5, <2>6, <2>7 DEF Sequenced
  <2>9. OneEntryPerTask(queue \cup new, running)
    BY <1>2, <2>4, <2>6, <2>7 DEF OneEntryPerTask
  <2>10. /\ \A e \in queue \cup new : e.sequence < sequence + Cardinality(new) /\ e.at <= now
         /\ \A e, f \in queue \cup new : e.sequence < f.sequence => e.at <= f.at
    BY <2>1, <2>4, <2>5, <2>6, <2>7
  <2> QED BY <2>1, <2>8, <2>9, <2>10
<1> QED BY <1>1, <1>2 DEF NewEntries

\* Every call of the scheduler preserves the invariant.
LEMMA StepIInv == IInv /\ [Next]_vars => IInv'
<1> SUFFICES ASSUME IInv, [Next]_vars PROVE IInv'
  OBVIOUS
<1> USE DEF IInv
<1>0. /\ now \in Nat /\ IsFiniteSet(running) /\ running \in SUBSET Tasks
      /\ Sequenced(queue) /\ OneEntryPerTask(queue, running)
  BY DEF TypeOK, QueueOrder, Sequenced, NeverTwice, OneEntryPerTask
<1>1. ASSUME NEW t \in Tasks, NEW p \in Priorities, Submit(t, p) PROVE IInv'
  <2> DEFINE new == NewEntries(t, p)
             q == queue \cup new
  <2>1. /\ sequence' = sequence + Cardinality(new) /\ now' = now
        /\ sequence' \in Nat /\ now' \in Nat
    <3>1. Cardinality(new) \in Nat
      BY NewEntriesOrder
    <3> QED BY <1>1, <3>1 DEF Submit, TypeOK
  <2>2. /\ Sequenced(q) /\ OneEntryPerTask(q, running)
        /\ \A e \in q : e.sequence < sequence' /\ e.at <= now'
        /\ \A e, f \in q : e.sequence < f.sequence => e.at <= f.at
    BY <2>1, NewEntriesOrder
  <2>3. CASE drain
    <3>1. queue' = q /\ running' = running /\ drain' = drain
      BY <1>1, <2>3 DEF Submit
    <3>2. TypeOK'
      BY <2>1, <2>2, <3>1 DEF TypeOK, Sequenced
    <3>3. NeverTwice' /\ QueueOrder'
      BY <2>2, <3>1 DEF NeverTwice, QueueOrder, OneEntryPerTask, Sequenced
    <3>4. ConcurrencyBound' /\ NoStrandedWork'
      BY <2>3, <3>1 DEF ConcurrencyBound, NoStrandedWork
    <3> QED BY <3>2, <3>3, <3>4
  <2>4. CASE ~ drain
    <3>1. FillSlots(q, running) /\ drain' = (queue' # {} \/ running' # {})
      BY <1>1, <2>4 DEF Submit
    <3>2. /\ queue' \subseteq q /\ IsFiniteSet(queue')
          /\ running' \in SUBSET Tasks /\ IsFiniteSet(running')
          /\ Cardinality(running') <= MaxConcurrent
          /\ NeverTwice'
          /\ running' = {} => queue' = {}
      BY <1>0, <2>2, <3>1, FillSlotsEffect DEF ConcurrencyBound
    <3>3. TypeOK'
      BY <2>1, <2>2, <3>1, <3>2 DEF TypeOK, Sequenced
    <3>4. QueueOrder'
      BY <2>2, <3>2 DEF QueueOrder, Sequenced
    <3>5. ConcurrencyBound' /\ NoStrandedWork'
      BY <3>1, <3>2 DEF ConcurrencyBound, NoStrandedWork
    <3> QED BY <3>2, <3>3, <3>4, <3>5
  <2> QED BY <2>3, <2>4
<1>2. ASSUME NEW t \in Tasks, Cancel(t) PROVE IInv'
  <2>1. queue' \subseteq queue /\ IsFiniteSet(queue')
    BY <1>0, <1>2, FS_Subset DEF Cancel, Sequenced
  <2>2. running' = running /\ sequence' = sequence /\ now' = now /\ drain' \in BOOLEAN
    BY <1>2 DEF Cancel
  <2>3. TypeOK'
    BY <2>1, <2>2 DEF TypeOK
  <2>4. QueueOrder'
    BY <2>1, <2>2, QueueOrderShrinks
  <2>5. NeverTwice' /\ ConcurrencyBound'
    BY <2>1, <2>2 DEF NeverTwice, ConcurrencyBound
  <2>6. NoStrandedWork'
    BY <1>2 DEF NoStrandedWork, Cancel, TasksOf
  <2> QED BY <2>3, <2>4, <2>5, <2>6
<1>3. ASSUME NEW t \in Tasks, Settle(t) PROVE IInv'
  <2> DEFINE r == running \ {t}
  <2>1. /\ FillSlots(queue, r) /\ drain' = (drain /\ (queue' # {} \/ running' # {}))
        /\ sequence' = sequence /\ now' = now /\ t \in running
    BY <1>3 DEF Settle
  <2>2. /\ r \in SUBSET Tasks /\ IsFiniteSet(r) /\ Cardinality(r) <= MaxConcurrent
        /\ OneEntryPerTask(queue, r)
    <3>1. IsFiniteSet(r) /\ Cardinality(r) = Cardinality(running) - 1
      BY <1>0, <2>1, FS_RemoveElement
    <3>2. Cardinality(running) \in Nat
      BY <1>0, FS_CardinalityType
    <3> QED BY <1>0, <3>1, <3>2, OptionsAssumption DEF ConcurrencyBound, OneEntryPerTask
  <2>3. /\ queue' \subseteq queue /\ IsFiniteSet(queue')
        /\ running' \in SUBSET Tasks /\ IsFiniteSet(running')
        /\ Cardinality(running') <= MaxConcurrent
        /\ NeverTwice'
        /\ running' = {} => queue' = {}
    BY <1>0, <2>1, <2>2, FillSlotsEffect
  <2>4. TypeOK'
    BY <2>1, <2>3 DEF TypeOK
  <2>5. QueueOrder'
    BY <2>1, <2>3, QueueOrderShrinks
  <2>6. ConcurrencyBound' /\ NoStrandedWork'
    BY <2>1, <2>3 DEF ConcurrencyBound, NoStrandedWork
  <2> QED BY <2>3, <2>4, <2>5, <2>6
<1>4. ASSUME Tick PROVE IInv'
  <2>1. /\ now' = now + 1 /\ queue' = queue /\ running' = running
        /\ sequence' = sequence /\ drain' = drain
    BY <1>4 DEF Tick
  <2>2. TypeOK'
    BY <2>1 DEF TypeOK
  <2>3. QueueOrder'
    <3>1. \A e \in queue : e.at \in Nat
      BY DEF TypeOK, Entry
    <3> QED BY <2>1, <3>1 DEF QueueOrder, TypeOK
  <2> QED BY <2>1, <2>2, <2>3 DEF ConcurrencyBound, NeverTwice, NoStrandedWork
<1>5. CASE UNCHANGED vars
  BY <1>5 DEF vars, TypeOK, ConcurrencyBound, NeverTwice, NoStrandedWork, QueueOrder
<1> QED BY <1>1, <1>2, <1>3, <1>4, <1>5 DEF Next

\* The invariant holds of every behaviour.
THEOREM Invariant == Spec => []IInv
<1>1. Spec => Init /\ [][Next]_vars
  BY PTL DEF Spec
<1> QED BY <1>1, InitIInv, StepIInv, PTL

\* The scheduler never starts more executions than maxConcurrent allows.
THEOREM ConcurrencyBoundHolds == Spec => []ConcurrencyBound
<1>1. IInv => ConcurrencyBound
  BY DEF IInv
<1> QED BY <1>1, Invariant, PTL

\* A task is at most once in the queue, and never while it runs.
THEOREM NeverTwiceHolds == Spec => []NeverTwice
<1>1. IInv => NeverTwice
  BY DEF IInv
<1> QED BY <1>1, Invariant, PTL

\* Nothing waits while the scheduler is idle, and a drain ends with the work.
THEOREM NoStrandedWorkHolds == Spec => []NoStrandedWork
<1>1. IInv => NoStrandedWork
  BY DEF IInv
<1> QED BY <1>1, Invariant, PTL

\* The state variables keep their types.
THEOREM TypeCorrect == Spec => []TypeOK
<1>1. IInv => TypeOK
  BY DEF IInv
<1> QED BY <1>1, Invariant, PTL
-----------------------------------------------------------------------------
(* Starvation prevention.                                                   *)

\* Two more thresholds of waiting are two more levels.
LEMMA TwoLevels ==
    ASSUME NEW a \in Nat, NEW b \in Nat, a >= b + 2 * Threshold
    PROVE  a \div Threshold >= (b \div Threshold) + 2
<1> DEFINE m == a \div Threshold
           n == b \div Threshold
<1>1. /\ m \in Int /\ n \in Int
      /\ n * Threshold <= b
      /\ a < (m + 1) * Threshold
  BY OptionsAssumption
<1>2. (n + 2) * Threshold = n * Threshold + 2 * Threshold
  BY <1>1, OptionsAssumption
<1>3. (n + 2) * Threshold < (m + 1) * Threshold
  BY <1>1, <1>2, OptionsAssumption
<1>4. n + 2 < m + 1
  BY <1>1, <1>3, OptionsAssumption
<1> QED BY <1>1, <1>4

\* An entry the loop leaves behind is not preferred to one it takes.
LEMMA PickedFirst ==
    ASSUME now \in Nat, NEW q, Sequenced(q), NEW slots \in Int,
           NEW e \in Picked(q, slots), NEW f \in q \ Picked(q, slots)
    PROVE  ~ Before(f, e)
<1> SUFFICES ASSUME Before(f, e) PROVE FALSE
  OBVIOUS
<1>1. e \in q /\ Cardinality(Ahead(e, q)) < slots /\ ~ (Cardinality(Ahead(f, q)) < slots)
  BY DEF Picked
<1>2. /\ Cardinality(Ahead(f, q)) < Cardinality(Ahead(e, q))
      /\ Cardinality(Ahead(f, q)) \in Nat /\ Cardinality(Ahead(e, q)) \in Nat
  BY <1>1, AheadSmaller
<1> QED BY <1>1, <1>2

\* An entry that has waited two thresholds longer is the preferred one.
LEMMA OldFirst ==
    ASSUME IInv, NEW e \in queue, NEW f \in queue, e.at - f.at >= 2 * Threshold
    PROVE  Before(f, e)
<1>1. /\ now \in Nat /\ e \in Entry /\ f \in Entry
      /\ e.at \in Nat /\ f.at \in Nat /\ e.at <= now
      /\ e.sequence \in Nat /\ f.sequence \in Nat
  BY DEF IInv, TypeOK, QueueOrder, Entry
<1>2. f.sequence < e.sequence
  BY <1>1, OptionsAssumption DEF IInv, QueueOrder
<1>3. (now - f.at) \div Threshold >= ((now - e.at) \div Threshold) + 2
  <2>1. f.at <= now
    BY DEF IInv, QueueOrder
  <2>2. /\ now - f.at \in Nat /\ now - e.at \in Nat
        /\ now - f.at >= (now - e.at) + 2 * Threshold
    BY <1>1, <2>1, OptionsAssumption
  <2> QED BY <2>2, TwoLevels
<1>4. Rank(e.priority) \in 0 .. 2 /\ Rank(f.priority) \in 0 .. 2
  BY <1>1 DEF Rank, Entry, Priorities
<1>5. /\ ((now - f.at) \div Threshold) \in Int
      /\ ((now - e.at) \div Threshold) \in Int
  BY <1>1, OptionsAssumption
<1>6. Score(f) >= Score(e)
  BY <1>3, <1>4, <1>5 DEF Score
<1>7. Score(f) \in Int /\ Score(e) \in Int
  BY <1>1, ScoreType
<1> QED BY <1>2, <1>6, <1>7 DEF Before

\* Both: executions never exceed maxConcurrent, and no task is entered twice.
THEOREM SlotDisciplineHolds == Spec => []SlotDiscipline
<1>1. IInv => SlotDiscipline
  BY DEF IInv, SlotDiscipline
<1> QED BY <1>1, Invariant, PTL

\* An entry is never left behind by the start of one enqueued two thresholds later.
THEOREM BoundedOvertakingHolds == Spec => BoundedOvertaking
<1> DEFINE Bounded == \A e \in queue \ queue', f \in queue \cap queue' :
                         e.task \in running' => e.at - f.at < 2 * Threshold
<1>1. ASSUME IInv, [Next]_vars PROVE [Bounded]_vars
  <2> SUFFICES ASSUME NEW e \in queue, e \notin queue', NEW f \in queue, f \in queue',
                      e.task \in running'
               PROVE  e.at - f.at < 2 * Threshold
    OBVIOUS
  <2>0. /\ now \in Nat /\ Sequenced(queue)
        /\ running \in SUBSET Tasks /\ IsFiniteSet(running)
    BY <1>1 DEF IInv, TypeOK, QueueOrder, Sequenced
  <2>1. SUFFICES ~ Before(f, e)
    <3>1. e.at \in Nat /\ f.at \in Nat
      BY <2>0 DEF Sequenced, Entry
    <3> QED BY <1>1, <2>1, <3>1, OldFirst, OptionsAssumption
  <2>2. CASE \E t \in Tasks, p \in Priorities : Submit(t, p)
    <3>1. ~ drain => queue = {}
      BY <1>1 DEF IInv, NoStrandedWork
    <3> QED BY <2>2, <3>1 DEF Submit
  <2>3. CASE \E t \in Tasks : Cancel(t)
    BY <1>1, <2>3 DEF Cancel, IInv, NeverTwice
  <2>4. CASE \E t \in Tasks : Settle(t)
    <3>1. PICK t \in Tasks : Settle(t)
      BY <2>4
    <3> DEFINE slots == MaxConcurrent - Cardinality(running \ {t})
    <3>2. queue' = queue \ Picked(queue, slots)
      BY <3>1 DEF Settle, FillSlots
    <3>3. slots \in Int
      BY <2>0, FS_RemoveElement, FS_CardinalityType, OptionsAssumption
    <3>4. e \in Picked(queue, slots) /\ f \in queue \ Picked(queue, slots)
      BY <3>2
    <3> HIDE DEF slots
    <3> QED BY <2>0, <3>3, <3>4, PickedFirst
  <2>5. CASE Tick \/ UNCHANGED vars
    BY <2>5 DEF Tick, vars
  <2> QED BY <1>1, <2>2, <2>3, <2>4, <2>5 DEF Next
<1>2. Spec => [][Next]_vars
  BY PTL DEF Spec
<1> QED BY <1>1, <1>2, Invariant, PTL DEF BoundedOvertaking
=============================================================================
