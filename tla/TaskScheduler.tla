--------------------------- MODULE TaskScheduler ---------------------------
(***************************************************************************)
(* The dispatch queue of services/runtime/src/task-scheduler.ts.           *)
(*                                                                         *)
(* JavaScript runs a call of the scheduler to completion, so every action  *)
(* is one whole call: the callers' enqueue + dispatch, cancel, and the     *)
(* continuation of run() when an execution settles.                        *)
(*                                                                         *)
(* The array `queue` is kept as a set of entries: an array position is     *)
(* only observed through `sequence`, which is unique and grows with it.    *)
(***************************************************************************)
EXTENDS Integers, FiniteSets

CONSTANTS
    Tasks,          \* task identifiers
    MaxConcurrent,  \* options.maxConcurrent
    Threshold,      \* options.starvationThresholdMs, in clock ticks
    MaxSequence,    \* bound of the model on the number of enqueued entries
    MaxNow          \* bound of the model on the clock

\* The constructor throws unless both options are positive.
ASSUME OptionsAssumption ==
    /\ MaxConcurrent \in Nat \ {0}
    /\ Threshold \in Nat \ {0}

ASSUME BoundsAssumption == MaxSequence \in Nat /\ MaxNow \in Nat

VARIABLES
    queue,      \* entries waiting for a slot
    running,    \* tasks whose execution has started and not settled
    sequence,   \* the next entry's sequence number
    drain,      \* TRUE while the promise returned by dispatch() is pending
    now         \* Date.now()

vars == <<queue, running, sequence, drain, now>>

Priorities == {"background", "default", "interactive"}

Entry == [task : Tasks, priority : Priorities, sequence : Nat, at : Nat]

TypeOK ==
    /\ queue \in SUBSET Entry
    /\ IsFiniteSet(queue)
    /\ running \in SUBSET Tasks
    /\ IsFiniteSet(running)
    /\ sequence \in Nat
    /\ drain \in BOOLEAN
    /\ now \in Nat
-----------------------------------------------------------------------------
Rank(p) == CASE p = "background" -> 0 [] p = "default" -> 1 [] p = "interactive" -> 2

\* Fault: waiting never raises the priority.
ScoreWithoutAge(e) == Rank(e.priority)

\* One priority level for every whole threshold spent waiting.
Score(e) == Rank(e.priority) + ((now - e.at) \div Threshold)

\* e is preferred to f by nextIndex: higher score, then earlier entry.
Before(e, f) ==
    \/ Score(e) > Score(f)
    \/ Score(e) = Score(f) /\ e.sequence < f.sequence

Ahead(e, q) == {f \in q : Before(f, e)}

\* Fault: the loop of fillSlots runs once too often.
PickedOneTooMany(q, slots) == {e \in q : Cardinality(Ahead(e, q)) <= slots}

\* The entries the loop of fillSlots takes when `slots` slots are free: the
\* first ones of the preference order.
Picked(q, slots) == {e \in q : Cardinality(Ahead(e, q)) < slots}

TasksOf(q) == {e.task : e \in q}

\* fillSlots on a queue q and a set r of running tasks.
FillSlots(q, r) ==
    LET picked == Picked(q, MaxConcurrent - Cardinality(r)) IN
    /\ queue' = q \ picked
    /\ running' = r \cup TasksOf(picked)

\* Faults: enqueue() forgets the running set; it back-dates an entry.
NewEntriesIfNotQueued(t, p) ==
    IF t \in TasksOf(queue) THEN {}
    ELSE {[task |-> t, priority |-> p, sequence |-> sequence, at |-> now]}

\* The entry enqueue() adds; none for a task already queued or running.
NewEntries(t, p) ==
    IF t \in running \/ t \in TasksOf(queue) THEN {}
    ELSE {[task |-> t, priority |-> p, sequence |-> sequence, at |-> now]}

Init ==
    /\ queue = {}
    /\ running = {}
    /\ sequence = 0
    /\ drain = FALSE
    /\ now = 0

\* enqueue(t, p) followed by dispatch(), as both callers do. A dispatch while
\* a drain is pending returns that drain's promise and fills no slot.
Submit(t, p) ==
    LET q == queue \cup NewEntries(t, p) IN
    /\ sequence < MaxSequence
    /\ sequence' = sequence + Cardinality(NewEntries(t, p))
    /\ IF drain
         THEN queue' = q /\ UNCHANGED <<running, drain>>
         ELSE /\ FillSlots(q, running)
              /\ drain' = (queue' # {} \/ running' # {})
    /\ UNCHANGED now

\* cancel(t): only a queued task can be cancelled.
Cancel(t) ==
    /\ t \in TasksOf(queue)
    /\ queue' = {e \in queue : e.task # t}
    /\ drain' = (drain /\ (queue' # {} \/ running # {}))
    /\ UNCHANGED <<running, sequence, now>>

\* Faults: a settled execution frees its slot without refilling it; the drain
\* is not finished.
SettleNoRefill(t) ==
    /\ t \in running
    /\ running' = running \ {t}
    /\ drain' = (drain /\ (queue # {} \/ running' # {}))
    /\ UNCHANGED <<queue, sequence, now>>

SettleNoFinish(t) ==
    /\ t \in running
    /\ FillSlots(queue, running \ {t})
    /\ UNCHANGED <<drain, sequence, now>>

\* run(t)'s finally block, when the execution returns or throws.
Settle(t) ==
    /\ t \in running
    /\ FillSlots(queue, running \ {t})
    /\ drain' = (drain /\ (queue' # {} \/ running' # {}))
    /\ UNCHANGED <<sequence, now>>

Tick ==
    /\ now < MaxNow
    /\ now' = now + 1
    /\ UNCHANGED <<queue, running, sequence, drain>>

Next ==
    \/ \E t \in Tasks, p \in Priorities : Submit(t, p)
    \/ \E t \in Tasks : Cancel(t) \/ Settle(t)
    \/ Tick

\* An execution eventually settles; nothing else is promised to happen.
Fairness == \A t \in Tasks : WF_vars(Settle(t))

Spec == Init /\ [][Next]_vars /\ Fairness
-----------------------------------------------------------------------------
(* Properties.                                                              *)

\* "Dispatch never starts more than maxConcurrent executions."
ConcurrencyBound == Cardinality(running) <= MaxConcurrent

\* "A task is never queued twice while it is already queued or running."
NeverTwice ==
    /\ \A e, f \in queue : e.task = f.task => e = f
    /\ \A e \in queue : e.task \notin running

\* Both hold however submissions, cancellations, drains and refills of freed
\* slots interleave.
SlotDiscipline == ConcurrencyBound /\ NeverTwice

\* No entry waits in the queue of an idle scheduler, and dispatch()'s promise
\* is pending exactly while something runs: a settled drain means that the
\* queue has been emptied, and work never waits for a call that may not come.
NoStrandedWork ==
    /\ drain <=> running # {}
    /\ queue # {} => drain

\* Starvation prevention: an entry that has waited two thresholds longer than
\* another one, the span of the priorities, is never left behind by its start.
BoundedOvertaking ==
    [][\A e \in queue \ queue', f \in queue \cap queue' :
          e.task \in running' => e.at - f.at < 2 * Threshold]_vars

\* Whatever is queued starts or is cancelled.
QueuedIsServed == \A t \in Tasks : t \in TasksOf(queue) ~> t \notin TasksOf(queue)

\* "calls the supplied execution dispatcher when a slot is available": a task
\* does not wait while a slot is free.
WorkConserving == queue # {} => Cardinality(running) = MaxConcurrent
=============================================================================
