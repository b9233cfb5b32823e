--------------------------- MODULE StepExecution ---------------------------
(***************************************************************************)
(* Steps of planned tasks under the locks of the ResourceManager: the      *)
(* group loop of RuntimeTaskCoordinator.execute, which starts the steps of *)
(* a group together and waits for all of them, and Executor.execute, which *)
(* holds the locks of a step around its action.                            *)
(*                                                                         *)
(* The steps of one group start in one run of the event loop: the calls up *)
(* to the first await of action.execute are one action, and every step     *)
(* settles in an action of its own.                                        *)
(***************************************************************************)
EXTENDS ResourceManager, Sequences

CONSTANTS
    Plans,       \* the plans the planner may return: sequences of groups of steps
    MaxReplans,  \* options.maxReplanAttempts
    Expires      \* whether the host calls expireLocks()

\* A step is read-only or a write with its required_locks, which may be none.
Step == [readOnly : BOOLEAN, locks : SUBSET Resources]

\* computeExecutionGroups puts no two steps with a common lock in one group.
LockSafe(group) == \A s1, s2 \in group : s1 # s2 => s1.locks \cap s2.locks = {}

ASSUME PlansAssumption ==
    /\ Plans \subseteq Seq(SUBSET Step)
    /\ \A p \in Plans : \A i \in 1 .. Len(p) : LockSafe(p[i])

ASSUME ReplansAssumption == MaxReplans \in Nat /\ Expires \in BOOLEAN

VARIABLES
    status,   \* "planned", "running" (the group loop), "done" or "failed"
    todo,     \* the groups that are still to start in this attempt
    active,   \* steps whose action is executing
    broken,   \* whether a step of the current group has failed
    attempt,  \* replans so far
    revoked   \* history: tasks that lost the lock of an executing step

vars == <<holder, age, queued, status, todo, active, broken, attempt, revoked>>

coordinatorVars == <<status, todo, active, broken, attempt>>

Statuses == {"planned", "running", "done", "failed"}

TypeOK ==
    /\ ManagerTypeOK
    /\ status \in [Tasks -> Statuses]
    /\ todo \in [Tasks -> Seq(SUBSET Step)]
    /\ active \in [Tasks -> SUBSET Step]
    /\ broken \in [Tasks -> BOOLEAN]
    /\ attempt \in [Tasks -> 0 .. MaxReplans]
    /\ revoked \in SUBSET Tasks
-----------------------------------------------------------------------------
Writes(S) == {s \in S : ~ s.readOnly}

LocksOf(S) == UNION {s.locks : s \in S}

\* The locks that the executing actions of t rely on.
Needs(t) == LocksOf(Writes(active[t]))

\* The write steps that other tasks keep from starting.
BlockedSteps(t, S) == {s \in Writes(S) : Blocked(t, s.locks)}

Init ==
    /\ ManagerInit
    /\ status = [t \in Tasks |-> "planned"]
    /\ todo \in [Tasks -> Plans]
    /\ active = [t \in Tasks |-> {}]
    /\ broken = [t \in Tasks |-> FALSE]
    /\ attempt = [t \in Tasks |-> 0]
    /\ revoked = {}

GroupSettled(t) == active[t] = {}

\* The steps of the next group start. Those the permission manager refuses and
\* those whose locks are taken fail at once, the latter leaving a request.
StartGroup(t) ==
    /\ status[t] \in {"planned", "running"}
    /\ GroupSettled(t) /\ ~ broken[t]
    /\ todo[t] # <<>>
    /\ \E denied \in SUBSET Head(todo[t]) :
         LET allowed == Head(todo[t]) \ denied
             blocked == BlockedSteps(t, allowed)
             started == allowed \ blocked
         IN  /\ Grant(t, LocksOf(Writes(started)))
             /\ Enqueue(t, {s.locks : s \in blocked})
             /\ active' = [active EXCEPT ![t] = started]
             /\ broken' = [broken EXCEPT ![t] = denied # {} \/ blocked # {}]
             /\ revoked' = revoked \ {t}
    /\ status' = [status EXCEPT ![t] = "running"]
    /\ todo' = [todo EXCEPT ![t] = Tail(@)]
    /\ UNCHANGED attempt

\* The action of s returns or throws. A write step releases every lock of its
\* task; the remaining steps of the group lose theirs.
FinishStep(t, s) ==
    /\ s \in active[t]
    /\ active' = [active EXCEPT ![t] = @ \ {s}]
    /\ \E failed \in BOOLEAN : broken' = [broken EXCEPT ![t] = @ \/ failed]
    /\ IF s.readOnly
         THEN UNCHANGED <<managerVars, revoked>>
         ELSE /\ Release(t)
              /\ revoked' = IF LocksOf(Writes(active'[t])) # {} THEN revoked \cup {t} ELSE revoked
    /\ UNCHANGED <<status, todo, attempt>>

\* All groups have run.
Complete(t) ==
    /\ status[t] = "running"
    /\ GroupSettled(t) /\ ~ broken[t]
    /\ todo[t] = <<>>
    /\ status' = [status EXCEPT ![t] = "done"]
    /\ UNCHANGED <<managerVars, todo, active, broken, attempt, revoked>>

\* Fault: replans are not counted.
ReplanUncounted(t) ==
    /\ status[t] = "running"
    /\ GroupSettled(t) /\ broken[t]
    /\ \E p \in Plans : todo' = [todo EXCEPT ![t] = p]
    /\ broken' = [broken EXCEPT ![t] = FALSE]
    /\ UNCHANGED <<managerVars, status, attempt, active, revoked>>

\* A group with a failed step ends the attempt: another plan is tried, until
\* the attempts are used up. The task fails at once when the planner has no
\* other plan or the verifier itself reported an error.
Replan(t) ==
    /\ status[t] = "running"
    /\ GroupSettled(t) /\ broken[t]
    /\ \/ /\ attempt[t] < MaxReplans
          /\ attempt' = [attempt EXCEPT ![t] = @ + 1]
          /\ \E p \in Plans : todo' = [todo EXCEPT ![t] = p]
          /\ broken' = [broken EXCEPT ![t] = FALSE]
          /\ UNCHANGED status
       \/ /\ status' = [status EXCEPT ![t] = "failed"]
          /\ UNCHANGED <<todo, broken, attempt>>
    /\ UNCHANGED <<managerVars, active, revoked>>

\* The host's expireLocks() call.
ExpireLocks ==
    /\ Expires
    /\ Expire
    /\ revoked' = revoked \cup {t \in Tasks : \E r \in Needs(t) : r \in Expired /\ holder[r] = t}
    /\ UNCHANGED coordinatorVars

Tick == Expires /\ Age /\ UNCHANGED <<coordinatorVars, revoked>>

Next ==
    \/ \E t \in Tasks :
         \/ StartGroup(t) \/ Complete(t) \/ Replan(t)
         \/ \E s \in active[t] : FinishStep(t, s)
    \/ ExpireLocks
    \/ Tick

\* The event loop runs what is ready, and an action eventually settles.
Fairness ==
    \A t \in Tasks :
        WF_vars(StartGroup(t) \/ Complete(t) \/ Replan(t) \/ \E s \in active[t] : FinishStep(t, s))

Spec == Init /\ [][Next]_vars /\ Fairness
-----------------------------------------------------------------------------
(* Properties.                                                              *)

\* The locks of an executing write step are its task's, unless they expired
\* under it or a sibling's release dropped them.
LocksHeld == \A t \in Tasks \ revoked : \A r \in Needs(t) : holder[r] = t

\* Two tasks execute writes on one resource only when one of them has lost its
\* lock while executing.
ExclusiveWrites ==
    \A t1, t2 \in Tasks \ revoked : t1 # t2 => Needs(t1) \cap Needs(t2) = {}

\* A lock passes from one task to another only in the step in which its holder
\* releases it: no request ever takes a lock that is held.
NeverTaken ==
    [][\A r \in Resources :
          (holder[r] # Free /\ holder'[r] \notin {Free, holder[r]})
             => \E s \in Writes(active[holder[r]]) : s \notin active'[holder[r]]]_vars

\* A release leaves no request behind that could be granted.
ReleaseServesQueue ==
    [][(\E t \in Tasks : \E s \in Writes(active[t]) : s \notin active'[t])
          => \A q \in queued' : \E r \in q.resources : holder'[r] # Free]_vars

\* Contention delays no task forever: each one is completed or given up.
EveryTaskSettles == \A t \in Tasks : <>(status[t] \in {"done", "failed"})

\* "a resource has at most one holder at a time for write access": no two tasks
\* execute writes on one resource at once.
AtMostOneWriter == \A t1, t2 \in Tasks : t1 # t2 => Needs(t1) \cap Needs(t2) = {}

\* "a crashed or cancelled task must never leave an orphaned lock": a task with
\* no executing step holds nothing.
NoOrphanedLock == \A r \in Resources : holder[r] # Free => active[holder[r]] # {}
=============================================================================
