--------------------------- MODULE TaskLifecycle ---------------------------
(***************************************************************************)
(* The life of tasks in a running NOVA host: RuntimeTaskCoordinator drives *)
(* the records of the TaskManager, writes a checkpoint of every change it  *)
(* makes and then publishes it; the TaskScheduler starts executions; the   *)
(* user pauses, resumes, cancels and retries; the host may crash and       *)
(* recovers the records from the TaskCheckpointStore.                      *)
(*                                                                         *)
(* A call of the coordinator is a record in `calls`. What it does between  *)
(* two awaits is one action; `at` names the await it is suspended in.      *)
(***************************************************************************)
EXTENDS TaskManager, FiniteSets

CONSTANTS
    Tasks,          \* task identifiers
    MaxConcurrent,  \* the scheduler's slots
    MaxReplans,     \* options.maxReplanAttempts
    MaxFaults,      \* bound of the model on failed writes, failed publications and crashes
    OrderedCommits  \* whether the database commits the writes of a task in the order of their issue

ASSUME LifecycleAssumption ==
    /\ MaxReplans \in Nat
    /\ MaxFaults \in Nat
    /\ OrderedCommits \in BOOLEAN

VARIABLES
    up,        \* whether the host runs
    tasks,     \* the TaskManager's records; while the host is down, those that it lost
    disk,      \* the newest checkpoint of each task that is not superseded
    calls,     \* coordinator calls that have not returned
    queue, running, sequence, drain,   \* the TaskScheduler
    starts,    \* history: how often the steps of a task were started
    told,      \* history: the last record published for a task
    faults     \* history: failures so far

schedulerVars == <<queue, running, sequence, drain>>

historyVars == <<starts, told, faults>>

vars == <<up, tasks, disk, calls, schedulerVars, historyVars>>

\* Time does not pass in this model: the order of the queue is the concern of
\* TaskScheduler.
S == INSTANCE TaskScheduler WITH
       Threshold <- 1, MaxSequence <- Cardinality(Tasks), MaxNow <- 0, now <- 0

Awaits == {"persist", "publish", "plan", "steps", "replan", "history", "written", "return"}

\* What follows the await of a write: for a transition, the await after its
\* publication; for a history entry, the transition after it.
Continuations == {"enqueue", "execute", "plan", "steps", "audit", "end", "fail", "outcome"}

Call == [task : Tasks, by : {"submit", "scheduler", "user"}, at : Awaits,
         rec : Record, then : Continuations, attempt : 0 .. MaxReplans]

TypeOK ==
    /\ up \in BOOLEAN
    /\ tasks \in [Tasks -> Record]
    /\ disk \in [Tasks -> Record]
    /\ calls \in SUBSET Call
    /\ S!TypeOK
    /\ starts \in [Tasks -> Nat]
    /\ told \in [Tasks -> Record]
    /\ faults \in 0 .. MaxFaults

Init ==
    /\ up = TRUE
    /\ tasks = [t \in Tasks |-> Absent]
    /\ disk = [t \in Tasks |-> Absent]
    /\ calls = {}
    /\ S!Init
    /\ starts = [t \in Tasks |-> 0]
    /\ told = [t \in Tasks |-> Absent]
    /\ faults = 0
-----------------------------------------------------------------------------
(* Calls.                                                                   *)

\* Fault: the slot is not freed.
ReturnedSilently(c) == {}

\* What is left of call c when its promise settles: the scheduler has yet to
\* free the slot of an execution it started.
Returned(c) == IF c.by = "scheduler" THEN {[c EXCEPT !.at = "return"]} ELSE {}

Continue(c, next) == calls' = (calls \ {c}) \cup next

Suspend(c, at) == Continue(c, {[c EXCEPT !.at = at]})

Return(c) == Continue(c, Returned(c))

\* Call c applies transition(target) and goes on to write the record; an
\* illegal transition ends it.
Transition(c, target, then) ==
    LET r == Moved(tasks[c.task], target) IN
    IF CanMove(tasks[c.task], target)
      THEN /\ tasks' = [tasks EXCEPT ![c.task] = r]
           /\ Continue(c, {[c EXCEPT !.at = "persist", !.rec = r, !.then = then]})
      ELSE Return(c) /\ UNCHANGED tasks

\* Call c appends to the step history and goes on to write the record as it is.
AppendHistory(c, then) ==
    /\ Continue(c, {[c EXCEPT !.at = "history", !.rec = tasks[c.task], !.then = then]})
    /\ UNCHANGED tasks

\* A new call, at the start of execute().
NewCall(t, by) ==
    [task |-> t, by |-> by, at |-> "persist", rec |-> tasks[t], then |-> "plan", attempt |-> 0]

\* The scheduler has just added the tasks in T to its running set: each
\* execute() call runs up to the write of Planning, or returns at once.
Dispatched(t) ==
    LET c == NewCall(t, "scheduler") IN
    IF CanMove(tasks[t], "Planning") THEN {[c EXCEPT !.rec = Moved(tasks[t], "Planning")]} ELSE Returned(c)

StartExecutions(T, others) ==
    /\ calls' = others \cup UNION {Dispatched(t) : t \in T}
    /\ tasks' = [t \in Tasks |-> IF t \in T /\ CanMove(tasks[t], "Planning")
                                   THEN Moved(tasks[t], "Planning") ELSE tasks[t]]

\* The user starts a call that begins with a transition.
UserCall(t, target, then) ==
    /\ CanMove(tasks[t], target)
    /\ Transition(NewCall(t, "user"), target, then)
    /\ UNCHANGED <<up, disk, schedulerVars, historyVars>>
-----------------------------------------------------------------------------
(* The steps of a call.                                                     *)

Writing(c) == c.at \in {"persist", "history"}

\* Writes of one task are issued in the order of their records' progress.
InOrder(c) ==
    \A d \in calls : Writing(d) /\ d.task = c.task => Progress(c.rec) <= Progress(d.rec)

\* Fault: the record is published without waiting for its checkpoint.
CommitUnawaited(c) ==
    /\ Writing(c)
    /\ Suspend(c, IF c.at = "persist" THEN "publish" ELSE "written")
    /\ UNCHANGED <<up, tasks, disk, schedulerVars, historyVars>>

\* The checkpoint transaction of c commits.
Commit(c) ==
    /\ Writing(c)
    /\ OrderedCommits => InOrder(c)
    /\ disk' = [disk EXCEPT ![c.task] = c.rec]
    /\ Suspend(c, IF c.at = "persist" THEN "publish" ELSE "written")
    /\ UNCHANGED <<up, tasks, schedulerVars, historyVars>>

\* The transaction fails, or a subscriber fails in the publication: the call
\* returns the error or throws it, and what it did to the record stays.
CommitOrPublishFails(c) ==
    /\ Writing(c) \/ c.at = "publish"
    /\ faults < MaxFaults
    /\ faults' = faults + 1
    /\ Return(c)
    /\ UNCHANGED <<up, tasks, disk, schedulerVars, starts, told>>

\* The subscribers have handled the progress event of c.
Publish(c) ==
    /\ c.at = "publish"
    /\ told' = [told EXCEPT ![c.task] = c.rec]
    /\ starts' = IF c.then = "steps" THEN [starts EXCEPT ![c.task] = @ + 1] ELSE starts
    /\ CASE c.then = "enqueue" ->
              /\ S!Submit(c.task, "interactive")
              /\ StartExecutions(running' \ running, calls \ {c})
         [] c.then = "execute" -> Transition(c, "Planning", "plan") /\ UNCHANGED schedulerVars
         [] c.then = "plan"    -> Suspend(c, "plan") /\ UNCHANGED <<tasks, schedulerVars>>
         [] c.then = "steps"   -> Suspend(c, "steps") /\ UNCHANGED <<tasks, schedulerVars>>
         [] c.then = "audit"   -> AppendHistory(c, "outcome") /\ UNCHANGED schedulerVars
         [] c.then = "end"     -> Return(c) /\ UNCHANGED <<tasks, schedulerVars>>
    /\ UNCHANGED <<up, disk, faults>>

\* The planner returns a plan, or none.
Planned(c) ==
    /\ c.at = "plan"
    /\ Transition(c, "Executing", "steps") \/ AppendHistory(c, "fail")
    /\ UNCHANGED <<up, disk, schedulerVars, historyVars>>

\* The group loop ends: with every step passed; with a failed step, which is
\* replanned while attempts are left; or with an error of its own.
StepsRun(c) ==
    /\ c.at = "steps"
    /\ \/ Transition(c, "Verifying", "audit")
       \/ /\ c.attempt < MaxReplans
          /\ Continue(c, {[c EXCEPT !.at = "replan", !.attempt = @ + 1]})
          /\ UNCHANGED tasks
       \/ AppendHistory(c, "fail")
    /\ UNCHANGED <<up, disk, schedulerVars, historyVars>>

Replanned(c) ==
    /\ c.at = "replan"
    /\ (Suspend(c, "steps") /\ UNCHANGED tasks) \/ AppendHistory(c, "fail")
    /\ UNCHANGED <<up, disk, schedulerVars, historyVars>>

\* The history is written; the last transition follows.
Conclude(c) ==
    /\ c.at = "written"
    /\ \E target \in IF c.then = "fail" THEN {"Failed"} ELSE {"Completed", "Unverified"} :
         Transition(c, target, "end")
    /\ UNCHANGED <<up, disk, schedulerVars, historyVars>>

\* The scheduler learns that an execution has settled and refills its slot.
SlotFreed(c) ==
    /\ c.at = "return"
    /\ S!Settle(c.task)
    /\ StartExecutions(running' \ (running \ {c.task}), calls \ {c})
    /\ UNCHANGED <<up, disk, historyVars>>

CallStep(c) ==
    \/ Commit(c) \/ Publish(c) \/ Planned(c) \/ StepsRun(c) \/ Replanned(c) \/ Conclude(c) \/ SlotFreed(c)
-----------------------------------------------------------------------------
(* The user.                                                                *)

\* submitDurable: the record is created, and queued once that is durable.
Submit(t) ==
    /\ up /\ tasks[t] = Absent /\ disk[t] = Absent
    /\ tasks' = [tasks EXCEPT ![t] = Fresh]
    /\ calls' = calls \cup
         {[NewCall(t, "submit") EXCEPT !.rec = Fresh, !.then = "enqueue"]}
    /\ UNCHANGED <<up, disk, schedulerVars, historyVars>>

Dequeue(t) == IF t \in S!TasksOf(queue) THEN S!Cancel(t) ELSE UNCHANGED schedulerVars

\* Only a task that has not started can be paused. Nothing is written.
Pause(t) ==
    /\ up /\ tasks[t].state = "Created"
    /\ Dequeue(t)
    /\ tasks' = [tasks EXCEPT ![t] = Moved(@, "Paused")]
    /\ UNCHANGED <<up, disk, calls, historyVars>>

Cancellable == {"Created", "Planning", "WaitingResources", "Paused", "WaitingUser"}

\* The task leaves the queue in any case, and is cancelled where the host and
\* the transition table allow it. Nothing is written.
Cancel(t) ==
    /\ up /\ tasks[t].state \notin {"Absent", "Cancelled"}
    /\ Dequeue(t)
    /\ tasks' = IF tasks[t].state \in Cancellable /\ CanMove(tasks[t], "Cancelled")
                  THEN [tasks EXCEPT ![t] = Moved(@, "Cancelled")] ELSE tasks
    /\ UNCHANGED <<up, disk, calls, historyVars>>

\* The confirmed controls of the coordinator.
Retry(t) == up /\ UserCall(t, "Retrying", "execute")

ResumePaused(t) == up /\ tasks[t].state = "Paused" /\ UserCall(t, "Planning", "plan")

ConfirmWaitingUser(t) == up /\ tasks[t].state = "WaitingUser" /\ UserCall(t, "Executing", "end")

DenyWaitingUser(t) == up /\ tasks[t].state = "WaitingUser" /\ UserCall(t, "Cancelled", "end")

\* A component of the host blocks a paused task on a permission.
BlockOnUser(t) ==
    /\ up /\ tasks[t].state = "Paused"
    /\ tasks' = [tasks EXCEPT ![t] = Moved(@, "WaitingUser")]
    /\ UNCHANGED <<up, disk, calls, schedulerVars, historyVars>>
-----------------------------------------------------------------------------
(* Crash and recovery.                                                      *)

\* The process ends. What was in memory is gone; `tasks` is only kept to say
\* what the user had seen.
Crash ==
    /\ up /\ faults < MaxFaults
    /\ up' = FALSE
    /\ faults' = faults + 1
    /\ calls' = {}
    /\ queue' = {} /\ running' = {} /\ sequence' = 0 /\ drain' = FALSE
    /\ UNCHANGED <<tasks, disk, starts, told>>

\* start(): the records of interrupted executions are written as Unverified
\* and all are restored. Nothing is queued.
Recover ==
    /\ ~ up
    /\ up' = TRUE
    /\ disk' = [t \in Tasks |-> Recovered(disk[t])]
    /\ tasks' = disk'
    /\ UNCHANGED <<calls, schedulerVars, historyVars>>

\* A failed write ends the start after some of the records.
RecoverFails ==
    /\ ~ up /\ faults < MaxFaults
    /\ faults' = faults + 1
    /\ \E W \in SUBSET Tasks :
         disk' = [t \in Tasks |-> IF t \in W THEN Recovered(disk[t]) ELSE disk[t]]
    /\ UNCHANGED <<up, tasks, calls, schedulerVars, starts, told>>
-----------------------------------------------------------------------------
Next ==
    \/ \E c \in calls : CallStep(c) \/ CommitOrPublishFails(c)
    \/ \E t \in Tasks :
         \/ Submit(t) \/ Pause(t) \/ Cancel(t) \/ Retry(t) \/ ResumePaused(t)
         \/ ConfirmWaitingUser(t) \/ DenyWaitingUser(t) \/ BlockOnUser(t)
    \/ Crash
    \/ Recover
    \/ RecoverFails

\* Planner, steps, subscribers and database answer, and a host that is down is
\* started again. The user owes nothing.
Fairness ==
    /\ \A t \in Tasks : WF_vars(\E c \in calls : c.task = t /\ CallStep(c))
    /\ WF_vars(Recover)

Spec == Init /\ [][Next]_vars /\ Fairness
-----------------------------------------------------------------------------
(* Properties.                                                              *)

\* c has taken its task to Planning and has not settled it.
Drives(c) == c.at # "return" /\ c.then \notin {"enqueue", "execute", "end"}

\* Whatever the user and the scheduler do at once, at most one call at a time
\* drives the execution of a task: retry, resume and dispatch never double it.
OneDriver == \A c, d \in calls : Drives(c) /\ Drives(d) /\ c.task = d.task => c = d

\* While the steps of a task run, its checkpoint says so: a crash at any moment
\* recovers it as Unverified, and only the user's retry runs it again.
StepsAreCheckpointed ==
    \A c \in calls :
        c.at \in {"steps", "replan"} =>
            tasks[c.task].state = "Executing" /\ disk[c.task] = tasks[c.task]

\* The steps of a task are started at most once for each retry the user spent,
\* over all crashes and restarts.
RetryBudget == \A t \in Tasks : starts[t] <= MaxRetries + 1 /\ (up => starts[t] <= tasks[t].retries + 1)

\* A subscriber never hears of progress that a restart would take back.
EventsAreDurable == \A t \in Tasks : Progress(told[t]) <= Progress(disk[t])

\* A cancelled task stays cancelled as long as the host runs, and none of its
\* steps is started, whatever its execution was waiting for.
CancelledStaysStopped ==
    [][\A t \in Tasks :
          (tasks[t].state = "Cancelled" /\ up /\ up')
             => tasks'[t].state = "Cancelled" /\ starts'[t] = starts[t]]_vars

\* No step of a call and no two calls together ever take a record back, and a
\* restart does so only to the checkpoint.
NeverSetBack ==
    [][\A t \in Tasks : up => Progress(tasks'[t]) >= Progress(tasks[t])]_vars

Settled == {"Completed", "Unverified", "Failed", "Cancelled", "Paused"}

\* Without failures, a task that was accepted or retried comes to rest.
AcceptedSettles ==
    \A t \in Tasks :
        tasks[t].state \in {"Created", "Planning", "Retrying", "Verifying"}
            ~> tasks[t].state \in Settled \/ faults > 0

\* "Resuming a paused task requires explicit confirmation": a paused task goes
\* on only in the user's resumption, never by being dispatched.
PausedWaitsForUser ==
    [][\A t \in Tasks : tasks[t].state = "Paused" /\ t \in running' \ running => tasks'[t].state = "Paused"]_vars


Unfinished == {"Created", "Planning", "Retrying"}

\* "Resume any unfinished tasks from persisted Task Manager state": a task whose
\* checkpoint says, when the host is down, that it waits to start or is being
\* planned does not stay so once the host is back. start() queues none.
UnfinishedIsResumed ==
    \A t \in Tasks :
        (~ up /\ disk[t].state \in Unfinished) ~> (up /\ tasks[t].state \notin Unfinished)
=============================================================================
