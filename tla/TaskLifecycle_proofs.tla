------------------------ MODULE TaskLifecycle_proofs ------------------------
(***************************************************************************)
(* The safety of the coordinator for any tasks, slots, retries, replans    *)
(* and failures. DriverInv is inductive by itself. DurableInv builds on it *)
(* where the database commits the writes of a task in their order.         *)
(***************************************************************************)
EXTENDS TaskLifecycle, TLAPS

\* The types of what the proofs are about; of the scheduler they need only that
\* it knows no task but those of Tasks.
Typed ==
    /\ up \in BOOLEAN
    /\ tasks \in [Tasks -> Record]
    /\ disk \in [Tasks -> Record]
    /\ told \in [Tasks -> Record]
    /\ calls \subseteq Call
    /\ starts \in [Tasks -> Nat]
    /\ \A e \in queue : e.task \in Tasks
    /\ running \subseteq Tasks

\* c goes on to the steps of its task, or runs them.
Stepping(c) == c.at # "return" /\ c.then = "steps"

\* What a call goes on with fits the await it is suspended in.
Shaped(c) ==
    /\ c.at = "plan" => c.then = "plan"
    /\ c.at \in {"steps", "replan"} => c.then = "steps"
    /\ c.at \in {"history", "written"} => c.then \in {"fail", "outcome"}
    /\ c.at \in {"persist", "publish"} => c.then \notin {"fail", "outcome"}

Driven == {"Planning", "Executing", "Verifying", "Cancelled"}

\* The record of a task says what the call that drives it is about.
Placed(c) ==
    /\ Shaped(c)
    /\ Drives(c) => tasks[c.task].state \in Driven
    /\ Stepping(c) => tasks[c.task].state = "Executing"

DriverInv ==
    /\ Typed
    /\ up \/ calls = {}
    /\ \A c \in calls : Placed(c)
    /\ OneDriver

\* How often the steps of a task with the record r may have been started.
Budget(r) == IF Stage[r.state] < 6 THEN r.retries ELSE r.retries + 1

\* The checkpoint, the record that is being written and the one in memory
\* follow each other; at the steps of a task they are the same.
Recorded(c) ==
    /\ Writing(c) => /\ Progress(disk[c.task]) <= Progress(c.rec)
                     /\ Progress(c.rec) <= Progress(tasks[c.task])
    /\ c.at = "publish" => Progress(c.rec) <= Progress(disk[c.task])
    /\ Stepping(c) => IF c.at = "persist" THEN c.rec = tasks[c.task]
                                          ELSE disk[c.task] = tasks[c.task]
    /\ Stepping(c) /\ c.at \in {"persist", "publish"} => starts[c.task] <= tasks[c.task].retries

DurableInv ==
    /\ \A t \in Tasks : up => Progress(disk[t]) <= Progress(tasks[t])
    /\ \A t \in Tasks : starts[t] <= Budget(disk[t])
    /\ EventsAreDurable
    /\ \A c \in calls : Recorded(c)
-----------------------------------------------------------------------------
(* Records.                                                                 *)

\* The targets of the coordinator's transitions.
Targets == {"Planning", "Executing", "Verifying", "Completed", "Unverified", "Failed", "Retrying", "Cancelled"}

LEMMA StageType ==
    ASSUME NEW s \in States \cup {"Absent"}
    PROVE  Stage[s] \in 0 .. 9
BY DEF Stage, States

LEMMA ProgressType ==
    ASSUME NEW r \in Record
    PROVE  Progress(r) \in Nat
<1>1. Stage[r.state] \in 0 .. 9 /\ r.retries \in Nat
  BY StageType, RetriesAssumption DEF Record
<1> QED BY <1>1 DEF Progress

\* A transition of the coordinator leads on, and never from Cancelled.
LEMMA MovedGrows ==
    ASSUME NEW r \in Record, NEW target \in Targets, CanMove(r, target)
    PROVE  /\ Moved(r, target) \in Record
           /\ Progress(r) < Progress(Moved(r, target))
           /\ r.state # "Cancelled"
<1>1. r.state \in States \cup {"Absent"} /\ r.retries \in 0 .. MaxRetries
  BY DEF Record
<1>2. target \in Successors[r.state]
  BY DEF CanMove
<1>3. Moved(r, target) \in Record
  BY <1>1, RetriesAssumption DEF Moved, CanMove, Record, Targets, States
<1>4. r.state # "Cancelled"
  BY <1>2 DEF Successors
<1>5. CASE target = "Retrying"
  <2>1. r.state \in {"Unverified", "Failed"}
    BY <1>1, <1>2, <1>5 DEF Successors, States
  <2>2. Stage[r.state] = 8 /\ Stage[target] = 3
    BY <2>1, <1>5 DEF Stage
  <2> QED BY <1>1, <1>3, <1>4, <1>5, <2>2, RetriesAssumption DEF Progress, Moved
<1>6. CASE target # "Retrying"
  <2>1. Stage[r.state] \in Nat /\ Stage[target] \in Nat /\ Stage[r.state] < Stage[target]
    BY <1>1, <1>2, <1>6 DEF Stage, Successors, States, Targets
  <2> QED BY <1>1, <1>3, <1>4, <1>6, <2>1, RetriesAssumption DEF Progress, Moved
<1> QED BY <1>5, <1>6

\* The record of a task whose steps run is known by its progress.
LEMMA SameProgress ==
    ASSUME NEW r \in Record, NEW s \in Record, r.state = "Executing",
           Progress(r) <= Progress(s), Progress(s) <= Progress(r)
    PROVE  r = s
<1>1. Stage[r.state] = 6 /\ Stage[s.state] \in 0 .. 9 /\ r.retries \in Nat /\ s.retries \in Nat
  BY StageType, RetriesAssumption DEF Record, Stage
<1>2. 10 * r.retries + 6 = 10 * s.retries + Stage[s.state]
  BY <1>1 DEF Progress
<1>3. s.retries = r.retries /\ Stage[s.state] = 6
  <2>1. \A m, n \in Nat, k \in 0 .. 9 : 10 * m + 6 = 10 * n + k => n = m /\ k = 6
    OBVIOUS
  <2> QED BY <1>1, <1>2, <2>1
<1>4. s.state = "Executing"
  BY <1>3 DEF Record, States, Stage
<1> QED BY <1>3, <1>4 DEF Record

LEMMA BudgetGrows ==
    ASSUME NEW r \in Record, NEW s \in Record, Progress(r) <= Progress(s)
    PROVE  /\ Budget(r) \in Nat /\ Budget(s) \in Nat
           /\ Budget(r) <= Budget(s)
           /\ Budget(r) <= r.retries + 1 /\ Budget(r) <= MaxRetries + 1
<1>1. /\ Stage[r.state] \in 0 .. 9 /\ Stage[s.state] \in 0 .. 9
      /\ r.retries \in 0 .. MaxRetries /\ s.retries \in 0 .. MaxRetries
  BY StageType DEF Record
<1>2. 10 * r.retries + Stage[r.state] <= 10 * s.retries + Stage[s.state]
  BY DEF Progress
<1> QED BY <1>1, <1>2, RetriesAssumption DEF Budget

\* The steps with which the user and a recovery change a record lead on too.
LEMMA OtherMovesGrow ==
    ASSUME NEW r \in Record
    PROVE  /\ Fresh \in Record /\ Absent \in Record
           /\ r.state = "Created" => Moved(r, "Paused") \in Record /\ Progress(r) < Progress(Moved(r, "Paused"))
           /\ r.state = "Paused" => Moved(r, "WaitingUser") \in Record /\ Progress(r) < Progress(Moved(r, "WaitingUser"))
           /\ Recovered(r) \in Record /\ Progress(r) <= Progress(Recovered(r))
<1>1. r.retries \in 0 .. MaxRetries /\ r.state \in States \cup {"Absent"}
  BY DEF Record
<1>2. Fresh \in Record /\ Absent \in Record
  BY RetriesAssumption DEF Fresh, Absent, Record, States
<1>3. ASSUME r.state = "Created"
      PROVE  Moved(r, "Paused") \in Record /\ Progress(r) < Progress(Moved(r, "Paused"))
  BY <1>1, <1>3, RetriesAssumption DEF Moved, Record, States, Progress, Stage
<1>4. ASSUME r.state = "Paused"
      PROVE  Moved(r, "WaitingUser") \in Record /\ Progress(r) < Progress(Moved(r, "WaitingUser"))
  BY <1>1, <1>4, RetriesAssumption DEF Moved, Record, States, Progress, Stage
<1>5. Recovered(r) \in Record
  BY DEF Recovered, Record, States
<1>6. Progress(r) <= Progress(Recovered(r))
  <2>1. CASE r.state \in {"Executing", "Verifying"}
    BY <1>1, <2>1, RetriesAssumption DEF Recovered, Record, States, Progress, Stage
  <2>2. CASE r.state \notin {"Executing", "Verifying"}
    <3>1. Recovered(r) = r
      BY <2>2 DEF Recovered, Record
    <3> QED BY <3>1, ProgressType
  <2> QED BY <2>1, <2>2
<1> QED BY <1>2, <1>3, <1>4, <1>5, <1>6
-----------------------------------------------------------------------------
(* Types, and progress.                                                     *)

\* No record is taken back, a cancelled one stays as it is, and a retry is
\* counted as such.
Grown ==
    \A t \in Tasks :
        /\ Progress(tasks[t]) <= Progress(tasks'[t])
        /\ tasks[t].state = "Cancelled" => tasks'[t] = tasks[t]
        /\ tasks'[t].retries = tasks[t].retries \/ tasks'[t].state = "Retrying"

SchedulerTyped == (\A e \in queue : e.task \in Tasks) /\ running \subseteq Tasks

\* The scheduler starts what was submitted to it.
LEMMA SchedulerStep ==
    ASSUME SchedulerTyped, NEW t \in Tasks, NEW p,
           S!Submit(t, p) \/ S!Settle(t) \/ Dequeue(t)
    PROVE  SchedulerTyped'
<1>1. \A q, r : (\A e \in q : e.task \in Tasks) /\ r \subseteq Tasks /\ S!FillSlots(q, r) => SchedulerTyped'
  BY DEF S!FillSlots, S!Picked, S!TasksOf, SchedulerTyped
<1>2. CASE S!Submit(t, p)
  <2>1. \A e \in queue \cup S!NewEntries(t, p) : e.task \in Tasks
    BY DEF S!NewEntries, SchedulerTyped
  <2> QED BY <1>1, <1>2, <2>1 DEF S!Submit, SchedulerTyped
<1>3. CASE S!Settle(t)
  BY <1>1, <1>3 DEF S!Settle, SchedulerTyped
<1>4. CASE Dequeue(t)
  BY <1>4 DEF Dequeue, S!Cancel, schedulerVars, SchedulerTyped
<1> QED BY <1>2, <1>3, <1>4

\* What a call goes on to is a call.
LEMMA CallTypes ==
    ASSUME NEW c \in Call
    PROVE  /\ c.task \in Tasks /\ c.rec \in Record /\ c.attempt \in 0 .. MaxReplans
           /\ \A at \in Awaits : [c EXCEPT !.at = at] \in Call
           /\ \A at \in Awaits, r \in Record, then \in Continuations :
                 [c EXCEPT !.at = at, !.rec = r, !.then = then] \in Call
           /\ Returned(c) \subseteq Call
           /\ c.attempt < MaxReplans => [c EXCEPT !.at = "replan", !.attempt = @ + 1] \in Call
<1>1. c.attempt < MaxReplans => c.attempt + 1 \in 0 .. MaxReplans
  BY LifecycleAssumption DEF Call
<1> QED BY <1>1 DEF Call, Returned, Awaits

\* A transition takes effect and is written, or the call returns.
LEMMA TransitionStep ==
    ASSUME tasks \in [Tasks -> Record], calls \subseteq Call, NEW c \in Call,
           NEW target \in Targets, NEW then \in Continuations, Transition(c, target, then)
    PROVE  /\ tasks' \in [Tasks -> Record] /\ calls' \subseteq Call /\ Grown
           /\ \A t \in Tasks \ {c.task} : tasks'[t] = tasks[t]
           /\ \/ /\ CanMove(tasks[c.task], target)
                 /\ tasks'[c.task] = Moved(tasks[c.task], target)
                 /\ calls' = (calls \ {c}) \cup
                       {[c EXCEPT !.at = "persist", !.rec = Moved(tasks[c.task], target), !.then = then]}
              \/ tasks' = tasks /\ calls' = (calls \ {c}) \cup Returned(c)
<1>1. c.task \in Tasks /\ tasks[c.task] \in Record
  BY CallTypes
<1>2. CASE CanMove(tasks[c.task], target)
  <2>1. tasks' = [tasks EXCEPT ![c.task] = Moved(tasks[c.task], target)]
    BY <1>2 DEF Transition
  <2>2. calls' = (calls \ {c}) \cup
                 {[c EXCEPT !.at = "persist", !.rec = Moved(tasks[c.task], target), !.then = then]}
    BY <1>2 DEF Transition, Continue
  <2>3. Moved(tasks[c.task], target) \in Record
        /\ Progress(tasks[c.task]) < Progress(Moved(tasks[c.task], target))
        /\ tasks[c.task].state # "Cancelled"
    BY <1>1, <1>2, MovedGrows
  <2>4. tasks' \in [Tasks -> Record] /\ calls' \subseteq Call
    <3>1. tasks' \in [Tasks -> Record]
      BY <2>1, <2>3
    <3>2. [c EXCEPT !.at = "persist", !.rec = Moved(tasks[c.task], target), !.then = then] \in Call
      BY <2>3, CallTypes DEF Awaits
    <3> QED BY <2>2, <3>1, <3>2
  <2>5. \A t \in Tasks : Progress(tasks[t]) \in Nat /\ Progress(tasks'[t]) \in Nat
    BY <2>4, ProgressType
  <2>6. Grown
    BY <1>1, <2>1, <2>3, <2>5 DEF Grown, Moved
  <2> QED BY <1>1, <1>2, <2>1, <2>2, <2>4, <2>6
<1>3. CASE ~ CanMove(tasks[c.task], target)
  <2>1. tasks' = tasks /\ calls' = (calls \ {c}) \cup Returned(c)
    BY <1>3 DEF Transition, Return, Continue
  <2>2. calls' \subseteq Call /\ tasks' \in [Tasks -> Record]
    BY <2>1, CallTypes
  <2>3. \A t \in Tasks : tasks[t] \in Record /\ Progress(tasks[t]) \in Nat
    BY ProgressType
  <2>4. Grown
    BY <2>1, <2>3 DEF Grown
  <2> QED BY <2>1, <2>2, <2>4
<1> QED BY <1>2, <1>3

\* Every execution that is started has taken its task to Planning or returns.
LEMMA StartStep ==
    ASSUME tasks \in [Tasks -> Record], calls \subseteq Call, NEW T \in SUBSET Tasks,
           NEW others \in SUBSET calls, StartExecutions(T, others)
    PROVE  /\ tasks' \in [Tasks -> Record] /\ calls' \subseteq Call /\ Grown
           /\ \A t \in Tasks : \/ tasks'[t] = tasks[t]
                               \/ /\ t \in T /\ CanMove(tasks[t], "Planning")
                                  /\ tasks'[t] = Moved(tasks[t], "Planning")
           /\ \A d \in calls' \ others :
                 /\ d.task \in T
                 /\ \/ d.at = "return"
                    \/ /\ CanMove(tasks[d.task], "Planning")
                       /\ tasks'[d.task] = Moved(tasks[d.task], "Planning")
                       /\ d = [NewCall(d.task, "scheduler") EXCEPT !.rec = Moved(tasks[d.task], "Planning")]
<1>1. \A t \in T : CanMove(tasks[t], "Planning") =>
          /\ Moved(tasks[t], "Planning") \in Record
          /\ Progress(tasks[t]) < Progress(Moved(tasks[t], "Planning"))
          /\ tasks[t].state # "Cancelled"
  BY MovedGrows DEF Targets
<1>2. \A t \in Tasks : tasks'[t] = IF t \in T /\ CanMove(tasks[t], "Planning")
                                    THEN Moved(tasks[t], "Planning") ELSE tasks[t]
  BY DEF StartExecutions
<1>3. tasks' \in [Tasks -> Record]
  BY <1>1 DEF StartExecutions
<1>4. \A t \in Tasks : Progress(tasks[t]) \in Nat /\ Progress(tasks'[t]) \in Nat
  BY <1>3, ProgressType
<1>5. Grown
  <2>1. \A r : Moved(r, "Planning").retries = r.retries
    BY DEF Moved
  <2> QED BY <1>1, <1>2, <1>4, <2>1 DEF Grown
<1>6. \A t \in T : NewCall(t, "scheduler") \in Call
  BY LifecycleAssumption DEF NewCall, Call, Awaits, Continuations
<1>7. ASSUME NEW d \in calls' \ others
      PROVE  /\ d \in Call /\ d.task \in T
             /\ \/ d.at = "return"
                \/ /\ CanMove(tasks[d.task], "Planning")
                   /\ tasks'[d.task] = Moved(tasks[d.task], "Planning")
                   /\ d = [NewCall(d.task, "scheduler") EXCEPT !.rec = Moved(tasks[d.task], "Planning")]
  <2>1. PICK t \in T : d \in Dispatched(t)
    BY <1>7 DEF StartExecutions
  <2>2. CASE CanMove(tasks[t], "Planning")
    <3>1. d = [NewCall(t, "scheduler") EXCEPT !.rec = Moved(tasks[t], "Planning")]
      BY <2>1, <2>2 DEF Dispatched
    <3>2. d.task = t
      BY <3>1 DEF NewCall
    <3>3. d \in Call
      BY <1>1, <1>6, <2>2, <3>1 DEF Call
    <3> QED BY <1>2, <2>2, <3>1, <3>2, <3>3
  <2>3. CASE ~ CanMove(tasks[t], "Planning")
    <3>1. d = [NewCall(t, "scheduler") EXCEPT !.at = "return"]
      BY <2>1, <2>3 DEF Dispatched, Returned, NewCall
    <3> QED BY <1>6, <3>1 DEF NewCall, Call, Awaits
  <2> QED BY <2>2, <2>3
<1> QED BY <1>2, <1>3, <1>5, <1>7

\* Every step keeps the types and, while the host runs, takes no record back.
LEMMA TypedStep ==
    ASSUME Typed, \A c \in calls : Shaped(c), [Next]_vars
    PROVE  Typed' /\ (up => Grown)
<1>0. \A t \in Tasks : tasks[t] \in Record /\ Progress(tasks[t]) \in Nat
  BY ProgressType DEF Typed
<1>1. tasks' = tasks => Grown
  BY <1>0 DEF Grown
<1>2. CASE UNCHANGED vars
  BY <1>1, <1>2 DEF vars, schedulerVars, historyVars, Typed
<1>3. ASSUME NEW c \in calls, CallStep(c) \/ CommitOrPublishFails(c)
      PROVE  Typed' /\ Grown
  <2> c \in Call
    BY <1>3 DEF Typed
  <2>0. /\ c.task \in Tasks /\ c.rec \in Record /\ tasks[c.task] \in Record
        /\ Returned(c) \subseteq Call
        /\ \A at \in Awaits : [c EXCEPT !.at = at] \in Call
        /\ \A then \in Continuations : [c EXCEPT !.at = "history", !.rec = tasks[c.task], !.then = then] \in Call
    BY <1>0, CallTypes DEF Awaits
  <2>1. CASE Commit(c)
    BY <1>1, <2>1, CallTypes DEF Commit, Suspend, Continue, schedulerVars, historyVars, Typed, Awaits
  <2>2. CASE CommitOrPublishFails(c)
    BY <1>1, <2>2, CallTypes DEF CommitOrPublishFails, Return, Continue, schedulerVars, Typed
  <2>3. CASE Publish(c)
    <3>1. /\ up' = up /\ disk' = disk
          /\ told' = [told EXCEPT ![c.task] = c.rec]
          /\ starts' = IF c.then = "steps" THEN [starts EXCEPT ![c.task] = @ + 1] ELSE starts
      BY <2>3 DEF Publish
    <3>2. up' \in BOOLEAN /\ disk' \in [Tasks -> Record] /\ told' \in [Tasks -> Record] /\ starts' \in [Tasks -> Nat]
      <4>1. told' \in [Tasks -> Record]
        BY <2>0, <3>1 DEF Typed
      <4>2. starts' \in [Tasks -> Nat]
        <5>1. CASE c.then = "steps"
          <6>1. starts[c.task] \in Nat
            BY <2>0 DEF Typed
          <6>2. starts[c.task] + 1 \in Nat
            BY <6>1
          <6>3. starts' = [starts EXCEPT ![c.task] = starts[c.task] + 1]
            BY <3>1, <5>1
          <6> QED BY <6>2, <6>3 DEF Typed
        <5>2. CASE c.then # "steps"
          BY <3>1, <5>2 DEF Typed
        <5> QED BY <5>1, <5>2
      <4> QED BY <3>1, <4>1, <4>2 DEF Typed
    <3>3. CASE c.then = "enqueue"
      <4>1. S!Submit(c.task, "interactive") /\ StartExecutions(running' \ running, calls \ {c})
        BY <2>3, <3>3 DEF Publish
      <4>2. SchedulerTyped'
        BY <4>1, CallTypes, SchedulerStep DEF SchedulerTyped, Typed
      <4>3. running' \ running \in SUBSET Tasks /\ calls \ {c} \in SUBSET calls
        BY <4>2 DEF SchedulerTyped
      <4>4. tasks' \in [Tasks -> Record] /\ calls' \subseteq Call /\ Grown
        BY <4>1, <4>3, StartStep DEF Typed
      <4> QED BY <3>2, <4>2, <4>4 DEF SchedulerTyped, Typed
    <3>4. CASE c.then = "execute"
      <4>1. Transition(c, "Planning", "plan") /\ UNCHANGED schedulerVars
        BY <2>3, <3>4 DEF Publish
      <4>2. tasks' \in [Tasks -> Record] /\ calls' \subseteq Call /\ Grown
        BY <4>1, TransitionStep DEF Typed, Targets, Continuations
      <4> QED BY <3>2, <4>1, <4>2 DEF Typed, schedulerVars
    <3>5. CASE c.then \in {"plan", "steps", "audit", "end"}
      <4>1. /\ \/ Suspend(c, "plan") \/ Suspend(c, "steps") \/ Return(c) \/ AppendHistory(c, "outcome")
            /\ UNCHANGED <<tasks, schedulerVars>>
        BY <2>3, <3>5 DEF Publish, AppendHistory
      <4>2. calls' \subseteq Call
        BY <2>0, <4>1 DEF Typed, Suspend, Return, AppendHistory, Continue, Awaits, Continuations
      <4> QED BY <1>1, <3>2, <4>1, <4>2 DEF Typed, schedulerVars
    <3>6. c.then \in {"enqueue", "execute", "plan", "steps", "audit", "end"}
      BY <1>3, <2>3 DEF Publish, Shaped, Call, Continuations
    <3> QED BY <3>3, <3>4, <3>5, <3>6
  <2>4. CASE Planned(c) \/ StepsRun(c) \/ Replanned(c) \/ Conclude(c)
    <3>1. UNCHANGED <<up, disk, told, starts, queue, running>>
      BY <2>4 DEF Planned, StepsRun, Replanned, Conclude, schedulerVars, historyVars
    <3>2. CASE \E target \in Targets, then \in Continuations : Transition(c, target, then)
      BY <3>1, <3>2, TransitionStep DEF Typed
    <3>3. CASE /\ \/ AppendHistory(c, "fail") \/ Suspend(c, "steps")
                  \/ c.attempt < MaxReplans /\ Continue(c, {[c EXCEPT !.at = "replan", !.attempt = @ + 1]})
               /\ UNCHANGED tasks
      <4>1. calls' \subseteq Call
        BY <2>0, <3>3, CallTypes DEF Typed, Suspend, AppendHistory, Continue, Awaits, Continuations
      <4> QED BY <1>1, <3>1, <3>3, <4>1 DEF Typed
    <3> QED
      BY <2>4, <3>2, <3>3 DEF Planned, StepsRun, Replanned, Conclude, AppendHistory, Targets, Continuations
  <2>5. CASE SlotFreed(c)
    <3>1. /\ S!Settle(c.task) /\ StartExecutions(running' \ (running \ {c.task}), calls \ {c})
          /\ UNCHANGED <<up, disk, told, starts>>
      BY <2>5 DEF SlotFreed, historyVars
    <3>2. SchedulerTyped'
      BY <3>1, CallTypes, SchedulerStep DEF SchedulerTyped, Typed
    <3>3. running' \ (running \ {c.task}) \in SUBSET Tasks /\ calls \ {c} \in SUBSET calls
      BY <3>2 DEF SchedulerTyped
    <3>4. tasks' \in [Tasks -> Record] /\ calls' \subseteq Call /\ Grown
      BY <3>1, <3>3, StartStep DEF Typed
    <3> QED BY <3>1, <3>2, <3>4 DEF SchedulerTyped, Typed
  <2> QED BY <1>3, <2>1, <2>2, <2>3, <2>4, <2>5 DEF CallStep
<1>4. ASSUME NEW t \in Tasks, Submit(t)
      PROVE  Typed' /\ Grown
  <2>1. tasks[t] = Absent /\ tasks' = [tasks EXCEPT ![t] = Fresh]
    BY <1>4 DEF Submit
  <2>2. Fresh \in Record /\ Progress(Absent) = 0 /\ Progress(Fresh) = 1 /\ Absent.state # "Cancelled" /\ Absent.retries = Fresh.retries
    BY <1>0, OtherMovesGrow DEF Progress, Absent, Fresh, Stage
  <2>3. [NewCall(t, "submit") EXCEPT !.rec = Fresh, !.then = "enqueue"] \in Call
    <3>1. NewCall(t, "submit") \in Call
      BY <1>0, LifecycleAssumption DEF NewCall, Call, Awaits, Continuations
    <3> QED BY <2>2, <3>1 DEF Call, Continuations
  <2>4. Grown
    BY <1>0, <2>1, <2>2 DEF Grown, Typed
  <2> QED BY <1>4, <2>1, <2>2, <2>3, <2>4 DEF Submit, Typed, schedulerVars, historyVars
<1>5. ASSUME NEW t \in Tasks, Pause(t) \/ Cancel(t) \/ BlockOnUser(t)
      PROVE  Typed' /\ Grown
  <2>1. UNCHANGED <<up, disk, calls, told, starts>>
    BY <1>5 DEF Pause, Cancel, BlockOnUser, historyVars
  <2>2. SchedulerTyped'
    BY <1>5, SchedulerStep DEF Pause, Cancel, BlockOnUser, schedulerVars, SchedulerTyped, Typed
  <2>3. \/ tasks' = tasks
        \/ /\ tasks[t].state # "Cancelled"
           /\ \E r \in Record : /\ Progress(tasks[t]) < Progress(r) /\ r.retries = tasks[t].retries
                               /\ tasks' = [tasks EXCEPT ![t] = r]
    <3>1. tasks[t] \in Record
      BY DEF Typed
    <3>2. CASE Pause(t)
      BY <3>1, <3>2, OtherMovesGrow DEF Pause, Moved
    <3>3. CASE Cancel(t)
      BY <3>1, <3>3, MovedGrows DEF Cancel, Targets, Moved
    <3>4. CASE BlockOnUser(t)
      BY <3>1, <3>4, OtherMovesGrow DEF BlockOnUser, Moved
    <3> QED BY <1>5, <3>2, <3>3, <3>4
  <2>4. tasks' \in [Tasks -> Record] /\ Grown
    BY <1>0, <1>1, <2>3, ProgressType DEF Grown, Typed
  <2> QED BY <2>1, <2>2, <2>4 DEF SchedulerTyped, Typed
<1>6. ASSUME NEW t \in Tasks, Retry(t) \/ ResumePaused(t) \/ ConfirmWaitingUser(t) \/ DenyWaitingUser(t)
      PROVE  Typed' /\ Grown
  <2>1. PICK target \in Targets, then \in Continuations : UserCall(t, target, then)
    BY <1>6 DEF Retry, ResumePaused, ConfirmWaitingUser, DenyWaitingUser, Targets, Continuations
  <2>2. NewCall(t, "user") \in Call
    BY <1>0, LifecycleAssumption DEF NewCall, Call, Awaits, Continuations
  <2>3. tasks' \in [Tasks -> Record] /\ calls' \subseteq Call /\ Grown
    BY <2>1, <2>2, TransitionStep DEF UserCall, Typed
  <2> QED BY <2>1, <2>3 DEF UserCall, Typed, schedulerVars, historyVars
<1>7. CASE Crash
  BY <1>1, <1>7 DEF Crash, Typed
<1>8. CASE Recover
  <2>1. disk' \in [Tasks -> Record]
    BY <1>8, OtherMovesGrow DEF Recover, Typed
  <2> QED BY <1>8, <2>1 DEF Recover, Typed, schedulerVars, historyVars
<1>9. CASE RecoverFails
  <2>1. disk' \in [Tasks -> Record]
    BY <1>9, OtherMovesGrow DEF RecoverFails, Typed
  <2> QED BY <1>9, <2>1 DEF RecoverFails, Typed, schedulerVars
<1> QED BY <1>2, <1>3, <1>4, <1>5, <1>6, <1>7, <1>8, <1>9 DEF Next
-----------------------------------------------------------------------------
(* One driver.                                                              *)

\* The old calls go on undisturbed and the new ones fit the records: then they
\* all do, and no task has two drivers.
LEMMA Follow ==
    ASSUME DriverInv, NEW old \in SUBSET calls, NEW new, calls' = old \cup new,
           \A d \in old : Drives(d) => tasks'[d.task] = tasks[d.task],
           \A d \in new : Placed(d)',
           \A d, e \in new : Drives(d) /\ Drives(e) /\ d.task = e.task => d = e,
           \A d \in old, e \in new : Drives(d) /\ Drives(e) => d.task # e.task
    PROVE  (\A c \in calls' : Placed(c)') /\ OneDriver'
<1>1. \A d \in old : Placed(d)'
  <2> SUFFICES ASSUME NEW d \in old PROVE Placed(d)'
    OBVIOUS
  <2>1. Placed(d) /\ (Stepping(d) => Drives(d))
    BY DEF DriverInv, Drives, Stepping
  <2> QED BY <2>1 DEF Placed
<1>2. OneDriver'
  <2>1. \A d, e \in old : Drives(d) /\ Drives(e) /\ d.task = e.task => d = e
    BY DEF DriverInv, OneDriver
  <2> QED BY <2>1 DEF OneDriver
<1> QED BY <1>1, <1>2

\* A driven task can be moved to Planning or Retrying by nobody.
LEMMA DrivenStays ==
    ASSUME DriverInv, NEW d \in calls, Drives(d)
    PROVE  ~ CanMove(tasks[d.task], "Planning") /\ ~ CanMove(tasks[d.task], "Retrying")
<1>1. tasks[d.task].state \in Driven
  BY DEF DriverInv, Placed
<1> QED BY <1>1 DEF Driven, CanMove, Successors

\* A call without a rival makes a transition.
LEMMA TransitionPlaced ==
    ASSUME DriverInv, NEW c \in Call, NEW target \in Targets, NEW then \in Continuations,
           Transition(c, target, then),
           CanMove(tasks[c.task], target) => \A d \in calls \ {c} : Drives(d) => d.task # c.task,
           then \notin {"fail", "outcome"},
           then \in {"plan", "steps", "audit"} => target \in Driven,
           then = "steps" => target = "Executing"
    PROVE  (\A d \in calls' : Placed(d)') /\ OneDriver'
<1> DEFINE n == [c EXCEPT !.at = "persist", !.rec = Moved(tasks[c.task], target), !.then = then]
<1>1. /\ \A t \in Tasks \ {c.task} : tasks'[t] = tasks[t]
      /\ \/ /\ CanMove(tasks[c.task], target)
            /\ tasks'[c.task] = Moved(tasks[c.task], target)
            /\ calls' = (calls \ {c}) \cup {n}
         \/ tasks' = tasks /\ calls' = (calls \ {c}) \cup Returned(c)
  BY TransitionStep DEF DriverInv, Typed
<1>2. CASE tasks' = tasks /\ calls' = (calls \ {c}) \cup Returned(c)
  <2>1. \A d \in Returned(c) : d.at = "return"
    BY DEF Returned, Call
  <2>2. \A d \in Returned(c) : ~ Drives(d) /\ Placed(d)'
    BY <2>1 DEF Drives, Placed, Shaped, Stepping
  <2> QED BY <1>2, <2>2, Follow
<1>3. CASE /\ CanMove(tasks[c.task], target)
           /\ tasks'[c.task] = Moved(tasks[c.task], target)
           /\ calls' = (calls \ {c}) \cup {n}
  <2>1. n.at = "persist" /\ n.then = then /\ n.task = c.task
    BY DEF Call
  <2>2. ASSUME NEW d \in {n}
        PROVE  Placed(d)'
    <3>1. tasks'[c.task].state = target
      BY <1>3 DEF Moved
    <3>2. d.at = "persist" /\ d.then = then /\ d.task = c.task
      BY <2>1
    <3>3. Drives(d) => then \in {"plan", "steps", "audit"}
      BY <3>2 DEF Drives, Continuations
    <3> QED BY <3>1, <3>2, <3>3 DEF Placed, Shaped, Stepping
  <2>3. \A d \in calls \ {c} : Drives(d) => d.task # c.task /\ d.task \in Tasks
    BY <1>3 DEF DriverInv, Typed, Call
  <2> PICK new : new = {n}
    OBVIOUS
  <2>4. \A d \in new : Placed(d)'
    BY <2>2
  <2>5. \A d \in calls \ {c} : Drives(d) => tasks'[d.task] = tasks[d.task]
    BY <1>1, <2>3
  <2>6. \A d \in calls \ {c}, e \in new : Drives(d) /\ Drives(e) => d.task # e.task
    BY <2>1, <2>3
  <2>7. calls' = (calls \ {c}) \cup new /\ calls \ {c} \in SUBSET calls /\ \A d, e \in new : d = e
    BY <1>3
  <2> QED BY ONLY DriverInv, <2>4, <2>5, <2>6, <2>7, Follow
<1> QED BY <1>1, <1>2, <1>3

\* A call goes on as d, about the same task, while the records stay.
LEMMA SuspendPlaced ==
    ASSUME DriverInv, NEW c \in calls, NEW next, Continue(c, next), tasks' = tasks,
           \A d \in next : /\ d.task = c.task /\ Shaped(d)
                           /\ Drives(d) => Drives(c)
                           /\ Stepping(d) => Stepping(c),
           \A d, e \in next : d = e
    PROVE  (\A d \in calls' : Placed(d)') /\ OneDriver'
<1>1. calls' = (calls \ {c}) \cup next
  BY DEF Continue
<1>2. Placed(c) /\ \A d \in calls \ {c} : Drives(d) /\ Drives(c) => d.task # c.task
  BY DEF DriverInv, OneDriver
<1>3. \A d \in next : Placed(d)'
  BY <1>2 DEF Placed
<1>4. \A d \in calls \ {c}, e \in next : Drives(d) /\ Drives(e) => d.task # e.task
  BY <1>2
<1>5. \A d \in calls \ {c} : Drives(d) => tasks'[d.task] = tasks[d.task]
  OBVIOUS
<1>6. calls \ {c} \in SUBSET calls
  OBVIOUS
<1> QED BY ONLY DriverInv, \A d, e \in next : d = e, <1>1, <1>3, <1>4, <1>5, <1>6, Follow

\* Executions are started: each moves a task that nobody drives.
LEMMA StartPlaced ==
    ASSUME DriverInv, NEW T \in SUBSET Tasks, NEW others \in SUBSET calls, StartExecutions(T, others)
    PROVE  (\A d \in calls' : Placed(d)') /\ OneDriver'
<1>1. /\ \A t \in Tasks : \/ tasks'[t] = tasks[t]
                          \/ /\ t \in T /\ CanMove(tasks[t], "Planning")
                             /\ tasks'[t] = Moved(tasks[t], "Planning")
      /\ \A d \in calls' \ others :
            /\ d.task \in T
            /\ \/ d.at = "return"
               \/ /\ CanMove(tasks[d.task], "Planning")
                  /\ tasks'[d.task] = Moved(tasks[d.task], "Planning")
                  /\ d = [NewCall(d.task, "scheduler") EXCEPT !.rec = Moved(tasks[d.task], "Planning")]
  BY StartStep DEF DriverInv, Typed
<1> DEFINE new == calls' \ others
<1>2. calls' = others \cup new
  BY DEF StartExecutions
<1>3. \A d \in others : Drives(d) => tasks'[d.task] = tasks[d.task]
  BY <1>1, DrivenStays DEF DriverInv, Typed, Call
<1>4. \A d \in new : Placed(d)'
  <2> SUFFICES ASSUME NEW d \in new PROVE Placed(d)'
    OBVIOUS
  <2>1. CASE d.at = "return"
    BY <2>1 DEF Placed, Drives, Shaped, Stepping
  <2>2. CASE /\ tasks'[d.task] = Moved(tasks[d.task], "Planning")
             /\ d = [NewCall(d.task, "scheduler") EXCEPT !.rec = Moved(tasks[d.task], "Planning")]
    <3>1. d.at = "persist" /\ d.then = "plan"
      BY <2>2 DEF NewCall
    <3>2. tasks'[d.task].state = "Planning"
      BY <2>2 DEF Moved
    <3> QED BY <3>1, <3>2 DEF Placed, Shaped, Stepping, Driven
  <2> QED BY <1>1, <2>1, <2>2
<1>5. \A d, e \in new : Drives(d) /\ Drives(e) /\ d.task = e.task => d = e
  BY <1>1 DEF Drives
<1>6. \A d \in others, e \in new : Drives(d) /\ Drives(e) => d.task # e.task
  BY <1>1, DrivenStays DEF Drives
<1> HIDE DEF new
<1> QED BY <1>2, <1>3, <1>4, <1>5, <1>6, Follow

\* What has returned drives nothing.
LEMMA ReturnPlaced ==
    ASSUME DriverInv, NEW c \in calls, Return(c), tasks' = tasks
    PROVE  (\A d \in calls' : Placed(d)') /\ OneDriver'
<1>1. \A d \in Returned(c) : d.task = c.task /\ d.at = "return"
  BY DEF Returned, DriverInv, Typed, Call
<1>2. \A d \in Returned(c) : d.task = c.task /\ Shaped(d) /\ ~ Drives(d) /\ ~ Stepping(d)
  BY <1>1 DEF Shaped, Drives, Stepping
<1>3. \A d, e \in Returned(c) : d = e
  BY DEF Returned
<1> QED BY <1>2, <1>3, SuspendPlaced DEF Return

\* A driver writes to the step history.
LEMMA HistoryPlaced ==
    ASSUME DriverInv, NEW c \in calls, Drives(c), NEW then \in {"fail", "outcome"}, AppendHistory(c, then)
    PROVE  (\A d \in calls' : Placed(d)') /\ OneDriver'
<1> DEFINE n == [c EXCEPT !.at = "history", !.rec = tasks[c.task], !.then = then]
<1>1. n.task = c.task /\ n.at = "history" /\ n.then = then
  BY DEF DriverInv, Typed, Call
<1>2. Continue(c, {n}) /\ tasks' = tasks
  BY DEF AppendHistory
<1> PICK next : next = {n}
  OBVIOUS
<1>3. \A d \in next : d.task = c.task /\ Shaped(d) /\ ~ Stepping(d)
  BY <1>1 DEF Shaped, Stepping
<1>4. Continue(c, next) /\ \A d, e \in next : d = e
  BY <1>2
<1> QED BY ONLY DriverInv, c \in calls, Drives(c), <1>2, <1>3, <1>4, SuspendPlaced

\* A call is suspended in another await.
LEMMA AwaitPlaced ==
    ASSUME DriverInv, NEW c \in calls, NEW at \in Awaits, Suspend(c, at), tasks' = tasks,
           Shaped([c EXCEPT !.at = at]), c.at # "return"
    PROVE  (\A d \in calls' : Placed(d)') /\ OneDriver'
<1> DEFINE n == [c EXCEPT !.at = at]
<1>1. n.task = c.task /\ n.then = c.then
  BY DEF DriverInv, Typed, Call
<1> PICK next : next = {n}
  OBVIOUS
<1>2. Continue(c, next) /\ \A d, e \in next : d = e
  BY DEF Suspend
<1>3. \A d \in next : d.task = c.task /\ Shaped(d) /\ (Drives(d) => Drives(c)) /\ (Stepping(d) => Stepping(c))
  BY <1>1 DEF Drives, Stepping
<1> QED BY ONLY DriverInv, c \in calls, tasks' = tasks, <1>2, <1>3, SuspendPlaced

\* A driver makes a transition; where it is legal, no other call drives the task.
LEMMA DriverTransition ==
    ASSUME DriverInv, NEW c \in calls, Drives(c),
           NEW target \in Targets, NEW then \in {"steps", "audit", "end"}, Transition(c, target, then),
           then = "steps" => target = "Executing", then = "audit" => target = "Verifying"
    PROVE  (\A d \in calls' : Placed(d)') /\ OneDriver'
<1>1. \A d \in calls \ {c} : Drives(d) => d.task # c.task
  BY DEF DriverInv, OneDriver
<1>2. c \in Call /\ then \in Continuations
  BY DEF DriverInv, Typed, Continuations
<1> QED BY <1>1, <1>2, TransitionPlaced DEF Driven

LEMMA DriverStep ==
    ASSUME DriverInv, [Next]_vars
    PROVE  DriverInv'
<1>1. Typed /\ OneDriver /\ \A c \in calls : Placed(c) /\ Shaped(c)
  BY DEF DriverInv, Placed
<1>2. Typed'
  BY <1>1, TypedStep
<1>3. SUFFICES (up' \/ calls' = {}) /\ (\A c \in calls' : Placed(c)') /\ OneDriver'
  BY <1>2 DEF DriverInv
<1>4. ASSUME tasks' = tasks \/ (\E t \in Tasks : /\ \A u \in Tasks \ {t} : tasks'[u] = tasks[u]
                                                 /\ tasks[t].state \notin Driven),
             calls' = calls
      PROVE  (\A c \in calls' : Placed(c)') /\ OneDriver'
  <2>1. \A c \in calls : Drives(c) => tasks'[c.task] = tasks[c.task]
    BY <1>1, <1>4 DEF Placed, Typed, Call
  <2> PICK new : new = {}
    OBVIOUS
  <2>2. calls' = calls \cup new /\ calls \in SUBSET calls
    BY <1>4
  <2> QED BY <2>1, <2>2, Follow
<1>5. ASSUME calls' = {}
      PROVE  (\A c \in calls' : Placed(c)') /\ OneDriver'
  BY <1>5 DEF OneDriver
<1>6. CASE UNCHANGED vars
  BY <1>4, <1>6 DEF vars, DriverInv
<1>7. ASSUME NEW c \in calls, CallStep(c) \/ CommitOrPublishFails(c)
      PROVE  up' /\ (\A d \in calls' : Placed(d)') /\ OneDriver'
  <2>0. up /\ c \in Call /\ Shaped(c) /\ c.task \in Tasks
    BY <1>1, <1>7, CallTypes DEF DriverInv, Typed
  <2>1. CASE Commit(c)
    <3>1. /\ Writing(c) /\ Suspend(c, IF c.at = "persist" THEN "publish" ELSE "written")
          /\ UNCHANGED <<up, tasks>>
      BY <2>1 DEF Commit
    <3>2. Shaped([c EXCEPT !.at = IF c.at = "persist" THEN "publish" ELSE "written"])
      BY <2>0, <3>1 DEF Shaped, Writing, Call
    <3> QED BY <2>0, <3>1, <3>2, AwaitPlaced DEF Writing, Awaits
  <2>2. CASE CommitOrPublishFails(c)
    BY <2>0, <2>2, ReturnPlaced DEF CommitOrPublishFails
  <2>3. CASE Publish(c)
    <3>1. c.then \in {"enqueue", "execute", "plan", "steps", "audit", "end"} /\ c.at = "publish" /\ up' = up
      BY <2>0, <2>3 DEF Publish, Shaped, Call, Continuations
    <3>2. CASE c.then = "enqueue"
      <4>1. S!Submit(c.task, "interactive") /\ StartExecutions(running' \ running, calls \ {c})
        BY <2>3, <3>2 DEF Publish
      <4>2. running' \ running \in SUBSET Tasks /\ calls \ {c} \in SUBSET calls
        BY <1>2 DEF Typed
      <4> QED BY <2>0, <3>1, <4>1, <4>2, StartPlaced
    <3>3. CASE c.then = "execute"
      <4>1. Transition(c, "Planning", "plan")
        BY <2>3, <3>3 DEF Publish
      <4>2. CanMove(tasks[c.task], "Planning") => \A d \in calls \ {c} : Drives(d) => d.task # c.task
        BY DrivenStays
      <4> QED BY <2>0, <3>1, <4>1, <4>2, TransitionPlaced DEF Targets, Continuations, Driven
    <3>4. CASE c.then \in {"plan", "steps"}
      <4>1. Suspend(c, c.then) /\ tasks' = tasks
        BY <2>3, <3>4 DEF Publish
      <4>2. Shaped([c EXCEPT !.at = c.then])
        BY <2>0, <3>4 DEF Shaped, Call
      <4> QED BY <2>0, <3>1, <3>4, <4>1, <4>2, AwaitPlaced DEF Awaits
    <3>5. CASE c.then = "audit"
      <4>1. AppendHistory(c, "outcome") /\ Drives(c)
        BY <2>3, <3>1, <3>5 DEF Publish, Drives
      <4> QED BY <2>0, <3>1, <4>1, HistoryPlaced
    <3>6. CASE c.then = "end"
      BY <2>0, <2>3, <3>1, <3>6, ReturnPlaced DEF Publish
    <3> QED BY <3>1, <3>2, <3>3, <3>4, <3>5, <3>6
  <2>4. CASE Planned(c) \/ StepsRun(c) \/ Replanned(c)
    <3>1. up' = up /\ Drives(c) /\ Shaped(c)
      BY <2>0, <2>4 DEF Planned, StepsRun, Replanned, Shaped, Drives
    <3>2. CASE \E target \in {"Executing"} : Transition(c, target, "steps")
      BY <2>0, <3>1, <3>2, DriverTransition DEF Targets
    <3>3. CASE Transition(c, "Verifying", "audit")
      BY <2>0, <3>1, <3>3, DriverTransition DEF Targets
    <3>4. CASE AppendHistory(c, "fail")
      BY <2>0, <3>1, <3>4, HistoryPlaced
    <3>5. CASE /\ c.at \in {"steps", "replan"} /\ tasks' = tasks
               /\ \/ Suspend(c, "steps")
                  \/ Continue(c, {[c EXCEPT !.at = "replan", !.attempt = @ + 1]})
      <4>1. PICK d : Continue(c, {d}) /\ d \in {[c EXCEPT !.at = "steps"], [c EXCEPT !.at = "replan", !.attempt = @ + 1]}
        BY <3>5 DEF Suspend
      <4>2. d.task = c.task /\ d.then = c.then /\ d.at \in {"steps", "replan"} /\ c.then = "steps"
        BY <2>0, <3>5, <4>1 DEF Call, Shaped
      <4>3. Shaped(d) /\ Stepping(c)
        BY <3>5, <4>2 DEF Shaped, Stepping
      <4> QED BY <2>0, <3>1, <3>5, <4>1, <4>2, <4>3, SuspendPlaced
    <3> QED BY <2>4, <3>2, <3>3, <3>4, <3>5 DEF Planned, StepsRun, Replanned
  <2>5. CASE Conclude(c)
    <3>1. up' = up /\ Drives(c)
      BY <2>0, <2>5 DEF Conclude, Shaped, Drives
    <3>2. PICK target \in Targets : Transition(c, target, "end")
      BY <2>5 DEF Conclude, Targets
    <3> QED BY <2>0, <3>1, <3>2, DriverTransition
  <2>6. CASE SlotFreed(c)
    <3>1. StartExecutions(running' \ (running \ {c.task}), calls \ {c}) /\ up' = up
      BY <2>6 DEF SlotFreed
    <3>2. running' \ (running \ {c.task}) \in SUBSET Tasks /\ calls \ {c} \in SUBSET calls
      BY <1>2 DEF Typed
    <3> QED BY <2>0, <3>1, <3>2, StartPlaced
  <2> QED BY <1>7, <2>1, <2>2, <2>3, <2>4, <2>5, <2>6 DEF CallStep
<1>8. ASSUME NEW t \in Tasks, Submit(t)
      PROVE  up' /\ (\A d \in calls' : Placed(d)') /\ OneDriver'
  <2> DEFINE n == [NewCall(t, "submit") EXCEPT !.rec = Fresh, !.then = "enqueue"]
  <2>1. n.task = t /\ n.at = "persist" /\ n.then = "enqueue"
    BY DEF NewCall
  <2> PICK new : new = {n}
    OBVIOUS
  <2>2. calls' = calls \cup new /\ calls \in SUBSET calls /\ up' /\ \A u \in Tasks \ {t} : tasks'[u] = tasks[u]
    BY <1>1, <1>8 DEF Submit, Typed
  <2>3. \A d \in new : ~ Drives(d) /\ Placed(d)'
    BY <2>1 DEF Drives, Placed, Shaped, Stepping
  <2>4. tasks[t].state = "Absent"
    BY <1>8 DEF Submit, Absent
  <2>5. \A d \in calls : Drives(d) => tasks'[d.task] = tasks[d.task]
    BY <1>1, <2>2, <2>4 DEF Placed, Driven, Typed, Call
  <2> QED BY <2>2, <2>3, <2>5, Follow
<1>9. ASSUME NEW t \in Tasks, Pause(t) \/ Cancel(t) \/ BlockOnUser(t)
      PROVE  up' /\ (\A d \in calls' : Placed(d)') /\ OneDriver'
  <2>1. up' /\ calls' = calls
    BY <1>9 DEF Pause, Cancel, BlockOnUser
  <2>2. \/ tasks' = tasks
        \/ tasks[t].state \notin Driven /\ \A u \in Tasks \ {t} : tasks'[u] = tasks[u]
        \/ /\ tasks[t].state \in Cancellable /\ tasks'[t].state = "Cancelled"
           /\ \A u \in Tasks \ {t} : tasks'[u] = tasks[u]
    BY <1>1, <1>9 DEF Pause, Cancel, BlockOnUser, Driven, Moved, Typed
  <2>3. CASE /\ tasks[t].state \in Cancellable /\ tasks'[t].state = "Cancelled"
             /\ \A u \in Tasks \ {t} : tasks'[u] = tasks[u]
    <3>1. \A d \in calls : Placed(d)'
      BY <1>1, <2>3 DEF Placed, Driven, Cancellable, Typed, Call
    <3> QED BY <1>1, <2>1, <3>1 DEF OneDriver
  <2> QED BY <1>4, <2>1, <2>2, <2>3
<1>10. ASSUME NEW t \in Tasks, Retry(t) \/ ResumePaused(t) \/ ConfirmWaitingUser(t) \/ DenyWaitingUser(t)
      PROVE  up' /\ (\A d \in calls' : Placed(d)') /\ OneDriver'
  <2>1. PICK target \in {"Retrying", "Planning", "Executing", "Cancelled"}, then \in {"execute", "plan", "end"} :
           /\ UserCall(t, target, then)
           /\ then = "plan" => target = "Planning"
           /\ target \in {"Executing", "Cancelled"} => tasks[t].state = "WaitingUser"
    BY <1>10 DEF Retry, ResumePaused, ConfirmWaitingUser, DenyWaitingUser
  <2> DEFINE n == NewCall(t, "user")
  <2>2. n \in Call /\ n.task = t
    BY <1>1, LifecycleAssumption DEF NewCall, Call, Awaits, Continuations, Typed
  <2>3. Transition(n, target, then) /\ up' = up /\ CanMove(tasks[t], target) /\ up
    BY <1>10, <2>1 DEF UserCall, Retry, ResumePaused, ConfirmWaitingUser, DenyWaitingUser
  <2>4. \A d \in calls : Drives(d) => d.task # t
    BY <1>1, <2>1, <2>3, DrivenStays DEF Placed, Driven
  <2> HIDE DEF n
  <2> QED BY <2>1, <2>2, <2>3, <2>4, TransitionPlaced DEF Targets, Continuations, Driven
<1>11. CASE Crash
  BY <1>5, <1>11 DEF Crash
<1>12. CASE Recover \/ RecoverFails
  BY <1>5, <1>12 DEF Recover, RecoverFails, DriverInv
<1> QED BY <1>6, <1>7, <1>8, <1>9, <1>10, <1>11, <1>12 DEF Next

LEMMA DriverInit == Init => DriverInv
<1> SUFFICES ASSUME Init PROVE DriverInv
  OBVIOUS
<1>1. Absent \in Record
  BY RetriesAssumption DEF Absent, Record
<1> QED BY <1>1 DEF Init, S!Init, DriverInv, Typed, OneDriver

\* The inductive invariant of the coordinator.
THEOREM DriverInvariant == Spec => []DriverInv
<1>1. DriverInv /\ [Next]_vars => DriverInv'
  BY DriverStep
<1> QED BY <1>1, DriverInit, PTL DEF Spec

\* A dispatch, a retry and a resumption of one task never double its execution
\* (runtime-task-coordinator.ts, execute): at most one call drives it.
THEOREM OneDriverHolds == Spec => []OneDriver
<1>1. DriverInv => OneDriver
  BY DEF DriverInv
<1> QED BY <1>1, DriverInvariant, PTL

\* No interleaving of the calls takes a record back (task-manager.ts, transition).
THEOREM NeverSetBackHolds == Spec => NeverSetBack
<1>1. DriverInv /\ [Next]_vars => [\A t \in Tasks : up => Progress(tasks'[t]) >= Progress(tasks[t])]_vars
  <2> SUFFICES ASSUME DriverInv, [Next]_vars, up, NEW t \in Tasks
               PROVE  Progress(tasks'[t]) >= Progress(tasks[t])
    OBVIOUS
  <2>1. Typed /\ \A c \in calls : Shaped(c)
    BY DEF DriverInv, Placed
  <2>2. Typed' /\ Grown
    BY <2>1, TypedStep
  <2>3. Progress(tasks[t]) \in Nat /\ Progress(tasks'[t]) \in Nat
    BY <2>1, <2>2, ProgressType DEF Typed
  <2> QED BY <2>2, <2>3 DEF Grown
<1> QED BY <1>1, DriverInvariant, PTL DEF Spec, NeverSetBack

\* The step that starts the steps of a task finds it Executing.
LEMMA StartsWhileExecuting ==
    ASSUME DriverInv, [Next]_vars, NEW t \in Tasks, starts'[t] # starts[t]
    PROVE  tasks[t].state = "Executing"
<1>1. PICK c \in calls : c.then = "steps" /\ starts' = [starts EXCEPT ![c.task] = @ + 1] /\ c.at = "publish"
  BY DEF Next, CallStep, Commit, CommitOrPublishFails, Publish, Planned, StepsRun, Replanned, Conclude, SlotFreed,
     Submit, Pause, Cancel, BlockOnUser, Retry, ResumePaused, ConfirmWaitingUser, DenyWaitingUser, UserCall,
     Crash, Recover, RecoverFails, historyVars, vars
<1>2. c.task = t
  BY <1>1 DEF DriverInv, Typed
<1>3. Stepping(c)
  BY <1>1 DEF Stepping
<1> QED BY <1>2, <1>3 DEF DriverInv, Placed

\* A cancellation that came while an execution waited for its checkpoint, its
\* planner or a subscriber is not undone, and no step of the task is started.
THEOREM CancelledStaysStoppedHolds == Spec => CancelledStaysStopped
<1>1. ASSUME DriverInv, [Next]_vars, NEW t \in Tasks, tasks[t].state = "Cancelled", up, up'
      PROVE  tasks'[t].state = "Cancelled" /\ starts'[t] = starts[t]
  <2>1. Typed /\ \A c \in calls : Shaped(c)
    BY <1>1 DEF DriverInv, Placed
  <2>2. Typed' /\ Grown
    BY <1>1, <2>1, TypedStep
  <2>3. starts'[t] = starts[t]
    BY <1>1, StartsWhileExecuting
  <2> QED BY <1>1, <2>2, <2>3 DEF Grown
<1>2. DriverInv /\ [Next]_vars =>
         [\A t \in Tasks : (tasks[t].state = "Cancelled" /\ up /\ up')
              => tasks'[t].state = "Cancelled" /\ starts'[t] = starts[t]]_vars
  BY <1>1
<1> QED BY <1>2, DriverInvariant, PTL DEF Spec, CancelledStaysStopped
-----------------------------------------------------------------------------
(* What the database keeps.                                                 *)

\* The steps of a task are started by the publication of Executing alone.
LEMMA StartsStep ==
    ASSUME [Next]_vars, starts' # starts
    PROVE  \E c \in calls : Publish(c) /\ c.then = "steps"
BY DEF Next, CallStep, Commit, CommitOrPublishFails, Publish, Planned, StepsRun, Replanned, Conclude, SlotFreed,
     Submit, Pause, Cancel, BlockOnUser, Retry, ResumePaused, ConfirmWaitingUser, DenyWaitingUser, UserCall,
     Crash, Recover, RecoverFails, historyVars, vars

\* While the host runs, a checkpoint changes by a commit, and what was told of a
\* task by a publication.
LEMMA DiskStep ==
    ASSUME [Next]_vars, up
    PROVE  /\ disk' = disk \/ \E c \in calls : Commit(c)
           /\ told' = told \/ \E c \in calls : Publish(c)
BY DEF Next, CallStep, Commit, CommitOrPublishFails, Publish, Planned, StepsRun, Replanned, Conclude, SlotFreed,
     Submit, Pause, Cancel, BlockOnUser, Retry, ResumePaused, ConfirmWaitingUser, DenyWaitingUser, UserCall,
     Crash, Recover, RecoverFails, historyVars, vars

\* The checkpoints follow the writes, which follow the records.
LEMMA DiskGrows ==
    ASSUME OrderedCommits, DriverInv, DurableInv, [Next]_vars, up, up', Typed', Grown
    PROVE  /\ \A t \in Tasks : /\ Progress(disk[t]) <= Progress(disk'[t])
                               /\ Progress(disk'[t]) <= Progress(tasks'[t])
           /\ \A d \in calls \cap calls' :
                 Writing(d) => Progress(disk'[d.task]) <= Progress(d.rec)
<1>1. /\ \A t \in Tasks : /\ Progress(disk[t]) \in Nat /\ Progress(tasks[t]) \in Nat
                          /\ Progress(disk'[t]) \in Nat /\ Progress(tasks'[t]) \in Nat
      /\ \A c \in calls : c.task \in Tasks /\ c.rec \in Record /\ Progress(c.rec) \in Nat
  BY ProgressType DEF DriverInv, Typed, Call
<1>2. \A t \in Tasks : Progress(disk[t]) <= Progress(tasks[t]) /\ Progress(tasks[t]) <= Progress(tasks'[t])
  BY DEF DurableInv, Grown
<1>3. CASE disk' = disk
  BY <1>1, <1>2, <1>3 DEF DurableInv, Recorded
<1>4. CASE \E c \in calls : Commit(c)
  <2>1. PICK c \in calls : Commit(c)
    BY <1>4
  <2>2. /\ Writing(c) /\ disk' = [disk EXCEPT ![c.task] = c.rec] /\ tasks' = tasks
        /\ \A d \in calls : Writing(d) /\ d.task = c.task => Progress(c.rec) <= Progress(d.rec)
    BY <2>1 DEF Commit, InOrder
  <2>3. Progress(disk[c.task]) <= Progress(c.rec) /\ Progress(c.rec) <= Progress(tasks[c.task])
    BY <2>2 DEF DurableInv, Recorded
  <2>4. disk'[c.task] = c.rec /\ \A t \in Tasks \ {c.task} : disk'[t] = disk[t]
    BY <1>1, <2>2 DEF DriverInv, Typed
  <2>5. \A t \in Tasks : Progress(disk[t]) <= Progress(disk'[t]) /\ Progress(disk'[t]) <= Progress(tasks'[t])
    BY <1>1, <1>2, <2>2, <2>3, <2>4
  <2>6. \A d \in calls : Writing(d) => Progress(disk'[d.task]) <= Progress(d.rec)
    BY <1>1, <2>2, <2>4 DEF DurableInv, Recorded
  <2> QED BY <2>5, <2>6
<1> QED BY <1>3, <1>4, DiskStep

\* A call that goes on waiting stays recorded.
LEMMA OldRecorded ==
    ASSUME OrderedCommits, DriverInv, DriverInv', DurableInv, [Next]_vars, up, up', Grown,
           NEW d \in calls, d \in calls'
    PROVE  Recorded(d)'
<1> DEFINE t == d.task
<1>1. /\ t \in Tasks /\ d.rec \in Record
      /\ disk[t] \in Record /\ disk'[t] \in Record /\ tasks[t] \in Record /\ tasks'[t] \in Record
  BY DEF DriverInv, Typed, Call
<1>2. /\ Progress(disk[t]) \in Nat /\ Progress(tasks[t]) \in Nat /\ Progress(d.rec) \in Nat
      /\ Progress(disk'[t]) \in Nat /\ Progress(tasks'[t]) \in Nat
  BY <1>1, ProgressType
<1>3. /\ Progress(disk[t]) <= Progress(disk'[t]) /\ Progress(disk'[t]) <= Progress(tasks'[t])
      /\ Progress(tasks[t]) <= Progress(tasks'[t])
      /\ Writing(d) => Progress(disk'[t]) <= Progress(d.rec)
  BY <1>1, DiskGrows DEF DriverInv, Grown
<1>4. Recorded(d)
  BY DEF DurableInv
<1>5. Writing(d) => Progress(d.rec) <= Progress(tasks'[t])
  BY <1>2, <1>3, <1>4 DEF Recorded
<1>6. d.at = "publish" => Progress(d.rec) <= Progress(disk'[t])
  BY <1>2, <1>3, <1>4 DEF Recorded
<1>7. ASSUME Stepping(d)
      PROVE  /\ IF d.at = "persist" THEN d.rec = tasks'[t] ELSE disk'[t] = tasks'[t]
             /\ d.at \in {"persist", "publish"} => starts'[t] <= tasks'[t].retries
  <2>1. tasks[t].state = "Executing" /\ tasks'[t].state = "Executing"
    BY <1>7 DEF DriverInv, Placed
  <2>2. tasks'[t] = tasks[t]
    BY <1>1, <2>1 DEF Grown, Record
  <2>3. d.at # "persist" => disk'[t] = tasks'[t]
    BY <1>1, <1>2, <1>3, <1>4, <1>7, <2>1, <2>2, SameProgress DEF Recorded
  <2>4. starts'[t] = starts[t]
    <3>1. CASE starts' # starts
      <4>1. PICK c \in calls : Publish(c) /\ c.then = "steps"
        BY <3>1, StartsStep
      <4>2. c \notin calls'
        <5>1. calls' = (calls \ {c}) \cup {[c EXCEPT !.at = "steps"]} /\ c.at = "publish"
          BY <4>1 DEF Publish, Suspend, Continue
        <5>2. [c EXCEPT !.at = "steps"].at = "steps"
          BY DEF DriverInv, Typed, Call
        <5> QED BY <5>1, <5>2
      <4>3. c.task # t
        BY <1>7, <4>1, <4>2 DEF DriverInv, OneDriver, Publish, Drives, Stepping
      <4>4. starts' = [starts EXCEPT ![c.task] = @ + 1]
        BY <4>1 DEF Publish
      <4> QED BY <1>1, <4>3, <4>4 DEF DriverInv, Typed
    <3> QED BY <3>1
  <2> QED BY <1>4, <1>7, <2>2, <2>3, <2>4 DEF Recorded
<1> QED BY <1>3, <1>5, <1>6, <1>7 DEF Recorded

\* The record that a transition leaves is the one that is written.
LEMMA TransitionRecorded ==
    ASSUME DriverInv, DurableInv, NEW c \in Call, up,
           NEW target \in Targets, NEW then \in Continuations, Transition(c, target, then),
           UNCHANGED <<disk, starts>>, then = "steps" => target = "Executing"
    PROVE  \A d \in calls' \ calls : Recorded(d)'
<1> DEFINE r == Moved(tasks[c.task], target)
<1> SUFFICES ASSUME NEW d \in calls' \ calls PROVE Recorded(d)'
  OBVIOUS
<1>2. /\ c.task \in Tasks /\ tasks[c.task] \in Record /\ disk[c.task] \in Record
      /\ starts[c.task] \in Nat
  BY CallTypes DEF DriverInv, Typed
<1>3. \/ /\ CanMove(tasks[c.task], target) /\ tasks'[c.task] = r
         /\ d = [c EXCEPT !.at = "persist", !.rec = r, !.then = then]
      \/ d \in Returned(c)
  <2>1. \/ /\ CanMove(tasks[c.task], target)
           /\ tasks'[c.task] = r
           /\ calls' = (calls \ {c}) \cup {[c EXCEPT !.at = "persist", !.rec = r, !.then = then]}
        \/ tasks' = tasks /\ calls' = (calls \ {c}) \cup Returned(c)
    BY TransitionStep DEF DriverInv, Typed
  <2> QED BY <2>1
<1>4. CASE d \in Returned(c)
  <2>1. d.at = "return"
    BY <1>4 DEF Returned, Call
  <2> QED BY <2>1 DEF Recorded, Writing, Stepping
<1>5. CASE /\ CanMove(tasks[c.task], target) /\ tasks'[c.task] = r
           /\ d = [c EXCEPT !.at = "persist", !.rec = r, !.then = then]
  <2>1. d.at = "persist" /\ d.rec = tasks'[c.task] /\ d.then = then /\ d.task = c.task
    BY <1>5 DEF Call
  <2>2. r \in Record /\ Progress(tasks[c.task]) < Progress(r)
    BY <1>2, <1>5, MovedGrows
  <2>3. Progress(disk[c.task]) \in Nat /\ Progress(tasks[c.task]) \in Nat /\ Progress(r) \in Nat
    BY <1>2, <2>2, ProgressType
  <2>4. Progress(disk[c.task]) <= Progress(r)
    BY <1>2, <2>2, <2>3 DEF DurableInv
  <2>5. Progress(r) <= Progress(r)
    BY <2>3
  <2>6. then = "steps" => starts[c.task] <= tasks'[c.task].retries
    <3> SUFFICES ASSUME then = "steps" PROVE starts[c.task] <= tasks'[c.task].retries
      OBVIOUS
    <3>1. tasks[c.task].state \in {"Planning", "WaitingResources", "Paused", "WaitingUser"}
      BY <1>2, <1>5 DEF CanMove, Successors, Record, States
    <3>2. Stage[tasks[c.task].state] < 6
      BY <3>1 DEF Stage
    <3>3. Budget(tasks[c.task]) = tasks[c.task].retries
      BY <3>2 DEF Budget
    <3>4. starts[c.task] <= Budget(disk[c.task]) /\ Budget(disk[c.task]) <= Budget(tasks[c.task])
          /\ Budget(disk[c.task]) \in Nat /\ Budget(tasks[c.task]) \in Nat
      BY <1>2, BudgetGrows DEF DurableInv
    <3>5. tasks'[c.task].retries = tasks[c.task].retries
      BY <1>5 DEF Moved
    <3> QED BY <1>2, <3>3, <3>4, <3>5
  <2> HIDE DEF r
  <2> QED BY <1>5, <2>1, <2>4, <2>5, <2>6 DEF Recorded, Stepping
<1> QED BY <1>3, <1>4, <1>5

\* So it is where the scheduler starts executions.
LEMMA StartRecorded ==
    ASSUME DriverInv, DurableInv, up, NEW T \in SUBSET Tasks, NEW others \in SUBSET calls,
           StartExecutions(T, others), UNCHANGED disk
    PROVE  \A d \in calls' \ calls : Recorded(d)'
<1> SUFFICES ASSUME NEW d \in calls' \ calls PROVE Recorded(d)'
  OBVIOUS
<1>2. /\ d.task \in Tasks
      /\ \/ d.at = "return"
         \/ /\ CanMove(tasks[d.task], "Planning")
            /\ tasks'[d.task] = Moved(tasks[d.task], "Planning")
            /\ d = [NewCall(d.task, "scheduler") EXCEPT !.rec = Moved(tasks[d.task], "Planning")]
  BY StartStep DEF DriverInv, Typed
<1>3. CASE d.at = "return"
  BY <1>3 DEF Recorded, Writing, Stepping
<1>4. CASE /\ CanMove(tasks[d.task], "Planning")
           /\ tasks'[d.task] = Moved(tasks[d.task], "Planning")
           /\ d = [NewCall(d.task, "scheduler") EXCEPT !.rec = Moved(tasks[d.task], "Planning")]
  <2>1. d.at = "persist" /\ d.then = "plan" /\ d.rec = tasks'[d.task]
    BY <1>4 DEF NewCall
  <2>2. /\ tasks[d.task] \in Record /\ disk[d.task] \in Record /\ tasks'[d.task] \in Record
        /\ Progress(tasks[d.task]) < Progress(tasks'[d.task])
    BY <1>2, <1>4, MovedGrows DEF DriverInv, Typed, Targets
  <2>3. Progress(disk[d.task]) \in Nat /\ Progress(tasks[d.task]) \in Nat /\ Progress(tasks'[d.task]) \in Nat
    BY <2>2, ProgressType
  <2>4. Progress(disk[d.task]) <= Progress(tasks'[d.task]) /\ Progress(tasks'[d.task]) <= Progress(tasks'[d.task])
    BY <1>2, <2>2, <2>3 DEF DurableInv
  <2> QED BY <2>1, <2>4 DEF Recorded, Stepping
<1> QED BY <1>2, <1>3, <1>4

\* Every call that a step begins or leads on is recorded.
LEMMA NewRecorded ==
    ASSUME OrderedCommits, DriverInv, DriverInv', DurableInv, [Next]_vars, up, up', Grown
    PROVE  \A d \in calls' \ calls : Recorded(d)'
<1> SUFFICES ASSUME NEW d \in calls' \ calls PROVE Recorded(d)'
  OBVIOUS
<1>0. \A t \in Tasks : /\ tasks[t] \in Record /\ disk[t] \in Record
                       /\ Progress(tasks[t]) \in Nat /\ Progress(disk[t]) \in Nat
                       /\ Progress(disk[t]) <= Progress(tasks[t])
  BY ProgressType DEF DriverInv, Typed, DurableInv
<1>1. ASSUME NEW c \in calls, CallStep(c) \/ CommitOrPublishFails(c)
      PROVE  Recorded(d)'
  <2>0. c \in Call /\ c.task \in Tasks /\ Recorded(c) /\ Shaped(c) /\ starts[c.task] \in Nat
    BY CallTypes DEF DriverInv, Typed, DurableInv, Placed
  <2>a. \A e \in Returned(c) : e.at = "return"
    BY <2>0 DEF Returned, Call
  <2>b. d \in Returned(c) => Recorded(d)'
    BY <2>a DEF Recorded, Writing, Stepping
  <2>c. ASSUME NEW then \in {"fail", "outcome"}, AppendHistory(c, then), UNCHANGED disk
        PROVE  Recorded(d)'
    <3>1. d = [c EXCEPT !.at = "history", !.rec = tasks[c.task], !.then = then] /\ tasks' = tasks
      BY <2>c DEF AppendHistory, Continue
    <3>2. d.at = "history" /\ d.rec = tasks[c.task] /\ d.then = then /\ d.task = c.task
      BY <2>0, <3>1 DEF Call
    <3> QED BY <1>0, <2>0, <2>c, <3>1, <3>2 DEF Recorded, Stepping
  <2>d. ASSUME Stepping(c), c.at # "persist", d.task = c.task, d.then = c.then, d.at \in {"steps", "replan"},
               UNCHANGED <<disk, tasks>>
        PROVE  Recorded(d)'
    BY <2>0, <2>d DEF Recorded, Stepping, Writing
  <2>1. CASE Commit(c)
    <3>1. /\ Writing(c) /\ d = [c EXCEPT !.at = IF c.at = "persist" THEN "publish" ELSE "written"]
          /\ disk' = [disk EXCEPT ![c.task] = c.rec] /\ UNCHANGED <<tasks, starts>>
      BY <2>1 DEF Commit, Suspend, Continue, historyVars
    <3>2. /\ d.at = (IF c.at = "persist" THEN "publish" ELSE "written")
          /\ d.task = c.task /\ d.rec = c.rec /\ d.then = c.then
      BY <2>0, <3>1 DEF Call
    <3>3. disk'[c.task] = c.rec /\ Progress(c.rec) <= Progress(c.rec)
      <4>1. c.rec \in Record
        BY <2>0, CallTypes
      <4>2. Progress(c.rec) \in Nat
        BY <4>1, ProgressType
      <4>3. disk'[c.task] = c.rec
        BY <2>0, <3>1 DEF DriverInv, Typed
      <4> QED BY <4>2, <4>3
    <3>4. Stepping(d) => Stepping(c) /\ c.at = "persist"
      BY <2>0, <3>1, <3>2 DEF Stepping, Shaped, Writing
    <3>5. Stepping(d) => c.rec = tasks[c.task] /\ starts[c.task] <= tasks[c.task].retries
      BY <2>0, <3>4 DEF Recorded
    <3> QED BY <3>1, <3>2, <3>3, <3>4, <3>5 DEF Recorded, Writing
  <2>2. CASE CommitOrPublishFails(c)
    BY <2>2, <2>b DEF CommitOrPublishFails, Return, Continue
  <2>3. CASE Publish(c)
    <3>1. c.then \in {"enqueue", "execute", "plan", "steps", "audit", "end"} /\ c.at = "publish" /\ disk' = disk
      BY <2>0, <2>3 DEF Publish, Shaped, Call, Continuations
    <3>2. CASE c.then = "enqueue"
      <4>1. StartExecutions(running' \ running, calls \ {c})
        BY <2>3, <3>2 DEF Publish
      <4>2. running' \ running \in SUBSET Tasks /\ calls \ {c} \in SUBSET calls
        BY DEF DriverInv, Typed
      <4> QED BY <3>1, <4>1, <4>2, StartRecorded
    <3>3. CASE c.then = "execute"
      <4>1. Transition(c, "Planning", "plan") /\ starts' = starts
        BY <2>3, <3>3 DEF Publish
      <4> QED BY <2>0, <3>1, <4>1, TransitionRecorded DEF Targets, Continuations
    <3>4. CASE c.then = "plan"
      <4>1. d = [c EXCEPT !.at = "plan"]
        BY <2>3, <3>4 DEF Publish, Suspend, Continue
      <4>2. d.at = "plan" /\ d.then = "plan"
        BY <2>0, <3>4, <4>1 DEF Call
      <4> QED BY <4>2 DEF Recorded, Writing, Stepping
    <3>5. CASE c.then = "steps"
      <4>1. d = [c EXCEPT !.at = "steps"] /\ tasks' = tasks
        BY <2>3, <3>5 DEF Publish, Suspend, Continue
      <4>2. d.at = "steps" /\ d.then = c.then /\ d.task = c.task
        BY <2>0, <4>1 DEF Call
      <4> QED BY <2>d, <3>1, <3>5, <4>1, <4>2 DEF Stepping
    <3>6. CASE c.then = "audit"
      BY <2>3, <2>c, <3>1, <3>6 DEF Publish
    <3>7. CASE c.then = "end"
      BY <2>3, <2>b, <3>7 DEF Publish, Return, Continue
    <3> QED BY <3>1, <3>2, <3>3, <3>4, <3>5, <3>6, <3>7
  <2>4. CASE Planned(c) \/ StepsRun(c) \/ Replanned(c) \/ Conclude(c)
    <3>1. UNCHANGED <<disk, starts>>
      BY <2>4 DEF Planned, StepsRun, Replanned, Conclude, historyVars
    <3>2. CASE \E target \in Targets, then \in Continuations :
                  Transition(c, target, then) /\ (then = "steps" => target = "Executing")
      BY <2>0, <3>1, <3>2, TransitionRecorded
    <3>3. CASE AppendHistory(c, "fail")
      BY <2>c, <3>1, <3>3
    <3>4. CASE /\ c.at \in {"steps", "replan"} /\ tasks' = tasks
               /\ Suspend(c, "steps") \/ Continue(c, {[c EXCEPT !.at = "replan", !.attempt = @ + 1]})
      <4>1. d \in {[c EXCEPT !.at = "steps"], [c EXCEPT !.at = "replan", !.attempt = @ + 1]}
        BY <3>4 DEF Suspend, Continue
      <4>2. d.task = c.task /\ d.then = c.then /\ d.at \in {"steps", "replan"}
        BY <2>0, <4>1 DEF Call
      <4>3. Stepping(c) /\ c.at # "persist"
        BY <2>0, <3>4 DEF Stepping, Shaped
      <4> QED BY <2>d, <3>1, <3>4, <4>2, <4>3
    <3> QED
      BY <2>4, <3>2, <3>3, <3>4 DEF Planned, StepsRun, Replanned, Conclude, Targets, Continuations
  <2>5. CASE SlotFreed(c)
    <3>1. StartExecutions(running' \ (running \ {c.task}), calls \ {c}) /\ disk' = disk
      BY <2>5 DEF SlotFreed
    <3>2. running' \ (running \ {c.task}) \in SUBSET Tasks /\ calls \ {c} \in SUBSET calls
      BY DEF DriverInv, Typed
    <3> QED BY <3>1, <3>2, StartRecorded
  <2> QED BY <1>1, <2>1, <2>2, <2>3, <2>4, <2>5 DEF CallStep
<1>2. ASSUME NEW t \in Tasks, Submit(t)
      PROVE  Recorded(d)'
  <2>1. d = [NewCall(t, "submit") EXCEPT !.rec = Fresh, !.then = "enqueue"]
    BY <1>2 DEF Submit
  <2>2. d.task = t /\ d.at = "persist" /\ d.then = "enqueue" /\ d.rec = Fresh
    BY <2>1 DEF NewCall
  <2>3. tasks'[t] = Fresh /\ disk'[t] = Absent /\ Progress(Absent) = 0 /\ Progress(Fresh) = 1
    BY <1>2 DEF Submit, DriverInv, Typed, Progress, Absent, Fresh, Stage
  <2> QED BY <2>2, <2>3 DEF Recorded, Stepping
<1>3. ASSUME NEW t \in Tasks, Pause(t) \/ Cancel(t) \/ BlockOnUser(t)
      PROVE  FALSE
  BY <1>3 DEF Pause, Cancel, BlockOnUser
<1>4. ASSUME NEW t \in Tasks, Retry(t) \/ ResumePaused(t) \/ ConfirmWaitingUser(t) \/ DenyWaitingUser(t)
      PROVE  Recorded(d)'
  <2>1. PICK target \in Targets, then \in {"execute", "plan", "end"} : UserCall(t, target, then)
    BY <1>4 DEF Retry, ResumePaused, ConfirmWaitingUser, DenyWaitingUser, Targets
  <2>2. NewCall(t, "user") \in Call
    BY <1>0, LifecycleAssumption DEF NewCall, Call, Awaits, Continuations
  <2>3. Transition(NewCall(t, "user"), target, then) /\ UNCHANGED <<disk, starts>>
    BY <2>1 DEF UserCall, historyVars
  <2> QED BY <2>2, <2>3, TransitionRecorded DEF Continuations
<1>5. ~ UNCHANGED vars /\ ~ Crash /\ ~ Recover /\ ~ RecoverFails
  BY DEF vars, Crash, Recover, RecoverFails
<1> QED BY <1>1, <1>2, <1>3, <1>4, <1>5 DEF Next

LEMMA DurableStep ==
    ASSUME OrderedCommits, DriverInv, DriverInv', DurableInv, [Next]_vars
    PROVE  DurableInv'
<1>0. /\ \A t \in Tasks : /\ disk[t] \in Record /\ told[t] \in Record /\ tasks[t] \in Record
                          /\ disk'[t] \in Record /\ told'[t] \in Record /\ starts[t] \in Nat
                          /\ Progress(disk[t]) \in Nat /\ Progress(told[t]) \in Nat /\ Progress(disk'[t]) \in Nat
      /\ \A c \in calls : c.task \in Tasks /\ c.rec \in Record /\ Progress(c.rec) \in Nat
  BY ProgressType DEF DriverInv, Typed, Call
<1>1. ASSUME \A t \in Tasks : Progress(disk[t]) <= Progress(disk'[t]), starts' = starts
      PROVE  \A t \in Tasks : starts'[t] <= Budget(disk'[t])
  <2> TAKE t \in Tasks
  <2>1. Budget(disk[t]) \in Nat /\ Budget(disk'[t]) \in Nat /\ Budget(disk[t]) <= Budget(disk'[t])
    BY <1>0, <1>1, BudgetGrows
  <2> QED BY <1>0, <1>1, <2>1 DEF DurableInv
<1>2. ASSUME \A t \in Tasks : Progress(disk[t]) <= Progress(disk'[t]), told' = told
      PROVE  EventsAreDurable'
  BY <1>0, <1>2 DEF DurableInv, EventsAreDurable
<1>3. CASE up /\ up'
  <2>1. Typed' /\ Grown
    BY <1>3, TypedStep DEF DriverInv, Placed
  <2>2. \A t \in Tasks : Progress(disk[t]) <= Progress(disk'[t]) /\ Progress(disk'[t]) <= Progress(tasks'[t])
    BY <1>3, <2>1, DiskGrows
  <2>3. \A d \in calls' : Recorded(d)'
    BY <1>3, <2>1, OldRecorded, NewRecorded
  <2>4. \A t \in Tasks : starts'[t] <= Budget(disk'[t])
    <3>1. CASE starts' = starts
      BY <1>1, <2>2, <3>1
    <3>2. CASE starts' # starts
      <4>1. PICK c \in calls : Publish(c) /\ c.then = "steps"
        BY <3>2, StartsStep
      <4>2. /\ c.at = "publish" /\ disk' = disk
            /\ starts' = [starts EXCEPT ![c.task] = starts[c.task] + 1]
        BY <4>1 DEF Publish
      <4>3. Stepping(c) /\ tasks[c.task].state = "Executing"
        BY <4>1, <4>2 DEF Stepping, DriverInv, Placed
      <4>4. disk[c.task] = tasks[c.task] /\ starts[c.task] <= tasks[c.task].retries
        BY <4>2, <4>3 DEF DurableInv, Recorded
      <4>5. Budget(disk[c.task]) = disk[c.task].retries + 1
        BY <4>3, <4>4 DEF Budget, Stage
      <4>6. disk[c.task].retries \in Nat
        BY <1>0, RetriesAssumption DEF Record
      <4>7. starts'[c.task] <= Budget(disk[c.task])
        BY <1>0, <4>2, <4>4, <4>5, <4>6 DEF DriverInv, Typed
      <4>8. \A t \in Tasks \ {c.task} : starts'[t] = starts[t]
        BY <4>2 DEF DriverInv, Typed
      <4> QED BY <4>2, <4>7, <4>8 DEF DurableInv
    <3> QED BY <3>1, <3>2
  <2>5. EventsAreDurable'
    <3>1. CASE told' = told
      BY <1>2, <2>2, <3>1
    <3>2. CASE \E c \in calls : Publish(c)
      <4>1. PICK c \in calls : Publish(c)
        BY <3>2
      <4>2. told' = [told EXCEPT ![c.task] = c.rec] /\ disk' = disk /\ c.at = "publish"
        BY <4>1 DEF Publish
      <4>3. Progress(c.rec) <= Progress(disk[c.task])
        BY <4>2 DEF DurableInv, Recorded
      <4>4. told'[c.task] = c.rec /\ \A t \in Tasks \ {c.task} : told'[t] = told[t]
        BY <1>0, <4>2 DEF DriverInv, Typed
      <4> QED BY <4>2, <4>3, <4>4 DEF DurableInv, EventsAreDurable
    <3> QED BY <1>3, <3>1, <3>2, DiskStep
  <2> QED BY <2>2, <2>3, <2>4, <2>5 DEF DurableInv
<1>4. CASE ~ up \/ ~ up'
  <2>1. calls' = {} /\ starts' = starts /\ told' = told
    BY <1>4 DEF Next, CallStep, Commit, CommitOrPublishFails, Publish, Planned, StepsRun, Replanned, Conclude,
       SlotFreed, Submit, Pause, Cancel, BlockOnUser, Retry, ResumePaused, ConfirmWaitingUser, DenyWaitingUser,
       UserCall, Crash, Recover, RecoverFails, historyVars, vars, DriverInv
  <2>2. \A t \in Tasks : /\ Progress(disk[t]) <= Progress(disk'[t])
                         /\ up' => Progress(disk'[t]) <= Progress(tasks'[t])
    <3>1. CASE UNCHANGED vars \/ Crash
      BY <1>0, <1>4, <3>1 DEF vars, Crash, DurableInv
    <3>2. CASE Recover
      BY <1>0, <3>2, OtherMovesGrow DEF Recover
    <3>3. CASE RecoverFails
      BY <1>0, <3>3, OtherMovesGrow DEF RecoverFails
    <3>4. UNCHANGED vars \/ Crash \/ Recover \/ RecoverFails
      BY <1>4 DEF Next, CallStep, Commit, CommitOrPublishFails, Publish, Planned, StepsRun, Replanned, Conclude,
         SlotFreed, Submit, Pause, Cancel, BlockOnUser, Retry, ResumePaused, ConfirmWaitingUser, DenyWaitingUser,
         UserCall, Crash, Recover, RecoverFails, DriverInv
    <3> QED BY <3>1, <3>2, <3>3, <3>4
  <2> QED BY <1>1, <1>2, <2>1, <2>2 DEF DurableInv
<1> QED BY <1>3, <1>4

LEMMA DurableInit == Init => DurableInv
<1> SUFFICES ASSUME Init PROVE DurableInv
  OBVIOUS
<1>1. Progress(Absent) = 0 /\ Budget(Absent) = 0
  BY DEF Progress, Budget, Absent, Stage
<1> QED BY <1>1 DEF Init, DurableInv, EventsAreDurable

\* The inductive invariant of the checkpoints, where commits are ordered.
THEOREM DurableInvariant ==
    ASSUME OrderedCommits
    PROVE  Spec => []DurableInv
<1>1. DriverInv /\ DriverInv' /\ DurableInv /\ [Next]_vars => DurableInv'
  BY DurableStep
<1> QED BY <1>1, DurableInit, DriverInvariant, PTL DEF Spec

\* While the steps of a task run, its checkpoint says Executing, whatever call
\* is writing what else of the task (runtime-task-coordinator.ts, execute).
THEOREM StepsAreCheckpointedHolds ==
    ASSUME OrderedCommits
    PROVE  Spec => []StepsAreCheckpointed
<1>1. DriverInv /\ DurableInv => StepsAreCheckpointed
  <2> SUFFICES ASSUME DriverInv, DurableInv, NEW c \in calls, c.at \in {"steps", "replan"}
               PROVE  tasks[c.task].state = "Executing" /\ disk[c.task] = tasks[c.task]
    BY DEF StepsAreCheckpointed
  <2>1. Stepping(c)
    BY DEF DriverInv, Placed, Shaped, Stepping
  <2> QED BY <2>1 DEF DriverInv, Placed, DurableInv, Recorded
<1> QED BY <1>1, DriverInvariant, DurableInvariant, PTL

\* Over any crashes and restarts, the steps of a task are started at most once
\* for each retry of the user (task-manager.ts, retryCount).
THEOREM RetryBudgetHolds ==
    ASSUME OrderedCommits
    PROVE  Spec => []RetryBudget
<1>1. DriverInv /\ DurableInv => RetryBudget
  <2> SUFFICES ASSUME DriverInv, DurableInv, NEW t \in Tasks
               PROVE  starts[t] <= MaxRetries + 1 /\ (up => starts[t] <= tasks[t].retries + 1)
    BY DEF RetryBudget
  <2>1. disk[t] \in Record /\ tasks[t] \in Record /\ starts[t] \in Nat
    BY DEF DriverInv, Typed
  <2>2. starts[t] <= Budget(disk[t])
    BY DEF DurableInv
  <2>3. Progress(disk[t]) \in Nat /\ Progress(disk[t]) <= Progress(disk[t])
    BY <2>1, ProgressType
  <2>4. Budget(disk[t]) \in Nat /\ Budget(disk[t]) <= MaxRetries + 1
    BY <2>1, <2>3, BudgetGrows
  <2>5. ASSUME up PROVE starts[t] <= tasks[t].retries + 1
    <3>1. Progress(disk[t]) <= Progress(tasks[t])
      BY <2>5 DEF DurableInv
    <3>2. Progress(tasks[t]) \in Nat /\ Progress(tasks[t]) <= Progress(tasks[t])
      BY <2>1, ProgressType
    <3>3. Budget(disk[t]) <= Budget(tasks[t]) /\ Budget(tasks[t]) <= tasks[t].retries + 1
          /\ Budget(tasks[t]) \in Nat
      BY <2>1, <3>1, <3>2, BudgetGrows
    <3>4. tasks[t].retries \in Nat
      BY <2>1, RetriesAssumption DEF Record
    <3> QED BY <2>1, <2>2, <2>4, <3>3, <3>4
  <2> QED BY <2>1, <2>2, <2>4, <2>5, RetriesAssumption
<1> QED BY <1>1, DriverInvariant, DurableInvariant, PTL

\* A subscriber hears of nothing that a restart would take back
\* (runtime-task-coordinator.ts, persist before publish).
THEOREM EventsAreDurableHolds ==
    ASSUME OrderedCommits
    PROVE  Spec => []EventsAreDurable
<1>1. DurableInv => EventsAreDurable
  BY DEF DurableInv
<1> QED BY <1>1, DurableInvariant, PTL
=============================================================================
