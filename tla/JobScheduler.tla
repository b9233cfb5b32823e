---------------------------- MODULE JobScheduler ----------------------------
(***************************************************************************)
(* Background jobs on schedules of their own (job-scheduler.ts): a pass    *)
(* over the due jobs runs each after its due dependencies, one runner at a *)
(* time, while callers register and cancel jobs, time passes, a save of    *)
(* the JobStore may throw and the host may crash.                          *)
(*                                                                         *)
(* A pass is a chain of async calls of runJob: `pass.stack` holds the calls *)
(* that look through their dependencies, and only at an await can anything *)
(* else happen (LoopFree).                                                 *)
(***************************************************************************)
EXTENDS Integers, Sequences, SequencesExt, FiniteSets

CONSTANTS
    Jobs,        \* job identifiers
    Catalogs,    \* the choices of a definition for every job
    MaxTime,     \* bound of the model on the clock
    MaxFaults,   \* bound of the model on crashes and saves that throw
    MaxCancels   \* bound of the model: no more calls once a job was cancelled so often

VARIABLES
    now,       \* the clock
    def,       \* the definition of each job
    booted,    \* whether this process has called start()
    jobs,      \* the scheduler's jobs
    store,     \* what the JobStore holds
    running,   \* the keys of the scheduler's `running`
    groups,    \* the concurrency groups in use
    pass,      \* the pass in progress, runDuePromise
    starts,    \* history: runs of a job since its registration
    cancels,   \* history: the cancellations of a job
    faults     \* history: crashes and failed saves

jobsVars == <<now, def, booted, jobs, store, running, groups, pass, starts, cancels, faults>>

Types == {"recurring", "cron", "delayed"}

Definition == [type : Types, schedule : Nat, deps : Seq(Jobs), normal : BOOLEAN,
               group : {"g", "h"}, skipMissed : BOOLEAN]

\* The scheduler keeps its jobs in a map: there are finitely many.
ASSUME JobsAssumption == IsFiniteSet(Jobs) /\ Catalogs \subseteq [Jobs -> Definition]

Statuses == {"absent", "scheduled", "running", "completed", "failed", "cancelled"}

Absent == [status |-> "absent", next |-> 0]

Idle == [at |-> "idle", todo |-> <<>>, stack |-> <<>>, done |-> {}, ret |-> FALSE]

JobsTypeOK ==
    /\ now \in 0 .. MaxTime
    /\ def \in Catalogs
    /\ booted \in BOOLEAN
    /\ jobs \in [Jobs -> [status : Statuses, next : Nat]]
    /\ store \in [Jobs -> [status : Statuses, next : Nat]]
    /\ running \subseteq Jobs
    /\ groups \subseteq {"g", "h"}
    /\ pass \in [at : {"idle", "step", "runner", "returned"}, todo : Seq(Jobs),
                 stack : Seq([job : Jobs, left : Seq(Jobs)]), done : SUBSET Jobs, ret : BOOLEAN]
    /\ starts \in [Jobs -> Nat]
    /\ cancels \in [Jobs -> Nat]
    /\ faults \in 0 .. MaxFaults

JobsInit ==
    /\ def \in Catalogs
    /\ now = 0 /\ booted = FALSE /\ faults = 0
    /\ jobs = [j \in Jobs |-> Absent] /\ store = jobs
    /\ running = {} /\ groups = {} /\ pass = Idle
    /\ starts = [j \in Jobs |-> 0] /\ cancels = starts

LoopFree == pass.at # "step"

NextOccurrence(d) ==
    CASE d.type = "recurring" -> now + d.schedule
      [] d.type = "cron"      -> (now \div d.schedule + 1) * d.schedule
      [] d.type = "delayed"   -> d.schedule

InitialOccurrence(d) == IF d.type = "recurring" THEN now ELSE NextOccurrence(d)

DueIn(js, j) == js[j].status = "scheduled" /\ js[j].next <= now

Due(j) == DueIn(jobs, j)

\* The sort of the due jobs; jobs that compare equal may come in either order.
Comes(js, i, j) ==
    \/ def[i].normal /\ ~def[j].normal
    \/ def[i].normal = def[j].normal /\ js[i].next <= js[j].next

NewPasses(js) ==
    {[Idle EXCEPT !.at = "step", !.todo = order] :
        order \in {s \in SetToSeqs({j \in Jobs : DueIn(js, j)}) :
                     \A m, n \in DOMAIN s : m < n => Comes(js, s[m], s[n])}}

\* persist() writes all jobs; where it throws, nothing is stored and the async
\* calls up to runDue() reject.
Persist(js, p) ==
    /\ jobs' = js
    /\ \/ store' = js /\ pass' = p /\ UNCHANGED faults
       \/ faults < MaxFaults /\ faults' = faults + 1 /\ pass' = Idle /\ UNCHANGED store

Set(j, status) == [jobs EXCEPT ![j].status = status]

Top == Last(pass.stack)

\* The call of the top frame returns v to its caller.
Return(v) == [pass EXCEPT !.at = "returned", !.stack = Front(@), !.ret = v]

FailTop == Persist(Set(Top.job, "failed"), Return(FALSE))

\* The start of runJob(j), called with the pass p.
RunJob(j, p) ==
    IF j \in pass.done \/ jobs[j].status # "scheduled"
    THEN /\ pass' = [p EXCEPT !.at = "returned", !.ret = j \in pass.done]
         /\ UNCHANGED <<jobs, store, faults>>
    ELSE IF \E k \in DOMAIN p.stack : p.stack[k].job = j
    THEN Persist(Set(j, "failed"), [p EXCEPT !.at = "returned", !.ret = FALSE])
    ELSE /\ pass' = [p EXCEPT !.stack = Append(@, [job |-> j, left |-> def[j].deps])]
         /\ UNCHANGED <<jobs, store, faults>>

-----------------------------------------------------------------------------
(* The pass.                                                                *)

RunDue ==
    /\ pass = Idle
    /\ pass' \in NewPasses(jobs)
    /\ UNCHANGED <<now, def, booted, jobs, store, running, groups, starts, cancels, faults>>

\* Fault: the promise of a pass is not cleared at its end.
NextDueUncleared ==
    /\ pass.at = "step" /\ pass.stack = <<>> /\ pass.todo # <<>>
    /\ RunJob(Head(pass.todo), [pass EXCEPT !.todo = Tail(@)])
    /\ UNCHANGED <<now, def, booted, running, groups, starts, cancels>>

NextDue ==
    /\ pass.at = "step" /\ pass.stack = <<>>
    /\ IF pass.todo = <<>>
       THEN pass' = Idle /\ UNCHANGED <<jobs, store, faults>>
       ELSE RunJob(Head(pass.todo), [pass EXCEPT !.todo = Tail(@)])
    /\ UNCHANGED <<now, def, booted, running, groups, starts, cancels>>

Dependency ==
    /\ pass.at = "step" /\ pass.stack # <<>> /\ Top.left # <<>>
    /\ LET d    == Head(Top.left)
           rest == [pass EXCEPT !.stack[Len(pass.stack)].left = Tail(@)]
       IN  IF jobs[d].status \in {"absent", "failed", "cancelled"} THEN FailTop
           ELSE IF Due(d) THEN RunJob(d, rest)
           ELSE pass' = rest /\ UNCHANGED <<jobs, store, faults>>
    /\ UNCHANGED <<now, def, booted, running, groups, starts, cancels>>

\* Fault: what the call resolves to is not looked at.
ResumeUnchecked ==
    /\ pass.at = "returned"
    /\ pass' = [pass EXCEPT !.at = "step"]
    /\ UNCHANGED <<now, def, booted, jobs, store, running, groups, starts, cancels, faults>>

\* The await of a call of runJob resolves in its caller.
Resume ==
    /\ pass.at = "returned"
    /\ IF pass.stack = <<>> \/ pass.ret
       THEN pass' = [pass EXCEPT !.at = "step"] /\ UNCHANGED <<jobs, store, faults>>
       ELSE FailTop
    /\ UNCHANGED <<now, def, booted, running, groups, starts, cancels>>

MayStart == jobs[Top.job].status = "scheduled" /\ def[Top.job].group \notin groups

\* Fault: the run is not saved before it begins.
StartUnsaved ==
    /\ pass.at = "step" /\ pass.stack # <<>> /\ Top.left = <<>>
    /\ MayStart
    /\ running' = running \cup {Top.job}
    /\ groups' = groups \cup {def[Top.job].group}
    /\ jobs' = Set(Top.job, "running")
    /\ pass' = [pass EXCEPT !.at = "runner"]
    /\ starts' = [starts EXCEPT ![Top.job] = @ + 1]
    /\ UNCHANGED <<now, def, booted, store, cancels, faults>>

\* All dependencies are behind the top frame. Where persist() throws, the job
\* and its group stay taken: the try block has not been entered.
Start ==
    /\ pass.at = "step" /\ pass.stack # <<>> /\ Top.left = <<>>
    /\ MayStart
    /\ running' = running \cup {Top.job}
    /\ groups' = groups \cup {def[Top.job].group}
    /\ Persist(Set(Top.job, "running"), [pass EXCEPT !.at = "runner"])
    /\ starts' = [starts EXCEPT ![Top.job] = IF pass'.at = "runner" THEN @ + 1 ELSE @]
    /\ UNCHANGED <<now, def, booted, cancels>>

StartRefused ==
    /\ pass.at = "step" /\ pass.stack # <<>> /\ Top.left = <<>>
    /\ ~MayStart
    /\ pass' = Return(FALSE)
    /\ UNCHANGED <<now, def, booted, jobs, store, running, groups, starts, cancels, faults>>

AfterSuccess(j) ==
    IF def[j].type = "delayed" THEN [status |-> "completed", next |-> now]
    ELSE [status |-> "scheduled", next |-> NextOccurrence(def[j])]

\* The runner resolves: a cancelled job goes back to its schedule. A save that
\* throws here lands in the catch block, which saves once more.
RunnerResolves ==
    /\ pass.at = "runner"
    /\ LET j         == Top.job
           cancelled == jobs[j].status = "cancelled"
           settled   == [jobs EXCEPT ![j] =
                           IF cancelled THEN [status |-> "scheduled", next |-> NextOccurrence(def[j])]
                           ELSE AfterSuccess(j)]
           returned  == [Return(~cancelled) EXCEPT !.done = IF cancelled THEN @ ELSE @ \cup {j}]
           failed    == [settled EXCEPT ![j].status = "failed"]
       IN  \/ jobs' = settled /\ store' = settled /\ pass' = returned /\ UNCHANGED faults
           \/ /\ faults < MaxFaults /\ faults' = faults + 1
              /\ jobs' = failed /\ store' = failed /\ pass' = [returned EXCEPT !.ret = FALSE]
           \/ /\ faults + 1 < MaxFaults /\ faults' = faults + 2
              /\ jobs' = failed /\ pass' = Idle /\ UNCHANGED store
    /\ running' = running \ {Top.job}
    /\ groups' = groups \ {def[Top.job].group}
    /\ UNCHANGED <<now, def, booted, starts, cancels>>

\* Fault: the group of a failed job is not released.
RunnerRejectsHolding ==
    /\ pass.at = "runner"
    /\ FailTop
    /\ running' = running \ {Top.job}
    /\ UNCHANGED <<now, def, booted, groups, starts, cancels>>

RunnerRejects ==
    /\ pass.at = "runner"
    /\ FailTop
    /\ running' = running \ {Top.job}
    /\ groups' = groups \ {def[Top.job].group}
    /\ UNCHANGED <<now, def, booted, starts, cancels>>

-----------------------------------------------------------------------------
(* The calls of the host.                                                   *)

\* A save that throws does not disturb a pass in progress.
Save(js) ==
    /\ jobs' = js
    /\ \/ store' = js /\ UNCHANGED faults
       \/ faults < MaxFaults /\ faults' = faults + 1 /\ UNCHANGED store

Register(j) ==
    /\ LoopFree
    /\ jobs[j].status = "absent"
    /\ j \notin ToSet(def[j].deps)
    /\ Save([jobs EXCEPT ![j] = [status |-> "scheduled", next |-> InitialOccurrence(def[j])]])
    /\ starts' = [starts EXCEPT ![j] = 0]
    /\ cancels' = [cancels EXCEPT ![j] = 0]
    /\ UNCHANGED <<now, def, booted, running, groups, pass>>

Cancel(j) ==
    /\ LoopFree
    /\ \A i \in Jobs : cancels[i] < MaxCancels
    /\ j \in running \/ jobs[j].status = "scheduled"
    /\ Save(Set(j, "cancelled"))
    /\ cancels' = [cancels EXCEPT ![j] = @ + 1]
    /\ UNCHANGED <<now, def, booted, running, groups, pass, starts>>

\* start() of a new process: the jobs are those of the store, occurrences that
\* may be missed are skipped, and a first pass begins in the same turn.
Boot ==
    /\ ~booted /\ pass = Idle
    /\ booted' = TRUE
    /\ LET missed(j) == store[j].status = "scheduled" /\ store[j].next <= now
           loaded    == [j \in Jobs |-> IF def[j].skipMissed /\ missed(j)
                                        THEN [store[j] EXCEPT !.next = NextOccurrence(def[j])]
                                        ELSE store[j]]
       IN  \E p \in NewPasses(loaded) : Persist(loaded, p)
    /\ UNCHANGED <<now, def, running, groups, starts, cancels>>

Crash ==
    /\ faults < MaxFaults /\ faults' = faults + 1
    /\ jobs' = [j \in Jobs |-> Absent]
    /\ booted' = FALSE /\ running' = {} /\ groups' = {} /\ pass' = Idle
    /\ UNCHANGED <<now, def, store, starts, cancels>>

TimePasses ==
    /\ LoopFree
    /\ now < MaxTime
    /\ now' = now + 1
    /\ UNCHANGED <<def, booted, jobs, store, running, groups, pass, starts, cancels, faults>>

PassStep == NextDue \/ Dependency \/ Resume \/ Start \/ StartRefused

RunnerSettles == RunnerResolves \/ RunnerRejects

JobsNext ==
    \/ RunDue \/ PassStep \/ RunnerSettles \/ Boot \/ Crash \/ TimePasses
    \/ \E j \in Jobs : Register(j) \/ Cancel(j)

\* Promises are resolved in their turn, and a runner settles.
JobsFairness == WF_jobsVars(PassStep) /\ WF_jobsVars(RunnerSettles)

JobsSpec == JobsInit /\ [][JobsNext]_jobsVars /\ JobsFairness
-----------------------------------------------------------------------------
(* Properties.                                                              *)

\* A job is started only while it waits on its schedule, and never after a
\* dependency of it failed or was missing, whatever happens while the
\* dependencies run.
StartsInOrder ==
    [][\A j \in Jobs : starts'[j] > starts[j] =>
        /\ jobs[j].status = "scheduled"
        /\ \A d \in ToSet(def[j].deps) : jobs[d].status \notin {"absent", "failed"}]_jobsVars

\* A delayed job is run at most once, also when the host dies while it runs or
\* a save throws; only a cancellation of its run puts it back on its schedule.
OneShotOnce ==
    \A j \in Jobs : def[j].type = "delayed" => starts[j] <= 1 + cancels[j]

\* While the host lives and the store can be written, a job shows as running
\* exactly while its runner works, and only then is a group held.
StatusHonest ==
    faults = 0 /\ LoopFree =>
        LET executing == IF pass.at = "runner" THEN {Top.job} ELSE {}
        IN  /\ {j \in Jobs : jobs[j].status = "running"} = {j \in executing : jobs[j].status # "cancelled"}
            /\ running = executing
            /\ groups = {def[j].group : j \in executing}

\* No job waits for itself: dependency cycles end in a failure.
NoCyclicWait ==
    \A m, n \in DOMAIN pass.stack : m # n => pass.stack[m].job # pass.stack[n].job

\* A pass comes to its end, so that the next runDue() is not answered with it.
PassEnds == []<>(pass.at = "idle")

\* What the documentation says of a reboot: it "does not lose track of when a
\* recurring job last ran", and a job that missed its window is run. Violated: a
\* job that was running when the host died is loaded as running, and such a job
\* is never due again.
RebootReschedules ==
    [][~booted /\ booted' =>
        \A j \in Jobs : def[j].type = "recurring" /\ store[j].status \in {"scheduled", "running"} =>
            jobs'[j].status = "scheduled"]_jobsVars
=============================================================================
