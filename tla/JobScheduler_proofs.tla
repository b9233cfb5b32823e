------------------------ MODULE JobScheduler_proofs ------------------------
(***************************************************************************)
(* One-shot jobs, for any jobs, schedules, dependencies and any number of   *)
(* crashes and failed saves.                                                *)
(***************************************************************************)
EXTENDS JobScheduler, FiniteSetTheorems, SequenceTheorems, TLAPS

\* A table of jobs as the scheduler and the store keep it.
Table(js) == DOMAIN js = Jobs /\ \A j \in Jobs : "status" \in DOMAIN js[j]

\* The updates of a table.
Put(js, j, r) == [js EXCEPT ![j] = r]

Mark(js, j, status) == [js EXCEPT ![j].status = status]

\* The job j may be started from the record r, now or after its runner has
\* returned: then every earlier run of it was cancelled.
Unspent(r, j) == r.status \in {"scheduled", "cancelled"} => starts[j] <= cancels[j]

\* What memory and store hold of a delayed job allows at most one more run.
OneShotInv ==
    /\ Table(jobs) /\ Table(store)
    /\ starts \in [Jobs -> Nat] /\ cancels \in [Jobs -> Nat]
    /\ \A j \in Jobs :
          def[j].type = "delayed" =>
             starts[j] <= 1 + cancels[j] /\ Unspent(jobs[j], j) /\ Unspent(store[j], j)
-----------------------------------------------------------------------------
\* Both leave a table.
LEMMA PutTable ==
    ASSUME NEW js, Table(js), NEW j, NEW r, "status" \in DOMAIN r
    PROVE  Table(Put(js, j, r)) /\ \A i \in Jobs : Put(js, j, r)[i].status = IF i = j THEN r.status ELSE js[i].status
<1> PICK new : new = Put(js, j, r)
  OBVIOUS
<1>1. DOMAIN new = Jobs
  BY DEF Table, Put
<1>2. ASSUME NEW i \in Jobs
      PROVE  new[i] = IF i = j THEN r ELSE js[i]
  BY DEF Table, Put
<1>3. ASSUME NEW i \in Jobs
      PROVE  "status" \in DOMAIN new[i] /\ new[i].status = IF i = j THEN r.status ELSE js[i].status
  BY <1>2 DEF Table
<1> QED BY <1>1, <1>3 DEF Table

LEMMA MarkTable ==
    ASSUME NEW js, Table(js), NEW j, NEW status
    PROVE  Table(Mark(js, j, status)) /\ \A i \in Jobs : Mark(js, j, status)[i].status = IF i = j THEN status ELSE js[i].status
<1> PICK new : new = Mark(js, j, status)
  OBVIOUS
<1>1. DOMAIN new = Jobs
  BY DEF Table, Mark
<1>2. ASSUME NEW i \in Jobs
      PROVE  new[i] = IF i = j THEN [js[i] EXCEPT !.status = status] ELSE js[i]
  BY DEF Table, Mark
<1>3. ASSUME NEW i \in Jobs
      PROVE  "status" \in DOMAIN new[i] /\ new[i].status = IF i = j THEN status ELSE js[i].status
  BY <1>2 DEF Table
<1> QED BY <1>1, <1>3 DEF Table

\* Where no run begins, a step is safe that puts no job back on its schedule but
\* one that was cancelled, and stores what memory holds or nothing.
LEMMA QuietStep ==
    ASSUME OneShotInv, UNCHANGED <<def, starts, cancels>>, Table(jobs'), store' \in {store, jobs'},
           \A j \in Jobs : /\ def[j].type = "delayed"
                           /\ jobs'[j].status \in {"scheduled", "cancelled"}
                           => \/ jobs[j].status \in {"scheduled", "cancelled"}
                              \/ store[j].status \in {"scheduled", "cancelled"}
    PROVE  OneShotInv'
BY DEF OneShotInv, Unspent

LEMMA FailQuiet ==
    ASSUME OneShotInv, UNCHANGED <<def, starts, cancels>>, NEW j, NEW p, Persist(Set(j, "failed"), p)
    PROVE  OneShotInv'
<1>1. jobs' = Mark(jobs, j, "failed") /\ store' \in {store, jobs'}
  BY DEF Persist, Set, Mark
<1>2. Table(jobs') /\ \A i \in Jobs : jobs'[i].status = IF i = j THEN "failed" ELSE jobs[i].status
  BY <1>1, MarkTable DEF OneShotInv
<1> QED BY <1>1, <1>2, QuietStep

LEMMA RunJobQuiet ==
    ASSUME OneShotInv, UNCHANGED <<def, starts, cancels>>, NEW j, NEW p, RunJob(j, p)
    PROVE  OneShotInv'
<1>1. UNCHANGED <<jobs, store>> \/ \E q : Persist(Set(j, "failed"), q)
  BY DEF RunJob
<1>2. CASE UNCHANGED <<jobs, store>>
  BY <1>2, QuietStep DEF OneShotInv
<1> QED BY <1>1, <1>2, FailQuiet

\* The run of a job is saved before it begins.
LEMMA StartStep ==
    ASSUME OneShotInv, Start
    PROVE  OneShotInv'
<1> PICK t : t = Top.job
  OBVIOUS
<1>1. /\ jobs[t].status = "scheduled" /\ UNCHANGED <<def, cancels>>
      /\ jobs' = Mark(jobs, t, "running")
      /\ \/ store' = jobs'
         \/ store' = store /\ pass' = Idle
      /\ starts' = [starts EXCEPT ![t] = IF pass'.at = "runner" THEN @ + 1 ELSE @]
  BY DEF Start, MayStart, Persist, Set, Mark
<1>2. Table(jobs') /\ \A i \in Jobs : jobs'[i].status = IF i = t THEN "running" ELSE jobs[i].status
  BY <1>1, MarkTable DEF OneShotInv
<1>3. CASE store' = store /\ pass' = Idle
  <2>1. pass'.at # "runner"
    BY <1>3 DEF Idle
  <2>2. starts' = starts
    BY <1>1, <2>1 DEF OneShotInv
  <2> QED BY <1>1, <1>2, <1>3, <2>2, QuietStep
<1>4. CASE store' = jobs'
  <2>1. starts' \in [Jobs -> Nat] /\ \A i \in Jobs : starts'[i] = starts[i] \/ (i = t /\ starts'[i] = starts[i] + 1)
    <3>1. CASE pass'.at = "runner"
      <4>1. starts' = [starts EXCEPT ![t] = starts[t] + 1]
        BY <1>1, <3>1
      <4>2. CASE t \in Jobs
        <5>1. starts[t] \in Nat
          BY <4>2 DEF OneShotInv
        <5> QED BY <4>1, <4>2, <5>1 DEF OneShotInv
      <4>3. CASE t \notin Jobs
        BY <4>1, <4>3 DEF OneShotInv
      <4> QED BY <4>2, <4>3
    <3>2. CASE pass'.at # "runner"
      BY <1>1, <3>2 DEF OneShotInv
    <3> QED BY <3>1, <3>2
  <2>2. ASSUME NEW i \in Jobs, def'[i].type = "delayed"
        PROVE  starts'[i] <= 1 + cancels'[i] /\ Unspent(jobs[i], i)
    BY <1>1, <2>1, <2>2 DEF OneShotInv, Unspent
  <2>3. ASSUME NEW i \in Jobs, def'[i].type = "delayed", jobs'[i].status \in {"scheduled", "cancelled"}
        PROVE  starts'[i] <= cancels'[i]
    <3>1. i # t /\ jobs[i].status = jobs'[i].status
      BY <1>2, <2>3
    <3> QED BY <1>1, <2>1, <2>3, <3>1 DEF OneShotInv, Unspent
  <2> QED BY <1>1, <1>2, <1>4, <2>1, <2>2, <2>3 DEF OneShotInv, Unspent
<1> QED BY <1>1, <1>3, <1>4

\* A one-shot job that has run is completed, unless its run was cancelled.
LEMMA ResolveStep ==
    ASSUME OneShotInv, RunnerResolves
    PROVE  OneShotInv'
<1> PICK t : t = Top.job
  OBVIOUS
<1> PICK r : r = IF jobs[t].status = "cancelled" THEN [status |-> "scheduled", next |-> NextOccurrence(def[t])]
                 ELSE AfterSuccess(t)
  OBVIOUS
<1>1. /\ UNCHANGED <<def, starts, cancels>>
      /\ jobs' \in {Put(jobs, t, r), Mark(Put(jobs, t, r), t, "failed")}
      /\ store' \in {store, jobs'}
  BY DEF RunnerResolves, Put, Mark
<1>2. /\ "status" \in DOMAIN r
      /\ def[t].type = "delayed" /\ r.status \in {"scheduled", "cancelled"} => jobs[t].status = "cancelled"
  BY DEF AfterSuccess
<1> PICK settled : settled = Put(jobs, t, r)
  OBVIOUS
<1>3. Table(settled) /\ \A i \in Jobs : settled[i].status = IF i = t THEN r.status ELSE jobs[i].status
  BY <1>2, PutTable DEF OneShotInv
<1>4. CASE jobs' = settled
  BY <1>1, <1>2, <1>3, <1>4, QuietStep
<1>5. CASE jobs' = Mark(settled, t, "failed")
  <2>1. Table(jobs') /\ \A i \in Jobs : jobs'[i].status = IF i = t THEN "failed" ELSE settled[i].status
    BY <1>3, <1>5, MarkTable
  <2> QED BY <1>1, <1>3, <2>1, QuietStep
<1> QED BY <1>1, <1>4, <1>5

LEMMA RegisterStep ==
    ASSUME OneShotInv, NEW j \in Jobs, Register(j)
    PROVE  OneShotInv'
<1> PICK r : r = [status |-> "scheduled", next |-> InitialOccurrence(def[j])]
  OBVIOUS
<1>1. /\ jobs' = Put(jobs, j, r) /\ store' \in {store, jobs'}
      /\ starts' = [starts EXCEPT ![j] = 0] /\ cancels' = [cancels EXCEPT ![j] = 0] /\ def' = def
  BY DEF Register, Save, Put
<1>2. Table(jobs') /\ \A i \in Jobs \ {j} : jobs'[i].status = jobs[i].status
  BY <1>1, PutTable DEF OneShotInv
<1>3. /\ starts' \in [Jobs -> Nat] /\ cancels' \in [Jobs -> Nat] /\ starts'[j] = 0 /\ cancels'[j] = 0
      /\ \A i \in Jobs \ {j} : starts'[i] = starts[i] /\ cancels'[i] = cancels[i]
  BY <1>1 DEF OneShotInv
<1> QED BY <1>1, <1>2, <1>3 DEF OneShotInv, Unspent

\* A cancellation allows one more run.
LEMMA CancelStep ==
    ASSUME OneShotInv, NEW j \in Jobs, Cancel(j)
    PROVE  OneShotInv'
<1>1. /\ jobs' = Mark(jobs, j, "cancelled") /\ store' \in {store, jobs'}
      /\ cancels' = [cancels EXCEPT ![j] = @ + 1] /\ UNCHANGED <<def, starts>>
  BY DEF Cancel, Save, Set, Mark
<1>2. Table(jobs') /\ \A i \in Jobs \ {j} : jobs'[i].status = jobs[i].status
  BY <1>1, MarkTable DEF OneShotInv
<1>3. /\ cancels' \in [Jobs -> Nat] /\ cancels'[j] = cancels[j] + 1
      /\ \A i \in Jobs \ {j} : cancels'[i] = cancels[i]
  BY <1>1 DEF OneShotInv
<1> QED BY <1>1, <1>2, <1>3 DEF OneShotInv, Unspent

\* A new process has the jobs of the store.
LEMMA BootStep ==
    ASSUME OneShotInv, Boot
    PROVE  OneShotInv'
<1> PICK loaded :
      /\ jobs' = loaded /\ store' \in {store, jobs'} /\ UNCHANGED <<def, starts, cancels>>
      /\ DOMAIN loaded = Jobs
      /\ \A j \in Jobs : loaded[j] \in {[store[j] EXCEPT !.next = NextOccurrence(def[j])], store[j]}
  BY DEF Boot, Persist
<1>1. ASSUME NEW j \in Jobs
      PROVE  "status" \in DOMAIN loaded[j] /\ loaded[j].status = store[j].status
  <2>1. "status" \in DOMAIN store[j]
    BY DEF OneShotInv, Table
  <2> QED BY <2>1
<1>2. Table(loaded)
  BY <1>1 DEF Table
<1> QED BY <1>1, <1>2, QuietStep

LEMMA OneShotStep ==
    ASSUME OneShotInv, [JobsNext]_jobsVars
    PROVE  OneShotInv'
<1>1. CASE UNCHANGED <<def, jobs, store, starts, cancels>>
  BY <1>1, QuietStep DEF OneShotInv
<1>2. CASE UNCHANGED jobsVars \/ RunDue \/ StartRefused \/ TimePasses
  BY <1>1, <1>2 DEF jobsVars, RunDue, StartRefused, TimePasses
<1>3. CASE NextDue
  BY <1>1, <1>3, RunJobQuiet DEF NextDue
<1>4. CASE Dependency
  BY <1>1, <1>4, RunJobQuiet, FailQuiet DEF Dependency, FailTop
<1>5. CASE Resume
  BY <1>1, <1>5, FailQuiet DEF Resume, FailTop
<1>6. CASE RunnerRejects
  BY <1>6, FailQuiet DEF RunnerRejects, FailTop
<1>7. CASE Crash
  <2>1. jobs' = [j \in Jobs |-> Absent] /\ UNCHANGED <<def, store, starts, cancels>>
    BY <1>7 DEF Crash
  <2>2. Table(jobs') /\ \A j \in Jobs : jobs'[j].status = "absent"
    BY <2>1 DEF Table, Absent
  <2> QED BY <2>1, <2>2, QuietStep
<1> QED
  BY <1>2, <1>3, <1>4, <1>5, <1>6, <1>7, StartStep, ResolveStep, RegisterStep, CancelStep, BootStep
  DEF JobsNext, PassStep, RunnerSettles

\* A delayed job is run once, whatever crashes, failed saves and other jobs come
\* between its registration and its end (job-scheduler.ts, runJob).
THEOREM OneShotOnceHolds == JobsSpec => []OneShotOnce
<1>1. JobsInit => OneShotInv
  BY DEF JobsInit, OneShotInv, Table, Absent, Unspent
<1>2. OneShotInv /\ [JobsNext]_jobsVars => OneShotInv'
  BY OneShotStep
<1>3. OneShotInv => OneShotOnce
  BY DEF OneShotInv, OneShotOnce
<1> QED BY <1>1, <1>2, <1>3, PTL DEF JobsSpec
-----------------------------------------------------------------------------
(* What holds of a job while its pass is under way.                         *)

Frame == [job : Jobs, left : Seq(Jobs)]

Pass == [at : {"idle", "step", "runner", "returned"}, todo : Seq(Jobs), stack : Seq(Frame),
         done : SUBSET Jobs, ret : BOOLEAN]

\* The dependencies of a frame that are no longer before it neither failed nor
\* are they missing.
Behind(js, f) ==
    \A d \in ToSet(def[f.job].deps) : d \in ToSet(f.left) \/ js[d].status \notin {"absent", "failed"}

\* A call of runJob that returned FALSE brings down the calls it was made by, so
\* that none of them starts its job.
Doomed(p) == p.at = "returned" /\ ~p.ret

InOrder(js, p) == Doomed(p) \/ \A k \in DOMAIN p.stack : Behind(js, p.stack[k])

Executing == IF pass.at = "runner" THEN {Top.job} ELSE {}

Honest ==
    /\ store = jobs
    /\ \A j \in Jobs : jobs[j].status = "running" <=> j \in Executing /\ jobs[j].status # "cancelled"
    /\ running = Executing
    /\ groups = {def[j].group : j \in Executing}

PassInv ==
    /\ Table(jobs) /\ Table(store)
    /\ def \in Catalogs /\ pass \in Pass
    /\ pass.at = "runner" => pass.stack # << >>
    /\ faults \in Nat

\* The order of the starts is kept by what the stack of a pass remembers.
OrderInv == PassInv /\ InOrder(jobs, pass)

HonestInv == PassInv /\ (faults = 0 => Honest)

\* The two ends of a sequence.
LEMMA SeqEnds ==
    ASSUME NEW S, NEW s \in Seq(S), s # << >>
    PROVE  /\ Len(s) \in Nat /\ Len(s) > 0 /\ DOMAIN s = 1 .. Len(s)
           /\ Last(s) = s[Len(s)] /\ Last(s) \in S
           /\ Front(s) \in Seq(S) /\ Len(Front(s)) = Len(s) - 1 /\ DOMAIN Front(s) = 1 .. (Len(s) - 1)
           /\ \A i \in 1 .. (Len(s) - 1) : Front(s)[i] = s[i]
           /\ Head(s) \in S /\ Tail(s) \in Seq(S)
           /\ ToSet(s) \subseteq {Head(s)} \cup ToSet(Tail(s))
<1>1. Len(s) \in Nat /\ Len(s) > 0 /\ DOMAIN s = 1 .. Len(s) /\ Head(s) = s[1] /\ Head(s) \in S
  BY EmptySeq, LenProperties
<1>2. Last(s) = s[Len(s)] /\ Last(s) \in S
  BY <1>1, ElementOfSeq DEF Last
<1>3. /\ Front(s) \in Seq(S) /\ Len(Front(s)) = Len(s) - 1 /\ DOMAIN Front(s) = 1 .. (Len(s) - 1)
      /\ \A i \in 1 .. (Len(s) - 1) : Front(s)[i] = s[i]
  <2> DEFINE f == SubSeq(s, 1, Len(s) - 1)
  <2>1. f \in Seq(S) /\ Len(f) = Len(s) - 1 /\ \A i \in 1 .. (Len(s) - 1) : f[i] = s[i]
    BY <1>1
  <2>2. DOMAIN f = 1 .. Len(f)
    BY <2>1
  <2> QED BY <1>1, <2>1, <2>2 DEF Front
<1>4. /\ Tail(s) \in Seq(S) /\ DOMAIN Tail(s) = 1 .. (Len(s) - 1)
      /\ \A i \in 1 .. (Len(s) - 1) : Tail(s)[i] = s[i + 1]
  BY <1>1
<1>5. ASSUME NEW i \in 1 .. Len(s)
      PROVE  s[i] \in {Head(s)} \cup ToSet(Tail(s))
  <2>1. CASE i = 1
    BY <1>1, <2>1
  <2>2. CASE i # 1
    <3>1. i - 1 \in 1 .. (Len(s) - 1) /\ Tail(s)[i - 1] = s[i]
      BY <1>1, <1>4, <2>2
    <3> QED BY <1>4, <3>1 DEF ToSet
  <2> QED BY <2>1, <2>2
<1> QED BY <1>1, <1>2, <1>3, <1>4, <1>5 DEF ToSet

LEMMA SeqPush ==
    ASSUME NEW S, NEW s \in Seq(S), NEW e \in S
    PROVE  /\ Append(s, e) \in Seq(S) /\ Append(s, e) # << >>
           /\ DOMAIN s = 1 .. Len(s) /\ DOMAIN Append(s, e) = 1 .. (Len(s) + 1)
           /\ \A i \in 1 .. Len(s) : Append(s, e)[i] = s[i]
           /\ Append(s, e)[Len(s) + 1] = e
OBVIOUS

\* What a call returns to.
LEMMA Returned ==
    ASSUME PassInv, pass.stack # << >>, NEW v \in BOOLEAN
    PROVE  /\ Return(v) \in Pass /\ Return(v).at = "returned" /\ Return(v).ret = v
           /\ Return(v).stack = Front(pass.stack)
           /\ Top.job \in Jobs /\ Top.left \in Seq(Jobs)
           /\ Top = pass.stack[Len(pass.stack)] /\ Len(pass.stack) \in DOMAIN pass.stack
<1>1. Front(pass.stack) \in Seq(Frame) /\ Top \in Frame /\ Top = pass.stack[Len(pass.stack)]
      /\ Len(pass.stack) \in DOMAIN pass.stack
  BY SeqEnds DEF PassInv, Pass, Top
<1> QED BY <1>1 DEF PassInv, Pass, Return, Frame

LEMMA IdlePass == Idle \in Pass /\ Idle.at = "idle" /\ Idle.stack = << >>
BY DEF Idle, Pass

\* A new pass has the due jobs before it and no calls.
LEMMA NewPass ==
    ASSUME NEW js, NEW p \in NewPasses(js)
    PROVE  p \in Pass /\ p.at = "step" /\ p.stack = << >>
<1>1. PICK s \in SetToSeqs({j \in Jobs : DueIn(js, j)}) : p = [Idle EXCEPT !.at = "step", !.todo = s]
  BY DEF NewPasses
<1> DEFINE S == {j \in Jobs : DueIn(js, j)}
<1>2. IsFiniteSet(S)
  <2> S \in SUBSET Jobs
    OBVIOUS
  <2> HIDE DEF S
  <2> QED BY JobsAssumption, FS_Subset
<1>3. Cardinality(S) \in Nat
  BY <1>2, FS_CardinalityType
<1>4. s \in [1 .. Cardinality(S) -> S]
  BY <1>1 DEF SetToSeqs
<1>5. s \in Seq(Jobs)
  <2> \A i \in 1 .. Cardinality(S) : s[i] \in Jobs
    BY <1>4
  <2> s \in [1 .. Cardinality(S) -> Jobs]
    BY <1>4
  <2> QED BY <1>3, IsASeq
<1> HIDE DEF S
<1>6. p = [at |-> "step", todo |-> s, stack |-> << >>, done |-> {}, ret |-> FALSE]
  BY <1>1 DEF Idle
<1>7. p \in Pass
  BY <1>5, <1>6 DEF Pass
<1> QED BY <1>6, <1>7

\* A pass with fewer calls, or none, is in order if no job fails and none is
\* forgotten meanwhile.
LEMMA OrderKept ==
    ASSUME PassInv, InOrder(jobs, pass), ~ Doomed(pass), NEW js, NEW q,
           q.stack \in {<< >>, pass.stack} \/ (pass.stack # << >> /\ q.stack = Front(pass.stack)),
           \A j \in Jobs : js[j].status \in {"absent", "failed"} => jobs[j].status \in {"absent", "failed"}
    PROVE  InOrder(js, q)
<1>1. ASSUME NEW k \in DOMAIN q.stack PROVE k \in DOMAIN pass.stack /\ q.stack[k] = pass.stack[k]
  <2>1. pass.stack \in Seq(Frame)
    BY DEF PassInv, Pass
  <2>2. CASE q.stack = << >>
    BY <1>1, <2>2
  <2>3. CASE pass.stack # << >> /\ q.stack = Front(pass.stack)
    <3>1. /\ Len(pass.stack) \in Nat /\ DOMAIN pass.stack = 1 .. Len(pass.stack)
          /\ DOMAIN q.stack = 1 .. (Len(pass.stack) - 1)
          /\ \A i \in 1 .. (Len(pass.stack) - 1) : q.stack[i] = pass.stack[i]
      BY <2>1, <2>3, SeqEnds
    <3> QED BY <1>1, <3>1
  <2> QED BY <1>1, <2>2, <2>3
<1>2. ASSUME NEW k \in DOMAIN pass.stack PROVE Behind(js, pass.stack[k])
  <2>1. Behind(jobs, pass.stack[k])
    BY DEF InOrder
  <2>2. pass.stack[k] \in Frame
    BY DEF PassInv, Pass
  <2>3. \A d \in ToSet(def[pass.stack[k].job].deps) : d \in Jobs
    <3>1. def[pass.stack[k].job].deps \in Seq(Jobs)
      BY <2>2, JobsAssumption DEF PassInv, Frame, Definition
    <3> QED BY <3>1 DEF ToSet
  <2> QED BY <2>1, <2>3 DEF Behind
<1> QED BY <1>1, <1>2 DEF InOrder

\* The call at the top goes on to its next dependency.
Rest == [pass EXCEPT !.stack[Len(pass.stack)].left = Tail(@)]

LEMMA RestPass ==
    ASSUME PassInv, pass.stack # << >>, Top.left # << >>
    PROVE  /\ Rest \in Pass /\ Rest.at = pass.at /\ Rest.ret = pass.ret
           /\ DOMAIN Rest.stack = DOMAIN pass.stack
           /\ \A k \in DOMAIN pass.stack :
                 Rest.stack[k] = IF k = Len(pass.stack) THEN [job |-> Top.job, left |-> Tail(Top.left)]
                                 ELSE pass.stack[k]
<1> DEFINE n == Len(pass.stack)
           f == [job |-> Top.job, left |-> Tail(Top.left)]
           s == [pass.stack EXCEPT ![n] = f]
<1>1. /\ pass.stack \in Seq(Frame) /\ Top = pass.stack[n] /\ n \in DOMAIN pass.stack
      /\ Top \in Frame /\ DOMAIN pass.stack = 1 .. n
  BY SeqEnds DEF PassInv, Pass, Top
<1>2. f \in Frame /\ f = [pass.stack[n] EXCEPT !.left = Tail(@)]
  <2>1. PICK l : l = Tail(Top.left)
    OBVIOUS
  <2>2. Top.left \in Seq(Jobs) /\ Top.job \in Jobs /\ Top = [job |-> Top.job, left |-> Top.left]
    BY <1>1 DEF Frame
  <2>3. l \in Seq(Jobs)
    BY <2>1, <2>2
  <2>4. [Top EXCEPT !.left = l] = [job |-> Top.job, left |-> l]
    BY <2>2
  <2> QED BY <1>1, <2>1, <2>2, <2>3, <2>4 DEF Frame
<1>3. s \in Seq(Frame) /\ DOMAIN s = DOMAIN pass.stack
      /\ \A k \in DOMAIN pass.stack : s[k] = IF k = n THEN f ELSE pass.stack[k]
  <2> HIDE DEF f, n
  <2> QED BY <1>1, <1>2, ExceptSeq
<1>4. Rest = [pass EXCEPT !.stack = s]
  BY <1>2 DEF Rest
<1> HIDE DEF s
<1> QED BY <1>3, <1>4 DEF PassInv, Pass

\* What memory and store hold after a step: the same, or nothing stored of what
\* changed because a save threw.
Saved ==
    \/ store' = jobs' /\ faults' = faults
    \/ UNCHANGED <<jobs, store, faults>>
    \/ store' = store /\ faults' \in Nat /\ faults' # 0

SchedulerInv == OrderInv /\ HonestInv

\* A step with no runner before or after it.
LEMMA NoRunner ==
    ASSUME SchedulerInv, UNCHANGED <<def, running, groups>>, Saved, Table(jobs'), pass' \in Pass,
           pass.at # "runner", pass'.at # "runner", InOrder(jobs, pass)' ,
           faults' = 0 => \A j \in Jobs : jobs'[j].status = "running" => jobs[j].status = "running"
    PROVE  SchedulerInv'
<1>1. PassInv'
  BY DEF SchedulerInv, OrderInv, PassInv, Saved
<1>2. faults' = 0 => Honest'
  BY DEF SchedulerInv, HonestInv, Honest, Saved, Executing, OrderInv, PassInv
<1> QED BY <1>1, <1>2 DEF SchedulerInv, OrderInv, HonestInv

\* Where a job fails, the calls before it are doomed.
LEMMA FailDooms ==
    ASSUME SchedulerInv, UNCHANGED <<def, running, groups>>, pass.at # "runner",
           NEW j, NEW p \in Pass, p.at = "returned", ~ p.ret, Persist(Set(j, "failed"), p)
    PROVE  SchedulerInv'
<1>1. jobs' = Mark(jobs, j, "failed") /\ Saved /\ pass' \in {p, Idle}
  <2>1. faults \in Nat
    BY DEF SchedulerInv, OrderInv, PassInv
  <2> QED BY <2>1 DEF Persist, Set, Mark, Saved
<1>2. Table(jobs') /\ \A i \in Jobs : jobs'[i].status = IF i = j THEN "failed" ELSE jobs[i].status
  BY <1>1, MarkTable DEF SchedulerInv, OrderInv, PassInv
<1>3. InOrder(jobs, pass)' /\ pass' \in Pass /\ pass'.at # "runner"
  BY <1>1, IdlePass DEF InOrder, Doomed
<1> QED BY <1>1, <1>2, <1>3, NoRunner

LEMMA FailTopDooms ==
    ASSUME SchedulerInv, UNCHANGED <<def, running, groups>>, pass.at # "runner", pass.stack # << >>, FailTop
    PROVE  SchedulerInv'
<1>1. Return(FALSE) \in Pass /\ Return(FALSE).at = "returned" /\ ~ Return(FALSE).ret
  BY Returned DEF SchedulerInv, OrderInv
<1> QED BY <1>1, FailDooms DEF FailTop

\* A call of runJob() returns at once, fails or goes before its dependencies.
LEMMA RunJobOrder ==
    ASSUME SchedulerInv, UNCHANGED <<def, running, groups>>, pass.at = "step",
           NEW j \in Jobs, NEW p \in Pass, p.at = "step", InOrder(jobs, p), RunJob(j, p)
    PROVE  SchedulerInv'
<1>1. CASE UNCHANGED <<jobs, store, faults>> /\ pass' = [p EXCEPT !.at = "returned", !.ret = j \in pass.done]
  <2>1. pass' \in Pass /\ pass'.at = "returned" /\ pass'.stack = p.stack
    <3>1. CASE j \in pass.done
      <4> pass' = [p EXCEPT !.at = "returned", !.ret = TRUE]
        BY <1>1, <3>1
      <4> QED BY DEF Pass
    <3>2. CASE j \notin pass.done
      <4> pass' = [p EXCEPT !.at = "returned", !.ret = FALSE]
        <5>1. (j \in pass.done) = FALSE
          BY <3>2
        <5> QED BY <1>1, <5>1, Zenon
      <4> QED BY DEF Pass
    <3> QED BY <3>1, <3>2
  <2>2. InOrder(jobs, pass)'
    BY <1>1, <2>1 DEF InOrder, Behind, Doomed
  <2> QED BY <1>1, <2>1, <2>2, NoRunner DEF Saved, SchedulerInv, OrderInv, PassInv
<1>2. CASE Persist(Set(j, "failed"), [p EXCEPT !.at = "returned", !.ret = FALSE])
  <2>1. PICK q : q = [p EXCEPT !.at = "returned", !.ret = FALSE]
    OBVIOUS
  <2>2. q \in Pass /\ q.at = "returned" /\ ~ q.ret
    BY <2>1 DEF Pass
  <2> QED BY <1>2, <2>1, <2>2, FailDooms
<1>3. CASE /\ UNCHANGED <<jobs, store, faults>>
           /\ pass' = [p EXCEPT !.stack = Append(@, [job |-> j, left |-> def[j].deps])]
  <2> DEFINE f == [job |-> j, left |-> def[j].deps]
  <2>1. f \in Frame
    BY JobsAssumption DEF Frame, SchedulerInv, OrderInv, PassInv, Definition
  <2>2. p.stack \in Seq(Frame)
    BY DEF Pass
  <2>3. pass' \in Pass /\ pass'.at = "step" /\ pass'.stack = Append(p.stack, f)
    <3>1. PICK s \in Seq(Frame) : s = Append(p.stack, f)
      BY <2>1, <2>2, SeqPush
    <3>2. pass' = [p EXCEPT !.stack = s]
      BY <1>3, <3>1
    <3> HIDE DEF f
    <3> QED BY <3>1, <3>2 DEF Pass
  <2>4. Behind(jobs, f)
    BY DEF Behind
  <2>5. \A k \in DOMAIN p.stack : Behind(jobs, p.stack[k])
    BY DEF InOrder, Doomed
  <2> HIDE DEF f
  <2>6. \A k \in DOMAIN pass'.stack : Behind(jobs, pass'.stack[k])
    BY <2>1, <2>2, <2>3, <2>4, <2>5, SeqPush
  <2>7. InOrder(jobs, pass)'
    BY <1>3, <2>6 DEF InOrder, Behind
  <2> QED BY <1>3, <2>3, <2>7, NoRunner DEF Saved, SchedulerInv, OrderInv, PassInv
<1> QED BY <1>1, <1>2, <1>3 DEF RunJob

\* The job of a call starts or is refused.
LEMMA StartOrder ==
    ASSUME SchedulerInv, Start
    PROVE  SchedulerInv'
<1> PICK t : t = Top.job
  OBVIOUS
<1>1. /\ pass.at = "step" /\ pass.stack # << >> /\ jobs[t].status = "scheduled" /\ def' = def
      /\ running' = running \cup {t} /\ groups' = groups \cup {def[t].group}
      /\ jobs' = Mark(jobs, t, "running")
      /\ Persist(Set(t, "running"), [pass EXCEPT !.at = "runner"])
  BY DEF Start, MayStart, Persist, Set, Mark
<1>2. PassInv /\ faults \in Nat /\ pass \in Pass /\ t \in Jobs /\ InOrder(jobs, pass)
  BY <1>1, Returned DEF SchedulerInv, OrderInv, PassInv
<1>3. Table(jobs') /\ \A i \in Jobs : jobs'[i].status = IF i = t THEN "running" ELSE jobs[i].status
  BY <1>1, <1>2, MarkTable DEF PassInv
<1>4. CASE store' = store /\ pass' = Idle /\ faults' = faults + 1
  <2>1. PassInv' /\ faults' # 0
    BY <1>1, <1>2, <1>3, <1>4, IdlePass DEF PassInv
  <2>2. InOrder(jobs, pass)'
    BY <1>4, IdlePass DEF InOrder
  <2> QED BY <2>1, <2>2 DEF SchedulerInv, OrderInv, HonestInv
<1>5. CASE store' = jobs' /\ faults' = faults /\ pass' = [pass EXCEPT !.at = "runner"]
  <2>1. pass' \in Pass /\ pass'.at = "runner" /\ pass'.stack = pass.stack
    BY <1>2, <1>5 DEF Pass
  <2>2. PassInv' /\ Top'.job = t
    BY <1>1, <1>2, <1>3, <1>5, <2>1 DEF PassInv, Top
  <2>3. InOrder(jobs, pass)'
    <3>1. InOrder(jobs', pass')
      <4> ~ Doomed(pass)
        BY <1>1 DEF Doomed
      <4> QED BY <1>2, <1>3, <2>1, OrderKept
    <3> QED BY <1>1, <3>1 DEF InOrder, Behind
  <2>4. ASSUME faults = 0 PROVE Honest'
    <3>1. /\ Executing = {} /\ Executing' = {t} /\ running = {} /\ groups = {}
          /\ \A i \in Jobs : jobs[i].status # "running"
      BY <1>1, <2>1, <2>2, <2>4 DEF Executing, SchedulerInv, HonestInv, Honest
    <3> QED BY <1>1, <1>2, <1>3, <1>5, <3>1 DEF Honest
  <2> QED BY <1>5, <2>2, <2>3, <2>4 DEF SchedulerInv, OrderInv, HonestInv
<1> QED BY <1>1, <1>4, <1>5 DEF Persist

\* Only an end of its runner releases a job and its group.
LEMMA RunnerEnds ==
    ASSUME SchedulerInv, pass.at = "runner", UNCHANGED def, Saved, Table(jobs'), pass' \in Pass, pass'.at # "runner",
           InOrder(jobs, pass)',
           running' = running \ {Top.job}, groups' = groups \ {def[Top.job].group},
           \A j \in Jobs : jobs'[j].status = "running" => j # Top.job /\ jobs[j].status = "running"
    PROVE  SchedulerInv'
<1>1. PassInv'
  BY DEF SchedulerInv, OrderInv, PassInv, Saved
<1>2. ASSUME faults' = 0 PROVE Honest'
  <2>1. faults = 0 /\ Honest /\ store' = jobs'
    BY <1>2 DEF SchedulerInv, HonestInv, Saved, Honest
  <2>2. Executing = {Top.job} /\ Executing' = {}
    BY DEF Executing
  <2>3. running' = {} /\ groups' = {}
    BY <2>1, <2>2 DEF Honest
  <2>4. \A j \in Jobs : jobs'[j].status # "running"
    BY <2>1, <2>2 DEF Honest
  <2> QED BY <2>1, <2>2, <2>3, <2>4 DEF Honest
<1> QED BY <1>1, <1>2 DEF SchedulerInv, OrderInv, HonestInv

LEMMA RejectsOrder ==
    ASSUME SchedulerInv, RunnerRejects
    PROVE  SchedulerInv'
<1> PICK q : q = Return(FALSE)
  OBVIOUS
<1>1. /\ pass.at = "runner" /\ Persist(Set(Top.job, "failed"), q) /\ def' = def
      /\ running' = running \ {Top.job} /\ groups' = groups \ {def[Top.job].group}
  BY DEF RunnerRejects, FailTop
<1>2. PassInv /\ pass.stack # << >> /\ faults \in Nat
  BY <1>1 DEF SchedulerInv, OrderInv, PassInv
<1>3. jobs' = Mark(jobs, Top.job, "failed") /\ Saved /\ pass' \in {q, Idle}
  <2>1. jobs' = Mark(jobs, Top.job, "failed")
    BY <1>1 DEF Persist, Set, Mark
  <2>2. /\ pass' \in {q, Idle}
        /\ \/ store' = jobs' /\ faults' = faults
           \/ store' = store /\ faults' = faults + 1
    BY <1>1 DEF Persist
  <2>3. Saved
    BY <1>2, <2>2 DEF Saved
  <2> QED BY <2>1, <2>2, <2>3
<1>4. Table(jobs') /\ \A i \in Jobs : jobs'[i].status = IF i = Top.job THEN "failed" ELSE jobs[i].status
  BY <1>2, <1>3, MarkTable DEF PassInv
<1>5. pass' \in Pass /\ pass'.at # "runner" /\ InOrder(jobs, pass)'
  <2>1. q \in Pass /\ q.at = "returned" /\ ~ q.ret
    BY <1>2, Returned
  <2>2. CASE pass' = q
    BY <2>1, <2>2 DEF InOrder, Doomed
  <2>3. CASE pass' = Idle
    BY <2>3, IdlePass DEF InOrder
  <2> QED BY <1>3, <2>2, <2>3
<1> QED BY <1>1, <1>3, <1>4, <1>5, RunnerEnds

LEMMA ResolvesOrder ==
    ASSUME SchedulerInv, RunnerResolves
    PROVE  SchedulerInv'
<1> PICK t : t = Top.job
  OBVIOUS
<1> PICK r : r = IF jobs[t].status = "cancelled" THEN [status |-> "scheduled", next |-> NextOccurrence(def[t])]
                 ELSE AfterSuccess(t)
  OBVIOUS
<1> DEFINE ended == [Return(jobs[t].status # "cancelled") EXCEPT !.done = IF jobs[t].status = "cancelled" THEN @ ELSE @ \cup {t}]
<1>1. /\ pass.at = "runner" /\ def' = def /\ running' = running \ {t} /\ groups' = groups \ {def[t].group}
      /\ \/ jobs' = Put(jobs, t, r) /\ store' = jobs' /\ pass' = ended /\ faults' = faults
         \/ jobs' = Mark(Put(jobs, t, r), t, "failed") /\ store' = jobs' /\ faults' = faults + 1
            /\ pass' = [ended EXCEPT !.ret = FALSE]
         \/ jobs' = Mark(Put(jobs, t, r), t, "failed") /\ store' = store /\ faults' = faults + 2 /\ pass' = Idle
  BY DEF RunnerResolves, Put, Mark
<1>2. PassInv /\ pass.stack # << >> /\ faults \in Nat /\ InOrder(jobs, pass) /\ ~ Doomed(pass)
  BY <1>1 DEF SchedulerInv, OrderInv, PassInv, Doomed
<1>3. "status" \in DOMAIN r /\ r.status \in {"scheduled", "completed"}
  BY DEF AfterSuccess
<1> PICK settled : settled = Put(jobs, t, r)
  OBVIOUS
<1>4. Table(settled) /\ \A i \in Jobs : settled[i].status = IF i = t THEN r.status ELSE jobs[i].status
  BY <1>2, <1>3, PutTable DEF PassInv
<1>5. /\ ended \in Pass /\ ended.at = "returned" /\ ended.stack = Front(pass.stack)
      /\ [ended EXCEPT !.ret = FALSE] \in Pass /\ [ended EXCEPT !.ret = FALSE].at = "returned"
      /\ ~ [ended EXCEPT !.ret = FALSE].ret
  <2>1. PICK v \in BOOLEAN : v = (jobs[t].status # "cancelled")
    OBVIOUS
  <2>2. PICK q : q = Return(v)
    OBVIOUS
  <2>3. q \in Pass /\ q.at = "returned" /\ q.stack = Front(pass.stack) /\ t \in Jobs
    BY <1>2, <2>2, Returned
  <2>4. ended = [q EXCEPT !.done = IF jobs[t].status = "cancelled" THEN @ ELSE @ \cup {t}]
    BY <2>1, <2>2, Zenon
  <2> HIDE DEF ended
  <2>5. PICK d \in SUBSET Jobs : ended = [q EXCEPT !.done = d]
    BY <2>3, <2>4 DEF Pass
  <2> QED BY <2>3, <2>5 DEF Pass
<1> HIDE DEF ended
<1>6. CASE jobs' = settled /\ store' = jobs' /\ pass' = ended /\ faults' = faults
  <2>1. InOrder(jobs', pass')
    BY <1>2, <1>3, <1>4, <1>5, <1>6, OrderKept
  <2>2. InOrder(jobs, pass)'
    BY <1>1, <2>1 DEF InOrder, Behind
  <2>3. Saved
    BY <1>6 DEF Saved
  <2>4. \A j \in Jobs : jobs'[j].status = "running" => j # t /\ jobs[j].status = "running"
    BY <1>3, <1>4, <1>6
  <2> QED BY <1>1, <1>4, <1>5, <1>6, <2>2, <2>3, <2>4, RunnerEnds
<1>7. CASE /\ jobs' = Mark(settled, t, "failed") /\ faults' # 0 /\ faults' \in Nat
           /\ store' \in {store, jobs'} /\ pass' \in {Idle, [ended EXCEPT !.ret = FALSE]}
  <2>1. Table(jobs') /\ \A i \in Jobs : jobs'[i].status = IF i = t THEN "failed" ELSE settled[i].status
    BY <1>4, <1>7, MarkTable
  <2>2. pass' \in Pass /\ pass'.at # "runner" /\ InOrder(jobs, pass)'
    <3>1. PICK q : q = [ended EXCEPT !.ret = FALSE]
      OBVIOUS
    <3>2. CASE pass' = q
      BY <1>5, <3>1, <3>2 DEF InOrder, Doomed
    <3>3. CASE pass' = Idle
      BY <3>3, IdlePass DEF InOrder
    <3> QED BY <1>7, <3>1, <3>2, <3>3
  <2>3. PassInv'
    BY <1>1, <1>2, <1>7, <2>1, <2>2 DEF PassInv
  <2> QED BY <1>7, <2>2, <2>3 DEF SchedulerInv, OrderInv, HonestInv
<1> QED BY <1>1, <1>2, <1>6, <1>7

LEMMA EmptyInOrder ==
    ASSUME pass'.stack = << >>
    PROVE  InOrder(jobs, pass)'
BY DEF InOrder

\* Steps of a pass that start nothing and fail nothing.
LEMMA PassMoves ==
    ASSUME SchedulerInv, UNCHANGED <<def, running, groups, jobs, store, faults>>, pass' \in Pass,
           pass.at # "runner", pass'.at # "runner", InOrder(jobs, pass)'
    PROVE  SchedulerInv'
BY NoRunner DEF Saved, SchedulerInv, OrderInv, PassInv

LEMMA NextDueOrder ==
    ASSUME SchedulerInv, NextDue
    PROVE  SchedulerInv'
<1>1. pass.at = "step" /\ pass.stack = << >> /\ UNCHANGED <<def, running, groups>> /\ pass \in Pass
  BY DEF NextDue, SchedulerInv, OrderInv, PassInv
<1>2. CASE pass.todo = << >>
  BY <1>1, <1>2, IdlePass, EmptyInOrder, PassMoves DEF NextDue
<1>3. CASE pass.todo # << >>
  <2>1. PICK l : l = Tail(pass.todo)
    OBVIOUS
  <2>2. Head(pass.todo) \in Jobs /\ l \in Seq(Jobs)
    BY <1>1, <1>3, <2>1, SeqEnds DEF Pass
  <2>3. PICK p : p = [pass EXCEPT !.todo = l]
    OBVIOUS
  <2>4. p \in Pass /\ p.at = "step" /\ p.stack = << >>
    BY <1>1, <2>2, <2>3 DEF Pass
  <2>5. RunJob(Head(pass.todo), p)
    BY <1>3, <2>1, <2>3 DEF NextDue
  <2>6. InOrder(jobs, p)
    BY <2>4 DEF InOrder
  <2> QED BY <1>1, <2>2, <2>4, <2>5, <2>6, RunJobOrder
<1> QED BY <1>2, <1>3

\* A dependency is no longer before a call once it was found neither failed nor
\* missing.
LEMMA DependencyOrder ==
    ASSUME SchedulerInv, Dependency
    PROVE  SchedulerInv'
<1> PICK d : d = Head(Top.left)
  OBVIOUS
<1>1. /\ pass.at = "step" /\ pass.stack # << >> /\ Top.left # << >> /\ UNCHANGED <<def, running, groups>>
      /\ IF jobs[d].status \in {"absent", "failed", "cancelled"} THEN FailTop
         ELSE IF Due(d) THEN RunJob(d, Rest)
         ELSE pass' = Rest /\ UNCHANGED <<jobs, store, faults>>
  BY DEF Dependency, Rest
<1>2. PassInv /\ InOrder(jobs, pass) /\ ~ Doomed(pass)
  BY <1>1 DEF SchedulerInv, OrderInv, Doomed
<1>3. CASE jobs[d].status \in {"absent", "failed", "cancelled"}
  BY <1>1, <1>3, FailTopDooms
<1>4. CASE jobs[d].status \notin {"absent", "failed", "cancelled"}
  <2> DEFINE n == Len(pass.stack)
             f == [job |-> Top.job, left |-> Tail(Top.left)]
  <2>1. /\ Rest \in Pass /\ Rest.at = "step" /\ DOMAIN Rest.stack = DOMAIN pass.stack
        /\ \A k \in DOMAIN pass.stack : Rest.stack[k] = IF k = n THEN f ELSE pass.stack[k]
    BY <1>1, <1>2, RestPass
  <2>2. /\ Top.left \in Seq(Jobs) /\ d \in Jobs /\ ToSet(Top.left) \subseteq {d} \cup ToSet(Tail(Top.left))
        /\ Top = pass.stack[n] /\ n \in DOMAIN pass.stack
    BY <1>1, <1>2, Returned, SeqEnds
  <2>3. f.job = Top.job /\ f.left = Tail(Top.left)
    OBVIOUS
  <2> HIDE DEF n, f
  <2>4. Behind(jobs, Top)
    BY <1>2, <2>2 DEF InOrder
  <2>5. Behind(jobs, f)
    BY <1>4, <2>2, <2>3, <2>4 DEF Behind
  <2>6. InOrder(jobs, Rest)
    BY <1>2, <2>1, <2>5 DEF InOrder
  <2>7. CASE Due(d)
    BY <1>1, <1>4, <2>1, <2>2, <2>6, <2>7, RunJobOrder
  <2>8. CASE ~ Due(d)
    <3>1. pass' = Rest /\ UNCHANGED <<jobs, store, faults>>
      BY <1>1, <1>4, <2>8
    <3>2. InOrder(jobs, pass)'
      BY <1>1, <2>6, <3>1 DEF InOrder, Behind, Doomed
    <3> QED BY <1>1, <2>1, <3>1, <3>2, PassMoves
  <2> QED BY <2>7, <2>8
<1> QED BY <1>3, <1>4

LEMMA ResumeOrder ==
    ASSUME SchedulerInv, Resume
    PROVE  SchedulerInv'
<1>1. /\ pass.at = "returned" /\ UNCHANGED <<def, running, groups>>
      /\ IF pass.stack = << >> \/ pass.ret
         THEN pass' = [pass EXCEPT !.at = "step"] /\ UNCHANGED <<jobs, store, faults>>
         ELSE FailTop
  BY DEF Resume
<1>2. pass \in Pass /\ InOrder(jobs, pass)
  BY DEF SchedulerInv, OrderInv, PassInv
<1>3. CASE pass.stack = << >> \/ pass.ret
  <2>1. pass' = [pass EXCEPT !.at = "step"] /\ UNCHANGED <<jobs, store, faults>>
    BY <1>1, <1>3
  <2>2. pass' \in Pass /\ pass'.at = "step" /\ pass'.stack = pass.stack
    BY <1>2, <2>1 DEF Pass
  <2>3. InOrder(jobs, pass)'
    <3>1. CASE pass.stack = << >>
      BY <2>2, <3>1, EmptyInOrder
    <3>2. CASE pass.ret
      BY <1>1, <1>2, <2>1, <2>2, <3>2 DEF InOrder, Behind, Doomed
    <3> QED BY <1>3, <3>1, <3>2
  <2> QED BY <1>1, <2>1, <2>2, <2>3, PassMoves
<1>4. CASE ~ (pass.stack = << >> \/ pass.ret)
  BY <1>1, <1>4, FailTopDooms
<1> QED BY <1>3, <1>4

LEMMA RefusedOrder ==
    ASSUME SchedulerInv, StartRefused
    PROVE  SchedulerInv'
<1>1. /\ pass.at = "step" /\ pass.stack # << >> /\ pass' = Return(FALSE)
      /\ UNCHANGED <<def, jobs, store, running, groups, faults>>
  BY DEF StartRefused
<1>2. Return(FALSE) \in Pass /\ Return(FALSE).at = "returned" /\ ~ Return(FALSE).ret
  BY <1>1, Returned DEF SchedulerInv, OrderInv
<1>3. InOrder(jobs, pass)'
  BY <1>1, <1>2 DEF InOrder, Doomed
<1> QED BY <1>1, <1>2, <1>3, PassMoves

\* Calls of the host leave the pass alone.
LEMMA HostOrder ==
    ASSUME SchedulerInv, UNCHANGED <<def, running, groups, pass>>, Saved, Table(jobs'),
           \A j \in Jobs : jobs'[j].status \in {"absent", "failed"} => jobs[j].status \in {"absent", "failed"},
           \A j \in Jobs : \/ jobs'[j].status = jobs[j].status
                           \/ jobs'[j].status = "cancelled"
                           \/ jobs'[j].status = "scheduled" /\ jobs[j].status = "absent"
    PROVE  SchedulerInv'
<1>1. PassInv' /\ PassInv
  BY DEF SchedulerInv, OrderInv, PassInv, Saved
<1>2. InOrder(jobs, pass)'
  <2>1. CASE Doomed(pass)
    BY <2>1 DEF InOrder, Doomed
  <2>2. CASE ~ Doomed(pass)
    <3>1. InOrder(jobs', pass)
      BY <1>1, <2>2, OrderKept DEF SchedulerInv, OrderInv
    <3> QED BY <3>1 DEF InOrder, Behind, Doomed
  <2> QED BY <2>1, <2>2
<1>3. ASSUME faults' = 0 PROVE Honest'
  <2>1. Honest /\ store' = jobs'
    BY <1>3 DEF SchedulerInv, HonestInv, Saved, Honest
  <2>2. Executing' = Executing
    BY DEF Executing, Top
  <2> QED BY <2>1, <2>2 DEF Honest
<1> QED BY <1>1, <1>2, <1>3 DEF SchedulerInv, OrderInv, HonestInv

LEMMA RegisterOrder ==
    ASSUME SchedulerInv, NEW j \in Jobs, Register(j) \/ Cancel(j)
    PROVE  SchedulerInv'
<1>0. PassInv /\ faults \in Nat
  BY DEF SchedulerInv, OrderInv, PassInv
<1>1. CASE Register(j)
  <2> PICK r : r = [status |-> "scheduled", next |-> InitialOccurrence(def[j])]
    OBVIOUS
  <2>1. /\ jobs' = Put(jobs, j, r) /\ UNCHANGED <<def, running, groups, pass>> /\ jobs[j].status = "absent"
        /\ \/ store' = jobs' /\ faults' = faults
           \/ store' = store /\ faults' = faults + 1
    BY <1>1 DEF Register, Save, Put
  <2>2. Table(jobs') /\ \A i \in Jobs : jobs'[i].status = IF i = j THEN "scheduled" ELSE jobs[i].status
    BY <1>0, <2>1, PutTable DEF PassInv
  <2>3. Saved
    BY <1>0, <2>1 DEF Saved
  <2> QED BY <2>1, <2>2, <2>3, HostOrder
<1>2. CASE Cancel(j)
  <2>1. /\ jobs' = Mark(jobs, j, "cancelled") /\ UNCHANGED <<def, running, groups, pass>>
        /\ \/ store' = jobs' /\ faults' = faults
           \/ store' = store /\ faults' = faults + 1
    BY <1>2 DEF Cancel, Save, Set, Mark
  <2>2. Table(jobs') /\ \A i \in Jobs : jobs'[i].status = IF i = j THEN "cancelled" ELSE jobs[i].status
    BY <1>0, <2>1, MarkTable DEF PassInv
  <2>3. Saved
    BY <1>0, <2>1 DEF Saved
  <2> QED BY <2>1, <2>2, <2>3, HostOrder
<1> QED BY <1>1, <1>2

LEMMA BootOrder ==
    ASSUME SchedulerInv, Boot
    PROVE  SchedulerInv'
<1> PICK loaded, p :
      /\ pass = Idle /\ jobs' = loaded /\ UNCHANGED <<def, running, groups>> /\ p \in NewPasses(loaded)
      /\ \/ store' = loaded /\ pass' = p /\ faults' = faults
         \/ faults' = faults + 1 /\ pass' = Idle /\ store' = store
      /\ DOMAIN loaded = Jobs
      /\ \A j \in Jobs : loaded[j] \in {[store[j] EXCEPT !.next = NextOccurrence(def[j])], store[j]}
  BY DEF Boot, Persist
<1>1. ASSUME NEW j \in Jobs
      PROVE  "status" \in DOMAIN loaded[j] /\ loaded[j].status = store[j].status
  <2>1. "status" \in DOMAIN store[j]
    BY DEF SchedulerInv, OrderInv, PassInv, Table
  <2> QED BY <2>1
<1>2. Table(loaded) /\ faults \in Nat /\ pass.at # "runner"
  BY <1>1, IdlePass DEF Table, SchedulerInv, OrderInv, PassInv
<1>3. pass' \in Pass /\ pass'.at # "runner" /\ pass'.stack = << >>
  <2>1. p \in Pass /\ p.at = "step" /\ p.stack = << >>
    BY NewPass
  <2> QED BY <2>1, IdlePass
<1>4. Saved
  BY <1>2 DEF Saved
<1>5. ASSUME faults' = 0 PROVE \A j \in Jobs : jobs'[j].status = "running" => jobs[j].status = "running"
  <2>1. store = jobs
    BY <1>2, <1>5 DEF SchedulerInv, HonestInv, Honest
  <2> QED BY <1>1, <2>1
<1> QED BY <1>2, <1>3, <1>4, <1>5, EmptyInOrder, NoRunner

LEMMA SchedulerStep ==
    ASSUME SchedulerInv, [JobsNext]_jobsVars
    PROVE  SchedulerInv'
<1>1. CASE UNCHANGED jobsVars \/ TimePasses
  <2>1. UNCHANGED <<def, jobs, store, running, groups, pass, faults>>
    BY <1>1 DEF jobsVars, TimePasses
  <2> QED BY <2>1, HostOrder DEF Saved, SchedulerInv, OrderInv, PassInv
<1>2. CASE RunDue
  <2>1. /\ pass = Idle /\ pass' \in NewPasses(jobs)
        /\ UNCHANGED <<def, jobs, store, running, groups, faults>>
    BY <1>2 DEF RunDue
  <2>2. pass' \in Pass /\ pass'.at = "step" /\ pass'.stack = << >>
    BY <2>1, NewPass
  <2> QED BY <2>1, <2>2, IdlePass, EmptyInOrder, PassMoves
<1>3. CASE Crash
  <2>1. /\ jobs' = [j \in Jobs |-> Absent] /\ UNCHANGED <<def, store>> /\ pass' = Idle /\ faults' = faults + 1
    BY <1>3 DEF Crash
  <2>2. PassInv'
    BY <2>1, IdlePass DEF SchedulerInv, OrderInv, PassInv, Table, Absent
  <2>3. InOrder(jobs, pass)' /\ faults' # 0
    BY <2>1, IdlePass, EmptyInOrder DEF SchedulerInv, OrderInv, PassInv
  <2> QED BY <2>2, <2>3 DEF SchedulerInv, OrderInv, HonestInv
<1> QED
  BY <1>1, <1>2, <1>3, NextDueOrder, DependencyOrder, ResumeOrder, StartOrder, RefusedOrder, ResolvesOrder,
     RejectsOrder, BootOrder, RegisterOrder
  DEF JobsNext, PassStep, RunnerSettles

LEMMA SchedulerInit == JobsInit => SchedulerInv
<1> SUFFICES ASSUME JobsInit PROVE SchedulerInv
  OBVIOUS
<1>1. PassInv
  BY IdlePass DEF JobsInit, PassInv, Table, Absent
<1>2. InOrder(jobs, pass)
  BY IdlePass DEF JobsInit, InOrder
<1>3. Honest
  BY IdlePass DEF JobsInit, Honest, Executing, Absent
<1> QED BY <1>1, <1>2, <1>3 DEF SchedulerInv, OrderInv, HonestInv

\* While nothing failed, the statuses that callers read, the guard against a
\* second run and the concurrency groups all say which job is running
\* (job-scheduler.ts, runJob).
THEOREM StatusHonestHolds == JobsSpec => []StatusHonest
<1>1. SchedulerInv /\ [JobsNext]_jobsVars => SchedulerInv'
  BY SchedulerStep
<1>2. SchedulerInv => StatusHonest
  <2> SUFFICES ASSUME SchedulerInv, faults = 0
               PROVE  /\ {j \in Jobs : jobs[j].status = "running"} = {j \in Executing : jobs[j].status # "cancelled"}
                      /\ running = Executing
                      /\ groups = {def[j].group : j \in Executing}
    BY DEF StatusHonest, Executing
  <2>1. Honest
    BY DEF SchedulerInv, HonestInv
  <2>2. Executing \subseteq Jobs
    BY Returned DEF SchedulerInv, OrderInv, PassInv, Executing
  <2> QED BY <2>1, <2>2 DEF Honest
<1> QED BY <1>1, <1>2, SchedulerInit, PTL DEF JobsSpec

\* No job starts after a dependency failed or vanished, whatever else the host
\* does while the dependencies run (job-scheduler.ts, runJob and runDue).
THEOREM StartsInOrderHolds == JobsSpec => StartsInOrder
<1> DEFINE Ordered ==
      \A j \in Jobs : starts'[j] > starts[j] =>
        /\ jobs[j].status = "scheduled"
        /\ \A d \in ToSet(def[j].deps) : jobs[d].status \notin {"absent", "failed"}
<1>1. SchedulerInv /\ [JobsNext]_jobsVars => SchedulerInv'
  BY SchedulerStep
<1>2. JobsInit => OneShotInv
  BY DEF JobsInit, OneShotInv, Table, Absent, Unspent
<1>3. OneShotInv /\ [JobsNext]_jobsVars => OneShotInv'
  BY OneShotStep
<1>4. ASSUME SchedulerInv, OneShotInv, [JobsNext]_jobsVars PROVE [Ordered]_jobsVars
  <2>1. CASE Start
    <3>1. /\ pass.at = "step" /\ pass.stack # << >> /\ Top.left = << >> /\ jobs[Top.job].status = "scheduled"
          /\ starts' = [starts EXCEPT ![Top.job] = IF pass'.at = "runner" THEN @ + 1 ELSE @]
      BY <2>1 DEF Start, MayStart
    <3>2. Behind(jobs, Top)
      <4>1. Top = pass.stack[Len(pass.stack)] /\ Len(pass.stack) \in DOMAIN pass.stack
        BY <1>4, <3>1, Returned DEF SchedulerInv, OrderInv
      <4>2. InOrder(jobs, pass) /\ ~ Doomed(pass)
        BY <1>4, <3>1 DEF SchedulerInv, OrderInv, Doomed
      <4> QED BY <4>1, <4>2 DEF InOrder
    <3>3. ToSet(Top.left) = {}
      BY <3>1 DEF ToSet
    <3>4. ASSUME NEW j \in Jobs, starts'[j] > starts[j] PROVE j = Top.job
      <4>1. PICK v : starts' = [starts EXCEPT ![Top.job] = v]
        BY <3>1
      <4>2. starts[j] \in Nat /\ (j # Top.job => starts'[j] = starts[j])
        BY <1>4, <4>1 DEF OneShotInv
      <4> QED BY <3>4, <4>2
    <3> QED BY <3>1, <3>2, <3>3, <3>4 DEF Behind
  <2>2. ASSUME NEW j \in Jobs, Register(j) PROVE Ordered
    <3>1. ASSUME NEW i \in Jobs PROVE ~ (starts'[i] > starts[i])
      <4>1. starts[i] \in Nat /\ starts'[i] \in {0, starts[i]}
        BY <1>4, <2>2 DEF Register, OneShotInv
      <4> QED BY <4>1
    <3> QED BY <3>1
  <2>3. CASE UNCHANGED starts
    <3>1. ASSUME NEW i \in Jobs PROVE ~ (starts'[i] > starts[i])
      BY <1>4, <2>3 DEF OneShotInv
    <3> QED BY <3>1
  <2>4. CASE \/ RunDue \/ NextDue \/ Dependency \/ Resume \/ StartRefused \/ RunnerSettles \/ Boot \/ Crash
             \/ TimePasses \/ UNCHANGED jobsVars \/ \E j \in Jobs : Cancel(j)
    BY <2>3, <2>4
    DEF RunDue, NextDue, Dependency, Resume, StartRefused, RunnerSettles, RunnerResolves, RunnerRejects, Boot,
        Crash, TimePasses, Cancel, jobsVars
  <2> QED BY <1>4, <2>1, <2>2, <2>4 DEF JobsNext, PassStep
<1> QED BY <1>1, <1>2, <1>3, <1>4, SchedulerInit, PTL DEF JobsSpec, StartsInOrder
=============================================================================
