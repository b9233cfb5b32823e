-------------------------- MODULE ExecutionGroups --------------------------
(***************************************************************************)
(* computeExecutionGroups of services/runtime/src/execution-scheduler.ts:  *)
(* how a plan, an array of steps with depends_on and required_locks, is    *)
(* split into the groups that RuntimeTaskCoordinator runs one after the    *)
(* other.  One action validates the plan, one takes a round of the while   *)
(* loop, one ends it.                                                      *)
(***************************************************************************)
EXTENDS Naturals, FiniteSets, SequencesExt, Subsequences

CONSTANTS
    StepIds,  \* step identifiers that steps may have or name
    Locks,    \* lockable resources
    Plans     \* the plans to group

\* depends_on is an array: nothing keeps an identifier from occurring twice.
PlanStep == [id : StepIds, deps : Seq(StepIds), locks : SUBSET Locks]

ASSUME PlansAssumption == Plans \subseteq Seq(PlanStep)

VARIABLES
    plan,       \* the argument
    phase,      \* "validate", "group", "ok" or "error"
    remaining,  \* remainingDependencies
    ready,      \* steps, by index in the plan, that the next round looks at
    groups      \* the groups so far, as sequences of indices

groupingVars == <<plan, phase, remaining, ready, groups>>

GroupingTypeOK ==
    /\ plan \in Seq(PlanStep)
    /\ phase \in {"validate", "group", "ok", "error"}
    /\ remaining \in [DOMAIN plan -> SUBSET StepIds]
    /\ ready \in Seq(DOMAIN plan)
    /\ groups \in Seq(Seq(DOMAIN plan) \ {<<>>})

Deps(i) == ToSet(plan[i].deps)

Scheduled == UNION {ToSet(groups[g]) : g \in DOMAIN groups}

GroupingInit ==
    /\ plan \in Plans
    /\ phase = "validate"
    /\ remaining = [i \in DOMAIN plan |-> {}]
    /\ ready = <<>>
    /\ groups = <<>>
-----------------------------------------------------------------------------
\* No identifier occurs twice, and every dependency is another step of the plan.
WellFormed ==
    /\ \A i, j \in DOMAIN plan : plan[i].id = plan[j].id => i = j
    /\ \A i \in DOMAIN plan : Deps(i) \subseteq {plan[j].id : j \in DOMAIN plan} \ {plan[i].id}

\* The steps, in the order of the plan.
InOrder == [i \in DOMAIN plan |-> i]

\* The checks before the loop, and its first list of ready steps.
Validate ==
    /\ phase = "validate"
    /\ remaining' = [i \in DOMAIN plan |-> Deps(i)]
    /\ IF WellFormed
         THEN /\ phase' = "group"
              /\ ready' = Kept(InOrder, {i \in DOMAIN plan : Deps(i) = {}})
         ELSE phase' = "error" /\ UNCHANGED ready
    /\ UNCHANGED <<plan, groups>>

\* Faults: locks are only compared with the step placed last; a group holds one
\* step only.
PlaceNextTo(round, i) ==
    IF plan[i].locks \cap round.locked # {}
      THEN [round EXCEPT !.deferred = Append(@, i)]
      ELSE [round EXCEPT !.group = Append(@, i), !.locked = plan[i].locks]

PlaceAlone(round, i) ==
    IF round.group # <<>>
      THEN [round EXCEPT !.deferred = Append(@, i)]
      ELSE [round EXCEPT !.group = Append(@, i), !.locked = plan[i].locks]

\* A ready step joins the group of the round unless it shares a lock with it.
Place(round, i) ==
    IF plan[i].locks \cap round.locked # {}
      THEN [round EXCEPT !.deferred = Append(@, i)]
      ELSE [round EXCEPT !.group = Append(@, i), !.locked = @ \cup plan[i].locks]

EmptyRound == [group |-> <<>>, locked |-> {}, deferred |-> <<>>]

Rounds == [group : Seq(DOMAIN plan), locked : SUBSET Locks, deferred : Seq(DOMAIN plan)]

\* The candidates are placed in turn.
Placed == Reduced([p \in Rounds \X DOMAIN plan |-> Place(p[1], p[2])], EmptyRound, ready)

\* Where step j names step i.
Mentions(i, j) == {k \in DOMAIN plan[j].deps : plan[j].deps[k] = plan[i].id}

\* Fault: one dependency left is enough.
UnblockEarly(acc, i, j) ==
    LET left == acc.remaining[j] \ {plan[i].id} IN
    [remaining |-> [acc.remaining EXCEPT ![j] = left],
     ready     |-> acc.ready \o [k \in 1 .. IF Cardinality(left) <= 1 THEN Cardinality(Mentions(i, j)) ELSE 0 |-> j]]

\* Step j has one dependency less, when it names step i of the group; without any
\* left it is ready, once for every time that it names i.
Unblock(acc, i, j) ==
    LET left == acc.remaining[j] \ {plan[i].id} IN
    [remaining |-> [acc.remaining EXCEPT ![j] = left],
     ready     |-> acc.ready \o [k \in 1 .. IF left = {} THEN Cardinality(Mentions(i, j)) ELSE 0 |-> j]]

Progress == [remaining : [DOMAIN plan -> SUBSET StepIds], ready : Seq(DOMAIN plan)]

\* What step i unblocks, and what the group does.
UnblockDependents(acc, i) ==
    Reduced([p \in Progress \X DOMAIN plan |-> Unblock(p[1], i, p[2])], acc, InOrder)

UnblockAll(acc, group) ==
    Reduced([p \in Progress \X DOMAIN plan |-> UnblockDependents(p[1], p[2])], acc, group)

\* Fault: the deferred steps are forgotten.
NextReadyWithoutDeferred(round) ==
    UnblockAll([remaining |-> remaining, ready |-> <<>>], round.group)

\* The dependencies, and the candidates of the next round, the deferred ones first.
NextReady(round) ==
    UnblockAll([remaining |-> remaining, ready |-> round.deferred], round.group)

Round ==
    /\ phase = "group" /\ ready # <<>>
    /\ LET next == NextReady(Placed)
       IN  /\ groups' = Append(groups, Placed.group)
           /\ remaining' = next.remaining
           /\ ready' = next.ready
    /\ UNCHANGED <<plan, phase>>

\* The loop ends; steps that never became ready form a cycle.
Finish ==
    /\ phase = "group" /\ ready = <<>>
    /\ phase' = IF Cardinality(Scheduled) = Len(plan) THEN "ok" ELSE "error"
    /\ UNCHANGED <<plan, remaining, ready, groups>>

GroupingNext == Validate \/ Round \/ Finish

GroupingSpec == GroupingInit /\ [][GroupingNext]_groupingVars /\ WF_groupingVars(GroupingNext)
-----------------------------------------------------------------------------
(* Properties.                                                              *)

\* The groups a step is in.
GroupsOf(i) == {g \in DOMAIN groups : i \in ToSet(groups[g])}

\* "Dependency-safe": when a group is taken, all that its steps depend on is in
\* earlier groups.
DependencySafe ==
    \A g \in DOMAIN groups : \A i \in ToSet(groups[g]) : \A d \in Deps(i) :
        \E j \in DOMAIN plan : plan[j].id = d /\ \E h \in GroupsOf(j) : h < g

\* "Lock-safe": no two steps of a group share a lock.
LockSafe ==
    \A g \in DOMAIN groups : \A k, l \in DOMAIN groups[g] :
        k # l => plan[groups[g][k]].locks \cap plan[groups[g][l]].locks = {}

\* The groups of an accepted plan hold each of its steps exactly once: none is
\* lost in a deferral, none is run twice.
EachStepOnce ==
    phase = "ok" =>
        \A i \in DOMAIN plan :
            \E g \in GroupsOf(i) :
                /\ GroupsOf(i) = {g}
                /\ \A k, l \in DOMAIN groups[g] : groups[g][k] = i /\ groups[g][l] = i => k = l

\* Parallelism is not given away: a step waits for a later group only for a
\* dependency or a lock in the group just before.
EarliestGroup ==
    \A g \in (DOMAIN groups) \ {1} : \A i \in ToSet(groups[g]) :
        \E j \in ToSet(groups[g - 1]) :
            plan[j].id \in Deps(i) \/ plan[j].locks \cap plan[i].locks # {}

\* The four together: what the coordinator runs as one group may run at once,
\* and the groups are the plan.
GroupsSound == DependencySafe /\ LockSafe /\ EachStepOnce /\ EarliestGroup

\* Reference: the dependencies leave no set of steps each of which waits for
\* another one of the set.
Acyclic ==
    \A C \in (SUBSET DOMAIN plan) \ {{}} :
        \E i \in C : \A j \in C : plan[j].id \notin Deps(i)

\* Exactly the plans that can be run are accepted, and each is decided.
DecidesEveryPlan ==
    <>(phase = IF WellFormed /\ Acyclic THEN "ok" ELSE "error")
=============================================================================
