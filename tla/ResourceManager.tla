-------------------------- MODULE ResourceManager --------------------------
(***************************************************************************)
(* The exclusive locks of services/runtime/src/resource-manager.ts: who    *)
(* holds each resource, and the requests that wait.  Its operations are    *)
(* written as constraints on the next state of the manager, for the        *)
(* modules that call it.                                                   *)
(***************************************************************************)
EXTENDS Naturals, FiniteSets

CONSTANTS
    Tasks,      \* task identifiers
    Resources,  \* lockable resources
    Free,       \* the holder of an unheld resource
    MaxHold     \* maxLockDurationMs, in clock ticks

ASSUME FreeAssumption == Free \notin Tasks
ASSUME MaxHoldAssumption == MaxHold \in Nat \ {0}

VARIABLES
    holder,  \* the task that holds each resource, or Free
    age,     \* ticks since a held lock was acquired, counted up to MaxHold
    queued   \* waiting requests, each with its index in the array

managerVars == <<holder, age, queued>>

Request == [task : Tasks, resources : (SUBSET Resources) \ {{}}, index : Nat]

ManagerTypeOK ==
    /\ holder \in [Resources -> Tasks \cup {Free}]
    /\ age \in [Resources -> 0 .. MaxHold]
    /\ queued \in SUBSET Request
    /\ IsFiniteSet(queued)

ManagerInit ==
    /\ holder = [r \in Resources |-> Free]
    /\ age = [r \in Resources |-> 0]
    /\ queued = {}
-----------------------------------------------------------------------------
\* Fault: acquire() is refused only when all of R is taken.
BlockedByAll(t, R) == R # {} /\ \A r \in R : holder[r] \notin {Free, t}

\* acquire(t, R) is queued when another task holds one of R.
Blocked(t, R) == \E r \in R : holder[r] \notin {Free, t}

\* The queue after the queued acquisitions of t for the sets in Rs: a task has
\* at most one waiting request, the first one it made.
Enqueue(t, Rs) ==
    IF Rs = {} \/ \E q \in queued : q.task = t
      THEN queued' = queued
      ELSE \E R \in Rs :
             queued' = queued \cup {[task |-> t, resources |-> R, index |-> Cardinality(queued)]}

\* The granted acquisitions of t for the resources of R. Locks that t already
\* holds are renewed.
Grant(t, R) ==
    /\ holder' = [r \in Resources |-> IF r \in R THEN t ELSE holder[r]]
    /\ age' = [r \in Resources |-> IF r \in R THEN 0 ELSE age[r]]

\* Faults: the pass ends at the first request it cannot grant; it looks at one
\* free resource of a request only.
GrantedInOrder(G, h) ==
    /\ G \subseteq queued
    /\ \A q \in queued :
         q \in G <=> \A p \in queued :
                      p.index <= q.index =>
                        /\ \A r \in p.resources : h[r] = Free
                        /\ p # q => p.resources \cap q.resources = {}

GrantedByAny(G, h) ==
    /\ G \subseteq queued
    /\ \A q \in queued :
         q \in G <=> /\ \E r \in q.resources : h[r] = Free
                     /\ \A p \in G : p.index < q.index => p.resources \cap q.resources = {}

\* The requests that one pass over the queue grants, in its order, starting
\* from the locks h: those whose resources are all free when they are reached.
GrantedBy(G, h) ==
    /\ G \subseteq queued
    /\ \A q \in queued :
         q \in G <=> /\ \A r \in q.resources : h[r] = Free
                     /\ \A p \in G : p.index < q.index => p.resources \cap q.resources = {}

\* The queue without the requests in G, which the array closes up over.
Without(G) ==
    {[q EXCEPT !.index = Cardinality({p \in queued \ G : p.index < q.index})] : q \in queued \ G}

\* release(t): every lock of t, then one pass over the queue.
Release(t) ==
    LET freed == [r \in Resources |-> IF holder[r] = t THEN Free ELSE holder[r]] IN
    \E G \in SUBSET queued :
        LET granted == UNION {q.resources : q \in G} IN
        /\ GrantedBy(G, freed)
        /\ queued' = Without(G)
        /\ holder' = [r \in Resources |->
                        IF r \in granted THEN (CHOOSE q \in G : r \in q.resources).task
                                         ELSE freed[r]]
        /\ age' = [r \in Resources |->
                     IF r \in granted \/ freed[r] = Free THEN 0 ELSE age[r]]

\* expireLocks(): every lock held for the maximum duration is dropped; the
\* waiting requests are not looked at.
Expired == {r \in Resources : holder[r] # Free /\ age[r] = MaxHold}

Expire ==
    /\ Expired # {}
    /\ holder' = [r \in Resources |-> IF r \in Expired THEN Free ELSE holder[r]]
    /\ age' = [r \in Resources |-> IF r \in Expired THEN 0 ELSE age[r]]
    /\ UNCHANGED queued

\* The clock advances.
Age ==
    /\ \E r \in Resources : holder[r] # Free /\ age[r] < MaxHold
    /\ age' = [r \in Resources |->
                 IF holder[r] # Free /\ age[r] < MaxHold THEN age[r] + 1 ELSE age[r]]
    /\ UNCHANGED <<holder, queued>>
=============================================================================
