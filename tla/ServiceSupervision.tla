------------------------- MODULE ServiceSupervision -------------------------
(***************************************************************************)
(* The supervisor of the services (runtime-manager.ts): startAll() starts   *)
(* them in dependency order, checkHeartbeats() restarts those that were not *)
(* heard of, within a budget, and stopAll() stops them in reverse order.    *)
(* The three are async and nothing keeps them, or two checks, from          *)
(* overlapping; a service may die, and its start or stop may fail.          *)
(***************************************************************************)
EXTENDS Integers, Sequences, SequencesExt, Subsequences

CONSTANTS
    Registered,    \* the services, in the order of their registration
    Graphs,        \* the choices of the dependencies of every service
    Critical,      \* the services without which startAll() fails
    Checks,        \* calls of checkHeartbeats() that may overlap
    MissedAfter,   \* three heartbeat intervals
    Window,        \* restartWindowMs
    MaxImmediate,  \* maxImmediateRestarts
    Ceiling,       \* backoffCeilingMs, in units of retryPolicy.baseBackoffMs
    MaxClock       \* bound of the model on time

Services == ToSet(Registered)

ASSUME SupervisionAssumption ==
    /\ MissedAfter \in Nat /\ Window \in Nat /\ MaxImmediate \in Nat /\ Ceiling \in Nat
    /\ MaxClock \in Nat

VARIABLES
    clock,
    dependencies,  \* of each service
    alive,         \* whether a service works
    override,      \* healthOverride
    beat,          \* lastHeartbeatAt
    restartTimes,  \* when the service was restarted, as far as that is remembered
    begun,         \* history: when the service was restarted
    startCall,     \* the services that startAll() has still to start, in order
    stopCall,      \* the services that stopAll() has still to stop
    checkCall      \* for each check: the services still to look at, and the restart it awaits

supervisionVars == <<clock, dependencies, alive, override, beat, restartTimes, begun, startCall, stopCall, checkCall>>

Healths == {"none", "Failed", "Degraded"}

WholeCall == [at : {"new", "busy", "end"}, todo : Seq(Services)]

Check == [at : {"idle", "stopping", "starting"}, todo : Seq(Services), since : 0 .. MaxClock]

IdleCheck == [at |-> "idle", todo |-> <<>>, since |-> 0]

\* The calls are made in any order, startAll() and stopAll() once.
SupervisionInit ==
    /\ clock = 0
    /\ dependencies \in Graphs
    /\ alive = [s \in Services |-> FALSE]
    /\ override = [s \in Services |-> "none"]
    /\ beat = [s \in Services |-> 0]
    /\ restartTimes = [s \in Services |-> <<>>] /\ begun = restartTimes
    /\ startCall = [at |-> "new", todo |-> <<>>]
    /\ stopCall = startCall
    /\ checkCall = [c \in Checks |-> IdleCheck]

\* The orders that put dependencies first; the depth-first visit yields one of
\* them, and none exists exactly when it meets a cycle.
StartOrders ==
    {order \in SetToSeqs(Services) :
        \A m, n \in DOMAIN order : order[n] \in dependencies[order[m]] => n < m}

SupervisionTypeOK ==
    /\ clock \in 0 .. MaxClock
    /\ dependencies \in [Services -> SUBSET Services]
    /\ alive \in [Services -> BOOLEAN]
    /\ override \in [Services -> Healths]
    /\ beat \in [Services -> 0 .. MaxClock]
    /\ restartTimes \in [Services -> Seq(0 .. MaxClock)]
    /\ begun \in [Services -> Seq(0 .. MaxClock)]
    /\ startCall \in WholeCall
    /\ stopCall \in WholeCall
    /\ checkCall \in [Checks -> Check]

Ended == [at |-> "end", todo |-> <<>>]

StartAll ==
    /\ startCall.at = "new"
    /\ IF StartOrders = {} THEN startCall' = Ended
       ELSE \E order \in StartOrders : startCall' = [at |-> "busy", todo |-> order]
    /\ UNCHANGED <<clock, dependencies, alive, override, beat, restartTimes, begun, stopCall, checkCall>>

\* The awaited start of the next service succeeds.
Started ==
    /\ startCall.at = "busy" /\ startCall.todo # <<>>
    /\ LET s == Head(startCall.todo)
       IN  /\ alive' = [alive EXCEPT ![s] = TRUE]
           /\ override' = [override EXCEPT ![s] = "none"]
           /\ beat' = [beat EXCEPT ![s] = clock]
    /\ startCall' = [startCall EXCEPT !.todo = Tail(@)]
    /\ UNCHANGED <<clock, dependencies, restartTimes, begun, stopCall, checkCall>>

NotStarted ==
    /\ startCall.at = "busy" /\ startCall.todo # <<>>
    /\ LET s == Head(startCall.todo)
       IN  /\ override' = [override EXCEPT ![s] = "Failed"]
           /\ beat' = [beat EXCEPT ![s] = clock]
           /\ startCall' = IF s \in Critical THEN Ended ELSE [startCall EXCEPT !.todo = Tail(@)]
    /\ UNCHANGED <<clock, dependencies, alive, restartTimes, begun, stopCall, checkCall>>

StopAll ==
    /\ stopCall.at = "new"
    /\ IF StartOrders = {} THEN stopCall' = Ended
       ELSE \E order \in StartOrders : stopCall' = [at |-> "busy", todo |-> Reverse(order)]
    /\ UNCHANGED <<clock, dependencies, alive, override, beat, restartTimes, begun, startCall, checkCall>>

Stopped ==
    /\ stopCall.at = "busy" /\ stopCall.todo # <<>>
    /\ \/ /\ alive' = [alive EXCEPT ![Head(stopCall.todo)] = FALSE]
          /\ stopCall' = [stopCall EXCEPT !.todo = Tail(@)]
       \/ stopCall' = Ended /\ UNCHANGED alive
    /\ UNCHANGED <<clock, dependencies, override, beat, restartTimes, begun, startCall, checkCall>>

-----------------------------------------------------------------------------
(* Heartbeats.                                                              *)

CheckHeartbeats(c) ==
    /\ checkCall[c] = IdleCheck
    /\ checkCall' = [checkCall EXCEPT ![c].todo = Registered]
    /\ UNCHANGED <<clock, dependencies, alive, override, beat, restartTimes, begun, startCall, stopCall>>

InWindow == {t \in 0 .. MaxClock : t >= clock - Window}

\* The restarts that are still inside of the window.
Recent(s) == Kept(restartTimes[s], InWindow)

Doubled[n \in Nat] == IF n = 0 THEN 1 ELSE 2 * Doubled[n - 1]

Backoff(count) == Doubled[count - MaxImmediate + 1]

Exhausted(count) == count >= MaxImmediate /\ Backoff(count) > Ceiling

Missed(s) == clock - beat[s] >= MissedAfter

\* Fault: the restart is not recorded.
LookLate(c) ==
    /\ checkCall[c].at = "idle" /\ checkCall[c].todo # <<>>
    /\ LET s == Head(checkCall[c].todo)
       IN  IF ~Missed(s) \/ Exhausted(Len(Recent(s)))
           THEN checkCall' = [checkCall EXCEPT ![c].todo = Tail(@)] /\ UNCHANGED begun
           ELSE /\ checkCall' = [checkCall EXCEPT ![c].at = "stopping", ![c].since = clock]
                /\ begun' = [begun EXCEPT ![s] = Append(@, clock)]
    /\ UNCHANGED <<clock, dependencies, alive, beat, override, restartTimes, startCall, stopCall>>

\* The check looks at its next service: it goes on, gives the service up, or
\* begins to restart it and awaits its stop.
Look(c) ==
    /\ checkCall[c].at = "idle" /\ checkCall[c].todo # <<>>
    /\ LET s == Head(checkCall[c].todo)
       IN  \/ /\ ~Missed(s)
              /\ checkCall' = [checkCall EXCEPT ![c].todo = Tail(@)]
              /\ UNCHANGED <<override, restartTimes, begun>>
           \/ /\ Missed(s) /\ Exhausted(Len(Recent(s)))
              /\ override' = [override EXCEPT ![s] = "Degraded"]
              /\ restartTimes' = [restartTimes EXCEPT ![s] = Recent(s)]
              /\ checkCall' = [checkCall EXCEPT ![c].todo = Tail(@)]
              /\ UNCHANGED begun
           \/ /\ Missed(s) /\ ~Exhausted(Len(Recent(s)))
              /\ restartTimes' = [restartTimes EXCEPT ![s] = Append(Recent(s), clock)]
              /\ begun' = [begun EXCEPT ![s] = Append(@, clock)]
              /\ checkCall' = [checkCall EXCEPT ![c].at = "stopping", ![c].since = clock]
              /\ UNCHANGED override
    /\ UNCHANGED <<clock, dependencies, alive, beat, startCall, stopCall>>

\* stop(false) has been answered, with success or not, and start() is called.
StoppedForRestart(c) ==
    /\ checkCall[c].at = "stopping"
    /\ alive' \in {alive, [alive EXCEPT ![Head(checkCall[c].todo)] = FALSE]}
    /\ checkCall' = [checkCall EXCEPT ![c].at = "starting"]
    /\ UNCHANGED <<clock, dependencies, override, beat, restartTimes, begun, startCall, stopCall>>

\* start() has been answered; the heartbeat is dated to the begin of the restart.
Restarted(c) ==
    /\ checkCall[c].at = "starting"
    /\ LET s == Head(checkCall[c].todo)
       IN  /\ beat' = [beat EXCEPT ![s] = checkCall[c].since]
           /\ \/ /\ alive' = [alive EXCEPT ![s] = TRUE]
                 /\ override' = [override EXCEPT ![s] = "none"]
              \/ override' = [override EXCEPT ![s] = "Degraded"] /\ UNCHANGED alive
    /\ checkCall' = [checkCall EXCEPT ![c] = [IdleCheck EXCEPT !.todo = Tail(checkCall[c].todo)]]
    /\ UNCHANGED <<clock, dependencies, restartTimes, begun, startCall, stopCall>>

ClockTicks ==
    /\ clock < MaxClock
    /\ clock' = clock + 1
    /\ UNCHANGED <<dependencies, alive, override, beat, restartTimes, begun, startCall, stopCall, checkCall>>

SupervisionNext ==
    \/ StartAll \/ Started \/ NotStarted \/ StopAll \/ Stopped \/ ClockTicks
    \/ \E c \in Checks : CheckHeartbeats(c) \/ Look(c) \/ StoppedForRestart(c) \/ Restarted(c)

SupervisionSpec == SupervisionInit /\ [][SupervisionNext]_supervisionVars
-----------------------------------------------------------------------------
(* Properties.                                                              *)

\* However the checks overlap and whatever they remember, the restarts of a
\* service that began within one window are the immediate ones and those whose
\* backoff does not pass the ceiling.
RestartsBounded ==
    \A s \in Services :
        LET recent == Len(Kept(begun[s], InWindow))
        IN  recent > 0 => ~Exhausted(recent - 1)
=============================================================================
