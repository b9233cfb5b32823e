---------------------------- MODULE StateManager ----------------------------
(***************************************************************************)
(* The observations of one entity (state-manager.ts). Observers report      *)
(* late and out of order; a query that meets a contradiction may have the   *)
(* system checked again, and waits for the answer.                          *)
(***************************************************************************)
EXTENDS Integers, Sequences, SequencesExt, FiniteSetsExt

CONSTANTS
    Reporters,        \* the observers
    Values,           \* what they may see
    Recheck,          \* the observer of an active re-check
    StateQueries,     \* calls of query() in progress at once
    ConflictWindow,   \* crossObserverConflictMs in ticks of the model
    MaxStateTime,     \* bound of the model on the clock
    MaxReports        \* bound of the model on the observations

ASSUME StateAssumption == MaxStateTime \in Nat

VARIABLES
    observations,   \* what is known of the entity
    clock,          \* Date.now()
    querying,       \* the calls of query()
    settled         \* history: the last observation is that of a re-check

stateVars == <<observations, clock, querying, settled>>

Observation == [at : 0 .. MaxStateTime, value : Values, observer : Reporters \cup {Recheck}]

StateTypeOK ==
    /\ observations \in Seq(Observation) /\ Len(observations) <= MaxReports
    /\ clock \in 0 .. MaxStateTime
    /\ querying \in [StateQueries -> {"idle", "rechecking"}]
    /\ settled \in BOOLEAN

StateInit ==
    /\ observations = <<>> /\ clock = 0 /\ settled = FALSE
    /\ querying = [q \in StateQueries |-> "idle"]

\* Fault: the observations are kept as they arrive.
Appended(o) == Append(observations, o)

\* The new observation goes after those that are not later (the sort is stable).
Observed(o) ==
    LET notLater == {i \in DOMAIN observations : observations[i].at <= o.at}
    IN  InsertAt(observations, Max(notLater \cup {0}) + 1, o)

ContradictionPending ==
    LET latest == Last(observations)
    IN  \E i \in DOMAIN observations :
           LET o == observations[i]
           IN  /\ o.observer # latest.observer
               /\ latest.at - o.at <= ConflictWindow
               /\ o.value # latest.value

-----------------------------------------------------------------------------
\* What an observer saw a while ago may arrive only now.
Observe(r, at, value) ==
    /\ Len(observations) < MaxReports /\ at <= clock
    /\ observations' = Observed([at |-> at, value |-> value, observer |-> r])
    /\ settled' = FALSE
    /\ UNCHANGED <<clock, querying>>

\* Any other query changes nothing.
Query(q) ==
    /\ querying[q] = "idle" /\ observations # <<>> /\ ContradictionPending
    /\ querying' = [querying EXCEPT ![q] = "rechecking"]
    /\ UNCHANGED <<observations, clock, settled>>

Rechecked(q, value) ==
    /\ querying[q] = "rechecking" /\ Len(observations) < MaxReports
    /\ observations' = Observed([at |-> clock, value |-> value, observer |-> Recheck])
    /\ querying' = [querying EXCEPT ![q] = "idle"]
    /\ settled' = TRUE
    /\ UNCHANGED clock

RecheckThrows(q) ==
    /\ querying[q] = "rechecking"
    /\ querying' = [querying EXCEPT ![q] = "idle"]
    /\ UNCHANGED <<observations, clock, settled>>

StateClock ==
    /\ clock < MaxStateTime /\ clock' = clock + 1
    /\ UNCHANGED <<observations, querying, settled>>

StateNext ==
    \/ StateClock
    \/ \E r \in Reporters, at \in 0 .. MaxStateTime, v \in Values : Observe(r, at, v)
    \/ \E q \in StateQueries :
          Query(q) \/ RecheckThrows(q) \/ \E v \in Values : Rechecked(q, v)

StateSpec == StateInit /\ [][StateNext]_stateVars
-----------------------------------------------------------------------------
(* Properties.                                                              *)

\* A report that arrives late never takes the place of what was seen after it:
\* what query() resolves to is never older than what it resolved to before.
LateNeverOverrides ==
    [][observations # <<>> => Last(observations').at >= Last(observations).at]_stateVars

\* After a re-check "a later query doesn't re-flag the contradiction"
\* (state-manager.test.ts). Violated: within the window the re-check itself
\* contradicts the observers that saw something else.
RecheckSettles == settled => ~ContradictionPending
=============================================================================
