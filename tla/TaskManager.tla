---------------------------- MODULE TaskManager ----------------------------
(***************************************************************************)
(* The task record and its life cycle, services/runtime/src/               *)
(* task-manager.ts: which transitions a record may make, and what each     *)
(* makes of it.  The operators are pure; the modules that own records      *)
(* apply them.                                                             *)
(***************************************************************************)
EXTENDS Naturals

CONSTANT MaxRetries  \* options.maxRetries

ASSUME RetriesAssumption == MaxRetries \in Nat

States == {"Created", "Planning", "WaitingResources", "Executing", "Verifying", "Completed",
           "Unverified", "Failed", "Retrying", "Paused", "WaitingUser", "Cancelled"}

\* A record; "Absent" stands for an identifier without one.
Record == [state : States \cup {"Absent"}, retries : 0 .. MaxRetries]

Absent == [state |-> "Absent", retries |-> 0]

Fresh == [state |-> "Created", retries |-> 0]

Successors ==
    [Created          |-> {"Planning", "Paused", "Cancelled"},
     Planning         |-> {"WaitingResources", "Executing", "Paused", "WaitingUser", "Failed", "Cancelled"},
     WaitingResources |-> {"Executing", "Paused", "Cancelled"},
     Executing        |-> {"Verifying", "Failed", "Paused", "Cancelled"},
     Verifying        |-> {"Completed", "Unverified", "Failed"},
     Completed        |-> {},
     Unverified       |-> {"Retrying"},
     Failed           |-> {"Retrying"},
     Retrying         |-> {"Planning"},
     Paused           |-> {"WaitingUser", "Planning", "Executing"},
     WaitingUser      |-> {"Planning", "Executing", "Cancelled"},
     Cancelled        |-> {},
     Absent           |-> {}]

\* Fault: a state may be entered again.
CanMoveAgain(r, target) ==
    /\ target \in Successors[r.state] \cup {r.state}
    /\ target = "Retrying" => r.retries < MaxRetries

\* Fault: a cancelled task may execute.
CanMoveFromCancelled(r, target) ==
    \/ target \in Successors[r.state] /\ (target = "Retrying" => r.retries < MaxRetries)
    \/ r.state = "Cancelled" /\ target = "Executing"

\* transition(r, target) is legal.
CanMove(r, target) ==
    /\ target \in Successors[r.state]
    /\ target = "Retrying" => r.retries < MaxRetries

\* Fault: a retry is not counted.
MovedUncounted(r, target) == [state |-> target, retries |-> r.retries]

\* The record after transition(r, target).
Moved(r, target) ==
    [state |-> target, retries |-> IF target = "Retrying" THEN r.retries + 1 ELSE r.retries]

\* Fault: interrupted executions start anew.
RecoveredAfresh(r) ==
    [r EXCEPT !.state = IF @ \in {"Executing", "Verifying"} THEN "Created" ELSE @]

\* What a crash leaves of a record: the outcome of steps that had started is
\* not known.
Recovered(r) ==
    [r EXCEPT !.state = IF @ \in {"Executing", "Verifying"} THEN "Unverified" ELSE @]

\* How far a record has come: every retry starts over on a higher level.
Stage ==
    [Absent |-> 0, Created |-> 1, Paused |-> 2, WaitingUser |-> 3, Retrying |-> 3, Planning |-> 4,
     WaitingResources |-> 5, Executing |-> 6, Verifying |-> 7, Completed |-> 8, Unverified |-> 8,
     Failed |-> 8, Cancelled |-> 9]

Progress(r) == 10 * r.retries + Stage[r.state]
=============================================================================
