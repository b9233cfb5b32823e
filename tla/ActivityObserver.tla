--------------------------- MODULE ActivityObserver ---------------------------
(***************************************************************************)
(* The observer of keyboard activity (keyboard-observer.ts) with its bridge*)
(* to a native process, switched by the host as the user grants and revokes*)
(* the permission; the observer of the mouse is built in the same way. The *)
(* bridge refers to one process, and to stop one awaits its end.           *)
(***************************************************************************)
EXTENDS Naturals

CONSTANTS
    Processes,   \* native processes that may be spawned, bounds their number
    NoProcess

ASSUME ProcessAssumption == NoProcess \notin Processes

VARIABLES
    allowed,     \* whether the permission keyboard_activity is granted
    synced,      \* history: whether the host acted on the last change of it
    keyboard,    \* KeyboardObserver.currentState
    child,       \* NativeKeyboardEventBridge.child
    fate,        \* what became of each process
    heard,       \* the processes whose lines are read
    stopping,    \* the processes whose end a call of stop() awaits
    overlapped   \* history: the permission was switched while a stop() was awaited

activityVars == <<allowed, synced, keyboard, child, fate, heard, stopping, overlapped>>

ActivityTypeOK ==
    /\ allowed \in BOOLEAN /\ synced \in BOOLEAN /\ overlapped \in BOOLEAN
    /\ keyboard \in {"Disabled", "Active", "Failed"}
    /\ child \in Processes \cup {NoProcess}
    /\ fate \in [Processes -> {"unborn", "running", "killed", "gone"}]
    /\ heard \subseteq Processes /\ stopping \subseteq Processes

ActivityInit ==
    /\ allowed = FALSE /\ synced = TRUE /\ overlapped = FALSE
    /\ keyboard = "Disabled" /\ child = NoProcess
    /\ fate = [p \in Processes |-> "unborn"]
    /\ heard = {} /\ stopping = {}

-----------------------------------------------------------------------------
(* The observer. Nothing can come between the steps of enable(), since the *)
(* bridge starts without waiting for its process.                          *)

\* stop() forgets the process and awaits its end; without one it returns at once.
Stop ==
    IF child = NoProcess
    THEN keyboard' = "Disabled" /\ UNCHANGED <<child, fate, heard, stopping>>
    ELSE /\ fate' = [fate EXCEPT ![child] = "killed"]
         /\ heard' = heard \ {child}
         /\ stopping' = stopping \cup {child}
         /\ child' = NoProcess
         /\ UNCHANGED keyboard

\* Fault: the state is set back and the process left alone.
RevokeWithoutStop ==
    /\ keyboard # "Disabled" /\ keyboard' = "Disabled"
    /\ UNCHANGED <<child, fate, heard, stopping>>

Revoke == keyboard # "Disabled" /\ Stop

StartFails ==
    /\ keyboard = "Disabled" /\ keyboard' = "Failed"
    /\ UNCHANGED <<child, fate, heard, stopping>>

\* A bridge that has a process refuses to start another.
Enable ==
    \/ StartFails
    \/ /\ keyboard = "Disabled" /\ child = NoProcess
       /\ keyboard' = "Active"
       /\ \E p \in Processes :
             /\ fate[p] = "unborn"
             /\ fate' = [fate EXCEPT ![p] = "running"]
             /\ child' = p /\ heard' = heard \cup {p}
       /\ UNCHANGED stopping

\* syncKeyboardObserver(): switches what is not as the permission says.
SyncKeyboard(grant) ==
    \/ ~grant /\ Revoke
    \/ grant /\ Enable
    \/ (keyboard = "Disabled") = ~grant /\ UNCHANGED <<keyboard, child, fate, heard, stopping>>

-----------------------------------------------------------------------------
(* The calls of the host, and what the process does.                       *)

UpdatePermission(grant) ==
    /\ allowed' = grant /\ synced' = TRUE
    /\ overlapped' = (overlapped \/ stopping # {})
    /\ SyncKeyboard(grant)

\* The REST handler updates the grant, and nothing acts on it.
GrantOverRest(grant) ==
    /\ allowed' = grant /\ synced' = FALSE
    /\ UNCHANGED <<keyboard, child, fate, heard, stopping, overlapped>>

\* capture() of what a process reports without the permission stops the bridge;
\* any other event changes nothing here.
CaptureUnpermitted ==
    /\ \E p \in heard : fate[p] = "running"
    /\ ~allowed /\ Revoke
    /\ UNCHANGED <<allowed, synced, overlapped>>

\* A process ends, killed or by itself, and the handlers of its end run: the
\* bridge's forgets whatever process it has, then the awaited stop() returns.
ProcessCloses(p) ==
    /\ fate[p] \in {"running", "killed"}
    /\ fate' = [fate EXCEPT ![p] = "gone"]
    /\ child' = NoProcess /\ heard' = heard \ {p}
    /\ stopping' = stopping \ {p}
    /\ keyboard' = IF p \in stopping THEN "Disabled" ELSE keyboard
    /\ UNCHANGED <<allowed, synced, overlapped>>

ActivityNext ==
    \/ \E g \in BOOLEAN : UpdatePermission(g) \/ GrantOverRest(g)
    \/ CaptureUnpermitted
    \/ \E p \in Processes : ProcessCloses(p)

ActivitySpec == ActivityInit /\ [][ActivityNext]_activityVars
-----------------------------------------------------------------------------
(* Properties.                                                             *)

\* No process is heard but the one that the bridge can stop.
OneListener == heard \subseteq {child}

\* "Changing an observation permission" takes effect: once a change of the
\* permission is carried out, the observer is off exactly when it is not granted,
\* and an observer that is off hears nothing, whatever processes fail or end by
\* themselves and whatever was granted in between without acting on it, as long
\* as no permission is switched while the end of a process is awaited.
SwitchObeyed ==
    ~overlapped /\ stopping = {} =>
        /\ OneListener
        /\ keyboard = "Disabled" => heard = {}
        /\ synced => (keyboard = "Disabled" <=> ~allowed)
=============================================================================
