----------------------------- MODULE WorldModel -----------------------------
(***************************************************************************)
(* What is running and what has the focus (world-model.ts), and the desktop *)
(* whose events say so (windows-application-observer.ts): the hook of the   *)
(* windows and the watchers of the processes report independently.          *)
(***************************************************************************)
EXTENDS Sequences, SequencesExt, FiniteSets

CONSTANTS
    Apps, Windows,
    Owner,             \* the application of each window
    NoWindow,
    MaxUpdates         \* bound of the model on changes of focus and titles on their way

ASSUME WorldAssumption == NoWindow \notin Windows /\ Owner \in [Windows -> Apps]

VARIABLES
    process,        \* of each application: "new", "running" or "gone"
    shown,          \* the open windows
    opened,         \* the windows that were ever opened
    foreground,     \* the window with the focus
    windowEvents,   \* events of windows on their way
    appEvents,      \* events of processes on their way
    applications,   \* WorldModel.applications
    focusState      \* the focused window of WorldModel.focusState

worldVars ==
    <<process, shown, opened, foreground, windowEvents, appEvents, applications, focusState>>

WindowEvent == [type : {"opened", "closed", "focused", "title_changed"}, window : Windows]
AppEvent == [type : {"launched", "closed"}, app : Apps]

WorldTypeOK ==
    /\ process \in [Apps -> {"new", "running", "gone"}]
    /\ shown \subseteq opened /\ opened \subseteq Windows
    /\ foreground \in shown \cup {NoWindow}
    /\ windowEvents \in Seq(WindowEvent) /\ appEvents \in Seq(AppEvent)
    /\ applications \subseteq Apps
    /\ focusState \in Windows \cup {NoWindow}

WorldInit ==
    /\ process = [a \in Apps |-> "new"]
    /\ shown = {} /\ opened = {} /\ foreground = NoWindow
    /\ windowEvents = <<>> /\ appEvents = <<>>
    /\ applications = {} /\ focusState = NoWindow

-----------------------------------------------------------------------------
(* The desktop.                                                             *)

Reports(type, ws) == windowEvents' = windowEvents \o [i \in DOMAIN ws |-> [type |-> type, window |-> ws[i]]]

Updates == {i \in DOMAIN windowEvents : windowEvents[i].type \in {"focused", "title_changed"}}

Launch(a) ==
    /\ process[a] = "new"
    /\ process' = [process EXCEPT ![a] = "running"]
    /\ appEvents' = Append(appEvents, [type |-> "launched", app |-> a])
    /\ UNCHANGED <<shown, opened, foreground, windowEvents, applications, focusState>>

Open(w) ==
    /\ w \notin opened /\ process[Owner[w]] = "running"
    /\ shown' = shown \cup {w} /\ opened' = opened \cup {w}
    /\ Reports("opened", <<w>>)
    /\ UNCHANGED <<process, foreground, appEvents, applications, focusState>>

Focus(w) ==
    /\ w \in shown /\ foreground # w /\ Cardinality(Updates) < MaxUpdates
    /\ foreground' = w
    /\ Reports("focused", <<w>>)
    /\ UNCHANGED <<process, shown, opened, appEvents, applications, focusState>>

Rename(w) ==
    /\ w \in shown /\ Cardinality(Updates) < MaxUpdates
    /\ Reports("title_changed", <<w>>)
    /\ UNCHANGED <<process, shown, opened, foreground, appEvents, applications, focusState>>

Vanish(ws) ==
    /\ shown' = shown \ ToSet(ws)
    /\ foreground' = IF foreground \in ToSet(ws) THEN NoWindow ELSE foreground
    /\ Reports("closed", ws)

Close(w) ==
    /\ w \in shown /\ Vanish(<<w>>)
    /\ UNCHANGED <<process, opened, appEvents, applications, focusState>>

\* A process takes its windows with it.
Exit(a) ==
    /\ process[a] = "running"
    /\ process' = [process EXCEPT ![a] = "gone"]
    /\ appEvents' = Append(appEvents, [type |-> "closed", app |-> a])
    /\ Vanish(SetToSeq({w \in shown : Owner[w] = a}))
    /\ UNCHANGED <<opened, applications, focusState>>

-----------------------------------------------------------------------------
(* The model of it: consume().                                              *)

ConsumeApp ==
    /\ appEvents # <<>> /\ appEvents' = Tail(appEvents)
    /\ LET e == Head(appEvents)
       IN  \/ /\ e.type = "launched"
              /\ applications' = applications \cup {e.app}
              /\ UNCHANGED focusState
           \/ /\ e.type = "closed"
              /\ applications' = applications \ {e.app}
              /\ focusState' = IF focusState # NoWindow /\ Owner[focusState] = e.app
                               THEN NoWindow ELSE focusState
    /\ UNCHANGED <<process, shown, opened, foreground, windowEvents>>

\* Fault: a window that closes keeps the focus.
FocusKept(e) == IF e.type = "focused" THEN e.window ELSE focusState

\* A change of the title replaces the focused window by itself.
FocusAfter(e) ==
    IF e.type = "focused" THEN e.window
    ELSE IF e.type = "closed" /\ e.window = focusState THEN NoWindow
    ELSE focusState

\* Every event of a window makes its application known, also that of its end.
ConsumeWindow ==
    /\ windowEvents # <<>> /\ windowEvents' = Tail(windowEvents)
    /\ LET e == Head(windowEvents)
       IN  /\ applications' = applications \cup {Owner[e.window]}
           /\ focusState' = FocusAfter(e)
    /\ UNCHANGED <<process, shown, opened, foreground, appEvents>>

WorldNext ==
    \/ ConsumeApp \/ ConsumeWindow
    \/ \E a \in Apps : Launch(a) \/ Exit(a)
    \/ \E w \in Windows : Open(w) \/ Focus(w) \/ Rename(w) \/ Close(w)

WorldSpec == WorldInit /\ [][WorldNext]_worldVars
-----------------------------------------------------------------------------
(* Properties.                                                              *)

Delivered == windowEvents = <<>> /\ appEvents = <<>>

\* However the events of windows and of processes overtake each other, when all
\* are consumed the focus the model tells is the one of the desktop.
FocusIsTrue == Delivered => focusState = foreground

\* "The World Model answers 'what is true right now'": which applications are
\* running (world-model.md). Violated: the end of a window that arrives after
\* the end of its process lists the application again, for good.
RunningIsTrue == Delivered => \A a \in applications : process[a] = "running"
=============================================================================
