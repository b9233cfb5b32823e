---------------------------- MODULE UpgradeManager ----------------------------
(***************************************************************************)
(* Upgrades of the installation (upgrade-manager.ts): a snapshot, a pause of*)
(* the tasks in flight, one migration per version, the plugins, a           *)
(* verification, and the way back to the snapshot from wherever one of them *)
(* fails. Every step is an awaited call of the adapter, which the           *)
(* repository leaves to its host: a call that throws may have had its       *)
(* effect or none.                                                          *)
(***************************************************************************)
EXTENDS Naturals

CONSTANTS
    Upgrades,       \* calls of upgrade()
    Nobody,
    FirstVersion,   \* the version at the start
    LastVersion,    \* the highest target_version
    MaxWork         \* bounds what tasks write

ASSUME UpgradeAssumption ==
    FirstVersion \in Nat /\ LastVersion \in Nat /\ FirstVersion < LastVersion /\ MaxWork \in Nat

VARIABLES
    hooked,       \* whether pauseInFlight and resumeAfterUpgrade are configured
    disk,         \* what the snapshot and the migrations are about
    held,         \* whether the tasks in flight are paused
    upgrade,      \* the calls
    reporter,     \* the call that ended last
    simultaneous  \* history: two calls were under way at once

upgradeVars == <<hooked, disk, held, upgrade, reporter, simultaneous>>

Versions == FirstVersion .. LastVersion

Disk == [version : Versions, plugins : {"old", "new"}, torn : BOOLEAN, work : 0 .. MaxWork]

\* What a snapshot is compared by: tasks go on writing.
Install(d) == [d EXCEPT !.work = 0]

Underway == {"snapshot", "pause", "migrate", "plugins", "verify", "resume", "rollback", "recover"}
Answers == {"up to date", "upgraded", "rolled back", "both failed", "resumption failed"}

\* `reached` is the version that the loop of a call has come to; `botched` marks a
\* call whose own pause or resume threw.
UpgradeTypeOK ==
    /\ hooked \in BOOLEAN /\ held \in BOOLEAN /\ simultaneous \in BOOLEAN
    /\ disk \in Disk
    /\ reporter \in Upgrades \cup {Nobody}
    /\ upgrade \in [Upgrades ->
          [at : {"unasked"} \cup Underway \cup Answers, target : Versions, reached : Versions,
           before : Disk, paused : BOOLEAN, attempted : BOOLEAN, botched : BOOLEAN]]

UpgradeInit ==
    /\ hooked \in BOOLEAN /\ held = FALSE /\ simultaneous = FALSE
    /\ disk = [version |-> FirstVersion, plugins |-> "old", torn |-> FALSE, work |-> 0]
    /\ reporter = Nobody
    /\ upgrade = [u \in Upgrades |->
          [at |-> "unasked", target |-> LastVersion, reached |-> LastVersion,
           before |-> disk, paused |-> FALSE, attempted |-> FALSE, botched |-> FALSE]]

Set(u, at) == upgrade' = [upgrade EXCEPT ![u].at = at]

Others(u) == {v \in Upgrades \ {u} : upgrade[v].at \in Underway}

\* The call returns, and reports.
Report(u, what) == Set(u, what) /\ reporter' = u

-----------------------------------------------------------------------------
\* upgrade() of a confirmed request from the installed version. A target below it
\* is refused, and one that it has is reported as upgraded, before anything is done.
Request(u, target) ==
    /\ upgrade[u].at = "unasked"
    /\ \/ target = disk.version /\ Report(u, "up to date")
       \/ /\ target > disk.version /\ UNCHANGED reporter
          /\ upgrade' = [upgrade EXCEPT ![u].at = "snapshot", ![u].target = target,
                                        ![u].reached = disk.version]
    /\ simultaneous' = (simultaneous \/ Others(u) # {})
    /\ UNCHANGED <<hooked, disk, held>>

Snapshot(u) ==
    /\ upgrade[u].at = "snapshot"
    /\ upgrade' = [upgrade EXCEPT ![u].before = disk, ![u].at = IF hooked THEN "pause" ELSE "migrate"]
    /\ UNCHANGED <<hooked, disk, held, reporter, simultaneous>>

\* Without a snapshot there is nothing to roll back to, and the report is the same.
SnapshotFails(u) ==
    /\ upgrade[u].at = "snapshot"
    /\ upgrade' = [upgrade EXCEPT ![u].at = "rolled back", ![u].before = disk]
    /\ reporter' = u
    /\ UNCHANGED <<hooked, disk, held, simultaneous>>

Pause(u) ==
    /\ upgrade[u].at = "pause" /\ held' = TRUE
    /\ \/ upgrade' = [upgrade EXCEPT ![u].at = "migrate", ![u].paused = TRUE]
       \/ upgrade' = [upgrade EXCEPT ![u].at = "rollback", ![u].botched = TRUE]
    /\ UNCHANGED <<hooked, disk, reporter, simultaneous>>

PauseFails(u) ==
    /\ upgrade[u].at = "pause"
    /\ upgrade' = [upgrade EXCEPT ![u].at = "rollback", ![u].botched = TRUE]
    /\ UNCHANGED <<hooked, disk, held, reporter, simultaneous>>

Migrate(u) ==
    /\ upgrade[u].at = "migrate"
    /\ LET next == upgrade[u].reached + 1
       IN  /\ disk' = [disk EXCEPT !.version = next]
           /\ upgrade' = [upgrade EXCEPT ![u].reached = next,
                 ![u].at = IF next = upgrade[u].target THEN "plugins" ELSE "migrate"]
    /\ UNCHANGED <<hooked, held, reporter, simultaneous>>

MigrateFails(u) ==
    /\ upgrade[u].at = "migrate"
    /\ \E t \in BOOLEAN : disk' = [disk EXCEPT !.torn = @ \/ t]
    /\ Set(u, "rollback")
    /\ UNCHANGED <<hooked, held, reporter, simultaneous>>

UpdatePlugins(u) ==
    /\ upgrade[u].at = "plugins"
    /\ \E p \in {disk.plugins, "new"} :
          /\ disk' = [disk EXCEPT !.plugins = p]
          /\ \/ p = "new" /\ Set(u, "verify")
             \/ Set(u, "rollback")
    /\ UNCHANGED <<hooked, held, reporter, simultaneous>>

\* The adapter verifies what is on the disk.
Verified(u) == disk.version = upgrade[u].target /\ disk.plugins = "new" /\ ~disk.torn

Verify(u) ==
    /\ upgrade[u].at = "verify" /\ Verified(u)
    /\ IF upgrade[u].paused THEN Set(u, "resume") /\ UNCHANGED reporter ELSE Report(u, "upgraded")
    /\ UNCHANGED <<hooked, disk, held, simultaneous>>

VerifyFails(u) ==
    /\ upgrade[u].at = "verify" /\ Set(u, "rollback")
    /\ UNCHANGED <<hooked, disk, held, reporter, simultaneous>>

Resume(u) ==
    /\ upgrade[u].at = "resume" /\ held' = FALSE
    /\ Report(u, "upgraded")
    /\ UNCHANGED <<hooked, disk, simultaneous>>

\* The tasks may have been resumed all the same; it is not tried again.
ResumeFails(u) ==
    /\ upgrade[u].at = "resume" /\ held' \in {held, FALSE}
    /\ upgrade' = [upgrade EXCEPT ![u].at = "rollback", ![u].attempted = TRUE, ![u].botched = TRUE]
    /\ UNCHANGED <<hooked, disk, reporter, simultaneous>>

\* Fault: the tasks are left paused.
RollBackOnly(u) ==
    /\ upgrade[u].at = "rollback" /\ disk' = upgrade[u].before
    /\ Report(u, "rolled back")
    /\ UNCHANGED <<hooked, held, simultaneous>>

RollBack(u) ==
    /\ upgrade[u].at = "rollback" /\ disk' = upgrade[u].before
    /\ IF upgrade[u].paused /\ ~upgrade[u].attempted
       THEN Set(u, "recover") /\ UNCHANGED reporter
       ELSE Report(u, "rolled back")
    /\ UNCHANGED <<hooked, held, simultaneous>>

RollBackFails(u) ==
    /\ upgrade[u].at = "rollback"
    /\ \E t \in BOOLEAN : disk' = [disk EXCEPT !.torn = @ \/ t]
    /\ Report(u, "both failed")
    /\ UNCHANGED <<hooked, held, simultaneous>>

Recover(u) ==
    /\ upgrade[u].at = "recover" /\ held' = FALSE
    /\ Report(u, "rolled back")
    /\ UNCHANGED <<hooked, disk, simultaneous>>

RecoverFails(u) ==
    /\ upgrade[u].at = "recover" /\ held' \in {held, FALSE}
    /\ Report(u, "resumption failed")
    /\ UNCHANGED <<hooked, disk, simultaneous>>

\* External: a task in flight writes.
Work ==
    /\ ~held /\ disk.work < MaxWork
    /\ disk' = [disk EXCEPT !.work = @ + 1]
    /\ UNCHANGED <<hooked, held, upgrade, reporter, simultaneous>>

UpgradeNext ==
    \/ Work
    \/ \E u \in Upgrades :
          \/ \E target \in Versions : Request(u, target)
          \/ Snapshot(u) \/ SnapshotFails(u) \/ Pause(u) \/ PauseFails(u)
          \/ Migrate(u) \/ MigrateFails(u) \/ UpdatePlugins(u) \/ Verify(u) \/ VerifyFails(u)
          \/ Resume(u) \/ ResumeFails(u) \/ RollBack(u) \/ RollBackFails(u)
          \/ Recover(u) \/ RecoverFails(u)

UpgradeSpec == UpgradeInit /\ [][UpgradeNext]_upgradeVars
-----------------------------------------------------------------------------
(* Properties.                                                              *)

\* Whichever of the steps fail, and however far they came, what the last of
\* several upgrades reports is so, if they do not overlap: the new version
\* stands verified with the tasks at work, or the installation is what it was
\* before; and tasks are left paused only where that is reported, or a hook or a
\* rollback of an upgrade threw.
OutcomeIsTrue ==
    reporter # Nobody /\ ~simultaneous /\ Others(reporter) = {} =>
        LET last == upgrade[reporter]
        IN  /\ last.at = "upgraded" => Verified(reporter) /\ ~held
            /\ last.at \in {"rolled back", "resumption failed"} => Install(disk) = Install(last.before)
            /\ held => \E u \in Upgrades :
                          upgrade[u].botched \/ upgrade[u].at \in {"both failed", "resumption failed"}

\* Nothing is lost that tasks wrote. Violated: the snapshot is taken before the
\* tasks are paused, and a rollback takes back what they wrote in between.
WorkIsKept == [][disk'.work >= disk.work]_upgradeVars
=============================================================================
