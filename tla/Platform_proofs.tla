--------------------------- MODULE Platform_proofs ---------------------------
(***************************************************************************)
(* What observes, routes and remembers for the task core: the safety of the *)
(* components of MCPlatform, for every value of their constants.            *)
(***************************************************************************)
EXTENDS MCPlatform, Subsequences_proofs

(***************************************************************************)
(* Local models.                                                            *)
(***************************************************************************)

\* Besides the statuses, what is on its way to one relies on the file: a download
\* that has been renamed into place and a load whose check it passed.
ModelInv ==
    /\ ModelTypeOK
    /\ StatusMeansStored
    /\ download = "renamed" => file = "verified"
    /\ \A l \in Loads : load[l] = "adapter" => file = "verified"

LEMMA ModelInvInit == ModelInit => ModelInv
BY DEF ModelInit, ModelInv, ModelTypeOK, StatusMeansStored

LEMMA ModelInvStep == ModelInv /\ [ModelNext]_modelVars => ModelInv'
<1> SUFFICES ASSUME ModelInv, [ModelNext]_modelVars
             PROVE  ModelInv'
  OBVIOUS
<1> USE DEF ModelInv, ModelTypeOK, StatusMeansStored
<1>1. CASE UNCHANGED modelVars
  BY <1>1 DEF modelVars
<1>2. CASE Download \/ ExistingVerified \/ Fetched
  BY <1>2 DEF Download, ExistingVerified, Fetched
<1>3. CASE Renamed \/ WriteFails \/ Downloaded
  BY <1>3 DEF Renamed, WriteFails, Downloaded
<1>4. CASE MarkRetired \/ HostRestarts
  BY <1>4 DEF MarkRetired, HostRestarts
<1>5. ASSUME NEW l \in Loads, Load(l) \/ LoadVerified(l)
      PROVE  ModelInv'
  BY <1>5 DEF Load, LoadVerified
<1>6. ASSUME NEW l \in Loads, AdapterLoaded(l) \/ AdapterFails(l)
      PROVE  ModelInv'
  BY <1>6 DEF AdapterLoaded, AdapterFails
<1> QED BY <1>1, <1>2, <1>3, <1>4, <1>5, <1>6 DEF ModelNext

\* A model that is listed as present has its verified file, however downloads,
\* loads and retirements overlap or fail (local-model-manager.ts).
THEOREM StatusMeansStoredHolds == ModelSpec => []StatusMeansStored
<1>1. ModelInv => StatusMeansStored
  BY DEF ModelInv
<1> QED BY <1>1, ModelInvInit, ModelInvStep, PTL DEF ModelSpec

-----------------------------------------------------------------------------
(***************************************************************************)
(* Upgrades.                                                                *)
(***************************************************************************)

Call ==
    [at : {"unasked"} \cup Underway \cup Answers, target : Versions, reached : Versions,
     before : Disk, paused : BOOLEAN, attempted : BOOLEAN, botched : BOOLEAN]

\* What excuses that tasks stay paused.
Excused ==
    \E u \in Upgrades : upgrade[u].botched \/ upgrade[u].at \in {"both failed", "resumption failed"}

\* A call that has paused the tasks and has still to resume them.
Holds(u) ==
    upgrade[u].paused /\ upgrade[u].at \in {"migrate", "plugins", "verify", "resume", "rollback", "recover"}

\* No two calls are under way at once.
Alone ==
    \A u, v \in Upgrades : upgrade[u].at \in Underway /\ upgrade[v].at \in Underway => u = v

\* What the tasks are paused for, and what a call that is alone has made of the
\* disk when it resumes them.
UpgradeInv ==
    /\ UpgradeTypeOK
    /\ reporter # Nobody => upgrade[reporter].at \in Answers
    /\ \A u \in Upgrades :
          /\ upgrade[u].attempted => upgrade[u].botched
          /\ hooked /\ upgrade[u].at \in {"migrate", "plugins", "verify"} => upgrade[u].paused
          /\ ~hooked => upgrade[u].at # "pause"
          /\ upgrade[u].at \in {"snapshot", "pause", "migrate"} => upgrade[u].reached < upgrade[u].target
    /\ ~hooked => ~held
    /\ held => Excused \/ \E u \in Upgrades : Holds(u)
    /\ ~simultaneous =>
         /\ Alone
         /\ \A u \in Upgrades :
               /\ upgrade[u].at = "resume" => Verified(u)
               /\ upgrade[u].at = "recover" => Install(disk) = Install(upgrade[u].before)
    /\ OutcomeIsTrue

LEMMA UpgradeInvInit == UpgradeInit => UpgradeInv
<1> SUFFICES ASSUME UpgradeInit PROVE UpgradeInv
  OBVIOUS
<1>1. disk \in Disk /\ LastVersion \in Versions
  BY UpgradeAssumption DEF UpgradeInit, Disk, Versions
<1>2. UpgradeTypeOK
  BY <1>1 DEF UpgradeInit, UpgradeTypeOK
<1> QED
  BY <1>2 DEF UpgradeInit, UpgradeInv, OutcomeIsTrue, Alone, Underway, Answers, Holds, Excused

\* What a step leaves of the call of u, and what it owes the others: a call that
\* starts notices those under way, one that ends reports, and the tasks stay
\* paused only where u answers for it or did not before.
Moves(u, r) ==
    /\ upgrade' = [upgrade EXCEPT ![u] = r]
    /\ hooked' = hooked
    /\ \/ upgrade[u].at \in Underway
       \/ /\ upgrade[u].at = "unasked"
          /\ Others(u) # {} => simultaneous'
    /\ simultaneous => simultaneous'
    /\ \/ r.at \in Underway /\ reporter' = reporter
       \/ r.at \in Answers /\ reporter' = u

CallFits(r) ==
    /\ r.attempted => r.botched
    /\ hooked /\ r.at \in {"migrate", "plugins", "verify"} => r.paused
    /\ ~hooked => r.at # "pause"
    /\ r.at \in {"snapshot", "pause", "migrate"} => r.reached < r.target

HeldFits(u, r) ==
    /\ ~hooked => ~held'
    /\ upgrade[u].botched => r.botched
    /\ held' => \/ held /\ ~Holds(u)
                \/ r.botched \/ r.at \in {"both failed", "resumption failed"}
                \/ r.paused /\ r.at \in {"migrate", "plugins", "verify", "resume", "rollback", "recover"}

DiskFits(r) ==
    ~simultaneous' =>
      /\ r.at \in {"resume", "upgraded"} => disk'.version = r.target /\ disk'.plugins = "new" /\ ~disk'.torn
      /\ r.at = "upgraded" => ~held'
      /\ r.at \in {"recover", "rolled back", "resumption failed"} => Install(disk') = Install(r.before)

LEMMA UpgradeKept ==
    ASSUME UpgradeInv, NEW u \in Upgrades, NEW r \in Call,
           disk' \in Disk, held' \in BOOLEAN, simultaneous' \in BOOLEAN,
           Moves(u, r), CallFits(r), HeldFits(u, r), DiskFits(r)
    PROVE  UpgradeInv'
<1>1. /\ upgrade \in [Upgrades -> Call] /\ upgrade' \in [Upgrades -> Call]
      /\ upgrade'[u] = r
      /\ \A v \in Upgrades \ {u} : upgrade'[v] = upgrade[v]
  BY DEF Moves, UpgradeInv, UpgradeTypeOK, Call
<1>2. UpgradeTypeOK'
  BY <1>1 DEF Moves, UpgradeInv, UpgradeTypeOK, Call
<1>3. reporter' # Nobody => upgrade'[reporter'].at \in Answers
  BY <1>1 DEF Moves, UpgradeInv, UpgradeTypeOK, Underway, Answers
<1>4. \A v \in Upgrades \ {u} : ~simultaneous' => ~simultaneous /\ upgrade[v].at \notin Underway
  BY <1>1 DEF Moves, UpgradeInv, Alone, Others
<1>5. held' => Excused' \/ \E v \in Upgrades : Holds(v)'
  <2>1. CASE held /\ ~Holds(u) /\ Excused
    BY <1>1, <2>1 DEF Excused, HeldFits, Moves, Underway
  <2>2. CASE held /\ ~Holds(u) /\ ~Excused
    BY <1>1, <2>2 DEF Holds, UpgradeInv
  <2> QED BY <1>1, <2>1, <2>2 DEF HeldFits, Excused, Holds
<1>6. ~simultaneous' => Alone'
  BY <1>1, <1>4 DEF Alone
<1>7. ~simultaneous' => \A v \in Upgrades :
         /\ upgrade'[v].at = "resume" => Verified(v)'
         /\ upgrade'[v].at = "recover" => Install(disk') = Install(upgrade'[v].before)
  BY <1>1, <1>4 DEF DiskFits, Verified, Underway
<1>8. ASSUME reporter' # Nobody, ~simultaneous', Others(reporter)' = {}
      PROVE  /\ reporter' = u /\ r.at \in Answers
             /\ held' => Excused'
  <2>1. reporter' = u /\ r.at \in Answers
    BY <1>1, <1>8 DEF Moves, Others, UpgradeInv, UpgradeTypeOK, Underway, Answers
  <2>2. \A v \in Upgrades : ~ Holds(v)'
    BY <1>1, <1>4, <1>8, <2>1 DEF Holds, Underway, Answers
  <2> QED BY <1>5, <2>1, <2>2
<1>9. OutcomeIsTrue'
  BY <1>1, <1>8 DEF OutcomeIsTrue, DiskFits, Verified, Excused
<1>10. \A v \in Upgrades :
          /\ upgrade'[v].attempted => upgrade'[v].botched
          /\ hooked' /\ upgrade'[v].at \in {"migrate", "plugins", "verify"} => upgrade'[v].paused
          /\ ~hooked' => upgrade'[v].at # "pause"
          /\ upgrade'[v].at \in {"snapshot", "pause", "migrate"} => upgrade'[v].reached < upgrade'[v].target
  BY <1>1 DEF CallFits, Moves, UpgradeInv
<1> QED
  BY <1>2, <1>3, <1>5, <1>6, <1>7, <1>9, <1>10 DEF UpgradeInv, HeldFits, Moves

LEMMA RequestStep ==
    ASSUME UpgradeInv, NEW u \in Upgrades, NEW target \in Versions, Request(u, target)
    PROVE  UpgradeInv'
<1>1. /\ upgrade \in [Upgrades -> Call] /\ disk \in Disk /\ held \in BOOLEAN /\ simultaneous \in BOOLEAN
      /\ UNCHANGED <<hooked, disk, held>>
      /\ simultaneous' = (simultaneous \/ Others(u) # {})
      /\ upgrade[u].at = "unasked"
  BY DEF UpgradeInv, UpgradeTypeOK, Call, Request
<1>2. CASE target = disk.version /\ Report(u, "up to date")
  <2>1. PICK r : r = [upgrade[u] EXCEPT !.at = "up to date"]
    OBVIOUS
  <2>2. r \in Call /\ r.at = "up to date"
    BY <1>1, <2>1 DEF Call, Answers
  <2>3. Moves(u, r)
    BY <1>1, <1>2, <2>1, <2>2 DEF Call, Moves, Report, Set, Answers
  <2>4. CallFits(r) /\ HeldFits(u, r) /\ DiskFits(r)
    BY <1>1, <2>1, <2>2 DEF Call, CallFits, HeldFits, DiskFits, Holds, UpgradeInv
  <2> QED BY <1>1, <2>2, <2>3, <2>4, UpgradeKept
<1>3. CASE /\ target > disk.version /\ UNCHANGED reporter
           /\ upgrade' = [upgrade EXCEPT ![u].at = "snapshot", ![u].target = target,
                                         ![u].reached = disk.version]
  <2>1. PICK r : r = [upgrade[u] EXCEPT !.at = "snapshot", !.target = target, !.reached = disk.version]
    OBVIOUS
  <2>2. /\ r \in Call /\ r.at = "snapshot" /\ r.reached < r.target
        /\ upgrade' = [upgrade EXCEPT ![u] = r] /\ UNCHANGED reporter
    BY <1>1, <1>3, <2>1, UpgradeAssumption DEF Call, Disk, Underway, Versions
  <2>3. Moves(u, r)
    BY <1>1, <2>2 DEF Moves, Underway
  <2>4. CallFits(r) /\ HeldFits(u, r) /\ DiskFits(r)
    BY <1>1, <2>1, <2>2 DEF Call, CallFits, HeldFits, DiskFits, Holds, UpgradeInv
  <2> QED BY <1>1, <2>2, <2>3, <2>4, UpgradeKept
<1> QED BY <1>2, <1>3 DEF Request

LEMMA BeginStep ==
    ASSUME UpgradeInv, NEW u \in Upgrades, Snapshot(u) \/ SnapshotFails(u) \/ Pause(u) \/ PauseFails(u)
    PROVE  UpgradeInv'
<1>1. /\ upgrade \in [Upgrades -> Call] /\ disk \in Disk /\ held \in BOOLEAN /\ simultaneous \in BOOLEAN
      /\ upgrade[u] \in Call /\ upgrade[u].before \in Disk
  BY DEF UpgradeInv, UpgradeTypeOK, Call
<1>2. CASE Snapshot(u) /\ hooked
  <2>1. PICK r : r = [upgrade[u] EXCEPT !.before = disk, !.at = "pause"]
    OBVIOUS
  <2>2. r \in Call /\ r.at = "pause" /\ upgrade' = [upgrade EXCEPT ![u] = r]
    BY <1>1, <1>2, <2>1 DEF Call, Underway, Snapshot
  <2>3. Moves(u, r) /\ disk' \in Disk /\ held' \in BOOLEAN /\ UNCHANGED simultaneous
    BY <1>1, <1>2, <2>2 DEF Moves, Disk, Underway, Answers, Snapshot
  <2>4. CallFits(r) /\ HeldFits(u, r) /\ DiskFits(r)
    BY <1>1, <1>2, <2>1, <2>2 DEF Call, CallFits, HeldFits, DiskFits, Holds, UpgradeInv, Snapshot
  <2> QED BY <1>1, <2>2, <2>3, <2>4, UpgradeKept
<1>3. CASE Snapshot(u) /\ ~hooked
  <2>1. PICK r : r = [upgrade[u] EXCEPT !.before = disk, !.at = "migrate"]
    OBVIOUS
  <2>2. r \in Call /\ r.at = "migrate" /\ upgrade' = [upgrade EXCEPT ![u] = r]
    BY <1>1, <1>3, <2>1 DEF Call, Underway, Snapshot
  <2>3. Moves(u, r) /\ disk' \in Disk /\ held' \in BOOLEAN /\ UNCHANGED simultaneous
    BY <1>1, <1>3, <2>2 DEF Moves, Disk, Underway, Answers, Snapshot
  <2>4. CallFits(r) /\ HeldFits(u, r) /\ DiskFits(r)
    BY <1>1, <1>3, <2>1, <2>2 DEF Call, CallFits, HeldFits, DiskFits, Holds, UpgradeInv, Snapshot
  <2> QED BY <1>1, <2>2, <2>3, <2>4, UpgradeKept
<1>4. CASE SnapshotFails(u)
  <2>1. PICK r : r = [upgrade[u] EXCEPT !.at = "rolled back", !.before = disk]
    OBVIOUS
  <2>2. r \in Call /\ r.at = "rolled back" /\ upgrade' = [upgrade EXCEPT ![u] = r]
    BY <1>1, <1>4, <2>1 DEF Call, Answers, SnapshotFails
  <2>3. Moves(u, r) /\ disk' \in Disk /\ held' \in BOOLEAN /\ UNCHANGED simultaneous
    BY <1>1, <1>4, <2>2 DEF Moves, Disk, Underway, Answers, SnapshotFails
  <2>4. CallFits(r) /\ HeldFits(u, r) /\ DiskFits(r)
    BY <1>1, <1>4, <2>1, <2>2 DEF Call, CallFits, HeldFits, DiskFits, Holds, UpgradeInv, SnapshotFails
  <2> QED BY <1>1, <2>2, <2>3, <2>4, UpgradeKept
<1>5. CASE Pause(u) /\ upgrade' = [upgrade EXCEPT ![u].at = "migrate", ![u].paused = TRUE]
  <2>1. PICK r : r = [upgrade[u] EXCEPT !.at = "migrate", !.paused = TRUE]
    OBVIOUS
  <2>2. r \in Call /\ r.at = "migrate" /\ upgrade' = [upgrade EXCEPT ![u] = r]
    BY <1>1, <1>5, <2>1 DEF Call, Underway, Pause
  <2>3. Moves(u, r) /\ disk' \in Disk /\ held' \in BOOLEAN /\ UNCHANGED simultaneous
    BY <1>1, <1>5, <2>2 DEF Moves, Disk, Underway, Answers, Pause
  <2>4. CallFits(r) /\ HeldFits(u, r) /\ DiskFits(r)
    BY <1>1, <1>5, <2>1, <2>2 DEF Call, CallFits, HeldFits, DiskFits, Holds, UpgradeInv, Pause
  <2> QED BY <1>1, <2>2, <2>3, <2>4, UpgradeKept
<1>6. CASE Pause(u) /\ upgrade' = [upgrade EXCEPT ![u].at = "rollback", ![u].botched = TRUE]
  <2>1. PICK r : r = [upgrade[u] EXCEPT !.at = "rollback", !.botched = TRUE]
    OBVIOUS
  <2>2. r \in Call /\ r.at = "rollback" /\ upgrade' = [upgrade EXCEPT ![u] = r]
    BY <1>1, <1>6, <2>1 DEF Call, Underway, Pause
  <2>3. Moves(u, r) /\ disk' \in Disk /\ held' \in BOOLEAN /\ UNCHANGED simultaneous
    BY <1>1, <1>6, <2>2 DEF Moves, Disk, Underway, Answers, Pause
  <2>4. CallFits(r) /\ HeldFits(u, r) /\ DiskFits(r)
    BY <1>1, <1>6, <2>1, <2>2 DEF Call, CallFits, HeldFits, DiskFits, Holds, UpgradeInv, Pause
  <2> QED BY <1>1, <2>2, <2>3, <2>4, UpgradeKept
<1>7. CASE PauseFails(u)
  <2>1. PICK r : r = [upgrade[u] EXCEPT !.at = "rollback", !.botched = TRUE]
    OBVIOUS
  <2>2. r \in Call /\ r.at = "rollback" /\ upgrade' = [upgrade EXCEPT ![u] = r]
    BY <1>1, <1>7, <2>1 DEF Call, Underway, PauseFails
  <2>3. Moves(u, r) /\ disk' \in Disk /\ held' \in BOOLEAN /\ UNCHANGED simultaneous
    BY <1>1, <1>7, <2>2 DEF Moves, Disk, Underway, Answers, PauseFails
  <2>4. CallFits(r) /\ HeldFits(u, r) /\ DiskFits(r)
    BY <1>1, <1>7, <2>1, <2>2 DEF Call, CallFits, HeldFits, DiskFits, Holds, UpgradeInv, PauseFails
  <2> QED BY <1>1, <2>2, <2>3, <2>4, UpgradeKept
<1> QED BY <1>2, <1>3, <1>4, <1>5, <1>6, <1>7 DEF Pause

LEMMA MigrateStep ==
    ASSUME UpgradeInv, NEW u \in Upgrades, Migrate(u) \/ MigrateFails(u)
    PROVE  UpgradeInv'
<1>1. /\ upgrade \in [Upgrades -> Call] /\ disk \in Disk /\ held \in BOOLEAN /\ simultaneous \in BOOLEAN
      /\ upgrade[u] \in Call /\ upgrade[u].before \in Disk
  BY DEF UpgradeInv, UpgradeTypeOK, Call
<1>2. CASE Migrate(u)
  <2>1. PICK next : next = upgrade[u].reached + 1
    OBVIOUS
  <2>2. PICK at : at = IF next = upgrade[u].target THEN "plugins" ELSE "migrate"
    OBVIOUS
  <2>3. PICK r : r = [upgrade[u] EXCEPT !.reached = next, !.at = at]
    OBVIOUS
  <2>4. /\ upgrade[u].at = "migrate" /\ UNCHANGED <<hooked, held, reporter, simultaneous>>
        /\ disk' = [disk EXCEPT !.version = next] /\ upgrade' = [upgrade EXCEPT ![u] = r]
    BY <1>1, <1>2, <2>1, <2>2, <2>3 DEF Migrate, Call
  <2>5. next \in Versions /\ next <= upgrade[u].target
    BY <1>1, <2>1, <2>4, UpgradeAssumption DEF UpgradeInv, Call, Versions
  <2>6. r \in Call /\ r.at = at /\ at \in {"plugins", "migrate"}
    BY <1>1, <2>2, <2>3, <2>5 DEF Call, Underway
  <2>7. Moves(u, r) /\ disk' \in Disk /\ held' \in BOOLEAN
    BY <1>1, <2>4, <2>5, <2>6 DEF Moves, Disk, Underway
  <2>8. at = "migrate" => r.reached < r.target
    BY <1>1, <2>2, <2>3, <2>5, <2>6, UpgradeAssumption DEF Call, Versions
  <2>9. CallFits(r) /\ HeldFits(u, r) /\ DiskFits(r)
    BY <1>1, <2>3, <2>4, <2>6, <2>8 DEF Call, CallFits, HeldFits, DiskFits, Holds, UpgradeInv
  <2> QED BY <1>1, <2>4, <2>6, <2>7, <2>9, UpgradeKept
<1>3. CASE MigrateFails(u)
  <2>1. PICK r : r = [upgrade[u] EXCEPT !.at = "rollback"]
    OBVIOUS
  <2>2. r \in Call /\ r.at = "rollback" /\ upgrade' = [upgrade EXCEPT ![u] = r]
    BY <1>1, <1>3, <2>1 DEF Call, Underway, MigrateFails, Set
  <2>3. Moves(u, r) /\ disk' \in Disk /\ held' \in BOOLEAN /\ UNCHANGED simultaneous
    BY <1>1, <1>3, <2>2 DEF Moves, Disk, Underway, Answers, MigrateFails, Set
  <2>4. CallFits(r) /\ HeldFits(u, r) /\ DiskFits(r)
    BY <1>1, <1>3, <2>1, <2>2 DEF Call, CallFits, HeldFits, DiskFits, Holds, UpgradeInv, MigrateFails, Set
  <2> QED BY <1>1, <2>2, <2>3, <2>4, UpgradeKept
<1> QED BY <1>2, <1>3

LEMMA VerifyStep ==
    ASSUME UpgradeInv, NEW u \in Upgrades, UpdatePlugins(u) \/ Verify(u) \/ VerifyFails(u)
    PROVE  UpgradeInv'
<1>1. /\ upgrade \in [Upgrades -> Call] /\ disk \in Disk /\ held \in BOOLEAN /\ simultaneous \in BOOLEAN
      /\ upgrade[u] \in Call /\ upgrade[u].before \in Disk
  BY DEF UpgradeInv, UpgradeTypeOK, Call
<1>2. CASE UpdatePlugins(u) /\ Set(u, "verify")
  <2>1. PICK r : r = [upgrade[u] EXCEPT !.at = "verify"]
    OBVIOUS
  <2>2. r \in Call /\ r.at = "verify" /\ upgrade' = [upgrade EXCEPT ![u] = r]
    BY <1>1, <1>2, <2>1 DEF Call, Underway, UpdatePlugins, Set
  <2>3. Moves(u, r) /\ disk' \in Disk /\ held' \in BOOLEAN /\ UNCHANGED simultaneous
    BY <1>1, <1>2, <2>2 DEF Moves, Disk, Underway, Answers, UpdatePlugins, Set
  <2>4. CallFits(r) /\ HeldFits(u, r) /\ DiskFits(r)
    BY <1>1, <1>2, <2>1, <2>2 DEF Call, CallFits, HeldFits, DiskFits, Holds, UpgradeInv, UpdatePlugins, Set
  <2> QED BY <1>1, <2>2, <2>3, <2>4, UpgradeKept
<1>3. CASE UpdatePlugins(u) /\ Set(u, "rollback")
  <2>1. PICK r : r = [upgrade[u] EXCEPT !.at = "rollback"]
    OBVIOUS
  <2>2. r \in Call /\ r.at = "rollback" /\ upgrade' = [upgrade EXCEPT ![u] = r]
    BY <1>1, <1>3, <2>1 DEF Call, Underway, UpdatePlugins, Set
  <2>3. Moves(u, r) /\ disk' \in Disk /\ held' \in BOOLEAN /\ UNCHANGED simultaneous
    BY <1>1, <1>3, <2>2 DEF Moves, Disk, Underway, Answers, UpdatePlugins, Set
  <2>4. CallFits(r) /\ HeldFits(u, r) /\ DiskFits(r)
    BY <1>1, <1>3, <2>1, <2>2 DEF Call, CallFits, HeldFits, DiskFits, Holds, UpgradeInv, UpdatePlugins, Set
  <2> QED BY <1>1, <2>2, <2>3, <2>4, UpgradeKept
<1>4. CASE Verify(u) /\ upgrade[u].paused
  <2>1. PICK r : r = [upgrade[u] EXCEPT !.at = "resume"]
    OBVIOUS
  <2>2. r \in Call /\ r.at = "resume" /\ upgrade' = [upgrade EXCEPT ![u] = r]
    BY <1>1, <1>4, <2>1 DEF Call, Underway, Verify, Verified, Set
  <2>3. Moves(u, r) /\ disk' \in Disk /\ held' \in BOOLEAN /\ UNCHANGED simultaneous
    BY <1>1, <1>4, <2>2 DEF Moves, Disk, Underway, Answers, Verify, Verified, Set
  <2>4. CallFits(r) /\ HeldFits(u, r) /\ DiskFits(r)
    BY <1>1, <1>4, <2>1, <2>2 DEF Call, CallFits, HeldFits, DiskFits, Holds, UpgradeInv, Verify, Verified, Set
  <2> QED BY <1>1, <2>2, <2>3, <2>4, UpgradeKept
<1>5. CASE Verify(u) /\ ~upgrade[u].paused
  <2>1. PICK r : r = [upgrade[u] EXCEPT !.at = "upgraded"]
    OBVIOUS
  <2>2. r \in Call /\ r.at = "upgraded" /\ upgrade' = [upgrade EXCEPT ![u] = r]
    BY <1>1, <1>5, <2>1 DEF Call, Answers, Verify, Verified, Set, Report
  <2>3. Moves(u, r) /\ disk' \in Disk /\ held' \in BOOLEAN /\ UNCHANGED simultaneous
    BY <1>1, <1>5, <2>2 DEF Moves, Disk, Underway, Answers, Verify, Verified, Set, Report
  <2>4. CallFits(r) /\ HeldFits(u, r) /\ DiskFits(r)
    BY <1>1, <1>5, <2>1, <2>2 DEF Call, CallFits, HeldFits, DiskFits, Holds, UpgradeInv, Verify, Verified, Set, Report
  <2> QED BY <1>1, <2>2, <2>3, <2>4, UpgradeKept
<1>6. CASE VerifyFails(u)
  <2>1. PICK r : r = [upgrade[u] EXCEPT !.at = "rollback"]
    OBVIOUS
  <2>2. r \in Call /\ r.at = "rollback" /\ upgrade' = [upgrade EXCEPT ![u] = r]
    BY <1>1, <1>6, <2>1 DEF Call, Underway, VerifyFails, Set
  <2>3. Moves(u, r) /\ disk' \in Disk /\ held' \in BOOLEAN /\ UNCHANGED simultaneous
    BY <1>1, <1>6, <2>2 DEF Moves, Disk, Underway, Answers, VerifyFails, Set
  <2>4. CallFits(r) /\ HeldFits(u, r) /\ DiskFits(r)
    BY <1>1, <1>6, <2>1, <2>2 DEF Call, CallFits, HeldFits, DiskFits, Holds, UpgradeInv, VerifyFails, Set
  <2> QED BY <1>1, <2>2, <2>3, <2>4, UpgradeKept
<1> QED BY <1>2, <1>3, <1>4, <1>5, <1>6 DEF UpdatePlugins

LEMMA ResumeStep ==
    ASSUME UpgradeInv, NEW u \in Upgrades, Resume(u) \/ ResumeFails(u)
    PROVE  UpgradeInv'
<1>1. /\ upgrade \in [Upgrades -> Call] /\ disk \in Disk /\ held \in BOOLEAN /\ simultaneous \in BOOLEAN
      /\ upgrade[u] \in Call /\ upgrade[u].before \in Disk
  BY DEF UpgradeInv, UpgradeTypeOK, Call
<1>2. CASE Resume(u)
  <2>1. PICK r : r = [upgrade[u] EXCEPT !.at = "upgraded"]
    OBVIOUS
  <2>2. r \in Call /\ r.at = "upgraded" /\ upgrade' = [upgrade EXCEPT ![u] = r]
    BY <1>1, <1>2, <2>1 DEF Call, Answers, Resume, Verified, Set, Report
  <2>3. Moves(u, r) /\ disk' \in Disk /\ held' \in BOOLEAN /\ UNCHANGED simultaneous
    BY <1>1, <1>2, <2>2 DEF Moves, Disk, Underway, Answers, Resume, Verified, Set, Report
  <2>4. CallFits(r) /\ HeldFits(u, r) /\ DiskFits(r)
    BY <1>1, <1>2, <2>1, <2>2 DEF Call, CallFits, HeldFits, DiskFits, Holds, UpgradeInv, Resume, Verified, Set, Report
  <2> QED BY <1>1, <2>2, <2>3, <2>4, UpgradeKept
<1>3. CASE ResumeFails(u)
  <2>1. PICK r : r = [upgrade[u] EXCEPT !.at = "rollback", !.attempted = TRUE, !.botched = TRUE]
    OBVIOUS
  <2>2. r \in Call /\ r.at = "rollback" /\ upgrade' = [upgrade EXCEPT ![u] = r]
    BY <1>1, <1>3, <2>1 DEF Call, Underway, ResumeFails
  <2>3. Moves(u, r) /\ disk' \in Disk /\ held' \in BOOLEAN /\ UNCHANGED simultaneous
    BY <1>1, <1>3, <2>2 DEF Moves, Disk, Underway, Answers, ResumeFails
  <2>4. /\ held' => held
        /\ UNCHANGED <<hooked, disk>> /\ upgrade[u].at = "resume"
    <3>1. held' \in {held, FALSE} /\ UNCHANGED <<hooked, disk>> /\ upgrade[u].at = "resume"
      BY <1>3 DEF ResumeFails
    <3>2. held' => held
      BY <3>1, Zenon
    <3> QED BY <3>1, <3>2
  <2>5. CallFits(r) /\ HeldFits(u, r) /\ DiskFits(r)
    BY <1>1, <2>1, <2>2, <2>3, <2>4 DEF Call, CallFits, HeldFits, DiskFits, Holds, UpgradeInv
  <2> QED BY <1>1, <2>2, <2>3, <2>5, UpgradeKept
<1> QED BY <1>2, <1>3

LEMMA RollBackStep ==
    ASSUME UpgradeInv, NEW u \in Upgrades, RollBack(u) \/ RollBackFails(u)
    PROVE  UpgradeInv'
<1>1. /\ upgrade \in [Upgrades -> Call] /\ disk \in Disk /\ held \in BOOLEAN /\ simultaneous \in BOOLEAN
      /\ upgrade[u] \in Call /\ upgrade[u].before \in Disk
  BY DEF UpgradeInv, UpgradeTypeOK, Call
<1>2. CASE RollBack(u) /\ upgrade[u].paused /\ ~upgrade[u].attempted
  <2>1. PICK r : r = [upgrade[u] EXCEPT !.at = "recover"]
    OBVIOUS
  <2>2. r \in Call /\ r.at = "recover" /\ upgrade' = [upgrade EXCEPT ![u] = r]
    BY <1>1, <1>2, <2>1 DEF Call, Underway, RollBack, Set
  <2>3. Moves(u, r) /\ disk' \in Disk /\ held' \in BOOLEAN /\ UNCHANGED simultaneous
    BY <1>1, <1>2, <2>2 DEF Moves, Disk, Underway, Answers, RollBack, Set
  <2>4. CallFits(r) /\ HeldFits(u, r) /\ DiskFits(r)
    BY <1>1, <1>2, <2>1, <2>2 DEF Call, CallFits, HeldFits, DiskFits, Holds, UpgradeInv, RollBack, Set
  <2> QED BY <1>1, <2>2, <2>3, <2>4, UpgradeKept
<1>3. CASE RollBack(u) /\ ~(upgrade[u].paused /\ ~upgrade[u].attempted)
  <2>1. PICK r : r = [upgrade[u] EXCEPT !.at = "rolled back"]
    OBVIOUS
  <2>2. r \in Call /\ r.at = "rolled back" /\ upgrade' = [upgrade EXCEPT ![u] = r]
    BY <1>1, <1>3, <2>1 DEF Call, Answers, RollBack, Set, Report
  <2>3. Moves(u, r) /\ disk' \in Disk /\ held' \in BOOLEAN /\ UNCHANGED simultaneous
    BY <1>1, <1>3, <2>2 DEF Moves, Disk, Underway, Answers, RollBack, Set, Report
  <2>4. CallFits(r) /\ HeldFits(u, r) /\ DiskFits(r)
    BY <1>1, <1>3, <2>1, <2>2 DEF Call, CallFits, HeldFits, DiskFits, Holds, UpgradeInv, RollBack, Set, Report
  <2> QED BY <1>1, <2>2, <2>3, <2>4, UpgradeKept
<1>4. CASE RollBackFails(u)
  <2>1. PICK r : r = [upgrade[u] EXCEPT !.at = "both failed"]
    OBVIOUS
  <2>2. r \in Call /\ r.at = "both failed" /\ upgrade' = [upgrade EXCEPT ![u] = r]
    BY <1>1, <1>4, <2>1 DEF Call, Answers, RollBackFails, Set, Report
  <2>3. Moves(u, r) /\ disk' \in Disk /\ held' \in BOOLEAN /\ UNCHANGED simultaneous
    BY <1>1, <1>4, <2>2 DEF Moves, Disk, Underway, Answers, RollBackFails, Set, Report
  <2>4. CallFits(r) /\ HeldFits(u, r) /\ DiskFits(r)
    BY <1>1, <1>4, <2>1, <2>2 DEF Call, CallFits, HeldFits, DiskFits, Holds, UpgradeInv, RollBackFails, Set, Report
  <2> QED BY <1>1, <2>2, <2>3, <2>4, UpgradeKept
<1> QED BY <1>2, <1>3, <1>4

LEMMA RecoverStep ==
    ASSUME UpgradeInv, NEW u \in Upgrades, Recover(u) \/ RecoverFails(u)
    PROVE  UpgradeInv'
<1>1. /\ upgrade \in [Upgrades -> Call] /\ disk \in Disk /\ held \in BOOLEAN /\ simultaneous \in BOOLEAN
      /\ upgrade[u] \in Call /\ upgrade[u].before \in Disk
  BY DEF UpgradeInv, UpgradeTypeOK, Call
<1>2. CASE Recover(u)
  <2>1. PICK r : r = [upgrade[u] EXCEPT !.at = "rolled back"]
    OBVIOUS
  <2>2. r \in Call /\ r.at = "rolled back" /\ upgrade' = [upgrade EXCEPT ![u] = r]
    BY <1>1, <1>2, <2>1 DEF Call, Answers, Recover, Set, Report
  <2>3. Moves(u, r) /\ disk' \in Disk /\ held' \in BOOLEAN /\ UNCHANGED simultaneous
    BY <1>1, <1>2, <2>2 DEF Moves, Disk, Underway, Answers, Recover, Set, Report
  <2>4. CallFits(r) /\ HeldFits(u, r) /\ DiskFits(r)
    BY <1>1, <1>2, <2>1, <2>2 DEF Call, CallFits, HeldFits, DiskFits, Holds, UpgradeInv, Recover, Set, Report
  <2> QED BY <1>1, <2>2, <2>3, <2>4, UpgradeKept
<1>3. CASE RecoverFails(u)
  <2>1. PICK r : r = [upgrade[u] EXCEPT !.at = "resumption failed"]
    OBVIOUS
  <2>2. r \in Call /\ r.at = "resumption failed" /\ upgrade' = [upgrade EXCEPT ![u] = r]
    BY <1>1, <1>3, <2>1 DEF Call, Answers, RecoverFails, Set, Report
  <2>3. Moves(u, r) /\ disk' \in Disk /\ held' \in BOOLEAN /\ UNCHANGED simultaneous
    BY <1>1, <1>3, <2>2 DEF Moves, Disk, Underway, Answers, RecoverFails, Set, Report
  <2>4. /\ held' => held
        /\ UNCHANGED <<hooked, disk>> /\ upgrade[u].at = "recover"
    <3>1. held' \in {held, FALSE} /\ UNCHANGED <<hooked, disk>> /\ upgrade[u].at = "recover"
      BY <1>3 DEF RecoverFails
    <3>2. held' => held
      BY <3>1, Zenon
    <3> QED BY <3>1, <3>2
  <2>5. CallFits(r) /\ HeldFits(u, r) /\ DiskFits(r)
    BY <1>1, <2>1, <2>2, <2>3, <2>4 DEF Call, CallFits, HeldFits, DiskFits, Holds, UpgradeInv
  <2> QED BY <1>1, <2>2, <2>3, <2>5, UpgradeKept
<1> QED BY <1>2, <1>3

LEMMA UpgradeInvStep == UpgradeInv /\ [UpgradeNext]_upgradeVars => UpgradeInv'
<1> SUFFICES ASSUME UpgradeInv, [UpgradeNext]_upgradeVars
             PROVE  UpgradeInv'
  OBVIOUS
<1>1. ASSUME disk' \in Disk, UNCHANGED <<hooked, held, upgrade, reporter, simultaneous>>,
             Install(disk') = Install(disk), disk'.version = disk.version,
             disk'.plugins = disk.plugins, disk'.torn = disk.torn
      PROVE  UpgradeInv'
  BY <1>1
     DEF UpgradeInv, UpgradeTypeOK, Excused, Holds, Alone, Verified, OutcomeIsTrue, Others
<1>2. CASE UNCHANGED upgradeVars
  BY <1>1, <1>2 DEF upgradeVars, UpgradeInv, UpgradeTypeOK
<1>3. CASE Work
  <2>1. disk \in Disk /\ disk' = [disk EXCEPT !.work = disk.work + 1] /\ disk.work < MaxWork
    BY <1>3 DEF Work, UpgradeInv, UpgradeTypeOK
  <2>2. /\ disk' \in Disk /\ Install(disk') = Install(disk)
        /\ disk'.version = disk.version /\ disk'.plugins = disk.plugins /\ disk'.torn = disk.torn
    <3>1. PICK n : n = disk.work + 1
      OBVIOUS
    <3>2. n \in 0 .. MaxWork
      BY <2>1, <3>1, UpgradeAssumption DEF Disk
    <3>3. disk' \in Disk
      BY <2>1, <3>1, <3>2 DEF Disk
    <3>4. Install(disk') = Install(disk)
      BY <2>1, <3>1 DEF Install, Disk
    <3> QED BY <2>1, <3>3, <3>4 DEF Disk
  <2> QED BY <1>1, <1>3, <2>2 DEF Work
<1>4. CASE \E u \in Upgrades : \E target \in Versions : Request(u, target)
  BY <1>4, RequestStep
<1> QED
  BY <1>2, <1>3, <1>4, BeginStep, MigrateStep, VerifyStep, ResumeStep, RollBackStep, RecoverStep
     DEF UpgradeNext

\* Whichever steps fail, what the last of several upgrades that do not overlap
\* reports is so (upgrade-manager.ts).
THEOREM OutcomeIsTrueHolds == UpgradeSpec => []OutcomeIsTrue
<1>1. UpgradeInv => OutcomeIsTrue
  BY DEF UpgradeInv
<1> QED BY <1>1, UpgradeInvInit, UpgradeInvStep, PTL DEF UpgradeSpec

\* Both, in the specification that the run checks: what models and upgrades
\* report is so on the disk.
THEOREM ReportsAreTrueHolds == MCSpec => []ReportsAreTrue
<1>1. MCInit => ModelInv /\ UpgradeInv
  BY ModelInvInit, UpgradeInvInit DEF MCInit
<1>2. [MCNext]_platformVars => [ModelNext]_modelVars /\ [UpgradeNext]_upgradeVars
  BY DEF MCNext, platformVars, AboutRouter, AboutObserver, AboutState, AboutWorld, AboutRegistry,
         AboutModels, AboutPipe, AboutGraph, AboutGroups, AboutActivity, AboutUpgrade
<1>3. ModelInv /\ UpgradeInv => ReportsAreTrue
  BY DEF ModelInv, UpgradeInv, ReportsAreTrue
<1> QED BY <1>1, <1>2, <1>3, ModelInvStep, UpgradeInvStep, PTL DEF MCSpec
-----------------------------------------------------------------------------
(***************************************************************************)
(* Observers.                                                               *)
(***************************************************************************)

Receipt ==
    [at : {"idle", "permitted", "captured", "publishing", "stopping"}, batch : Seq(Message),
     rules : SUBSET Domains]

\* An event that was permitted waits to be captured, and a batch is free of what
\* was excluded when it was taken.
Heeding(receipt) ==
    /\ receipt.at = "permitted" => receipt.batch # <<>>
    /\ receipt.at = "publishing" => NothingOf(receipt.rules, receipt.batch)

ReceiptsHeed == \A r \in Receivers : Heeding(receiving[r])

ObserverInv == ObserverTypeOK /\ ReceiptsHeed /\ NothingOf(excluded, queued)

LEMMA ObserverInvInit == ObserverInit => ObserverInv
<1> SUFFICES ASSUME ObserverInit PROVE ObserverInv
  OBVIOUS
<1>1. NoReceipt \in Receipt /\ Heeding(NoReceipt)
  BY DEF NoReceipt, Receipt, Heeding
<1>2. receiving \in [Receivers -> Receipt] /\ ReceiptsHeed
  BY <1>1 DEF ObserverInit, ReceiptsHeed
<1>3. queued = <<>> /\ queued \in Seq(Message)
  BY DEF ObserverInit
<1> QED BY <1>2, <1>3 DEF ObserverInit, ObserverInv, ObserverTypeOK, NothingOf, Receipt

LEMMA MarkedIsMessage ==
    ASSUME NEW m \in Message
    PROVE  Marked(m) \in Message /\ Marked(m).domain = m.domain
<1>1. PICK v \in BOOLEAN : v = (m.revoked \/ ~granted)
  BY Zenon
<1>2. Marked(m) = [m EXCEPT !.revoked = v]
  BY <1>1, Zenon DEF Marked
<1> QED BY <1>2 DEF Message

LEMMA PurgeKeeps ==
    ASSUME NEW receipts \in [Receivers -> Receipt], Purge(receipts),
           \A r \in Receivers : Heeding(receipts[r])
    PROVE  /\ receiving' \in [Receivers -> Receipt] /\ queued' = <<>> /\ observer' = "Disabled"
           /\ ReceiptsHeed'
<1>1. ASSUME NEW r \in Receivers
      PROVE  receiving'[r] \in Receipt /\ Heeding(receiving'[r])
  <2>1. PICK b \in Seq(Message) : b = receipts[r].batch
    BY DEF Receipt
  <2>2. PICK c : c = [i \in DOMAIN b |-> Marked(b[i])]
    OBVIOUS
  <2>3. receiving'[r] = [receipts[r] EXCEPT !.batch = c]
    BY <2>1, <2>2 DEF Purge
  <2>4. \A i \in 1 .. Len(b) : Marked(b[i]) \in Message /\ Marked(b[i]).domain = b[i].domain
    BY MarkedIsMessage
  <2>5. c \in Seq(Message) /\ (c = <<>> => b = <<>>) /\ Len(c) = Len(b)
    BY <2>2, <2>4
  <2>6. \A rules : NothingOf(rules, b) => NothingOf(rules, c)
    BY <2>2, <2>4, <2>5 DEF NothingOf
  <2>7. receiving'[r] \in Receipt /\ receiving'[r].at = receipts[r].at /\ receiving'[r].batch = c
        /\ receiving'[r].rules = receipts[r].rules
    BY <2>3, <2>5 DEF Receipt
  <2> QED BY <2>1, <2>5, <2>6, <2>7 DEF Heeding
<1> QED BY <1>1 DEF Purge, ReceiptsHeed

LEMMA ReceiptStep ==
    ASSUME ObserverInv, NEW r \in Receivers,
           NEW at \in {"idle", "permitted", "captured", "stopping"}, NEW batch \in Seq(Message),
           Step(r, at, batch), at = "permitted" => batch # <<>>
    PROVE  receiving' \in [Receivers -> Receipt] /\ ReceiptsHeed'
<1>1. PICK p : p = [at |-> at, batch |-> batch, rules |-> {}]
  OBVIOUS
<1>2. p \in Receipt /\ Heeding(p)
  BY <1>1 DEF Receipt, Heeding
<1>3. receiving' = [receiving EXCEPT ![r] = p]
  BY <1>1 DEF Step
<1> QED BY <1>2, <1>3 DEF ObserverInv, ObserverTypeOK, ReceiptsHeed, Receipt

LEMMA PublishStep ==
    ASSUME ObserverInv, NEW r \in Receivers, NEW batch \in Seq(Message), NEW rules \in SUBSET Domains,
           Publish(r, batch, rules), NothingOf(rules, batch)
    PROVE  receiving' \in [Receivers -> Receipt] /\ ReceiptsHeed'
<1>1. PICK p : p = [at |-> "publishing", batch |-> batch, rules |-> rules]
  OBVIOUS
<1>2. p \in Receipt /\ Heeding(p)
  BY <1>1 DEF Receipt, Heeding
<1>3. receiving' = [receiving EXCEPT ![r] = p]
  BY <1>1 DEF Publish
<1> QED BY <1>2, <1>3 DEF ObserverInv, ObserverTypeOK, ReceiptsHeed, Receipt

LEMMA ObserverHostStep ==
    ASSUME ObserverInv,
           \/ SetPermission
           \/ \E c \in Controls : SyncEnables(c) \/ SyncRevokes(c) \/ EnableSettled(c) \/ RevokeSettled(c)
           \/ \E rules \in SUBSET Domains : SetExcludedDomains(rules)
    PROVE  ObserverInv'
<1> USE DEF ObserverInv
<1>1. ASSUME SetPermission \/ \E c \in Controls : SyncEnables(c) \/ SyncRevokes(c) \/ EnableSettled(c)
      PROVE  ObserverInv'
  BY <1>1 DEF SetPermission, SyncEnables, SyncRevokes, EnableSettled, ObserverTypeOK, ReceiptsHeed, NothingOf
<1>2. ASSUME NEW c \in Controls, RevokeSettled(c)
      PROVE  ObserverInv'
  <2>1. receiving' \in [Receivers -> Receipt] /\ queued' = <<>> /\ observer' = "Disabled" /\ ReceiptsHeed'
    BY <1>2, PurgeKeeps DEF RevokeSettled, ObserverTypeOK, ReceiptsHeed, Receipt
  <2> QED BY <1>2, <2>1 DEF RevokeSettled, ObserverTypeOK, NothingOf, Receipt
<1>3. ASSUME NEW rules \in SUBSET Domains, SetExcludedDomains(rules)
      PROVE  ObserverInv'
  <2>1. PICK S : S = {m \in ToSet(queued) : m.domain \notin rules}
    OBVIOUS
  <2>2. queued' = Kept(queued, S) /\ excluded' = rules
    BY <1>3, <2>1 DEF SetExcludedDomains
  <2>3. queued' \in Seq(Message) /\ ToSet(queued') = ToSet(queued) \cap S
    BY <2>2, KeptSet DEF ObserverTypeOK
  <2>4. \A i \in DOMAIN queued' : queued'[i] \in S
    BY <2>3 DEF ToSet
  <2> QED BY <1>3, <2>1, <2>2, <2>3, <2>4 DEF SetExcludedDomains, ObserverTypeOK, ReceiptsHeed, NothingOf
<1> QED BY <1>1, <1>2, <1>3

LEMMA ObserverEventStep ==
    ASSUME ObserverInv, NEW r \in Receivers,
           \/ ReceiveRevokes(r) \/ Capture(r) \/ Flush(r) \/ Published(r)
           \/ \E t \in Tabs, d \in Domains \cup {NoDomain} :
                 Receive(r, [tab |-> t, domain |-> d, revoked |-> FALSE])
    PROVE  ObserverInv'
<1>1. /\ receiving \in [Receivers -> Receipt] /\ receiving[r].batch \in Seq(Message)
      /\ queued \in Seq(Message) /\ <<>> \in Seq(Message)
  BY DEF ObserverInv, ObserverTypeOK, Receipt
<1>2. ASSUME ReceiveRevokes(r)
      PROVE  ObserverInv'
  <2>1. PICK receipts : receipts = [receiving EXCEPT ![r] = NoReceipt]
    OBVIOUS
  <2>2. /\ receipts \in [Receivers -> Receipt]
        /\ \A q \in Receivers : Heeding(receipts[q])
    BY <1>1, <2>1 DEF NoReceipt, Receipt, ObserverInv, ReceiptsHeed, Heeding
  <2>3. Purge(receipts)
    BY <1>2, <2>1 DEF ReceiveRevokes
  <2>4. receiving' \in [Receivers -> Receipt] /\ queued' = <<>> /\ observer' = "Disabled" /\ ReceiptsHeed'
    BY <2>2, <2>3, PurgeKeeps
  <2> QED BY <1>2, <2>4 DEF ReceiveRevokes, ObserverInv, ObserverTypeOK, NothingOf, Receipt
<1>3. ASSUME NEW t \in Tabs, NEW d \in Domains \cup {NoDomain},
             Receive(r, [tab |-> t, domain |-> d, revoked |-> FALSE])
      PROVE  ObserverInv'
  <2>1. PICK m \in Message : m = [tab |-> t, domain |-> d, revoked |-> FALSE]
    BY DEF Message
  <2>2. <<m>> \in Seq(Message) /\ <<m>> # <<>>
    OBVIOUS
  <2>3. receiving' \in [Receivers -> Receipt] /\ ReceiptsHeed'
    BY <1>1, <1>3, <2>1, <2>2, ReceiptStep DEF Receive
  <2> QED BY <1>3, <2>3 DEF Receive, ObserverInv, ObserverTypeOK, NothingOf, Receipt
<1>4. ASSUME Capture(r)
      PROVE  ObserverInv'
  <2>1. receiving' \in [Receivers -> Receipt] /\ ReceiptsHeed'
    BY <1>1, <1>4, ReceiptStep DEF Capture
  <2>2. PICK m \in Message : m = Head(receiving[r].batch)
    BY <1>1, <1>4 DEF Capture, ObserverInv, ReceiptsHeed, Heeding
  <2>3. CASE m.domain \in excluded
    BY <1>4, <2>1, <2>2, <2>3 DEF Capture, ObserverInv, ObserverTypeOK, NothingOf, Receipt
  <2>4. CASE m.domain \notin excluded
    <3>1. \/ queued' = Append(queued, m)
          \/ \E same \in SUBSET DOMAIN queued : queued' = [i \in DOMAIN queued |-> IF i \in same THEN m ELSE queued[i]]
      BY <1>4, <2>2, <2>4 DEF Capture
    <3>2. queued' \in Seq(Message) /\ \A i \in DOMAIN queued' : queued'[i].domain \notin excluded
      <4>1. CASE queued' = Append(queued, m)
        BY <1>1, <2>4, <4>1 DEF ObserverInv, NothingOf
      <4>2. ASSUME NEW same \in SUBSET DOMAIN queued,
                   queued' = [i \in DOMAIN queued |-> IF i \in same THEN m ELSE queued[i]]
            PROVE  queued' \in Seq(Message) /\ \A i \in DOMAIN queued' : queued'[i].domain \notin excluded
        BY <1>1, <2>4, <4>2 DEF ObserverInv, NothingOf
      <4> QED BY <3>1, <4>1, <4>2
    <3> QED BY <1>4, <2>1, <3>2 DEF Capture, ObserverInv, ObserverTypeOK, NothingOf, Receipt
  <2> QED BY <2>3, <2>4
<1>5. ASSUME Flush(r)
      PROVE  ObserverInv'
  <2>1. receiving' \in [Receivers -> Receipt] /\ ReceiptsHeed'
    BY <1>1, <1>5, ReceiptStep, PublishStep DEF Flush, ObserverInv, ObserverTypeOK
  <2> QED BY <1>1, <1>5, <2>1 DEF Flush, ObserverInv, ObserverTypeOK, NothingOf, Receipt
<1>6. ASSUME Published(r)
      PROVE  ObserverInv'
  <2>1. receiving[r].rules \in SUBSET Domains /\ NothingOf(receiving[r].rules, receiving[r].batch)
    BY <1>1, <1>6 DEF Published, Receipt, ObserverInv, ReceiptsHeed, Heeding
  <2>2. PICK b \in Seq(Message) : b = receiving[r].batch
    BY <1>1
  <2>3. Len(b) > 1 => Tail(b) \in Seq(Message) /\ NothingOf(receiving[r].rules, Tail(b))
    BY <2>1, <2>2 DEF NothingOf
  <2>4. receiving' \in [Receivers -> Receipt] /\ ReceiptsHeed'
    BY <1>1, <1>6, <2>1, <2>2, <2>3, ReceiptStep, PublishStep DEF Published
  <2> QED BY <1>6, <2>4 DEF Published, ObserverInv, ObserverTypeOK, NothingOf, Receipt
<1> QED BY <1>2, <1>3, <1>4, <1>5, <1>6

LEMMA ObserverInvStep == ObserverInv /\ [ObserverNext]_observerVars => ObserverInv'
<1> SUFFICES ASSUME ObserverInv, [ObserverNext]_observerVars
             PROVE  ObserverInv'
  OBVIOUS
<1>1. CASE UNCHANGED observerVars
  BY <1>1 DEF observerVars, ObserverInv, ObserverTypeOK, ReceiptsHeed, NothingOf
<1> QED BY <1>1, ObserverHostStep, ObserverEventStep DEF ObserverNext

\* However events and changes of the policy interleave, nothing of an excluded
\* domain waits in the queue, and no flush publishes what was excluded when it
\* took the queue (browser-observer.ts).
THEOREM ExcludedIsPurgedHolds == ObserverSpec => []ExcludedIsPurged
<1>1. ObserverInv => ExcludedIsPurged
  BY DEF ObserverInv, ExcludedIsPurged, ReceiptsHeed, Heeding
<1> QED BY <1>1, ObserverInvInit, ObserverInvStep, PTL DEF ObserverSpec

\* As long as no switch overlaps with the end of a process, only the child runs
\* and is heard, a process that was killed is awaited, and nothing is awaited but
\* for a permission that is gone.
ActivityInv ==
    /\ ActivityTypeOK
    /\ ~overlapped =>
         /\ heard \subseteq {child}
         /\ \A p \in Processes : fate[p] = "running" => p = child
         /\ \A p \in Processes : fate[p] = "killed" => p \in stopping
         /\ stopping # {} => child = NoProcess /\ (synced => ~allowed)
         /\ keyboard = "Disabled" => child = NoProcess
         /\ stopping = {} /\ synced => (keyboard = "Disabled" <=> ~allowed)

LEMMA ActivityInvInit == ActivityInit => ActivityInv
BY DEF ActivityInit, ActivityInv, ActivityTypeOK

LEMMA ActivityInvStep == ActivityInv /\ [ActivityNext]_activityVars => ActivityInv'
<1> SUFFICES ASSUME ActivityInv, [ActivityNext]_activityVars
             PROVE  ActivityInv'
  OBVIOUS
<1> USE ProcessAssumption DEF ActivityInv, ActivityTypeOK
<1>1. CASE UNCHANGED activityVars
  BY <1>1 DEF activityVars
<1>2. ASSUME NEW g \in BOOLEAN, UpdatePermission(g)
      PROVE  ActivityInv'
  <2>1. allowed' = g /\ synced' = TRUE /\ overlapped' \in BOOLEAN /\ (~overlapped' => ~overlapped /\ stopping = {})
    BY <1>2 DEF UpdatePermission
  <2>2. CASE ~g /\ Revoke
    BY <2>1, <2>2 DEF Revoke, Stop
  <2>3. CASE g /\ Enable
    BY <2>1, <2>3 DEF Enable, StartFails
  <2>4. CASE (keyboard = "Disabled") = ~g /\ UNCHANGED <<keyboard, child, fate, heard, stopping>>
    BY <2>1, <2>4
  <2> QED BY <1>2, <2>2, <2>3, <2>4 DEF UpdatePermission, SyncKeyboard
<1>3. ASSUME NEW g \in BOOLEAN, GrantOverRest(g)
      PROVE  ActivityInv'
  BY <1>3 DEF GrantOverRest
<1>4. CASE CaptureUnpermitted
  BY <1>4 DEF CaptureUnpermitted, Revoke, Stop
<1>5. ASSUME NEW p \in Processes, ProcessCloses(p)
      PROVE  ActivityInv'
  BY <1>5 DEF ProcessCloses
<1> QED BY <1>1, <1>2, <1>3, <1>4, <1>5 DEF ActivityNext

\* As long as no switch overlaps with the end of a process, a permission that was
\* switched is obeyed (keyboard-observer.ts).
THEOREM SwitchObeyedHolds == ActivitySpec => []SwitchObeyed
<1>1. ActivityInv => SwitchObeyed
  BY ProcessAssumption DEF ActivityInv, ActivityTypeOK, SwitchObeyed, OneListener
<1> QED BY <1>1, ActivityInvInit, ActivityInvStep, PTL DEF ActivitySpec

\* Both, in the specification that the run checks.
THEOREM ObserversObeyHolds == MCSpec => []ObserversObey
<1>1. MCInit => ObserverInv /\ ActivityInv
  BY ObserverInvInit, ActivityInvInit DEF MCInit
<1>2. [MCNext]_platformVars => [ObserverNext]_observerVars /\ [ActivityNext]_activityVars
  BY DEF MCNext, platformVars, AboutRouter, AboutObserver, AboutState, AboutWorld, AboutRegistry,
         AboutModels, AboutPipe, AboutGraph, AboutGroups, AboutActivity, AboutUpgrade
<1>3. ObserverInv /\ ActivityInv => ObserversObey
  BY ProcessAssumption
     DEF ObserverInv, ReceiptsHeed, Heeding, ExcludedIsPurged, ActivityInv, ActivityTypeOK, SwitchObeyed, OneListener,
         ObserversObey
<1> QED BY <1>1, <1>2, <1>3, ObserverInvStep, ActivityInvStep, PTL DEF MCSpec
-----------------------------------------------------------------------------
(***************************************************************************)
(* Observations of an entity.                                               *)
(***************************************************************************)

StateInv == clock \in 0 .. MaxStateTime /\ observations \in Seq(Observation)

\* The last observation is the new one only where it is as late as the last.
LEMMA ObservedLast ==
    ASSUME observations \in Seq(Observation), NEW o \in Observation
    PROVE  /\ Observed(o) \in Seq(Observation)
           /\ observations # <<>> => Last(Observed(o)).at >= Last(observations).at
<1>1. PICK s \in Seq(Observation) : s = observations
  OBVIOUS
<1>2. PICK S : S = {i \in DOMAIN s : s[i].at <= o.at} \cup {0}
  OBVIOUS
<1>3. S \in SUBSET (0 .. Len(s)) /\ S # {} /\ Len(s) \in Nat
  BY <1>2
<1>4. PICK m \in Nat : m \in S /\ m <= Len(s) /\ \A j \in S : m >= j
  <2>1. PICK i \in S : \A j \in S : j <= i
    BY <1>3, Greatest
  <2>2. i \in Nat /\ i <= Len(s) /\ \A j \in S : j \in Nat
    BY <1>3
  <2> QED BY <2>1, <2>2
<1>5. Max(S) \in S /\ \A j \in S : Max(S) >= j
  BY <1>4, Zenon DEF Max
<1>6. m = Max(S)
  <2>1. PICK n : n = Max(S)
    OBVIOUS
  <2>2. n \in S /\ \A j \in S : n >= j
    BY <1>5, <2>1, Zenon
  <2>3. n \in Nat
    BY <1>3, <2>2
  <2>4. n >= m /\ m >= n
    BY <1>4, <2>2
  <2> QED BY <2>1, <2>3, <2>4
<1>7. Observed(o) = SubSeq(s, 1, m) \o <<o>> \o SubSeq(s, m + 1, Len(s))
  <2>1. Observed(o) = InsertAt(s, m + 1, o)
    BY <1>1, <1>2, <1>6 DEF Observed
  <2>2. (m + 1) - 1 = m
    OBVIOUS
  <2> QED BY <2>1, <2>2 DEF InsertAt
<1>8. /\ SubSeq(s, 1, m) \in Seq(Observation) /\ Len(SubSeq(s, 1, m)) = m
      /\ SubSeq(s, m + 1, Len(s)) \in Seq(Observation) /\ Len(SubSeq(s, m + 1, Len(s))) = Len(s) - m
      /\ m < Len(s) => SubSeq(s, m + 1, Len(s))[Len(s) - m] = s[Len(s)]
  BY <1>3, <1>4
<1>9. /\ Observed(o) \in Seq(Observation) /\ Len(Observed(o)) = Len(s) + 1
      /\ Observed(o)[Len(s) + 1] = IF m = Len(s) THEN o ELSE s[Len(s)]
  <2>1. PICK p \in Seq(Observation) : p = SubSeq(s, 1, m)
    BY <1>8
  <2>2. PICK q \in Seq(Observation) : q = SubSeq(s, m + 1, Len(s))
    BY <1>8
  <2>3. PICK u \in Seq(Observation) : u = <<o>>
    <3>1. <<o>> \in Seq(Observation)
      OBVIOUS
    <3> QED BY <3>1, Zenon
  <2>4. PICK r \in Seq(Observation) : r = p \o u
    BY Joined, Zenon
  <2>5. PICK v \in Seq(Observation) : v = r \o q
    BY Joined, Zenon
  <2>6. Joins(r, p, u) /\ Joins(v, r, q)
    BY <2>4, <2>5, Joined, Zenon
  <2>7. Observed(o) = v
    BY <1>7, <2>1, <2>2, <2>3, <2>4, <2>5, Zenon
  <2>8. PICK n \in Nat : n = Len(s) /\ m <= n
    BY <1>4
  <2>9. /\ Len(p) = m /\ Len(u) = 1 /\ u[1] = o /\ Len(q) = n - m
        /\ m < n => q[n - m] = s[n]
    BY <1>8, <2>1, <2>2, <2>3, <2>8
  <2>10. Len(r) = m + 1 /\ r[m + 1] = o
    BY <2>6, <2>9 DEF Joins
  <2>11. Len(v) = n + 1
    BY <2>6, <2>8, <2>9, <2>10 DEF Joins
  <2>12. m = n => v[n + 1] = o
    BY <2>6, <2>10 DEF Joins
  <2>13. m < n => v[n + 1] = s[n]
    <3>1. m < n => n - m \in 1 .. Len(q) /\ Len(r) + (n - m) = n + 1
      BY <2>9, <2>10
    <3> QED BY <2>6, <2>9, <3>1 DEF Joins
  <2> QED BY <2>7, <2>8, <2>11, <2>12, <2>13
<1>10. m = Len(s) /\ s # <<>> => s[Len(s)].at <= o.at
  BY <1>2, <1>4
<1>11. s # <<>> => s[Len(s)].at \in Int /\ o.at \in Int
  <2>1. \A x \in Observation : x.at \in Int
    BY StateAssumption DEF Observation
  <2>2. s # <<>> => s[Len(s)] \in Observation
    OBVIOUS
  <2> QED BY <2>1, <2>2
<1> QED BY <1>1, <1>9, <1>10, <1>11 DEF Last

LEMMA StateInvStep ==
    ASSUME StateInv, [StateNext]_stateVars
    PROVE  StateInv' /\ (observations # <<>> => Last(observations').at >= Last(observations).at)
<1>1. observations # <<>> => Last(observations).at \in Int
  <2>1. \A x \in Observation : x.at \in Int
    BY StateAssumption DEF Observation
  <2>2. observations # <<>> => Last(observations) \in Observation
    BY DEF StateInv, Last
  <2> QED BY <2>1, <2>2
<1>2. CASE StateClock
  BY <1>1, <1>2, StateAssumption DEF StateInv, StateClock
<1>3. CASE UNCHANGED <<clock, observations>>
  BY <1>1, <1>3 DEF StateInv
<1>4. ASSUME NEW r \in Reporters, NEW at \in 0 .. MaxStateTime, NEW v \in Values, Observe(r, at, v)
      PROVE  StateInv' /\ (observations # <<>> => Last(observations').at >= Last(observations).at)
  <2>1. PICK o \in Observation : o = [at |-> at, value |-> v, observer |-> r]
    BY DEF Observation
  <2>2. observations' = Observed(o) /\ clock' = clock
    BY <1>4, <2>1 DEF Observe
  <2> QED BY <2>2, ObservedLast DEF StateInv
<1>5. ASSUME NEW q \in StateQueries, NEW v \in Values, Rechecked(q, v)
      PROVE  StateInv' /\ (observations # <<>> => Last(observations').at >= Last(observations).at)
  <2>1. PICK o \in Observation : o = [at |-> clock, value |-> v, observer |-> Recheck]
    BY DEF StateInv, Observation
  <2>2. observations' = Observed(o) /\ clock' = clock
    BY <1>5, <2>1 DEF Rechecked
  <2> QED BY <2>2, ObservedLast DEF StateInv
<1> QED BY <1>2, <1>3, <1>4, <1>5 DEF StateNext, stateVars, Query, RecheckThrows

\* However late the reports arrive, what a query resolves to is never older than
\* what one resolved to before (state-manager.ts).
THEOREM LateNeverOverridesHolds == StateSpec => LateNeverOverrides
<1>1. StateInit => StateInv
  BY StateAssumption DEF StateInit, StateInv
<1>2. StateInv /\ [StateNext]_stateVars => StateInv'
  BY StateInvStep
<1>3. StateInv /\ [StateNext]_stateVars
        => [observations # <<>> => Last(observations').at >= Last(observations).at]_stateVars
  BY StateInvStep
<1> QED BY <1>1, <1>2, <1>3, PTL DEF StateSpec, LateNeverOverrides
-----------------------------------------------------------------------------
(***************************************************************************)
(* The focus of the desktop.                                                *)
(***************************************************************************)

\* The event that its window is closed is on its way behind the place k.
ClosesAfter(w, k) ==
    \E i \in DOMAIN windowEvents :
        i > k /\ windowEvents[i].type = "closed" /\ windowEvents[i].window = w

\* w has the focus, or none has and the end of w is still to be heard of.
SettlesTo(w, k) == w = foreground \/ (foreground = NoWindow /\ ClosesAfter(w, k))

IsFocus(i) == windowEvents[i].type = "focused"
IsEnd(i) == windowEvents[i].type = "closed"

\* The ends of windows that are on their way have come about.
EndsAreTrue == \A i \in DOMAIN windowEvents : IsEnd(i) => windowEvents[i].window \in opened \ shown

\* The last change of the focus that is on its way, or else the focus that the
\* model has, is the one of the desktop or is about to go.
Settled ==
    /\ \A i \in DOMAIN windowEvents :
          IsFocus(i) /\ (\A j \in DOMAIN windowEvents : j > i => ~ IsFocus(j))
            => SettlesTo(windowEvents[i].window, i)
    /\ (\A i \in DOMAIN windowEvents : ~ IsFocus(i)) => SettlesTo(focusState, 0)

\* Only windows of running processes are shown, which are none of those whose
\* end is on its way.
WorldInv ==
    /\ WorldTypeOK /\ IsFiniteSet(shown)
    /\ \A w \in shown : process[Owner[w]] = "running"
    /\ \A i \in DOMAIN appEvents : appEvents[i].type = "closed" => process[appEvents[i].app] = "gone"
    /\ EndsAreTrue /\ Settled

LEMMA Reported ==
    ASSUME NEW type \in {"opened", "closed", "focused", "title_changed"}, NEW ws \in Seq(Windows),
           windowEvents \in Seq(WindowEvent), Reports(type, ws)
    PROVE  /\ windowEvents' \in Seq(WindowEvent)
           /\ \A i \in DOMAIN windowEvents : i \in DOMAIN windowEvents' /\ windowEvents'[i] = windowEvents[i]
           /\ \A i \in DOMAIN windowEvents' \ DOMAIN windowEvents :
                 /\ \A j \in DOMAIN windowEvents : i > j
                 /\ i > 0 /\ windowEvents'[i].type = type /\ windowEvents'[i].window \in ToSet(ws)
           /\ \A w \in ToSet(ws) : \E i \in DOMAIN windowEvents' \ DOMAIN windowEvents :
                 windowEvents'[i].window = w
<1>1. PICK t : t = [i \in DOMAIN ws |-> [type |-> type, window |-> ws[i]]]
  OBVIOUS
<1>2. t \in Seq(WindowEvent) /\ Len(t) = Len(ws)
  <2>1. \A i \in 1 .. Len(ws) : [type |-> type, window |-> ws[i]] \in WindowEvent
    BY DEF WindowEvent
  <2> QED BY <1>1, <2>1
<1>3. windowEvents' = windowEvents \o t
  BY <1>1 DEF Reports
<1>4. PICK m \in Nat, n \in Nat :
        m = Len(windowEvents) /\ n = Len(ws) /\ DOMAIN windowEvents = 1 .. m /\ DOMAIN ws = 1 .. n
  OBVIOUS
<1>5. windowEvents' \in Seq(WindowEvent) /\ Joins(windowEvents', windowEvents, t)
  BY <1>2, <1>3, Joined, Zenon
<1>6. /\ DOMAIN windowEvents' = 1 .. m + n
      /\ \A i \in 1 .. m : windowEvents'[i] = windowEvents[i]
      /\ \A i \in 1 .. n : windowEvents'[m + i] = t[i]
  BY <1>2, <1>4, <1>5 DEF Joins
<1>7. \A i \in 1 .. n : t[i].type = type /\ t[i].window = ws[i] /\ ws[i] \in ToSet(ws)
  BY <1>1, <1>4 DEF ToSet
<1>8. ASSUME NEW i \in 1 .. m + n, i \notin 1 .. m
      PROVE  /\ \A j \in 1 .. m : i > j
             /\ i > 0 /\ windowEvents'[i].type = type /\ windowEvents'[i].window \in ToSet(ws)
  <2>1. PICK k \in 1 .. n : i = m + k
    <3>1. i - m \in 1 .. n /\ i = m + (i - m)
      BY <1>8
    <3> QED BY <3>1
  <2>2. i > 0 /\ \A j \in 1 .. m : i > j
    BY <2>1
  <2>3. windowEvents'[i] = t[k] /\ t[k].type = type /\ t[k].window \in ToSet(ws)
    BY <1>6, <1>7, <2>1, Zenon
  <2> QED BY <2>2, <2>3, Zenon
<1>9. ASSUME NEW w \in ToSet(ws)
      PROVE  \E i \in (1 .. m + n) \ (1 .. m) : windowEvents'[i].window = w
  <2>1. PICK k \in 1 .. n : w = ws[k]
    BY <1>4, <1>9 DEF ToSet
  <2>2. m + k \in (1 .. m + n) \ (1 .. m)
    OBVIOUS
  <2> QED BY <1>6, <1>7, <2>1, <2>2
<1>10. DOMAIN windowEvents = 1 .. m /\ \A i \in 1 .. m : i \in 1 .. m + n
  BY <1>4
<1> QED BY <1>5, <1>6, <1>8, <1>9, <1>10, Zenon

\* A report that is neither a focus nor an end leaves what is to be settled.
LEMMA UpdateKept ==
    ASSUME WorldTypeOK, EndsAreTrue, Settled, NEW w \in Windows, NEW type \in {"opened", "title_changed"},
           Reports(type, <<w>>), UNCHANGED <<foreground, focusState>>,
           \A v \in opened \ shown : v \in opened' \ shown'
    PROVE  windowEvents' \in Seq(WindowEvent) /\ EndsAreTrue' /\ Settled'
<1> DEFINE old == DOMAIN windowEvents
           all == DOMAIN windowEvents'
<1>1. <<w>> \in Seq(Windows) /\ windowEvents \in Seq(WindowEvent)
  BY DEF WorldTypeOK
<1>2. /\ windowEvents' \in Seq(WindowEvent)
      /\ \A i \in old : i \in all /\ windowEvents'[i] = windowEvents[i]
      /\ \A i \in all \ old : windowEvents'[i].type = type
  BY <1>1, Reported
<1> HIDE DEF old, all
<1>3. EndsAreTrue'
  BY <1>2 DEF EndsAreTrue, IsEnd, old, all
<1>4. ASSUME NEW v, NEW k, SettlesTo(v, k) PROVE SettlesTo(v, k)'
  BY <1>2, <1>4 DEF SettlesTo, ClosesAfter, old, all
<1>5. \A i \in all : IsFocus(i)' => i \in old /\ IsFocus(i)
  BY <1>2 DEF IsFocus
<1>6. \A i \in old : IsFocus(i) => IsFocus(i)'
  BY <1>2 DEF IsFocus
<1>7. ASSUME NEW i \in all, IsFocus(i)', \A j \in all : j > i => ~ IsFocus(j)'
      PROVE  SettlesTo(windowEvents[i].window, i)'
  <2>1. i \in old /\ IsFocus(i) /\ \A j \in old : j > i => ~ IsFocus(j)
    BY <1>2, <1>5, <1>6, <1>7
  <2>2. SettlesTo(windowEvents[i].window, i)
    BY <2>1 DEF Settled, old
  <2> QED BY <1>2, <1>4, <2>1, <2>2
<1>8. ASSUME \A i \in all : ~ IsFocus(i)' PROVE SettlesTo(focusState, 0)'
  <2>1. SettlesTo(focusState, 0)
    BY <1>2, <1>6, <1>8 DEF Settled, old
  <2> QED BY <1>4, <2>1
<1>9. Settled'
  BY <1>7, <1>8 DEF Settled, all
<1> QED BY <1>2, <1>3, <1>9

\* Windows that vanish are followed by the reports of their ends.
LEMMA VanishKept ==
    ASSUME WorldTypeOK, EndsAreTrue, Settled, NEW ws \in Seq(Windows), ToSet(ws) \subseteq shown,
           Vanish(ws), UNCHANGED <<opened, focusState>>
    PROVE  windowEvents' \in Seq(WindowEvent) /\ EndsAreTrue' /\ Settled'
<1> DEFINE old == DOMAIN windowEvents
           all == DOMAIN windowEvents'
<1>1. windowEvents \in Seq(WindowEvent) /\ Reports("closed", ws)
  BY DEF WorldTypeOK, Vanish
<1>2. /\ windowEvents' \in Seq(WindowEvent)
      /\ \A i \in old : i \in all /\ windowEvents'[i] = windowEvents[i]
      /\ \A i \in all \ old :
            /\ \A j \in old : i > j
            /\ i > 0 /\ windowEvents'[i].type = "closed" /\ windowEvents'[i].window \in ToSet(ws)
      /\ \A w \in ToSet(ws) : \E i \in all \ old : windowEvents'[i].window = w
  BY <1>1, Reported
<1> HIDE DEF old, all
<1>3. EndsAreTrue'
  <2>1. \A i \in old : windowEvents'[i].type = "closed" => windowEvents'[i].window \in opened \ shown
    BY <1>2 DEF EndsAreTrue, IsEnd, old
  <2>2. shown' = shown \ ToSet(ws) /\ shown \subseteq opened
    BY DEF Vanish, WorldTypeOK
  <2> QED BY <1>2, <2>1, <2>2 DEF EndsAreTrue, IsEnd, all
<1>4. ASSUME NEW v, NEW k \in old \cup {0}, SettlesTo(v, k) PROVE SettlesTo(v, k)'
  <2>1. CASE ClosesAfter(v, k) /\ foreground = NoWindow
    <3>1. NoWindow \notin ToSet(ws)
      BY WorldAssumption DEF WorldTypeOK
    <3>2. foreground' = NoWindow
      BY <2>1, <3>1 DEF Vanish
    <3>3. ClosesAfter(v, k)'
      BY <1>2, <2>1 DEF ClosesAfter, old, all
    <3> QED BY <3>2, <3>3 DEF SettlesTo
  <2>2. CASE v = foreground /\ foreground \in ToSet(ws)
    <3>1. foreground' = NoWindow
      BY <2>2 DEF Vanish
    <3>2. PICK i \in all \ old : windowEvents'[i].window = v
      BY <1>2, <2>2
    <3>3. i > k /\ windowEvents'[i].type = "closed"
      BY <1>2, <1>4
    <3>4. ClosesAfter(v, k)'
      BY <3>2, <3>3 DEF ClosesAfter, all
    <3> QED BY <3>1, <3>4 DEF SettlesTo
  <2>3. CASE v = foreground /\ foreground \notin ToSet(ws)
    BY <2>3 DEF Vanish, SettlesTo
  <2> QED BY <1>4, <2>1, <2>2, <2>3 DEF SettlesTo
<1>5. \A i \in all : IsFocus(i)' => i \in old /\ IsFocus(i)
  BY <1>2 DEF IsFocus
<1>6. \A i \in old : IsFocus(i) => IsFocus(i)'
  BY <1>2 DEF IsFocus
<1>7. ASSUME NEW i \in all, IsFocus(i)', \A j \in all : j > i => ~ IsFocus(j)'
      PROVE  SettlesTo(windowEvents[i].window, i)'
  <2>1. i \in old /\ IsFocus(i) /\ \A j \in old : j > i => ~ IsFocus(j)
    BY <1>2, <1>5, <1>6, <1>7
  <2>2. SettlesTo(windowEvents[i].window, i)
    BY <2>1 DEF Settled, old
  <2> QED BY <1>2, <1>4, <2>1, <2>2
<1>8. ASSUME \A i \in all : ~ IsFocus(i)' PROVE SettlesTo(focusState, 0)'
  <2>1. SettlesTo(focusState, 0)
    BY <1>2, <1>6, <1>8 DEF Settled, old
  <2> QED BY <1>4, <2>1
<1>9. Settled'
  BY <1>7, <1>8 DEF Settled, all
<1> QED BY <1>2, <1>3, <1>9

\* The report of a focus is the last of its kind, and the desktop's.
LEMMA FocusKeeps ==
    ASSUME WorldTypeOK, EndsAreTrue, Settled, NEW w \in Windows, Focus(w)
    PROVE  windowEvents' \in Seq(WindowEvent) /\ EndsAreTrue' /\ Settled'
<1> DEFINE old == DOMAIN windowEvents
           all == DOMAIN windowEvents'
<1>1. <<w>> \in Seq(Windows) /\ windowEvents \in Seq(WindowEvent) /\ Reports("focused", <<w>>)
  BY DEF WorldTypeOK, Focus
<1>2. /\ windowEvents' \in Seq(WindowEvent)
      /\ \A i \in old : i \in all /\ windowEvents'[i] = windowEvents[i]
      /\ \A i \in all \ old :
            /\ \A j \in old : i > j
            /\ windowEvents'[i].type = "focused" /\ windowEvents'[i].window \in ToSet(<<w>>)
      /\ \A v \in ToSet(<<w>>) : \E i \in all \ old : windowEvents'[i].window = v
  BY <1>1, Reported
<1>3. ToSet(<<w>>) = {w}
  BY DEF ToSet
<1> HIDE DEF old, all
<1>4. EndsAreTrue'
  BY <1>2 DEF EndsAreTrue, IsEnd, Focus, old, all
<1>5. PICK last \in all \ old : windowEvents'[last].window = w
  BY <1>2, <1>3
<1>6. IsFocus(last)'
  BY <1>2 DEF IsFocus
<1>7. ASSUME NEW i \in all, IsFocus(i)', \A j \in all : j > i => ~ IsFocus(j)'
      PROVE  SettlesTo(windowEvents[i].window, i)'
  <2>1. i \notin old
    BY <1>2, <1>5, <1>6, <1>7
  <2>2. windowEvents'[i].window = w
    BY <1>2, <1>3, <2>1
  <2> QED BY <2>2 DEF SettlesTo, Focus
<1>8. Settled'
  BY <1>5, <1>6, <1>7 DEF Settled, all
<1> QED BY <1>2, <1>4, <1>8

\* The report at the head was consumed: the rest move one place ahead.
LEMMA WindowConsumed ==
    ASSUME WorldInv, ConsumeWindow
    PROVE  windowEvents' \in Seq(WindowEvent) /\ EndsAreTrue' /\ Settled'
<1>1. PICK q \in Seq(WindowEvent) : q = windowEvents /\ q # <<>>
  BY DEF WorldInv, WorldTypeOK, ConsumeWindow
<1>2. PICK n \in Nat : n = Len(q) /\ n >= 1
  BY <1>1
<1>3. /\ windowEvents' \in Seq(WindowEvent)
      /\ DOMAIN windowEvents = 1 .. n /\ DOMAIN windowEvents' = 1 .. n - 1
      /\ \A i \in 1 .. n - 1 : windowEvents'[i] = q[i + 1]
  BY <1>1, <1>2 DEF ConsumeWindow
<1>4. PICK e \in WindowEvent : e = q[1] /\ e = Head(windowEvents)
  BY <1>1, <1>2
<1>5. focusState' = FocusAfter(e) /\ UNCHANGED <<foreground, shown, opened>>
  BY <1>4 DEF ConsumeWindow
<1>6. \A i \in 1 .. n - 1 : i + 1 \in 1 .. n
  BY <1>2
<1>7. EndsAreTrue /\ Settled
  BY DEF WorldInv
<1>8. EndsAreTrue'
  BY <1>1, <1>3, <1>5, <1>6, <1>7 DEF EndsAreTrue, IsEnd
<1>9. ASSUME NEW v, NEW k \in 0 .. n - 1, SettlesTo(v, k + 1) PROVE SettlesTo(v, k)'
  <2>1. CASE v = foreground
    BY <1>5, <2>1 DEF SettlesTo
  <2>2. CASE foreground = NoWindow /\ ClosesAfter(v, k + 1)
    <3>1. PICK i \in 1 .. n : i > k + 1 /\ q[i].type = "closed" /\ q[i].window = v
      BY <1>1, <1>3, <2>2 DEF ClosesAfter
    <3>2. i - 1 \in 1 .. n - 1 /\ i - 1 > k /\ (i - 1) + 1 = i
      BY <3>1
    <3>3. windowEvents'[i - 1] = q[i]
      BY <1>3, <3>2
    <3>4. ClosesAfter(v, k)'
      BY <1>3, <3>1, <3>2, <3>3 DEF ClosesAfter
    <3> QED BY <1>5, <2>2, <3>4 DEF SettlesTo
  <2> QED BY <1>9, <2>1, <2>2 DEF SettlesTo
<1>10. \A i \in 1 .. n - 1 : IsFocus(i)' <=> IsFocus(i + 1)
  BY <1>1, <1>3 DEF IsFocus
<1>11. ASSUME NEW i \in 1 .. n - 1, IsFocus(i)', \A j \in 1 .. n - 1 : j > i => ~ IsFocus(j)'
       PROVE  SettlesTo(windowEvents[i].window, i)'
  <2>1. ASSUME NEW j \in 1 .. n, j > i + 1 PROVE ~ IsFocus(j)
    <3>1. j - 1 \in 1 .. n - 1 /\ j - 1 > i /\ (j - 1) + 1 = j
      BY <2>1
    <3> QED BY <1>10, <1>11, <3>1
  <2>2. i + 1 \in 1 .. n /\ IsFocus(i + 1)
    BY <1>6, <1>10, <1>11
  <2>3. SettlesTo(windowEvents[i + 1].window, i + 1)
    BY <1>3, <1>7, <2>1, <2>2 DEF Settled
  <2>4. i \in 0 .. n - 1
    OBVIOUS
  <2> QED BY <1>1, <1>3, <1>9, <2>3, <2>4
<1>12. ASSUME \A i \in 1 .. n - 1 : ~ IsFocus(i)'
       PROVE  SettlesTo(focusState, 0)'
  <2>1. ASSUME NEW j \in 1 .. n, j > 1 PROVE ~ IsFocus(j)
    <3>1. j - 1 \in 1 .. n - 1 /\ (j - 1) + 1 = j
      BY <2>1
    <3> QED BY <1>10, <1>12, <3>1
  <2>2. 0 \in 0 .. n - 1 /\ 0 + 1 = 1 /\ 1 \in 1 .. n
    BY <1>2
  <2>3. CASE IsFocus(1)
    <3>1. SettlesTo(windowEvents[1].window, 1)
      BY <1>3, <1>7, <2>1, <2>2, <2>3 DEF Settled
    <3>2. PICK v : v = windowEvents[1].window /\ v = focusState'
      BY <1>1, <1>4, <1>5, <2>3 DEF IsFocus, FocusAfter
    <3>3. SettlesTo(v, 0)'
      BY <1>9, <2>2, <3>1, <3>2
    <3> QED BY <3>2, <3>3 DEF SettlesTo, ClosesAfter
  <2>4. CASE ~ IsFocus(1)
    <3>1. SettlesTo(focusState, 0)
      <4>1. \A j \in 1 .. n : j > 1 \/ j = 1
        OBVIOUS
      <4> QED BY <1>3, <1>7, <2>1, <2>4, <4>1 DEF Settled
    <3>2. CASE e.type = "closed" /\ e.window = focusState
      <4>1. focusState' = NoWindow
        BY <1>5, <3>2 DEF FocusAfter
      <4>2. e.window \notin shown /\ e.window # NoWindow
        BY <1>1, <1>3, <1>4, <1>7, <2>2, <3>2, WorldAssumption DEF EndsAreTrue, IsEnd, WindowEvent
      <4>3. foreground \in shown \cup {NoWindow}
        BY DEF WorldInv, WorldTypeOK
      <4>4. foreground = NoWindow
        BY <3>1, <3>2, <4>2, <4>3 DEF SettlesTo
      <4> QED BY <1>5, <4>1, <4>4 DEF SettlesTo
    <3>3. CASE ~ (e.type = "closed" /\ e.window = focusState)
      <4>1. PICK v : v = focusState /\ v = focusState'
        BY <1>1, <1>4, <1>5, <2>4, <3>3 DEF FocusAfter, IsFocus
      <4>2. CASE focusState = foreground
        BY <1>5, <4>1, <4>2 DEF SettlesTo
      <4>3. CASE foreground = NoWindow /\ ClosesAfter(focusState, 0)
        <5>1. PICK i \in 1 .. n : q[i].type = "closed" /\ q[i].window = focusState
          BY <1>1, <1>3, <4>3 DEF ClosesAfter
        <5>2. i > 1
          <6>1. i # 1
            BY <1>4, <3>3, <5>1
          <6> QED BY <6>1
        <5>3. SettlesTo(v, 1)
          BY <1>1, <1>3, <4>1, <4>3, <5>1, <5>2 DEF SettlesTo, ClosesAfter
        <5>4. SettlesTo(v, 0)'
          BY <1>9, <2>2, <5>3
        <5> QED BY <4>1, <5>4 DEF SettlesTo, ClosesAfter
      <4> QED BY <3>1, <4>2, <4>3 DEF SettlesTo
    <3> QED BY <3>2, <3>3
  <2> QED BY <2>3, <2>4
<1>13. Settled'
  BY <1>3, <1>11, <1>12 DEF Settled
<1> QED BY <1>3, <1>8, <1>13

LEMMA AppConsumed ==
    ASSUME WorldInv, ConsumeApp
    PROVE  WorldInv'
<1>1. PICK q \in Seq(AppEvent) : q = appEvents /\ q # <<>>
  BY DEF WorldInv, WorldTypeOK, ConsumeApp
<1>2. PICK n \in Nat : n = Len(q) /\ n >= 1
  BY <1>1
<1>3. /\ appEvents' \in Seq(AppEvent)
      /\ DOMAIN appEvents = 1 .. n /\ DOMAIN appEvents' = 1 .. n - 1
      /\ \A i \in 1 .. n - 1 : appEvents'[i] = q[i + 1]
  BY <1>1, <1>2 DEF ConsumeApp
<1>4. PICK e \in AppEvent : e = q[1] /\ e = Head(appEvents)
  BY <1>1, <1>2
<1>5. UNCHANGED <<process, shown, opened, foreground, windowEvents>>
  BY DEF ConsumeApp
<1>6. /\ applications' \in {applications \cup {e.app}, applications \ {e.app}}
      /\ \/ focusState' = focusState
         \/ /\ e.type = "closed" /\ focusState # NoWindow /\ Owner[focusState] = e.app
            /\ focusState' = NoWindow
  BY <1>4 DEF ConsumeApp
<1>7. WorldTypeOK'
  <2>1. applications' \subseteq Apps
    BY <1>4, <1>6 DEF WorldInv, WorldTypeOK, AppEvent
  <2> QED BY <1>3, <1>5, <1>6, <2>1 DEF WorldInv, WorldTypeOK
<1>8. (\A i \in DOMAIN appEvents : appEvents[i].type = "closed" => process[appEvents[i].app] = "gone")'
  <2>1. \A i \in 1 .. n - 1 : i + 1 \in 1 .. n
    BY <1>2
  <2> QED BY <1>1, <1>3, <1>5, <2>1 DEF WorldInv
<1>9. EndsAreTrue'
  BY <1>5 DEF WorldInv, EndsAreTrue, IsEnd
<1>10. SettlesTo(focusState, 0) => SettlesTo(focusState, 0)'
  <2>1. CASE focusState' = focusState
    BY <1>5, <2>1 DEF SettlesTo, ClosesAfter
  <2>2. CASE e.type = "closed" /\ focusState # NoWindow /\ Owner[focusState] = e.app /\ focusState' = NoWindow
    <3>1. process[e.app] = "gone"
      BY <1>1, <1>2, <1>3, <1>4, <2>2 DEF WorldInv
    <3>2. focusState \notin shown
      BY <2>2, <3>1 DEF WorldInv
    <3>3. foreground \in shown \cup {NoWindow}
      BY DEF WorldInv, WorldTypeOK
    <3> QED BY <1>5, <2>2, <3>2, <3>3 DEF SettlesTo
  <2> QED BY <1>6, <2>1, <2>2
<1>11. \A i, v : SettlesTo(v, i) => SettlesTo(v, i)'
  BY <1>5 DEF SettlesTo, ClosesAfter
<1>12. Settled'
  BY <1>5, <1>10, <1>11 DEF WorldInv, Settled, IsFocus
<1> QED BY <1>5, <1>7, <1>8, <1>9, <1>12 DEF WorldInv

LEMMA WorldInvStep == WorldInv /\ [WorldNext]_worldVars => WorldInv'
<1> SUFFICES ASSUME WorldInv, [WorldNext]_worldVars PROVE WorldInv'
  OBVIOUS
<1> DEFINE Ended == \A i \in DOMAIN appEvents :
                       appEvents[i].type = "closed" => process[appEvents[i].app] = "gone"
<1>t. WorldTypeOK /\ EndsAreTrue /\ Settled /\ Ended /\ IsFiniteSet(shown)
      /\ \A w \in shown : process[Owner[w]] = "running"
  BY DEF WorldInv
<1> HIDE DEF Ended
<1>1. CASE UNCHANGED worldVars
  BY <1>1 DEF worldVars, WorldInv, WorldTypeOK, EndsAreTrue, IsEnd, Settled, SettlesTo, ClosesAfter, IsFocus
<1>2. CASE ConsumeApp
  BY <1>2, AppConsumed
<1>3. CASE ConsumeWindow
  <2>1. windowEvents' \in Seq(WindowEvent) /\ EndsAreTrue' /\ Settled'
    BY <1>3, WindowConsumed
  <2>2. PICK e \in WindowEvent : e = Head(windowEvents)
    BY <1>t, <1>3 DEF WorldTypeOK, ConsumeWindow
  <2>3. applications' = applications \cup {Owner[e.window]} /\ focusState' = FocusAfter(e)
    BY <1>3, <2>2 DEF ConsumeWindow
  <2>4. e.window \in Windows /\ Owner[e.window] \in Apps
    BY <2>2, WorldAssumption DEF WindowEvent
  <2>5. focusState' \in Windows \cup {NoWindow}
    BY <1>t, <2>3, <2>4 DEF FocusAfter, WorldTypeOK
  <2>6. WorldTypeOK'
    BY <1>t, <1>3, <2>1, <2>3, <2>4, <2>5 DEF WorldTypeOK, ConsumeWindow
  <2>7. Ended' /\ UNCHANGED <<shown, process>>
    BY <1>t, <1>3 DEF Ended, ConsumeWindow
  <2> QED BY <1>t, <2>1, <2>6, <2>7 DEF WorldInv, Ended
<1>4. ASSUME NEW a \in Apps, Launch(a) PROVE WorldInv'
  <2>1. appEvents \in Seq(AppEvent) /\ [type |-> "launched", app |-> a] \in AppEvent
    BY <1>t DEF WorldTypeOK, AppEvent
  <2>2. WorldTypeOK'
    BY <1>t, <1>4, <2>1 DEF WorldTypeOK, Launch
  <2>3. Ended'
    BY <1>t, <1>4, <2>1 DEF Ended, Launch, WorldTypeOK, AppEvent
  <2>4. EndsAreTrue' /\ Settled'
    BY <1>t, <1>4 DEF Launch, EndsAreTrue, IsEnd, Settled, SettlesTo, ClosesAfter, IsFocus
  <2>5. (\A w \in shown : process[Owner[w]] = "running")'
    BY <1>t, <1>4 DEF Launch, WorldTypeOK
  <2>6. IsFiniteSet(shown)'
    BY <1>t, <1>4 DEF Launch
  <2> QED BY <2>2, <2>3, <2>4, <2>5, <2>6 DEF WorldInv, Ended
<1>5. ASSUME NEW a \in Apps, Exit(a) PROVE WorldInv'
  <2>1. appEvents \in Seq(AppEvent) /\ [type |-> "closed", app |-> a] \in AppEvent
    BY <1>t DEF WorldTypeOK, AppEvent
  <2>2. PICK gone : gone = {w \in shown : Owner[w] = a}
    OBVIOUS
  <2>3. IsFiniteSet(gone) /\ gone \subseteq shown
    BY <1>t, <2>2, FS_Subset
  <2>4. PICK ws \in Seq(gone) : ws = SetToSeq(gone) /\ ToSet(ws) = gone
    BY <2>3, ListedSet
  <2>5. Vanish(ws) /\ UNCHANGED <<opened, applications, focusState>>
    BY <1>5, <2>2, <2>4 DEF Exit
  <2>6. ws \in Seq(Windows)
    <3>1. gone \subseteq Windows
      BY <1>t, <2>3 DEF WorldTypeOK
    <3> QED BY <3>1
  <2>7. windowEvents' \in Seq(WindowEvent) /\ EndsAreTrue' /\ Settled'
    BY <1>t, <2>3, <2>4, <2>5, <2>6, VanishKept
  <2>8. shown' = shown \ gone /\ foreground' = IF foreground \in gone THEN NoWindow ELSE foreground
    BY <2>4, <2>5 DEF Vanish
  <2>9. appEvents' \in Seq(AppEvent)
    BY <1>5, <2>1 DEF Exit
  <2>10. process' = [process EXCEPT ![a] = "gone"]
    BY <1>5 DEF Exit
  <2>11. WorldTypeOK'
    BY <1>t, <2>5, <2>7, <2>8, <2>9, <2>10 DEF WorldTypeOK
  <2>12. Ended'
    BY <1>t, <1>5, <2>1, <2>10 DEF Ended, Exit, WorldTypeOK, AppEvent
  <2>13. (\A w \in shown : process[Owner[w]] = "running")'
    BY <1>t, <2>2, <2>8, <2>10, WorldAssumption DEF WorldTypeOK
  <2>14. IsFiniteSet(shown)'
    BY <1>t, <2>8, FS_Subset
  <2> QED BY <2>7, <2>11, <2>12, <2>13, <2>14 DEF WorldInv, Ended
<1>6. ASSUME NEW w \in Windows, Open(w) PROVE WorldInv'
  <2>1. windowEvents' \in Seq(WindowEvent) /\ EndsAreTrue' /\ Settled'
    BY <1>t, <1>6, UpdateKept DEF Open, WorldTypeOK
  <2>2. WorldTypeOK'
    BY <1>t, <1>6, <2>1 DEF WorldTypeOK, Open
  <2>3. IsFiniteSet(shown)'
    BY <1>t, <1>6, FS_AddElement DEF Open
  <2>4. Ended' /\ (\A v \in shown : process[Owner[v]] = "running")'
    BY <1>t, <1>6 DEF Ended, Open
  <2> QED BY <2>1, <2>2, <2>3, <2>4 DEF WorldInv, Ended
<1>7. ASSUME NEW w \in Windows, Focus(w) PROVE WorldInv'
  <2>1. windowEvents' \in Seq(WindowEvent) /\ EndsAreTrue' /\ Settled'
    BY <1>t, <1>7, FocusKeeps
  <2>2. WorldTypeOK'
    BY <1>t, <1>7, <2>1 DEF WorldTypeOK, Focus
  <2>3. Ended' /\ (\A v \in shown : process[Owner[v]] = "running")' /\ IsFiniteSet(shown)'
    BY <1>t, <1>7 DEF Ended, Focus
  <2> QED BY <2>1, <2>2, <2>3 DEF WorldInv, Ended
<1>8. ASSUME NEW w \in Windows, Rename(w) PROVE WorldInv'
  <2>1. windowEvents' \in Seq(WindowEvent) /\ EndsAreTrue' /\ Settled'
    BY <1>t, <1>8, UpdateKept DEF Rename
  <2>2. WorldTypeOK'
    BY <1>t, <1>8, <2>1 DEF WorldTypeOK, Rename
  <2>3. Ended' /\ (\A v \in shown : process[Owner[v]] = "running")' /\ IsFiniteSet(shown)'
    BY <1>t, <1>8 DEF Ended, Rename
  <2> QED BY <2>1, <2>2, <2>3 DEF WorldInv, Ended
<1>9. ASSUME NEW w \in Windows, Close(w) PROVE WorldInv'
  <2> DEFINE one == <<w>>
  <2>0. one \in Seq(Windows) /\ DOMAIN one = {1} /\ one[1] = w
    OBVIOUS
  <2>1. PICK ws \in Seq(Windows) : ws = <<w>> /\ ToSet(ws) = {w}
    BY <2>0 DEF ToSet
  <2>2. Vanish(ws) /\ w \in shown /\ UNCHANGED <<process, opened, appEvents, applications, focusState>>
    BY <1>9, <2>1 DEF Close
  <2>3. windowEvents' \in Seq(WindowEvent) /\ EndsAreTrue' /\ Settled'
    BY <1>t, <2>1, <2>2, VanishKept
  <2>4. shown' = shown \ {w} /\ foreground' = IF foreground \in {w} THEN NoWindow ELSE foreground
    BY <2>1, <2>2 DEF Vanish
  <2>5. WorldTypeOK'
    BY <1>t, <2>2, <2>3, <2>4 DEF WorldTypeOK
  <2>6. IsFiniteSet(shown)'
    BY <1>t, <2>4, FS_Subset
  <2>7. Ended' /\ (\A v \in shown : process[Owner[v]] = "running")'
    BY <1>t, <2>2, <2>4 DEF Ended
  <2> QED BY <2>3, <2>5, <2>6, <2>7 DEF WorldInv, Ended
<1> QED BY <1>1, <1>2, <1>3, <1>4, <1>5, <1>6, <1>7, <1>8, <1>9 DEF WorldNext

\* However the reports of windows and of processes overtake each other, the
\* model that has heard them all has the focus of the desktop (world-model.ts).
THEOREM FocusIsTrueHolds == WorldSpec => []FocusIsTrue
<1>1. WorldInit => WorldInv
  BY FS_EmptySet DEF WorldInit, WorldInv, WorldTypeOK, EndsAreTrue, Settled, SettlesTo, ClosesAfter, WindowEvent, AppEvent
<1>2. WorldInv /\ [WorldNext]_worldVars => WorldInv'
  BY WorldInvStep
<1>3. WorldInv => FocusIsTrue
  BY DEF WorldInv, WorldTypeOK, Settled, SettlesTo, ClosesAfter, FocusIsTrue, Delivered
<1> QED BY <1>1, <1>2, <1>3, PTL DEF WorldSpec
-----------------------------------------------------------------------------
(***************************************************************************)
(* The server of a named pipe.                                              *)
(***************************************************************************)

Present == ToSet(AtStart) \cap ToSet(subscribed)

Treated(f, s) == Frames[f] \in processed[s] \/ <<s, f>> \in deadLetters

\* A dispatch has treated those that it visited, but for the one it awaits. When
\* the set of the topic was dropped, no subscriber from the start is left.
PipeInv ==
    /\ subscribed \in Seq(PipeSubscribers) /\ arrived \in Nat
    /\ dispatching \in [FrameIds -> Dispatch]
    /\ processed \in [PipeSubscribers -> SUBSET ToSet(Frames)]
    /\ \A f \in FrameIds :
          /\ Awaiting(f) => dispatching[f].awaits \in PipeSubscribers
          /\ dispatching[f].at = "orphaned" => Present = {}
          /\ \A s \in Present :
                dispatching[f].at = "done" \/ s \in dispatching[f].visited \ {dispatching[f].awaits}
                   => Treated(f, s)

LEMMA PipeInvInit == PipeInit => PipeInv
<1> SUFFICES ASSUME PipeInit PROVE PipeInv
  OBVIOUS
<1>1. Waiting \in Dispatch /\ Waiting.at = "unread" /\ Waiting.visited = {}
  BY DEF Waiting, Dispatch
<1>2. subscribed \in Seq(PipeSubscribers)
  BY PipeAssumption DEF PipeInit
<1> QED BY <1>1, <1>2 DEF PipeInit, PipeInv, Awaiting

\* The dispatch goes on from one that it has treated.
LEMMA ProceedsStep ==
    ASSUME PipeInv, NEW f \in FrameIds, NEW visited \in SUBSET PipeSubscribers,
           processed' \in [PipeSubscribers -> SUBSET ToSet(Frames)], arrived' \in Nat,
           Proceeds(f, visited, processed'), UNCHANGED subscribed,
           deadLetters \subseteq deadLetters', \A s \in PipeSubscribers : processed[s] \subseteq processed'[s],
           \A s \in Present \cap visited : Treated(f, s)'
    PROVE  PipeInv'
<1>1. PICK next : next = {s \in PipeSubscribers : s \notin visited /\ Frames[f] \notin processed'[s]}
  OBVIOUS
<1>2. PICK rest : rest = IF dispatching[f].at = "orphaned" THEN << >> ELSE Kept(subscribed, next)
  OBVIOUS
<1>3. /\ rest # << >> => Head(rest) \in PipeSubscribers
      /\ rest = << >> => \A s \in Present : s \notin next
  <2>1. subscribed \in Seq(PipeSubscribers)
    BY DEF PipeInv
  <2>2. CASE dispatching[f].at = "orphaned"
    BY <1>2, <2>2 DEF PipeInv
  <2>3. CASE dispatching[f].at # "orphaned"
    <3>1. /\ rest # << >> => Head(rest) \in ToSet(subscribed) \cap next
          /\ rest = << >> <=> ToSet(subscribed) \cap next = {}
      BY <1>2, <2>1, <2>3, FirstKept, Zenon
    <3>2. next \subseteq PipeSubscribers
      BY <1>1
    <3> QED BY <3>1, <3>2 DEF Present
  <2> QED BY <2>2, <2>3
<1>4. PICK d \in Dispatch :
         /\ dispatching' = [dispatching EXCEPT ![f] = d]
         /\ d.at \in {"dispatching", "done"}
         /\ d.at = "done" => d.visited = visited /\ rest = << >>
         /\ d.at = "dispatching" => d.awaits \in PipeSubscribers /\ d.visited = visited \cup {d.awaits}
  <2>1. CASE rest = << >>
    <3>1. PICK d : d = [at |-> "done", visited |-> visited, awaits |-> NotThere]
      OBVIOUS
    <3>2. dispatching' = [dispatching EXCEPT ![f] = d]
      BY <1>1, <1>2, <2>1, <3>1 DEF Proceeds
    <3>3. d \in Dispatch /\ d.at = "done" /\ d.visited = visited
      BY <3>1 DEF Dispatch
    <3> QED BY <2>1, <3>2, <3>3
  <2>2. CASE rest # << >>
    <3>1. PICK h \in PipeSubscribers : h = Head(rest)
      BY <1>3, <2>2
    <3>2. PICK d : d = [at |-> "dispatching", visited |-> visited \cup {h}, awaits |-> h]
      OBVIOUS
    <3>3. dispatching' = [dispatching EXCEPT ![f] = d]
      BY <1>1, <1>2, <2>2, <3>1, <3>2 DEF Proceeds
    <3>4. d \in Dispatch /\ d.at = "dispatching" /\ d.visited = visited \cup {h} /\ d.awaits = h
      BY <3>2 DEF Dispatch
    <3> QED BY <3>3, <3>4
  <2> QED BY <2>1, <2>2
<1>5. dispatching \in [FrameIds -> Dispatch] /\ subscribed' \in Seq(PipeSubscribers) /\ Present' = Present
  BY DEF PipeInv, Present
<1>6. /\ dispatching' \in [FrameIds -> Dispatch] /\ dispatching'[f] = d
      /\ \A g \in FrameIds \ {f} : dispatching'[g] = dispatching[g]
  BY <1>4, <1>5
<1>7. Present \subseteq PipeSubscribers
  BY DEF Present, PipeInv, ToSet
<1>8. \A g \in FrameIds, s \in Present : Treated(g, s) => Treated(g, s)'
  BY <1>7 DEF Treated
<1>9. \A s \in Present : d.at = "done" => Treated(f, s)'
  BY <1>1, <1>3, <1>4, <1>7 DEF Treated
<1>10. \A s \in Present : d.at = "dispatching" /\ s \in d.visited \ {d.awaits} => Treated(f, s)'
  BY <1>4
<1>11. ASSUME NEW g \in FrameIds
       PROVE  /\ Awaiting(g)' => dispatching'[g].awaits \in PipeSubscribers
              /\ dispatching'[g].at = "orphaned" => Present = {}
              /\ \A s \in Present :
                    dispatching'[g].at = "done" \/ s \in dispatching'[g].visited \ {dispatching'[g].awaits}
                       => Treated(g, s)'
  <2>1. CASE g = f
    BY <1>4, <1>6, <1>9, <1>10, <2>1 DEF Awaiting
  <2>2. CASE g # f
    BY <1>6, <1>8, <2>2 DEF Awaiting, PipeInv
  <2> QED BY <2>1, <2>2
<1> QED BY <1>5, <1>6, <1>11 DEF PipeInv

LEMMA PipeInvStep == PipeInv /\ [PipeNext]_pipeVars => PipeInv'
<1> SUFFICES ASSUME PipeInv, [PipeNext]_pipeVars PROVE PipeInv'
  OBVIOUS
<1>1. CASE UNCHANGED pipeVars
  BY <1>1 DEF pipeVars, PipeInv, Awaiting, Present, Treated
<1>2. CASE ReadFrame
  <2>1. arrived + 1 \in FrameIds /\ arrived + 1 \in Nat
    BY <1>2, PipeAssumption DEF ReadFrame, FrameIds, PipeInv
  <2> QED BY <1>2, <2>1, ProceedsStep DEF ReadFrame, PipeInv
<1>3. ASSUME NEW f \in FrameIds, Handled(f)
      PROVE  PipeInv'
  <2>1. PICK h \in PipeSubscribers, visited \in SUBSET PipeSubscribers :
           h = dispatching[f].awaits /\ visited = dispatching[f].visited
    BY <1>3 DEF Handled, PipeInv, Dispatch
  <2>2. PICK done : done = [processed EXCEPT ![h] = @ \cup {Frames[f]}]
    OBVIOUS
  <2>3. /\ processed' = done /\ Proceeds(f, visited, done)
        /\ UNCHANGED <<subscribed, arrived, deadLetters>>
    BY <1>3, <2>1, <2>2 DEF Handled
  <2>4. Frames[f] \in ToSet(Frames)
    BY DEF FrameIds, ToSet
  <2>5. /\ done \in [PipeSubscribers -> SUBSET ToSet(Frames)] /\ Frames[f] \in done[h]
        /\ \A s \in PipeSubscribers : processed[s] \subseteq done[s]
    BY <2>2, <2>4 DEF PipeInv
  <2>6. ASSUME NEW s \in Present \cap visited PROVE Treated(f, s)'
    <3>1. CASE s = h
      BY <2>3, <2>5, <3>1 DEF Treated
    <3>2. CASE s # h
      <4>1. Treated(f, s)
        BY <2>1, <3>2 DEF PipeInv
      <4> QED BY <2>3, <2>5, <4>1 DEF Treated
    <3> QED BY <3>1, <3>2
  <2>7. Proceeds(f, visited, processed')
    BY <2>3, Zenon
  <2> QED BY <2>3, <2>5, <2>6, <2>7, ProceedsStep DEF PipeInv
<1>4. ASSUME NEW f \in FrameIds, HandlerThrows(f)
      PROVE  PipeInv'
  <2>1. PICK h \in PipeSubscribers, visited \in SUBSET PipeSubscribers :
           h = dispatching[f].awaits /\ visited = dispatching[f].visited
    BY <1>4 DEF HandlerThrows, PipeInv, Dispatch
  <2>2. /\ deadLetters' = deadLetters \cup {<<h, f>>} /\ Proceeds(f, visited, processed)
        /\ UNCHANGED <<subscribed, arrived, processed>>
    BY <1>4, <2>1 DEF HandlerThrows
  <2>3. ASSUME NEW s \in Present \cap visited PROVE Treated(f, s)'
    BY <2>1, <2>2 DEF PipeInv, Treated
  <2>4. Proceeds(f, visited, processed')
    BY <2>2, Zenon
  <2> QED BY <2>2, <2>3, <2>4, ProceedsStep DEF PipeInv
<1>5. ASSUME NEW s \in PipeSubscribers, SubscribePipe(s)
      PROVE  PipeInv'
  <2>1. PICK w \in Seq(PipeSubscribers) : w = subscribed
    BY DEF PipeInv
  <2>2. PICK u \in Seq(PipeSubscribers) : u = Append(subscribed, s) /\ ToSet(u) = ToSet(subscribed) \cup {s}
    BY <2>1, OneAdded, Zenon
  <2>3. Present' = Present /\ subscribed' \in Seq(PipeSubscribers)
    BY <1>5, <2>2 DEF SubscribePipe, Present
  <2> QED BY <1>5, <2>3 DEF SubscribePipe, PipeInv, Awaiting, Treated
<1>6. ASSUME NEW s \in PipeSubscribers, UnsubscribePipe(s)
      PROVE  PipeInv'
  <2>1. PICK u \in Seq(PipeSubscribers) :
           u = Kept(subscribed, PipeSubscribers \ {s}) /\ ToSet(u) = ToSet(subscribed) \cap (PipeSubscribers \ {s})
    BY KeptSet DEF PipeInv
  <2>2. subscribed' = u /\ Present' \subseteq Present /\ (u = << >> => Present' = {})
    <3>1. subscribed' = u
      BY <1>6, <2>1 DEF UnsubscribePipe
    <3>2. u = << >> => ToSet(u) = {}
      BY DEF ToSet
    <3>3. Present' = ToSet(AtStart) \cap ToSet(u)
      BY <3>1 DEF Present
    <3> QED BY <2>1, <3>1, <3>2, <3>3 DEF Present
  <2>3. PICK ds : ds = [f \in FrameIds |->
             IF u = << >> /\ Awaiting(f) THEN [dispatching[f] EXCEPT !.at = "orphaned"] ELSE dispatching[f]]
    OBVIOUS
  <2>4. dispatching' = ds
    BY <1>6, <2>2, <2>3 DEF UnsubscribePipe
  <2>5. ASSUME NEW f \in FrameIds
        PROVE  /\ ds[f] \in Dispatch
               /\ ds[f].visited = dispatching[f].visited /\ ds[f].awaits = dispatching[f].awaits
               /\ ds[f].at = "orphaned" => u = << >> \/ dispatching[f].at = "orphaned"
               /\ ds[f].at = "done" => dispatching[f].at = "done"
               /\ ds[f].at \in {"dispatching", "orphaned"} => Awaiting(f)
    BY <2>3 DEF PipeInv, Dispatch, Awaiting
  <2>6. processed' = processed /\ deadLetters' = deadLetters /\ arrived' = arrived
    BY <1>6 DEF UnsubscribePipe
  <2>7. ds \in [FrameIds -> Dispatch]
    BY <2>3, <2>5
  <2> QED BY <2>2, <2>4, <2>5, <2>6, <2>7 DEF PipeInv, Awaiting, Treated
<1> QED BY <1>1, <1>2, <1>3, <1>4, <1>5, <1>6 DEF PipeNext

\* However subscribers fail, come and go during the dispatches, one that was there
\* from the start and still is has every message whose dispatch ended, or a
\* dead letter says that it failed (named-pipe-bus.ts, dispatch).
THEOREM HandledOrDeadLetteredHolds == PipeSpec => []HandledOrDeadLettered
<1>1. PipeInv => HandledOrDeadLettered
  BY DEF PipeInv, HandledOrDeadLettered, Present, Treated
<1> QED BY <1>1, PipeInvInit, PipeInvStep, PTL DEF PipeSpec
-----------------------------------------------------------------------------
(***************************************************************************)
(* The model router.                                                        *)
(***************************************************************************)

Breaker == [failures : 0 .. FailureThreshold, age : Closed .. Cooldown]

TriesNow(r, p) == r.at = "trying" /\ Head(r.todo) = p

\* A call that checks or tries providers is at one of them.
GoodRouting == {r \in Routing : /\ r.at # "idle" => r.todo # << >>
                                /\ r.at = "trying" => r.attempt >= 1}

\* Every attempt at the provider since its circuit opened is a different retry of a
\* call, and those of a call that is still trying it are behind it.
Retries(p, U) ==
    /\ U \subseteq RouterCalls \X (2 .. RetryAttempts) /\ openTries[p] = Cardinality(U)
    /\ \A c \in RouterCalls : TriesNow(routing[c], p) =>
          \A k \in 2 .. RetryAttempts : <<c, k>> \in U => k <= routing[c].attempt

RouterInv ==
    /\ breaker \in [Providers -> Breaker]
    /\ routing \in [RouterCalls -> GoodRouting]
    /\ openTries \in [Providers -> Nat]
    /\ OpenMeansRest
    /\ \A p \in Providers : IsCircuitOpen(breaker, p) => \E U : Retries(p, U)

LEMMA RetriesBound ==
    ASSUME NEW U \in SUBSET (RouterCalls \X (2 .. RetryAttempts))
    PROVE  /\ IsFiniteSet(U) /\ Cardinality(U) \in Nat
           /\ Cardinality(U) <= Cardinality(RouterCalls) * (RetryAttempts - 1)
<1>1. RetryAttempts \in Nat \ {0} /\ IsFiniteSet(RouterCalls)
  BY RouterAssumption
<1>2. PICK T : T = 2 .. RetryAttempts
  OBVIOUS
<1>3. IsFiniteSet(T) /\ Cardinality(T) = RetryAttempts - 1
  BY <1>1, <1>2, FS_Interval
<1>4. /\ IsFiniteSet(RouterCalls \X T)
      /\ Cardinality(RouterCalls \X T) = Cardinality(RouterCalls) * Cardinality(T)
  BY <1>1, <1>3, FS_Product
<1>5. U \subseteq RouterCalls \X T
  BY <1>2
<1>6. IsFiniteSet(U) /\ Cardinality(U) <= Cardinality(RouterCalls \X T)
  BY <1>4, <1>5, FS_Subset
<1>7. Cardinality(U) \in Nat
  BY <1>6, FS_CardinalityType
<1> QED BY <1>3, <1>4, <1>6, <1>7

LEMMA RouterInvInit == RouterInit => RouterInv
<1> SUFFICES ASSUME RouterInit PROVE RouterInv
  OBVIOUS
<1>1. NoCall \in GoodRouting
  BY RouterAssumption DEF NoCall, GoodRouting, Routing
<1>2. [failures |-> 0, age |-> Closed] \in Breaker
  BY RouterAssumption DEF Breaker, Closed
<1>3. OpenMeansRest
  <2>1. 0 <= Cardinality(RouterCalls) * (RetryAttempts - 1)
    <3>1. {} \in SUBSET (RouterCalls \X (2 .. RetryAttempts))
      OBVIOUS
    <3> QED BY <3>1, RetriesBound, FS_EmptySet
  <2> QED BY <2>1 DEF RouterInit, OpenMeansRest
<1>4. \A p \in Providers : ~ IsCircuitOpen(breaker, p)
  BY DEF RouterInit, IsCircuitOpen, Closed
<1> QED BY <1>1, <1>2, <1>3, <1>4 DEF RouterInit, RouterInv

\* What is looked at or tried next has a circuit that is not open.
LEMMA FirstUsable ==
    ASSUME NEW b, NEW ps \in Seq(Providers)
    PROVE  /\ FromUsable(b, ps) \in Seq(Providers)
           /\ FromUsable(b, ps) # << >> => ~ IsCircuitOpen(b, Head(FromUsable(b, ps)))
<1>1. PICK usable : usable = {i \in DOMAIN ps : ~ IsCircuitOpen(b, ps[i])}
  OBVIOUS
<1>2. CASE usable = {}
  BY <1>1, <1>2, NoElement DEF FromUsable
<1>3. CASE usable # {}
  <2>1. PICK n \in Nat : n = Len(ps) /\ DOMAIN ps = 1 .. n
    OBVIOUS
  <2>2. usable \in SUBSET (0 .. n)
    BY <1>1, <2>1
  <2>3. PICK i : i = Min(usable) /\ i \in usable
    <3>1. \E i \in usable : \A j \in usable : i <= j
      BY <1>3, <2>2, Smallest
    <3> QED BY <3>1 DEF Min
  <2>4. i \in 1 .. n /\ ~ IsCircuitOpen(b, ps[i])
    BY <1>1, <2>1, <2>3
  <2>5. PICK rest : rest = SubSeq(ps, i, n)
    OBVIOUS
  <2>6. rest \in Seq(Providers) /\ Head(rest) = ps[i]
    BY <2>1, <2>4, <2>5
  <2>7. FromUsable(b, ps) = rest
    BY <1>1, <1>3, <2>1, <2>3, <2>5 DEF FromUsable
  <2> QED BY <2>4, <2>6, <2>7
<1> QED BY <1>2, <1>3

LEMMA NextTries ==
    ASSUME NEW b, NEW ps \in Seq(Providers)
    PROVE  /\ TryNext(b, ps) \in GoodRouting
           /\ \A p : TriesNow(TryNext(b, ps), p) => ~ IsCircuitOpen(b, p)
<1>1. PICK rest \in Seq(Providers) :
         rest = FromUsable(b, ps) /\ (rest # << >> => ~ IsCircuitOpen(b, Head(rest)))
  BY FirstUsable
<1>2. NoCall \in GoodRouting /\ NoCall.at = "idle"
  BY RouterAssumption DEF NoCall, GoodRouting, Routing
<1>3. CASE rest = << >>
  BY <1>1, <1>2, <1>3 DEF TryNext, TriesNow
<1>4. CASE rest # << >>
  <2>1. PICK r : r = [at |-> "trying", todo |-> rest, found |-> {}, attempt |-> 1]
    OBVIOUS
  <2>2. r \in GoodRouting /\ r.todo = rest
    BY <1>4, <2>1, RouterAssumption DEF GoodRouting, Routing
  <2>3. TryNext(b, ps) = r
    BY <1>1, <1>4, <2>1 DEF TryNext
  <2> QED BY <1>1, <1>4, <2>2, <2>3 DEF TriesNow
<1> QED BY <1>3, <1>4

LEMMA NextChecks ==
    ASSUME NEW b, NEW ps \in Seq(Providers), NEW found \in SUBSET Providers
    PROVE  /\ CheckNext(b, ps, found) \in GoodRouting
           /\ \A p : TriesNow(CheckNext(b, ps, found), p) => ~ IsCircuitOpen(b, p)
<1>1. PICK rest \in Seq(Providers) : rest = FromUsable(b, ps)
  BY FirstUsable
<1>2. CASE rest = << >>
  <2>1. PICK ks \in Seq(Providers) : ks = Kept(Preferred, found)
    BY RouterAssumption, KeptSet
  <2>2. CheckNext(b, ps, found) = TryNext(b, ks)
    BY <1>1, <1>2, <2>1 DEF CheckNext
  <2> QED BY <2>2, NextTries
<1>3. CASE rest # << >>
  <2>1. PICK r : r = [at |-> "health", todo |-> rest, found |-> found, attempt |-> 0]
    OBVIOUS
  <2>2. r \in GoodRouting /\ r.at = "health"
    BY <1>3, <2>1, RouterAssumption DEF GoodRouting, Routing
  <2>3. CheckNext(b, ps, found) = r
    BY <1>1, <1>3, <2>1 DEF CheckNext
  <2> QED BY <2>2, <2>3 DEF TriesNow
<1> QED BY <1>2, <1>3

\* A circuit opens anew, if at all, and an attempt that begins while it is open is
\* the next one of a call that was trying it.
LEMMA GoStep ==
    ASSUME RouterInv, NEW c \in RouterCalls, NEW b \in [Providers -> Breaker], NEW next \in GoodRouting,
           Go(c, b, next),
           \A p \in Providers : IsCircuitOpen(b, p) /\ ~ IsCircuitOpen(breaker, p) => b[p].age = 0,
           \A p \in Providers : IsCircuitOpen(b, p) /\ TriesNow(next, p) =>
              TriesNow(routing[c], p) /\ next.attempt = routing[c].attempt + 1
    PROVE  RouterInv'
<1>1. /\ breaker \in [Providers -> Breaker] /\ routing \in [RouterCalls -> GoodRouting]
      /\ openTries \in [Providers -> Nat] /\ OpenMeansRest
      /\ \A p \in Providers : IsCircuitOpen(breaker, p) => \E U : Retries(p, U)
  BY DEF RouterInv
<1>2. breaker' = b /\ routing' = [routing EXCEPT ![c] = next]
  BY DEF Go
<1>3. /\ routing' \in [RouterCalls -> GoodRouting] /\ routing'[c] = next
      /\ \A d \in RouterCalls \ {c} : routing'[d] = routing[d]
  BY <1>1, <1>2
<1>4. \A p \in Providers :
         openTries'[p] = (IF b[p].age = 0 /\ ~ IsCircuitOpen(breaker, p) THEN 0 ELSE openTries[p])
                            + (IF TriesNow(next, p) /\ IsCircuitOpen(b, p) THEN 1 ELSE 0)
  BY DEF Go, TriesNow
<1>5. openTries' \in [Providers -> Nat]
  <2>1. \A p \in Providers : openTries'[p] \in Nat
    BY <1>1, <1>4
  <2>2. DOMAIN openTries' = Providers /\ openTries' = [p \in Providers |-> openTries'[p]]
    BY DEF Go
  <2> QED BY <2>1, <2>2
<1>6. \A p \in Providers : b[p].age = 0 => IsCircuitOpen(b, p)
  BY RouterAssumption DEF IsCircuitOpen, Closed
<1>7. ASSUME NEW p \in Providers, IsCircuitOpen(b, p)
      PROVE  \E U : Retries(p, U)'
  <2>1. PICK U : /\ U \subseteq RouterCalls \X (2 .. RetryAttempts)
                 /\ Cardinality(U) = IF b[p].age = 0 /\ ~ IsCircuitOpen(breaker, p) THEN 0 ELSE openTries[p]
                 /\ \A d \in RouterCalls : TriesNow(routing[d], p) =>
                       \A k \in 2 .. RetryAttempts : <<d, k>> \in U => k <= routing[d].attempt
    <3>1. CASE IsCircuitOpen(breaker, p)
      <4>1. PICK U : Retries(p, U)
        BY <1>1, <3>1
      <4> QED BY <3>1, <4>1 DEF Retries
    <3>2. CASE ~ IsCircuitOpen(breaker, p)
      <4>1. b[p].age = 0
        BY <1>7, <3>2
      <4>2. Cardinality({}) = 0
        BY FS_EmptySet
      <4> QED BY <3>2, <4>1, <4>2
    <3> QED BY <3>1, <3>2
  <2>2. CASE ~ TriesNow(next, p)
    <3>1. openTries'[p] = Cardinality(U)
      BY <1>1, <1>4, <2>1, <2>2
    <3>2. \A d \in RouterCalls : TriesNow(routing'[d], p) => TriesNow(routing[d], p) /\ routing'[d] = routing[d]
      BY <1>3, <2>2
    <3>3. Retries(p, U)'
      BY <2>1, <3>1, <3>2 DEF Retries
    <3> QED BY <3>3
  <2>3. CASE TriesNow(next, p)
    <3>1. TriesNow(routing[c], p) /\ next.attempt = routing[c].attempt + 1
      BY <1>7, <2>3
    <3>2. PICK n \in 2 .. RetryAttempts : n = next.attempt /\ n - 1 = routing[c].attempt
      BY <1>1, <3>1, RouterAssumption DEF GoodRouting, Routing, TriesNow
    <3>3. PICK V : V = U \cup {<<c, n>>}
      OBVIOUS
    <3>4. <<c, n>> \notin U /\ V \subseteq RouterCalls \X (2 .. RetryAttempts)
      BY <2>1, <3>1, <3>2, <3>3
    <3>5. Cardinality(V) = Cardinality(U) + 1
      BY <2>1, <3>3, <3>4, RetriesBound, FS_AddElement
    <3>6. openTries'[p] = Cardinality(V)
      BY <1>4, <1>7, <2>1, <2>3, <3>5
    <3>7. ASSUME NEW d \in RouterCalls, TriesNow(routing'[d], p), NEW k \in 2 .. RetryAttempts, <<d, k>> \in V
          PROVE  k <= routing'[d].attempt
      <4>1. CASE d = c
        <5>1. k = n \/ <<c, k>> \in U
          BY <3>3, <3>7, <4>1
        <5>2. <<c, k>> \in U => k <= n - 1
          BY <2>1, <3>1, <3>2
        <5>3. k <= n
          BY <5>1, <5>2
        <5> QED BY <1>3, <3>2, <4>1, <5>3
      <4>2. CASE d # c
        BY <1>3, <2>1, <3>3, <3>7, <4>2
      <4> QED BY <4>1, <4>2
    <3>8. Retries(p, V)'
      BY <3>4, <3>6, <3>7 DEF Retries
    <3> QED BY <3>8
  <2> QED BY <2>2, <2>3
<1>8. OpenMeansRest'
  <2>1. ASSUME NEW p \in Providers
        PROVE  openTries'[p] <= Cardinality(RouterCalls) * (RetryAttempts - 1)
    <3>1. CASE IsCircuitOpen(b, p)
      <4>1. PICK U : Retries(p, U)'
        BY <1>7, <3>1
      <4> QED BY <4>1, RetriesBound DEF Retries
    <3>2. CASE ~ IsCircuitOpen(b, p)
      <4>1. openTries'[p] = openTries[p]
        BY <1>1, <1>4, <1>6, <3>2
      <4> QED BY <1>1, <4>1 DEF OpenMeansRest
    <3> QED BY <3>1, <3>2
  <2> QED BY <2>1 DEF OpenMeansRest
<1>9. \A p \in Providers : IsCircuitOpen(breaker', p) => \E U : Retries(p, U)'
  BY <1>2, <1>7
<1> QED BY <1>2, <1>3, <1>5, <1>8, <1>9 DEF RouterInv

\* A failure leaves the other circuits alone, and an open one open.
LEMMA Recorded ==
    ASSUME breaker \in [Providers -> Breaker], NEW p \in Providers
    PROVE  /\ RecordFailure(p) \in [Providers -> Breaker] /\ RecordSuccess(p) \in [Providers -> Breaker]
           /\ \A q \in Providers : IsCircuitOpen(RecordFailure(p), q) /\ ~ IsCircuitOpen(breaker, q)
                => RecordFailure(p)[q].age = 0
           /\ \A q \in Providers : IsCircuitOpen(RecordSuccess(p), q) => IsCircuitOpen(breaker, q)
<1>1. PICK old \in Breaker : old = breaker[p]
  OBVIOUS
<1>2. PICK n \in 0 .. FailureThreshold : n = Min({old.failures + 1, FailureThreshold})
  <2>1. PICK m \in Nat : m = old.failures + 1
    BY <1>1 DEF Breaker
  <2>2. PICK t \in Nat \ {0} : t = FailureThreshold
    BY RouterAssumption
  <2>3. \E x \in {m, t} : \A y \in {m, t} : x <= y
    OBVIOUS
  <2>4. Min({m, t}) \in {m, t} /\ Min({m, t}) <= t
    BY <2>3 DEF Min
  <2> QED BY <2>1, <2>2, <2>4
<1>3. PICK new : new = [failures |-> n, age |-> IF n = FailureThreshold THEN 0 ELSE old.age]
  OBVIOUS
<1>4. new \in Breaker /\ (new.age = 0 \/ new.age = old.age)
  BY <1>1, <1>3, RouterAssumption DEF Breaker, Closed
<1>5. RecordFailure(p) = [breaker EXCEPT ![p] = new]
  BY <1>1, <1>2, <1>3 DEF RecordFailure
<1>6. PICK none \in Breaker : none = [failures |-> 0, age |-> Closed] /\ none.age = Closed
  <2>1. [failures |-> 0, age |-> Closed] \in Breaker
    BY RouterAssumption DEF Breaker, Closed
  <2> QED BY <2>1
<1>7. RecordSuccess(p) = [breaker EXCEPT ![p] = none]
  BY <1>6 DEF RecordSuccess
<1> QED BY <1>1, <1>4, <1>5, <1>6, <1>7 DEF IsCircuitOpen

LEMMA RouterInvStep == RouterInv /\ [RouterNext]_routerVars => RouterInv'
<1> SUFFICES ASSUME RouterInv, [RouterNext]_routerVars PROVE RouterInv'
  OBVIOUS
<1>t. /\ breaker \in [Providers -> Breaker] /\ routing \in [RouterCalls -> GoodRouting]
      /\ openTries \in [Providers -> Nat] /\ OpenMeansRest
      /\ \A p \in Providers : IsCircuitOpen(breaker, p) => \E U : Retries(p, U)
  BY DEF RouterInv
<1>n. NoCall \in GoodRouting /\ \A p : ~ TriesNow(NoCall, p)
  BY RouterAssumption DEF NoCall, GoodRouting, Routing, TriesNow
<1>1. CASE UNCHANGED routerVars
  BY <1>1, <1>t DEF routerVars, RouterInv, OpenMeansRest, IsCircuitOpen, Retries
<1>2. CASE RouterClock
  <2>1. UNCHANGED <<routing, openTries>> /\ OpenMeansRest'
    BY <1>2, <1>t DEF RouterClock, OpenMeansRest
  <2>2. PICK b : b = [p \in Providers |->
             IF IsCircuitOpen(breaker, p) THEN [breaker[p] EXCEPT !.age = @ + 1] ELSE breaker[p]]
    OBVIOUS
  <2>3. breaker' = b
    BY <1>2, <2>2 DEF RouterClock
  <2>4. ASSUME NEW p \in Providers
        PROVE  b[p] \in Breaker /\ (IsCircuitOpen(b, p) => IsCircuitOpen(breaker, p))
    <3>1. PICK old \in Breaker : old = breaker[p]
      BY <1>t
    <3> QED BY <2>2, <3>1, RouterAssumption DEF IsCircuitOpen, Breaker, Closed
  <2>5. b \in [Providers -> Breaker]
    BY <2>2, <2>4
  <2>6. \A p \in Providers : IsCircuitOpen(breaker', p) => \E U : Retries(p, U)'
    BY <1>t, <2>1, <2>3, <2>4 DEF Retries
  <2> QED BY <1>t, <2>1, <2>3, <2>5, <2>6 DEF RouterInv
<1>3. ASSUME NEW c \in RouterCalls, Invoke(c)
      PROVE  RouterInv'
  <2>1. PICK eligible \in SUBSET Providers : Go(c, breaker, CheckNext(breaker, Kept(Configured, eligible), {}))
    BY <1>3 DEF Invoke
  <2>2. PICK ps \in Seq(Providers) : ps = Kept(Configured, eligible)
    BY RouterAssumption, KeptSet
  <2>3. PICK next \in GoodRouting :
           next = CheckNext(breaker, ps, {}) /\ \A p : TriesNow(next, p) => ~ IsCircuitOpen(breaker, p)
    BY NextChecks
  <2> QED BY <1>t, <2>1, <2>2, <2>3, GoStep
<1>4. ASSUME NEW c \in RouterCalls, HealthAnswers(c)
      PROVE  RouterInv'
  <2>1. PICK r \in GoodRouting : r = routing[c] /\ r.at = "health"
    BY <1>4, <1>t DEF HealthAnswers
  <2>2. PICK ps \in Seq(Providers) : ps = r.todo /\ ps # << >> /\ r.found \subseteq Providers
    BY <2>1 DEF GoodRouting, Routing
  <2>3. Head(ps) \in Providers /\ Tail(ps) \in Seq(Providers)
    BY <2>2, FirstAndRest, Zenon
  <2>4. PICK found \in SUBSET Providers : Go(c, breaker, CheckNext(breaker, Tail(ps), found))
    BY <1>4, <2>1, <2>2, <2>3 DEF HealthAnswers
  <2>5. PICK next \in GoodRouting :
           next = CheckNext(breaker, Tail(ps), found) /\ \A p : TriesNow(next, p) => ~ IsCircuitOpen(breaker, p)
    BY <2>3, NextChecks, Zenon
  <2>6. Go(c, breaker, next)
    BY <2>4, <2>5, Zenon
  <2> QED BY <1>t, <2>5, <2>6, GoStep
<1>5. ASSUME NEW c \in RouterCalls, Succeeds(c) \/ Malformed(c) \/ Fails(c)
      PROVE  RouterInv'
  <2>1. PICK r \in GoodRouting : r = routing[c] /\ r.at = "trying"
    BY <1>5, <1>t DEF Succeeds, Malformed, Fails
  <2>2. PICK ps \in Seq(Providers) : ps = r.todo /\ ps # << >>
    BY <2>1 DEF GoodRouting, Routing
  <2>3. Head(ps) \in Providers /\ Tail(ps) \in Seq(Providers)
    BY <2>2, FirstAndRest, Zenon
  <2>4. PICK p \in Providers : p = Head(ps) /\ TriesNow(routing[c], p)
    BY <2>1, <2>2, <2>3 DEF TriesNow
  <2>5. PICK b1 \in [Providers -> Breaker], b2 \in [Providers -> Breaker] :
           /\ b1 = RecordFailure(p) /\ b2 = RecordSuccess(p)
           /\ \A q \in Providers : IsCircuitOpen(b1, q) /\ ~ IsCircuitOpen(breaker, q) => b1[q].age = 0
           /\ \A q \in Providers : IsCircuitOpen(b2, q) => IsCircuitOpen(breaker, q)
    BY <1>t, Recorded
  <2>6. CASE Succeeds(c)
    <3>1. Go(c, b2, NoCall)
      BY <2>1, <2>2, <2>4, <2>5, <2>6 DEF Succeeds
    <3> QED BY <1>n, <2>5, <3>1, GoStep
  <2>7. CASE Malformed(c)
    <3>1. Go(c, b1, NoCall)
      BY <2>1, <2>2, <2>4, <2>5, <2>7 DEF Malformed
    <3> QED BY <1>n, <2>5, <3>1, GoStep
  <2>8. CASE Fails(c) /\ r.attempt < RetryAttempts
    <3>1. PICK next : next = [r EXCEPT !.attempt = @ + 1]
      OBVIOUS
    <3>2. Go(c, b1, next)
      BY <2>1, <2>2, <2>4, <2>5, <2>8, <3>1 DEF Fails
    <3>3. next \in GoodRouting /\ next.attempt = r.attempt + 1 /\ next.todo = r.todo /\ next.at = r.at
      <4>1. r \in Routing /\ r.todo # << >> /\ r.attempt >= 1
        BY <2>1 DEF GoodRouting
      <4>2. PICK n \in 0 .. RetryAttempts : n = r.attempt + 1
        BY <2>8, <4>1, RouterAssumption DEF Routing
      <4>3. next = [r EXCEPT !.attempt = n]
        BY <3>1, <4>2
      <4>4. next \in Routing /\ next.attempt = n /\ next.todo = r.todo /\ next.at = r.at
        BY <4>1, <4>3 DEF Routing
      <4>5. next.todo # << >> /\ next.attempt >= 1
        BY <4>1, <4>2, <4>4 DEF Routing
      <4> QED BY <4>2, <4>4, <4>5 DEF GoodRouting
    <3>4. \A q \in Providers : TriesNow(next, q) => TriesNow(routing[c], q)
      BY <2>1, <3>3 DEF TriesNow
    <3> QED BY <2>1, <2>5, <3>2, <3>3, <3>4, GoStep
  <2>9. CASE Fails(c) /\ ~ r.attempt < RetryAttempts
    <3>1. Go(c, b1, TryNext(b1, Tail(ps)))
      BY <2>1, <2>2, <2>4, <2>5, <2>9 DEF Fails
    <3>2. PICK next \in GoodRouting :
             next = TryNext(b1, Tail(ps)) /\ \A q : TriesNow(next, q) => ~ IsCircuitOpen(b1, q)
      BY <2>3, NextTries, Zenon
    <3>3. Go(c, b1, next)
      BY <3>1, <3>2, Zenon
    <3> QED BY <2>5, <3>2, <3>3, GoStep
  <2> QED BY <1>5, <2>6, <2>7, <2>8, <2>9
<1> QED BY <1>1, <1>2, <1>3, <1>4, <1>5 DEF RouterNext

\* However many requests overlap, an open circuit is not tried but for the attempts
\* that remain to those that were trying the provider when it opened
\* (model-router.ts, invoke and isCircuitOpen).
THEOREM OpenMeansRestHolds == RouterSpec => []OpenMeansRest
<1>1. RouterInv => OpenMeansRest
  BY DEF RouterInv
<1> QED BY <1>1, RouterInvInit, RouterInvStep, PTL DEF RouterSpec
-----------------------------------------------------------------------------
(***************************************************************************)
(* The provider registry and its router.                                    *)
(***************************************************************************)

AnyEntry == [id : Catalogue, enabled : BOOLEAN, priority : Nat]

Routes == [at : {"idle", "selecting", "ordering", "invoking"}, wanted : SUBSET Catalogue,
           todo : Seq(AnyEntry), good : Seq(AnyEntry), since : SUBSET Catalogue, policy : Policies]

Within(es, ids) == \A e \in ToSet(es) : e.id \in ids

LocalsFirst(es) ==
    \A k, l \in DOMAIN es : k < l /\ es[k].id \notin LocalOnes => es[l].id \notin LocalOnes

\* What a request looks at, or found, was enabled at some time of the request, and so
\* is all that it may find by looking again.
GoodRoute(r) ==
    /\ r.at # "idle" => /\ r.todo # << >> /\ Within(r.todo, r.since) /\ Within(r.good, r.since)
                        /\ \A e \in Enabled : e.id \in r.since
    /\ r.at = "invoking" /\ r.policy.kind = "privacy-first" => LocalsFirst(r.todo)

RegistryInv ==
    /\ entries \in Seq(AnyEntry) /\ policy \in Policies
    /\ route \in [RouteCalls -> Routes]
    /\ \A c \in RouteCalls : GoodRoute(route[c])

\* Two numbers of each entry decide, the second where the first are equal.
Compares(how, good, first, second) ==
    /\ \A i, j \in DOMAIN good :
         Goes(how, good[i], good[j]) <=>
            first[i] < first[j] \/ (first[i] = first[j] /\ second[i] < second[j])
    /\ how.kind = "privacy-first" =>
         \A i, j \in DOMAIN good :
            good[i].id \notin LocalOnes /\ good[j].id \in LocalOnes => first[j] < first[i]

LEMMA GoesByNumbers ==
    ASSUME NEW how \in Policies, NEW good \in Seq(AnyEntry)
    PROVE  \E first, second \in [DOMAIN good -> Nat] : Compares(how, good, first, second)
<1>1. PICK I : I = DOMAIN good
  OBVIOUS
<1>2. \A i \in I : good[i].id \in Catalogue /\ good[i].priority \in Nat
  <2>1. \A i \in I : good[i] \in AnyEntry
    BY <1>1
  <2> QED BY <2>1 DEF AnyEntry
<1>3. how.kind \in {"privacy-first", "cost-optimized", "manual", "other"}
  BY DEF Policies
<1>4. PICK zero \in [I -> Nat] : \A i \in I : zero[i] = 0
  <2>1. [i \in I |-> 0] \in [I -> Nat] /\ \A i \in I : [j \in I |-> 0][i] = 0
    OBVIOUS
  <2> QED BY <2>1
<1>5. PICK priority \in [I -> Nat] : \A i \in I : priority[i] = good[i].priority
  <2>1. PICK f : f = [i \in I |-> good[i].priority]
    OBVIOUS
  <2>2. f \in [I -> Nat] /\ \A i \in I : f[i] = good[i].priority
    BY <1>2, <2>1
  <2> QED BY <2>2
<1>6. CASE how.kind = "privacy-first"
  <2>1. PICK f : f = [i \in I |-> IF good[i].id \in LocalOnes THEN 0 ELSE 1]
    OBVIOUS
  <2>2. f \in [I -> Nat] /\ \A i \in I : f[i] = IF good[i].id \in LocalOnes THEN 0 ELSE 1
    BY <2>1
  <2>3. ASSUME NEW i \in I, NEW j \in I
        PROVE  /\ Goes(how, good[i], good[j]) <=>
                     f[i] < f[j] \/ (f[i] = f[j] /\ priority[i] < priority[j])
               /\ good[i].id \notin LocalOnes /\ good[j].id \in LocalOnes => f[j] < f[i]
    BY <1>5, <1>6, <2>2 DEF Goes
  <2>4. Compares(how, good, f, priority)
    BY <1>1, <2>3 DEF Compares
  <2> QED BY <1>1, <2>2, <2>4
<1>7. CASE how.kind = "cost-optimized"
  <2>1. PICK f : f = [i \in I |-> Cost[good[i].id]]
    OBVIOUS
  <2>2. f \in [I -> Nat] /\ \A i \in I : f[i] = Cost[good[i].id]
    BY <1>2, <2>1, RegistryAssumption
  <2>3. ASSUME NEW i \in I, NEW j \in I
        PROVE  Goes(how, good[i], good[j]) <=> f[i] < f[j] \/ (f[i] = f[j] /\ zero[i] < zero[j])
    BY <1>4, <1>7, <2>2 DEF Goes
  <2>4. Compares(how, good, f, zero)
    BY <1>1, <1>7, <2>3 DEF Compares
  <2> QED BY <1>1, <2>2, <2>4
<1>8. CASE how.kind = "manual"
  <2>1. PICK f : f = [i \in I |-> IF good[i].id = how.pin THEN 0 ELSE 1]
    OBVIOUS
  <2>2. f \in [I -> Nat] /\ \A i \in I : f[i] = IF good[i].id = how.pin THEN 0 ELSE 1
    BY <2>1
  <2>3. ASSUME NEW i \in I, NEW j \in I
        PROVE  Goes(how, good[i], good[j]) <=> f[i] < f[j] \/ (f[i] = f[j] /\ zero[i] < zero[j])
    BY <1>4, <1>8, <2>2 DEF Goes
  <2>4. Compares(how, good, f, zero)
    BY <1>1, <1>8, <2>3 DEF Compares
  <2> QED BY <1>1, <2>2, <2>4
<1>9. CASE how.kind = "other"
  <2>1. ASSUME NEW i \in I, NEW j \in I
        PROVE  Goes(how, good[i], good[j]) <=>
                  priority[i] < priority[j] \/ (priority[i] = priority[j] /\ zero[i] < zero[j])
    BY <1>4, <1>5, <1>9 DEF Goes
  <2>2. Compares(how, good, priority, zero)
    BY <1>1, <1>9, <2>1 DEF Compares
  <2> QED BY <1>1, <2>2
<1> QED BY <1>3, <1>6, <1>7, <1>8, <1>9

\* order() keeps what it sorts, and puts the local providers first where it should.
LEMMA OrderedFits ==
    ASSUME NEW how \in Policies, NEW good \in Seq(AnyEntry)
    PROVE  /\ Ordered(how, good) \in Seq(AnyEntry) /\ ToSet(Ordered(how, good)) = ToSet(good)
           /\ how.kind = "privacy-first" => LocalsFirst(Ordered(how, good))
<1>0. PICK n \in Nat : n = Len(good)
  OBVIOUS
<1>1. DOMAIN good = 1 .. n
  BY <1>0
<1>b. PICK f1, f2 \in [DOMAIN good -> Nat] : Compares(how, good, f1, f2)
  BY GoesByNumbers, Zenon
<1>c. PICK first \in [1 .. n -> Nat], second \in [1 .. n -> Nat] : Compares(how, good, first, second)
  BY <1>1, <1>b
<1>2. /\ \A i, j \in 1 .. n :
           Goes(how, good[i], good[j]) <=>
              first[i] < first[j] \/ (first[i] = first[j] /\ second[i] < second[j])
      /\ how.kind = "privacy-first" =>
           \A i, j \in 1 .. n : good[i].id \notin LocalOnes /\ good[j].id \in LocalOnes => first[j] < first[i]
  BY <1>1, <1>c DEF Compares
<1>3. PICK R : R = {p \in (1 .. n) \X (1 .. n) : ~ (\/ Goes(how, good[p[2]], good[p[1]])
                                      \/ (p[2] < p[1] /\ ~ Goes(how, good[p[1]], good[p[2]])))}
  OBVIOUS
<1>4. \A i, j \in 1 .. n : <<i, j>> \in R <=>
         ~ (Goes(how, good[j], good[i]) \/ (j < i /\ ~ Goes(how, good[i], good[j])))
  BY <1>3
<1>5. \A i, j \in 1 .. n : <<i, j>> \in R <=> NotAfter(first, second, i, j)
  <2>1. ASSUME NEW i \in 1 .. n, NEW j \in 1 .. n
        PROVE  ~ (Goes(how, good[j], good[i]) \/ (j < i /\ ~ Goes(how, good[i], good[j])))
                  <=> NotAfter(first, second, i, j)
    BY <1>2 DEF NotAfter
  <2> QED BY <1>4, <2>1, Zenon
<1>6. Orders(R, 1 .. n)
  BY <1>5, NumbersOrder, Zenon
<1>7. Ordered(how, good) = Arranged(good, R)
  BY <1>1, <1>3 DEF Ordered
<1>8. PICK t \in Seq(AnyEntry) : t = Arranged(good, R) /\ ToSet(t) = ToSet(good)
  BY <1>1, <1>6, ArrangedSet
<1>9. PICK f \in [DOMAIN good -> DOMAIN good] :
         /\ Arranged(good, R) = [k \in DOMAIN good |-> good[f[k]]]
         /\ \A i \in DOMAIN good : \E k \in DOMAIN good : f[k] = i
         /\ \A k, l \in DOMAIN good : k < l => <<f[k], f[l]>> \in R
  <2>1. Orders(R, DOMAIN good)
    BY <1>1, <1>6
  <2> QED BY <2>1, ArrangedPlaces, Zenon
<1>10. ASSUME how.kind = "privacy-first" PROVE LocalsFirst(t)
  <2>1. DOMAIN t = 1 .. n /\ \A k \in 1 .. n : f[k] \in 1 .. n /\ t[k] = good[f[k]]
    BY <1>1, <1>8, <1>9
  <2>2. ASSUME NEW k \in 1 .. n, NEW l \in 1 .. n, k < l, t[k].id \notin LocalOnes, t[l].id \in LocalOnes PROVE FALSE
    <3>1. <<f[k], f[l]>> \in R /\ f[k] \in 1 .. n /\ f[l] \in 1 .. n
      BY <1>1, <1>9, <2>1, <2>2
    <3>2. first[f[l]] < first[f[k]]
      BY <1>2, <1>10, <2>1, <2>2
    <3>3. NotAfter(first, second, f[k], f[l])
      BY <1>5, <3>1, Zenon
    <3>4. PICK x \in 1 .. n, y \in 1 .. n : x = f[k] /\ y = f[l]
      BY <3>1
    <3>5. first[y] < first[x] /\ NotAfter(first, second, x, y)
      BY <3>2, <3>3, <3>4
    <3> QED BY <3>5 DEF NotAfter
  <2> QED BY <2>1, <2>2 DEF LocalsFirst
<1> QED BY <1>7, <1>8, <1>10

LEMMA LooksFit ==
    ASSUME entries \in Seq(AnyEntry), NEW wanted
    PROVE  LooksAt(wanted) \in Seq(AnyEntry) /\ ToSet(LooksAt(wanted)) \subseteq Enabled
BY KeptSet DEF LooksAt

LEMMA NoRouteFits == NoRoute \in Routes /\ GoodRoute(NoRoute) /\ NoRoute.at = "idle"
<1>1. NoRoute.at = "idle"
  BY DEF NoRoute
<1>2. [kind |-> "privacy-first", pin |-> NoPin] \in Policies
  BY DEF Policies
<1>3. NoRoute \in Routes
  BY <1>2 DEF NoRoute, Routes
<1> QED BY <1>1, <1>3 DEF GoodRoute

\* What a look at the entries leads to.
LEMMA AfterFits ==
    ASSUME entries \in Seq(AnyEntry), policy \in Policies,
           NEW r \in Routes, r.at \in {"selecting", "ordering"},
           Within(r.todo, r.since), Within(r.good, r.since), \A e \in Enabled : e.id \in r.since
    PROVE  After(r) \in Routes /\ GoodRoute(After(r))
<1>1. PICK looks \in Seq(AnyEntry) : looks = LooksAt(r.wanted) /\ ToSet(looks) \subseteq Enabled
  BY LooksFit
<1>n. PICK none \in Seq(AnyEntry), how \in Policies : none = << >> /\ how = policy /\ ToSet(none) = {}
  <2>1. << >> \in Seq(AnyEntry) /\ ToSet(<< >>) = {}
    BY DEF ToSet
  <2> QED BY <2>1
<1>2. PICK second : second = [r EXCEPT !.at = "ordering", !.todo = looks, !.good = none, !.policy = how]
  OBVIOUS
<1>3. PICK ordered \in Seq(AnyEntry) :
         /\ ordered = Ordered(r.policy, r.good) /\ ToSet(ordered) = ToSet(r.good)
         /\ r.policy.kind = "privacy-first" => LocalsFirst(ordered)
  BY OrderedFits DEF Routes
<1>4. PICK last : last = [r EXCEPT !.at = "invoking", !.todo = ordered, !.good = none]
  OBVIOUS
<1>5. \/ After(r) = NoRoute
      \/ After(r) = r /\ r.todo # << >>
      \/ After(r) = second /\ looks # << >>
      \/ After(r) = last /\ r.good # << >>
  <2>1. CASE r.todo # << >>
    BY <2>1 DEF After
  <2>2. CASE r.todo = << >> /\ r.good = << >>
    BY <2>2 DEF After
  <2>3. CASE r.todo = << >> /\ r.good # << >> /\ r.at = "selecting"
    <3>1. second.todo = looks
      BY <1>2 DEF Routes
    <3>2. After(r) = IF second.todo = << >> THEN NoRoute ELSE second
      BY <1>1, <1>n, <1>2, <2>3 DEF After
    <3> QED BY <3>1, <3>2
  <2>4. CASE r.todo = << >> /\ r.good # << >> /\ r.at # "selecting"
    BY <1>3, <1>n, <1>4, <2>4 DEF After
  <2> QED BY <2>1, <2>2, <2>3, <2>4
<1>6. CASE After(r) = r /\ r.todo # << >>
  BY <1>6 DEF GoodRoute
<1>7. CASE After(r) = second /\ looks # << >>
  <2>1. /\ second \in Routes /\ second.at = "ordering" /\ second.todo = looks
        /\ second.good = none /\ second.since = r.since
    BY <1>2 DEF Routes
  <2>2. ToSet(second.good) = {}
    BY <1>n, <2>1
  <2> QED BY <1>1, <1>7, <2>1, <2>2 DEF GoodRoute, Within
<1>8. CASE After(r) = last /\ r.good # << >>
  <2>1. /\ last \in Routes /\ last.at = "invoking" /\ last.todo = ordered
        /\ last.good = none /\ last.since = r.since /\ last.policy = r.policy
    BY <1>4 DEF Routes
  <2>2. ToSet(last.good) = {}
    BY <1>n, <2>1
  <2>3. ordered # << >>
    <3>1. PICK g \in Seq(AnyEntry) : g = r.good
      BY DEF Routes
    <3>2. g # << >> => Head(g) \in ToSet(g)
      BY FirstAndRest, Zenon
    <3>3. ordered = << >> => ToSet(ordered) = {}
      BY DEF ToSet
    <3> QED BY <1>3, <1>8, <3>1, <3>2, <3>3
  <2> QED BY <1>3, <1>8, <2>1, <2>2, <2>3 DEF GoodRoute, Within
<1> QED BY <1>5, <1>6, <1>7, <1>8, NoRouteFits

LEMMA RegistryInvInit == RegistryInit => RegistryInv
<1> SUFFICES ASSUME RegistryInit PROVE RegistryInv
  OBVIOUS
<1>1. PICK n \in Nat : n = Len(Installed) /\ DOMAIN Installed = 1 .. n
  BY RegistryAssumption
<1>2. \A i \in 1 .. n : [id |-> Installed[i], enabled |-> TRUE, priority |-> i] \in AnyEntry
  BY <1>1, RegistryAssumption DEF AnyEntry
<1>3. entries \in Seq(AnyEntry)
  BY <1>1, <1>2 DEF RegistryInit
<1>4. policy \in Policies
  BY DEF RegistryInit, Policies
<1> QED BY <1>3, <1>4, NoRouteFits DEF RegistryInit, RegistryInv

\* An edit notes what it enables.
LEMMA EditStep ==
    ASSUME RegistryInv, entries' \in Seq(AnyEntry), policy' \in Policies, NEW ids \in SUBSET Catalogue,
           route' = [c \in RouteCalls |->
                       IF route[c].at = "idle" THEN NoRoute ELSE [route[c] EXCEPT !.since = @ \cup ids]],
           \A e \in Enabled' : e.id \in ids \/ \E d \in Enabled : d.id = e.id
    PROVE  RegistryInv'
<1>1. ASSUME NEW c \in RouteCalls
      PROVE  route'[c] \in Routes /\ GoodRoute(route[c])'
  <2>1. PICK r \in Routes : r = route[c] /\ GoodRoute(r)
    BY DEF RegistryInv
  <2>2. CASE r.at = "idle"
    <3>1. PICK none \in Routes : none = NoRoute /\ none.at = "idle"
      BY NoRouteFits
    <3>2. route'[c] = none
      BY <2>1, <2>2, <3>1
    <3>3. GoodRoute(none)'
      BY <3>1 DEF GoodRoute
    <3> QED BY <3>2, <3>3
  <2>3. CASE r.at # "idle"
    <3>1. PICK q : q = [r EXCEPT !.since = r.since \cup ids]
      OBVIOUS
    <3>2. /\ q \in Routes /\ q.at = r.at /\ q.todo = r.todo /\ q.good = r.good
          /\ q.since = r.since \cup ids /\ q.policy = r.policy
      BY <3>1 DEF Routes
    <3>3. route'[c] = q
      BY <2>1, <2>3, <3>1
    <3>4. \A e \in Enabled' : e.id \in q.since
      BY <2>1, <2>3, <3>2 DEF GoodRoute
    <3>5. GoodRoute(q)'
      BY <2>1, <2>3, <3>2, <3>4 DEF GoodRoute, Within
    <3> QED BY <3>2, <3>3, <3>5
  <2> QED BY <2>2, <2>3
<1>2. route' \in [RouteCalls -> Routes]
  BY <1>1
<1> QED BY <1>1, <1>2 DEF RegistryInv

LEMMA SilentEditStep ==
    ASSUME RegistryInv, entries' \in Seq(AnyEntry), policy' \in Policies, UNCHANGED route,
           \A e \in Enabled' : \E d \in Enabled : d.id = e.id
    PROVE  RegistryInv'
<1>1. ASSUME NEW c \in RouteCalls PROVE GoodRoute(route[c])'
  <2>1. PICK r \in Routes : r = route[c] /\ GoodRoute(r)
    BY DEF RegistryInv
  <2>2. \A e \in Enabled' : (\A d \in Enabled : d.id \in r.since) => e.id \in r.since
    OBVIOUS
  <2>3. GoodRoute(r)'
    BY <2>1, <2>2 DEF GoodRoute
  <2> QED BY <2>1, <2>3
<1> QED BY <1>1 DEF RegistryInv

LEMMA RemainingFit ==
    ASSUME entries \in Seq(AnyEntry), NEW p
    PROVE  Remaining(p) \in Seq(AnyEntry) /\ ToSet(Remaining(p)) = {e \in ToSet(entries) : e.id # p}
<1>1. ToSet(Remaining(p)) = ToSet(entries) \cap {e \in ToSet(entries) : e.id # p} /\ Remaining(p) \in Seq(AnyEntry)
  BY KeptSet DEF Remaining
<1> QED BY <1>1

LEMMA EditRegistryStep == RegistryInv /\ EditRegistry => RegistryInv'
<1> SUFFICES ASSUME RegistryInv, EditRegistry PROVE RegistryInv'
  OBVIOUS
<1>t. entries \in Seq(AnyEntry) /\ policy \in Policies
  BY DEF RegistryInv
<1>0. PICK es \in Seq(AnyEntry), n \in Nat : es = entries /\ n = Len(es) /\ DOMAIN es = 1 .. n
  <2>1. PICK es \in Seq(AnyEntry) : es = entries
    BY <1>t
  <2>2. Len(es) \in Nat /\ DOMAIN es = 1 .. Len(es)
    OBVIOUS
  <2> QED BY <2>1, <2>2
<1>1. ASSUME NEW p \in Catalogue, RegisterProvider(p)
      PROVE  RegistryInv'
  <2>1. PICK e \in AnyEntry : e = [id |-> p, enabled |-> TRUE, priority |-> n + 1] /\ e.id = p
    <3>1. [id |-> p, enabled |-> TRUE, priority |-> n + 1] \in AnyEntry
      BY DEF AnyEntry
    <3> QED BY <3>1
  <2>2. PICK fs \in Seq(AnyEntry) : fs = Append(es, e) /\ ToSet(fs) = ToSet(es) \cup {e}
    BY OneAdded, Zenon
  <2>3. entries' = fs /\ UNCHANGED policy
    BY <1>0, <1>1, <2>1, <2>2 DEF RegisterProvider
  <2>4. \A d \in Enabled' : d.id \in {p} \/ d \in Enabled
    BY <1>0, <2>1, <2>2, <2>3 DEF Enabled
  <2> QED BY <1>t, <1>1, <2>2, <2>3, <2>4, EditStep DEF RegisterProvider, Noted
<1>2. ASSUME NEW p \in Catalogue, RemoveProvider(p)
      PROVE  RegistryInv'
  <2>1. PICK fs \in Seq(AnyEntry) : fs = Remaining(p) /\ ToSet(fs) \subseteq ToSet(es)
    BY <1>0, RemainingFit
  <2>2. entries' = fs /\ UNCHANGED <<policy, route>>
    BY <1>2, <2>1 DEF RemoveProvider
  <2>3. \A d \in Enabled' : d \in Enabled
    BY <1>0, <2>1, <2>2 DEF Enabled
  <2> QED BY <1>t, <2>2, <2>3, SilentEditStep
<1>3. ASSUME NEW p \in Catalogue, NEW enabled \in BOOLEAN, SetEnabled(p, enabled)
      PROVE  RegistryInv'
  <2>1. PICK fs : fs = [i \in 1 .. n |-> IF es[i].id = p THEN [es[i] EXCEPT !.enabled = enabled] ELSE es[i]]
    OBVIOUS
  <2>2. entries' = fs /\ UNCHANGED policy /\ Noted(IF enabled THEN {p} ELSE {})
    BY <1>0, <1>3, <2>1 DEF SetEnabled
  <2>3. ASSUME NEW i \in 1 .. n
        PROVE  /\ fs[i] \in AnyEntry /\ fs[i].id = es[i].id
               /\ fs[i].enabled => es[i].enabled \/ (enabled /\ fs[i].id = p)
    <3>1. PICK e \in AnyEntry : e = es[i]
      BY <1>0
    <3>2. PICK d : d = [e EXCEPT !.enabled = enabled]
      OBVIOUS
    <3>3. d \in AnyEntry /\ d.id = e.id /\ d.enabled = enabled
      BY <3>2 DEF AnyEntry
    <3>4. fs[i] = IF e.id = p THEN d ELSE e
      BY <2>1, <3>1, <3>2
    <3> QED BY <3>1, <3>3, <3>4
  <2>4. fs \in Seq(AnyEntry) /\ DOMAIN fs = 1 .. n
    <3>1. \A i \in 1 .. n : fs[i] \in AnyEntry
      BY <2>3
    <3>2. DOMAIN fs = 1 .. n /\ fs = [i \in 1 .. n |-> fs[i]]
      BY <2>1
    <3> HIDE DEF AnyEntry
    <3> QED BY <3>1, <3>2
  <2>5. PICK ids \in SUBSET Catalogue : ids = (IF enabled THEN {p} ELSE {}) /\ (enabled => p \in ids)
    OBVIOUS
  <2>6. ASSUME NEW d \in Enabled' PROVE d.id \in ids \/ \E e \in Enabled : e.id = d.id
    <3>1. PICK i \in 1 .. n : d = fs[i] /\ fs[i].enabled
      BY <2>2, <2>4 DEF Enabled, ToSet
    <3>2. es[i].enabled => es[i] \in Enabled
      BY <1>0 DEF Enabled, ToSet
    <3> QED BY <2>3, <2>5, <3>1, <3>2
  <2>7. route' = [c \in RouteCalls |->
                    IF route[c].at = "idle" THEN NoRoute ELSE [route[c] EXCEPT !.since = @ \cup ids]]
    BY <2>2, <2>5 DEF Noted
  <2> QED BY <1>t, <2>2, <2>4, <2>6, <2>7, EditStep
<1>4. ASSUME NEW p \in Catalogue, NEW m \in 0 .. Cardinality(Catalogue), SetPriority(p, m)
      PROVE  RegistryInv'
  <2>0. m \in Nat
    <3>1. Cardinality(Catalogue) \in Nat
      BY RegistryAssumption, FS_CardinalityType
    <3> QED BY <3>1
  <2>1. PICK fs \in Seq(AnyEntry) : fs = Remaining(p) /\ ToSet(fs) = {e \in ToSet(es) : e.id # p}
    BY <1>0, RemainingFit
  <2>2. PICK target \in Nat : target = IF m < Len(fs) THEN m ELSE Len(fs)
    <3>1. Len(fs) \in Nat
      OBVIOUS
    <3> QED BY <2>0, <3>1
  <2>3. PICK gs : gs = [i \in 1 .. n |->
           [es[i] EXCEPT !.priority = IF es[i].id = p THEN target ELSE PlaceOf(es[i].id, fs, target)]]
    OBVIOUS
  <2>4. entries' = gs /\ UNCHANGED <<policy, route>>
    BY <1>0, <1>4, <2>1, <2>2, <2>3 DEF SetPriority
  <2>5. ASSUME NEW i \in 1 .. n
        PROVE  gs[i] \in AnyEntry /\ gs[i].id = es[i].id /\ gs[i].enabled = es[i].enabled
    <3>1. PICK e \in AnyEntry : e = es[i] /\ e \in ToSet(es)
      BY <1>0 DEF ToSet
    <3>2. PICK k : k = IF e.id = p THEN target ELSE PlaceOf(e.id, fs, target)
      OBVIOUS
    <3>3. k \in Nat
      <4>1. CASE e.id = p
        BY <3>2, <4>1
      <4>2. CASE e.id # p
        <5>1. \E j \in DOMAIN fs : fs[j].id = e.id
          BY <2>1, <3>1, <4>2 DEF ToSet
        <5>2. PICK j \in DOMAIN fs : j = CHOOSE x \in DOMAIN fs : fs[x].id = e.id
          BY <5>1
        <5>3. j \in Nat /\ j - 1 \in Nat
          OBVIOUS
        <5> QED BY <3>2, <4>2, <5>2, <5>3 DEF PlaceOf
      <4> QED BY <4>1, <4>2
    <3>4. gs[i] = [e EXCEPT !.priority = k]
      BY <2>3, <3>1, <3>2
    <3> QED BY <3>1, <3>3, <3>4 DEF AnyEntry
  <2>6. gs \in Seq(AnyEntry) /\ DOMAIN gs = 1 .. n
    BY <2>3, <2>5
  <2>7. ASSUME NEW d \in Enabled' PROVE \E e \in Enabled : e.id = d.id
    <3>1. PICK i \in 1 .. n : d = gs[i] /\ gs[i].enabled
      BY <2>4, <2>6 DEF Enabled, ToSet
    <3>2. es[i].enabled => es[i] \in Enabled
      BY <1>0 DEF Enabled, ToSet
    <3> QED BY <2>5, <3>1, <3>2
  <2> QED BY <1>t, <2>4, <2>6, <2>7, SilentEditStep
<1>5. ASSUME NEW new \in Policies, SetPolicy(new)
      PROVE  RegistryInv'
  <2>1. \A e \in Enabled' : e \in Enabled
    BY <1>5 DEF SetPolicy, Enabled
  <2> QED BY <1>t, <1>5, <2>1, SilentEditStep DEF SetPolicy
<1> QED BY <1>1, <1>2, <1>3, <1>4, <1>5 DEF EditRegistry

LEMMA RegistryInvStep == RegistryInv /\ [RegistryNext]_registryVars => RegistryInv'
<1> SUFFICES ASSUME RegistryInv, [RegistryNext]_registryVars PROVE RegistryInv'
  OBVIOUS
<1>t. /\ entries \in Seq(AnyEntry) /\ policy \in Policies /\ route \in [RouteCalls -> Routes]
      /\ \A c \in RouteCalls : GoodRoute(route[c])
  BY DEF RegistryInv
<1>1. CASE UNCHANGED registryVars
  BY <1>1, <1>t DEF registryVars, RegistryInv, GoodRoute, Enabled
<1>2. ASSUME NEW c \in RouteCalls, NEW r \in Routes, UNCHANGED <<entries, policy>>,
             route' = [route EXCEPT ![c] = r], GoodRoute(r)
      PROVE  RegistryInv'
  <2>1. Enabled' = Enabled
    BY <1>2 DEF Enabled
  <2>2. \A d \in RouteCalls : route'[d] = IF d = c THEN r ELSE route[d]
    BY <1>2, <1>t
  <2>3. ASSUME NEW d \in RouteCalls PROVE GoodRoute(route[d])'
    <3>1. PICK q \in Routes : q = route'[d] /\ GoodRoute(q)
      BY <1>2, <1>t, <2>2
    <3>2. GoodRoute(q)'
      BY <2>1, <3>1 DEF GoodRoute
    <3> QED BY <3>1, <3>2
  <2> QED BY <1>2, <1>t, <2>3 DEF RegistryInv
<1>3. ASSUME NEW c \in RouteCalls, NEW wanted \in SUBSET Catalogue, Route(c, wanted)
      PROVE  RegistryInv'
  <2>1. PICK looks \in Seq(AnyEntry) : looks = LooksAt(wanted) /\ ToSet(looks) \subseteq Enabled
    BY <1>t, LooksFit
  <2>2. PICK since \in SUBSET Catalogue : since = {e.id : e \in Enabled}
    <3>1. Enabled \subseteq AnyEntry
      BY <1>t DEF Enabled, ToSet
    <3> QED BY <3>1 DEF AnyEntry
  <2>3. PICK r : r = [at |-> "selecting", wanted |-> wanted, todo |-> looks, good |-> << >>,
                      since |-> since, policy |-> policy]
    OBVIOUS
  <2>4. /\ r \in Routes /\ r.at = "selecting" /\ r.todo = looks /\ r.good = << >> /\ r.since = since
    BY <1>t, <2>3 DEF Routes
  <2>5. ToSet(r.good) = {}
    BY <2>4 DEF ToSet
  <2>6. After(r) \in Routes /\ GoodRoute(After(r))
    BY <1>t, <2>1, <2>2, <2>4, <2>5, AfterFits DEF Within
  <2>7. route' = [route EXCEPT ![c] = After(r)] /\ UNCHANGED <<entries, policy>>
    BY <1>3, <2>1, <2>2, <2>3 DEF Route
  <2> QED BY <1>2, <2>6, <2>7
<1>4. ASSUME NEW c \in RouteCalls, NEW health \in {"reachable", "degraded", "down"}, CheckAnswers(c, health)
      PROVE  RegistryInv'
  <2>1. PICK r \in Routes : r = route[c] /\ GoodRoute(r) /\ r.at \in {"selecting", "ordering"}
    BY <1>4, <1>t DEF CheckAnswers
  <2>2. PICK todo \in Seq(AnyEntry), good \in Seq(AnyEntry) :
           todo = r.todo /\ good = r.good /\ todo # << >>
    BY <2>1 DEF Routes, GoodRoute
  <2>3. PICK e \in AnyEntry, rest \in Seq(AnyEntry) :
           e = Head(todo) /\ rest = Tail(todo) /\ ToSet(todo) = {e} \cup ToSet(rest)
    <3>1. /\ Head(todo) \in AnyEntry /\ Tail(todo) \in Seq(AnyEntry)
          /\ ToSet(todo) = {Head(todo)} \cup ToSet(Tail(todo))
      BY <2>2, FirstAndRest, Zenon
    <3> QED BY <3>1, Zenon
  <2>4. PICK more \in Seq(AnyEntry) : more = Append(good, e) /\ ToSet(more) = ToSet(good) \cup {e}
    BY OneAdded, Zenon
  <2>5. PICK usable \in BOOLEAN :
           UNCHANGED <<entries, policy>> /\ route' = [route EXCEPT ![c] = After(Checked(r, usable))]
    <3>1. PICK u : u = (\/ health = "reachable"
                        \/ health = "degraded" /\ r.policy.kind = "manual" /\ r.policy.pin = Head(r.todo).id)
      OBVIOUS
    <3>2. u \in BOOLEAN
      BY <3>1, Zenon
    <3>3. UNCHANGED <<entries, policy>> /\ route' = [route EXCEPT ![c] = After(Checked(r, u))]
      BY <1>4, <2>1, <3>1, Zenon DEF CheckAnswers
    <3> QED BY <3>2, <3>3
  <2>6. PICK found \in Seq(AnyEntry) :
           found = (IF usable THEN more ELSE good) /\ ToSet(found) \subseteq ToSet(good) \cup ToSet(todo)
    <3>1. ToSet(more) \subseteq ToSet(good) \cup ToSet(todo)
      BY <2>3, <2>4, Zenon
    <3> QED BY <3>1
  <2>7. PICK q : q = [r EXCEPT !.todo = rest, !.good = found]
    OBVIOUS
  <2>c. Checked(r, usable) = q
    BY <2>2, <2>3, <2>4, <2>6, <2>7 DEF Checked
  <2>8. /\ q \in Routes /\ q.at = r.at /\ q.todo = rest /\ q.good = found /\ q.since = r.since
    BY <2>7 DEF Routes
  <2>9. Within(q.todo, q.since) /\ Within(q.good, q.since) /\ \A d \in Enabled : d.id \in q.since
    <3>1. ToSet(found) \subseteq ToSet(good) \cup ToSet(todo) /\ ToSet(rest) \subseteq ToSet(todo)
      BY <2>3, <2>6, Zenon
    <3>2. Within(todo, r.since) /\ Within(good, r.since) /\ \A d \in Enabled : d.id \in r.since
      BY <2>1, <2>2 DEF GoodRoute
    <3> QED BY <2>8, <3>1, <3>2 DEF Within
  <2>10. After(q) \in Routes /\ GoodRoute(After(q))
    BY <1>t, <2>1, <2>8, <2>9, AfterFits
  <2>11. UNCHANGED <<entries, policy>> /\ route' = [route EXCEPT ![c] = After(q)]
    BY <2>5, <2>c, Zenon
  <2> QED BY <1>2, <2>10, <2>11
<1>5. ASSUME NEW c \in RouteCalls, InvocationFails(c)
      PROVE  RegistryInv'
  <2>1. PICK r \in Routes : r = route[c] /\ GoodRoute(r) /\ r.at = "invoking"
    BY <1>5, <1>t DEF InvocationFails
  <2>2. PICK todo \in Seq(AnyEntry), n \in Nat : todo = r.todo /\ n = Len(todo) /\ n > 0 /\ DOMAIN todo = 1 .. n
    <3>1. PICK todo \in Seq(AnyEntry) : todo = r.todo /\ todo # << >>
      BY <2>1 DEF Routes, GoodRoute
    <3>2. Len(todo) \in Nat /\ Len(todo) > 0 /\ DOMAIN todo = 1 .. Len(todo)
      BY <3>1
    <3> QED BY <3>1, <3>2
  <2>3. CASE n = 1
    <3>1. route' = [route EXCEPT ![c] = NoRoute]
      BY <1>5, <1>t, <2>1, <2>2, <2>3 DEF InvocationFails
    <3> QED BY <1>2, <1>5, <3>1, NoRouteFits DEF InvocationFails
  <2>4. CASE n # 1
    <3>1. PICK rest \in Seq(AnyEntry) :
             /\ rest = Tail(todo) /\ Len(rest) = n - 1 /\ DOMAIN rest = 1 .. n - 1
             /\ \A i \in 1 .. n - 1 : rest[i] = todo[i + 1]
      <4>1. PICK rest : rest = Tail(todo)
        OBVIOUS
      <4>2. rest \in Seq(AnyEntry) /\ Len(rest) = n - 1 /\ \A i \in 1 .. n - 1 : rest[i] = todo[i + 1]
        BY <2>2, <4>1
      <4>3. DOMAIN rest = 1 .. n - 1
        BY <4>2
      <4> QED BY <4>1, <4>2, <4>3, Zenon
    <3>2. PICK q : q = [r EXCEPT !.todo = rest]
      OBVIOUS
    <3>3. route' = [route EXCEPT ![c] = q]
      BY <1>5, <1>t, <2>1, <2>2, <2>4, <3>1, <3>2 DEF InvocationFails
    <3>4. /\ q \in Routes /\ q.at = "invoking" /\ q.todo = rest /\ q.good = r.good /\ q.since = r.since
          /\ q.policy = r.policy
      BY <2>1, <3>2 DEF Routes
    <3>5. \A i \in 1 .. n - 1 : i + 1 \in 1 .. n /\ rest[i] = todo[i + 1] /\ i \in Int
      BY <3>1
    <3>6. ToSet(rest) \subseteq ToSet(todo) /\ rest # << >>
      <4>1. DOMAIN rest = 1 .. n - 1 /\ 1 \in 1 .. n - 1 /\ DOMAIN todo = 1 .. n
        <5>1. n > 0 /\ n # 1
          BY <2>2, <2>4
        <5>2. 1 \in 1 .. n - 1
          BY <5>1
        <5> QED BY <2>2, <3>1, <5>2
      <4>2. DOMAIN << >> = {}
        OBVIOUS
      <4> QED BY <3>5, <4>1, <4>2 DEF ToSet
    <3>7. LocalsFirst(todo) => LocalsFirst(rest)
      <4>1. DOMAIN rest = 1 .. n - 1 /\ DOMAIN todo = 1 .. n
        BY <2>2, <3>1
      <4>2. \A k, l \in 1 .. n - 1 : k < l => k + 1 < l + 1
        OBVIOUS
      <4> QED BY <3>5, <4>1, <4>2 DEF LocalsFirst
    <3>8. GoodRoute(q)
      BY <2>1, <2>2, <3>4, <3>6, <3>7 DEF GoodRoute, Within
    <3> QED BY <1>2, <1>5, <3>3, <3>4, <3>8 DEF InvocationFails
  <2> QED BY <2>3, <2>4
<1>6. ASSUME NEW c \in RouteCalls, InvocationReturns(c)
      PROVE  RegistryInv'
  BY <1>2, <1>6, NoRouteFits DEF InvocationReturns
<1> QED BY <1>1, <1>3, <1>4, <1>5, <1>6, EditRegistryStep DEF RegistryNext

\* However the registry is edited between the health checks of a request, the request
\* invokes no provider that was disabled all along, and under "privacy-first" no cloud
\* provider before a local one (provider-registry.ts, select, orderedCandidates, order).
THEOREM RoutedAsConfiguredHolds == RegistrySpec => []RoutedAsConfigured
<1>1. ASSUME RegistryInv, NEW c \in RouteCalls, route[c].at = "invoking"
      PROVE  /\ Head(route[c].todo).id \in route[c].since
             /\ route[c].policy.kind = "privacy-first" /\ Head(route[c].todo).id \notin LocalOnes
                   => Ids(route[c].todo) \cap LocalOnes = {}
  <2>1. PICK r \in Routes : r = route[c] /\ GoodRoute(r) /\ r.at = "invoking"
    BY <1>1 DEF RegistryInv
  <2>2. PICK todo \in Seq(AnyEntry), n \in Nat : todo = r.todo /\ n > 0 /\ DOMAIN todo = 1 .. n
    <3>1. PICK todo \in Seq(AnyEntry) : todo = r.todo /\ todo # << >>
      BY <2>1 DEF Routes, GoodRoute
    <3>2. Len(todo) \in Nat /\ Len(todo) > 0 /\ DOMAIN todo = 1 .. Len(todo)
      BY <3>1
    <3> QED BY <3>1, <3>2
  <2>3. Head(todo) = todo[1] /\ 1 \in 1 .. n /\ todo[1] \in ToSet(todo)
    BY <2>2 DEF ToSet
  <2>4. \A i \in 1 .. n : i = 1 \/ 1 < i
    OBVIOUS
  <2>5. LocalsFirst(todo) /\ todo[1].id \notin LocalOnes => \A i \in 1 .. n : todo[i].id \notin LocalOnes
    BY <2>2, <2>3, <2>4 DEF LocalsFirst
  <2> QED BY <2>1, <2>2, <2>3, <2>5 DEF GoodRoute, Within, Ids
<1>2. RegistryInv => RoutedAsConfigured
  BY <1>1 DEF RoutedAsConfigured, OnlyEnabledInvoked, LocalComesFirst
<1> QED BY <1>2, RegistryInvInit, RegistryInvStep, PTL DEF RegistrySpec
-----------------------------------------------------------------------------
(***************************************************************************)
(* The knowledge graph, in memory and in its tables.                        *)
(***************************************************************************)
GraphNodes == [Nodes -> Node \cup {NoNode}]
GraphEdges == [Edges -> Edge \cup {NoEdge}]
GraphWrite == [id : Nodes, row : Node] \cup [id : Edges, row : Edge]

JoinsKnown(ns, es) ==
    \A e \in Edges : es[e] # NoEdge =>
        ns[es[e].from] # NoNode /\ ns[es[e].to] # NoNode /\ es[e].from # es[e].to

\* No write of w is about n.
Silent(w, n) == \A i \in DOMAIN w : w[i].id # n

\* The last one about n has the row.
Tells(w, n, row) ==
    \E i \in DOMAIN w :
        w[i].id = n /\ w[i].row = row /\ \A j \in DOMAIN w : j > i => w[j].id # n

\* The table has the node when the writes have landed.
Written(n) ==
    \/ Tells(unwritten, n, nodes[n])
    \/ Silent(unwritten, n) /\ nodeTable[n] = nodes[n]

GraphInv ==
    /\ nodes \in GraphNodes /\ nodeTable \in GraphNodes
    /\ edges \in GraphEdges /\ edgeTable \in GraphEdges
    /\ unwritten \in Seq(GraphWrite)
    /\ JoinsKnown(nodes, edges)
    /\ ~ failed => \A n \in Nodes : Written(n)

LEMMA GraphInvInit == GraphInit => GraphInv
<1> SUFFICES ASSUME GraphInit PROVE GraphInv
  OBVIOUS
<1>1. PICK none \in Seq(GraphWrite) : none = <<>> /\ DOMAIN none = {}
  BY NoElement, Zenon
<1>2. unwritten = none
  BY <1>1 DEF GraphInit
<1>3. nodeTable = nodes /\ nodes \in GraphNodes /\ edgeTable = edges /\ edges \in GraphEdges
  BY DEF GraphInit, GraphNodes, GraphEdges
<1>4. JoinsKnown(nodes, edges)
  BY DEF GraphInit, JoinsKnown
<1>5. \A n \in Nodes : Written(n)
  BY <1>1, <1>2, <1>3 DEF Written, Silent
<1> QED BY <1>1, <1>2, <1>3, <1>4, <1>5 DEF GraphInv

\* More writes: the last word is theirs, where they say anything.
LEMMA TellsJoined ==
    ASSUME NEW X, NEW r \in Seq(X), NEW s \in Seq(X), NEW t \in Seq(X), Joins(r, s, t), NEW n, NEW row
    PROVE  /\ Tells(t, n, row) => Tells(r, n, row)
           /\ Tells(s, n, row) /\ Silent(t, n) => Tells(r, n, row)
           /\ Silent(s, n) /\ Silent(t, n) => Silent(r, n)
<1>1. PICK k \in Nat, l \in Nat :
         k = Len(s) /\ l = Len(t) /\ DOMAIN s = 1 .. k /\ DOMAIN t = 1 .. l /\ DOMAIN r = 1 .. k + l
  BY DEF Joins
<1>2. (\A i \in 1 .. k : r[i] = s[i]) /\ \A i \in 1 .. l : r[k + i] = t[i]
  BY <1>1 DEF Joins
<1>3. \A i \in 1 .. k + l : i \in 1 .. k \/ (i - k \in 1 .. l /\ i = k + (i - k))
  OBVIOUS
<1>4. ASSUME NEW i \in 1 .. k + l, i > k PROVE i - k \in 1 .. l /\ r[i] = t[i - k]
  <2>1. i - k \in 1 .. l /\ i = k + (i - k)
    BY <1>4
  <2> QED BY <1>2, <2>1
<1>5. ASSUME Tells(t, n, row) PROVE Tells(r, n, row)
  <2>1. PICK i \in 1 .. l : t[i].id = n /\ t[i].row = row /\ \A j \in 1 .. l : j > i => t[j].id # n
    BY <1>1, <1>5 DEF Tells
  <2>2. k + i \in 1 .. k + l /\ r[k + i] = t[i]
    BY <1>2
  <2>3. ASSUME NEW j \in 1 .. k + l, j > k + i PROVE r[j].id # n
    <3>1. j > k /\ j - k > i
      BY <2>3
    <3> QED BY <1>4, <2>1, <3>1
  <2> QED BY <1>1, <2>1, <2>2, <2>3 DEF Tells
<1>6. ASSUME Tells(s, n, row), Silent(t, n) PROVE Tells(r, n, row)
  <2>1. PICK i \in 1 .. k : s[i].id = n /\ s[i].row = row /\ \A j \in 1 .. k : j > i => s[j].id # n
    BY <1>1, <1>6 DEF Tells
  <2>2. i \in 1 .. k + l /\ r[i] = s[i]
    BY <1>2
  <2>3. ASSUME NEW j \in 1 .. k + l, j > i PROVE r[j].id # n
    <3>1. CASE j > k
      BY <1>1, <1>4, <1>6, <3>1 DEF Silent
    <3>2. CASE ~ j > k
      <4>1. j \in 1 .. k
        BY <3>2
      <4> QED BY <1>2, <2>1, <2>3, <4>1
    <3> QED BY <3>1, <3>2
  <2> QED BY <1>1, <2>1, <2>2, <2>3 DEF Tells
<1>7. ASSUME Silent(s, n), Silent(t, n) PROVE Silent(r, n)
  <2>1. ASSUME NEW j \in 1 .. k + l PROVE r[j].id # n
    <3>1. CASE j > k
      BY <1>1, <1>4, <1>7, <3>1 DEF Silent
    <3>2. CASE ~ j > k
      <4>1. j \in 1 .. k
        BY <3>2
      <4> QED BY <1>1, <1>2, <1>7, <4>1 DEF Silent
    <3> QED BY <3>1, <3>2
  <2> QED BY <1>1, <2>1 DEF Silent
<1> QED BY <1>5, <1>6, <1>7

\* The first write lands: it was the last word, or there is a later one.
LEMMA TellsRest ==
    ASSUME NEW X, NEW w \in Seq(X), w # << >>, NEW n, NEW row
    PROVE  /\ Head(w) \in X /\ Tail(w) \in Seq(X)
           /\ Tells(w, n, row) =>
                \/ Tells(Tail(w), n, row)
                \/ Silent(Tail(w), n) /\ Head(w).id = n /\ Head(w).row = row
           /\ Silent(w, n) => Silent(Tail(w), n) /\ Head(w).id # n
<1>1. PICK k \in Nat : k = Len(w) /\ k > 0 /\ DOMAIN w = 1 .. k
  OBVIOUS
<1>2. PICK t \in Seq(X) : t = Tail(w) /\ DOMAIN t = 1 .. k - 1 /\ \A i \in 1 .. k - 1 : t[i] = w[i + 1]
  <2>1. PICK t : t = Tail(w)
    OBVIOUS
  <2>2. t \in Seq(X) /\ Len(t) = k - 1
    BY <1>1, <2>1
  <2>3. \A i \in 1 .. k - 1 : t[i] = w[i + 1]
    BY <1>1, <2>1
  <2>4. DOMAIN t = 1 .. k - 1
    BY <2>2
  <2> QED BY <2>1, <2>2, <2>3, <2>4, Zenon
<1>3. Head(w) = w[1] /\ w[1] \in X /\ 1 \in 1 .. k
  BY <1>1
<1>4. \A i \in 1 .. k - 1 : i + 1 \in 1 .. k
  OBVIOUS
<1>5. ASSUME Tells(w, n, row)
      PROVE  \/ Tells(t, n, row)
             \/ Silent(t, n) /\ Head(w).id = n /\ Head(w).row = row
  <2>1. PICK i \in 1 .. k : w[i].id = n /\ w[i].row = row /\ \A j \in 1 .. k : j > i => w[j].id # n
    BY <1>1, <1>5 DEF Tells
  <2>2. CASE i = 1
    <3>1. ASSUME NEW j \in 1 .. k - 1 PROVE t[j].id # n
      <4>1. j + 1 \in 1 .. k /\ j + 1 > i
        BY <2>2
      <4> QED BY <1>2, <2>1, <4>1
    <3> QED BY <1>2, <1>3, <2>1, <2>2, <3>1 DEF Silent
  <2>3. CASE i # 1
    <3>1. i - 1 \in 1 .. k - 1 /\ (i - 1) + 1 = i
      BY <2>3
    <3>2. t[i - 1] = w[i]
      BY <1>2, <3>1
    <3>3. ASSUME NEW j \in 1 .. k - 1, j > i - 1 PROVE t[j].id # n
      <4>1. j + 1 \in 1 .. k /\ j + 1 > i
        BY <3>3
      <4> QED BY <1>2, <2>1, <4>1
    <3> QED BY <1>2, <2>1, <3>1, <3>2, <3>3 DEF Tells
  <2> QED BY <2>2, <2>3
<1>6. Silent(w, n) => Silent(t, n) /\ Head(w).id # n
  BY <1>1, <1>2, <1>3, <1>4 DEF Silent
<1> QED BY <1>2, <1>3, <1>5, <1>6

LEMMA NodeWritesTell ==
    ASSUME NEW ns, NEW ids \in Seq(Nodes), \A n \in ToSet(ids) : ns[n] \in Node
    PROVE  /\ NodeWrites(ns, ids) \in Seq(GraphWrite)
           /\ \A n : n \notin ToSet(ids) => Silent(NodeWrites(ns, ids), n)
           /\ \A n \in ToSet(ids) : Tells(NodeWrites(ns, ids), n, ns[n])
<1>1. PICK k \in Nat : k = Len(ids) /\ DOMAIN ids = 1 .. k
  OBVIOUS
<1>2. \A i \in 1 .. k : ids[i] \in Nodes /\ ids[i] \in ToSet(ids)
  BY <1>1 DEF ToSet
<1>3. PICK w : w = NodeWrites(ns, ids)
  OBVIOUS
<1>4. w = [i \in 1 .. k |-> [id |-> ids[i], row |-> ns[ids[i]]]]
  BY <1>1, <1>3 DEF NodeWrites
<1>5. \A i \in 1 .. k : w[i].id = ids[i] /\ w[i].row = ns[ids[i]] /\ w[i] \in GraphWrite
  BY <1>2, <1>4 DEF GraphWrite
<1>6. w \in Seq(GraphWrite) /\ DOMAIN w = 1 .. k
  <2>1. DOMAIN w = 1 .. k /\ w = [i \in 1 .. k |-> w[i]]
    BY <1>4
  <2>2. w \in [1 .. k -> GraphWrite]
    BY <1>5, <2>1
  <2> QED BY <2>1, <2>2
<1>7. ASSUME NEW n, n \notin ToSet(ids) PROVE Silent(w, n)
  BY <1>2, <1>5, <1>6, <1>7 DEF Silent
<1>8. ASSUME NEW n \in ToSet(ids) PROVE Tells(w, n, ns[n])
  <2>1. PICK I : I = {i \in 1 .. k : ids[i] = n}
    OBVIOUS
  <2>2. I # {}
    BY <1>1, <2>1 DEF ToSet
  <2>3. I \in SUBSET (0 .. k)
    BY <2>1
  <2>4. PICK i \in I : \A j \in I : j <= i
    BY <2>2, <2>3, Greatest
  <2>5. \A j \in 1 .. k : j > i => ids[j] # n
    <3>1. \A j \in 1 .. k : j > i => ~ j <= i
      BY <2>1
    <3> QED BY <2>1, <2>4, <3>1
  <2> QED BY <1>5, <1>6, <2>1, <2>4, <2>5 DEF Tells
<1> QED BY <1>3, <1>6, <1>7, <1>8

LEMMA EdgeWritesSilent ==
    ASSUME NEW es, NEW ids \in Seq(Edges), \A e \in ToSet(ids) : es[e] \in Edge
    PROVE  /\ EdgeWrites(es, ids) \in Seq(GraphWrite)
           /\ \A n \in Nodes : Silent(EdgeWrites(es, ids), n)
<1>1. PICK k \in Nat : k = Len(ids) /\ DOMAIN ids = 1 .. k
  OBVIOUS
<1>2. \A i \in 1 .. k : ids[i] \in Edges /\ ids[i] \in ToSet(ids)
  BY <1>1 DEF ToSet
<1>3. PICK w : w = EdgeWrites(es, ids)
  OBVIOUS
<1>4. w = [i \in 1 .. k |-> [id |-> ids[i], row |-> es[ids[i]]]]
  BY <1>1, <1>3 DEF EdgeWrites
<1>5. \A i \in 1 .. k : w[i].id = ids[i] /\ w[i] \in GraphWrite
  BY <1>2, <1>4 DEF GraphWrite
<1>6. w \in Seq(GraphWrite) /\ DOMAIN w = 1 .. k
  BY <1>4, <1>5
<1>7. \A n \in Nodes : Silent(w, n)
  BY <1>2, <1>5, <1>6, GraphAssumption DEF Silent
<1> QED BY <1>3, <1>6, <1>7

\* The writes tell of every node that has changed.
TellsAll(writes, ns) ==
    \A n \in Nodes : Tells(writes, n, ns[n]) \/ (Silent(writes, n) /\ ns[n] = nodes[n])

LEMMA MutatedInv ==
    ASSUME GraphInv, NEW ns \in GraphNodes, NEW es \in GraphEdges, NEW writes \in Seq(GraphWrite),
           Mutated(ns, es, writes), JoinsKnown(ns, es), TellsAll(writes, ns)
    PROVE  GraphInv'
<1>1. PICK old \in Seq(GraphWrite) : old = unwritten
  BY DEF GraphInv
<1>2. PICK new \in Seq(GraphWrite) : new = old \o writes /\ Joins(new, old, writes)
  BY Joined, Zenon
<1>3. /\ nodes' = ns /\ edges' = es /\ unwritten' = new
      /\ nodeTable' = nodeTable /\ edgeTable' = edgeTable /\ failed' = failed
  BY <1>1, <1>2, Zenon DEF Mutated
<1>4. ASSUME ~ failed, NEW n \in Nodes PROVE Written(n)'
  <2>1. Tells(old, n, nodes[n]) \/ (Silent(old, n) /\ nodeTable[n] = nodes[n])
    BY <1>1, <1>4 DEF GraphInv, Written
  <2>2. CASE Tells(writes, n, ns[n])
    <3>1. Tells(new, n, ns[n])
      BY <1>2, <2>2, TellsJoined
    <3> QED BY <1>3, <3>1 DEF Written
  <2>3. CASE Silent(writes, n) /\ ns[n] = nodes[n]
    <3>1. Tells(old, n, ns[n]) => Tells(new, n, ns[n])
      BY <1>2, <2>3, TellsJoined
    <3>2. Silent(old, n) => Silent(new, n)
      BY <1>2, <2>3, TellsJoined
    <3> QED BY <1>3, <2>1, <2>3, <3>1, <3>2 DEF Written
  <2> QED BY <2>2, <2>3 DEF TellsAll
<1> QED BY <1>3, <1>4 DEF GraphInv

\* A node is written, and the graph is otherwise as it was.
LEMMA OneNodeWritten ==
    ASSUME GraphInv, NEW n \in Nodes, NEW ns \in GraphNodes, ns[n] \in Node,
           \A m \in Nodes : m # n => ns[m] = nodes[m], Mutated(ns, edges, NodeWrites(ns, <<n>>))
    PROVE  GraphInv'
<1>1. PICK ids \in Seq(Nodes) : ids = <<n>> /\ ToSet(ids) = {n}
  BY OnlyElement, Zenon
<1>2. PICK writes : writes = NodeWrites(ns, ids)
  OBVIOUS
<1>3. Mutated(ns, edges, writes)
  BY <1>1, <1>2
<1>4. /\ writes \in Seq(GraphWrite)
      /\ \A m : m \notin {n} => Silent(writes, m)
      /\ Tells(writes, n, ns[n])
  BY <1>1, <1>2, NodeWritesTell
<1>5. TellsAll(writes, ns)
  BY <1>4 DEF TellsAll
<1>6. \A m \in Nodes : nodes[m] # NoNode => ns[m] # NoNode
  BY GraphAssumption
<1>7. \A e \in Edges : edges[e] # NoEdge => edges[e] \in Edge
  BY DEF GraphInv, GraphEdges
<1>8. JoinsKnown(ns, edges)
  BY <1>6, <1>7 DEF GraphInv, JoinsKnown, Edge
<1> QED BY <1>3, <1>4, <1>5, <1>8, MutatedInv DEF GraphInv

LEMMA NodeAdded ==
    ASSUME GraphInv, NEW n \in Nodes, AddNode(n)
    PROVE  GraphInv'
<1> PICK ns : ns = [nodes EXCEPT ![n] = [active |-> TRUE, aliases |-> {}]]
  OBVIOUS
<1>1. [active |-> TRUE, aliases |-> {}] \in Node
  BY DEF Node
<1>2. /\ ns \in GraphNodes /\ ns[n] \in Node
      /\ \A m \in Nodes : m # n => ns[m] = nodes[m]
  BY <1>1 DEF GraphInv, GraphNodes
<1>3. Mutated(ns, edges, NodeWrites(ns, <<n>>))
  BY DEF AddNode
<1> QED BY <1>2, <1>3, OneNodeWritten

LEMMA NodeMarkedInactive ==
    ASSUME GraphInv, NEW n \in Nodes, MarkInactive(n)
    PROVE  GraphInv'
<1> PICK ns : ns = [nodes EXCEPT ![n].active = FALSE]
  OBVIOUS
<1>1. nodes[n] \in Node
  BY DEF MarkInactive, Known, GraphInv, GraphNodes
<1>2. /\ ns \in GraphNodes /\ ns[n] \in Node
      /\ \A m \in Nodes : m # n => ns[m] = nodes[m]
  BY <1>1 DEF GraphInv, GraphNodes, Node
<1>3. Mutated(ns, edges, NodeWrites(ns, <<n>>))
  BY DEF MarkInactive
<1> QED BY <1>2, <1>3, OneNodeWritten

LEMMA AliasAdded ==
    ASSUME GraphInv, NEW n \in Nodes, NEW alias \in Nodes, AddAlias(n, alias)
    PROVE  GraphInv'
<1> PICK ns : ns = [nodes EXCEPT ![n].aliases = @ \cup ({alias} \ {n})]
  OBVIOUS
<1>1. nodes[n] \in Node
  BY DEF AddAlias, Known, GraphInv, GraphNodes
<1>2. /\ ns \in GraphNodes /\ ns[n] \in Node
      /\ \A m \in Nodes : m # n => ns[m] = nodes[m]
  BY <1>1 DEF GraphInv, GraphNodes, Node
<1>3. Mutated(ns, edges, NodeWrites(ns, <<n>>))
  BY DEF AddAlias
<1> QED BY <1>2, <1>3, OneNodeWritten

LEMMA EdgeAdded ==
    ASSUME GraphInv, NEW e \in Edges, NEW from \in Nodes, NEW to \in Nodes, AddEdge(e, from, to)
    PROVE  GraphInv'
<1> PICK new : new = [from |-> from, to |-> to]
  OBVIOUS
<1> PICK es : es = [edges EXCEPT ![e] = new]
  OBVIOUS
<1>1. new \in Edge /\ new.from = from /\ new.to = to
  BY DEF Edge
<1>2. nodes[from] # NoNode /\ nodes[to] # NoNode /\ from # to
  BY <1>1 DEF AddEdge, Admits, PathExists
<1>3. /\ es \in GraphEdges /\ es[e] = new
      /\ \A d \in Edges : d # e => es[d] = edges[d]
  BY <1>1 DEF GraphInv, GraphEdges
<1>4. JoinsKnown(nodes, es)
  BY <1>1, <1>2, <1>3 DEF GraphInv, JoinsKnown
<1>5. PICK ids \in Seq(Edges) : ids = <<e>> /\ ToSet(ids) = {e}
  BY OnlyElement, Zenon
<1>6. PICK writes : writes = EdgeWrites(es, ids)
  OBVIOUS
<1>7. Mutated(nodes, es, writes)
  BY <1>5, <1>6 DEF AddEdge
<1>8. writes \in Seq(GraphWrite) /\ \A n \in Nodes : Silent(writes, n)
  BY <1>1, <1>3, <1>5, <1>6, EdgeWritesSilent
<1>9. TellsAll(writes, nodes)
  BY <1>8 DEF TellsAll
<1> QED BY <1>3, <1>4, <1>7, <1>8, <1>9, MutatedInv DEF GraphInv

\* The edges of some nodes, in some order.
LEMMA TouchingListed ==
    ASSUME NEW es \in GraphEdges, NEW ids
    PROVE  Touching(es, ids) \in Seq(Edges) /\ \A e \in ToSet(Touching(es, ids)) : es[e] \in Edge
<1>1. PICK S : S = {e \in Edges : es[e] # NoEdge /\ (es[e].from \in ids \/ es[e].to \in ids)}
  OBVIOUS
<1>2. S \subseteq Edges /\ \A e \in S : es[e] \in Edge
  BY <1>1 DEF GraphEdges
<1>3. IsFiniteSet(S)
  BY <1>2, GraphAssumption, FS_Subset
<1>4. Touching(es, ids) \in Seq(S) /\ ToSet(Touching(es, ids)) = S
  BY <1>1, <1>3, ListedSet DEF Touching
<1> QED BY <1>2, <1>4

\* Writes of nodes, and of others, and of edges.
LEMMA WritesJoined ==
    ASSUME GraphInv, NEW ns,
           NEW a \in Seq(GraphWrite), NEW b \in Seq(GraphWrite), NEW c \in Seq(GraphWrite),
           \A n \in Nodes : Silent(c, n),
           \A n \in Nodes : \/ Tells(b, n, ns[n])
                            \/ Silent(b, n) /\ Tells(a, n, ns[n])
                            \/ Silent(b, n) /\ Silent(a, n) /\ ns[n] = nodes[n]
    PROVE  (a \o b) \o c \in Seq(GraphWrite) /\ TellsAll((a \o b) \o c, ns)
<1>1. PICK ab \in Seq(GraphWrite) : ab = a \o b /\ Joins(ab, a, b)
  BY Joined, Zenon
<1>2. PICK abc \in Seq(GraphWrite) : abc = ab \o c /\ Joins(abc, ab, c)
  BY Joined, Zenon
<1>3. ASSUME NEW n \in Nodes
      PROVE  Tells(abc, n, ns[n]) \/ (Silent(abc, n) /\ ns[n] = nodes[n])
  <2>1. Tells(ab, n, ns[n]) \/ (Silent(ab, n) /\ ns[n] = nodes[n])
    BY <1>1, TellsJoined
  <2> QED BY <1>2, <2>1, TellsJoined
<1>4. (a \o b) \o c = abc
  BY <1>1, <1>2, Zenon
<1>5. abc \in Seq(GraphWrite) /\ TellsAll(abc, ns)
  BY <1>3 DEF TellsAll
<1> QED BY <1>4, <1>5, Zenon

LEMMA NodesMerged ==
    ASSUME GraphInv, NEW canonical \in Nodes, NEW duplicate \in Nodes, MergeNodes(canonical, duplicate)
    PROVE  GraphInv'
<1> PICK aliases : aliases = (nodes[canonical].aliases \cup nodes[duplicate].aliases \cup {duplicate})
                               \ {canonical}
  OBVIOUS
<1> PICK updated : updated = [nodes EXCEPT ![canonical].aliases = aliases]
  OBVIOUS
<1> PICK ns : ns = [updated EXCEPT ![duplicate] = [nodes[duplicate] EXCEPT !.active = FALSE]]
  OBVIOUS
<1> PICK es : es = MergedEdges(canonical, duplicate)
  OBVIOUS
<1>1. nodes[canonical] \in Node /\ nodes[duplicate] \in Node
  BY DEF MergeNodes, Known, GraphInv, GraphNodes
<1>2. /\ nodes[canonical].active \in BOOLEAN /\ aliases \subseteq Nodes
      /\ nodes[duplicate].aliases \subseteq Nodes
  BY <1>1 DEF Node
<1>3. [nodes[canonical] EXCEPT !.aliases = aliases] \in Node
  BY <1>1, <1>2 DEF Node
<1>4. [nodes[duplicate] EXCEPT !.active = FALSE] \in Node
  BY <1>1 DEF Node
<1>5. /\ updated \in GraphNodes /\ updated[canonical] \in Node
      /\ \A n \in Nodes : n # canonical => updated[n] = nodes[n]
  BY <1>3 DEF GraphInv, GraphNodes
<1>6. /\ ns \in GraphNodes /\ ns[duplicate] \in Node /\ ns[canonical] \in Node
      /\ \A n \in Nodes : n # duplicate => ns[n] = updated[n]
  BY <1>4, <1>5 DEF GraphNodes
<1>7. \A n \in Nodes : nodes[n] # NoNode => ns[n] # NoNode
  BY <1>5, <1>6, GraphAssumption
<1>8. \A e \in Edges : edges[e] # NoEdge => edges[e] \in Edge
  BY DEF GraphInv, GraphEdges
<1>9. ASSUME NEW e \in Edges
      PROVE  \/ es[e] = NoEdge
             \/ /\ es[e] \in Edge /\ es[e].from # es[e].to
                /\ ns[es[e].from] # NoNode /\ ns[es[e].to] # NoNode
  <2>1. PICK new : new = Repointed(edges[e], duplicate, canonical)
    OBVIOUS
  <2>2. es[e] = IF edges[e] = NoEdge THEN NoEdge ELSE IF new.from = new.to THEN NoEdge ELSE new
    BY <2>1 DEF MergedEdges
  <2>3. CASE edges[e] # NoEdge
    <3>1. PICK from \in Nodes, to \in Nodes :
             edges[e] = [from |-> from, to |-> to] /\ edges[e].from = from /\ edges[e].to = to
      BY <1>8, <2>3 DEF Edge
    <3>2. ns[from] # NoNode /\ ns[to] # NoNode /\ ns[canonical] # NoNode
      BY <1>6, <1>7, <2>3, <3>1, GraphAssumption DEF GraphInv, JoinsKnown
    <3>3. /\ new \in Edge
          /\ new.from = IF from = duplicate THEN canonical ELSE from
          /\ new.to = IF to = duplicate THEN canonical ELSE to
      BY <2>1, <3>1 DEF Repointed, Edge
    <3> QED BY <2>2, <3>2, <3>3
  <2> QED BY <2>2, <2>3
<1>10. es \in GraphEdges /\ JoinsKnown(ns, es)
  <2>1. es = [e \in Edges |-> es[e]]
    BY DEF MergedEdges
  <2>2. \A e \in Edges : es[e] \in Edge \cup {NoEdge}
    BY <1>9
  <2> HIDE DEF MergedEdges
  <2>3. es \in GraphEdges
    BY <2>1, <2>2 DEF GraphEdges
  <2> QED BY <1>9, <2>3 DEF JoinsKnown
<1>11. PICK first \in Seq(Nodes) : first = <<canonical>> /\ ToSet(first) = {canonical}
  BY OnlyElement, Zenon
<1>12. PICK second \in Seq(Nodes) : second = <<duplicate>> /\ ToSet(second) = {duplicate}
  BY OnlyElement, Zenon
<1>13. PICK ids \in Seq(Edges) :
          ids = Touching(es, {canonical, duplicate}) /\ \A e \in ToSet(ids) : es[e] \in Edge
  BY <1>10, TouchingListed
<1>14. PICK a, b, c : a = NodeWrites(updated, first) /\ b = NodeWrites(ns, second) /\ c = EdgeWrites(es, ids)
  OBVIOUS
<1>15. /\ a \in Seq(GraphWrite) /\ Tells(a, canonical, updated[canonical])
       /\ \A n : n \notin {canonical} => Silent(a, n)
  BY <1>5, <1>11, <1>14, NodeWritesTell
<1>16. /\ b \in Seq(GraphWrite) /\ Tells(b, duplicate, ns[duplicate])
       /\ \A n : n \notin {duplicate} => Silent(b, n)
  BY <1>6, <1>12, <1>14, NodeWritesTell
<1>17. c \in Seq(GraphWrite) /\ \A n \in Nodes : Silent(c, n)
  BY <1>13, <1>14, EdgeWritesSilent
<1>18. Mutated(ns, es, (a \o b) \o c)
  BY <1>11, <1>12, <1>13, <1>14, Zenon DEF MergeNodes, MergedNodeWrites
<1>19. ASSUME NEW n \in Nodes
       PROVE  \/ Tells(b, n, ns[n])
              \/ Silent(b, n) /\ Tells(a, n, ns[n])
              \/ Silent(b, n) /\ Silent(a, n) /\ ns[n] = nodes[n]
  <2>1. n = duplicate => Tells(b, n, ns[n])
    BY <1>16
  <2>2. n # duplicate => Silent(b, n) /\ ns[n] = updated[n]
    <3>1. n # duplicate => Silent(b, n)
      BY <1>16
    <3>2. n # duplicate => ns[n] = updated[n]
      BY <1>6
    <3> QED BY <3>1, <3>2
  <2>3. n = canonical => Tells(a, n, updated[n])
    BY <1>15
  <2>4. n # canonical => Silent(a, n) /\ updated[n] = nodes[n]
    BY <1>5, <1>15
  <2> QED BY <2>1, <2>2, <2>3, <2>4
<1>20. PICK writes : writes = (a \o b) \o c /\ writes \in Seq(GraphWrite) /\ TellsAll(writes, ns)
  BY <1>15, <1>16, <1>17, <1>19, WritesJoined, Zenon
<1>21. Mutated(ns, es, writes)
  BY <1>18, <1>20, Zenon
<1> QED BY <1>6, <1>10, <1>20, <1>21, MutatedInv

LEMMA NodeSplit ==
    ASSUME GraphInv, NEW source \in Nodes, NEW alias \in Nodes, NEW new \in Nodes, NEW moved \in SUBSET Edges,
           SplitNode(source, alias, new, moved)
    PROVE  GraphInv'
<1> PICK ns : ns = [nodes EXCEPT ![new] = [active |-> TRUE, aliases |-> {}],
                                 ![source].aliases = @ \ {alias}]
  OBVIOUS
<1> PICK es : es = [e \in Edges |->
                      IF e \in moved /\ edges[e] # NoEdge THEN Repointed(edges[e], source, new) ELSE edges[e]]
  OBVIOUS
<1>1. nodes[source] \in Node /\ nodes[new] = NoNode /\ source # new
  BY GraphAssumption DEF SplitNode, Known, GraphInv, GraphNodes
<1>2. [active |-> TRUE, aliases |-> {}] \in Node
  BY DEF Node
<1>3. [nodes[source] EXCEPT !.aliases = @ \ {alias}] \in Node
  BY <1>1 DEF Node
<1>4. /\ ns \in GraphNodes /\ ns[new] \in Node /\ ns[source] \in Node
      /\ \A n \in Nodes : n # new /\ n # source => ns[n] = nodes[n]
  BY <1>1, <1>2, <1>3 DEF GraphInv, GraphNodes
<1>5. \A n \in Nodes : nodes[n] # NoNode => ns[n] # NoNode
  BY <1>4, GraphAssumption
<1>6. \A e \in Edges : edges[e] # NoEdge => edges[e] \in Edge
  BY DEF GraphInv, GraphEdges
<1>7. ASSUME NEW e \in Edges
      PROVE  \/ es[e] = NoEdge
             \/ /\ es[e] \in Edge /\ es[e].from # es[e].to
                /\ ns[es[e].from] # NoNode /\ ns[es[e].to] # NoNode
  <2>1. CASE edges[e] = NoEdge
    BY <2>1
  <2>2. CASE edges[e] # NoEdge
    <3>1. PICK from \in Nodes, to \in Nodes :
             edges[e] = [from |-> from, to |-> to] /\ edges[e].from = from /\ edges[e].to = to
      BY <1>6, <2>2 DEF Edge
    <3>2. /\ nodes[from] # NoNode /\ nodes[to] # NoNode /\ from # to /\ from # new /\ to # new
          /\ ns[from] # NoNode /\ ns[to] # NoNode /\ ns[new] # NoNode
      BY <1>1, <1>4, <1>5, <2>2, <3>1, GraphAssumption DEF GraphInv, JoinsKnown
    <3>3. PICK pointed : pointed = Repointed(edges[e], source, new)
      OBVIOUS
    <3>4. /\ pointed \in Edge
          /\ pointed.from = IF from = source THEN new ELSE from
          /\ pointed.to = IF to = source THEN new ELSE to
      BY <3>1, <3>3 DEF Repointed, Edge
    <3>5. es[e] = pointed \/ es[e] = edges[e]
      BY <3>3
    <3> QED BY <1>6, <2>2, <3>1, <3>2, <3>4, <3>5
  <2> QED BY <2>1, <2>2
<1>8. es \in GraphEdges /\ JoinsKnown(ns, es)
  <2>1. es = [e \in Edges |-> es[e]]
    OBVIOUS
  <2>2. \A e \in Edges : es[e] \in Edge \cup {NoEdge}
    BY <1>7
  <2>3. es \in GraphEdges
    BY <2>1, <2>2 DEF GraphEdges
  <2> QED BY <1>7, <2>3 DEF JoinsKnown
<1>9. PICK both \in Seq(Nodes) : both = <<new, source>> /\ ToSet(both) = {new, source}
  BY OnlyElements, Zenon
<1>10. PICK all \in Seq(Edges) : all = Touching(es, {new}) /\ \A e \in ToSet(all) : es[e] \in Edge
  BY <1>8, TouchingListed
<1>11. PICK ids \in Seq(Edges) : ids = Kept(all, moved) /\ ToSet(ids) = ToSet(all) \cap moved
  BY KeptSet
<1>12. PICK a, c : a = NodeWrites(ns, both) /\ c = EdgeWrites(es, ids)
  OBVIOUS
<1>13. /\ a \in Seq(GraphWrite)
       /\ \A n \in {new, source} : Tells(a, n, ns[n])
       /\ \A n : n \notin {new, source} => Silent(a, n)
  BY <1>4, <1>9, <1>12, NodeWritesTell
<1>14. c \in Seq(GraphWrite) /\ \A n \in Nodes : Silent(c, n)
  BY <1>10, <1>11, <1>12, EdgeWritesSilent
<1>15. PICK writes \in Seq(GraphWrite) : writes = a \o c /\ Joins(writes, a, c)
  BY <1>13, <1>14, Joined, Zenon
<1>16. Mutated(ns, es, writes)
  <2>1. Mutated(ns, es, a \o c)
    BY <1>9, <1>10, <1>11, <1>12, Zenon DEF SplitNode
  <2> QED BY <1>15, <2>1, Zenon
<1>17. TellsAll(writes, ns)
  <2>1. ASSUME NEW n \in Nodes
        PROVE  Tells(writes, n, ns[n]) \/ (Silent(writes, n) /\ ns[n] = nodes[n])
    <3>1. Tells(a, n, ns[n]) \/ (Silent(a, n) /\ ns[n] = nodes[n])
      BY <1>4, <1>13
    <3> QED BY <1>13, <1>14, <1>15, <3>1, TellsJoined
  <2> QED BY <2>1 DEF TellsAll
<1> QED BY <1>4, <1>8, <1>15, <1>16, <1>17, MutatedInv

LEMMA WriteLandsInv ==
    ASSUME GraphInv, WriteLands
    PROVE  GraphInv'
<1>1. PICK w \in GraphWrite, rest \in Seq(GraphWrite) :
         /\ w = Head(unwritten) /\ rest = Tail(unwritten) /\ unwritten' = rest
         /\ \A n, row : Tells(unwritten, n, row) =>
               Tells(rest, n, row) \/ (Silent(rest, n) /\ w.id = n /\ w.row = row)
         /\ \A n : Silent(unwritten, n) => Silent(rest, n) /\ w.id # n
  <2>1. unwritten \in Seq(GraphWrite) /\ unwritten # << >> /\ unwritten' = Tail(unwritten)
    BY DEF GraphInv, WriteLands
  <2>2. Head(unwritten) \in GraphWrite /\ Tail(unwritten) \in Seq(GraphWrite)
    BY <2>1, TellsRest, Zenon
  <2>3. /\ \A n, row : Tells(unwritten, n, row) =>
               \/ Tells(Tail(unwritten), n, row)
               \/ Silent(Tail(unwritten), n) /\ Head(unwritten).id = n /\ Head(unwritten).row = row
        /\ \A n : Silent(unwritten, n) => Silent(Tail(unwritten), n) /\ Head(unwritten).id # n
    BY <2>1, TellsRest, Zenon
  <2> QED BY <2>1, <2>2, <2>3, Zenon
<1>2. UNCHANGED <<nodes, edges>>
  BY DEF WriteLands
<1>3. CASE w.id \in Nodes
  <2>1. /\ nodeTable' = [nodeTable EXCEPT ![w.id] = w.row]
        /\ edgeTable' = edgeTable /\ failed' = failed
    BY <1>1, <1>3, GraphAssumption DEF WriteLands
  <2>2. w.row \in Node
    BY <1>3, GraphAssumption DEF GraphWrite
  <2>3. nodeTable' \in GraphNodes
    BY <2>1, <2>2 DEF GraphInv, GraphNodes
  <2>4. /\ nodeTable'[w.id] = w.row
        /\ \A n \in Nodes : n # w.id => nodeTable'[n] = nodeTable[n]
    BY <1>3, <2>1 DEF GraphInv, GraphNodes
  <2>5. ASSUME ~ failed, NEW n \in Nodes PROVE Written(n)'
    <3>1. Tells(unwritten, n, nodes[n]) \/ (Silent(unwritten, n) /\ nodeTable[n] = nodes[n])
      BY <2>5 DEF GraphInv, Written
    <3>2. Tells(rest, n, nodes[n]) \/ (Silent(rest, n) /\ nodeTable'[n] = nodes[n])
      BY <1>1, <2>4, <3>1
    <3> QED BY <1>1, <1>2, <3>2 DEF Written
  <2> QED BY <1>1, <1>2, <2>1, <2>3, <2>5 DEF GraphInv
<1>4. CASE w.id \notin Nodes
  <2>1. w.row \in Edge /\ w.id \in Edges
    BY <1>4 DEF GraphWrite
  <2>2. /\ nodeTable' = nodeTable
        /\ edgeTable' \in {edgeTable, [edgeTable EXCEPT ![w.id] = w.row]}
        /\ failed' = failed \/ failed' = TRUE
    BY <1>1, <1>4 DEF WriteLands
  <2>3. edgeTable' \in GraphEdges
    BY <2>1, <2>2 DEF GraphInv, GraphEdges
  <2>4. ASSUME ~ failed, NEW n \in Nodes PROVE Written(n)'
    <3>1. Tells(unwritten, n, nodes[n]) \/ (Silent(unwritten, n) /\ nodeTable[n] = nodes[n])
      BY <2>4 DEF GraphInv, Written
    <3>2. Tells(rest, n, nodes[n]) \/ (Silent(rest, n) /\ nodeTable[n] = nodes[n])
      BY <1>1, <1>4, <3>1
    <3> QED BY <1>1, <1>2, <2>2, <3>2 DEF Written
  <2> QED BY <1>1, <1>2, <2>2, <2>3, <2>4 DEF GraphInv
<1> QED BY <1>3, <1>4

LEMMA RowWriteFailsInv ==
    ASSUME GraphInv, RowWriteFails
    PROVE  GraphInv'
<1>1. unwritten \in Seq(GraphWrite) /\ unwritten # << >> /\ unwritten' = Tail(unwritten)
  BY DEF GraphInv, RowWriteFails
<1>2. unwritten' \in Seq(GraphWrite)
  BY <1>1, TellsRest, Zenon
<1>3. UNCHANGED <<nodes, edges, nodeTable, edgeTable>> /\ failed'
  BY DEF RowWriteFails
<1> QED BY <1>2, <1>3 DEF GraphInv

\* Whatever the order of its rows, what a new process adds is a graph.
LEMMA HydratedJoins ==
    ASSUME GraphInv, NEW order \in Seq(Edges)
    PROVE  Hydrated(order) \in GraphEdges /\ JoinsKnown(nodeTable, Hydrated(order))
<1>1. PICK add : add = [p \in GraphEdges \X Edges |-> WithRow(p[1], p[2])]
  OBVIOUS
<1>2. PICK none : none = [e \in Edges |-> NoEdge]
  OBVIOUS
<1>3. none \in GraphEdges /\ JoinsKnown(nodeTable, none)
  BY <1>2 DEF GraphEdges, JoinsKnown
<1>4. ASSUME NEW es \in GraphEdges, NEW e \in Edges
      PROVE  /\ add[<<es, e>>] \in GraphEdges
             /\ JoinsKnown(nodeTable, es) => JoinsKnown(nodeTable, add[<<es, e>>])
  <2>1. add[<<es, e>>] = WithRow(es, e)
    BY <1>1
  <2>2. CASE WithRow(es, e) = es
    BY <2>1, <2>2
  <2>3. CASE WithRow(es, e) # es
    <3>1. /\ edgeTable[e] # NoEdge /\ Admits(nodeTable, es, edgeTable[e])
          /\ WithRow(es, e) = [es EXCEPT ![e] = edgeTable[e]]
      BY <2>3 DEF WithRow
    <3>2. edgeTable[e] \in Edge
      BY <3>1 DEF GraphInv, GraphEdges
    <3>3. /\ nodeTable[edgeTable[e].from] # NoNode /\ nodeTable[edgeTable[e].to] # NoNode
          /\ edgeTable[e].from # edgeTable[e].to
      BY <3>1 DEF Admits, PathExists
    <3>4. PICK more : more = [es EXCEPT ![e] = edgeTable[e]]
      OBVIOUS
    <3>5. /\ more \in GraphEdges /\ more[e] = edgeTable[e]
          /\ \A d \in Edges : d # e => more[d] = es[d]
      BY <3>2, <3>4 DEF GraphEdges
    <3>6. JoinsKnown(nodeTable, es) => JoinsKnown(nodeTable, more)
      BY <3>3, <3>5 DEF JoinsKnown
    <3> QED BY <2>1, <3>1, <3>4, <3>5, <3>6
  <2> QED BY <2>2, <2>3
<1>5. add \in [GraphEdges \X Edges -> GraphEdges]
  <2>1. ASSUME NEW p \in GraphEdges \X Edges PROVE WithRow(p[1], p[2]) \in GraphEdges
    <3>1. PICK es \in GraphEdges, e \in Edges : p = <<es, e>>
      OBVIOUS
    <3>2. add[p] = WithRow(p[1], p[2])
      BY <1>1
    <3> QED BY <1>4, <3>1, <3>2
  <2> QED BY <1>1, <2>1
<1>6. PICK I : I = {es \in GraphEdges : JoinsKnown(nodeTable, es)}
  OBVIOUS
<1>7. none \in I /\ \A es \in GraphEdges, e \in Edges : es \in I => add[<<es, e>>] \in I
  BY <1>3, <1>4, <1>6
<1>8. Reduced(add, none, order) \in GraphEdges \cap I
  BY <1>3, <1>5, <1>7, ReducedKeeps
<1>9. Hydrated(order) = Reduced(add, none, order)
  BY <1>1, <1>2 DEF Hydrated, GraphEdges
<1> QED BY <1>6, <1>8, <1>9

LEMMA CrashInv ==
    ASSUME GraphInv, CrashAndHydrate
    PROVE  GraphInv'
<1>1. PICK order \in SetToSeqs(Edges) : edges' = Hydrated(order)
  BY DEF CrashAndHydrate
<1>2. order \in Seq(Edges)
  <2>1. PICK n \in Nat : n = Cardinality(Edges)
    BY GraphAssumption, FS_CardinalityType
  <2>2. order \in [1 .. n -> Edges]
    BY <1>1, <2>1 DEF SetToSeqs
  <2> QED BY <2>2
<1>3. nodes' = nodeTable /\ nodeTable' = nodeTable /\ edgeTable' = edgeTable
  BY DEF CrashAndHydrate
<1>4. edges' \in GraphEdges /\ JoinsKnown(nodes', edges')
  BY <1>1, <1>2, <1>3, HydratedJoins
<1>5. PICK none \in Seq(GraphWrite) : none = <<>> /\ DOMAIN none = {}
  BY NoElement, Zenon
<1>6. unwritten' = none
  BY <1>5 DEF CrashAndHydrate
<1>7. \A n \in Nodes : Written(n)'
  BY <1>3, <1>5, <1>6 DEF Written, Silent
<1> QED BY <1>3, <1>4, <1>5, <1>6, <1>7 DEF GraphInv

LEMMA GraphInvStep == GraphInv /\ [GraphNext]_graphVars => GraphInv'
<1> SUFFICES ASSUME GraphInv, [GraphNext]_graphVars PROVE GraphInv'
  OBVIOUS
<1>1. CASE WriteLands
  BY <1>1, WriteLandsInv
<1>2. CASE RowWriteFails
  BY <1>2, RowWriteFailsInv
<1>3. CASE CrashAndHydrate
  BY <1>3, CrashInv
<1>4. ASSUME NEW n \in Nodes, AddNode(n) \/ MarkInactive(n)
      PROVE  GraphInv'
  BY <1>4, NodeAdded, NodeMarkedInactive
<1>5. ASSUME NEW n \in Nodes, NEW other \in Nodes, AddAlias(n, other) \/ MergeNodes(n, other)
      PROVE  GraphInv'
  BY <1>5, AliasAdded, NodesMerged
<1>6. ASSUME NEW n \in Nodes, NEW alias \in Nodes, NEW new \in Nodes, NEW moved \in SUBSET Edges,
             SplitNode(n, alias, new, moved)
      PROVE  GraphInv'
  BY <1>6, NodeSplit
<1>7. ASSUME NEW e \in Edges, NEW from \in Nodes, NEW to \in Nodes, AddEdge(e, from, to)
      PROVE  GraphInv'
  BY <1>7, EdgeAdded
<1>8. CASE UNCHANGED graphVars
  BY <1>8 DEF graphVars, GraphInv, Written, Silent, Tells
<1> QED BY <1>1, <1>2, <1>3, <1>4, <1>5, <1>6, <1>7, <1>8 DEF GraphNext

\* Through merges, splits, failed writes, crashes and hydrations in any order, the
\* edges join known nodes, and when the writes have landed the nodes are in the table.
THEOREM GraphSurvivesHolds == GraphSpec => []GraphSurvives
<1>1. GraphInv => GraphSurvives
  <2> SUFFICES ASSUME GraphInv PROVE GraphSurvives
    OBVIOUS
  <2>1. EdgesJoinNodes
    <3>1. \A e \in Edges : edges[e] # NoEdge => edges[e].from \in Nodes /\ edges[e].to \in Nodes
      BY DEF GraphInv, GraphEdges, Edge
    <3> QED BY <3>1 DEF GraphInv, JoinsKnown, EdgesJoinNodes, Known
  <2>2. ASSUME unwritten = <<>>, ~ failed PROVE nodeTable = nodes
    <3>1. DOMAIN unwritten = {}
      BY <2>2
    <3>2. \A n \in Nodes : nodeTable[n] = nodes[n]
      BY <2>2, <3>1 DEF GraphInv, Written, Tells
    <3> QED BY <3>2 DEF GraphInv, GraphNodes
  <2> QED BY <2>1, <2>2 DEF GraphSurvives, NodesAreDurable
<1> QED BY <1>1, GraphInvInit, GraphInvStep, PTL DEF GraphSpec
-----------------------------------------------------------------------------
(***************************************************************************)
(* The groups of a plan.                                                    *)
(***************************************************************************)

\* No step of a plan names another one twice, which Validate does not see to.
NoRepeats ==
    \A p \in Plans : \A i \in DOMAIN p : \A k, l \in DOMAIN p[i].deps :
        p[i].deps[k] = p[i].deps[l] => k = l

Conflict(i, j) == plan[i].locks \cap plan[j].locks # {}

\* What has become of the first n candidates of a round: the group is free of
\* conflicts, and each deferred step has one with it.
PlacesFirst(n, round) ==
    \E G, D \in SUBSET DOMAIN plan :
        /\ Lists(round.group, G) /\ Lists(round.deferred, D)
        /\ G \cap D = {} /\ G \cup D = {ready[k] : k \in 1 .. n}
        /\ round.locked = UNION {plan[i].locks : i \in G}
        /\ \A i, j \in G : i # j => ~Conflict(i, j)
        /\ \A i \in D : \E j \in G : Conflict(j, i)

\* Each step j has lost the dependencies gone[j]; those without any left since the
\* round began are ready, besides the deferred ones.
Frees(acc, D, gone) ==
    /\ \A j \in DOMAIN plan : acc.remaining[j] = remaining[j] \ gone[j]
    /\ Lists(acc.ready, D \cup {j \in DOMAIN plan : remaining[j] # {} /\ acc.remaining[j] = {}})

ScheduledIds == {plan[j].id : j \in Scheduled}

\* A candidate waits for nothing, and waited for one of the last group.
MayRun(i) ==
    /\ i \notin Scheduled /\ remaining[i] = {}
    /\ groups # <<>> => \E j \in ToSet(groups[Len(groups)]) : plan[j].id \in Deps(i) \/ Conflict(j, i)

\* Between two rounds.
BetweenRounds ==
    /\ WellFormed
    /\ remaining = [i \in DOMAIN plan |-> Deps(i) \ ScheduledIds]
    /\ ready \in Seq(DOMAIN plan) /\ Lists(ready, ToSet(ready))
    /\ \A i \in ToSet(ready) : MayRun(i)

\* No step has two places.
PlacedOnce ==
    \A g, h \in DOMAIN groups : \A k \in DOMAIN groups[g], l \in DOMAIN groups[h] :
        groups[g][k] = groups[h][l] => g = h /\ k = l

GroupingInv ==
    /\ plan \in Plans /\ groups \in Seq(Seq(DOMAIN plan))
    /\ phase = "validate" => groups = <<>>
    /\ phase = "group" => BetweenRounds
    /\ phase = "ok" => DOMAIN plan \subseteq Scheduled
    /\ DependencySafe /\ LockSafe /\ EarliestGroup /\ PlacedOnce

LEMMA StepOfPlan ==
    ASSUME plan \in Seq(PlanStep), NEW i \in DOMAIN plan
    PROVE  plan[i].id \in StepIds /\ plan[i].deps \in Seq(StepIds) /\ plan[i].locks \in SUBSET Locks
<1>1. PICK step \in PlanStep : step = plan[i]
  OBVIOUS
<1>2. step.id \in StepIds /\ step.deps \in Seq(StepIds) /\ step.locks \in SUBSET Locks
  BY DEF PlanStep
<1> QED BY <1>1, <1>2

LEMMA PlacesOne ==
    ASSUME plan \in Seq(PlanStep), ready \in Seq(DOMAIN plan), Lists(ready, ToSet(ready)),
           NEW n \in 1 .. Len(ready), NEW round \in Rounds, PlacesFirst(n - 1, round)
    PROVE  Place(round, ready[n]) \in Rounds /\ PlacesFirst(n, Place(round, ready[n]))
<1>1. PICK i \in DOMAIN plan : i = ready[n]
  OBVIOUS
<1>2. PICK G \in SUBSET DOMAIN plan, D \in SUBSET DOMAIN plan :
        /\ Lists(round.group, G) /\ Lists(round.deferred, D)
        /\ G \cap D = {} /\ G \cup D = {ready[k] : k \in 1 .. n - 1}
        /\ round.locked = UNION {plan[j].locks : j \in G}
        /\ \A j, k \in G : j # k => ~Conflict(j, k)
        /\ \A j \in D : \E k \in G : Conflict(k, j)
  BY Zenon DEF PlacesFirst
<1>3. i \notin G \cup D /\ {ready[k] : k \in 1 .. n} = G \cup D \cup {i}
  <2>1. \A k \in 1 .. n - 1 : k \in DOMAIN ready /\ k # n /\ n \in DOMAIN ready
    OBVIOUS
  <2>2. i \notin G \cup D
    BY <1>1, <1>2, <2>1 DEF Lists
  <2>3. 1 .. n = (1 .. n - 1) \cup {n}
    OBVIOUS
  <2> QED BY <1>1, <1>2, <2>2, <2>3
<1>4. plan[i].locks \in SUBSET Locks
  BY StepOfPlan
<1>5. /\ round.group \in Seq(DOMAIN plan) /\ round.deferred \in Seq(DOMAIN plan)
      /\ round.locked \in SUBSET Locks
  BY DEF Rounds
<1>6. CASE plan[i].locks \cap round.locked # {}
  <2>1. PICK later \in Seq(DOMAIN plan) : later = Append(round.deferred, i) /\ Lists(later, D \cup {i})
    BY <1>2, <1>3, <1>5, OneListed, Zenon
  <2>2. PICK next : next = [round EXCEPT !.deferred = later]
    OBVIOUS
  <2>3. next \in Rounds /\ next.group = round.group /\ next.locked = round.locked /\ next.deferred = later
    BY <2>2 DEF Rounds
  <2>4. Place(round, i) = next
    BY <1>6, <2>1, <2>2 DEF Place
  <2>5. \E k \in G : Conflict(k, i)
    BY <1>2, <1>6 DEF Conflict
  <2>6. PlacesFirst(n, next)
    <3>1. PICK E \in SUBSET DOMAIN plan : E = D \cup {i}
      OBVIOUS
    <3>2. G \cap E = {} /\ G \cup E = {ready[k] : k \in 1 .. n}
      BY <1>2, <1>3, <3>1
    <3>3. \A j \in E : \E k \in G : Conflict(k, j)
      BY <1>2, <2>5, <3>1
    <3>4. Lists(next.group, G) /\ Lists(next.deferred, E) /\ next.locked = UNION {plan[j].locks : j \in G}
      BY <1>2, <2>1, <2>3, <3>1
    <3>5. \A j, k \in G : j # k => ~Conflict(j, k)
      BY <1>2
    <3> QED BY <3>2, <3>3, <3>4, <3>5, Zenon DEF PlacesFirst
  <2> QED BY <1>1, <2>3, <2>4, <2>6
<1>7. CASE ~ plan[i].locks \cap round.locked # {}
  <2>1. PICK now \in Seq(DOMAIN plan) : now = Append(round.group, i) /\ Lists(now, G \cup {i})
    BY <1>2, <1>3, <1>5, OneListed, Zenon
  <2>2. PICK next : next = [round EXCEPT !.group = now, !.locked = round.locked \cup plan[i].locks]
    OBVIOUS
  <2>3. /\ next \in Rounds /\ next.group = now /\ next.deferred = round.deferred
        /\ next.locked = round.locked \cup plan[i].locks
    BY <1>4, <1>5, <2>2 DEF Rounds
  <2>4. Place(round, i) = next
    BY <1>7, <2>1, <2>2 DEF Place
  <2>5. \A k \in G : ~Conflict(k, i) /\ ~Conflict(i, k)
    BY <1>2, <1>7 DEF Conflict
  <2>6. PlacesFirst(n, next)
    <3>1. (G \cup {i}) \cap D = {} /\ (G \cup {i}) \cup D = {ready[k] : k \in 1 .. n}
      BY <1>2, <1>3
    <3>2. \A j, k \in G \cup {i} : j # k => ~Conflict(j, k)
      BY <1>2, <2>5
    <3>3. \A j \in D : \E k \in G \cup {i} : Conflict(k, j)
      BY <1>2
    <3>4. next.locked = UNION {plan[j].locks : j \in G \cup {i}}
      BY <1>2, <2>3
    <3>5. G \cup {i} \in SUBSET DOMAIN plan
      OBVIOUS
    <3>6. Lists(next.group, G \cup {i}) /\ Lists(next.deferred, D)
      BY <1>2, <2>1, <2>3
    <3> QED BY <3>1, <3>2, <3>3, <3>4, <3>5, <3>6, Zenon DEF PlacesFirst
  <2> QED BY <1>1, <2>3, <2>4, <2>6
<1> QED BY <1>6, <1>7

LEMMA PlacesAll ==
    ASSUME plan \in Seq(PlanStep), ready \in Seq(DOMAIN plan), Lists(ready, ToSet(ready))
    PROVE  Placed \in Rounds /\ PlacesFirst(Len(ready), Placed)
<1>1. PICK place : place = [p \in Rounds \X DOMAIN plan |-> Place(p[1], p[2])]
  OBVIOUS
<1>2. PICK P : P = [n \in Nat |-> {round \in Rounds : PlacesFirst(n, round)}]
  OBVIOUS
<1>3. EmptyRound \in Rounds /\ PlacesFirst(0, EmptyRound)
  <2>1. PICK none \in Seq(DOMAIN plan) : none = <<>> /\ Lists(none, {})
    BY NothingListed, Zenon
  <2>2. PICK round : round = EmptyRound
    OBVIOUS
  <2>3. round = [group |-> none, locked |-> {}, deferred |-> none]
    BY <2>1, <2>2, Zenon DEF EmptyRound
  <2>4. round \in Rounds /\ round.group = none /\ round.deferred = none /\ round.locked = {}
    BY <2>1, <2>3 DEF Rounds
  <2>5. /\ {} \in SUBSET DOMAIN plan /\ {} \cap {} = {} /\ {} \cup {} = {ready[k] : k \in 1 .. 0}
        /\ {} = UNION {plan[i].locks : i \in {}}
    OBVIOUS
  <2>6. PlacesFirst(0, round)
    BY <2>1, <2>4, <2>5 DEF PlacesFirst
  <2> QED BY <2>2, <2>4, <2>6
<1>4. place \in [Rounds \X DOMAIN plan -> Rounds]
  <2>1. ASSUME NEW round \in Rounds, NEW i \in DOMAIN plan PROVE Place(round, i) \in Rounds
    <3>1. round.group \in Seq(DOMAIN plan) /\ round.deferred \in Seq(DOMAIN plan) /\ round.locked \in SUBSET Locks
      BY DEF Rounds
    <3>2. plan[i].locks \in SUBSET Locks
      BY StepOfPlan
    <3>3. PICK later \in Seq(DOMAIN plan), now \in Seq(DOMAIN plan) :
            later = Append(round.deferred, i) /\ now = Append(round.group, i)
      BY <3>1, OneMore, Zenon
    <3>4. /\ [round EXCEPT !.deferred = later] \in Rounds
          /\ [round EXCEPT !.group = now, !.locked = round.locked \cup plan[i].locks] \in Rounds
      BY <3>1, <3>2, <3>3 DEF Rounds
    <3> QED BY <3>3, <3>4 DEF Place
  <2>2. ASSUME NEW p \in Rounds \X DOMAIN plan PROVE place[p] \in Rounds
    <3>1. PICK round \in Rounds, i \in DOMAIN plan : p = <<round, i>>
      OBVIOUS
    <3>2. place[p] = Place(round, i)
      BY <1>1, <3>1
    <3> QED BY <2>1, <3>2
  <2> QED BY <1>1, <2>2
<1>5. ASSUME NEW n \in 1 .. Len(ready), NEW round \in Rounds, round \in P[n - 1]
      PROVE  place[<<round, ready[n]>>] \in P[n]
  <2>1. ready[n] \in DOMAIN plan /\ n \in Nat /\ n - 1 \in Nat
    OBVIOUS
  <2>2. PlacesFirst(n - 1, round)
    BY <1>2, <1>5, <2>1
  <2>3. place[<<round, ready[n]>>] = Place(round, ready[n])
    BY <1>1, <2>1
  <2>4. Place(round, ready[n]) \in Rounds /\ PlacesFirst(n, Place(round, ready[n]))
    BY <2>2, PlacesOne
  <2> QED BY <1>2, <2>1, <2>3, <2>4
<1>6. EmptyRound \in P[0]
  BY <1>2, <1>3
<1>7. Reduced(place, EmptyRound, ready) \in Rounds /\ Reduced(place, EmptyRound, ready) \in P[Len(ready)]
  BY <1>3, <1>4, <1>5, <1>6, ReducedAlong, Zenon
<1>8. Placed = Reduced(place, EmptyRound, ready)
  BY <1>1, Zenon DEF Placed
<1>9. Len(ready) \in Nat
  OBVIOUS
<1> QED BY <1>2, <1>7, <1>8, <1>9

\* Step i is one of which no other one knows yet that it has run.
Awaited(i) == \A j \in DOMAIN plan : plan[i].id \in Deps(j) <=> plan[i].id \in remaining[j]

\* No step of the plan names another one twice.
Terse == \A j \in DOMAIN plan : \A k, l \in DOMAIN plan[j].deps : plan[j].deps[k] = plan[j].deps[l] => k = l

\* The steps of D wait for nothing, those of G are all awaited where they are named.
Idle(D) == \A j \in D : remaining[j] = {}
AllAwaited(G) == \A i \in G : Awaited(i)

DistinctIds == \A i, j \in DOMAIN plan : plan[i].id = plan[j].id => i = j

Everywhere(A) == [j \in DOMAIN plan |-> A]

PlanTypes == plan \in Seq(PlanStep) /\ remaining \in [DOMAIN plan -> SUBSET StepIds]

LEMMA MentionsFinite ==
    ASSUME PlanTypes, NEW i \in DOMAIN plan, NEW j \in DOMAIN plan
    PROVE  Cardinality(Mentions(i, j)) \in Nat
<1>1. plan[j].deps \in Seq(StepIds)
  BY StepOfPlan DEF PlanTypes
<1>2. PICK n \in Nat : DOMAIN plan[j].deps = 1 .. n
  BY <1>1
<1>3. IsFiniteSet(1 .. n) /\ Mentions(i, j) \subseteq 1 .. n
  BY <1>2, FS_Interval DEF Mentions
<1>4. IsFiniteSet(Mentions(i, j))
  BY <1>3, FS_Subset
<1> QED BY <1>4, FS_CardinalityType

LEMMA MentionsOnce ==
    ASSUME PlanTypes, Terse, NEW i \in DOMAIN plan, NEW j \in DOMAIN plan
    PROVE  Cardinality(Mentions(i, j)) = IF plan[i].id \in Deps(j) THEN 1 ELSE 0
<1>1. plan[i].id \in Deps(j) <=> \E k \in DOMAIN plan[j].deps : plan[j].deps[k] = plan[i].id
  BY DEF Deps, ToSet
<1>2. CASE plan[i].id \in Deps(j)
  <2>1. PICK k \in DOMAIN plan[j].deps : plan[j].deps[k] = plan[i].id
    BY <1>1, <1>2
  <2>2. Mentions(i, j) = {k}
    BY <2>1 DEF Mentions, Terse
  <2> QED BY <1>2, <2>2, FS_Singleton
<1>3. CASE plan[i].id \notin Deps(j)
  <2>1. Mentions(i, j) = {}
    BY <1>1, <1>3 DEF Mentions
  <2> QED BY <1>3, <2>1, FS_EmptySet
<1> QED BY <1>2, <1>3

LEMMA UnblockType ==
    ASSUME PlanTypes, NEW i \in DOMAIN plan, NEW j \in DOMAIN plan, NEW acc \in Progress
    PROVE  Unblock(acc, i, j) \in Progress
<1>1. acc.remaining \in [DOMAIN plan -> SUBSET StepIds] /\ acc.ready \in Seq(DOMAIN plan)
  BY DEF Progress
<1>2. PICK left : left = acc.remaining[j] \ {plan[i].id}
  OBVIOUS
<1>3. PICK n \in Nat : n = IF left = {} THEN Cardinality(Mentions(i, j)) ELSE 0
  BY MentionsFinite
<1>4. PICK t \in Seq(DOMAIN plan) : t = [k \in 1 .. n |-> j]
  <2>1. PICK t : t = [k \in 1 .. n |-> j]
    OBVIOUS
  <2>2. t \in Seq(DOMAIN plan)
    BY <2>1
  <2> QED BY <2>1, <2>2
<1>5. PICK r \in Seq(DOMAIN plan) : r = acc.ready \o t
  BY <1>1, Joined, Zenon
<1>6. PICK rem : rem = [acc.remaining EXCEPT ![j] = left]
  OBVIOUS
<1>7. rem \in [DOMAIN plan -> SUBSET StepIds]
  BY <1>1, <1>2, <1>6
<1>8. [remaining |-> rem, ready |-> r] \in Progress
  BY <1>7 DEF Progress
<1>9. Unblock(acc, i, j) = [remaining |-> rem, ready |-> r]
  BY <1>2, <1>3, <1>4, <1>5, <1>6, Zenon DEF Unblock
<1> QED BY <1>8, <1>9

LEMMA UnblocksOne ==
    ASSUME PlanTypes, Terse, NEW D \in SUBSET DOMAIN plan, Idle(D),
           NEW i \in DOMAIN plan, Awaited(i), NEW j \in DOMAIN plan,
           NEW gone \in [DOMAIN plan -> SUBSET StepIds], plan[i].id \notin gone[j],
           NEW acc \in Progress, Frees(acc, D, gone)
    PROVE  Frees(Unblock(acc, i, j), D, [gone EXCEPT ![j] = gone[j] \cup {plan[i].id}])
<1>1. acc.remaining \in [DOMAIN plan -> SUBSET StepIds] /\ acc.ready \in Seq(DOMAIN plan)
  BY DEF Progress
<1>2. PICK id : id = plan[i].id
  OBVIOUS
<1>3. PICK left : left = acc.remaining[j] \ {id}
  OBVIOUS
<1>4. PICK n \in 0 .. 1 :
         /\ n = IF left = {} THEN Cardinality(Mentions(i, j)) ELSE 0
         /\ n = 1 <=> left = {} /\ id \in Deps(j)
  BY <1>2, MentionsOnce
<1>5. PICK L : L = D \cup {k \in DOMAIN plan : remaining[k] # {} /\ acc.remaining[k] = {}}
  OBVIOUS
<1>6. Lists(acc.ready, L) /\ \A k \in DOMAIN plan : acc.remaining[k] = remaining[k] \ gone[k]
  BY <1>5 DEF Frees
<1>7. id \in Deps(j) <=> id \in remaining[j]
  BY <1>2 DEF Awaited
<1>8. id \in remaining[j] => id \in acc.remaining[j]
  BY <1>2, <1>6
<1>9. n = 1 => j \notin L
  BY <1>4, <1>5, <1>7, <1>8 DEF Idle
<1>10. PICK r \in Seq(DOMAIN plan) :
         r = acc.ready \o [k \in 1 .. n |-> j] /\ Lists(r, IF n = 1 THEN L \cup {j} ELSE L)
  <2>1. PICK s \in Seq(DOMAIN plan) : s = acc.ready
    BY <1>1
  <2>2. PICK t : t = [k \in 1 .. n |-> j]
    OBVIOUS
  <2>3. PICK T : T = IF n = 1 THEN L \cup {j} ELSE L
    OBVIOUS
  <2>4. Repeated(t, j, n) /\ Extends(T, L, j, n)
    BY <1>9, <2>2, <2>3 DEF Repeated, Extends
  <2>5. Lists(s, L)
    BY <1>6, <2>1
  <2>6. s \o t \in Seq(DOMAIN plan) /\ Lists(s \o t, T)
    BY <2>4, <2>5, MaybeListed, Zenon
  <2> QED BY <2>1, <2>2, <2>3, <2>6, Zenon
<1>11. PICK rem : rem = [acc.remaining EXCEPT ![j] = left]
  OBVIOUS
<1>12. rem[j] = left /\ \A k \in DOMAIN plan : k # j => rem[k] = acc.remaining[k]
  BY <1>1, <1>11
<1>13. PICK next : next = [remaining |-> rem, ready |-> r]
  OBVIOUS
<1>14. next.remaining = rem /\ next.ready = r
  BY <1>13
<1>15. Unblock(acc, i, j) = next
  BY <1>2, <1>3, <1>4, <1>10, <1>11, <1>13, Zenon DEF Unblock
<1>16. PICK more : more = [gone EXCEPT ![j] = gone[j] \cup {id}]
  OBVIOUS
<1>17. more[j] = gone[j] \cup {id} /\ \A k \in DOMAIN plan : k # j => more[k] = gone[k]
  BY <1>16
<1>18. \A k \in DOMAIN plan : rem[k] = remaining[k] \ more[k]
  BY <1>3, <1>6, <1>12, <1>17
<1>19. PICK M : M = D \cup {k \in DOMAIN plan : remaining[k] # {} /\ rem[k] = {}}
  OBVIOUS
<1>20. ASSUME NEW k \in DOMAIN plan, k # j PROVE k \in M <=> k \in L
  BY <1>5, <1>12, <1>19, <1>20
<1>21. j \in M <=> (n = 1 \/ j \in L)
  <2>1. CASE id \in remaining[j]
    <3>1. n = 1 <=> left = {}
      BY <1>4, <1>7, <2>1
    <3>2. j \notin L /\ j \notin D /\ remaining[j] # {}
      BY <1>5, <1>8, <2>1 DEF Idle
    <3> QED BY <1>12, <1>19, <3>1, <3>2
  <2>2. CASE id \notin remaining[j]
    <3>1. n # 1 /\ left = acc.remaining[j]
      BY <1>3, <1>4, <1>6, <1>7, <2>2
    <3> QED BY <1>5, <1>12, <1>19, <3>1
  <2> QED BY <2>1, <2>2
<1>22. M = IF n = 1 THEN L \cup {j} ELSE L
  BY <1>5, <1>19, <1>20, <1>21
<1>23. Frees(next, D, more)
  BY <1>10, <1>14, <1>18, <1>19, <1>22 DEF Frees
<1> QED BY <1>2, <1>15, <1>16, <1>23

LEMMA InOrderType ==
    ASSUME plan \in Seq(PlanStep)
    PROVE  /\ InOrder \in Seq(DOMAIN plan)
           /\ \E m \in Nat : m = Len(InOrder) /\ DOMAIN plan = 1 .. m /\ \A n \in 1 .. m : InOrder[n] = n
<1>1. PICK m \in Nat : DOMAIN plan = 1 .. m
  OBVIOUS
<1>2. PICK s : s = InOrder
  OBVIOUS
<1>3. s = [n \in 1 .. m |-> n]
  BY <1>1, <1>2 DEF InOrder
<1>4. s \in Seq(1 .. m) /\ Len(s) = m /\ \A n \in 1 .. m : s[n] = n
  BY <1>3
<1> QED BY <1>1, <1>2, <1>4

LEMMA UnblockDependentsType ==
    ASSUME PlanTypes, NEW i \in DOMAIN plan, NEW acc \in Progress
    PROVE  UnblockDependents(acc, i) \in Progress
<1>1. PICK F : F = [p \in Progress \X DOMAIN plan |-> Unblock(p[1], i, p[2])]
  OBVIOUS
<1>2. F \in [Progress \X DOMAIN plan -> Progress]
  <2>1. ASSUME NEW p \in Progress \X DOMAIN plan PROVE Unblock(p[1], i, p[2]) \in Progress
    <3>1. p[1] \in Progress /\ p[2] \in DOMAIN plan
      OBVIOUS
    <3> QED BY <3>1, UnblockType
  <2> QED BY <1>1, <2>1
<1>3. InOrder \in Seq(DOMAIN plan)
  BY InOrderType DEF PlanTypes
<1>4. \A x \in Progress, j \in DOMAIN plan : x \in Progress => F[<<x, j>>] \in Progress
  BY <1>2
<1>5. Reduced(F, acc, InOrder) \in Progress \cap Progress
  BY <1>2, <1>3, <1>4, ReducedKeeps, Zenon
<1>6. UnblockDependents(acc, i) = Reduced(F, acc, InOrder)
  BY <1>1, Zenon DEF UnblockDependents
<1> QED BY <1>5, <1>6

LEMMA UnblocksDependents ==
    ASSUME PlanTypes, Terse, NEW D \in SUBSET DOMAIN plan, Idle(D),
           NEW i \in DOMAIN plan, Awaited(i), NEW A \in SUBSET StepIds, plan[i].id \notin A,
           NEW acc \in Progress, Frees(acc, D, Everywhere(A))
    PROVE  Frees(UnblockDependents(acc, i), D, Everywhere(A \cup {plan[i].id}))
<1>1. PICK F : F = [p \in Progress \X DOMAIN plan |-> Unblock(p[1], i, p[2])]
  OBVIOUS
<1>2. F \in [Progress \X DOMAIN plan -> Progress]
  <2>1. ASSUME NEW p \in Progress \X DOMAIN plan PROVE Unblock(p[1], i, p[2]) \in Progress
    <3>1. p[1] \in Progress /\ p[2] \in DOMAIN plan
      OBVIOUS
    <3> QED BY <3>1, UnblockType
  <2> QED BY <1>1, <2>1
<1>3. InOrder \in Seq(DOMAIN plan)
  BY InOrderType DEF PlanTypes
<1>4. PICK m \in Nat : m = Len(InOrder) /\ DOMAIN plan = 1 .. m /\ \A n \in 1 .. m : InOrder[n] = n
  BY InOrderType DEF PlanTypes
<1>5. PICK id \in StepIds : id = plan[i].id
  BY StepOfPlan DEF PlanTypes
<1>6. PICK gone : gone = [n \in Nat |-> [j \in DOMAIN plan |-> IF j <= n THEN A \cup {id} ELSE A]]
  OBVIOUS
<1>7. PICK P : P = [n \in Nat |-> {x \in Progress : Frees(x, D, gone[n])}]
  OBVIOUS
<1>8. gone[0] = Everywhere(A) /\ gone[m] = Everywhere(A \cup {id})
  <2>1. \A j \in DOMAIN plan : ~ j <= 0 /\ j <= m
    BY <1>4
  <2> QED BY <1>6, <2>1 DEF Everywhere
<1>9. acc \in P[0]
  BY <1>7, <1>8
<1>10. ASSUME NEW n \in 1 .. Len(InOrder), NEW x \in Progress, x \in P[n - 1]
       PROVE  F[<<x, InOrder[n]>>] \in P[n]
  <2>1. n \in DOMAIN plan /\ InOrder[n] = n /\ n \in Nat /\ n - 1 \in Nat
    BY <1>4
  <2>2. F[<<x, InOrder[n]>>] = Unblock(x, i, n)
    BY <1>1, <2>1
  <2>3. PICK before : before = gone[n - 1]
    OBVIOUS
  <2>4. Frees(x, D, before)
    BY <1>7, <1>10, <2>1, <2>3
  <2>5. before = [j \in DOMAIN plan |-> IF j <= n - 1 THEN A \cup {id} ELSE A]
    BY <1>6, <2>1, <2>3
  <2>6. before \in [DOMAIN plan -> SUBSET StepIds] /\ before[n] = A
    <3>1. A \cup {id} \in SUBSET StepIds /\ ~ n <= n - 1
      BY <2>1
    <3> QED BY <2>1, <2>5, <3>1
  <2>7. PICK after : after = [before EXCEPT ![n] = before[n] \cup {plan[i].id}]
    OBVIOUS
  <2>8. Frees(Unblock(x, i, n), D, after)
    BY <1>5, <2>1, <2>4, <2>6, <2>7, UnblocksOne
  <2>9. after = gone[n]
    <3>1. gone[n] = [j \in DOMAIN plan |-> IF j <= n THEN A \cup {id} ELSE A]
      BY <1>6, <2>1
    <3>2. \A j \in DOMAIN plan : after[j] = IF j <= n THEN A \cup {id} ELSE A
      <4>1. ASSUME NEW j \in DOMAIN plan, j # n PROVE j <= n <=> j <= n - 1
        BY <1>4, <2>1, <4>1
      <4>2. after[n] = A \cup {id} /\ n <= n
        BY <1>5, <2>1, <2>6, <2>7
      <4>3. \A j \in DOMAIN plan : j # n => after[j] = before[j]
        BY <2>6, <2>7
      <4> QED BY <2>5, <4>1, <4>2, <4>3
    <3>3. after = [j \in DOMAIN plan |-> after[j]]
      BY <2>6, <2>7
    <3> QED BY <3>1, <3>2, <3>3
  <2>10. Unblock(x, i, n) \in Progress
    BY <2>1, UnblockType
  <2> QED BY <1>7, <2>1, <2>2, <2>8, <2>9, <2>10
<1>11. Reduced(F, acc, InOrder) \in P[Len(InOrder)]
  BY <1>2, <1>3, <1>9, <1>10, ReducedAlong, Zenon
<1>12. UnblockDependents(acc, i) = Reduced(F, acc, InOrder)
  BY <1>1, Zenon DEF UnblockDependents
<1>13. Frees(UnblockDependents(acc, i), D, gone[m])
  BY <1>4, <1>7, <1>11, <1>12
<1> QED BY <1>5, <1>8, <1>13

\* After a round, the steps of its group are nobody's dependencies any more.
LEMMA UnblocksAll ==
    ASSUME PlanTypes, Terse, NEW D \in SUBSET DOMAIN plan, Idle(D),
           DistinctIds,
           NEW group \in Seq(DOMAIN plan), NEW G, Lists(group, G), AllAwaited(G),
           NEW start \in Progress, start.remaining = remaining, Lists(start.ready, D)
    PROVE  /\ UnblockAll(start, group) \in Progress
           /\ Frees(UnblockAll(start, group), D, Everywhere({plan[i].id : i \in G}))
<1>1. PICK F : F = [p \in Progress \X DOMAIN plan |-> UnblockDependents(p[1], p[2])]
  OBVIOUS
<1>2. F \in [Progress \X DOMAIN plan -> Progress]
  <2>1. ASSUME NEW p \in Progress \X DOMAIN plan PROVE UnblockDependents(p[1], p[2]) \in Progress
    <3>1. p[1] \in Progress /\ p[2] \in DOMAIN plan
      OBVIOUS
    <3> QED BY <3>1, UnblockDependentsType
  <2> QED BY <1>1, <2>1
<1>3. PICK m \in Nat : m = Len(group) /\ DOMAIN group = 1 .. m
  OBVIOUS
<1>4. /\ \A n \in 1 .. m : group[n] \in DOMAIN plan /\ group[n] \in G
      /\ \A k, n \in 1 .. m : group[k] = group[n] => k = n
      /\ G = {group[n] : n \in 1 .. m}
  BY <1>3 DEF Lists, ToSet
<1>5. PICK A : A = [n \in Nat |-> {plan[group[k]].id : k \in 1 .. n}]
  OBVIOUS
<1>6. PICK P : P = [n \in Nat |-> {x \in Progress : Frees(x, D, Everywhere(A[n]))}]
  OBVIOUS
<1>7. start \in P[0]
  <2>1. A[0] = {}
    BY <1>5
  <2>2. \A j \in DOMAIN plan : start.remaining[j] = remaining[j] \ {}
    OBVIOUS
  <2>3. D \cup {j \in DOMAIN plan : remaining[j] # {} /\ start.remaining[j] = {}} = D
    OBVIOUS
  <2>4. PICK none : none = Everywhere({})
    OBVIOUS
  <2>5. Frees(start, D, none)
    BY <2>2, <2>3, <2>4 DEF Frees, Everywhere
  <2> QED BY <1>6, <2>1, <2>4, <2>5
<1>8. ASSUME NEW n \in 1 .. Len(group), NEW x \in Progress, x \in P[n - 1]
      PROVE  F[<<x, group[n]>>] \in P[n]
  <2>1. n \in 1 .. m /\ n \in Nat /\ n - 1 \in Nat
    BY <1>3
  <2>2. PICK i \in DOMAIN plan : i = group[n] /\ Awaited(i)
    BY <1>4, <2>1 DEF AllAwaited
  <2>3. F[<<x, group[n]>>] = UnblockDependents(x, i)
    BY <1>1, <2>2
  <2>4. PICK B : B = A[n - 1]
    OBVIOUS
  <2>5. B = {plan[group[k]].id : k \in 1 .. n - 1}
    BY <1>5, <2>1, <2>4
  <2>6. \A k \in 1 .. n - 1 : k \in 1 .. m /\ k # n
    BY <2>1
  <2>7. B \in SUBSET StepIds
    <3>1. \A k \in 1 .. m : plan[group[k]].id \in StepIds
      BY <1>4, StepOfPlan DEF PlanTypes
    <3> QED BY <2>5, <2>6, <3>1
  <2>8. plan[i].id \notin B
    BY <1>4, <2>1, <2>2, <2>5, <2>6 DEF DistinctIds
  <2>9. Frees(x, D, Everywhere(B))
    BY <1>6, <1>8, <2>1, <2>4
  <2>10. Frees(UnblockDependents(x, i), D, Everywhere(B \cup {plan[i].id}))
    BY <2>2, <2>7, <2>8, <2>9, UnblocksDependents
  <2>11. A[n] = B \cup {plan[i].id}
    <3>1. 1 .. n = (1 .. n - 1) \cup {n}
      BY <2>1
    <3> QED BY <1>5, <2>1, <2>2, <2>5, <3>1
  <2>12. UnblockDependents(x, i) \in Progress
    BY UnblockDependentsType
  <2>13. P[n] = {y \in Progress : Frees(y, D, Everywhere(B \cup {plan[i].id}))}
    BY <1>6, <2>1, <2>11
  <2> QED BY <2>3, <2>10, <2>12, <2>13
<1>9. Reduced(F, start, group) \in Progress /\ Reduced(F, start, group) \in P[Len(group)]
  BY <1>2, <1>7, <1>8, ReducedAlong, Zenon
<1>10. UnblockAll(start, group) = Reduced(F, start, group)
  BY <1>1, Zenon DEF UnblockAll
<1>11. A[m] = {plan[i].id : i \in G}
  BY <1>4, <1>5
<1> QED BY <1>3, <1>6, <1>9, <1>10, <1>11

LEMMA GroupingInvInit == GroupingInit => GroupingInv
<1> SUFFICES ASSUME GroupingInit PROVE GroupingInv
  OBVIOUS
<1>1. PICK none \in Seq(Seq(DOMAIN plan)) : none = <<>> /\ DOMAIN none = {}
  BY NoElement, Zenon
<1>2. groups = none /\ plan \in Plans /\ phase = "validate"
  BY <1>1 DEF GroupingInit
<1>3. DependencySafe /\ LockSafe /\ EarliestGroup /\ PlacedOnce
  BY <1>1, <1>2 DEF DependencySafe, LockSafe, EarliestGroup, PlacedOnce
<1> QED BY <1>1, <1>2, <1>3 DEF GroupingInv

\* What is said of the plan stays true of it; what of the groups, is of the next ones.
LEMMA SamePlan ==
    ASSUME plan' = plan
    PROVE  /\ \A i : Deps(i)' = Deps(i)
           /\ \A i, j : Conflict(i, j)' = Conflict(i, j)
           /\ WellFormed' = WellFormed
           /\ \A g : ToSet(groups[g])' = ToSet(groups'[g])
           /\ \A i : GroupsOf(i)' = {g \in DOMAIN groups' : i \in ToSet(groups'[g])}
<1>1. ASSUME NEW i PROVE Deps(i)' = Deps(i)
  BY DEF Deps, ToSet
<1>2. ASSUME NEW i, NEW j PROVE Conflict(i, j)' = Conflict(i, j)
  BY DEF Conflict
<1>3. ASSUME NEW g PROVE ToSet(groups[g])' = ToSet(groups'[g])
  BY DEF ToSet
<1>4. ASSUME NEW i PROVE GroupsOf(i)' = {g \in DOMAIN groups' : i \in ToSet(groups'[g])}
  BY <1>3 DEF GroupsOf
<1>5. WellFormed' = WellFormed
  BY <1>1 DEF WellFormed
<1> QED BY <1>1, <1>2, <1>3, <1>4, <1>5

LEMMA SameGroups ==
    ASSUME GroupingInv, UNCHANGED <<plan, groups>>
    PROVE  (DependencySafe /\ LockSafe /\ EarliestGroup /\ PlacedOnce)'
<1>1. DependencySafe'
  <2>1. DependencySafe
    BY DEF GroupingInv
  <2>2. \A i : GroupsOf(i)' = GroupsOf(i)
    BY SamePlan DEF GroupsOf
  <2> QED BY <2>1, <2>2, SamePlan DEF DependencySafe
<1>2. LockSafe'
  BY DEF GroupingInv, LockSafe
<1>3. EarliestGroup'
  <2>1. EarliestGroup
    BY DEF GroupingInv
  <2> QED BY <2>1, SamePlan DEF EarliestGroup
<1>4. PlacedOnce'
  BY DEF GroupingInv, PlacedOnce
<1> QED BY <1>1, <1>2, <1>3, <1>4

LEMMA ValidateInv ==
    ASSUME GroupingInv, Validate
    PROVE  GroupingInv'
<1>1. PICK none \in Seq(Seq(DOMAIN plan)) : none = <<>> /\ DOMAIN none = {}
  BY NoElement, Zenon
<1>2. groups = none /\ groups' = none /\ plan' = plan /\ plan \in Plans
  BY <1>1 DEF Validate, GroupingInv
<1>3. (DependencySafe /\ LockSafe /\ EarliestGroup /\ PlacedOnce)'
  BY <1>1, <1>2 DEF DependencySafe, LockSafe, EarliestGroup, PlacedOnce
<1>4. phase' \in {"group", "error"}
  BY DEF Validate
<1>5. ASSUME phase' = "group" PROVE BetweenRounds'
  <2>1. /\ WellFormed /\ remaining' = [i \in DOMAIN plan |-> Deps(i)]
        /\ ready' = Kept(InOrder, {i \in DOMAIN plan : Deps(i) = {}})
    BY <1>5 DEF Validate
  <2>2. plan \in Seq(PlanStep)
    BY <1>2, PlansAssumption
  <2>3. PICK m \in Nat : m = Len(InOrder) /\ DOMAIN plan = 1 .. m /\ \A n \in 1 .. m : InOrder[n] = n
    BY <2>2, InOrderType
  <2>4. PICK s \in Seq(DOMAIN plan) : s = InOrder /\ DOMAIN s = 1 .. m /\ \A n \in 1 .. m : s[n] = n
    BY <2>2, <2>3, InOrderType
  <2>5. PICK S : S = {i \in DOMAIN plan : Deps(i) = {}}
    OBVIOUS
  <2>6. PICK t \in Seq(DOMAIN plan) : t = Kept(s, S) /\ \E f : Filters(t, s, S, f)
    BY KeptPlaces
  <2>7. PICK f : Filters(t, s, S, f)
    BY <2>6
  <2>8. PICK n \in Nat : n = Len(t) /\ DOMAIN t = 1 .. n
    OBVIOUS
  <2>9. \A k \in 1 .. n : f[k] \in 1 .. m /\ t[k] = f[k] /\ t[k] \in S
    BY <2>4, <2>7, <2>8 DEF Filters
  <2>10. \A k, l \in 1 .. n : t[k] = t[l] => k = l
    <3>1. \A k, l \in 1 .. n : k < l <=> f[k] < f[l]
      BY <2>7, <2>8 DEF Filters
    <3>2. \A k, l \in 1 .. n : f[k] = f[l] => k = l
      BY <2>9, <3>1
    <3> QED BY <2>9, <3>2
  <2>11. ready' = t /\ Lists(t, ToSet(t)) /\ ToSet(t) \subseteq S
    <3>1. ready' = t
      BY <2>1, <2>4, <2>5, <2>6
    <3> QED BY <2>8, <2>9, <2>10, <3>1 DEF Lists, ToSet
  <2>12. Scheduled' = {} /\ ScheduledIds' = {}
    BY <1>1, <1>2 DEF Scheduled, ScheduledIds
  <2>13. WellFormed' /\ \A i \in DOMAIN plan : Deps(i)' = Deps(i)
    BY <1>2, <2>1, SamePlan
  <2>14. remaining' = [i \in DOMAIN plan |-> Deps(i) \ {}]
    BY <2>1
  <2>15. \A i \in ToSet(t) : MayRun(i)'
    BY <1>1, <1>2, <2>1, <2>5, <2>11, <2>12 DEF MayRun
  <2> QED BY <1>2, <2>11, <2>12, <2>13, <2>14, <2>15 DEF BetweenRounds
<1> QED BY <1>1, <1>2, <1>3, <1>4, <1>5 DEF GroupingInv

LEMMA FinishInv ==
    ASSUME GroupingInv, Finish
    PROVE  GroupingInv'
<1>1. UNCHANGED <<plan, groups>> /\ phase' \in {"ok", "error"}
  BY DEF Finish
<1>2. (DependencySafe /\ LockSafe /\ EarliestGroup /\ PlacedOnce)'
  BY <1>1, SameGroups
<1>3. ASSUME phase' = "ok" PROVE (DOMAIN plan \subseteq Scheduled)'
  <2>1. Cardinality(Scheduled) = Len(plan)
    BY <1>3 DEF Finish
  <2>2. plan \in Seq(PlanStep) /\ groups \in Seq(Seq(DOMAIN plan))
    BY PlansAssumption DEF GroupingInv
  <2>3. PICK m \in Nat : m = Len(plan) /\ DOMAIN plan = 1 .. m
    BY <2>2
  <2>4. Scheduled \in SUBSET (1 .. m)
    <3>1. ASSUME NEW g \in DOMAIN groups PROVE ToSet(groups[g]) \subseteq DOMAIN plan
      <4>1. groups[g] \in Seq(DOMAIN plan)
        BY <2>2
      <4> QED BY <4>1 DEF ToSet
    <3> QED BY <2>3, <3>1 DEF Scheduled
  <2>5. IsFiniteSet(1 .. m) /\ Cardinality(1 .. m) = m
    BY FS_Interval
  <2>6. Scheduled = 1 .. m
    BY <2>1, <2>3, <2>4, <2>5, FS_Subset
  <2>7. Scheduled' = Scheduled
    BY <1>1 DEF Scheduled, ToSet
  <2> QED BY <1>1, <2>3, <2>6, <2>7
<1> QED BY <1>1, <1>2, <1>3 DEF GroupingInv

LEMMA UnchangedGroups ==
    ASSUME GroupingInv, UNCHANGED <<plan, phase, remaining, ready, groups>>
    PROVE  GroupingInv'
<1>1. (DependencySafe /\ LockSafe /\ EarliestGroup /\ PlacedOnce)'
  BY SameGroups
<1>2. Scheduled' = Scheduled /\ ScheduledIds' = ScheduledIds
  BY DEF Scheduled, ScheduledIds, ToSet
<1>3. ToSet(ready)' = ToSet(ready) /\ Lists(ready, ToSet(ready))' = Lists(ready, ToSet(ready))
  BY DEF Lists, ToSet
<1>4. ToSet(groups[Len(groups)])' = ToSet(groups[Len(groups)])
  BY DEF ToSet
<1>5. \A i : MayRun(i)' = MayRun(i)
  BY <1>2, <1>4, SamePlan DEF MayRun
<1>6. BetweenRounds' = BetweenRounds
  BY <1>2, <1>3, <1>5, SamePlan DEF BetweenRounds
<1> QED BY <1>1, <1>2, <1>6 DEF GroupingInv

LEMMA PlanOfPlans ==
    ASSUME GroupingInv, phase = "group"
    PROVE  /\ PlanTypes /\ DistinctIds /\ BetweenRounds
           /\ \A i, j \in DOMAIN plan : plan[i].id \in ScheduledIds => i \in Scheduled
           /\ Scheduled \subseteq DOMAIN plan /\ ScheduledIds \subseteq StepIds
<1>1. plan \in Seq(PlanStep) /\ groups \in Seq(Seq(DOMAIN plan)) /\ BetweenRounds
  BY PlansAssumption DEF GroupingInv
<1>2. ASSUME NEW i \in DOMAIN plan PROVE Deps(i) \subseteq StepIds
  <2>1. plan[i].deps \in Seq(StepIds)
    BY <1>1, StepOfPlan
  <2> QED BY <2>1 DEF Deps, ToSet
<1>3. PlanTypes
  BY <1>1, <1>2 DEF PlanTypes, BetweenRounds
<1>4. DistinctIds
  BY <1>1 DEF BetweenRounds, WellFormed, DistinctIds
<1>5. Scheduled \subseteq DOMAIN plan
  <2>1. ASSUME NEW g \in DOMAIN groups PROVE ToSet(groups[g]) \subseteq DOMAIN plan
    <3>1. groups[g] \in Seq(DOMAIN plan)
      BY <1>1
    <3> QED BY <3>1 DEF ToSet
  <2> QED BY <2>1 DEF Scheduled
<1>6. \A i \in DOMAIN plan : plan[i].id \in ScheduledIds => i \in Scheduled
  BY <1>4, <1>5 DEF DistinctIds, ScheduledIds
<1>7. ScheduledIds \subseteq StepIds
  <2>1. \A i \in DOMAIN plan : plan[i].id \in StepIds
    BY <1>1, StepOfPlan
  <2> QED BY <1>5, <2>1 DEF ScheduledIds
<1> QED BY <1>1, <1>3, <1>4, <1>5, <1>6, <1>7

\* What a round does: a group free of conflicts out of the candidates, which are then
\* the deferred ones and those that waited for the last of the group.
Advances(group, G, D) ==
    /\ group \in Seq(DOMAIN plan) /\ Lists(group, G)
    /\ G \cap D = {} /\ G \cup D = ToSet(ready)
    /\ \A i, j \in G : i # j => ~Conflict(i, j)
    /\ \A i \in D : \E j \in G : Conflict(j, i)
    /\ groups' = Append(groups, group)
    /\ remaining' = [j \in DOMAIN plan |-> remaining[j] \ {plan[i].id : i \in G}]
    /\ ready' \in Seq(DOMAIN plan)
    /\ Lists(ready', D \cup {j \in DOMAIN plan : remaining[j] # {} /\ remaining'[j] = {}})

LEMMA RoundAdvances ==
    ASSUME GroupingInv, NoRepeats, Round
    PROVE  \E group : \E G, D \in SUBSET DOMAIN plan : Advances(group, G, D)
<1>1. phase = "group" /\ plan' = plan
  BY DEF Round
<1>2. PlanTypes /\ DistinctIds /\ BetweenRounds
  BY <1>1, PlanOfPlans
<1>3. ready \in Seq(DOMAIN plan) /\ Lists(ready, ToSet(ready)) /\ plan \in Seq(PlanStep)
  BY <1>2 DEF BetweenRounds, PlanTypes
<1>4. Placed \in Rounds /\ PlacesFirst(Len(ready), Placed)
  BY <1>3, PlacesAll
<1>5. PICK round \in Rounds : round = Placed
  BY <1>4
<1>6. PICK G \in SUBSET DOMAIN plan, D \in SUBSET DOMAIN plan :
        /\ Lists(round.group, G) /\ Lists(round.deferred, D)
        /\ G \cap D = {} /\ G \cup D = {ready[k] : k \in 1 .. Len(ready)}
        /\ \A i, j \in G : i # j => ~Conflict(i, j)
        /\ \A i \in D : \E j \in G : Conflict(j, i)
  BY <1>4, <1>5 DEF PlacesFirst
<1>7. G \cup D = ToSet(ready)
  BY <1>3, <1>6 DEF ToSet
<1>8. Terse
  BY DEF NoRepeats, Terse, GroupingInv
<1>9. \A i \in G \cup D : i \notin Scheduled /\ remaining[i] = {}
  BY <1>2, <1>7 DEF BetweenRounds, MayRun
<1>10. Idle(D)
  BY <1>9 DEF Idle
<1>11. AllAwaited(G)
  <2>1. ASSUME NEW i \in G PROVE plan[i].id \notin ScheduledIds
    BY <1>1, <1>9, PlanOfPlans
  <2> QED BY <1>2, <2>1 DEF BetweenRounds, AllAwaited, Awaited
<1>12. PICK group \in Seq(DOMAIN plan), deferred \in Seq(DOMAIN plan) :
         group = round.group /\ deferred = round.deferred
  BY DEF Rounds
<1>13. PICK start \in Progress :
         start = [remaining |-> remaining, ready |-> deferred]
         /\ start.remaining = remaining /\ start.ready = deferred
  <2>1. PICK start : start = [remaining |-> remaining, ready |-> deferred]
    OBVIOUS
  <2>2. start \in Progress
    BY <1>2, <2>1 DEF Progress, PlanTypes
  <2> QED BY <2>1, <2>2
<1>14. PICK next \in Progress :
         next = UnblockAll(start, group) /\ Frees(next, D, Everywhere({plan[i].id : i \in G}))
  <2>1. Lists(group, G) /\ Lists(start.ready, D)
    BY <1>6, <1>12, <1>13
  <2> QED BY <1>2, <1>8, <1>10, <1>11, <1>13, <2>1, UnblocksAll
<1>15. NextReady(round) = next
  BY <1>12, <1>13, <1>14, Zenon DEF NextReady
<1>16. groups' = Append(groups, group) /\ remaining' = next.remaining /\ ready' = next.ready
  BY <1>5, <1>12, <1>15 DEF Round
<1>17. next.remaining \in [DOMAIN plan -> SUBSET StepIds] /\ next.ready \in Seq(DOMAIN plan)
  BY DEF Progress
<1>18. remaining' = [j \in DOMAIN plan |-> remaining[j] \ {plan[i].id : i \in G}]
  BY <1>14, <1>16, <1>17 DEF Frees, Everywhere
<1>19. Lists(ready', D \cup {j \in DOMAIN plan : remaining[j] # {} /\ remaining'[j] = {}})
  BY <1>14, <1>16 DEF Frees
<1>20. Lists(group, G)
  BY <1>6, <1>12
<1>21. Advances(group, G, D)
  BY <1>6, <1>7, <1>16, <1>17, <1>18, <1>19, <1>20 DEF Advances
<1> QED BY <1>21

LEMMA RoundInv ==
    ASSUME GroupingInv, NoRepeats, Round
    PROVE  GroupingInv'
<1>1. phase = "group" /\ plan' = plan /\ phase' = phase
  BY DEF Round
<1>2. /\ PlanTypes /\ DistinctIds /\ BetweenRounds
      /\ \A i \in DOMAIN plan : plan[i].id \in ScheduledIds => i \in Scheduled
      /\ Scheduled \subseteq DOMAIN plan
  BY <1>1, PlanOfPlans
<1>3. PICK group, G, D : G \subseteq DOMAIN plan /\ D \subseteq DOMAIN plan /\ Advances(group, G, D)
  BY RoundAdvances
<1>4. /\ group \in Seq(DOMAIN plan) /\ Lists(group, G)
      /\ G \cap D = {} /\ G \cup D = ToSet(ready)
      /\ \A i, j \in G : i # j => ~Conflict(i, j)
      /\ \A i \in D : \E j \in G : Conflict(j, i)
  BY <1>3 DEF Advances
<1>5. PICK n \in Nat : n = Len(groups) /\ DOMAIN groups = 1 .. n /\ groups \in Seq(Seq(DOMAIN plan))
  BY DEF GroupingInv
<1>6. PICK gs \in Seq(Seq(DOMAIN plan)) :
        /\ gs = groups' /\ DOMAIN gs = 1 .. n + 1
        /\ gs[n + 1] = group /\ \A g \in 1 .. n : gs[g] = groups[g]
  <2>1. groups' = Append(groups, group)
    BY <1>3 DEF Advances
  <2>2. PICK gs : gs = groups'
    OBVIOUS
  <2>3. /\ gs \in Seq(Seq(DOMAIN plan)) /\ Len(gs) = n + 1
        /\ gs[n + 1] = group /\ \A g \in 1 .. n : gs[g] = groups[g]
    BY <1>4, <1>5, <2>1, <2>2, OneMore
  <2>4. DOMAIN gs = 1 .. n + 1
    BY <2>3
  <2> QED BY <2>2, <2>3, <2>4
<1>7. ToSet(group) = G
  BY <1>4 DEF Lists
<1>8. \A g \in 1 .. n + 1 : g \in 1 .. n \/ g = n + 1
  OBVIOUS
<1>9. Scheduled' = Scheduled \cup G
  <2>1. Scheduled' = UNION {ToSet(gs[g]) : g \in 1 .. n + 1}
    BY <1>1, <1>6, SamePlan DEF Scheduled
  <2>2. Scheduled = UNION {ToSet(gs[g]) : g \in 1 .. n}
    BY <1>5, <1>6 DEF Scheduled
  <2>3. 1 .. n + 1 = (1 .. n) \cup {n + 1}
    BY <1>8
  <2> QED BY <1>6, <1>7, <2>1, <2>2, <2>3
<1>10. \A i \in G \cup D : i \notin Scheduled /\ remaining[i] = {}
  BY <1>2, <1>4 DEF BetweenRounds, MayRun
<1>11. DependencySafe'
  <2>1. ASSUME NEW g \in 1 .. n + 1, NEW i \in ToSet(gs[g]), NEW d \in Deps(i)
        PROVE  \E j \in DOMAIN plan : plan[j].id = d /\ \E h \in 1 .. n + 1 : j \in ToSet(gs[h]) /\ h < g
    <3>1. CASE g \in 1 .. n
      <4>1. PICK j \in DOMAIN plan : plan[j].id = d /\ \E h \in GroupsOf(j) : h < g
        BY <1>5, <1>6, <2>1, <3>1 DEF GroupingInv, DependencySafe
      <4>2. PICK h \in 1 .. n : j \in ToSet(groups[h]) /\ h < g
        BY <1>5, <4>1 DEF GroupsOf
      <4>3. h \in 1 .. n + 1 /\ gs[h] = groups[h]
        BY <1>6, <4>2
      <4> QED BY <4>1, <4>2, <4>3
    <3>2. CASE g = n + 1
      <4>1. i \in G
        BY <1>6, <1>7, <3>2
      <4>2. d \in ScheduledIds
        BY <1>2, <1>3, <1>10, <4>1 DEF BetweenRounds
      <4>3. PICK j \in Scheduled : plan[j].id = d
        BY <4>2 DEF ScheduledIds
      <4>4. PICK h \in 1 .. n : j \in ToSet(groups[h])
        BY <1>5, <4>3 DEF Scheduled
      <4>5. h \in 1 .. n + 1 /\ gs[h] = groups[h] /\ h < g
        BY <1>6, <3>2
      <4> QED BY <1>2, <4>3, <4>4, <4>5
    <3> QED BY <1>8, <3>1, <3>2
  <2>2. \A g : ToSet(groups[g])' = ToSet(gs[g])
    BY <1>1, <1>6, SamePlan
  <2>3. \A i : Deps(i)' = Deps(i) /\ GroupsOf(i)' = {h \in 1 .. n + 1 : i \in ToSet(gs[h])}
    BY <1>1, <1>6, SamePlan
  <2>4. ASSUME NEW g \in DOMAIN groups', NEW i \in ToSet(groups[g])', NEW d \in Deps(i)'
        PROVE  \E j \in DOMAIN plan' : plan'[j].id = d /\ \E h \in GroupsOf(j)' : h < g
    <3>1. g \in 1 .. n + 1 /\ i \in ToSet(gs[g]) /\ d \in Deps(i)
      BY <1>6, <2>2, <2>3, <2>4
    <3>2. PICK j \in DOMAIN plan : plan[j].id = d /\ \E h \in 1 .. n + 1 : j \in ToSet(gs[h]) /\ h < g
      BY <2>1, <3>1
    <3>3. \E h \in GroupsOf(j)' : h < g
      BY <2>3, <3>2
    <3> QED BY <1>1, <3>2, <3>3
  <2> QED BY <2>4 DEF DependencySafe
<1>12. LockSafe'
  <2>1. ASSUME NEW g \in 1 .. n + 1, NEW k \in DOMAIN gs[g], NEW l \in DOMAIN gs[g], k # l
        PROVE  plan[gs[g][k]].locks \cap plan[gs[g][l]].locks = {}
    <3>1. CASE g \in 1 .. n
      <4>1. LockSafe /\ gs[g] = groups[g] /\ g \in DOMAIN groups
        BY <1>5, <1>6, <3>1 DEF GroupingInv
      <4> QED BY <2>1, <4>1 DEF LockSafe
    <3>2. CASE g = n + 1
      <4>1. gs[g][k] \in G /\ gs[g][l] \in G /\ gs[g][k] # gs[g][l]
        BY <1>4, <1>6, <2>1, <3>2 DEF Lists, ToSet
      <4> QED BY <1>4, <4>1 DEF Conflict
    <3> QED BY <1>8, <3>1, <3>2
  <2> QED BY <1>1, <1>6, <2>1 DEF LockSafe
<1>13. EarliestGroup'
  <2>1. ASSUME NEW g \in (1 .. n + 1) \ {1}, NEW i \in ToSet(gs[g])
        PROVE  \E j \in ToSet(gs[g - 1]) : plan[j].id \in Deps(i) \/ plan[j].locks \cap plan[i].locks # {}
    <3>1. g - 1 \in 1 .. n /\ gs[g - 1] = groups[g - 1]
      BY <1>6
    <3>2. CASE g \in 1 .. n
      <4>1. EarliestGroup /\ gs[g] = groups[g] /\ g \in (DOMAIN groups) \ {1}
        BY <1>5, <1>6, <3>2 DEF GroupingInv
      <4> QED BY <3>1, <4>1 DEF EarliestGroup
    <3>3. CASE g = n + 1
      <4>1. i \in ToSet(ready) /\ g - 1 = n /\ n # 0
        BY <1>4, <1>6, <1>7, <3>1, <3>3
      <4>2. groups # <<>>
        BY <1>5, <4>1
      <4>3. \E j \in ToSet(groups[n]) : plan[j].id \in Deps(i) \/ Conflict(j, i)
        BY <1>2, <1>5, <4>1, <4>2 DEF BetweenRounds, MayRun
      <4> QED BY <3>1, <4>1, <4>3 DEF Conflict
    <3> QED BY <1>8, <3>2, <3>3
  <2>2. \A g : ToSet(groups[g])' = ToSet(gs[g])
    BY <1>1, <1>6, SamePlan
  <2>3. \A i : Deps(i)' = Deps(i)
    BY <1>1, SamePlan
  <2> QED BY <1>1, <1>6, <2>1, <2>2, <2>3 DEF EarliestGroup
<1>14. PlacedOnce'
  <2>1. ASSUME NEW g \in 1 .. n, NEW k \in DOMAIN gs[g] PROVE gs[g][k] \in Scheduled
    <3>1. gs[g][k] \in ToSet(groups[g])
      BY <1>6, <2>1 DEF ToSet
    <3> QED BY <1>5, <3>1 DEF Scheduled
  <2>2. ASSUME NEW k \in DOMAIN group PROVE group[k] \in G
    BY <1>7 DEF ToSet
  <2>3. ASSUME NEW g \in 1 .. n + 1, NEW h \in 1 .. n + 1, NEW k \in DOMAIN gs[g], NEW l \in DOMAIN gs[h],
               gs[g][k] = gs[h][l]
        PROVE  g = h /\ k = l
    <3>1. CASE g \in 1 .. n /\ h \in 1 .. n
      <4>1. PlacedOnce /\ gs[g] = groups[g] /\ gs[h] = groups[h] /\ g \in DOMAIN groups /\ h \in DOMAIN groups
        BY <1>5, <1>6, <3>1 DEF GroupingInv
      <4> QED BY <2>3, <4>1 DEF PlacedOnce
    <3>2. CASE g = n + 1 /\ h = n + 1
      BY <1>4, <1>6, <2>3, <3>2 DEF Lists
    <3>3. CASE g \in 1 .. n /\ h = n + 1
      BY <1>6, <1>10, <2>1, <2>2, <2>3, <3>3
    <3>4. CASE g = n + 1 /\ h \in 1 .. n
      BY <1>6, <1>10, <2>1, <2>2, <2>3, <3>4
    <3> QED BY <1>8, <3>1, <3>2, <3>3, <3>4
  <2> QED BY <1>6, <2>3 DEF PlacedOnce
<1>15. BetweenRounds'
  <2>1. PICK ids : ids = {plan[i].id : i \in G}
    OBVIOUS
  <2>2. PICK R : R = D \cup {j \in DOMAIN plan : remaining[j] # {} /\ remaining'[j] = {}}
    OBVIOUS
  <2>3. /\ remaining' = [j \in DOMAIN plan |-> remaining[j] \ ids]
        /\ ready' \in Seq(DOMAIN plan) /\ Lists(ready', R)
    BY <1>3, <2>1, <2>2 DEF Advances
  <2>4. ScheduledIds' = ScheduledIds \cup ids
    BY <1>1, <1>9, <2>1 DEF ScheduledIds
  <2>5. remaining = [i \in DOMAIN plan |-> Deps(i) \ ScheduledIds]
    BY <1>2 DEF BetweenRounds
  <2>6. remaining' = [i \in DOMAIN plan |-> Deps(i) \ ScheduledIds']
    BY <2>3, <2>4, <2>5
  <2>7. ToSet(ready') = R /\ ToSet(ready)' = ToSet(ready') /\ Lists(ready', ToSet(ready'))
    BY <2>3 DEF Lists, ToSet
  <2>8. Lists(ready, ToSet(ready))'
    BY <2>7 DEF Lists, ToSet
  <2>9. \A i \in Scheduled : remaining[i] = {}
    <3>1. ASSUME NEW i \in Scheduled, NEW d \in Deps(i) PROVE d \in ScheduledIds
      <4>1. PICK g \in DOMAIN groups : i \in ToSet(groups[g])
        BY DEF Scheduled
      <4>2. PICK j \in DOMAIN plan : plan[j].id = d /\ GroupsOf(j) # {}
        BY <3>1, <4>1 DEF GroupingInv, DependencySafe
      <4>3. j \in Scheduled
        BY <4>2 DEF GroupsOf, Scheduled
      <4> QED BY <4>2, <4>3 DEF ScheduledIds
    <3> QED BY <1>2, <2>5, <3>1
  <2>10. ASSUME NEW i \in R PROVE MayRun(i)'
    <3>1. i \in DOMAIN plan /\ i \notin Scheduled' /\ remaining'[i] = {}
      <4>1. CASE i \in D
        <5>1. i \notin G /\ i \notin Scheduled /\ remaining[i] = {}
          BY <1>4, <1>10, <4>1
        <5> QED BY <1>3, <1>9, <2>3, <4>1, <5>1
      <4>2. CASE i \notin D
        <5>1. i \in DOMAIN plan /\ remaining[i] # {} /\ remaining'[i] = {}
          BY <2>2, <2>10, <4>2
        <5> QED BY <1>9, <1>10, <2>9, <5>1
      <4> QED BY <4>1, <4>2
    <3>2. \E j \in G : plan[j].id \in Deps(i) \/ Conflict(j, i)
      <4>1. CASE i \in D
        BY <1>4, <4>1
      <4>2. CASE i \notin D
        <5>1. i \in DOMAIN plan /\ remaining[i] # {} /\ remaining[i] \ ids = {}
          BY <2>2, <2>3, <2>10, <4>2
        <5>2. PICK d \in remaining[i] : d \in ids
          BY <5>1
        <5> QED BY <2>1, <2>5, <5>1, <5>2
      <4> QED BY <4>1, <4>2
    <3>3. ToSet(groups'[Len(groups')]) = G
      <4>1. Len(gs) = n + 1
        BY <1>6
      <4> QED BY <1>6, <1>7, <4>1
    <3>4. ToSet(groups[Len(groups)])' = ToSet(groups'[Len(groups')])
      BY DEF ToSet
    <3> QED BY <1>1, <3>1, <3>2, <3>3, <3>4, SamePlan DEF MayRun
  <2>11. WellFormed'
    BY <1>1, <1>2, SamePlan DEF BetweenRounds
  <2>12. \A i : Deps(i)' = Deps(i)
    BY <1>1, SamePlan
  <2> QED BY <1>1, <2>3, <2>6, <2>7, <2>8, <2>10, <2>11, <2>12 DEF BetweenRounds
<1>16. plan' \in Plans /\ groups' \in Seq(Seq(DOMAIN plan'))
  BY <1>1, <1>6 DEF GroupingInv
<1> QED BY <1>1, <1>11, <1>12, <1>13, <1>14, <1>15, <1>16 DEF GroupingInv

\* The groups that computeExecutionGroups returns can be run one after the other, the steps
\* of each at once, and are the plan: for every plan in which no depends_on names a step
\* twice.
THEOREM GroupsSoundHolds ==
    ASSUME NoRepeats
    PROVE  GroupingSpec => []GroupsSound
<1>1. GroupingInv /\ [GroupingNext]_groupingVars => GroupingInv'
  <2> SUFFICES ASSUME GroupingInv, [GroupingNext]_groupingVars PROVE GroupingInv'
    OBVIOUS
  <2>1. CASE UNCHANGED groupingVars
    <3>1. UNCHANGED <<plan, phase, remaining, ready, groups>>
      BY <2>1 DEF groupingVars
    <3> QED BY <3>1, UnchangedGroups
  <2> QED BY <2>1, ValidateInv, RoundInv, FinishInv DEF GroupingNext
<1>2. GroupingInv => GroupsSound
  <2> SUFFICES ASSUME GroupingInv PROVE EachStepOnce
    BY DEF GroupingInv, GroupsSound
  <2> SUFFICES ASSUME phase = "ok", NEW i \in DOMAIN plan
               PROVE  \E g \in GroupsOf(i) :
                         /\ GroupsOf(i) = {g}
                         /\ \A k, l \in DOMAIN groups[g] : groups[g][k] = i /\ groups[g][l] = i => k = l
    BY DEF EachStepOnce
  <2>1. PlacedOnce /\ i \in Scheduled
    BY DEF GroupingInv
  <2>2. PICK g \in DOMAIN groups : i \in ToSet(groups[g])
    BY <2>1 DEF Scheduled
  <2>3. g \in GroupsOf(i)
    BY <2>2 DEF GroupsOf
  <2>4. ASSUME NEW h \in GroupsOf(i) PROVE h = g
    <3>1. PICK k \in DOMAIN groups[g], l \in DOMAIN groups[h] : groups[g][k] = i /\ groups[h][l] = i
      BY <2>2, <2>4 DEF GroupsOf, ToSet
    <3>2. h \in DOMAIN groups
      BY DEF GroupsOf
    <3> QED BY <2>1, <3>1, <3>2 DEF PlacedOnce
  <2>5. \A k, l \in DOMAIN groups[g] : groups[g][k] = i /\ groups[g][l] = i => k = l
    BY <2>1 DEF PlacedOnce
  <2> QED BY <2>3, <2>4, <2>5
<1> QED BY <1>1, <1>2, GroupingInvInit, PTL DEF GroupingSpec
=============================================================================
