----------------------------- MODULE LocalModels -----------------------------
(***************************************************************************)
(* One model of the catalog of local models (local-model-manager.ts): its   *)
(* download, shared by the callers that ask for it at once, the checks of   *)
(* the stored file, its adapters and its retirement. The statuses live in   *)
(* memory and the file does not.                                            *)
(***************************************************************************)
EXTENDS FiniteSets

CONSTANT Loads   \* calls of load() in progress at once

VARIABLES
    file,       \* what the path of the model holds
    status,     \* the status of the model
    loaded,     \* whether an adapter is kept
    download,   \* where the one download operation is
    load        \* where each call of load() is

modelVars == <<file, status, loaded, download, load>>

ModelTypeOK ==
    /\ file \in {"absent", "other", "verified"}
    /\ status \in {"not-downloaded", "downloaded", "loaded", "reclaimable"}
    /\ loaded \in BOOLEAN
    /\ download \in {"none", "verifying", "fetching", "writing", "renamed"}
    /\ load \in [Loads -> {"idle", "verifying", "adapter"}]

\* The file may be left from an earlier run, or be of another version.
ModelInit ==
    /\ file \in {"absent", "other", "verified"}
    /\ status = "not-downloaded" /\ loaded = FALSE
    /\ download = "none" /\ load = [l \in Loads |-> "idle"]

\* A call that finds an operation in progress awaits it.
Download ==
    /\ download = "none" /\ download' = "verifying"
    /\ UNCHANGED <<file, status, loaded, load>>

ExistingVerified ==
    /\ download = "verifying"
    /\ IF file = "verified" THEN download' = "none" /\ status' = "downloaded"
       ELSE download' = "fetching" /\ UNCHANGED status
    /\ UNCHANGED <<file, loaded, load>>

\* What arrives is written to a temporary file if its size and digest are right.
Fetched ==
    /\ download = "fetching" /\ download' \in {"writing", "none"}
    /\ UNCHANGED <<file, status, loaded, load>>

\* Fault: the model is listed as soon as it is written.
ListedThenRenamed ==
    /\ download = "writing" /\ download' = "renamed"
    /\ status' = "downloaded"
    /\ UNCHANGED <<file, loaded, load>>

Renamed ==
    /\ download = "writing" /\ download' = "renamed"
    /\ file' = "verified"
    /\ UNCHANGED <<status, loaded, load>>

WriteFails ==
    /\ download = "writing" /\ download' = "none"
    /\ UNCHANGED <<file, status, loaded, load>>

\* The temporary file is removed before the status is set; if that throws, it is not.
Downloaded ==
    /\ download = "renamed" /\ download' = "none"
    /\ status' \in {status, "downloaded"}
    /\ UNCHANGED <<file, loaded, load>>

Load(l) ==
    /\ load[l] = "idle" /\ load' = [load EXCEPT ![l] = "verifying"]
    /\ UNCHANGED <<file, status, loaded, download>>

LoadVerified(l) ==
    /\ load[l] = "verifying"
    /\ load' = [load EXCEPT ![l] = IF file = "verified" THEN "adapter" ELSE "idle"]
    /\ UNCHANGED <<file, status, loaded, download>>

AdapterLoaded(l) ==
    /\ load[l] = "adapter" /\ load' = [load EXCEPT ![l] = "idle"]
    /\ loaded' = TRUE /\ status' = "loaded"
    /\ UNCHANGED <<file, download>>

AdapterFails(l) ==
    /\ load[l] = "adapter" /\ load' = [load EXCEPT ![l] = "idle"]
    /\ UNCHANGED <<file, status, loaded, download>>

MarkRetired ==
    /\ status # "not-downloaded" /\ status' = "reclaimable" /\ loaded' = FALSE
    /\ UNCHANGED <<file, download, load>>

HostRestarts ==
    /\ status' = "not-downloaded" /\ loaded' = FALSE
    /\ download' = "none" /\ load' = [l \in Loads |-> "idle"]
    /\ UNCHANGED file

ModelNext ==
    \/ Download \/ ExistingVerified \/ Fetched \/ Renamed \/ WriteFails \/ Downloaded
    \/ MarkRetired \/ HostRestarts
    \/ \E l \in Loads : Load(l) \/ LoadVerified(l) \/ AdapterLoaded(l) \/ AdapterFails(l)

ModelSpec == ModelInit /\ [][ModelNext]_modelVars
-----------------------------------------------------------------------------
(* Properties.                                                              *)

\* Whatever downloads, loads and retirements overlap or fail, a model that is
\* listed as present has its verified file where the adapters look for it.
StatusMeansStored == status # "not-downloaded" => file = "verified"
=============================================================================
