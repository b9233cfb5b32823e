----------------------------- MODULE MCPlatform -----------------------------
(***************************************************************************)
(* The grouping of plans, and what observes, routes and remembers for the   *)
(* task core, checked as MCServices checks the services: `focus` is the one *)
(* component that an execution is about, and the others do not move.        *)
(***************************************************************************)
EXTENDS MCExecutionGroups, ModelRouter, BrowserObserver, StateManager, WorldModel, ProviderRegistry,
        LocalModels, NamedPipeBus, KnowledgeGraph, ActivityObserver, UpgradeManager, TLC

CONSTANTS
    Foci,              \* the components of the run
    local, cloud,      \* providers of a model
    w1, w2, w3, a1, a2,   \* windows and their applications
    q1, q2, q3,        \* providers of a capability
    n1, n2, n3, e1, e2 \* nodes and edges of the graph

VARIABLE focus

platformVars ==
    <<routerVars, observerVars, stateVars, worldVars, registryVars, modelVars, pipeVars, graphVars,
      groupingVars, activityVars, upgradeVars, focus>>

MCInit ==
    /\ focus \in Foci
    /\ focus = "groups" \/ plan = <<>>
    /\ RouterInit /\ ObserverInit /\ StateInit /\ WorldInit
    /\ RegistryInit /\ ModelInit /\ PipeInit /\ GraphInit
    /\ focus # "observer" => granted
    /\ focus # "models" => file = "absent"
    /\ GroupingInit /\ ActivityInit /\ UpgradeInit
    /\ focus # "upgrade" => ~hooked

\* Only the one component takes a step.
AboutRouter ==
    UNCHANGED <<observerVars, stateVars, worldVars, registryVars, modelVars, pipeVars, graphVars,
                groupingVars, activityVars, upgradeVars, focus>>

AboutObserver ==
    UNCHANGED <<routerVars, stateVars, worldVars, registryVars, modelVars, pipeVars, graphVars,
                groupingVars, activityVars, upgradeVars, focus>>

AboutState ==
    UNCHANGED <<routerVars, observerVars, worldVars, registryVars, modelVars, pipeVars, graphVars,
                groupingVars, activityVars, upgradeVars, focus>>

AboutWorld ==
    UNCHANGED <<routerVars, observerVars, stateVars, registryVars, modelVars, pipeVars, graphVars,
                groupingVars, activityVars, upgradeVars, focus>>

AboutRegistry ==
    UNCHANGED <<routerVars, observerVars, stateVars, worldVars, modelVars, pipeVars, graphVars,
                groupingVars, activityVars, upgradeVars, focus>>

AboutModels ==
    UNCHANGED <<routerVars, observerVars, stateVars, worldVars, registryVars, pipeVars, graphVars,
                groupingVars, activityVars, upgradeVars, focus>>

AboutPipe ==
    UNCHANGED <<routerVars, observerVars, stateVars, worldVars, registryVars, modelVars, graphVars,
                groupingVars, activityVars, upgradeVars, focus>>

AboutGraph ==
    UNCHANGED <<routerVars, observerVars, stateVars, worldVars, registryVars, modelVars, pipeVars,
                groupingVars, activityVars, upgradeVars, focus>>

AboutGroups ==
    UNCHANGED <<routerVars, observerVars, stateVars, worldVars, registryVars, modelVars, pipeVars,
                graphVars, activityVars, upgradeVars, focus>>

AboutActivity ==
    UNCHANGED <<routerVars, observerVars, stateVars, worldVars, registryVars, modelVars, pipeVars,
                graphVars, groupingVars, upgradeVars, focus>>

AboutUpgrade ==
    UNCHANGED <<routerVars, observerVars, stateVars, worldVars, registryVars, modelVars, pipeVars,
                graphVars, groupingVars, activityVars, focus>>

MCNext ==
    \/ focus = "router" /\ RouterNext /\ AboutRouter
    \/ focus = "observer" /\ ObserverNext /\ AboutObserver
    \/ focus = "state" /\ StateNext /\ AboutState
    \/ focus = "world" /\ WorldNext /\ AboutWorld
    \/ focus = "registry" /\ RegistryNext /\ AboutRegistry
    \/ focus = "models" /\ ModelNext /\ AboutModels
    \/ focus = "pipe" /\ PipeNext /\ AboutPipe
    \/ focus = "graph" /\ GraphNext /\ AboutGraph
    \/ focus = "groups" /\ GroupingNext /\ AboutGroups
    \/ focus = "activity" /\ ActivityNext /\ AboutActivity
    \/ focus = "upgrade" /\ UpgradeNext /\ AboutUpgrade

\* The grouping of a plan is one synchronous call, which goes on until it is done.
MCSpec ==
    /\ MCInit /\ [][MCNext]_platformVars
    /\ WF_platformVars(focus = "groups" /\ GroupingNext /\ AboutGroups)

\* computeExecutionGroups decides every plan, and as the reference says.
EveryPlanDecided == focus = "groups" => DecidesEveryPlan

\* The observers observe what the user lets them: nothing waits in the browser's
\* queue, or is published, that was excluded when it was queued or taken out, and a
\* switch of the keyboard observer takes effect.
ObserversObey == ExcludedIsPurged /\ SwitchObeyed

\* What models and upgrades report is so on the disk.
ReportsAreTrue == StatusMeansStored /\ OutcomeIsTrue
-----------------------------------------------------------------------------
MCConfigured == <<cloud, local>>
MCPreferred == <<local, cloud>>

MCApps == {a1, a2}
MCWindows == {w1, w2, w3}
MCOwner == w1 :> a1 @@ w2 :> a1 @@ w3 :> a2

MCCatalogue == {q1, q2, q3}
MCInstalled == <<q1, q2, q3>>
MCCost == q1 :> 1 @@ q2 :> 1 @@ q3 :> 0

MCFrames == <<"m1", "m2", "m1">>
MCAtStart == <<"b1", "b2">>

MCNodes == {n1, n2, n3}
MCEdges == {e1, e2}
=============================================================================
