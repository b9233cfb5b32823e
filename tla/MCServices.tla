----------------------------- MODULE MCServices -----------------------------
(***************************************************************************)
(* The services around the task core, checked in one run. They share no     *)
(* state, so that the interleavings of two of them show nothing: `focus` is *)
(* the one that an execution is about, and the others do not move.          *)
(***************************************************************************)
EXTENDS JobScheduler, CommunicationBus, ServiceSupervision, McpConnections,
        CompanionChannel, ReplicaSync, PluginManager, DeviceLink, TLC

CONSTANTS j1, j2, j3, p1, p2, p3, c1, c2, c3

(* Jobs in which every kind depends on another, and jobs whose dependencies *)
(* form a cycle.                                                            *)
MCJobs == {j1, j2, j3}

Job(type, schedule, deps, normal, group, skip) ==
    [type |-> type, schedule |-> schedule, deps |-> deps, normal |-> normal,
     group |-> group, skipMissed |-> skip]

Chained ==
    j1 :> Job("recurring", 2, <<>>, FALSE, "g", FALSE)
    @@ j2 :> Job("delayed", 1, <<j1>>, TRUE, "h", FALSE)
    @@ j3 :> Job("cron", 2, <<j2, j1>>, FALSE, "g", TRUE)

Cyclic ==
    j1 :> Job("recurring", 1, <<j2>>, TRUE, "g", FALSE)
    @@ j2 :> Job("delayed", 1, <<j3>>, TRUE, "g", TRUE)
    @@ j3 :> Job("cron", 2, <<j1>>, FALSE, "g", FALSE)

MCCatalogs == {Chained, Cyclic}

-----------------------------------------------------------------------------
VARIABLE focus

serviceVars ==
    <<jobsVars, busVars, supervisionVars, mcpVars, channelVars, syncVars, pluginVars, linkVars, focus>>

MCInit ==
    /\ focus \in {"jobs", "bus", "supervision", "mcp", "channel", "sync", "plugins", "link"}
    /\ JobsInit /\ BusInit /\ SupervisionInit /\ McpInit
    /\ ChannelInit /\ SyncInit /\ PluginInit /\ LinkInit
    /\ focus # "jobs" => def = Chained

\* Only the one service takes a step.
AboutJobs ==
    UNCHANGED <<busVars, supervisionVars, mcpVars, channelVars, syncVars, pluginVars, linkVars, focus>>

AboutBus ==
    UNCHANGED <<jobsVars, supervisionVars, mcpVars, channelVars, syncVars, pluginVars, linkVars, focus>>

AboutSupervision ==
    UNCHANGED <<jobsVars, busVars, mcpVars, channelVars, syncVars, pluginVars, linkVars, focus>>

AboutMcp ==
    UNCHANGED <<jobsVars, busVars, supervisionVars, channelVars, syncVars, pluginVars, linkVars, focus>>

AboutChannel ==
    UNCHANGED <<jobsVars, busVars, supervisionVars, mcpVars, syncVars, pluginVars, linkVars, focus>>

AboutSync ==
    UNCHANGED <<jobsVars, busVars, supervisionVars, mcpVars, channelVars, pluginVars, linkVars, focus>>

AboutPlugins ==
    UNCHANGED <<jobsVars, busVars, supervisionVars, mcpVars, channelVars, syncVars, linkVars, focus>>

AboutLink ==
    UNCHANGED <<jobsVars, busVars, supervisionVars, mcpVars, channelVars, syncVars, pluginVars, focus>>

\* Bounds of the model: jobs in a cycle meet one fault, and where all the
\* changes are made, one replica does not sync twice at a time.
JobsBound == def = Cyclic => faults <= 1
SyncBound == changed = Changes => syncCall[<<"desktop", 2>>] = NoSync

MCNext ==
    \/ focus = "jobs" /\ JobsNext /\ AboutJobs /\ JobsBound'
    \/ focus = "bus" /\ BusNext /\ AboutBus
    \/ focus = "supervision" /\ SupervisionNext /\ AboutSupervision
    \/ focus = "mcp" /\ McpNext /\ AboutMcp
    \/ focus = "channel" /\ ChannelNext /\ AboutChannel
    \/ focus = "sync" /\ SyncNext /\ AboutSync /\ SyncBound'
    \/ focus = "plugins" /\ PluginNext /\ AboutPlugins
    \/ focus = "link" /\ LinkNext /\ AboutLink

\* The fairness of a service is that of its module, in the executions about it.
MCFairness ==
    /\ WF_serviceVars(PassStep /\ AboutJobs)
    /\ WF_serviceVars(RunnerSettles /\ AboutJobs)
    /\ \A r \in Requests : WF_serviceVars((Send(r) \/ RequestTimeout(r)) /\ AboutMcp)

MCSpec == MCInit /\ [][MCNext]_serviceVars /\ MCFairness
-----------------------------------------------------------------------------
MCRegistered == <<"s">>
MCGraphs == {("s" :> {})}

\* A plugin, one that needs it, and one that needs both.
MCPlugins == {p1, p2, p3}
MCManifests == {p1 :> {} @@ p2 :> {p1} @@ p3 :> {p1, p2}}

\* Two changes of the desktop and one of the phone, with the clock and the category of
\* the first; the desktop syncs twice at a time.
MCChanges == {c1, c2, c3}
MCOrigin == c1 :> "desktop" @@ c2 :> "desktop" @@ c3 :> "phone"
MCClock == c1 :> 1 @@ c2 :> 2 @@ c3 :> 1
MCPriority == c1 :> 1 @@ c2 :> 0 @@ c3 :> 1
MCSyncs == {<<"desktop", 1>>, <<"desktop", 2>>, <<"phone", 1>>}
=============================================================================
