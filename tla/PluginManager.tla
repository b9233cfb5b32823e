--------------------------- MODULE PluginManager ---------------------------
(***************************************************************************)
(* Plugins that depend on each other (plugin-manager.ts). enable() awaits   *)
(* verification, sandbox, process and permission reviews; disable() awaits  *)
(* a confirmation, then disables the dependents from the leaves on, then    *)
(* stops the process. Nothing keeps the calls from overlapping.             *)
(***************************************************************************)
EXTENDS Integers, Sequences, SequencesExt

CONSTANTS
    Plugins,
    Manifests,    \* the choices of the dependencies of every plugin
    PluginCalls,  \* calls of enable(), disable() and uninstall() in progress at once
    MaxInstalls   \* bound of the model on the installations of the one plugin that is
                  \* installed more than once

ASSUME PluginAssumption ==
    /\ MaxInstalls \in Nat \ {0}
    /\ Manifests \subseteq [Plugins -> SUBSET Plugins]

VARIABLES
    requires,     \* the dependencies of each plugin
    installed,    \* the record of an installed plugin, 0 where there is none
    pluginState,  \* the state of each record that was ever made
    generation,   \* the records made for a plugin so far
    pluginCall,   \* the frames of each call, the innermost last
    raced         \* history: whether an enable() overlapped with a call that could thwart it

pluginVars == <<requires, installed, pluginState, generation, pluginCall, raced>>

Generations == 1 .. MaxInstalls

PluginStates == {"Installed", "Enabled", "Disabled", "Failed", "Uninstalled"}

\* `todo` are the dependents that a disable() has still to disable.
Frame == [at : {"enabling", "confirming", "cascade", "stopping", "uninstalling"},
          plugin : Plugins, record : Generations, todo : SUBSET Plugins]

PluginTypeOK ==
    /\ requires \in [Plugins -> SUBSET Plugins]
    /\ installed \in [Plugins -> Generations \cup {0}]
    /\ pluginState \in [Plugins -> [Generations -> PluginStates]]
    /\ generation \in [Plugins -> Generations \cup {0}]
    /\ pluginCall \in [PluginCalls -> Seq(Frame)]
    /\ raced \in BOOLEAN

PluginInit ==
    /\ requires \in Manifests
    /\ installed = [p \in Plugins |-> 0]
    /\ pluginState = [p \in Plugins |-> [g \in Generations |-> "Installed"]]
    /\ generation = installed
    /\ pluginCall = [c \in PluginCalls |-> <<>>]
    /\ raced = FALSE

StateOfPlugin(p) == pluginState[p][installed[p]]

Enabled == {p \in Plugins : installed[p] # 0 /\ StateOfPlugin(p) = "Enabled"}

SetPlugin(p, g, state) == pluginState' = [pluginState EXCEPT ![p][g] = state]

\* The enabled plugins that depend on p, directly or through one of them.
EnabledDependents(p) ==
    LET Closed(S) == \A q \in Enabled : requires[q] \cap (S \cup {p}) # {} => q \in S
    IN  {q \in Enabled : \A S \in SUBSET Enabled : Closed(S) => q \in S}

\* The plugins that p depends on, directly or through one of them.
Dependencies(p) ==
    {q \in Plugins : \A S \in SUBSET Plugins :
        (requires[p] \subseteq S /\ \A r \in S : requires[r] \subseteq S) => q \in S}

NewFrame(p, at) == [at |-> at, plugin |-> p, record |-> installed[p], todo |-> {}]

TopFrame(c) == Last(pluginCall[c])

Inner(c, frames) == pluginCall' = [pluginCall EXCEPT ![c] = frames]

EnablingNow(S) == \E c \in PluginCalls : \E n \in DOMAIN pluginCall[c] :
    pluginCall[c][n].at = "enabling" /\ pluginCall[c][n].plugin \in S

DisablingNow == \E c \in PluginCalls : \E n \in DOMAIN pluginCall[c] : pluginCall[c][n].at # "enabling"

-----------------------------------------------------------------------------
Install(p) ==
    /\ installed[p] = 0 /\ generation[p] < MaxInstalls
    /\ generation[p] = 0 \/ \A q \in Plugins \ {p} : generation[q] <= 1
    /\ generation' = [generation EXCEPT ![p] = @ + 1]
    /\ installed' = [installed EXCEPT ![p] = generation'[p]]
    /\ UNCHANGED <<requires, pluginState, pluginCall, raced>>

\* A dependency that is missing, not enabled or of the wrong version, or another
\* version of the API, makes the plugin fail at once.
Enable(c, p) ==
    /\ pluginCall[c] = <<>>
    /\ installed[p] # 0 /\ StateOfPlugin(p) # "Enabled"
    /\ \/ SetPlugin(p, installed[p], "Failed") /\ UNCHANGED pluginCall
       \/ Dependencies(p) \subseteq Enabled /\ Inner(c, <<NewFrame(p, "enabling")>>) /\ UNCHANGED pluginState
    /\ raced' = (raced \/ DisablingNow \/ EnablingNow({p}))
    /\ UNCHANGED <<requires, installed, generation>>

\* The awaits of enable(): any of them may fail or throw.
EnableSettles(c) ==
    /\ pluginCall[c] # <<>> /\ TopFrame(c).at = "enabling"
    /\ \E state \in {"Enabled", "Failed"} : SetPlugin(TopFrame(c).plugin, TopFrame(c).record, state)
    /\ Inner(c, <<>>)
    /\ UNCHANGED <<requires, installed, generation, raced>>

-----------------------------------------------------------------------------
\* The frame that a disable() of p begins with.
DisableFrame(p, confirmation) ==
    IF EnabledDependents(p) = {} THEN NewFrame(p, "stopping")
    ELSE [NewFrame(p, confirmation) EXCEPT !.todo = EnabledDependents(p)]

CanDisable(p) == installed[p] # 0 /\ StateOfPlugin(p) \in {"Installed", "Enabled"}

\* Fault: the dependents are not looked for.
DisableAlone(c, p) ==
    /\ pluginCall[c] = <<>> /\ CanDisable(p)
    /\ Inner(c, <<NewFrame(p, "stopping")>>)
    /\ raced' = (raced \/ EnablingNow(Plugins))
    /\ UNCHANGED <<requires, installed, pluginState, generation>>

\* Without `force` a plugin with dependents is refused, which changes nothing.
Disable(c, p) ==
    /\ pluginCall[c] = <<>> /\ CanDisable(p)
    /\ Inner(c, <<DisableFrame(p, "confirming")>>)
    /\ raced' = (raced \/ EnablingNow(Plugins))
    /\ UNCHANGED <<requires, installed, pluginState, generation>>

Confirmed(c) ==
    /\ pluginCall[c] # <<>> /\ TopFrame(c).at = "confirming"
    /\ \/ Inner(c, Append(Front(pluginCall[c]), [TopFrame(c) EXCEPT !.at = "cascade"]))
       \/ Inner(c, <<>>)
    /\ UNCHANGED <<requires, installed, pluginState, generation, raced>>

\* The next dependent is disabled, with its own dependents before it; one that is
\* no longer installed ends the whole call with an error.
Cascade(c) ==
    /\ pluginCall[c] # <<>> /\ TopFrame(c).at = "cascade"
    /\ IF TopFrame(c).todo = {}
       THEN Inner(c, Append(Front(pluginCall[c]), [TopFrame(c) EXCEPT !.at = "stopping"]))
       ELSE \E q \in TopFrame(c).todo :
              LET rest == Append(Front(pluginCall[c]), [TopFrame(c) EXCEPT !.todo = @ \ {q}])
              IN  IF installed[q] = 0 THEN Inner(c, <<>>)
                  ELSE IF CanDisable(q) THEN Inner(c, Append(rest, DisableFrame(q, "cascade")))
                  ELSE Inner(c, rest)
    /\ UNCHANGED <<requires, installed, pluginState, generation, raced>>

\* disableSingle(): the process has been stopped and the tools deregistered, or
\* one of the two threw, and then no caller goes on.
PluginStopped(c) ==
    /\ pluginCall[c] # <<>> /\ TopFrame(c).at = "stopping"
    /\ \/ SetPlugin(TopFrame(c).plugin, TopFrame(c).record, "Disabled") /\ Inner(c, Front(pluginCall[c]))
       \/ SetPlugin(TopFrame(c).plugin, TopFrame(c).record, "Failed") /\ Inner(c, <<>>)
    /\ UNCHANGED <<requires, installed, generation, raced>>

\* uninstall() of an enabled plugin disables it first.
Uninstall(c, p) ==
    /\ pluginCall[c] = <<>> /\ installed[p] # 0
    /\ IF StateOfPlugin(p) = "Enabled"
       THEN /\ Inner(c, <<NewFrame(p, "uninstalling"), DisableFrame(p, "confirming")>>)
            /\ raced' = (raced \/ EnablingNow(Plugins))
            /\ UNCHANGED <<pluginState, installed>>
       ELSE /\ StateOfPlugin(p) # "Installed"
            /\ SetPlugin(p, installed[p], "Uninstalled")
            /\ installed' = [installed EXCEPT ![p] = 0]
            /\ raced' = (raced \/ EnablingNow(Plugins))
            /\ UNCHANGED pluginCall
    /\ UNCHANGED <<requires, generation>>

Uninstalled(c) ==
    /\ pluginCall[c] # <<>> /\ TopFrame(c).at = "uninstalling"
    /\ LET f == TopFrame(c)
       IN  IF pluginState[f.plugin][f.record] \in {"Disabled", "Failed"}
           THEN /\ SetPlugin(f.plugin, f.record, "Uninstalled")
                /\ installed' = [installed EXCEPT ![f.plugin] = 0]
           ELSE UNCHANGED <<pluginState, installed>>
    /\ Inner(c, <<>>)
    /\ UNCHANGED <<requires, generation, raced>>

PluginNext ==
    \/ \E p \in Plugins : Install(p)
    \/ \E c \in PluginCalls :
          \/ EnableSettles(c) \/ Confirmed(c) \/ Cascade(c) \/ PluginStopped(c) \/ Uninstalled(c)
          \/ \E p \in Plugins : Enable(c, p) \/ Disable(c, p) \/ Uninstall(c, p)

PluginSpec == PluginInit /\ [][PluginNext]_pluginVars
-----------------------------------------------------------------------------
(* Properties.                                                              *)

\* Every dependency of an enabled plugin is enabled.
NoneLeftPointing == \A p \in Enabled : requires[p] \subseteq Enabled

\* "No enabled dependent is left pointing at a disabled dependency"
\* (plugin-dependencies.md), in the middle of a cascade and where a step of it
\* fails as well, as long as no enable() overlaps with a call that disables or
\* with another enable() of its plugin. Of those that overlap without it,
\* disable() and uninstall() may interleave in any way.
DependenciesEnabled == ~raced => NoneLeftPointing
=============================================================================
