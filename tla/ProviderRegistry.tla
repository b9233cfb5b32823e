-------------------------- MODULE ProviderRegistry --------------------------
(***************************************************************************)
(* The providers of one capability and the routing of a request over them   *)
(* (provider-registry.ts). A request looks at the entries twice, each time  *)
(* awaiting the health checks one after the other, and then tries what it   *)
(* found; the registry is edited meanwhile. The state and the health that   *)
(* the registry derives for display are left out: no request reads them.    *)
(***************************************************************************)
EXTENDS Integers, Sequences, SequencesExt, FiniteSets, Subsequences

CONSTANTS
    Catalogue,    \* the providers there are
    LocalOnes,    \* those of the privacy class "local"
    Cost,         \* cost_per_request of each
    NoPin,        \* no manual override
    Installed,    \* the sequence of the providers that the host registers when it starts
    RouteCalls,   \* calls of ProviderRouter.invoke() in progress at once
    MaxEdits      \* bound of the model on the changes of the registry

ASSUME RegistryAssumption ==
    /\ IsFiniteSet(Catalogue) /\ Installed \in Seq(Catalogue)
    /\ Cost \in [Catalogue -> Nat]

VARIABLES
    entries,   \* the entries of the capability in the order of the map
    policy,    \* active_policy
    route,     \* the calls of invoke()
    edits      \* changes so far

registryVars == <<entries, policy, route, edits>>

Entry == [id : Catalogue, enabled : BOOLEAN, priority : 0 .. Cardinality(Catalogue)]

Policies == [kind : {"privacy-first", "cost-optimized", "other"}, pin : {NoPin}]
               \cup [kind : {"manual"}, pin : Catalogue]

\* `since` is history: the providers that were enabled at some time of the call.
NoRoute == [at |-> "idle", wanted |-> {}, todo |-> <<>>, good |-> <<>>, since |-> {},
            policy |-> [kind |-> "privacy-first", pin |-> NoPin]]

RegistryTypeOK ==
    /\ entries \in Seq(Entry) /\ policy \in Policies /\ edits \in 0 .. MaxEdits
    /\ route \in [RouteCalls ->
          [at : {"idle", "selecting", "ordering", "invoking"}, wanted : SUBSET Catalogue,
           todo : Seq(Entry), good : Seq(Entry), since : SUBSET Catalogue, policy : Policies]]

Ids(es) == {es[i].id : i \in DOMAIN es}
Enabled == {e \in ToSet(entries) : e.enabled}

RegistryInit ==
    /\ entries = [i \in DOMAIN Installed |-> [id |-> Installed[i], enabled |-> TRUE, priority |-> i]]
    /\ policy = [kind |-> "privacy-first", pin |-> NoPin] /\ edits = 0
    /\ route = [c \in RouteCalls |-> NoRoute]

-----------------------------------------------------------------------------
(* The registry.                                                            *)

Noted(ids) ==
    route' = [c \in RouteCalls |->
                IF route[c].at = "idle" THEN NoRoute ELSE [route[c] EXCEPT !.since = @ \cup ids]]

RegisterProvider(p) ==
    /\ p \notin Ids(entries)
    /\ entries' = Append(entries, [id |-> p, enabled |-> TRUE, priority |-> Len(entries) + 1])
    /\ Noted({p})
    /\ UNCHANGED policy

SetEnabled(p, enabled) ==
    /\ p \in Ids(entries)
    /\ entries' = [i \in DOMAIN entries |->
          IF entries[i].id = p THEN [entries[i] EXCEPT !.enabled = enabled] ELSE entries[i]]
    /\ Noted(IF enabled THEN {p} ELSE {})
    /\ UNCHANGED policy

Remaining(p) == Kept(entries, {e \in ToSet(entries) : e.id # p})

\* The place of another provider than the one that goes to `target`.
PlaceOf(id, others, target) ==
    LET k == CHOOSE j \in DOMAIN others : others[j].id = id
    IN  IF k <= target THEN k - 1 ELSE k

\* The others are numbered in the order of the map, whatever their priorities.
SetPriority(p, priority) ==
    /\ p \in Ids(entries)
    /\ LET others == Remaining(p)
           target == IF priority < Len(others) THEN priority ELSE Len(others)
           place(e) == IF e.id = p THEN target ELSE PlaceOf(e.id, others, target)
       IN  entries' = [i \in DOMAIN entries |-> [entries[i] EXCEPT !.priority = place(entries[i])]]
    /\ UNCHANGED <<policy, route>>

SetPolicy(new) == policy' = new /\ UNCHANGED <<entries, route>>

RemoveProvider(p) ==
    /\ p \in Ids(entries)
    /\ entries' = Remaining(p)
    /\ UNCHANGED <<policy, route>>

-----------------------------------------------------------------------------
(* The router.                                                              *)

\* Fault: the second look takes disabled providers as well.
LooksAtAll(wanted) == Kept(entries, {e \in ToSet(entries) : e.id \in wanted})

\* The entries that are enabled and meet the constraints of the request.
LooksAt(wanted) == Kept(entries, {e \in Enabled : e.id \in wanted})

Goes(how, e, f) ==
    CASE how.kind = "privacy-first" ->
            \/ e.id \in LocalOnes /\ f.id \notin LocalOnes
            \/ /\ (e.id \in LocalOnes) = (f.id \in LocalOnes)
               /\ e.priority < f.priority
      [] how.kind = "cost-optimized" -> Cost[e.id] < Cost[f.id]
      [] how.kind = "manual" -> e.id = how.pin /\ f.id # how.pin
      [] how.kind = "other" -> e.priority < f.priority

\* Fault: the providers are tried as they were found.
AsFound(how, good) == good

\* order(): equals stay as they are.
Ordered(how, good) ==
    LET before(i, j) == \/ Goes(how, good[i], good[j])
                        \/ (i < j /\ ~Goes(how, good[j], good[i]))
    IN  Arranged(good, {p \in (DOMAIN good) \X (DOMAIN good) : ~before(p[2], p[1])})

\* A look at the entries ends without a provider, goes on to the second look,
\* or to the invocations.
After(r) ==
    LET second == [r EXCEPT !.at = "ordering", !.todo = LooksAt(r.wanted), !.good = <<>>,
                            !.policy = policy]
    IN  CASE r.todo # <<>> -> r
          [] r.todo = <<>> /\ r.good = <<>> -> NoRoute
          [] r.todo = <<>> /\ r.good # <<>> /\ r.at = "selecting" ->
                IF second.todo = <<>> THEN NoRoute ELSE second
          [] OTHER -> [r EXCEPT !.at = "invoking", !.todo = Ordered(r.policy, r.good), !.good = <<>>]

Route(c, wanted) ==
    /\ route[c].at = "idle"
    /\ route' = [route EXCEPT ![c] =
          After([at |-> "selecting", wanted |-> wanted, todo |-> LooksAt(wanted), good |-> <<>>,
                 since |-> {e.id : e \in Enabled}, policy |-> policy])]
    /\ UNCHANGED <<entries, policy, edits>>

\* The check of the first entry has said whether it may be used.
Checked(r, usable) ==
    [r EXCEPT !.todo = Tail(@), !.good = IF usable THEN Append(@, Head(r.todo)) ELSE @]

\* Only a pinned provider is used while degraded.
CheckAnswers(c, health) ==
    /\ route[c].at \in {"selecting", "ordering"}
    /\ LET r == route[c]
           usable == \/ health = "reachable"
                     \/ health = "degraded" /\ r.policy.kind = "manual" /\ r.policy.pin = Head(r.todo).id
       IN  route' = [route EXCEPT ![c] = After(Checked(r, usable))]
    /\ UNCHANGED <<entries, policy, edits>>

\* The provider throws, or returns no stream where one was asked for.
InvocationFails(c) ==
    /\ route[c].at = "invoking"
    /\ route' = IF Len(route[c].todo) = 1 THEN [route EXCEPT ![c] = NoRoute]
                ELSE [route EXCEPT ![c].todo = Tail(@)]
    /\ UNCHANGED <<entries, policy, edits>>

InvocationReturns(c) ==
    /\ route[c].at = "invoking"
    /\ route' = [route EXCEPT ![c] = NoRoute]
    /\ UNCHANGED <<entries, policy, edits>>

EditRegistry ==
    /\ edits < MaxEdits /\ edits' = edits + 1
    /\ \/ \E p \in Catalogue :
             \/ RegisterProvider(p) \/ RemoveProvider(p)
             \/ \E enabled \in BOOLEAN : SetEnabled(p, enabled)
             \/ \E n \in 0 .. Cardinality(Catalogue) : SetPriority(p, n)
       \/ \E new \in Policies : SetPolicy(new)

RegistryNext ==
    \/ EditRegistry
    \/ \E c \in RouteCalls :
          \/ InvocationFails(c) \/ InvocationReturns(c)
          \/ \E wanted \in SUBSET Catalogue : Route(c, wanted)
          \/ \E health \in {"reachable", "degraded", "down"} : CheckAnswers(c, health)

RegistrySpec == RegistryInit /\ [][RegistryNext]_registryVars
-----------------------------------------------------------------------------
(* Properties.                                                              *)

\* A provider that is disabled before a request begins, and stays so, is never
\* invoked for it, however the edits fall between its health checks.
OnlyEnabledInvoked ==
    \A c \in RouteCalls : route[c].at = "invoking" => Head(route[c].todo).id \in route[c].since

\* Under "privacy-first" no cloud provider is tried while a local one that the
\* request found usable is still untried.
LocalComesFirst ==
    \A c \in RouteCalls :
        route[c].at = "invoking" /\ route[c].policy.kind = "privacy-first"
            /\ Head(route[c].todo).id \notin LocalOnes
        => Ids(route[c].todo) \cap LocalOnes = {}

\* Edits between the health checks of a request do not make it disregard them.
RoutedAsConfigured == OnlyEnabledInvoked /\ LocalComesFirst

\* "Priority updates reorder the provider entries" (capability-management.md):
\* an edit moves one provider and leaves the order of the others. Violated: the
\* others go back to the order of their registration.
PriorityOf(es, p) == (CHOOSE e \in ToSet(es) : e.id = p).priority
EditsCompose ==
    [][\A p \in Catalogue, n \in 0 .. Cardinality(Catalogue) :
          SetPriority(p, n) =>
             \A q, r \in Ids(entries) \ {p} :
                PriorityOf(entries, q) < PriorityOf(entries, r)
                   => PriorityOf(entries', q) < PriorityOf(entries', r)]_registryVars
=============================================================================
