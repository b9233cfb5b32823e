--------------------------- MODULE BrowserObserver ---------------------------
(***************************************************************************)
(* The observer of browser tabs (browser-observer.ts). The extension sends  *)
(* events, each of which is checked, queued under its tab and flushed with  *)
(* whatever else is queued, one awaited publication after the other. The    *)
(* host enables and revokes the observer as the permission changes, and the *)
(* user excludes domains.                                                   *)
(***************************************************************************)
EXTENDS Subsequences, SequencesExt

CONSTANTS
    Tabs,        \* the keys of the queue: a window and a tab
    Domains,     \* the domains of the pages
    NoDomain,    \* the domain of an event that carries no URL
    Receivers,   \* events under way at once
    Controls     \* calls that enable or revoke, in progress at once

VARIABLES
    granted,     \* whether the permission browser_metadata is granted
    observer,    \* BrowserObserver.state
    listening,   \* whether the bridge has a handler
    excluded,    \* excludedDomains
    queued,      \* the pending messages, in the order of the map
    receiving,   \* the calls of captureAndPublish()
    control      \* the calls of enable() and revoke()

observerVars == <<granted, observer, listening, excluded, queued, receiving, control>>

\* `revoked` marks what a revocation of the permission should have purged.
Message == [tab : Tabs, domain : Domains \cup {NoDomain}, revoked : BOOLEAN]

\* `rules` are those that were in force when the batch was taken.
NoReceipt == [at |-> "idle", batch |-> <<>>, rules |-> {}]

ObserverTypeOK ==
    /\ granted \in BOOLEAN /\ listening \in BOOLEAN
    /\ observer \in {"Disabled", "Enabling", "Active", "Failed"}
    /\ excluded \subseteq Domains
    /\ queued \in Seq(Message)
    /\ receiving \in [Receivers -> [at : {"idle", "permitted", "captured", "publishing", "stopping"},
                                    batch : Seq(Message), rules : SUBSET Domains]]
    /\ control \in [Controls -> {"idle", "starting", "refused", "stopping"}]

ObserverInit ==
    /\ granted \in BOOLEAN /\ observer = "Disabled" /\ listening = FALSE
    /\ excluded = {} /\ queued = <<>>
    /\ receiving = [r \in Receivers |-> NoReceipt]
    /\ control = [c \in Controls |-> "idle"]

Marked(m) == [m EXCEPT !.revoked = @ \/ ~granted]

\* The end of a revocation: the queue is emptied. What is in a batch goes on.
Purge(receipts) ==
    /\ queued' = <<>> /\ observer' = "Disabled"
    /\ receiving' = [r \in Receivers |->
          [receipts[r] EXCEPT !.batch = [i \in DOMAIN @ |-> Marked(@[i])]]]

-----------------------------------------------------------------------------
(* The host.                                                                *)

\* Only a change of the permission is followed by calls that change anything.
SetPermission ==
    /\ granted' = ~granted
    /\ UNCHANGED <<observer, listening, excluded, queued, receiving, control>>

\* The bridge refuses a second handler.
SyncEnables(c) ==
    /\ control[c] = "idle" /\ granted /\ observer = "Disabled"
    /\ observer' = "Enabling"
    /\ control' = [control EXCEPT ![c] = IF listening THEN "refused" ELSE "starting"]
    /\ listening' = TRUE
    /\ UNCHANGED <<granted, excluded, queued, receiving>>

\* syncBrowserObserver() without the permission, or the stop of the host.
SyncRevokes(c) ==
    /\ control[c] = "idle" /\ observer # "Disabled"
    /\ listening' = FALSE
    /\ control' = [control EXCEPT ![c] = "stopping"]
    /\ UNCHANGED <<granted, observer, excluded, queued, receiving>>

EnableSettled(c) ==
    /\ control[c] \in {"starting", "refused"}
    /\ observer' = IF control[c] = "starting" THEN "Active" ELSE "Failed"
    /\ control' = [control EXCEPT ![c] = "idle"]
    /\ UNCHANGED <<granted, listening, excluded, queued, receiving>>

RevokeSettled(c) ==
    /\ control[c] = "stopping"
    /\ Purge(receiving)
    /\ control' = [control EXCEPT ![c] = "idle"]
    /\ UNCHANGED <<granted, listening, excluded>>

\* Fault: what is queued is not looked at.
SetExcludedForNew(rules) ==
    /\ rules # excluded /\ excluded' = rules
    /\ UNCHANGED <<granted, observer, listening, queued, receiving, control>>

SetExcludedDomains(rules) ==
    /\ rules # excluded /\ excluded' = rules
    /\ queued' = Kept(queued, {m \in ToSet(queued) : m.domain \notin rules})
    /\ UNCHANGED <<granted, observer, listening, receiving, control>>

-----------------------------------------------------------------------------
(* An event.                                                                *)

Step(r, at, batch) ==
    receiving' = [receiving EXCEPT ![r] = [at |-> at, batch |-> batch, rules |-> {}]]

Publish(r, batch, rules) ==
    receiving' = [receiving EXCEPT ![r] = [at |-> "publishing", batch |-> batch, rules |-> rules]]

\* The host hands the events of its own bridge to the observer at any time.
\* Without the permission the event ends the observation itself; in any other
\* state than Active it is refused, which changes nothing.
Receive(r, m) ==
    /\ receiving[r].at = "idle"
    /\ \/ ~granted /\ observer # "Disabled" /\ listening' = FALSE /\ Step(r, "stopping", <<>>)
       \/ granted /\ observer = "Active" /\ Step(r, "permitted", <<m>>) /\ UNCHANGED listening
    /\ UNCHANGED <<granted, observer, excluded, queued, control>>

ReceiveRevokes(r) ==
    /\ receiving[r].at = "stopping"
    /\ Purge([receiving EXCEPT ![r] = NoReceipt])
    /\ UNCHANGED <<granted, listening, excluded, control>>

\* A queued message of the same tab is replaced where it stands.
Capture(r) ==
    /\ receiving[r].at = "permitted"
    /\ LET m    == Head(receiving[r].batch)
           same == {i \in DOMAIN queued : queued[i].tab = m.tab}
       IN  queued' = IF m.domain \in excluded THEN queued
                     ELSE IF same = {} THEN Append(queued, m)
                     ELSE [i \in DOMAIN queued |-> IF i \in same THEN m ELSE queued[i]]
    /\ Step(r, "captured", <<>>)
    /\ UNCHANGED <<granted, observer, listening, excluded, control>>

\* flush(): the publication of the first message begins at once.
Flush(r) ==
    /\ receiving[r].at = "captured"
    /\ queued' = <<>>
    /\ IF observer = "Active" /\ queued # <<>> THEN Publish(r, queued, excluded)
       ELSE Step(r, "idle", <<>>)
    /\ UNCHANGED <<granted, observer, listening, excluded, control>>

\* The next publication begins, without a look at the rules of now; a publication
\* that fails drops the rest of the batch.
Published(r) ==
    /\ receiving[r].at = "publishing"
    /\ \/ Len(receiving[r].batch) > 1 /\ Publish(r, Tail(receiving[r].batch), receiving[r].rules)
       \/ Step(r, "idle", <<>>)
    /\ UNCHANGED <<granted, observer, listening, excluded, queued, control>>

ObserverNext ==
    \/ SetPermission
    \/ \E c \in Controls : SyncEnables(c) \/ SyncRevokes(c) \/ EnableSettled(c) \/ RevokeSettled(c)
    \/ \E rules \in SUBSET Domains : SetExcludedDomains(rules)
    \/ \E r \in Receivers :
          \/ ReceiveRevokes(r) \/ Capture(r) \/ Flush(r) \/ Published(r)
          \/ \E t \in Tabs, d \in Domains \cup {NoDomain} :
                Receive(r, [tab |-> t, domain |-> d, revoked |-> FALSE])

ObserverSpec == ObserverInit /\ [][ObserverNext]_observerVars
-----------------------------------------------------------------------------
(* Properties.                                                              *)

NothingOf(rules, messages) == \A i \in DOMAIN messages : messages[i].domain \notin rules

\* However events and changes of the policy interleave, no message of an excluded
\* domain waits in the queue, and none is published that was excluded when a flush
\* took it. What is excluded only after that is published all the same.
ExcludedIsPurged ==
    /\ NothingOf(excluded, queued)
    /\ \A r \in Receivers :
          receiving[r].at = "publishing" => NothingOf(receiving[r].rules, receiving[r].batch)

\* A publication begins with this step.
Begins(r) ==
    /\ receiving'[r].at = "publishing"
    /\ receiving[r].at = "publishing" => Len(receiving'[r].batch) < Len(receiving[r].batch)

\* "Excluded-domain activity never reaches the event bus or Memory in any form"
\* (browser.md): no publication begins of a message whose domain is excluded by
\* then. Violated: the rules are looked at before a message is queued only.
ExcludedUnpublished ==
    [][\A r \in Receivers : Begins(r) => Head(receiving'[r].batch).domain \notin excluded]_observerVars

\* "An observer whose permission is later revoked stops capturing immediately
\* and purges any in-flight, not-yet-persisted events" (observer.md). Violated:
\* a revocation empties the queue and not the batch of a flush.
PurgedOnRevoke ==
    [][\A r \in Receivers : Begins(r) => ~Head(receiving'[r].batch).revoked]_observerVars
=============================================================================
