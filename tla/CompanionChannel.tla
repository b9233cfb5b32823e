-------------------------- MODULE CompanionChannel --------------------------
(***************************************************************************)
(* The channel of the companion devices: offers and trust                   *)
(* (device-pairing.ts), bearer tokens and sessions                          *)
(* (companion-pairing-session.ts), the commands that a device polls for     *)
(* (companion-command-bridge.ts), the log that it pushes to                 *)
(* (companion-sync-store.ts), and the requests of companion-server.ts: one  *)
(* with a body is authenticated, and acts when the body has been read.      *)
(***************************************************************************)
EXTENDS Integers, Sequences, SequencesExt

CONSTANTS
    Devices,
    Keys,        \* public keys of devices
    BadKeys,     \* those from which no session key can be derived
    Codes,       \* pairing codes
    Commands,    \* command_ids
    NoOne,
    Posts,       \* requests whose bodies may be read at a time; bounds their number
    MaxPairings  \* bound of the model on the pairings that are tried

VARIABLES
    offers,       \* codes of offers that have not expired
    trusted,      \* DevicePairingManager.trusted
    session,      \* CompanionSessionStore: the token and the key of a device
    tokenOf,      \* CompanionTokenIssuer.tokensByDevice
    deviceOf,     \* CompanionTokenIssuer.devicesByToken
    syncManager,  \* the key of the sync manager of a device
    queued,       \* queuedByDevice
    command,      \* the state of each command at its caller
    reading,      \* requests whose body is being read: the device, and as a history its token
    pushed,       \* history: the tokens with which a device's log in the broker was written
    taken,        \* history: how often a command was handed to a device
    pairings      \* history: pairings that were tried, and tokens issued

channelVars == <<offers, trusted, session, tokenOf, deviceOf, syncManager, queued, command, taken,
                reading, pushed, pairings>>

Tokens == 1 .. MaxPairings

ASSUME ChannelAssumption ==
    /\ MaxPairings \in Nat
    /\ NoOne \notin Devices \cup Keys \cup Tokens
    /\ BadKeys \subseteq Keys

NoRequest == [device |-> NoOne, token |-> NoOne]

NoSession == [token |-> NoOne, key |-> NoOne]

ChannelTypeOK ==
    /\ offers \subseteq Codes
    /\ trusted \subseteq Devices
    /\ session \in [Devices -> [token : Tokens \cup {NoOne}, key : Keys \cup {NoOne}]]
    /\ tokenOf \in [Devices -> Tokens \cup {NoOne}]
    /\ deviceOf \in [Tokens -> Devices \cup {NoOne}]
    /\ syncManager \in [Devices -> Keys \cup {NoOne}]
    /\ queued \in [Devices -> Seq(Commands)]
    /\ command \in [Commands -> {"new", "pending", "timedOut", "answered"}]
    /\ taken \in [Commands -> Nat]
    /\ reading \in [Posts -> [device : Devices \cup {NoOne}, token : Tokens \cup {NoOne}]]
    /\ pushed \in [Devices -> SUBSET Tokens]
    /\ pairings \in 0 .. MaxPairings

ChannelInit ==
    /\ offers = {} /\ trusted = {}
    /\ session = [d \in Devices |-> NoSession]
    /\ tokenOf = [d \in Devices |-> NoOne]
    /\ deviceOf = [t \in Tokens |-> NoOne]
    /\ syncManager = [d \in Devices |-> NoOne]
    /\ queued = [d \in Devices |-> <<>>]
    /\ command = [c \in Commands |-> "new"]
    /\ taken = [c \in Commands |-> 0]
    /\ reading = [q \in Posts |-> NoRequest]
    /\ pushed = [d \in Devices |-> {}]
    /\ pairings = 0

commandVars == <<queued, command, taken>>

pairingVars == <<offers, trusted, session, tokenOf, deviceOf, pairings>>

requestVars == <<reading, pushed>>

\* An offer whose code is still active is refused.
CreateOffer(c) ==
    /\ c \notin offers
    /\ offers' = offers \cup {c}
    /\ UNCHANGED <<trusted, session, tokenOf, deviceOf, syncManager, commandVars, requestVars, pairings>>

Expire(c) ==
    /\ c \in offers
    /\ offers' = offers \ {c}
    /\ UNCHANGED <<trusted, session, tokenOf, deviceOf, syncManager, commandVars, requestVars, pairings>>

\* issue(): the token that the device had is no longer valid.
Issue(d, t) ==
    /\ tokenOf' = [tokenOf EXCEPT ![d] = t]
    /\ deviceOf' = [u \in Tokens |-> IF u = t THEN d ELSE IF u = tokenOf[d] THEN NoOne ELSE deviceOf[u]]

\* A confirmed request with a valid signature. The device is trusted before the
\* session key is derived, which may fail.
CompletePairing(c, d, k) ==
    /\ c \in offers /\ d \notin trusted /\ pairings < MaxPairings
    /\ pairings' = pairings + 1
    /\ trusted' = trusted \cup {d}
    /\ offers' = offers \ {c}
    /\ IF k \in BadKeys THEN UNCHANGED <<tokenOf, deviceOf, session>>
       ELSE /\ Issue(d, pairings')
            /\ session' = [session EXCEPT ![d] = [token |-> pairings', key |-> k]]
    /\ UNCHANGED <<syncManager, commandVars, requestVars>>

\* Fault: the token of the device is not withdrawn.
UnpairKeepingToken(d) ==
    /\ d \in trusted
    /\ trusted' = trusted \ {d}
    /\ session' = [session EXCEPT ![d] = NoSession]
    /\ tokenOf' = [tokenOf EXCEPT ![d] = NoOne]
    /\ UNCHANGED <<offers, deviceOf, syncManager, commandVars, requestVars, pairings>>

\* unpair() with revoke(): neither the queue of the device, nor its log and its
\* sync manager, nor a request whose body is being read is touched.
Unpair(d) ==
    /\ d \in trusted
    /\ trusted' = trusted \ {d}
    /\ session' = [session EXCEPT ![d] = NoSession]
    /\ tokenOf' = [tokenOf EXCEPT ![d] = NoOne]
    /\ deviceOf' = [t \in Tokens |-> IF t = tokenOf[d] THEN NoOne ELSE deviceOf[t]]
    /\ UNCHANGED <<offers, syncManager, commandVars, requestVars, pairings>>

\* syncManagerFor(): the manager of a device is made once, with the key of the
\* session of that moment; without a session the call throws.
SyncManagerFor(d) ==
    IF syncManager[d] = NoOne THEN [syncManager EXCEPT ![d] = session[d].key] ELSE syncManager

\* The desktop's own change for a device.
QueueLocalChange(d) ==
    /\ syncManager' = SyncManagerFor(d)
    /\ UNCHANGED <<pairingVars, commandVars, requestVars>>

-----------------------------------------------------------------------------
(* Commands.                                                                *)

\* sendCommand() does not ask whether the device is paired.
SendCommand(c, d) ==
    /\ command[c] = "new"
    /\ command' = [command EXCEPT ![c] = "pending"]
    /\ queued' = [queued EXCEPT ![d] = Append(@, c)]
    /\ UNCHANGED <<pairingVars, requestVars, syncManager, taken>>

\* The timeout leaves the command in the queue.
CommandTimeout(c) ==
    /\ command[c] = "pending"
    /\ command' = [command EXCEPT ![c] = "timedOut"]
    /\ UNCHANGED <<pairingVars, requestVars, syncManager, queued, taken>>

HandOut(d) ==
    taken' = [c \in Commands |-> IF c \in ToSet(queued[d]) THEN taken[c] + 1 ELSE taken[c]]

\* GET commands/next with the token t: without a body, in one turn.
TakeQueuedCommands(t) ==
    /\ deviceOf[t] # NoOne
    /\ queued[deviceOf[t]] # <<>>
    /\ HandOut(deviceOf[t])
    /\ queued' = [queued EXCEPT ![deviceOf[t]] = <<>>]
    /\ UNCHANGED <<pairingVars, requestVars, syncManager, command>>

-----------------------------------------------------------------------------
(* Requests with a body.                                                    *)

\* A request is let in with a token that is accepted; then its body is read.
LetIn(q, t) ==
    /\ reading[q] = NoRequest /\ deviceOf[t] # NoOne
    /\ reading' = [reading EXCEPT ![q] = [device |-> deviceOf[t], token |-> t]]
    /\ UNCHANGED <<pairingVars, commandVars, syncManager, pushed>>

\* The body has been read, and nobody asks for the token again.
Finish(q) ==
    /\ reading[q] # NoRequest
    /\ reading' = [reading EXCEPT ![q] = NoRequest]

\* A malformed body, an answer that is refused, or a frame for the vision pipeline.
OtherPost(q) ==
    /\ Finish(q)
    /\ UNCHANGED <<pairingVars, commandVars, syncManager, pushed>>

\* POST sync/pull
PullPost(q) ==
    /\ Finish(q)
    /\ syncManager' = SyncManagerFor(reading[q].device)
    /\ UNCHANGED <<pairingVars, commandVars, pushed>>

\* POST sync/push
PushPost(q) ==
    /\ Finish(q)
    /\ pushed' = [pushed EXCEPT ![reading[q].device] = @ \cup {reading[q].token}]
    /\ UNCHANGED <<pairingVars, commandVars, syncManager>>

\* POST commands/result of a command that a device has got; it is refused once
\* the command has been answered or has timed out.
SubmitResult(c, q) ==
    /\ Finish(q)
    /\ taken[c] > 0 /\ command[c] = "pending"
    /\ command' = [command EXCEPT ![c] = "answered"]
    /\ UNCHANGED <<pairingVars, syncManager, queued, taken, pushed>>

ChannelNext ==
    \/ \E c \in Codes : CreateOffer(c) \/ Expire(c) \/ \E d \in Devices, k \in Keys : CompletePairing(c, d, k)
    \/ \E d \in Devices : Unpair(d) \/ QueueLocalChange(d) \/ \E c \in Commands : SendCommand(c, d)
    \/ \E c \in Commands : CommandTimeout(c) \/ \E q \in Posts : SubmitResult(c, q)
    \/ \E t \in Tokens : TakeQueuedCommands(t) \/ \E q \in Posts : LetIn(q, t)
    \/ \E q \in Posts : OtherPost(q) \/ PullPost(q) \/ PushPost(q)

ChannelSpec == ChannelInit /\ [][ChannelNext]_channelVars
-----------------------------------------------------------------------------
(* Properties.                                                              *)

\* A token that is accepted is that of a device that is trusted now, and of the
\* session that it has now.
TokensArePaired ==
    \A t \in Tokens :
        deviceOf[t] # NoOne =>
            /\ deviceOf[t] \in trusted
            /\ tokenOf[deviceOf[t]] = t
            /\ session[deviceOf[t]].token = t

\* A request that was let in is of its device's session still, or its token is
\* accepted no more.
RequestsArePaired ==
    \A q \in Posts :
        reading[q] # NoRequest =>
            \/ deviceOf[reading[q].token] = NoOne
            \/ session[reading[q].device].token = reading[q].token

\* Through pairings, removals and repeated pairings, no request of an earlier
\* pairing is let in. This is about authentication: a request that was let in
\* before goes on, as do the queue of its device and the key of its sync manager.
AuthenticatedIsPaired == TokensArePaired /\ RequestsArePaired

\* "Revoke at the sync endpoint ... so no window exists where the old key still
\* works" (01-cross-device-sync.md): no push is accepted with a token that was
\* withdrawn. Violated: the token is looked at before the body is read.
RemovedIsOut ==
    [][\A d \in Devices : \A t \in pushed'[d] \ pushed[d] : deviceOf[t] = d]_channelVars

\* A command is handed out at most once, also to a device that is paired again.
HandedOutOnce == \A c \in Commands : taken[c] <= 1
=============================================================================
