--------------------------- MODULE Services_proofs ---------------------------
(***************************************************************************)
(* The safety of the services around the task core, for any value of their  *)
(* constants.                                                               *)
(***************************************************************************)
EXTENDS CompanionChannel, McpConnections, DeviceLink, PluginManager, CommunicationBus,
        ServiceSupervision, ReplicaSync, Subsequences_proofs
-----------------------------------------------------------------------------
(***************************************************************************)
(* The safety of the companion channel for any devices, keys, codes,        *)
(* commands and number of pairings.                                         *)
(***************************************************************************)
TokensTyped ==
    /\ trusted \subseteq Devices
    /\ session \in [Devices -> [token : Tokens \cup {NoOne}, key : Keys \cup {NoOne}]]
    /\ tokenOf \in [Devices -> Tokens \cup {NoOne}]
    /\ deviceOf \in [Tokens -> Devices \cup {NoOne}]
    /\ pairings \in 0 .. MaxPairings

\* A device that is not trusted has no token, so that the next pairing has none
\* to withdraw.
TokenInv ==
    /\ TokensTyped
    /\ TokensArePaired
    /\ \A d \in Devices \ trusted : tokenOf[d] = NoOne

\* A request was let in with a token that was issued and that is accepted, if at
\* all, for its own device.
RequestInv ==
    /\ \A t \in Tokens : deviceOf[t] # NoOne => t <= pairings
    /\ reading \in [Posts -> [device : Devices \cup {NoOne}, token : Tokens \cup {NoOne}]]
    /\ \A q \in Posts :
         reading[q] # NoRequest =>
            /\ reading[q].token \in Tokens /\ reading[q].token <= pairings
            /\ deviceOf[reading[q].token] \in {NoOne, reading[q].device}

\* A command waits in one queue at most, and only until it is taken.
QueueInv ==
    /\ queued \in [Devices -> Seq(Commands)]
    /\ command \in [Commands -> {"new", "pending", "timedOut", "answered"}]
    /\ taken \in [Commands -> 0 .. 1]
    /\ \A c \in Commands, d \in Devices :
          c \in ToSet(queued[d]) =>
             /\ command[c] # "new" /\ taken[c] = 0
             /\ \A e \in Devices : c \in ToSet(queued[e]) => e = d
    /\ \A c \in Commands : command[c] = "new" => taken[c] = 0
-----------------------------------------------------------------------------
\* The actions of the module that leave tokens, sessions and trust alone.
LEMMA TokenStutter ==
    ASSUME TokenInv, UNCHANGED <<trusted, session, tokenOf, deviceOf, pairings>>
    PROVE  TokenInv'
BY DEF TokenInv, TokensTyped, TokensArePaired

LEMMA TokenInit == ChannelInit => TokenInv
BY ChannelAssumption DEF ChannelInit, TokenInv, TokensTyped, TokensArePaired, NoSession

LEMMA TokenStep ==
    ASSUME TokenInv, [ChannelNext]_channelVars
    PROVE  TokenInv'
<1>1. ASSUME NEW c \in Codes, NEW d \in Devices, NEW k \in Keys, CompletePairing(c, d, k)
      PROVE  TokenInv'
  <2>1. pairings' \in Tokens /\ pairings' \in 0 .. MaxPairings /\ pairings' # NoOne
    BY <1>1, ChannelAssumption DEF CompletePairing, TokenInv, TokensTyped, Tokens
  <2>2. d \notin trusted /\ tokenOf[d] = NoOne /\ trusted' = trusted \cup {d}
    BY <1>1 DEF CompletePairing, TokenInv
  <2>3. CASE k \in BadKeys
    BY <1>1, <2>1, <2>2, <2>3 DEF CompletePairing, TokenInv, TokensTyped, TokensArePaired
  <2>4. CASE k \notin BadKeys
    <3>1. /\ tokenOf' = [tokenOf EXCEPT ![d] = pairings']
          /\ deviceOf' = [u \in Tokens |-> IF u = pairings' THEN d
                                           ELSE IF u = tokenOf[d] THEN NoOne ELSE deviceOf[u]]
          /\ session' = [session EXCEPT ![d] = [token |-> pairings', key |-> k]]
      BY <1>1, <2>4 DEF CompletePairing, Issue
    <3>2. TokensTyped'
      BY <1>1, <2>1, <2>2, <3>1 DEF TokenInv, TokensTyped
    <3>3. \A t \in Tokens : t # pairings' => deviceOf'[t] = deviceOf[t] /\ deviceOf[t] # d
      BY <2>2, <3>1, ChannelAssumption DEF TokenInv, TokensArePaired
    <3>4. TokensArePaired'
      BY <2>1, <2>2, <3>1, <3>3 DEF TokenInv, TokensTyped, TokensArePaired
    <3>5. \A e \in Devices \ trusted' : tokenOf'[e] = NoOne
      BY <2>2, <3>1 DEF TokenInv, TokensTyped
    <3> QED BY <3>2, <3>4, <3>5 DEF TokenInv
  <2> QED BY <2>3, <2>4
<1>2. ASSUME NEW d \in Devices, Unpair(d)
      PROVE  TokenInv'
  <2>1. /\ d \in trusted /\ trusted' = trusted \ {d} /\ pairings' = pairings
        /\ session' = [session EXCEPT ![d] = NoSession]
        /\ tokenOf' = [tokenOf EXCEPT ![d] = NoOne]
        /\ deviceOf' = [t \in Tokens |-> IF t = tokenOf[d] THEN NoOne ELSE deviceOf[t]]
    BY <1>2 DEF Unpair
  <2>2. TokensTyped'
    BY <1>2, <2>1 DEF TokenInv, TokensTyped, NoSession
  <2>3. \A t \in Tokens : deviceOf'[t] # NoOne => deviceOf'[t] = deviceOf[t] /\ deviceOf[t] # d
    BY <2>1 DEF TokenInv, TokensArePaired
  <2>4. TokensArePaired'
    BY <2>1, <2>3 DEF TokenInv, TokensTyped, TokensArePaired
  <2> QED BY <2>1, <2>2, <2>4 DEF TokenInv, TokensTyped
<1>3. ASSUME UNCHANGED pairingVars PROVE TokenInv'
  BY <1>3, TokenStutter DEF pairingVars
<1>4. ASSUME NEW c \in Codes, CreateOffer(c) \/ Expire(c) PROVE TokenInv'
  BY <1>4, TokenStutter DEF CreateOffer, Expire
<1>5. ASSUME \/ \E d \in Devices : QueueLocalChange(d) \/ \E c \in Commands : SendCommand(c, d)
             \/ \E c \in Commands : CommandTimeout(c)
             \/ \E t \in Tokens : TakeQueuedCommands(t)
      PROVE  UNCHANGED pairingVars
  BY <1>5 DEF QueueLocalChange, SendCommand, CommandTimeout, TakeQueuedCommands
<1>6. ASSUME NEW q \in Posts, \/ OtherPost(q) \/ PullPost(q) \/ PushPost(q)
                              \/ \E t \in Tokens : LetIn(q, t)
                              \/ \E c \in Commands : SubmitResult(c, q)
      PROVE  UNCHANGED pairingVars
  BY <1>6 DEF OtherPost, PullPost, PushPost, SubmitResult, LetIn
<1>7. CASE UNCHANGED channelVars
  BY <1>7, TokenStutter DEF channelVars
<1>8. CASE ChannelNext
  <2>1. CASE \E c \in Codes : CreateOffer(c) \/ Expire(c) \/ \E d \in Devices, k \in Keys : CompletePairing(c, d, k)
    BY <1>1, <1>4, <2>1
  <2>2. CASE \E d \in Devices : Unpair(d) \/ QueueLocalChange(d) \/ \E c \in Commands : SendCommand(c, d)
    BY <1>2, <1>3, <1>5, <2>2
  <2>3. CASE \E c \in Commands : CommandTimeout(c) \/ \E q \in Posts : SubmitResult(c, q)
    BY <1>3, <1>5, <1>6, <2>3
  <2>4. CASE \E t \in Tokens : TakeQueuedCommands(t) \/ \E q \in Posts : LetIn(q, t)
    BY <1>3, <1>5, <1>6, <2>4
  <2>5. CASE \E q \in Posts : OtherPost(q) \/ PullPost(q) \/ PushPost(q)
    BY <1>3, <1>6, <2>5
  <2> QED BY <1>8, <2>1, <2>2, <2>3, <2>4, <2>5 DEF ChannelNext
<1> QED BY <1>7, <1>8

\* Requests end, tokens are withdrawn, and new ones are issued.
LEMMA RequestsOnly ==
    ASSUME RequestInv, pairings \in Nat, pairings' \in Nat, pairings <= pairings',
           reading' \in [Posts -> [device : Devices \cup {NoOne}, token : Tokens \cup {NoOne}]],
           \A q \in Posts : reading'[q] \in {NoRequest, reading[q]},
           \A t \in Tokens : deviceOf'[t] # NoOne => t <= pairings',
           \A t \in Tokens : t <= pairings => deviceOf'[t] \in {NoOne, deviceOf[t]}
    PROVE  RequestInv'
<1>1. ASSUME NEW q \in Posts, reading'[q] # NoRequest
      PROVE  /\ reading'[q].token \in Tokens /\ reading'[q].token <= pairings'
             /\ deviceOf'[reading'[q].token] \in {NoOne, reading'[q].device}
  <2>1. reading'[q] = reading[q] /\ reading[q] # NoRequest
    BY <1>1
  <2>2. /\ reading[q].token \in Tokens /\ reading[q].token <= pairings
        /\ deviceOf[reading[q].token] \in {NoOne, reading[q].device}
    BY <2>1 DEF RequestInv
  <2>3. reading[q].token <= pairings'
    BY <2>2 DEF Tokens
  <2> QED BY <2>1, <2>2, <2>3
<1> QED BY <1>1 DEF RequestInv, NoRequest

LEMMA RequestStep ==
    ASSUME TokenInv, RequestInv, [ChannelNext]_channelVars
    PROVE  RequestInv'
<1>0. pairings \in Nat /\ pairings \in 0 .. MaxPairings /\ NoRequest' = NoRequest
  BY ChannelAssumption DEF TokenInv, TokensTyped, NoRequest
<1>1. ASSUME NEW c \in Codes, NEW d \in Devices, NEW k \in Keys, CompletePairing(c, d, k)
      PROVE  RequestInv'
  <2>1. pairings' = pairings + 1 /\ reading' = reading
    BY <1>1 DEF CompletePairing, requestVars
  <2>2. \A t \in Tokens : t # pairings' => deviceOf'[t] \in {NoOne, deviceOf[t]}
    BY <1>1 DEF CompletePairing, Issue
  <2>3. \A t \in Tokens : t <= pairings => deviceOf'[t] \in {NoOne, deviceOf[t]}
    BY <1>0, <2>1, <2>2 DEF Tokens
  <2>4. \A t \in Tokens : deviceOf'[t] # NoOne => t <= pairings'
    BY <1>0, <2>1, <2>2 DEF RequestInv, Tokens
  <2> QED BY <1>0, <2>1, <2>3, <2>4, RequestsOnly DEF RequestInv
<1>2. ASSUME NEW d \in Devices, Unpair(d)
      PROVE  RequestInv'
  <2>1. pairings' = pairings /\ reading' = reading /\ \A t \in Tokens : deviceOf'[t] \in {NoOne, deviceOf[t]}
    BY <1>2 DEF Unpair, requestVars
  <2>2. \A t \in Tokens : deviceOf'[t] # NoOne => t <= pairings'
    BY <2>1 DEF RequestInv
  <2> QED BY <1>0, <2>1, <2>2, RequestsOnly DEF RequestInv
<1>3. ASSUME UNCHANGED pairingVars, reading' \in [Posts -> [device : Devices \cup {NoOne}, token : Tokens \cup {NoOne}]],
             \A q \in Posts : reading'[q] \in {NoRequest, reading[q]}
      PROVE  RequestInv'
  BY <1>0, <1>3, RequestsOnly DEF pairingVars, RequestInv
<1>4. ASSUME NEW q \in Posts, NEW t \in Tokens, LetIn(q, t)
      PROVE  RequestInv'
  <2>1. /\ deviceOf' = deviceOf /\ pairings' = pairings /\ deviceOf[t] \in Devices
        /\ reading' = [reading EXCEPT ![q] = [device |-> deviceOf[t], token |-> t]]
    BY <1>4 DEF LetIn, pairingVars, TokenInv, TokensTyped
  <2>2. PICK r : r = [device |-> deviceOf[t], token |-> t]
    OBVIOUS
  <2>3. r.device = deviceOf[t] /\ r.token = t /\ r \in [device : Devices \cup {NoOne}, token : Tokens \cup {NoOne}]
    BY <2>1, <2>2
  <2>4. /\ reading' \in [Posts -> [device : Devices \cup {NoOne}, token : Tokens \cup {NoOne}]]
        /\ reading'[q] = r /\ \A p \in Posts \ {q} : reading'[p] = reading[p]
    BY <2>1, <2>2, <2>3 DEF RequestInv
  <2>5. t <= pairings
    BY <1>4 DEF LetIn, RequestInv
  <2> QED BY <1>0, <2>1, <2>3, <2>4, <2>5 DEF RequestInv
<1>5. ASSUME NEW q \in Posts, Finish(q)
      PROVE  /\ reading' \in [Posts -> [device : Devices \cup {NoOne}, token : Tokens \cup {NoOne}]]
             /\ \A p \in Posts : reading'[p] \in {NoRequest, reading[p]}
  BY <1>5 DEF Finish, RequestInv, NoRequest
<1>6. ASSUME NEW q \in Posts, OtherPost(q) \/ PullPost(q) \/ PushPost(q) \/ \E c \in Commands : SubmitResult(c, q)
      PROVE  UNCHANGED pairingVars /\ Finish(q)
  BY <1>6 DEF OtherPost, PullPost, PushPost, SubmitResult
<1>7. ASSUME UNCHANGED reading
      PROVE  /\ reading' \in [Posts -> [device : Devices \cup {NoOne}, token : Tokens \cup {NoOne}]]
             /\ \A p \in Posts : reading'[p] \in {NoRequest, reading[p]}
  BY <1>7 DEF RequestInv
<1>8. ASSUME \/ \E d \in Devices : QueueLocalChange(d) \/ \E c \in Commands : SendCommand(c, d)
             \/ \E c \in Commands : CommandTimeout(c)
             \/ \E t \in Tokens : TakeQueuedCommands(t)
      PROVE  UNCHANGED <<pairingVars, reading>>
  BY <1>8 DEF QueueLocalChange, SendCommand, CommandTimeout, TakeQueuedCommands, requestVars
<1>9. ASSUME NEW c \in Codes, CreateOffer(c) \/ Expire(c)
      PROVE  RequestInv'
  BY <1>0, <1>7, <1>9, RequestsOnly DEF CreateOffer, Expire, requestVars, RequestInv
<1>10. CASE UNCHANGED channelVars
  BY <1>3, <1>7, <1>10 DEF channelVars, pairingVars
<1> QED BY <1>1, <1>2, <1>3, <1>4, <1>5, <1>6, <1>7, <1>8, <1>9, <1>10 DEF ChannelNext

LEMMA RequestsFollow ==
    ASSUME TokenInv, RequestInv
    PROVE  RequestsArePaired
<1>1. ASSUME NEW q \in Posts, reading[q] # NoRequest, deviceOf[reading[q].token] # NoOne
      PROVE  session[reading[q].device].token = reading[q].token
  <2>1. reading[q].token \in Tokens /\ deviceOf[reading[q].token] = reading[q].device
    BY <1>1 DEF RequestInv
  <2> QED BY <1>1, <2>1 DEF TokenInv, TokensArePaired
<1> QED BY <1>1 DEF RequestsArePaired

\* No token of an earlier pairing, of a removed device or of a pairing that failed
\* is accepted, whatever requests are let in meanwhile
\* (companion-pairing-session.ts, issue and revoke; companion-server.ts, handle).
THEOREM AuthenticatedIsPairedHolds == ChannelSpec => []AuthenticatedIsPaired
<1>1. ChannelInit => RequestInv
  BY ChannelAssumption DEF ChannelInit, RequestInv, NoRequest
<1>2. TokenInv /\ [ChannelNext]_channelVars => TokenInv'
  BY TokenStep
<1>3. TokenInv /\ RequestInv /\ [ChannelNext]_channelVars => RequestInv'
  BY RequestStep
<1>4. TokenInv /\ RequestInv => AuthenticatedIsPaired
  BY RequestsFollow DEF TokenInv, AuthenticatedIsPaired
<1> QED BY <1>1, <1>2, <1>3, <1>4, TokenInit, PTL DEF ChannelSpec
-----------------------------------------------------------------------------
LEMMA QueueStutter ==
    ASSUME QueueInv, UNCHANGED <<queued, taken>>,
           command' \in [Commands -> {"new", "pending", "timedOut", "answered"}],
           \A c \in Commands : command'[c] = "new" => command[c] = "new"
    PROVE  QueueInv'
BY DEF QueueInv

LEMMA QueueInit == ChannelInit => QueueInv
<1> SUFFICES ASSUME ChannelInit PROVE QueueInv
  OBVIOUS
<1>1. \A d \in Devices : queued[d] = << >> /\ ToSet(queued[d]) = {}
  BY DEF ChannelInit, ToSet
<1> QED BY <1>1 DEF ChannelInit, QueueInv

LEMMA QueueStep ==
    ASSUME QueueInv, [ChannelNext]_channelVars, deviceOf \in [Tokens -> Devices \cup {NoOne}]
    PROVE  QueueInv'
<1>1. ASSUME NEW c \in Commands, NEW d \in Devices, SendCommand(c, d)
      PROVE  QueueInv'
  <2>1. /\ command[c] = "new" /\ command' = [command EXCEPT ![c] = "pending"] /\ taken' = taken
        /\ queued' = [queued EXCEPT ![d] = Append(queued[d], c)]
    BY <1>1 DEF SendCommand
  <2>2. queued' \in [Devices -> Seq(Commands)]
    BY <2>1 DEF QueueInv
  <2>3. ToSet(Append(queued[d], c)) = ToSet(queued[d]) \cup {c}
    <3>1. PICK q \in Seq(Commands) : q = queued[d]
      BY DEF QueueInv
    <3>2. /\ DOMAIN q = 1 .. Len(q) /\ DOMAIN Append(q, c) = 1 .. (Len(q) + 1) /\ Len(q) \in Nat
          /\ \A i \in 1 .. Len(q) : Append(q, c)[i] = q[i]
          /\ Append(q, c)[Len(q) + 1] = c
      OBVIOUS
    <3>3. ToSet(Append(q, c)) \subseteq ToSet(q) \cup {c}
      BY <3>2 DEF ToSet
    <3>4. ToSet(q) \cup {c} \subseteq ToSet(Append(q, c))
      BY <3>2 DEF ToSet
    <3> QED BY <3>1, <3>3, <3>4
  <2>4. \A e \in Devices : ToSet(queued'[e]) = IF e = d THEN ToSet(queued[e]) \cup {c} ELSE ToSet(queued[e])
    BY <2>1, <2>3 DEF QueueInv
  <2>5. \A e \in Devices : c \notin ToSet(queued[e])
    BY <2>1 DEF QueueInv
  <2>6. command' \in [Commands -> {"new", "pending", "timedOut", "answered"}] /\ taken[c] = 0
    BY <2>1 DEF QueueInv
  <2>7. \A n \in Commands \ {c} : command'[n] = command[n]
    BY <2>1 DEF QueueInv
  <2>8. command'[c] = "pending"
    BY <2>1 DEF QueueInv
  <2>9. ASSUME NEW n \in Commands, NEW f \in Devices, n \in ToSet(queued'[f])
        PROVE  /\ command'[n] # "new" /\ taken'[n] = 0
               /\ \A e \in Devices : n \in ToSet(queued'[e]) => e = f
    <3>1. CASE n = c
      BY <2>1, <2>4, <2>5, <2>6, <2>8, <2>9, <3>1
    <3>2. CASE n # c
      <4>1. \A e \in Devices : n \in ToSet(queued'[e]) => n \in ToSet(queued[e])
        BY <2>4, <3>2
      <4>2. n \in ToSet(queued[f])
        BY <2>9, <4>1
      <4>3. command[n] # "new" /\ taken[n] = 0 /\ \A e \in Devices : n \in ToSet(queued[e]) => e = f
        BY <4>2 DEF QueueInv
      <4> QED BY <2>1, <2>7, <3>2, <4>1, <4>3
    <3> QED BY <3>1, <3>2
  <2>10. \A n \in Commands : command'[n] = "new" => taken'[n] = 0
    BY <2>1, <2>7, <2>8 DEF QueueInv
  <2>11. taken' \in [Commands -> 0 .. 1]
    BY <2>1 DEF QueueInv
  <2> QED BY <2>2, <2>6, <2>9, <2>10, <2>11 DEF QueueInv
<1>2. ASSUME NEW t \in Tokens, TakeQueuedCommands(t)
      PROVE  QueueInv'
  <2> DEFINE d == deviceOf[t]
  <2>1. /\ d \in Devices /\ command' = command
        /\ taken' = [c \in Commands |-> IF c \in ToSet(queued[d]) THEN taken[c] + 1 ELSE taken[c]]
        /\ queued' = [queued EXCEPT ![d] = << >>]
    BY <1>2 DEF TakeQueuedCommands, HandOut
  <2>2. queued' \in [Devices -> Seq(Commands)] /\ ToSet(<< >>) = {}
    BY <2>1 DEF QueueInv, ToSet
  <2>3. \A e \in Devices : ToSet(queued'[e]) = IF e = d THEN {} ELSE ToSet(queued[e])
    BY <2>1, <2>2 DEF QueueInv
  <2>4. \A c \in Commands : taken'[c] = IF c \in ToSet(queued[d]) THEN 1 ELSE taken[c]
    BY <2>1 DEF QueueInv
  <2>5. taken' \in [Commands -> 0 .. 1]
    BY <2>1, <2>4 DEF QueueInv
  <2> HIDE DEF d
  <2> QED BY <2>1, <2>2, <2>3, <2>4, <2>5 DEF QueueInv
<1>3. ASSUME NEW c \in Commands, CommandTimeout(c) \/ \E q \in Posts : SubmitResult(c, q)
      PROVE  QueueInv'
  BY <1>3, QueueStutter DEF CommandTimeout, SubmitResult, QueueInv
<1>4. CASE UNCHANGED commandVars
  BY <1>4, QueueStutter DEF commandVars, QueueInv
<1>5. ASSUME NEW c \in Codes, \/ CreateOffer(c) \/ Expire(c)
                              \/ \E d \in Devices, k \in Keys : CompletePairing(c, d, k)
      PROVE  UNCHANGED commandVars
  BY <1>5 DEF CreateOffer, Expire, CompletePairing
<1>6. ASSUME NEW d \in Devices, Unpair(d) \/ QueueLocalChange(d)
      PROVE  UNCHANGED commandVars
  BY <1>6 DEF Unpair, QueueLocalChange
<1>7. ASSUME NEW q \in Posts, OtherPost(q) \/ PullPost(q) \/ PushPost(q) \/ \E t \in Tokens : LetIn(q, t)
      PROVE  UNCHANGED commandVars
  BY <1>7 DEF OtherPost, PullPost, PushPost, LetIn
<1>8. UNCHANGED channelVars => UNCHANGED commandVars
  BY DEF channelVars, commandVars
<1> QED BY <1>1, <1>2, <1>3, <1>4, <1>5, <1>6, <1>7, <1>8 DEF ChannelNext

\* Polls of a device, also of one that was paired again meanwhile, hand out a
\* command at most once (companion-command-bridge.ts, takeQueuedCommands).
THEOREM HandedOutOnceHolds == ChannelSpec => []HandedOutOnce
<1>1. TokenInv /\ [ChannelNext]_channelVars => TokenInv'
  BY TokenStep
<1>2. TokenInv /\ QueueInv /\ [ChannelNext]_channelVars => QueueInv'
  BY QueueStep DEF TokenInv, TokensTyped
<1>3. QueueInv => HandedOutOnce
  BY DEF QueueInv, HandedOutOnce
<1> QED BY <1>1, <1>2, <1>3, TokenInit, QueueInit, PTL DEF ChannelSpec
-----------------------------------------------------------------------------
(***************************************************************************)
(* The processes of one MCP server, for any number of connections, requests *)
(* and failures.                                                            *)
(***************************************************************************)
\* A closed connection has no process and gets none. As long as the calls of the
\* manager follow each other, every connection that is not closed is the one it
\* holds or awaits.
ConnectionInv ==
    /\ manager \in opened \cup {Nobody}
    /\ opened \subseteq Connections
    /\ closed \subseteq opened
    /\ connecting \subseteq opened
    /\ closing \subseteq closed
    /\ living \subseteq opened \ closed
    /\ ~ overlapped =>
         /\ opened \ closed \subseteq {manager} \cup connecting
         /\ connecting # {} => manager = Nobody /\ closing = {}
         /\ \A c, d \in connecting : c = d
         /\ \A c \in closing : c = manager

LEMMA ConnectionStutter ==
    ASSUME ConnectionInv, UNCHANGED <<managerVars, opened, closed>>, living' \subseteq opened \ closed
    PROVE  ConnectionInv'
BY DEF ConnectionInv, managerVars

LEMMA ConnectionStep ==
    ASSUME ConnectionInv, [McpNext]_mcpVars
    PROVE  ConnectionInv'
<1>1. ASSUME NEW c \in Connections, Connect(c) PROVE ConnectionInv'
  BY <1>1 DEF Connect, Overlaps, ConnectionInv
<1>2. ASSUME NEW c \in Connections, Connected(c) PROVE ConnectionInv'
  <2>1. /\ c \in connecting /\ connecting' = connecting \ {c} /\ manager' = c
        /\ UNCHANGED <<closing, overlapped, opened, closed, living>>
    BY <1>2 DEF Connected
  <2>2. ~ overlapped => connecting' = {} /\ closing = {} /\ opened \ closed \subseteq {c}
    BY <2>1, McpAssumption DEF ConnectionInv
  <2> QED BY <2>1, <2>2 DEF ConnectionInv
<1>3. ASSUME NEW c \in Connections, Disconnect(c) PROVE ConnectionInv'
  <2>1. /\ c = manager /\ closing' = closing \cup {c} /\ closed' = closed \cup {c}
        /\ living' = living \ {c} /\ UNCHANGED <<manager, connecting, opened>>
        /\ overlapped' = (overlapped \/ connecting \cup closing # {})
    BY <1>3 DEF Disconnect, Overlaps
  <2>2. c \in opened
    BY <2>1, McpAssumption DEF ConnectionInv
  <2> QED BY <2>1, <2>2 DEF ConnectionInv
<1>4. ASSUME NEW c \in Connections, Disconnected(c) PROVE ConnectionInv'
  <2>1. /\ c \in closing /\ closing' = closing \ {c} /\ manager' = Nobody
        /\ UNCHANGED <<connecting, overlapped, opened, closed, living>>
    BY <1>4 DEF Disconnected
  <2>2. ~ overlapped => connecting = {} /\ opened \ closed = {} /\ closing' = {}
    BY <2>1, McpAssumption DEF ConnectionInv
  <2> QED BY <2>1, <2>2 DEF ConnectionInv
<1>5. ASSUME NEW r \in Requests, NEW c \in Connections, NEW i \in Ids, Request(r, c, i) PROVE ConnectionInv'
  <2>1. UNCHANGED <<managerVars, opened, closed>> /\ living' \subseteq opened \ closed
    BY <1>5 DEF Request, ConnectionInv
  <2> QED BY <2>1, ConnectionStutter
<1>6. ASSUME NEW r \in Requests, Send(r) \/ RequestTimeout(r) PROVE ConnectionInv'
  BY <1>6, ConnectionStutter DEF Send, RequestTimeout, ConnectionInv
<1>7. ASSUME NEW c \in Connections, Chunk(c) \/ Exit(c) \/ SpawnError(c) PROVE ConnectionInv'
  BY <1>7, ConnectionStutter DEF Chunk, Exit, SpawnError, ConnectionInv
<1>8. ASSUME NEW c \in Connections, NEW r \in Requests, Answer(c, r) PROVE ConnectionInv'
  BY <1>8, ConnectionStutter DEF Answer, ConnectionInv
<1>9. CASE UNCHANGED mcpVars
  BY <1>9, ConnectionStutter DEF mcpVars, ConnectionInv
<1> QED BY <1>1, <1>2, <1>3, <1>4, <1>5, <1>6, <1>7, <1>8, <1>9 DEF McpNext

\* No process of a server outlives its connection, as long as connect() and
\* disconnect() of it do not overlap (mcp-connection-manager.ts).
THEOREM NoOrphanHolds == McpSpec => []NoOrphan
<1>1. McpInit => ConnectionInv
  BY DEF McpInit, ConnectionInv
<1>2. ConnectionInv /\ [McpNext]_mcpVars => ConnectionInv'
  BY ConnectionStep
<1>3. ConnectionInv => NoOrphan
  BY DEF ConnectionInv, NoOrphan
<1> QED BY <1>1, <1>2, <1>3, PTL DEF McpSpec
-----------------------------------------------------------------------------
(***************************************************************************)
(* The quality of a connection, for any thresholds and number of samples.   *)
(***************************************************************************)
\* n counts the samples of the given quality at the end of s.
CountsEnd(s, n, good) ==
    /\ n \in 0 .. Len(s)
    /\ \A i \in (Len(s) - n + 1) .. Len(s) : s[i] = good
    /\ n < Len(s) => s[Len(s) - n] = ~ good

\* The two counters of a connection count the end of its own samples.
LinkInv ==
    /\ LinkTypeOK
    /\ link \in Quality =>
         CountsEnd(samples, badInARow, FALSE) /\ CountsEnd(samples, goodInARow, TRUE)
    /\ QualityFollowsSamples
-----------------------------------------------------------------------------
LEMMA NewSample ==
    ASSUME NEW s \in Seq(BOOLEAN), NEW good \in BOOLEAN
    PROVE  /\ Append(s, good) \in Seq(BOOLEAN)
           /\ Len(s) \in Nat /\ Len(Append(s, good)) = Len(s) + 1
           /\ DOMAIN s = 1 .. Len(s) /\ DOMAIN Append(s, good) = 1 .. (Len(s) + 1)
           /\ \A i \in 1 .. Len(s) : Append(s, good)[i] = s[i]
           /\ Append(s, good)[Len(s) + 1] = good
OBVIOUS

\* One more sample of a quality counts; one of the other starts over.
LEMMA CountNext ==
    ASSUME NEW s \in Seq(BOOLEAN), NEW n, NEW good \in BOOLEAN, CountsEnd(s, n, good)
    PROVE  /\ CountsEnd(Append(s, good), n + 1, good)
           /\ CountsEnd(Append(s, ~ good), 0, good)
<1> DEFINE a == Append(s, good)
           b == Append(s, ~ good)
<1>1. /\ Len(s) \in Nat /\ Len(a) = Len(s) + 1 /\ Len(b) = Len(s) + 1
      /\ \A i \in 1 .. Len(s) : a[i] = s[i]
      /\ a[Len(s) + 1] = good /\ b[Len(s) + 1] = ~ good
  BY NewSample
<1>2. n \in Nat /\ n <= Len(s)
  BY <1>1 DEF CountsEnd
<1>3. CountsEnd(a, n + 1, good)
  <2> HIDE DEF a
  <2>1. n + 1 \in 0 .. Len(a)
    BY <1>1, <1>2
  <2>2. \A i \in (Len(a) - (n + 1) + 1) .. Len(a) : a[i] = good
    BY <1>1, <1>2 DEF CountsEnd
  <2>3. n + 1 < Len(a) => a[Len(a) - (n + 1)] = ~ good
    BY <1>1, <1>2 DEF CountsEnd
  <2> QED BY <2>1, <2>2, <2>3 DEF CountsEnd
<1>4. CountsEnd(b, 0, good)
  <2> HIDE DEF b
  <2> QED BY <1>1 DEF CountsEnd
<1> QED BY <1>3, <1>4

\* Run, of any sequence.
RunIn(s, k, n, good) == k >= n /\ \A i \in (k - n + 1) .. k : s[i] = good

\* Whether a run ends with the last sample can be read off the count.
LEMMA RunAtEnd ==
    ASSUME NEW s \in Seq(BOOLEAN), NEW n, NEW good \in BOOLEAN, CountsEnd(s, n, good), NEW m \in Nat
    PROVE  RunIn(s, Len(s), m, good) <=> m <= n
<1>1. Len(s) \in Nat /\ n \in Nat /\ n <= Len(s)
  BY NewSample DEF CountsEnd
<1>2. ASSUME m <= n PROVE RunIn(s, Len(s), m, good)
  BY <1>1, <1>2 DEF RunIn, CountsEnd
<1>3. ASSUME ~ (m <= n), RunIn(s, Len(s), m, good) PROVE FALSE
  <2>1. n < Len(s) /\ Len(s) - n \in (Len(s) - m + 1) .. Len(s)
    BY <1>1, <1>3 DEF RunIn
  <2>2. s[Len(s) - n] = good /\ s[Len(s) - n] = ~ good
    BY <1>3, <2>1 DEF RunIn, CountsEnd
  <2> QED BY <2>2
<1> QED BY <1>2, <1>3

\* The state says degraded by the samples.
Degraded ==
    \E k \in DOMAIN samples :
        Run(k, DegradeAfter, FALSE) /\ \A m \in (k + 1) .. Len(samples) : ~ Run(m, RecoverAfter, TRUE)

LEMMA LinkStutter ==
    ASSUME LinkInv, UNCHANGED <<badInARow, goodInARow, samples>>,
           link' = link \/ link' \in LinkStates \ Quality
    PROVE  LinkInv'
BY DEF LinkInv, LinkTypeOK, QualityFollowsSamples, Run, CountsEnd

\* A new connection has no samples.
LEMMA ConnectStep ==
    ASSUME LinkInv, NEW from, ConnectFrom(from)
    PROVE  LinkInv'
<1>1. link' = "connected_healthy" /\ badInARow' = 0 /\ goodInARow' = 0 /\ samples' = << >>
  BY DEF ConnectFrom
<1>2. LinkTypeOK'
  BY <1>1 DEF LinkTypeOK, LinkStates, Quality
<1>3. CountsEnd(<< >>, 0, FALSE) /\ CountsEnd(<< >>, 0, TRUE)
  BY DEF CountsEnd
<1>4. QualityFollowsSamples'
  <2>1. DOMAIN samples' = {}
    BY <1>1
  <2> QED BY <1>1, <2>1 DEF QualityFollowsSamples
<1> QED BY <1>1, <1>2, <1>3, <1>4 DEF LinkInv

\* A heartbeat.
LEMMA HeartbeatStep ==
    ASSUME LinkInv, NEW good \in BOOLEAN, RecordHeartbeat(good)
    PROVE  LinkInv'
<1> PICK n : n = Len(samples)
  OBVIOUS
<1>0. /\ link \in Quality /\ samples' = Append(samples, good)
      /\ samples \in Seq(BOOLEAN) /\ badInARow \in Nat /\ goodInARow \in Nat
      /\ CountsEnd(samples, badInARow, FALSE) /\ CountsEnd(samples, goodInARow, TRUE)
      /\ link = "connected_degraded" <=> Degraded
  BY DEF RecordHeartbeat, LinkInv, LinkTypeOK, QualityFollowsSamples, Degraded
<1>1. /\ samples' \in Seq(BOOLEAN) /\ n \in Nat /\ Len(samples') = n + 1
      /\ DOMAIN samples = 1 .. n /\ DOMAIN samples' = 1 .. (n + 1)
      /\ \A i \in 1 .. n : samples'[i] = samples[i]
      /\ samples'[n + 1] = good
  BY <1>0, NewSample
<1>2. \A k \in 1 .. n, m \in Nat, g \in BOOLEAN : Run(k, m, g)' <=> Run(k, m, g)
  BY <1>1 DEF Run
<1>3. DegradeAfter \in Nat \ {0} /\ RecoverAfter \in Nat \ {0}
  BY LinkAssumption
<1>4. CountsEnd(samples', badInARow', FALSE) /\ CountsEnd(samples', goodInARow', TRUE)
  <2>1. CASE good
    <3>1. goodInARow' = goodInARow + 1 /\ badInARow' = 0 /\ good = TRUE
      BY <2>1 DEF RecordHeartbeat
    <3> QED BY <1>0, <3>1, CountNext
  <2>2. CASE ~ good
    <3>1. badInARow' = badInARow + 1 /\ goodInARow' = 0 /\ good = FALSE
      BY <2>2 DEF RecordHeartbeat
    <3> QED BY <1>0, <3>1, CountNext
  <2> QED BY <2>1, <2>2
<1>5. /\ Run(n + 1, DegradeAfter, FALSE)' <=> DegradeAfter <= badInARow'
      /\ Run(n + 1, RecoverAfter, TRUE)' <=> RecoverAfter <= goodInARow'
  <2>1. /\ RunIn(samples', n + 1, DegradeAfter, FALSE) <=> DegradeAfter <= badInARow'
        /\ RunIn(samples', n + 1, RecoverAfter, TRUE) <=> RecoverAfter <= goodInARow'
    BY <1>1, <1>3, <1>4, RunAtEnd
  <2> QED BY <2>1 DEF Run, RunIn
<1>6. badInARow' \in Nat /\ goodInARow' \in Nat /\ link' \in Quality
  BY <1>0 DEF RecordHeartbeat, Quality
<1>7. Degraded' <=> \/ Degraded /\ ~ (RecoverAfter <= goodInARow')
                    \/ DegradeAfter <= badInARow'
  <2>1. ASSUME Degraded'
        PROVE  (Degraded /\ ~ (RecoverAfter <= goodInARow')) \/ DegradeAfter <= badInARow'
    <3>1. PICK k \in 1 .. (n + 1) :
             Run(k, DegradeAfter, FALSE)' /\ \A m \in (k + 1) .. (n + 1) : ~ Run(m, RecoverAfter, TRUE)'
      BY <1>1, <2>1 DEF Degraded
    <3>2. CASE k = n + 1
      BY <1>5, <3>1, <3>2
    <3>3. CASE k # n + 1
      <4>1. k \in 1 .. n /\ n + 1 \in (k + 1) .. (n + 1) /\ \A m \in (k + 1) .. n : m \in 1 .. n /\ m \in (k + 1) .. (n + 1)
        BY <1>1, <3>1, <3>3
      <4>2. Run(k, DegradeAfter, FALSE) /\ \A m \in (k + 1) .. n : ~ Run(m, RecoverAfter, TRUE)
        BY <1>2, <1>3, <3>1, <4>1
      <4>3. Degraded
        BY <1>1, <4>1, <4>2 DEF Degraded
      <4>4. ~ (RecoverAfter <= goodInARow')
        BY <1>5, <3>1, <4>1
      <4> QED BY <4>3, <4>4
    <3> QED BY <3>2, <3>3
  <2>2. ASSUME Degraded, ~ (RecoverAfter <= goodInARow')
        PROVE  Degraded'
    <3>1. PICK k \in 1 .. n : Run(k, DegradeAfter, FALSE) /\ \A m \in (k + 1) .. n : ~ Run(m, RecoverAfter, TRUE)
      BY <1>1, <2>2 DEF Degraded
    <3>a. k \in 1 .. (n + 1) /\ DegradeAfter \in Nat
      BY <1>1, <1>3, <3>1
    <3>2. Run(k, DegradeAfter, FALSE)'
      BY <1>2, <3>1, <3>a
    <3>3. ASSUME NEW m \in (k + 1) .. (n + 1) PROVE ~ Run(m, RecoverAfter, TRUE)'
      <4>1. CASE m = n + 1
        BY <1>5, <2>2, <4>1
      <4>2. CASE m # n + 1
        <5>1. m \in (k + 1) .. n /\ m \in 1 .. n
          BY <1>1, <3>1, <3>3, <4>2
        <5> QED BY <1>2, <1>3, <3>1, <5>1
      <4> QED BY <4>1, <4>2
    <3> QED BY <1>1, <3>a, <3>2, <3>3 DEF Degraded
  <2>3. ASSUME DegradeAfter <= badInARow' PROVE Degraded'
    <3>1. n + 1 \in 1 .. (n + 1) /\ \A m \in (n + 1 + 1) .. (n + 1) : FALSE
      BY <1>1
    <3>2. Run(n + 1, DegradeAfter, FALSE)'
      BY <1>5, <2>3
    <3> QED BY <1>1, <3>1, <3>2 DEF Degraded
  <2> QED BY <2>1, <2>2, <2>3
<1>8. link' = "connected_degraded" <=> Degraded'
  <2>1. CASE good
    <3>1. badInARow' = 0 /\ ~ (DegradeAfter <= badInARow')
      BY <1>3, <2>1 DEF RecordHeartbeat
    <3>2. link' = "connected_degraded" <=> link = "connected_degraded" /\ ~ (RecoverAfter <= goodInARow')
      BY <1>0, <1>3, <1>6, <2>1 DEF RecordHeartbeat, Quality
    <3> QED BY <1>0, <1>7, <3>1, <3>2
  <2>2. CASE ~ good
    <3>1. goodInARow' = 0 /\ ~ (RecoverAfter <= goodInARow')
      BY <1>3, <2>2 DEF RecordHeartbeat
    <3>2. link' = "connected_degraded" <=> link = "connected_degraded" \/ DegradeAfter <= badInARow'
      BY <1>0, <1>3, <1>6, <2>2 DEF RecordHeartbeat, Quality
    <3> QED BY <1>0, <1>7, <3>1, <3>2
  <2> QED BY <2>1, <2>2
<1> QED BY <1>1, <1>4, <1>6, <1>8 DEF LinkInv, LinkTypeOK, QualityFollowsSamples, Degraded, LinkStates

\* The counters and the state follow the samples of the connection they are
\* about, whatever connections came before (device-connection-lifecycle.ts,
\* recordHeartbeat).
THEOREM QualityFollowsSamplesHolds == LinkSpec => []QualityFollowsSamples
<1>1. LinkInit => LinkInv
  BY DEF LinkInit, LinkInv, LinkTypeOK, LinkStates, Quality, QualityFollowsSamples
<1>2. LinkInv /\ [LinkNext]_linkVars => LinkInv'
  <2> SUFFICES ASSUME LinkInv, [LinkNext]_linkVars PROVE LinkInv'
    OBVIOUS
  <2>1. CASE \E good \in BOOLEAN : RecordHeartbeat(good)
    BY <2>1, HeartbeatStep
  <2>2. CASE ConnectFrom({"authenticating"}) \/ ConnectFrom({"reconnecting"})
    BY <2>2, ConnectStep
  <2>3. CASE \/ UNCHANGED linkVars
             \/ \E from \in SUBSET LinkStates, to \in LinkStates \ Quality : Move(from, to)
    BY <2>3, LinkStutter DEF linkVars, Move
  <2> QED
    BY <2>1, <2>2, <2>3
    DEF LinkNext, BeginDiscovery, CandidateDiscovered, PairingSucceeded, Authenticate, Reconnected, ConnectionLost,
        ReconnectAbandoned, LinkStates, Quality
<1>3. LinkInv => QualityFollowsSamples
  BY DEF LinkInv
<1> QED BY <1>1, <1>2, <1>3, PTL DEF LinkSpec
-----------------------------------------------------------------------------
(***************************************************************************)
(* Plugins that depend on each other.                                       *)
(***************************************************************************)

Above(fs, n) == IF n < Len(fs) THEN {fs[n + 1].plugin} ELSE {}

\* A frame of a call that disables: if its plugin is still enabled, then by the
\* record of the frame; and the dependents that are enabled are those it has
\* still to do, or the one that the frame above it is about.
Dismantles(f, above) ==
    /\ f.plugin \in Enabled => installed[f.plugin] = f.record
    /\ f.at \in {"confirming", "cascade"} =>
          \A q \in Enabled : f.plugin \in requires[q] => q \in f.todo \cup above
    /\ f.at = "stopping" => \A q \in Enabled : f.plugin \notin requires[q]

\* The frame of an enable(): what its plugin requires is enabled.
Enables(f) ==
    /\ installed[f.plugin] = f.record /\ f.plugin \notin Enabled
    /\ requires[f.plugin] \subseteq Enabled

Fits(fs) == fs \in Seq(Frame) /\ \A n \in DOMAIN fs : fs[n].record <= generation[fs[n].plugin]

\* The records of a plugin are numbered in the order in which they are made.
PluginTyped ==
    /\ PluginTypeOK
    /\ \A p \in Plugins : installed[p] <= generation[p]
    /\ \A p \in Plugins, g \in Generations : g > generation[p] => pluginState[p][g] = "Installed"
    /\ \A c \in PluginCalls : Fits(pluginCall[c])

\* No plugin is enabled while another is disabled, and none twice at a time.
PluginSound ==
    /\ NoneLeftPointing
    /\ \A c \in PluginCalls : \A n \in DOMAIN pluginCall[c] :
          IF pluginCall[c][n].at = "enabling" THEN Enables(pluginCall[c][n])
          ELSE Dismantles(pluginCall[c][n], Above(pluginCall[c], n))
    /\ \A c, d \in PluginCalls : \A m \in DOMAIN pluginCall[c], n \in DOMAIN pluginCall[d] :
          pluginCall[c][m].at = "enabling" =>
            /\ pluginCall[d][n].at = "enabling"
            /\ pluginCall[c][m].plugin = pluginCall[d][n].plugin => c = d

PluginInv == PluginTyped /\ (~ raced => PluginSound)

\* No plugin becomes enabled, and those that stay so keep their record.
NoneMore == \A q \in Enabled' : q \in Enabled /\ installed'[q] = installed[q]

LEMMA StateSet ==
    ASSUME PluginTypeOK, NEW p \in Plugins, NEW g \in Generations, NEW state \in PluginStates,
           SetPlugin(p, g, state)
    PROVE  /\ pluginState' \in [Plugins -> [Generations -> PluginStates]]
           /\ \A q \in Plugins, h \in Generations :
                 pluginState'[q][h] = IF q = p /\ h = g THEN state ELSE pluginState[q][h]
<1>1. pluginState \in [Plugins -> [Generations -> PluginStates]]
  BY DEF PluginTypeOK
<1>2. PICK f \in [Generations -> PluginStates] : f = [pluginState[p] EXCEPT ![g] = state]
  BY <1>1
<1>3. pluginState' = [pluginState EXCEPT ![p] = f]
  BY <1>2 DEF SetPlugin
<1> QED BY <1>1, <1>2, <1>3

LEMMA EnabledSet ==
    ASSUME PluginTypeOK, NEW q \in Plugins
    PROVE  q \in Enabled <=> installed[q] \in Generations /\ pluginState[q][installed[q]] = "Enabled"
BY DEF PluginTypeOK, Enabled, StateOfPlugin, Generations

\* All that a step other than an installation does to the types.
LEMMA TypesKept ==
    ASSUME PluginTyped, UNCHANGED <<requires, generation>>, raced' \in BOOLEAN,
           installed' \in [Plugins -> Generations \cup {0}],
           \A p \in Plugins : installed'[p] \in {installed[p], 0},
           \/ UNCHANGED pluginState
           \/ \E p \in Plugins, g \in Generations, state \in PluginStates :
                 g <= generation[p] /\ SetPlugin(p, g, state),
           \/ UNCHANGED pluginCall
           \/ \E c \in PluginCalls, fs \in Seq(Frame) : Fits(fs) /\ Inner(c, fs)
    PROVE  PluginTyped'
<1>1. PluginTypeOK /\ \A p \in Plugins : generation[p] \in Int /\ installed[p] \in Int /\ 0 <= generation[p]
  BY PluginAssumption DEF PluginTyped, PluginTypeOK, Generations
<1>2. /\ pluginState' \in [Plugins -> [Generations -> PluginStates]]
      /\ \A p \in Plugins, g \in Generations : g > generation[p] => pluginState'[p][g] = "Installed"
  <2>1. CASE UNCHANGED pluginState
    BY <2>1 DEF PluginTyped, PluginTypeOK
  <2>2. ASSUME NEW p \in Plugins, NEW g \in Generations, NEW state \in PluginStates,
               g <= generation[p], SetPlugin(p, g, state)
        PROVE  /\ pluginState' \in [Plugins -> [Generations -> PluginStates]]
               /\ \A q \in Plugins, h \in Generations : h > generation[q] => pluginState'[q][h] = "Installed"
    <3>1. /\ pluginState' \in [Plugins -> [Generations -> PluginStates]]
          /\ \A q \in Plugins, h \in Generations :
                 pluginState'[q][h] = IF q = p /\ h = g THEN state ELSE pluginState[q][h]
      BY <1>1, <2>2, StateSet
    <3>2. \A h \in Generations : h > generation[p] => h # g
      BY <1>1, <2>2 DEF Generations
    <3> QED BY <3>1, <3>2 DEF PluginTyped
  <2> QED BY <2>1, <2>2
<1>3. /\ pluginCall' \in [PluginCalls -> Seq(Frame)]
      /\ \A c \in PluginCalls : Fits(pluginCall[c])'
  <2>1. CASE UNCHANGED pluginCall
    BY <2>1 DEF PluginTyped, PluginTypeOK, Fits
  <2>2. ASSUME NEW c \in PluginCalls, NEW fs \in Seq(Frame), Fits(fs), Inner(c, fs)
        PROVE  /\ pluginCall' \in [PluginCalls -> Seq(Frame)]
               /\ \A d \in PluginCalls : Fits(pluginCall[d])'
    <3>1. pluginCall' = [pluginCall EXCEPT ![c] = fs]
      BY <2>2 DEF Inner
    <3>2. \A d \in PluginCalls : pluginCall'[d] = IF d = c THEN fs ELSE pluginCall[d]
      BY <1>1, <3>1 DEF PluginTypeOK
    <3>3. \A d \in PluginCalls : Fits(pluginCall'[d])
      BY <2>2, <3>2 DEF PluginTyped
    <3> QED BY <1>1, <3>1, <3>3 DEF PluginTypeOK, Fits
  <2> QED BY <2>1, <2>2
<1> QED BY <1>1, <1>2, <1>3 DEF PluginTyped, PluginTypeOK

LEMMA DismantlesKept ==
    ASSUME PluginTypeOK, NEW f \in Frame, NEW above, Dismantles(f, above), NoneMore, UNCHANGED requires
    PROVE  Dismantles(f, above)'
BY DEF Dismantles, NoneMore, Frame

\* A step of a call that disables: its frames are as they should be, and those
\* of the other calls remain so.
LEMMA DisablingStep ==
    ASSUME PluginTypeOK, PluginSound, NoneMore, UNCHANGED requires,
           NEW c \in PluginCalls, NEW fs \in Seq(Frame), Inner(c, fs),
           \A q \in Enabled' : requires[q] \subseteq Enabled',
           \A d \in PluginCalls : \A n \in DOMAIN pluginCall[d] : pluginCall[d][n].at # "enabling",
           \A n \in DOMAIN fs : fs[n].at # "enabling" /\ Dismantles(fs[n], Above(fs, n))'
    PROVE  PluginSound'
<1>1. \A d \in PluginCalls : pluginCall'[d] = IF d = c THEN fs ELSE pluginCall[d]
  BY DEF Inner, PluginTypeOK
<1>2. NoneLeftPointing'
  BY DEF NoneLeftPointing
<1>3. ASSUME NEW d \in PluginCalls, d # c, NEW n \in DOMAIN pluginCall[d]
      PROVE  Dismantles(pluginCall[d][n], Above(pluginCall[d], n))'
  <2>1. pluginCall'[d] = pluginCall[d]
    BY <1>1, <1>3
  <2>2. PICK f, above : f \in Frame /\ f = pluginCall[d][n] /\ above = Above(pluginCall[d], n)
    BY <1>3 DEF PluginTypeOK
  <2>3. Dismantles(f, above)
    BY <1>3, <2>2 DEF PluginSound
  <2>4. Dismantles(f, above)'
    BY <2>2, <2>3, DismantlesKept
  <2>5. (Above(pluginCall[d], n))' = above
    BY <2>1, <2>2 DEF Above
  <2> QED BY <2>1, <2>2, <2>4, <2>5 DEF Dismantles
<1>4. ASSUME NEW n \in DOMAIN fs
      PROVE  Dismantles(pluginCall[c][n], Above(pluginCall[c], n))'
  <2>1. pluginCall'[c] = fs
    BY <1>1
  <2>2. (Above(pluginCall[c], n))' = Above(fs, n)
    BY <2>1 DEF Above
  <2>3. Dismantles(fs[n], Above(fs, n))'
    BY <1>4
  <2> QED BY <2>1, <2>2, <2>3 DEF Dismantles
<1>5. \A d \in PluginCalls : \A n \in DOMAIN pluginCall'[d] :
         /\ pluginCall'[d][n].at # "enabling"
         /\ Dismantles(pluginCall[d][n], Above(pluginCall[d], n))'
  BY <1>1, <1>3, <1>4
<1> QED BY <1>2, <1>5 DEF PluginSound

LEMMA DisableFrames ==
    ASSUME PluginTyped, NEW p \in Plugins, installed[p] # 0, NEW confirmation \in {"confirming", "cascade"}
    PROVE  \E f \in Frame :
              /\ f = DisableFrame(p, confirmation) /\ f.plugin = p /\ f.record = installed[p]
              /\ f.record <= generation[p]
              /\ f.at \in {"stopping", confirmation}
              /\ \A above : Dismantles(f, above)
<1>1. installed[p] \in Generations /\ installed[p] <= generation[p]
  BY DEF PluginTyped, PluginTypeOK
<1>2. PICK f : f = NewFrame(p, "stopping")
  OBVIOUS
<1>3. f \in Frame /\ f.plugin = p /\ f.record = installed[p] /\ f.at = "stopping"
  BY <1>1, <1>2 DEF NewFrame, Frame
<1>4. PICK dependents \in SUBSET Plugins : dependents = EnabledDependents(p) /\ dependents \subseteq Enabled
  BY DEF EnabledDependents, Enabled
<1>5. \A q \in Enabled : p \in requires[q] => q \in dependents
  BY <1>4 DEF EnabledDependents
<1>6. CASE dependents = {}
  <2>1. f = DisableFrame(p, confirmation)
    BY <1>2, <1>4, <1>6 DEF DisableFrame
  <2>2. \A above : Dismantles(f, above)
    BY <1>3, <1>5, <1>6 DEF Dismantles
  <2> QED BY <1>1, <1>3, <2>1, <2>2
<1>7. CASE dependents # {}
  <2>1. PICK g : g = [at |-> confirmation, plugin |-> p, record |-> installed[p], todo |-> dependents]
    OBVIOUS
  <2>2. g = DisableFrame(p, confirmation)
    BY <1>4, <1>7, <2>1 DEF DisableFrame, NewFrame
  <2>3. g \in Frame /\ g.plugin = p /\ g.record = installed[p] /\ g.at = confirmation /\ g.todo = dependents
    BY <1>1, <2>1 DEF Frame
  <2>4. \A above : Dismantles(g, above)
    BY <1>5, <2>3 DEF Dismantles
  <2> QED BY <1>1, <2>2, <2>3, <2>4
<1> QED BY <1>6, <1>7

LEMMA SameEnabled ==
    ASSUME PluginSound, UNCHANGED <<requires, installed, pluginState>>
    PROVE  NoneMore /\ \A q \in Enabled' : requires[q] \subseteq Enabled'
BY DEF PluginSound, NoneLeftPointing, NoneMore, Enabled, StateOfPlugin

\* Where a frame disables, none enables.
LEMMA NoneEnabling ==
    ASSUME PluginTypeOK, PluginSound, NEW c \in PluginCalls, NEW n \in DOMAIN pluginCall[c],
           pluginCall[c][n].at # "enabling"
    PROVE  \A d \in PluginCalls : \A m \in DOMAIN pluginCall[d] : pluginCall[d][m].at # "enabling"
BY DEF PluginSound

LEMMA NothingEnabling ==
    ASSUME PluginTypeOK, ~ EnablingNow(Plugins)
    PROVE  \A d \in PluginCalls : \A m \in DOMAIN pluginCall[d] : pluginCall[d][m].at # "enabling"
<1>1. \A d \in PluginCalls : \A m \in DOMAIN pluginCall[d] : pluginCall[d][m] \in Frame
  BY DEF PluginTypeOK
<1>2. \A f \in Frame : f.plugin \in Plugins
  BY DEF Frame
<1> QED BY <1>1, <1>2 DEF EnablingNow

LEMMA DisableStep ==
    ASSUME PluginInv, NEW c \in PluginCalls, NEW p \in Plugins, Disable(c, p)
    PROVE  PluginInv'
<1>1. PluginTyped /\ PluginTypeOK
  BY DEF PluginInv, PluginTyped
<1>2. PICK f \in Frame :
        /\ f = DisableFrame(p, "confirming") /\ f.plugin = p
        /\ f.record <= generation[p] /\ f.at \in {"stopping", "confirming"}
        /\ \A above : Dismantles(f, above)
  BY <1>1, DisableFrames DEF Disable, CanDisable
<1>3. PICK fs \in Seq(Frame) : fs = <<f>> /\ Len(fs) = 1 /\ DOMAIN fs = {1} /\ fs[1] = f
  BY OneElement
<1>4. /\ Inner(c, fs) /\ UNCHANGED <<requires, installed, pluginState, generation>>
      /\ raced' = (raced \/ EnablingNow(Plugins))
  BY <1>2, <1>3 DEF Disable
<1>5. Fits(fs)
  BY <1>2, <1>3 DEF Fits
<1>6. raced' \in BOOLEAN
  BY <1>1, <1>4 DEF PluginTypeOK
<1>7. installed' \in [Plugins -> Generations \cup {0}]
  BY <1>1, <1>4 DEF PluginTypeOK
<1>8. PluginTyped'
  BY <1>1, <1>4, <1>5, <1>6, <1>7, TypesKept
<1>9. ASSUME ~ raced' PROVE PluginSound'
  <2>1. ~ raced /\ ~ EnablingNow(Plugins) /\ PluginSound
    BY <1>4, <1>9 DEF PluginInv
  <2>2. \A d \in PluginCalls : \A n \in DOMAIN pluginCall[d] : pluginCall[d][n].at # "enabling"
    BY <1>1, <2>1, NothingEnabling
  <2>3. NoneMore /\ \A q \in Enabled' : requires[q] \subseteq Enabled'
    BY <1>4, <2>1, SameEnabled
  <2>4. \A above : Dismantles(f, above)'
    BY <1>1, <1>2, <1>4, <2>3, DismantlesKept
  <2>5. \A n \in DOMAIN fs : fs[n].at # "enabling" /\ Dismantles(fs[n], Above(fs, n))'
    BY <1>2, <1>3, <2>4
  <2> QED BY <1>1, <1>4, <2>1, <2>2, <2>3, <2>5, DisablingStep
<1> QED BY <1>8, <1>9 DEF PluginInv

\* The frames of a call: m of them, the innermost being t.
Stack(c, s, m, t) ==
    /\ s \in Seq(Frame) /\ s = pluginCall[c] /\ s # <<>> /\ Fits(s)
    /\ m \in Nat \ {0} /\ m = Len(s) /\ DOMAIN s = 1 .. m
    /\ t \in Frame /\ t = s[m] /\ t = TopFrame(c) /\ t = pluginCall[c][m] /\ m \in DOMAIN pluginCall[c]

\* The frames fs are those of s, with f in the place of the innermost.
Topped(fs, s, m, f) ==
    /\ fs \in Seq(Frame) /\ m = Len(s) /\ Len(fs) >= m /\ f \in Frame /\ fs[m] = f
    /\ \A n \in 1 .. m - 1 : fs[n] = s[n]

LEMMA Stacks ==
    ASSUME PluginTyped, NEW c \in PluginCalls, pluginCall[c] # <<>>
    PROVE  \E s, m, t : Stack(c, s, m, t)
<1>1. PICK s \in Seq(Frame) : s = pluginCall[c] /\ s # <<>> /\ Last(s) = TopFrame(c) /\ Fits(s)
  BY DEF PluginTyped, PluginTypeOK, TopFrame
<1>2. PICK m \in Nat \ {0} : m = Len(s) /\ DOMAIN s = 1 .. m
  BY <1>1
<1>3. PICK t \in Frame : t = s[m] /\ s[m] = Last(s)
  BY <1>2 DEF Last
<1>4. m \in DOMAIN s
  BY <1>2
<1>5. Stack(c, s, m, t)
  BY <1>1, <1>2, <1>3, <1>4 DEF Stack
<1> QED BY <1>5

\* The top frame of a call gives way to another of the same plugin, over which
\* another may be pushed.
LEMMA TopReplaced ==
    ASSUME PluginTyped, PluginSound, UNCHANGED <<requires, installed, pluginState>>,
           NEW c \in PluginCalls, NEW s, NEW m, NEW t, Stack(c, s, m, t), t.at # "enabling",
           NEW fs, NEW f, Topped(fs, s, m, f), f.plugin = t.plugin, f.at # "enabling",
           Inner(c, fs), Dismantles(f, Above(fs, m)),
           \A n \in DOMAIN fs : n > m => fs[n].at # "enabling" /\ Dismantles(fs[n], Above(fs, n))
    PROVE  PluginSound'
<1>1. /\ s \in Seq(Frame) /\ s = pluginCall[c] /\ m \in Nat \ {0} /\ m = Len(s) /\ DOMAIN s = 1 .. m
      /\ t \in Frame /\ t = s[m] /\ m \in DOMAIN pluginCall[c]
  BY DEF Stack
<1>2. /\ fs \in Seq(Frame) /\ Len(fs) >= m /\ f \in Frame /\ fs[m] = f
      /\ \A n \in 1 .. m - 1 : fs[n] = s[n]
  BY DEF Topped
<1>3. PluginTypeOK
  BY DEF PluginTyped
<1>4. NoneMore /\ \A q \in Enabled' : requires[q] \subseteq Enabled'
  BY SameEnabled
<1>6. \A d \in PluginCalls : \A n \in DOMAIN pluginCall[d] : pluginCall[d][n].at # "enabling"
  BY <1>1, <1>3, NoneEnabling
<1>7. ASSUME NEW n \in DOMAIN fs PROVE fs[n].at # "enabling" /\ Dismantles(fs[n], Above(fs, n))
  <2>1. CASE n < m
    <3>1. n \in 1 .. m - 1 /\ n \in 1 .. m /\ n + 1 \in 1 .. m /\ n < Len(fs)
      BY <1>1, <1>2, <2>1
    <3>2. fs[n] = s[n] /\ fs[n + 1].plugin = s[n + 1].plugin
      <4>1. n + 1 \in 1 .. m - 1 \/ n + 1 = m
        BY <1>1, <3>1
      <4> QED BY <1>1, <1>2, <3>1, <4>1
    <3>3. Above(fs, n) = Above(s, n)
      BY <1>1, <2>1, <3>1, <3>2 DEF Above
    <3>4. Dismantles(s[n], Above(s, n)) /\ s[n].at # "enabling"
      BY <1>1, <1>6, <3>1 DEF PluginSound
    <3> QED BY <3>2, <3>3, <3>4
  <2>2. CASE n = m
    BY <1>2, <2>2
  <2>3. CASE n > m
    BY <2>3
  <2>4. n \in Int /\ m \in Int
    BY <1>1, <1>2
  <2> QED BY <2>1, <2>2, <2>3, <2>4
<1>8. ASSUME NEW n \in DOMAIN fs PROVE fs[n].at # "enabling" /\ Dismantles(fs[n], Above(fs, n))'
  <2>1. PICK g, a : g \in Frame /\ g = fs[n] /\ a = Above(fs, n)
    BY <1>2
  <2>2. Dismantles(g, a)'
    BY <1>3, <1>4, <1>7, <2>1, DismantlesKept
  <2> QED BY <1>7, <2>1, <2>2
<1> QED BY <1>2, <1>3, <1>4, <1>6, <1>8, DisablingStep

\* The top frame is replaced by one of the same plugin and record.
LEMMA TopFits ==
    ASSUME PluginTyped, NEW c \in PluginCalls, NEW s, NEW m, NEW t, Stack(c, s, m, t),
           NEW f \in Frame, f.plugin = t.plugin, f.record = t.record
    PROVE  \E fs : /\ fs = Append(Front(s), f) /\ Topped(fs, s, m, f)
                   /\ fs \in Seq(Frame) /\ Fits(fs) /\ Len(fs) = m /\ \A n \in DOMAIN fs : ~ n > m
<1>1. /\ s \in Seq(Frame) /\ s # <<>> /\ m \in Nat \ {0} /\ m = Len(s) /\ DOMAIN s = 1 .. m
      /\ t \in Frame /\ t = s[m] /\ Fits(s)
  BY DEF Stack
<1>2. /\ Append(Front(s), f) \in Seq(Frame) /\ Len(Append(Front(s), f)) = m
      /\ \A n \in 1 .. m - 1 : Append(Front(s), f)[n] = s[n]
      /\ Append(Front(s), f)[m] = f
  BY <1>1, LastReplaced
<1>3. PICK fs \in Seq(Frame) :
        /\ fs = Append(Front(s), f) /\ Len(fs) = m /\ fs[m] = f
        /\ \A n \in 1 .. m - 1 : fs[n] = s[n]
  BY <1>2
<1>4. ASSUME NEW n \in 1 .. m PROVE fs[n].record <= generation[fs[n].plugin]
  <2>1. CASE n = m
    BY <1>1, <1>3, <2>1 DEF Fits
  <2>2. CASE n # m
    <3>1. n \in 1 .. m - 1
      BY <1>1, <2>2
    <3> QED BY <1>1, <1>3, <3>1 DEF Fits
  <2> QED BY <2>1, <2>2
<1>5. Fits(fs)
  BY <1>3, <1>4 DEF Fits
<1>6. Topped(fs, s, m, f) /\ \A n \in DOMAIN fs : ~ n > m
  BY <1>1, <1>3 DEF Topped
<1> QED BY <1>3, <1>5, <1>6

\* A call that disables ends, and so do all of its frames.
LEMMA CallEnds ==
    ASSUME PluginTyped, PluginSound, NEW c \in PluginCalls, NoneMore, UNCHANGED requires,
           \A q \in Enabled' : requires[q] \subseteq Enabled',
           NEW s, NEW m, NEW t, Stack(c, s, m, t), t.at # "enabling", Inner(c, <<>>)
    PROVE  PluginSound'
<1>1. PluginTypeOK /\ m \in DOMAIN pluginCall[c] /\ pluginCall[c][m].at # "enabling"
  BY DEF PluginTyped, Stack
<1>2. \A d \in PluginCalls : \A n \in DOMAIN pluginCall[d] : pluginCall[d][n].at # "enabling"
  BY <1>1, NoneEnabling
<1>3. PICK fs \in Seq(Frame) : fs = <<>> /\ DOMAIN fs = {}
  BY NoElement
<1>4. Inner(c, fs) /\ \A n \in DOMAIN fs : fs[n].at # "enabling" /\ Dismantles(fs[n], Above(fs, n))'
  BY <1>3
<1> QED BY <1>1, <1>2, <1>4, DisablingStep

LEMMA TopDismantles ==
    ASSUME PluginTyped, PluginSound, NEW c \in PluginCalls, NEW s, NEW m, NEW t, Stack(c, s, m, t),
           t.at # "enabling"
    PROVE  Dismantles(t, {})
<1>1. m \in DOMAIN pluginCall[c] /\ t = pluginCall[c][m] /\ s = pluginCall[c] /\ m = Len(s) /\ m \in Nat
  BY DEF Stack
<1>2. Above(pluginCall[c], m) = {}
  BY <1>1 DEF Above
<1>3. \A n \in DOMAIN pluginCall[c] :
        pluginCall[c][n].at # "enabling" => Dismantles(pluginCall[c][n], Above(pluginCall[c], n))
  BY DEF PluginSound
<1> QED BY <1>1, <1>2, <1>3

LEMMA NoFrames ==
    ASSUME PluginTyped
    PROVE  <<>> \in Seq(Frame) /\ Fits(<<>>)
<1>1. <<>> \in Seq(Frame) /\ DOMAIN <<>> = {}
  BY NoElement
<1> QED BY <1>1 DEF Fits

LEMMA ConfirmedStep ==
    ASSUME PluginInv, NEW c \in PluginCalls, Confirmed(c)
    PROVE  PluginInv'
<1>1. /\ PluginTyped /\ PluginTypeOK /\ pluginCall[c] # <<>> /\ TopFrame(c).at = "confirming"
      /\ UNCHANGED <<requires, installed, pluginState, generation, raced>>
  BY DEF PluginInv, PluginTyped, Confirmed
<1>2. raced' \in BOOLEAN /\ installed' \in [Plugins -> Generations \cup {0}]
  BY <1>1 DEF PluginTypeOK
<1>3. PICK s, m, t : Stack(c, s, m, t)
  BY <1>1, Stacks
<1>4. t \in Frame /\ t = TopFrame(c) /\ s = pluginCall[c] /\ t.at = "confirming"
  BY <1>1, <1>3 DEF Stack
<1>5. PICK f : f = [t EXCEPT !.at = "cascade"]
  OBVIOUS
<1>6. f \in Frame /\ f.plugin = t.plugin /\ f.record = t.record /\ f.todo = t.todo /\ f.at = "cascade"
  BY <1>4, <1>5 DEF Frame
<1>7. PICK fs : /\ fs = Append(Front(s), f) /\ Topped(fs, s, m, f)
                /\ fs \in Seq(Frame) /\ Fits(fs) /\ Len(fs) = m /\ \A n \in DOMAIN fs : ~ n > m
  BY <1>1, <1>3, <1>6, TopFits
<1>8. Inner(c, fs) \/ Inner(c, <<>>)
  BY <1>4, <1>5, <1>7 DEF Confirmed
<1>9. PluginTyped'
  BY <1>1, <1>2, <1>7, <1>8, TypesKept, NoFrames
<1>10. ASSUME PluginSound, Inner(c, fs) PROVE PluginSound'
  <2>1. Dismantles(t, {})
    BY <1>1, <1>3, <1>4, <1>10, TopDismantles
  <2>2. m \in Nat /\ Above(fs, m) = {}
    BY <1>3, <1>7 DEF Above, Stack
  <2>3. Dismantles(f, Above(fs, m))
    BY <1>4, <1>6, <2>1, <2>2 DEF Dismantles
  <2> QED BY <1>1, <1>3, <1>4, <1>6, <1>7, <1>10, <2>3, TopReplaced
<1>11. ASSUME PluginSound, Inner(c, <<>>) PROVE PluginSound'
  <2>1. NoneMore /\ \A q \in Enabled' : requires[q] \subseteq Enabled'
    BY <1>1, <1>11, SameEnabled
  <2> QED BY <1>1, <1>3, <1>4, <1>11, <2>1, CallEnds
<1> QED BY <1>1, <1>8, <1>9, <1>10, <1>11 DEF PluginInv

LEMMA CascadeStep ==
    ASSUME PluginInv, NEW c \in PluginCalls, Cascade(c)
    PROVE  PluginInv'
<1>1. /\ PluginTyped /\ PluginTypeOK /\ pluginCall[c] # <<>> /\ TopFrame(c).at = "cascade"
      /\ UNCHANGED <<requires, installed, pluginState, generation, raced>>
  BY DEF PluginInv, PluginTyped, Cascade
<1>2. raced' \in BOOLEAN /\ installed' \in [Plugins -> Generations \cup {0}]
  BY <1>1 DEF PluginTypeOK
<1>3. PICK s, m, t : Stack(c, s, m, t)
  BY <1>1, Stacks
<1>4. t \in Frame /\ t = TopFrame(c) /\ s = pluginCall[c] /\ t.at = "cascade" /\ m \in Nat \ {0}
  BY <1>1, <1>3 DEF Stack
<1>5. PluginSound => Dismantles(t, {})
  BY <1>1, <1>3, <1>4, TopDismantles
<1>6. ASSUME t.todo = {}
      PROVE  PluginInv'
  <2>1. PICK f : f = [t EXCEPT !.at = "stopping"]
    OBVIOUS
  <2>2. f \in Frame /\ f.plugin = t.plugin /\ f.record = t.record /\ f.at = "stopping"
    BY <1>4, <2>1 DEF Frame
  <2>3. PICK fs : /\ fs = Append(Front(s), f) /\ Topped(fs, s, m, f)
                  /\ fs \in Seq(Frame) /\ Fits(fs) /\ Len(fs) = m /\ \A n \in DOMAIN fs : ~ n > m
    BY <1>1, <1>3, <2>2, TopFits
  <2>4. Inner(c, fs)
    BY <1>4, <1>6, <2>1, <2>3 DEF Cascade
  <2>5. PluginTyped'
    BY <1>1, <1>2, <2>3, <2>4, TypesKept
  <2>6. ASSUME PluginSound PROVE PluginSound'
    <3>1. Dismantles(f, {}) /\ Above(fs, m) = {}
      BY <1>4, <1>5, <1>6, <2>2, <2>3, <2>6 DEF Dismantles, Above
    <3> QED BY <1>1, <1>3, <1>4, <2>2, <2>3, <2>4, <2>6, <3>1, TopReplaced
  <2> QED BY <1>1, <2>5, <2>6 DEF PluginInv
<1>7. ASSUME NEW q \in t.todo,
             LET rest == Append(Front(s), [t EXCEPT !.todo = @ \ {q}])
             IN  IF installed[q] = 0 THEN Inner(c, <<>>)
                 ELSE IF CanDisable(q) THEN Inner(c, Append(rest, DisableFrame(q, "cascade")))
                 ELSE Inner(c, rest)
      PROVE  PluginInv'
  <2>1. PICK f : f = [t EXCEPT !.todo = @ \ {q}]
    OBVIOUS
  <2>2. /\ f \in Frame /\ f.plugin = t.plugin /\ f.record = t.record /\ f.todo = t.todo \ {q}
        /\ f.at = "cascade" /\ q \in Plugins
    BY <1>4, <2>1 DEF Frame
  <2>3. PICK fs : /\ fs = Append(Front(s), f) /\ Topped(fs, s, m, f)
                  /\ fs \in Seq(Frame) /\ Fits(fs) /\ Len(fs) = m /\ \A n \in DOMAIN fs : ~ n > m
    BY <1>1, <1>3, <2>2, TopFits
  <2>4. PluginSound => Dismantles(f, {q})
    BY <1>4, <1>5, <2>2 DEF Dismantles
  <2>5. CASE installed[q] = 0
    <3>1. Inner(c, <<>>)
      BY <1>7, <2>5
    <3>2. PluginTyped'
      BY <1>1, <1>2, <3>1, TypesKept, NoFrames
    <3>3. ASSUME PluginSound PROVE PluginSound'
      <4>1. NoneMore /\ \A p \in Enabled' : requires[p] \subseteq Enabled'
        BY <1>1, <3>3, SameEnabled
      <4> QED BY <1>1, <1>3, <1>4, <3>1, <3>3, <4>1, CallEnds
    <3> QED BY <1>1, <3>2, <3>3 DEF PluginInv
  <2>6. CASE installed[q] # 0 /\ ~ CanDisable(q)
    <3>1. Inner(c, fs)
      BY <1>7, <2>1, <2>3, <2>6
    <3>2. PluginTyped'
      BY <1>1, <1>2, <2>3, <3>1, TypesKept
    <3>3. ASSUME PluginSound PROVE PluginSound'
      <4>1. q \notin Enabled
        BY <2>6 DEF CanDisable, Enabled
      <4>2. Dismantles(f, {}) /\ Above(fs, m) = {}
        BY <1>4, <2>2, <2>3, <2>4, <3>3, <4>1 DEF Dismantles, Above
      <4> QED BY <1>1, <1>3, <1>4, <2>2, <2>3, <3>1, <3>3, <4>2, TopReplaced
    <3> QED BY <1>1, <3>2, <3>3 DEF PluginInv
  <2>7. CASE installed[q] # 0 /\ CanDisable(q)
    <3>1. PICK g \in Frame :
            /\ g = DisableFrame(q, "cascade") /\ g.plugin = q /\ g.record <= generation[q]
            /\ g.at \in {"stopping", "cascade"} /\ \A above : Dismantles(g, above)
      BY <1>1, <2>2, <2>7, DisableFrames
    <3>2. /\ Append(fs, g) \in Seq(Frame) /\ Len(Append(fs, g)) = Len(fs) + 1
          /\ \A n \in 1 .. Len(fs) : Append(fs, g)[n] = fs[n]
          /\ Append(fs, g)[Len(fs) + 1] = g
      BY <2>3, OneMore
    <3>3. PICK gs \in Seq(Frame) :
            /\ gs = Append(fs, g) /\ Len(gs) = m + 1 /\ gs[m + 1] = g
            /\ \A n \in 1 .. m : gs[n] = fs[n]
      BY <2>3, <3>2
    <3>4. Inner(c, gs)
      BY <1>7, <2>1, <2>3, <2>7, <3>1, <3>3
    <3>5. \A n \in DOMAIN gs : n > m => n = m + 1
      BY <1>4, <3>3
    <3>6. Fits(gs)
      <4>1. ASSUME NEW n \in DOMAIN gs PROVE gs[n].record <= generation[gs[n].plugin]
        <5>1. CASE n = m + 1
          BY <3>1, <3>3, <5>1
        <5>2. CASE n # m + 1
          <6>1. n \in 1 .. m /\ n \in DOMAIN fs
            BY <1>4, <2>3, <3>3, <5>2
          <6>2. fs[n].record <= generation[fs[n].plugin]
            BY <2>3, <6>1 DEF Fits
          <6> QED BY <3>3, <6>1, <6>2
        <5> QED BY <5>1, <5>2
      <4> QED BY <3>3, <4>1 DEF Fits
    <3>7. PluginTyped'
      BY <1>1, <1>2, <3>3, <3>4, <3>6, TypesKept
    <3>8. Topped(gs, s, m, f)
      <4>1. m = Len(s) /\ fs[m] = f /\ \A n \in 1 .. m - 1 : fs[n] = s[n]
        BY <2>3 DEF Topped
      <4>2. m \in 1 .. m /\ Len(gs) >= m
        BY <1>4, <3>3
      <4>3. gs[m] = f
        BY <3>3, <4>1, <4>2
      <4>4. \A n \in 1 .. m - 1 : n \in 1 .. m
        BY <1>4
      <4>5. \A n \in 1 .. m - 1 : gs[n] = s[n]
        BY <3>3, <4>1, <4>4
      <4> QED BY <2>2, <3>3, <4>1, <4>2, <4>3, <4>5 DEF Topped
    <3>9. ASSUME PluginSound PROVE PluginSound'
      <4>1. m < Len(gs) /\ gs[m + 1].plugin = q
        BY <1>4, <3>1, <3>3
      <4>2. Above(gs, m) = {q}
        BY <4>1 DEF Above
      <4>3. \A n \in DOMAIN gs : n > m => gs[n].at # "enabling" /\ Dismantles(gs[n], Above(gs, n))
        BY <3>1, <3>3, <3>5
      <4> QED BY <1>1, <1>3, <1>4, <2>2, <2>4, <3>4, <3>8, <3>9, <4>2, <4>3, TopReplaced
    <3> QED BY <1>1, <3>7, <3>9 DEF PluginInv
  <2> QED BY <2>5, <2>6, <2>7
<1>8. t.todo = {} \/ \E q \in t.todo :
        LET rest == Append(Front(s), [t EXCEPT !.todo = @ \ {q}])
        IN  IF installed[q] = 0 THEN Inner(c, <<>>)
            ELSE IF CanDisable(q) THEN Inner(c, Append(rest, DisableFrame(q, "cascade")))
            ELSE Inner(c, rest)
  BY <1>4 DEF Cascade
<1> QED BY <1>6, <1>7, <1>8

\* Setting the state of a record to another than "Enabled".
LEMMA SetOff ==
    ASSUME PluginTypeOK, PluginTypeOK', UNCHANGED <<requires, installed>>,
           NEW p \in Plugins, NEW g \in Generations, NEW state \in PluginStates \ {"Enabled"},
           SetPlugin(p, g, state)
    PROVE  /\ NoneMore
           /\ \A q \in Enabled : q # p => q \in Enabled'
           /\ p \notin Enabled => Enabled' = Enabled
           /\ installed[p] = g => p \notin Enabled'
<1>1. \A q \in Plugins, h \in Generations :
        pluginState'[q][h] = IF q = p /\ h = g THEN state ELSE pluginState[q][h]
  BY StateSet
<1>2. \A q \in Plugins : installed[q] \in Generations \cup {0} /\ 0 \notin Generations
  BY DEF PluginTypeOK, Generations
<1>3. \A q \in Enabled' : q \in Enabled
  BY <1>1, <1>2 DEF Enabled, StateOfPlugin
<1>4. \A q \in Enabled : q # p => q \in Enabled'
  BY <1>1, <1>2 DEF Enabled, StateOfPlugin
<1>5. installed[p] = g => p \notin Enabled'
  BY <1>1, <1>2 DEF Enabled, StateOfPlugin
<1> QED BY <1>3, <1>4, <1>5 DEF NoneMore

\* Removing a plugin that is not enabled.
LEMMA SetGone ==
    ASSUME PluginTypeOK, UNCHANGED requires, NEW p \in Plugins, NEW g \in Generations,
           SetPlugin(p, g, "Uninstalled"), installed' = [installed EXCEPT ![p] = 0], p \notin Enabled
    PROVE  NoneMore /\ Enabled' = Enabled
<1>1. \A q \in Plugins, h \in Generations :
        pluginState'[q][h] = IF q = p /\ h = g THEN "Uninstalled" ELSE pluginState[q][h]
  BY StateSet DEF PluginStates
<1>2. \A q \in Plugins : installed[q] \in Generations \cup {0} /\ 0 \notin Generations
  BY DEF PluginTypeOK, Generations
<1>3. \A q \in Plugins : installed'[q] = IF q = p THEN 0 ELSE installed[q]
  BY DEF PluginTypeOK
<1>4. \A q \in Plugins : q \in Enabled' <=> q \in Enabled
  BY <1>1, <1>2, <1>3 DEF Enabled, StateOfPlugin
<1>5. Enabled \subseteq Plugins /\ Enabled' \subseteq Plugins
  BY DEF Enabled
<1> QED BY <1>3, <1>4, <1>5 DEF NoneMore

LEMMA PluginStoppedStep ==
    ASSUME PluginInv, NEW c \in PluginCalls, PluginStopped(c)
    PROVE  PluginInv'
<1>1. /\ PluginTyped /\ PluginTypeOK /\ pluginCall[c] # <<>> /\ TopFrame(c).at = "stopping"
      /\ UNCHANGED <<requires, installed, generation, raced>>
  BY DEF PluginInv, PluginTyped, PluginStopped
<1>2. raced' \in BOOLEAN /\ installed' \in [Plugins -> Generations \cup {0}]
  BY <1>1 DEF PluginTypeOK
<1>3. PICK s, m, t : Stack(c, s, m, t)
  BY <1>1, Stacks
<1>4. /\ t \in Frame /\ t = TopFrame(c) /\ s = pluginCall[c] /\ t.at = "stopping" /\ m \in Nat \ {0}
      /\ s \in Seq(Frame) /\ s # <<>> /\ m = Len(s) /\ t = s[m] /\ Fits(s) /\ m \in DOMAIN s
  BY <1>1, <1>3 DEF Stack
<1>5. PICK p \in Plugins, g \in Generations : p = t.plugin /\ g = t.record /\ g <= generation[p]
  BY <1>4 DEF Frame, Fits
<1>6. PICK state \in {"Disabled", "Failed"} :
        /\ SetPlugin(p, g, state)
        /\ Inner(c, IF state = "Disabled" THEN Front(s) ELSE <<>>)
  BY <1>4, <1>5 DEF PluginStopped
<1>7. state \in PluginStates /\ state \in PluginStates \ {"Enabled"}
  BY DEF PluginStates
<1>8. PICK fs \in Seq(Frame) :
        /\ fs = Front(s) /\ Len(fs) = m - 1 /\ \A n \in 1 .. m - 1 : fs[n] = s[n]
  BY <1>4, LastReplaced
<1>9. Fits(fs)
  <2>1. \A n \in DOMAIN fs : n \in 1 .. m - 1 /\ n \in DOMAIN s
    BY <1>4, <1>8
  <2> QED BY <1>4, <1>8, <2>1 DEF Fits
<1>10. PluginTyped'
  BY <1>1, <1>2, <1>5, <1>6, <1>7, <1>8, <1>9, TypesKept, NoFrames
<1>11. /\ NoneMore
       /\ \A q \in Enabled : q # p => q \in Enabled'
       /\ installed[p] = g => p \notin Enabled'
  BY <1>1, <1>6, <1>7, <1>10, SetOff DEF PluginTyped
<1>12. ASSUME PluginSound PROVE PluginSound'
  <2>1. Dismantles(t, {})
    BY <1>1, <1>3, <1>4, <1>12, TopDismantles
  <2>2. p \notin Enabled' /\ \A q \in Enabled : p \notin requires[q]
    BY <1>4, <1>5, <1>11, <2>1 DEF Dismantles, NoneMore
  <2>3. \A q \in Enabled' : requires[q] \subseteq Enabled'
    BY <1>11, <1>12, <2>2 DEF PluginSound, NoneLeftPointing, NoneMore
  <2>4. CASE state = "Failed"
    BY <1>1, <1>3, <1>4, <1>6, <1>11, <1>12, <2>3, <2>4, CallEnds
  <2>5. CASE state = "Disabled"
    <3>1. Inner(c, fs)
      BY <1>6, <1>8, <2>5
    <3>2. \A d \in PluginCalls : \A n \in DOMAIN pluginCall[d] : pluginCall[d][n].at # "enabling"
      BY <1>1, <1>4, <1>12, NoneEnabling
    <3>3. ASSUME NEW n \in DOMAIN fs PROVE fs[n].at # "enabling" /\ Dismantles(fs[n], Above(fs, n))'
      <4>1. n \in 1 .. m - 1 /\ n < m /\ n \in DOMAIN s /\ n + 1 \in DOMAIN s
        BY <1>4, <1>8
      <4>2. PICK f \in Frame : f = fs[n] /\ f = s[n]
        BY <1>8, <4>1
      <4>3. Above(s, n) = {s[n + 1].plugin}
        BY <1>4, <4>1 DEF Above
      <4>4. Dismantles(f, {s[n + 1].plugin}) /\ f.at # "enabling"
        <5>1. n \in DOMAIN pluginCall[c] /\ pluginCall[c][n] = f /\ f.at # "enabling"
          BY <1>4, <3>2, <4>1, <4>2
        <5>2. Dismantles(pluginCall[c][n], Above(pluginCall[c], n))
          BY <1>12, <5>1 DEF PluginSound
        <5> QED BY <1>4, <4>3, <5>1, <5>2
      <4>5. Dismantles(f, {s[n + 1].plugin})'
        BY <1>1, <1>11, <4>4, DismantlesKept
      <4>6. CASE n = m - 1
        <5>1. s[n + 1].plugin = p /\ Above(fs, n) = {}
          BY <1>4, <1>5, <1>8, <4>6 DEF Above
        <5>2. Dismantles(f, {})'
          BY <2>2, <4>5, <5>1 DEF Dismantles
        <5> QED BY <4>2, <4>4, <5>1, <5>2
      <4>7. CASE n # m - 1
        <5>1. n + 1 \in 1 .. m - 1 /\ n < Len(fs)
          BY <1>4, <1>8, <4>1, <4>7
        <5>2. Above(fs, n) = {s[n + 1].plugin}
          BY <1>8, <5>1 DEF Above
        <5> QED BY <4>2, <4>4, <4>5, <5>2
      <4> QED BY <4>6, <4>7
    <3> QED BY <1>1, <1>11, <1>12, <2>3, <3>1, <3>2, <3>3, DisablingStep
  <2> QED BY <2>4, <2>5
<1> QED BY <1>1, <1>10, <1>12 DEF PluginInv

LEMMA UninstalledStep ==
    ASSUME PluginInv, NEW c \in PluginCalls, Uninstalled(c)
    PROVE  PluginInv'
<1>1. /\ PluginTyped /\ PluginTypeOK /\ pluginCall[c] # <<>> /\ TopFrame(c).at = "uninstalling"
      /\ UNCHANGED <<requires, generation, raced>> /\ Inner(c, <<>>)
  BY DEF PluginInv, PluginTyped, Uninstalled
<1>2. PICK s, m, t : Stack(c, s, m, t)
  BY <1>1, Stacks
<1>3. /\ t \in Frame /\ t = TopFrame(c) /\ t.at = "uninstalling" /\ Fits(s) /\ t = s[m] /\ m \in DOMAIN s
  BY <1>1, <1>2 DEF Stack
<1>4. PICK p \in Plugins, g \in Generations : p = t.plugin /\ g = t.record /\ g <= generation[p]
  BY <1>3 DEF Frame, Fits
<1>5. \/ /\ pluginState[p][g] \in {"Disabled", "Failed"}
         /\ SetPlugin(p, g, "Uninstalled") /\ installed' = [installed EXCEPT ![p] = 0]
      \/ UNCHANGED <<pluginState, installed>>
  BY <1>3, <1>4 DEF Uninstalled
<1>6. raced' \in BOOLEAN /\ "Uninstalled" \in PluginStates
  BY <1>1 DEF PluginTypeOK, PluginStates
<1>7. installed' \in [Plugins -> Generations \cup {0}] /\ \A q \in Plugins : installed'[q] \in {installed[q], 0}
  BY <1>1, <1>5 DEF PluginTypeOK
<1>8. PluginTyped'
  BY <1>1, <1>4, <1>5, <1>6, <1>7, TypesKept, NoFrames
<1>9. ASSUME PluginSound PROVE PluginSound'
  <2>1. Dismantles(t, {})
    BY <1>1, <1>2, <1>3, <1>9, TopDismantles
  <2>2. pluginState[p][g] \in {"Disabled", "Failed"} => p \notin Enabled
    BY <1>4, <2>1 DEF Dismantles, Enabled, StateOfPlugin
  <2>3. NoneMore /\ \A q \in Enabled' : requires[q] \subseteq Enabled'
    <3>1. CASE UNCHANGED <<pluginState, installed>>
      BY <1>1, <1>9, <3>1, SameEnabled
    <3>2. CASE /\ pluginState[p][g] \in {"Disabled", "Failed"}
               /\ SetPlugin(p, g, "Uninstalled") /\ installed' = [installed EXCEPT ![p] = 0]
      <4>1. NoneMore /\ Enabled' = Enabled
        BY <1>1, <2>2, <3>2, SetGone
      <4> QED BY <1>1, <1>9, <4>1 DEF PluginSound, NoneLeftPointing
    <3> QED BY <1>5, <3>1, <3>2
  <2> QED BY <1>1, <1>2, <1>3, <1>9, <2>3, CallEnds
<1> QED BY <1>1, <1>8, <1>9 DEF PluginInv

LEMMA UninstallStep ==
    ASSUME PluginInv, NEW c \in PluginCalls, NEW p \in Plugins, Uninstall(c, p)
    PROVE  PluginInv'
<1>1. /\ PluginTyped /\ PluginTypeOK /\ pluginCall[c] = <<>> /\ installed[p] # 0
      /\ UNCHANGED <<requires, generation>> /\ raced' = (raced \/ EnablingNow(Plugins))
  BY DEF PluginInv, PluginTyped, Uninstall
<1>2. raced' \in BOOLEAN
  BY <1>1 DEF PluginTypeOK
<1>3. installed[p] \in Generations /\ installed[p] <= generation[p]
  BY <1>1 DEF PluginTyped, PluginTypeOK
<1>4. ~ raced' => /\ PluginSound
                  /\ \A d \in PluginCalls : \A n \in DOMAIN pluginCall[d] : pluginCall[d][n].at # "enabling"
  BY <1>1, NothingEnabling DEF PluginInv
<1>5. CASE StateOfPlugin(p) = "Enabled"
  <2>1. PICK f \in Frame :
          /\ f = DisableFrame(p, "confirming") /\ f.plugin = p
          /\ f.record <= generation[p] /\ f.at \in {"stopping", "confirming"}
          /\ \A above : Dismantles(f, above)
    BY <1>1, DisableFrames
  <2>2. PICK u \in Frame :
          u = NewFrame(p, "uninstalling") /\ u.plugin = p /\ u.record = installed[p] /\ u.at = "uninstalling"
    <3>1. NewFrame(p, "uninstalling") \in Frame
      BY <1>3 DEF NewFrame, Frame
    <3> QED BY <3>1 DEF NewFrame
  <2>3. PICK fs \in Seq(Frame) : fs = <<u, f>> /\ DOMAIN fs = {1, 2} /\ fs[1] = u /\ fs[2] = f
    <3>1. /\ <<u, f>> \in Seq(Frame) /\ DOMAIN <<u, f>> = {1, 2}
          /\ <<u, f>>[1] = u /\ <<u, f>>[2] = f
      BY TwoElements
    <3> QED BY <3>1
  <2>4. Inner(c, fs) /\ UNCHANGED <<pluginState, installed>>
    BY <1>5, <2>1, <2>2, <2>3 DEF Uninstall
  <2>5. Fits(fs)
    BY <1>3, <2>1, <2>2, <2>3 DEF Fits
  <2>6. installed' \in [Plugins -> Generations \cup {0}]
    BY <1>1, <2>4 DEF PluginTypeOK
  <2>7. PluginTyped'
    BY <1>1, <1>2, <2>4, <2>5, <2>6, TypesKept
  <2>8. ASSUME ~ raced' PROVE PluginSound'
    <3>1. NoneMore /\ \A q \in Enabled' : requires[q] \subseteq Enabled'
      BY <1>1, <1>4, <2>4, <2>8, SameEnabled
    <3>2. \A above : Dismantles(f, above)' /\ Dismantles(u, above)'
      <4>1. \A above : Dismantles(u, above)
        BY <2>2 DEF Dismantles
      <4> QED BY <1>1, <2>1, <3>1, <4>1, DismantlesKept
    <3>3. \A n \in DOMAIN fs : fs[n].at # "enabling" /\ Dismantles(fs[n], Above(fs, n))'
      BY <2>1, <2>2, <2>3, <3>2
    <3> QED BY <1>1, <1>4, <2>4, <2>8, <3>1, <3>3, DisablingStep
  <2> QED BY <2>7, <2>8 DEF PluginInv
<1>6. CASE StateOfPlugin(p) # "Enabled"
  <2>1. /\ SetPlugin(p, installed[p], "Uninstalled") /\ installed' = [installed EXCEPT ![p] = 0]
        /\ UNCHANGED pluginCall
    BY <1>6 DEF Uninstall
  <2>2. /\ installed' \in [Plugins -> Generations \cup {0}]
        /\ \A q \in Plugins : installed'[q] \in {installed[q], 0}
    BY <1>1, <2>1 DEF PluginTypeOK
  <2>3. "Uninstalled" \in PluginStates
    BY DEF PluginStates
  <2>4. PluginTyped'
    BY <1>1, <1>2, <1>3, <2>1, <2>2, <2>3, TypesKept
  <2>5. NoneMore /\ Enabled' = Enabled
    BY <1>1, <1>3, <1>6, <2>1, SetGone DEF Enabled
  <2>6. ASSUME ~ raced' PROVE PluginSound'
    <3>1. \A q \in Enabled' : requires[q] \subseteq Enabled'
      BY <1>1, <1>4, <2>5, <2>6 DEF PluginSound, NoneLeftPointing
    <3>2. PICK fs \in Seq(Frame) : fs = <<>> /\ DOMAIN fs = {}
      BY NoElement
    <3>3. Inner(c, fs)
      BY <1>1, <2>1, <3>2 DEF Inner, PluginTypeOK
    <3> QED BY <1>1, <1>4, <2>5, <2>6, <3>1, <3>2, <3>3, DisablingStep
  <2> QED BY <2>4, <2>6 DEF PluginInv
<1> QED BY <1>5, <1>6

\* A step of a call that enables, while nothing is disabled.
LEMMA EnablingStep ==
    ASSUME PluginTypeOK, PluginSound, UNCHANGED <<requires, installed>>, Enabled \subseteq Enabled',
           \A q \in Enabled' : requires[q] \subseteq Enabled',
           NEW c \in PluginCalls, NEW fs \in Seq(Frame), Inner(c, fs),
           \A d \in PluginCalls : \A m \in DOMAIN pluginCall[d] : pluginCall[d][m].at = "enabling",
           \A d \in PluginCalls \ {c} : \A m \in DOMAIN pluginCall[d] :
              /\ pluginCall[d][m].plugin \notin Enabled'
              /\ \A n \in DOMAIN fs : fs[n].plugin # pluginCall[d][m].plugin,
           \A n \in DOMAIN fs : fs[n].at = "enabling" /\ Enables(fs[n])'
    PROVE  PluginSound'
<1>1. \A d \in PluginCalls : pluginCall'[d] = IF d = c THEN fs ELSE pluginCall[d]
  BY DEF Inner, PluginTypeOK
<1>2. NoneLeftPointing'
  BY DEF NoneLeftPointing
<1>3. ASSUME NEW d \in PluginCalls, NEW n \in DOMAIN pluginCall'[d]
      PROVE  pluginCall'[d][n].at = "enabling" /\ Enables(pluginCall[d][n])'
  <2>1. CASE d = c
    BY <1>1, <1>3, <2>1 DEF Enables
  <2>2. CASE d # c
    <3>1. pluginCall'[d] = pluginCall[d] /\ n \in DOMAIN pluginCall[d]
      BY <1>1, <1>3, <2>2
    <3>2. Enables(pluginCall[d][n])
      BY <3>1 DEF PluginSound
    <3> QED BY <2>2, <3>1, <3>2 DEF Enables
  <2> QED BY <2>1, <2>2
<1>4. \A d, e \in PluginCalls : \A m \in DOMAIN pluginCall'[d], n \in DOMAIN pluginCall'[e] :
         pluginCall'[d][m].plugin = pluginCall'[e][n].plugin => d = e
  BY <1>1 DEF PluginSound
<1> QED BY <1>2, <1>3, <1>4 DEF PluginSound

LEMMA EnableStep ==
    ASSUME PluginInv, NEW c \in PluginCalls, NEW p \in Plugins, Enable(c, p)
    PROVE  PluginInv'
<1>1. /\ PluginTyped /\ PluginTypeOK /\ pluginCall[c] = <<>> /\ installed[p] # 0
      /\ StateOfPlugin(p) # "Enabled" /\ UNCHANGED <<requires, installed, generation>>
      /\ raced' = (raced \/ DisablingNow \/ EnablingNow({p}))
  BY DEF PluginInv, PluginTyped, Enable
<1>2. raced' \in BOOLEAN /\ installed' \in [Plugins -> Generations \cup {0}]
  BY <1>1 DEF PluginTypeOK
<1>3. installed[p] \in Generations /\ installed[p] <= generation[p] /\ p \notin Enabled
  BY <1>1 DEF PluginTyped, PluginTypeOK, Enabled
<1>4. PICK f \in Frame :
        f = NewFrame(p, "enabling") /\ f.plugin = p /\ f.record = installed[p] /\ f.at = "enabling"
  <2>1. NewFrame(p, "enabling") \in Frame
    BY <1>3 DEF NewFrame, Frame
  <2> QED BY <2>1 DEF NewFrame
<1>5. PICK one \in Seq(Frame) : one = <<f>> /\ DOMAIN one = {1} /\ one[1] = f
  BY OneElement
<1>6. PICK fs \in Seq(Frame) :
        /\ Inner(c, fs) /\ Fits(fs) /\ \A n \in DOMAIN fs : fs[n] = f
        /\ \/ UNCHANGED pluginState /\ requires[p] \subseteq Enabled
           \/ DOMAIN fs = {} /\ SetPlugin(p, installed[p], "Failed")
  <2>1. CASE SetPlugin(p, installed[p], "Failed") /\ UNCHANGED pluginCall
    <3>1. PICK fs \in Seq(Frame) : fs = <<>> /\ DOMAIN fs = {}
      BY NoElement
    <3>2. Inner(c, fs) /\ Fits(fs)
      BY <1>1, <2>1, <3>1 DEF Inner, Fits, PluginTypeOK
    <3> QED BY <2>1, <3>1, <3>2
  <2>2. CASE Dependencies(p) \subseteq Enabled /\ Inner(c, <<NewFrame(p, "enabling")>>) /\ UNCHANGED pluginState
    <3>1. requires[p] \subseteq Dependencies(p)
      BY <1>1 DEF Dependencies, PluginTypeOK
    <3>2. Inner(c, one) /\ Fits(one)
      BY <1>3, <1>4, <1>5, <2>2 DEF Fits
    <3> QED BY <1>5, <2>2, <3>1, <3>2
  <2> QED BY <2>1, <2>2 DEF Enable
<1>7. "Failed" \in PluginStates /\ "Failed" \in PluginStates \ {"Enabled"}
  BY DEF PluginStates
<1>8. PluginTyped'
  BY <1>1, <1>2, <1>3, <1>6, <1>7, TypesKept
<1>9. Enabled' = Enabled
  <2>1. CASE UNCHANGED pluginState
    BY <1>1, <2>1 DEF Enabled, StateOfPlugin
  <2>2. CASE SetPlugin(p, installed[p], "Failed")
    BY <1>1, <1>3, <1>7, <1>8, <2>2, SetOff DEF PluginTyped
  <2> QED BY <1>6, <2>1, <2>2
<1>10. ASSUME ~ raced' PROVE PluginSound'
  <2>1. PluginSound /\ ~ DisablingNow /\ ~ EnablingNow({p})
    BY <1>1, <1>10 DEF PluginInv
  <2>2. \A d \in PluginCalls : \A m \in DOMAIN pluginCall[d] :
           pluginCall[d][m].at = "enabling" /\ pluginCall[d][m].plugin # p
    BY <2>1 DEF DisablingNow, EnablingNow
  <2>3. \A d \in PluginCalls : \A m \in DOMAIN pluginCall[d] : pluginCall[d][m].plugin \notin Enabled'
    BY <1>9, <2>1, <2>2 DEF PluginSound, Enables
  <2>4. \A q \in Enabled' : requires[q] \subseteq Enabled'
    BY <1>9, <2>1 DEF PluginSound, NoneLeftPointing
  <2>5. \A n \in DOMAIN fs : fs[n].at = "enabling" /\ Enables(fs[n])'
    BY <1>1, <1>3, <1>4, <1>6, <1>9 DEF Enables
  <2>6. \A d \in PluginCalls : \A m \in DOMAIN pluginCall[d], n \in DOMAIN fs :
           fs[n].plugin # pluginCall[d][m].plugin
    BY <1>4, <1>6, <2>2
  <2> QED BY <1>1, <1>6, <1>9, <2>1, <2>2, <2>3, <2>4, <2>5, <2>6, EnablingStep
<1> QED BY <1>8, <1>10 DEF PluginInv

LEMMA EnableSettlesStep ==
    ASSUME PluginInv, NEW c \in PluginCalls, EnableSettles(c)
    PROVE  PluginInv'
<1>1. /\ PluginTyped /\ PluginTypeOK /\ pluginCall[c] # <<>> /\ TopFrame(c).at = "enabling"
      /\ UNCHANGED <<requires, installed, generation, raced>> /\ Inner(c, <<>>)
  BY DEF PluginInv, PluginTyped, EnableSettles
<1>2. raced' \in BOOLEAN /\ installed' \in [Plugins -> Generations \cup {0}]
  BY <1>1 DEF PluginTypeOK
<1>3. PICK s, m, t : Stack(c, s, m, t)
  BY <1>1, Stacks
<1>4. /\ t \in Frame /\ t = TopFrame(c) /\ t.at = "enabling" /\ Fits(s) /\ t = s[m] /\ m \in DOMAIN s
      /\ t = pluginCall[c][m] /\ m \in DOMAIN pluginCall[c]
  BY <1>1, <1>3 DEF Stack
<1>5. PICK p \in Plugins, g \in Generations : p = t.plugin /\ g = t.record /\ g <= generation[p]
  BY <1>4 DEF Frame, Fits
<1>6. PICK state \in {"Enabled", "Failed"} : SetPlugin(p, g, state)
  BY <1>4, <1>5 DEF EnableSettles
<1>7. state \in PluginStates
  BY DEF PluginStates
<1>8. PluginTyped'
  BY <1>1, <1>2, <1>5, <1>6, <1>7, TypesKept, NoFrames
<1>9. ASSUME PluginSound PROVE PluginSound'
  <2>1. Enables(t) /\ \A d \in PluginCalls : \A n \in DOMAIN pluginCall[d] :
           pluginCall[d][n].at = "enabling" /\ (d # c => pluginCall[d][n].plugin # p)
    BY <1>4, <1>5, <1>9 DEF PluginSound
  <2>2. installed[p] = g /\ p \notin Enabled /\ requires[p] \subseteq Enabled
    BY <1>5, <2>1 DEF Enables
  <2>3. \A q \in Plugins, h \in Generations :
          pluginState'[q][h] = IF q = p /\ h = g THEN state ELSE pluginState[q][h]
    BY <1>1, <1>6, <1>7, StateSet
  <2>4. \A q \in Plugins : q # p => (q \in Enabled' <=> q \in Enabled)
    BY <1>1, <2>3 DEF Enabled, StateOfPlugin, PluginTypeOK, Generations
  <2>5. Enabled \subseteq Plugins /\ Enabled' \subseteq Plugins
    BY DEF Enabled
  <2>6. \A q \in Enabled : q \in Enabled' /\ requires[q] \subseteq Enabled
    BY <1>9, <2>2, <2>4, <2>5 DEF PluginSound, NoneLeftPointing
  <2>7. \A q \in Enabled' : q = p \/ q \in Enabled
    BY <2>4, <2>5
  <2>8. \A q \in Enabled' : requires[q] \subseteq Enabled'
    BY <1>1, <2>2, <2>6, <2>7
  <2>9. \A d \in PluginCalls \ {c} : \A n \in DOMAIN pluginCall[d] : pluginCall[d][n].plugin \notin Enabled'
    <3>1. \A d \in PluginCalls : \A n \in DOMAIN pluginCall[d] : pluginCall[d][n].plugin \notin Enabled
      BY <1>9, <2>1 DEF PluginSound, Enables
    <3> QED BY <2>1, <2>7, <3>1
  <2>10. PICK fs \in Seq(Frame) : fs = <<>> /\ DOMAIN fs = {}
    BY NoElement
  <2>11. Inner(c, fs) /\ Enabled \subseteq Enabled'
    BY <1>1, <2>6, <2>10
  <2> QED BY <1>1, <1>9, <2>1, <2>8, <2>9, <2>10, <2>11, EnablingStep
<1> QED BY <1>1, <1>8, <1>9 DEF PluginInv

LEMMA InstallStep ==
    ASSUME PluginInv, NEW p \in Plugins, Install(p)
    PROVE  PluginInv'
<1>1. /\ PluginTyped /\ PluginTypeOK /\ installed[p] = 0 /\ generation[p] < MaxInstalls
      /\ UNCHANGED <<requires, pluginState, pluginCall, raced>>
      /\ generation' = [generation EXCEPT ![p] = @ + 1]
      /\ installed' = [installed EXCEPT ![p] = generation'[p]]
  BY DEF PluginInv, PluginTyped, Install
<1>2. PICK g \in Generations : g = generation[p] + 1 /\ g = generation'[p] /\ g > generation[p]
  BY <1>1, PluginAssumption DEF PluginTypeOK, Generations
<1>3. /\ \A q \in Plugins : generation'[q] = IF q = p THEN g ELSE generation[q]
      /\ \A q \in Plugins : installed'[q] = IF q = p THEN g ELSE installed[q]
      /\ generation' \in [Plugins -> Generations \cup {0}] /\ installed' \in [Plugins -> Generations \cup {0}]
  BY <1>1, <1>2 DEF PluginTypeOK
<1>4. \A q \in Plugins : generation[q] \in Int /\ generation'[q] \in Int /\ generation[q] <= generation'[q]
  BY <1>1, <1>2, <1>3, PluginAssumption DEF PluginTypeOK, Generations
<1>5. pluginState[p][g] = "Installed"
  BY <1>1, <1>2 DEF PluginTyped
<1>6. \A c \in PluginCalls : Fits(pluginCall[c])'
  <2>1. ASSUME NEW c \in PluginCalls, NEW n \in DOMAIN pluginCall[c]
        PROVE  pluginCall[c][n].record <= generation'[pluginCall[c][n].plugin]
    <3>1. PICK f \in Frame : f = pluginCall[c][n] /\ f.record <= generation[f.plugin]
      BY <1>1, <2>1 DEF PluginTyped, PluginTypeOK, Fits
    <3>2. f.plugin \in Plugins /\ f.record \in Int
      BY DEF Frame, Generations
    <3> QED BY <1>4, <3>1, <3>2
  <2> QED BY <1>1, <2>1 DEF Fits, PluginTyped
<1>7. PluginTyped'
  <2>1. PluginTypeOK'
    BY <1>1, <1>3 DEF PluginTypeOK
  <2>2. \A q \in Plugins : installed'[q] <= generation'[q]
    BY <1>1, <1>2, <1>3 DEF PluginTyped, Generations
  <2>3. \A q \in Plugins, h \in Generations : h > generation'[q] => pluginState'[q][h] = "Installed"
    <3>1. \A q \in Plugins, h \in Generations : h > generation'[q] => h > generation[q]
      BY <1>4 DEF Generations
    <3> QED BY <1>1, <3>1 DEF PluginTyped
  <2> QED BY <1>6, <2>1, <2>2, <2>3 DEF PluginTyped
<1>8. ASSUME PluginSound PROVE PluginSound'
  <2>1. \A q \in Plugins : q \in Enabled' <=> q \in Enabled
    BY <1>1, <1>3, <1>5 DEF Enabled, StateOfPlugin
  <2>2. Enabled' = Enabled /\ p \notin Enabled
    <3>1. Enabled \subseteq Plugins /\ Enabled' \subseteq Plugins
      BY DEF Enabled
    <3> QED BY <1>1, <2>1, <3>1 DEF Enabled
  <2>3. \A f, above : f \in Frame /\ Dismantles(f, above) => Dismantles(f, above)'
    BY <1>1, <1>3, <2>2 DEF Dismantles, Frame
  <2>4. \A f \in Frame : Enables(f) => Enables(f)'
    <3>1. \A f \in Frame : f.plugin \in Plugins /\ f.record # 0
      BY DEF Frame, Generations
    <3> QED BY <1>1, <1>3, <2>2, <3>1 DEF Enables
  <2>5. NoneLeftPointing'
    BY <1>1, <1>8, <2>2 DEF PluginSound, NoneLeftPointing
  <2>6. ASSUME NEW c \in PluginCalls, NEW n \in DOMAIN pluginCall[c]
        PROVE  IF pluginCall[c][n].at = "enabling" THEN Enables(pluginCall[c][n])'
               ELSE Dismantles(pluginCall[c][n], Above(pluginCall[c], n))'
    <3>1. PICK f, a : f \in Frame /\ f = pluginCall[c][n] /\ a = Above(pluginCall[c], n)
      BY <1>1, <2>6 DEF PluginTypeOK
    <3>2. IF f.at = "enabling" THEN Enables(f) ELSE Dismantles(f, a)
      BY <1>8, <2>6, <3>1 DEF PluginSound
    <3>3. IF f.at = "enabling" THEN Enables(f)' ELSE Dismantles(f, a)'
      BY <2>3, <2>4, <3>1, <3>2
    <3>4. f = pluginCall'[c][n] /\ a = (Above(pluginCall[c], n))'
      BY <1>1, <3>1 DEF Above
    <3> QED BY <3>1, <3>3, <3>4 DEF Enables, Dismantles
  <2> QED BY <1>1, <1>8, <2>5, <2>6 DEF PluginSound
<1> QED BY <1>1, <1>7, <1>8 DEF PluginInv

LEMMA PluginInvInit == PluginInit => PluginInv
<1> SUFFICES ASSUME PluginInit PROVE PluginInv
  OBVIOUS
<1>1. 1 \in Generations /\ 0 \notin Generations /\ "Installed" \in PluginStates
  BY PluginAssumption DEF Generations, PluginStates
<1>2. \A c \in PluginCalls : pluginCall[c] = <<>> /\ Fits(pluginCall[c]) /\ DOMAIN pluginCall[c] = {}
  BY NoElement DEF PluginInit, Fits
<1>3. PluginTypeOK
  <2>1. pluginCall \in [PluginCalls -> Seq(Frame)]
    BY NoElement DEF PluginInit
  <2> QED BY <1>1, <2>1, PluginAssumption DEF PluginInit, PluginTypeOK
<1>4. PluginTyped
  BY <1>2, <1>3 DEF PluginTyped, PluginInit
<1>5. PluginSound
  BY <1>2 DEF PluginSound, NoneLeftPointing, Enabled, PluginInit
<1> QED BY <1>4, <1>5 DEF PluginInv

LEMMA PluginInvStep == PluginInv /\ [PluginNext]_pluginVars => PluginInv'
<1> SUFFICES ASSUME PluginInv, [PluginNext]_pluginVars PROVE PluginInv'
  OBVIOUS
<1>1. CASE UNCHANGED pluginVars
  BY <1>1 DEF pluginVars, PluginInv, PluginTyped, PluginTypeOK, Fits, PluginSound, NoneLeftPointing,
              Enables, Dismantles, Above, Enabled, StateOfPlugin
<1>2. CASE \E p \in Plugins : Install(p)
  BY <1>2, InstallStep
<1>3. CASE \E c \in PluginCalls :
              EnableSettles(c) \/ Confirmed(c) \/ Cascade(c) \/ PluginStopped(c) \/ Uninstalled(c)
  BY <1>3, EnableSettlesStep, ConfirmedStep, CascadeStep, PluginStoppedStep, UninstalledStep
<1>4. CASE \E c \in PluginCalls, p \in Plugins : Enable(c, p) \/ Disable(c, p) \/ Uninstall(c, p)
  BY <1>4, EnableStep, DisableStep, UninstallStep
<1> QED BY <1>1, <1>2, <1>3, <1>4 DEF PluginNext

\* However the calls of disable() and uninstall() interleave, and wherever one of
\* their steps fails, every dependency of an enabled plugin is enabled, as long as
\* no enable() overlaps with them (plugin-manager.ts).
THEOREM DependenciesEnabledHolds == PluginSpec => []DependenciesEnabled
<1>1. PluginInv => DependenciesEnabled
  BY DEF PluginInv, PluginSound, DependenciesEnabled
<1> QED BY <1>1, PluginInvInit, PluginInvStep, PTL DEF PluginSpec
-----------------------------------------------------------------------------
(***************************************************************************)
(* The in-process bus.                                                      *)
(***************************************************************************)

BusTyped ==
    /\ topic \in Seq(Subscribers)
    /\ processed \in [Subscribers -> SUBSET Messages]
    /\ attempts \in [Messages -> Nat]
    /\ publication \in [Messages -> Publication]
    /\ deadLetters \in [Messages -> SUBSET Subscribers]

Served(m, s) == m \in processed[s] \/ s \in deadLetters[m]

\* A publication that still follows the topic has before it the subscribers that
\* it has not served, and the attempt that is under way is counted.
Covers(m, p) ==
    /\ p.attached => p.at = "handler" /\ \A s \in ToSet(topic) : s \in ToSet(p.left) \/ Served(m, s)
    /\ p.at = "handler" => p.left # << >> /\ attempts[m] > 0

BusInv == BusTyped /\ \A m \in Messages : Covers(m, publication[m])

LEMMA NonePublished == None \in Publication /\ None.at = "none" /\ ~ None.attached
BY DEF None, Publication

LEMMA BusInvInit == BusInit => BusInv
<1> SUFFICES ASSUME BusInit PROVE BusInv
  OBVIOUS
<1>1. topic \in Seq(Subscribers)
  BY DEF BusInit
<1> QED BY <1>1, NonePublished DEF BusInit, BusInv, BusTyped, Covers

\* The walk of the publication of m goes on with `left`.
LEMMA VisitStep ==
    ASSUME BusInv, NEW m \in Messages, NEW left \in Seq(Subscribers), NEW attached \in BOOLEAN,
           NEW failures \in Nat, Visit(m, left, attached, failures), UNCHANGED topic,
           processed' \in [Subscribers -> SUBSET Messages], deadLetters' \in [Messages -> SUBSET Subscribers],
           \A n \in Messages, s \in Subscribers : Served(n, s) => Served(n, s)',
           attached => \A s \in ToSet(topic) : s \in ToSet(left) \/ Served(m, s)'
    PROVE  /\ BusInv'
           /\ publication'[m] = None /\ attached => \A s \in ToSet(topic) : Served(m, s)'
           /\ \A n \in Messages \ {m} : publication'[n] = publication[n]
<1>1. PICK next : next = {s \in Subscribers : m \notin processed[s]}
  OBVIOUS
<1>2. PICK rest \in Seq(Subscribers) : rest = Kept(left, next) /\ ToSet(rest) = ToSet(left) \cap next
  BY KeptSet
<1>3. rest = << >> => ToSet(rest) = {}
  BY DEF ToSet
<1>4. ToSet(topic) \subseteq Subscribers /\ ToSet(left) \subseteq Subscribers
  BY DEF BusInv, BusTyped, ToSet
<1>5. \A s \in Subscribers \ next : Served(m, s)'
  BY <1>1 DEF Served
<1>6. attached => \A s \in ToSet(topic) : s \in ToSet(rest) \/ Served(m, s)'
  BY <1>2, <1>4, <1>5
<1>7. PICK p \in Publication, a \in Nat :
         /\ publication' = [publication EXCEPT ![m] = p] /\ attempts' = [attempts EXCEPT ![m] = a]
         /\ p = None => (attached => rest = << >>)
         /\ p.attached => attached /\ p.at = "handler" /\ p.left = rest
         /\ p.at = "handler" => p.left # << >> /\ a > 0
  <2>1. CASE rest = << >>
    <3>1. publication' = [publication EXCEPT ![m] = None] /\ attempts' = [attempts EXCEPT ![m] = failures]
      BY <1>1, <1>2, <2>1 DEF Visit
    <3> QED BY <2>1, <3>1, NonePublished
  <2>2. CASE rest # << >>
    <3>1. PICK p : p = [at |-> "handler", left |-> rest, attached |-> attached]
      OBVIOUS
    <3>2. publication' = [publication EXCEPT ![m] = p] /\ attempts' = [attempts EXCEPT ![m] = failures + 1]
      BY <1>1, <1>2, <2>2, <3>1 DEF Visit
    <3>3. p \in Publication /\ p.at = "handler" /\ p.left = rest /\ (p.attached => attached)
      BY <3>1 DEF Publication
    <3>4. p # None
      BY <3>3, NonePublished
    <3>5. failures + 1 \in Nat /\ failures + 1 > 0
      OBVIOUS
    <3> QED BY <2>2, <3>2, <3>3, <3>4, <3>5, Zenon
  <2> QED BY <2>1, <2>2
<1>8. /\ publication \in [Messages -> Publication] /\ attempts \in [Messages -> Nat]
      /\ topic \in Seq(Subscribers)
  BY DEF BusInv, BusTyped
<1>9. /\ publication' \in [Messages -> Publication] /\ publication'[m] = p
      /\ attempts' \in [Messages -> Nat] /\ attempts'[m] = a
      /\ \A n \in Messages \ {m} : publication'[n] = publication[n] /\ attempts'[n] = attempts[n]
  BY <1>7, <1>8
<1>10. Covers(m, publication[m])'
  BY <1>6, <1>7, <1>9 DEF Covers
<1>11. \A n \in Messages \ {m} : Covers(n, publication[n])'
  BY <1>4, <1>9 DEF BusInv, Covers
<1>12. BusTyped'
  BY <1>8, <1>9 DEF BusTyped
<1>13. p = None /\ attached => \A s \in ToSet(topic) : Served(m, s)'
  BY <1>3, <1>6, <1>7
<1> QED BY <1>9, <1>10, <1>11, <1>12, <1>13 DEF BusInv

LEMMA BusStep ==
    ASSUME BusInv, [BusNext]_busVars
    PROVE  /\ BusInv'
           /\ \A m \in Messages :
                publication[m].attached /\ publication'[m] = None /\ attempts'[m] = 0
                   => \A s \in ToSet(topic') : Served(m, s)'
<1>t. BusTyped /\ \A m \in Messages : Covers(m, publication[m])
  BY DEF BusInv
<1>n. \A m \in Messages : publication[m].attached => publication[m] # None
  BY NonePublished
<1>s. ToSet(topic) \subseteq Subscribers
  BY <1>t DEF BusTyped, ToSet
<1>z. PICK zero \in Nat : zero = 0
  OBVIOUS
<1>1. CASE UNCHANGED busVars
  <2>1. BusInv'
    BY <1>1, <1>t DEF busVars, BusInv, BusTyped, Covers, Served
  <2> QED BY <1>1, <1>n, <2>1 DEF busVars
<1>2. ASSUME NEW s \in Subscribers, Subscribe(s)
      PROVE  BusInv' /\ \A m \in Messages : publication[m].attached => publication'[m] # None
  <2>0. PICK old \in Seq(Subscribers) : old = topic
    BY <1>t DEF BusTyped
  <2>1. PICK u \in Seq(Subscribers) : u = Append(topic, s) /\ ToSet(u) = ToSet(topic) \cup {s}
    BY <2>0, OneAdded, Zenon
  <2>2. topic' = u /\ UNCHANGED <<processed, deadLetters, attempts>>
    BY <1>2, <2>1 DEF Subscribe
  <2>3. ASSUME NEW m \in Messages
        PROVE  /\ publication'[m] \in Publication /\ Covers(m, publication[m])'
               /\ publication[m].attached => publication'[m] # None
    <3>1. PICK p \in Publication : p = publication[m] /\ Covers(m, p)
      BY <1>t DEF BusTyped
    <3>2. CASE ~ p.attached
      <4>1. publication'[m] = p
        BY <1>2, <3>1, <3>2 DEF Subscribe
      <4> QED BY <2>2, <3>1, <3>2, <4>1 DEF Covers
    <3>3. CASE p.attached
      <4>1. PICK w \in Seq(Subscribers) : w = p.left
        BY <3>1 DEF Publication
      <4>2. PICK v \in Seq(Subscribers) : v = Append(w, s) /\ ToSet(v) = ToSet(w) \cup {s}
        BY OneAdded, Zenon
      <4>3. PICK q : q = [p EXCEPT !.left = v]
        OBVIOUS
      <4>4. publication'[m] = q
        BY <1>2, <3>1, <3>3, <4>1, <4>2, <4>3 DEF Subscribe
      <4>5. q \in Publication /\ q.left = v /\ q.at = p.at /\ q.attached
        BY <3>1, <3>3, <4>3 DEF Publication
      <4>6. v # << >>
        <5>1. s \in ToSet(v)
          BY <4>2, Zenon
        <5>2. v = << >> => ToSet(v) = {}
          BY DEF ToSet
        <5> QED BY <5>1, <5>2
      <4>7. Covers(m, q)'
        BY <2>1, <2>2, <3>1, <3>3, <4>1, <4>2, <4>5, <4>6 DEF Covers, Served
      <4>8. q # None
        BY <4>5, NonePublished
      <4> QED BY <4>4, <4>5, <4>7, <4>8, Zenon
    <3> QED BY <3>2, <3>3
  <2>4. publication' \in [Messages -> Publication]
    BY <1>2, <2>3 DEF Subscribe
  <2> QED BY <1>t, <2>2, <2>3, <2>4 DEF BusInv, BusTyped
<1>3. ASSUME NEW s \in Subscribers, Unsubscribe(s)
      PROVE  BusInv' /\ \A m \in Messages : publication[m].attached => publication'[m] # None
  <2>1. PICK u \in Seq(Subscribers) :
           u = Kept(topic, Subscribers \ {s}) /\ ToSet(u) = ToSet(topic) \cap (Subscribers \ {s})
    BY <1>t, KeptSet DEF BusTyped
  <2>2. topic' = u /\ UNCHANGED <<processed, deadLetters, attempts>>
    BY <1>3, <2>1 DEF Unsubscribe
  <2>3. ASSUME NEW m \in Messages
        PROVE  /\ publication'[m] \in Publication /\ Covers(m, publication[m])'
               /\ publication[m].attached => publication'[m] # None
    <3>1. PICK p \in Publication : p = publication[m] /\ Covers(m, p)
      BY <1>t DEF BusTyped
    <3>2. CASE p.at = "none"
      <4>1. publication'[m] = None
        BY <1>3, <3>1, <3>2 DEF Unsubscribe
      <4>2. Covers(m, None)' /\ ~ p.attached
        BY <3>1, <3>2, NonePublished DEF Covers
      <4> QED BY <3>1, <4>1, <4>2, NonePublished, Zenon
    <3>3. CASE p.at # "none"
      <4>1. PICK w \in Seq(Subscribers) : w = p.left /\ w # << >> /\ p.at = "handler" /\ attempts[m] > 0
        BY <3>1, <3>3 DEF Publication, Covers
      <4>2. /\ Head(w) \in Subscribers /\ Tail(w) \in Seq(Subscribers)
            /\ ToSet(w) = {Head(w)} \cup ToSet(Tail(w))
        BY <4>1, FirstAndRest, Zenon
      <4>3. PICK k \in Seq(Subscribers) :
               k = Kept(Tail(w), Subscribers \ {s}) /\ ToSet(k) = ToSet(Tail(w)) \cap (Subscribers \ {s})
        BY <4>2, KeptSet, Zenon
      <4>4. PICK h \in Seq(Subscribers) : h = <<Head(w)>> /\ ToSet(h) = {Head(w)}
        BY <4>2, OnlyElement, Zenon
      <4>5. PICK v \in Seq(Subscribers) : v = h \o k /\ ToSet(v) = ToSet(h) \cup ToSet(k)
        BY JoinedSet, Zenon
      <4>6. PICK q : q = Without(p, s, u)
        OBVIOUS
      <4>7. publication'[m] = q
        BY <1>3, <2>2, <3>1, <3>3, <4>6 DEF Unsubscribe
      <4>8. q = [p EXCEPT !.left = v, !.attached = IF u = << >> THEN FALSE ELSE @]
        BY <4>1, <4>3, <4>4, <4>5, <4>6, Zenon DEF Without
      <4>9. q \in Publication /\ q.left = v /\ q.at = "handler" /\ (q.attached => p.attached)
        BY <4>1, <4>8 DEF Publication
      <4>10. v # << >>
        BY <4>4, <4>5 DEF ToSet
      <4>11. ToSet(topic') \subseteq ToSet(topic) \cap (Subscribers \ {s})
        BY <2>1, <2>2
      <4>12. q.attached => \A t \in ToSet(topic') : t \in ToSet(v) \/ Served(m, t)'
        <5>1. \A t \in Subscribers : Served(m, t) => Served(m, t)'
          BY <2>2 DEF Served
        <5>2. \A t \in ToSet(w) \cap (Subscribers \ {s}) : t \in ToSet(v)
          BY <4>2, <4>3, <4>4, <4>5
        <5> QED BY <3>1, <4>1, <4>9, <4>11, <5>1, <5>2 DEF Covers
      <4>13. Covers(m, q)'
        BY <2>2, <4>1, <4>9, <4>10, <4>12 DEF Covers
      <4>14. q # None
        BY <4>9, NonePublished
      <4> QED BY <4>7, <4>9, <4>13, <4>14, Zenon
    <3> QED BY <3>2, <3>3
  <2>4. publication' \in [Messages -> Publication]
    BY <1>3, <2>3 DEF Unsubscribe
  <2> QED BY <1>t, <2>2, <2>3, <2>4 DEF BusInv, BusTyped
<1>4. ASSUME NEW m \in Messages, Publish(m)
      PROVE  BusInv' /\ \A n \in Messages : publication[n].attached => publication'[n] # None
  <2>1. Visit(m, topic, TRUE, attempts[m]) /\ UNCHANGED <<topic, processed, deadLetters>> /\ publication[m] = None
    BY <1>4 DEF Publish
  <2>2. topic \in Seq(Subscribers) /\ attempts[m] \in Nat
    BY <1>t DEF BusTyped
  <2>3. \A n \in Messages, s \in Subscribers : Served(n, s) => Served(n, s)'
    BY <2>1 DEF Served
  <2>4. BusInv' /\ \A n \in Messages \ {m} : publication'[n] = publication[n]
    BY <1>t, <2>1, <2>2, <2>3, VisitStep DEF BusTyped
  <2> QED BY <1>n, <2>1, <2>4, NonePublished
<1>5. ASSUME NEW m \in Messages, HandlerReturns(m)
      PROVE  /\ BusInv'
             /\ \A n \in Messages :
                  publication[n].attached /\ publication'[n] = None => \A s \in ToSet(topic') : Served(n, s)'
  <2>1. PICK p \in Publication : p = publication[m] /\ Covers(m, p) /\ p.at = "handler"
    BY <1>5, <1>t DEF BusTyped, HandlerReturns
  <2>2. PICK w \in Seq(Subscribers), a \in BOOLEAN : w = p.left /\ w # << >> /\ a = p.attached
    BY <2>1 DEF Publication, Covers
  <2>3. /\ Head(w) \in Subscribers /\ Tail(w) \in Seq(Subscribers)
        /\ ToSet(w) = {Head(w)} \cup ToSet(Tail(w))
    BY <2>2, FirstAndRest, Zenon
  <2>4. PICK h \in Subscribers, t \in Seq(Subscribers) : h = Head(w) /\ t = Tail(w) /\ ToSet(w) = {h} \cup ToSet(t)
    BY <2>3, Zenon
  <2>5. /\ processed' = [processed EXCEPT ![h] = @ \cup {m}] /\ Visit(m, t, a, zero)
        /\ UNCHANGED <<topic, deadLetters>>
    BY <1>5, <1>z, <2>1, <2>2, <2>4 DEF HandlerReturns
  <2>6. /\ processed' \in [Subscribers -> SUBSET Messages] /\ Served(m, h)'
        /\ \A n \in Messages, s \in Subscribers : Served(n, s) => Served(n, s)'
    BY <1>t, <2>5 DEF BusTyped, Served
  <2>7. a => \A s \in ToSet(topic) : s \in ToSet(t) \/ Served(m, s)'
    BY <1>s, <2>1, <2>2, <2>4, <2>6 DEF Covers
  <2>8. /\ BusInv'
        /\ publication'[m] = None /\ a => \A s \in ToSet(topic) : Served(m, s)'
        /\ \A n \in Messages \ {m} : publication'[n] = publication[n]
    <3>1. deadLetters' \in [Messages -> SUBSET Subscribers] /\ UNCHANGED topic
      BY <1>t, <2>5 DEF BusTyped
    <3> QED BY <2>5, <2>6, <2>7, <3>1, VisitStep
  <2> QED BY <1>n, <2>1, <2>2, <2>5, <2>8
<1>6. ASSUME NEW m \in Messages, HandlerThrows(m)
      PROVE  /\ BusInv'
             /\ \A n \in Messages :
                  publication[n].attached /\ publication'[n] = None /\ attempts'[n] = 0
                     => \A s \in ToSet(topic') : Served(n, s)'
  <2>1. PICK p \in Publication : p = publication[m] /\ Covers(m, p) /\ p.at = "handler"
    BY <1>6, <1>t DEF BusTyped, HandlerThrows
  <2>2. PICK w \in Seq(Subscribers), a \in BOOLEAN : w = p.left /\ w # << >> /\ a = p.attached
    BY <2>1 DEF Publication, Covers
  <2>3. /\ Head(w) \in Subscribers /\ Tail(w) \in Seq(Subscribers)
        /\ ToSet(w) = {Head(w)} \cup ToSet(Tail(w))
    BY <2>2, FirstAndRest, Zenon
  <2>4. PICK h \in Subscribers, t \in Seq(Subscribers) : h = Head(w) /\ t = Tail(w) /\ ToSet(w) = {h} \cup ToSet(t)
    BY <2>3, Zenon
  <2>5. CASE attempts[m] >= MaxRetries
    <3>1. /\ deadLetters' = [deadLetters EXCEPT ![m] = @ \cup {h}] /\ Visit(m, t, a, zero)
          /\ UNCHANGED <<topic, processed>>
      BY <1>6, <1>z, <2>1, <2>2, <2>4, <2>5 DEF HandlerThrows
    <3>2. /\ deadLetters' \in [Messages -> SUBSET Subscribers] /\ Served(m, h)'
          /\ \A n \in Messages, s \in Subscribers : Served(n, s) => Served(n, s)'
      BY <1>t, <3>1 DEF BusTyped, Served
    <3>3. a => \A s \in ToSet(topic) : s \in ToSet(t) \/ Served(m, s)'
      BY <1>s, <2>1, <2>2, <2>4, <3>2 DEF Covers
    <3>4. /\ BusInv'
          /\ publication'[m] = None /\ a => \A s \in ToSet(topic) : Served(m, s)'
          /\ \A n \in Messages \ {m} : publication'[n] = publication[n]
      <4>1. processed' \in [Subscribers -> SUBSET Messages] /\ UNCHANGED topic
        BY <1>t, <3>1 DEF BusTyped
      <4> QED BY <3>1, <3>2, <3>3, <4>1, VisitStep
    <3> QED BY <1>n, <2>1, <2>2, <3>1, <3>4
  <2>6. CASE ~ attempts[m] >= MaxRetries
    <3>1. /\ publication' = [publication EXCEPT ![m] = None]
          /\ UNCHANGED <<topic, processed, deadLetters, attempts>>
      BY <1>6, <2>6 DEF HandlerThrows, Answered
    <3>2. BusInv'
      BY <1>t, <3>1, NonePublished DEF BusInv, BusTyped, Covers, Served
    <3>3. attempts'[m] # 0 /\ \A n \in Messages \ {m} : publication'[n] = publication[n]
      BY <1>t, <2>1, <3>1 DEF BusTyped, Covers
    <3> QED BY <1>n, <3>2, <3>3
  <2> QED BY <2>5, <2>6
<1> QED BY <1>1, <1>2, <1>3, <1>4, <1>5, <1>6 DEF BusNext

\* A publication that is answered with success has served everyone who is
\* subscribed by then, also when subscriptions come and go during its handlers and it
\* had to be repeated (communication-bus.ts, publish).
THEOREM SuccessMeansServedHolds == BusSpec => SuccessMeansServed
<1>1. BusInv /\ [BusNext]_busVars =>
      [\A m \in Messages :
        /\ publication[m].attached /\ publication'[m] = None
        /\ attempts'[m] = 0
        => \A s \in ToSet(topic') : m \in processed'[s] \/ s \in deadLetters'[m]]_busVars
  BY BusStep DEF Served
<1>2. BusInv /\ [BusNext]_busVars => BusInv'
  BY BusStep
<1> QED BY <1>1, <1>2, BusInvInit, PTL DEF BusSpec, SuccessMeansServed
-----------------------------------------------------------------------------
(***************************************************************************)
(* The restart budget, for any services, checks, window and ceiling.        *)
(***************************************************************************)
LEMMA DoubledValues ==
    /\ Doubled \in [Nat -> Nat] /\ Doubled[0] = 1
    /\ \A n \in Nat : Doubled[n + 1] = 2 * Doubled[n]
<1>1. PICK F : F = [p \in Nat \X Nat |-> 2 * p[2]]
  OBVIOUS
<1>2. F \in [Nat \X Nat -> Nat] /\ \A n, x \in Nat : F[<<n, x>>] = 2 * x
  BY <1>1
<1>3. PICK f \in [Nat -> Nat] : f[0] = 1 /\ \A n \in Nat : f[n + 1] = F[<<n, f[n]>>]
  <2>1. 1 \in Nat
    OBVIOUS
  <2>2. F \in [Nat \X Nat -> Nat]
    BY <1>2
  <2>3. PICK f : Recurs(f, Nat, 1, F)
    BY <2>1, <2>2, Recursion, Zenon
  <2> QED BY <2>3 DEF Recurs
<1>4. \A n \in Nat : f[n + 1] = 2 * f[n]
  BY <1>2, <1>3
<1>5. \A n \in Nat : n # 0 => f[n] = 2 * f[n - 1]
  <2>1. ASSUME NEW n \in Nat, n # 0 PROVE f[n] = 2 * f[n - 1]
    <3>1. n - 1 \in Nat /\ (n - 1) + 1 = n
      BY <2>1
    <3> QED BY <1>4, <3>1
  <2> QED BY <2>1
<1>6. f = [n \in Nat |-> IF n = 0 THEN 1 ELSE 2 * f[n - 1]]
  BY <1>3, <1>5
<1>7. Doubled = [n \in Nat |-> IF n = 0 THEN 1 ELSE 2 * Doubled[n - 1]]
  BY <1>6, Zenon DEF Doubled
<1>8. /\ Doubled[0] = 1
      /\ \A n \in Nat : Doubled[n + 1] = 2 * Doubled[n]
  <2>1. ASSUME NEW n \in Nat PROVE Doubled[n + 1] = 2 * Doubled[n]
    <3>1. n + 1 \in Nat /\ n + 1 # 0 /\ (n + 1) - 1 = n
      OBVIOUS
    <3> QED BY <1>7, <3>1
  <2> QED BY <1>7, <2>1
<1>9. \A n \in Nat : Doubled[n] \in Nat
  <2>1. PICK P : P = {n \in Nat : Doubled[n] \in Nat}
    OBVIOUS
  <2>2. 0 \in P /\ \A n \in Nat : n \in P => n + 1 \in P
    BY <1>8, <2>1
  <2> QED BY <2>1, <2>2, Induction
<1> QED BY <1>7, <1>8, <1>9

\* A budget that was not exhausted is not by fewer restarts.
LEMMA FewerRestarts ==
    ASSUME NEW n \in Nat, NEW m \in Nat, m <= n, ~ Exhausted(n)
    PROVE  ~ Exhausted(m)
<1>1. \A a \in Nat : \A d \in Nat : Doubled[a] <= Doubled[a + d]
  <2>1. ASSUME NEW a \in Nat PROVE \A d \in Nat : Doubled[a] <= Doubled[a + d]
    <3>1. PICK P : P = {d \in Nat : Doubled[a] <= Doubled[a + d]}
      OBVIOUS
    <3>2. 0 \in P
      BY <3>1, DoubledValues
    <3>3. ASSUME NEW d \in Nat, d \in P PROVE d + 1 \in P
      <4>1. a + d \in Nat /\ a + (d + 1) = (a + d) + 1 /\ d + 1 \in Nat
        OBVIOUS
      <4>2. Doubled[a + (d + 1)] = 2 * Doubled[a + d] /\ Doubled[a + d] \in Nat /\ Doubled[a] \in Nat
        BY <4>1, DoubledValues
      <4> QED BY <3>1, <3>3, <4>1, <4>2
    <3>4. \A d \in Nat : d \in P
      BY <3>2, <3>3, Induction, Zenon
    <3> QED BY <3>1, <3>4
  <2> QED BY <2>1
<1>2. CASE m < MaxImmediate
  BY <1>2, SupervisionAssumption DEF Exhausted
<1>3. CASE m >= MaxImmediate
  <2>1. PICK a \in Nat, b \in Nat, d \in Nat :
           a = m - MaxImmediate + 1 /\ b = n - MaxImmediate + 1 /\ b = a + d
    <3>1. /\ m - MaxImmediate + 1 \in Nat /\ n - MaxImmediate + 1 \in Nat /\ n - m \in Nat
          /\ n - MaxImmediate + 1 = (m - MaxImmediate + 1) + (n - m)
      BY <1>3, SupervisionAssumption
    <3> QED BY <3>1
  <2>2. Doubled[a] <= Doubled[b] /\ Doubled[a] \in Nat /\ Doubled[b] \in Nat
    BY <1>1, <2>1, DoubledValues
  <2>3. n >= MaxImmediate => ~ Doubled[b] > Ceiling
    BY <2>1 DEF Exhausted, Backoff
  <2>4. ~ Doubled[a] > Ceiling
    BY <1>3, <2>2, <2>3, SupervisionAssumption
  <2> QED BY <2>1, <2>4 DEF Exhausted, Backoff
<1> QED BY <1>2, <1>3, SupervisionAssumption

\* What is remembered of a service are all its restarts inside of the window.
Remembered(s) == Kept(begun[s], InWindow) = Kept(restartTimes[s], InWindow)

WithinBudget(s) ==
    LET recent == Len(Kept(begun[s], InWindow))
    IN  recent > 0 => ~ Exhausted(recent - 1)

RestartInv ==
    /\ clock \in 0 .. MaxClock
    /\ restartTimes \in [Services -> Seq(0 .. MaxClock)]
    /\ begun \in [Services -> Seq(0 .. MaxClock)]
    /\ \A s \in Services : Remembered(s) /\ WithinBudget(s)

LEMMA RestartInvInit == SupervisionInit => RestartInv
<1> SUFFICES ASSUME SupervisionInit PROVE RestartInv
  OBVIOUS
<1>1. PICK none \in Seq(0 .. MaxClock) : none = <<>> /\ Len(none) = 0
  BY NoElement, Zenon
<1>2. /\ clock = 0 /\ begun = restartTimes
      /\ restartTimes = [s \in Services |-> none]
  BY <1>1 DEF SupervisionInit
<1>3. clock \in 0 .. MaxClock
  BY <1>2, SupervisionAssumption
<1>4. PICK t : t = Kept(none, InWindow)
  OBVIOUS
<1>5. t \in Seq(0 .. MaxClock) /\ Len(t) <= Len(none)
  BY <1>4, KeptPlaces
<1>6. ~ Len(t) > 0
  BY <1>1, <1>5
<1>7. ASSUME NEW s \in Services PROVE Remembered(s) /\ WithinBudget(s)
  <2>1. begun[s] = none /\ restartTimes[s] = none
    BY <1>2
  <2> QED BY <1>4, <1>6, <2>1 DEF Remembered, WithinBudget
<1> QED BY <1>2, <1>3, <1>7 DEF RestartInv

\* A step after which the clock and the two histories are what they were.
LEMMA RestartInvSame ==
    ASSUME RestartInv, UNCHANGED <<clock, restartTimes, begun>>
    PROVE  RestartInv'
BY DEF RestartInv, Remembered, WithinBudget, InWindow

LEMMA LookInv ==
    ASSUME RestartInv, NEW c \in Checks, Look(c)
    PROVE  RestartInv'
<1> PICK s : s = Head(checkCall[c].todo)
  OBVIOUS
<1>1. clock' = clock
  BY DEF Look
<1>2. InWindow' = InWindow /\ clock \in InWindow
  <2>1. clock >= clock - Window
    BY SupervisionAssumption DEF RestartInv
  <2> QED BY <1>1, <2>1 DEF InWindow, RestartInv
<1>3. ASSUME NEW s2 \in Services
      PROVE  /\ Kept(begun[s2], InWindow) \in Seq(0 .. MaxClock)
             /\ Recent(s2) = Kept(begun[s2], InWindow)
             /\ Kept(Recent(s2), InWindow) = Recent(s2)
  <2>1. begun[s2] \in Seq(0 .. MaxClock) /\ restartTimes[s2] \in Seq(0 .. MaxClock) /\ Remembered(s2)
    BY DEF RestartInv
  <2>2. Kept(begun[s2], InWindow) \in Seq(0 .. MaxClock)
    BY <2>1, KeptPlaces
  <2>3. Kept(Kept(restartTimes[s2], InWindow), InWindow) = Kept(restartTimes[s2], InWindow)
    <3>1. Narrows(InWindow, InWindow, 0 .. MaxClock)
      BY DEF Narrows
    <3> QED BY <2>1, <3>1, KeptWithin
  <2> QED BY <2>1, <2>2, <2>3 DEF Recent, Remembered
<1>4. CASE UNCHANGED <<restartTimes, begun>>
  BY <1>1, <1>4, RestartInvSame
<1>5. CASE restartTimes' = [restartTimes EXCEPT ![s] = Recent(s)] /\ begun' = begun
  <2>1. ASSUME NEW s2 \in Services
        PROVE  /\ restartTimes'[s2] \in Seq(0 .. MaxClock)
               /\ Kept(restartTimes'[s2], InWindow) = Kept(restartTimes[s2], InWindow)
    <3>1. CASE s2 = s
      <4>1. restartTimes'[s2] = Recent(s2)
        BY <1>5, <3>1 DEF RestartInv
      <4> QED BY <1>3, <4>1 DEF Recent
    <3>2. CASE s2 # s
      BY <1>5, <3>2 DEF RestartInv
    <3> QED BY <3>1, <3>2
  <2>2. restartTimes' \in [Services -> Seq(0 .. MaxClock)]
    BY <1>5, <2>1 DEF RestartInv
  <2> QED BY <1>1, <1>2, <1>5, <2>1, <2>2 DEF RestartInv, Remembered, WithinBudget
<1>6. CASE /\ ~ Exhausted(Len(Recent(s)))
           /\ restartTimes' = [restartTimes EXCEPT ![s] = Append(Recent(s), clock)]
           /\ begun' = [begun EXCEPT ![s] = Append(@, clock)]
  <2>1. ASSUME NEW s2 \in Services
        PROVE  /\ restartTimes'[s2] \in Seq(0 .. MaxClock) /\ begun'[s2] \in Seq(0 .. MaxClock)
               /\ Remembered(s2)' /\ WithinBudget(s2)'
    <3>1. CASE s2 # s
      <4>1. restartTimes'[s2] = restartTimes[s2] /\ begun'[s2] = begun[s2]
        BY <1>6, <3>1 DEF RestartInv
      <4> QED BY <1>2, <4>1 DEF RestartInv, Remembered, WithinBudget
    <3>2. CASE s2 = s
      <4>1. PICK kept \in Seq(0 .. MaxClock) :
               kept = Recent(s) /\ kept = Kept(begun[s], InWindow) /\ kept = Kept(kept, InWindow)
        BY <1>3, <3>2
      <4>2. PICK old \in Seq(0 .. MaxClock) : old = begun[s]
        BY <3>2 DEF RestartInv
      <4>3. clock \in 0 .. MaxClock
        BY DEF RestartInv
      <4>4. PICK more : more = Append(kept, clock)
        OBVIOUS
      <4>5. PICK new : new = Append(old, clock)
        OBVIOUS
      <4>6. more \in Seq(0 .. MaxClock) /\ new \in Seq(0 .. MaxClock) /\ Len(more) = Len(kept) + 1
        BY <4>3, <4>4, <4>5, OneMore
      <4>7. restartTimes'[s2] = more /\ begun'[s2] = new
        BY <1>6, <3>2, <4>1, <4>2, <4>4, <4>5 DEF RestartInv
      <4>8. Kept(new, InWindow) = more
        <5>1. clock \in InWindow /\ kept = Kept(old, InWindow)
          BY <1>2, <4>1, <4>2
        <5>2. Adds(new, old, clock)
          BY <4>5 DEF Adds
        <5>3. Adds(Kept(new, InWindow), kept, clock)
          BY <4>3, <5>1, <5>2, KeptMore
        <5> QED BY <4>4, <5>3 DEF Adds
      <4>9. Kept(more, InWindow) = more
        <5>1. clock \in InWindow /\ kept = Kept(kept, InWindow)
          BY <1>2, <4>1
        <5>2. Adds(more, kept, clock)
          BY <4>4 DEF Adds
        <5>3. Adds(Kept(more, InWindow), kept, clock)
          BY <4>3, <5>1, <5>2, KeptMore
        <5> QED BY <4>4, <5>3 DEF Adds
      <4>10. Len(more) - 1 = Len(kept)
        BY <4>6
      <4>11. Remembered(s2)'
        BY <1>2, <4>7, <4>8, <4>9 DEF Remembered
      <4>12. WithinBudget(s2)'
        BY <1>2, <1>6, <4>1, <4>7, <4>8, <4>10 DEF WithinBudget
      <4> QED BY <4>6, <4>7, <4>11, <4>12
    <3> QED BY <3>1, <3>2
  <2>2. /\ restartTimes' \in [Services -> Seq(0 .. MaxClock)]
        /\ begun' \in [Services -> Seq(0 .. MaxClock)]
    BY <1>6, <2>1 DEF RestartInv
  <2> QED BY <1>1, <2>1, <2>2 DEF RestartInv
<1>7. \/ UNCHANGED <<restartTimes, begun>>
      \/ restartTimes' = [restartTimes EXCEPT ![s] = Recent(s)] /\ begun' = begun
      \/ /\ ~ Exhausted(Len(Recent(s)))
         /\ restartTimes' = [restartTimes EXCEPT ![s] = Append(Recent(s), clock)]
         /\ begun' = [begun EXCEPT ![s] = Append(@, clock)]
  BY Zenon DEF Look
<1> QED BY <1>4, <1>5, <1>6, <1>7

\* As time goes on restarts leave the window, and none enters it.
LEMMA ClockTicksInv ==
    ASSUME RestartInv, ClockTicks
    PROVE  RestartInv'
<1>1. /\ clock' = clock + 1 /\ clock < MaxClock
      /\ restartTimes' = restartTimes /\ begun' = begun
  BY DEF ClockTicks
<1>2. clock' \in 0 .. MaxClock
  BY <1>1, SupervisionAssumption DEF RestartInv
<1>3. InWindow' \cap (0 .. MaxClock) \subseteq InWindow
  <2>1. \A t \in 0 .. MaxClock : t >= clock' - Window => t >= clock - Window
    BY <1>1, SupervisionAssumption DEF RestartInv
  <2> QED BY <2>1 DEF InWindow
<1>4. ASSUME NEW s \in Services PROVE Remembered(s)' /\ WithinBudget(s)'
  <2>1. PICK old \in Seq(0 .. MaxClock), known \in Seq(0 .. MaxClock) :
           /\ old = begun[s] /\ known = restartTimes[s]
           /\ old = begun'[s] /\ known = restartTimes'[s]
    BY <1>1 DEF RestartInv
  <2>2. PICK S, T : S = InWindow /\ T = InWindow' /\ Narrows(T, S, 0 .. MaxClock)
    BY <1>3 DEF Narrows
  <2>3. PICK recent \in Seq(0 .. MaxClock) : recent = Kept(old, S) /\ recent = Kept(known, S)
    <3>1. Kept(old, S) = Kept(known, S)
      BY <2>1, <2>2 DEF RestartInv, Remembered
    <3>2. Kept(old, S) \in Seq(0 .. MaxClock)
      BY KeptPlaces
    <3> QED BY <3>1, <3>2
  <2>4. Kept(recent, T) = Kept(old, T) /\ Kept(recent, T) = Kept(known, T)
    <3>2. Kept(Kept(old, S), T) = Kept(old, T) /\ Kept(Kept(known, S), T) = Kept(known, T)
      BY <2>2, KeptWithin
    <3> QED BY <2>3, <3>2
  <2>5. PICK left \in Seq(0 .. MaxClock) : left = Kept(recent, T) /\ Len(left) <= Len(recent)
    BY KeptPlaces
  <2>6. Len(recent) > 0 => ~ Exhausted(Len(recent) - 1)
    BY <2>1, <2>2, <2>3 DEF RestartInv, WithinBudget
  <2>7. Len(left) > 0 => ~ Exhausted(Len(left) - 1)
    <3> SUFFICES ASSUME Len(left) > 0 PROVE ~ Exhausted(Len(left) - 1)
      OBVIOUS
    <3>1. /\ Len(recent) - 1 \in Nat /\ Len(left) - 1 \in Nat /\ Len(left) - 1 <= Len(recent) - 1
          /\ Len(recent) > 0
      BY <2>5
    <3> QED BY <2>6, <3>1, FewerRestarts
  <2>8. Remembered(s)'
    BY <2>1, <2>2, <2>4 DEF Remembered
  <2>9. WithinBudget(s)'
    BY <2>1, <2>2, <2>4, <2>5, <2>7 DEF WithinBudget
  <2> QED BY <2>8, <2>9
<1> QED BY <1>1, <1>2, <1>4 DEF RestartInv

LEMMA RestartInvStep == RestartInv /\ [SupervisionNext]_supervisionVars => RestartInv'
<1> SUFFICES ASSUME RestartInv, [SupervisionNext]_supervisionVars PROVE RestartInv'
  OBVIOUS
<1>1. CASE StartAll \/ Started \/ NotStarted \/ StopAll \/ Stopped
  BY <1>1, RestartInvSame DEF StartAll, Started, NotStarted, StopAll, Stopped
<1>2. CASE ClockTicks
  BY <1>2, ClockTicksInv
<1>3. ASSUME NEW c \in Checks, CheckHeartbeats(c) \/ StoppedForRestart(c) \/ Restarted(c)
      PROVE  RestartInv'
  BY <1>3, RestartInvSame DEF CheckHeartbeats, StoppedForRestart, Restarted
<1>4. ASSUME NEW c \in Checks, Look(c)
      PROVE  RestartInv'
  BY <1>4, LookInv
<1>5. CASE UNCHANGED supervisionVars
  BY <1>5, RestartInvSame DEF supervisionVars
<1> QED BY <1>1, <1>2, <1>3, <1>4, <1>5 DEF SupervisionNext

\* However checkHeartbeats() calls overlap, the restarts of a service that began
\* within one window are the immediate ones and those with a backoff up to the ceiling.
THEOREM RestartsBoundedHolds == SupervisionSpec => []RestartsBounded
<1>1. RestartInv => RestartsBounded
  BY DEF RestartInv, WithinBudget, RestartsBounded
<1> QED BY <1>1, RestartInvInit, RestartInvStep, PTL DEF SupervisionSpec
-----------------------------------------------------------------------------
(***************************************************************************)
(* The replicas of a record, for any replicas, changes, clocks and calls.   *)
(***************************************************************************)
OwnChanges(r) == {c \in changed : Origin[c] = r}

\* Where entries have e, they have d there or before.
NoLater(entries, d, e) ==
    \A j \in 1 .. Len(entries) : entries[j] = e => \E i \in 1 .. j : entries[i] = d

\* Changes with equal clocks, which the sort leaves in the order of the log.
OneCategory == \A c, d \in Changes : Clock[c] = Clock[d] => Priority[c] = Priority[d]

\* A replica shows a newest change of those it has seen, and the latest of them in
\* the log unless one of its own is still to come back.
ShowsNewest(entries, own, s) ==
    /\ own \subseteq Changes /\ s \in ReplicaState
    /\ \A d \in s.applied \cup own : Clock[d] <= s.clock
    /\ \/ s.value = NoChange /\ s.clock = -1 /\ s.applied \cup own = {}
       \/ s.value \in s.applied \cup own /\ Clock[s.value] = s.clock
    /\ OneCategory /\ (\A d \in own \ s.applied : Clock[d] # s.clock)
         => \A d \in s.applied : Clock[d] = s.clock => NoLater(entries, d, s.value)

\* s has applied the first n entries.
HasApplied(s, entries, n) == s.applied = {entries[i] : i \in 1 .. n}

ReplicaInv(r) ==
    /\ checkpoint[r] <= Len(log) /\ HasApplied(StateOf(r), log, checkpoint[r])
    /\ ToSet(waiting[r]) \cup ToSet(flushCall[r]) \subseteq OwnChanges(r)
    /\ ShowsNewest(log, OwnChanges(r), StateOf(r))

SyncInv ==
    /\ SyncTypeOK
    /\ ToSet(log) \subseteq changed
    /\ \A c \in changed : c \in ToSet(log) \cup ToSet(waiting[Origin[c]])
    /\ \A r \in Replicas : ReplicaInv(r)
    /\ \A c \in Syncs : syncCall[c].since <= checkpoint[c[1]] /\ syncCall[c].upto <= Len(log)

\* A change that is new to a replica is not before its equals in the log.
ComesLast(entries, s, c) ==
    OneCategory /\ c \notin s.applied => \A d \in s.applied : Clock[d] = Clock[c] => NoLater(entries, d, c)

\* One change is pulled.
LEMMA PulledOnce ==
    ASSUME NEW entries, NEW own, NEW s, NEW c \in Changes,
           ShowsNewest(entries, own, s), ComesLast(entries, s, c)
    PROVE  /\ ApplyPulled(s, c).applied = s.applied \cup {c}
           /\ ShowsNewest(entries, own, ApplyPulled(s, c))
<1>0. own \subseteq Changes /\ s \in ReplicaState
  BY DEF ShowsNewest
<1>1. CASE c \in s.applied
  BY <1>0, <1>1 DEF ApplyPulled, ReplicaState
<1>2. CASE c \notin s.applied
  <2>1. PICK v \in Changes \cup {NoChange}, k \in Int, a \in SUBSET Changes :
          s = [value |-> v, clock |-> k, applied |-> a]
    BY <1>0 DEF ReplicaState
  <2>2. Clock[c] \in Nat /\ c # NoChange
    BY SyncAssumption
  <2>3. s.value = v /\ s.clock = k /\ s.applied = a
    BY <2>1
  <2>4. CASE Clock[c] >= k
    <3>1. PICK t : t = [value |-> c, clock |-> Clock[c], applied |-> a \cup {c}]
      OBVIOUS
    <3>2. ApplyPulled(s, c) = t
      <4>1. PICK u : u = [value |-> c, clock |-> Clock[c], applied |-> a]
        OBVIOUS
      <4>2. Apply(s, c) = u
        <5>1. PICK w : w = [value |-> c, clock |-> k, applied |-> a]
          OBVIOUS
        <5>2. [s EXCEPT !.value = c] = w
          BY <2>1, <5>1
        <5>3. [w EXCEPT !.clock = Clock[c]] = u
          BY <4>1, <5>1
        <5> QED BY <2>3, <2>4, <5>2, <5>3 DEF Apply
      <4>3. [u EXCEPT !.applied = u.applied \cup {c}] = t
        BY <3>1, <4>1
      <4> QED BY <1>2, <4>2, <4>3 DEF ApplyPulled
    <3>3. t.value = c /\ t.clock = Clock[c] /\ t.applied = a \cup {c} /\ t \in ReplicaState
      BY <2>2, <3>1 DEF ReplicaState
    <3>4. \A d \in t.applied \cup own : Clock[d] <= t.clock
      <4>1. \A d \in Changes : Clock[d] \in Nat
        BY SyncAssumption
      <4> QED BY <1>0, <2>2, <2>3, <2>4, <3>3, <4>1 DEF ShowsNewest
    <3>5. ASSUME OneCategory, NEW d \in t.applied, Clock[d] = t.clock
          PROVE  NoLater(entries, d, t.value)
      <4>1. CASE d = c
        <5>1. NoLater(entries, c, c)
          <6>1. \A j \in 1 .. Len(entries) : j \in 1 .. j
            OBVIOUS
          <6> QED BY <6>1 DEF NoLater
        <5> QED BY <3>3, <4>1, <5>1
      <4>2. CASE d # c
        BY <1>2, <2>3, <3>3, <3>5, <4>2 DEF ComesLast
      <4> QED BY <4>1, <4>2
    <3>6. ShowsNewest(entries, own, t)
      <4>1. t.value \in t.applied \cup own /\ Clock[t.value] = t.clock
        BY <3>3
      <4> QED BY <1>0, <3>3, <3>4, <3>5, <4>1 DEF ShowsNewest
    <3> QED BY <2>3, <3>2, <3>3, <3>6
  <2>5. CASE ~ Clock[c] >= k
    <3>1. PICK t : t = [value |-> v, clock |-> k, applied |-> a \cup {c}]
      OBVIOUS
    <3>2. ApplyPulled(s, c) = t
      BY <1>2, <2>1, <2>3, <2>5, <3>1 DEF ApplyPulled, Apply
    <3>3. t.value = v /\ t.clock = k /\ t.applied = a \cup {c} /\ t \in ReplicaState
      BY <3>1 DEF ReplicaState
    <3>4. \A d \in t.applied \cup own : Clock[d] <= t.clock
      BY <2>2, <2>3, <2>5, <3>3 DEF ShowsNewest
    <3>5. t.value \in t.applied \cup own /\ Clock[t.value] = t.clock
      BY <2>2, <2>3, <2>5, <3>3 DEF ShowsNewest
    <3>6. ASSUME OneCategory, \A d \in own \ t.applied : Clock[d] # t.clock,
                 NEW d \in t.applied, Clock[d] = t.clock
          PROVE  NoLater(entries, d, t.value)
      <4>1. d # c /\ d \in a /\ Clock[d] = k
        BY <2>2, <2>5, <3>3, <3>6
      <4>2. \A e \in own \ a : Clock[e] # k
        BY <2>2, <2>5, <3>3, <3>6
      <4> QED BY <2>3, <3>3, <3>6, <4>1, <4>2 DEF ShowsNewest
    <3> QED BY <1>0, <2>3, <3>2, <3>3, <3>4, <3>5, <3>6 DEF ShowsNewest
  <2> QED BY <2>4, <2>5
<1> QED BY <1>1, <1>2

\* f has the places of the elements of t in p, by the categories and the clocks.
Arranges(t, p, n, f) ==
    /\ f \in [1 .. n -> 1 .. n] /\ t = [k \in 1 .. n |-> p[f[k]]]
    /\ \A i \in 1 .. n : \E k \in 1 .. n : f[k] = i
    /\ \A k, l \in 1 .. n :
         k < l /\ Priority[t[k]] = Priority[t[l]] /\ Clock[t[k]] = Clock[t[l]] => f[k] <= f[l]

LEMMA SortedPlaces ==
    ASSUME NEW n \in Nat, NEW p \in [1 .. n -> Changes]
    PROVE  /\ Sorted(p) \in [1 .. n -> Changes] /\ Sorted(p) \in Seq(Changes) /\ Len(Sorted(p)) = n
           /\ \E f : Arranges(Sorted(p), p, n, f)
<1>1. p \in Seq(Changes) /\ Len(p) = n /\ DOMAIN p = 1 .. n
  OBVIOUS
<1>2. PICK first \in [1 .. n -> Nat], second \in [1 .. n -> Nat] :
        first = [i \in 1 .. n |-> Priority[p[i]]] /\ second = [i \in 1 .. n |-> Clock[p[i]]]
  BY SyncAssumption
<1>3. PICK R : R = {q \in (DOMAIN p) \X (DOMAIN p) : GoesFirst(p, q[1], q[2])}
  OBVIOUS
<1>4. \A i, j \in 1 .. n : <<i, j>> \in R <=> NotAfter(first, second, i, j)
  <2>1. ASSUME NEW i \in 1 .. n, NEW j \in 1 .. n
        PROVE  GoesFirst(p, i, j) <=> NotAfter(first, second, i, j)
    BY <1>2 DEF NotAfter, GoesFirst
  <2>2. \A i, j \in 1 .. n : <<i, j>> \in R <=> GoesFirst(p, i, j)
    BY <1>1, <1>3
  <2> QED BY <2>1, <2>2, Zenon
<1>5. Orders(R, DOMAIN p)
  <2>1. Orders(R, 1 .. n)
    BY <1>4, NumbersOrder, Zenon
  <2> QED BY <1>1, <2>1
<1>6. PICK t \in Seq(Changes) : t = Arranged(p, R) /\ t = Sorted(p) /\ Len(t) = n
  <2>1. Sorted(p) = Arranged(p, R)
    BY <1>3, Zenon DEF Sorted
  <2> QED BY <1>1, <1>5, <2>1, ArrangedPlaces
<1>7. PICK f \in [DOMAIN p -> DOMAIN p] :
        /\ Arranged(p, R) = [k \in DOMAIN p |-> p[f[k]]]
        /\ \A i \in DOMAIN p : \E k \in DOMAIN p : f[k] = i
        /\ \A k, l \in DOMAIN p : k < l => <<f[k], f[l]>> \in R
  BY <1>1, <1>5, ArrangedPlaces, Zenon
<1>8. ASSUME NEW k \in 1 .. n, NEW l \in 1 .. n, k < l, Priority[t[k]] = Priority[t[l]], Clock[t[k]] = Clock[t[l]]
      PROVE  f[k] <= f[l]
  <2>1. <<f[k], f[l]>> \in R /\ f[k] \in 1 .. n /\ f[l] \in 1 .. n
    BY <1>1, <1>7, <1>8
  <2>2. NotAfter(first, second, f[k], f[l])
    BY <1>4, <2>1, Zenon
  <2>3. PICK x \in 1 .. n, y \in 1 .. n : x = f[k] /\ y = f[l]
    BY <2>1
  <2>4. t[k] = p[x] /\ t[l] = p[y]
    <3>1. t = [m \in 1 .. n |-> p[f[m]]]
      BY <1>1, <1>6, <1>7
    <3> QED BY <2>3, <3>1
  <2>5. first[x] = first[y] /\ second[x] = second[y] /\ first[x] \in Nat /\ second[x] \in Nat
    BY <1>2, <1>8, <2>4
  <2>6. NotAfter(first, second, x, y)
    BY <2>2, <2>3
  <2>7. x <= y
    <3>1. \A a, b \in Nat : a = b => ~ a < b
      OBVIOUS
    <3>2. ~ first[x] < first[y] /\ ~ second[x] < second[y]
      BY <1>2, <2>5, <3>1, Zenon
    <3> QED BY <2>6, <3>2, Zenon DEF NotAfter
  <2> QED BY <2>3, <2>7
<1>9. Arranges(t, p, n, f)
  BY <1>1, <1>6, <1>7, <1>8 DEF Arranges
<1> QED BY <1>6, <1>9

IsLog(entries, n) == entries \in Seq(Changes) /\ Len(entries) = n

\* p are the entries after the first n, up to the one with number m.
Between(p, entries, n, m) == p = [i \in 1 .. m - n |-> entries[n + i]]

\* An answer is applied: what lies between the checkpoint and its clock.
LEMMA PulledAll ==
    ASSUME NEW length \in Nat, NEW entries, IsLog(entries, length), NEW own, NEW s,
           NEW since \in Nat, NEW from \in Nat, NEW upto \in Nat,
           since <= from, from <= upto, upto <= length,
           HasApplied(s, entries, from), ShowsNewest(entries, own, s),
           NEW p, Between(p, entries, since, upto)
    PROVE  /\ HasApplied(AllPulled(s, Sorted(p)), entries, upto)
           /\ ShowsNewest(entries, own, AllPulled(s, Sorted(p)))
<1>1. PICK n \in Nat : n = upto - since
  OBVIOUS
<1>2. length = Len(entries) /\ \A i \in 1 .. length : entries[i] \in Changes
  BY DEF IsLog
<1>3. p \in [1 .. n -> Changes]
  <2>1. \A i \in 1 .. n : since + i \in 1 .. length
    BY <1>1, <1>2
  <2> QED BY <1>1, <1>2, <2>1 DEF Between
<1>a. p = [i \in 1 .. n |-> entries[since + i]] /\ s.applied = {entries[i] : i \in 1 .. from}
  BY <1>1 DEF Between, HasApplied
<1>4. PICK t : t = Sorted(p) /\ t \in Seq(Changes) /\ Len(t) = n /\ t \in [1 .. n -> Changes]
  <2>1. Sorted(p) \in [1 .. n -> Changes] /\ Sorted(p) \in Seq(Changes) /\ Len(Sorted(p)) = n
    BY <1>3, SortedPlaces
  <2> QED BY <2>1
<1>5. PICK f : Arranges(t, p, n, f)
  BY <1>3, <1>4, SortedPlaces
<1>6. /\ \A k \in 1 .. n : f[k] \in 1 .. n /\ t[k] = p[f[k]]
      /\ \A i \in 1 .. n : \E k \in 1 .. n : f[k] = i
      /\ \A k, l \in 1 .. n :
           k < l /\ Priority[t[k]] = Priority[t[l]] /\ Clock[t[k]] = Clock[t[l]] => f[k] <= f[l]
  BY <1>5 DEF Arranges
<1>7. PICK F : F = [q \in ReplicaState \X Changes |-> ApplyPulled(q[1], q[2])]
  OBVIOUS
<1>8. F \in [ReplicaState \X Changes -> ReplicaState]
  <2>1. ASSUME NEW x \in ReplicaState, NEW c \in Changes PROVE ApplyPulled(x, c) \in ReplicaState
    <3>1. Clock[c] \in Int
      BY SyncAssumption
    <3> QED BY <3>1 DEF ApplyPulled, Apply, ReplicaState
  <2> QED BY <1>7, <2>1
<1>9. PICK g : g = Accumulated(F, s, t)
  OBVIOUS
<1>10. Passes(g, ReplicaState, F, s, t)
  <2>1. s \in ReplicaState
    BY DEF ShowsNewest
  <2> QED BY <1>4, <1>8, <1>9, <2>1, Accumulates
<1>11. AllPulled(s, t) = g[n]
  BY <1>4, <1>7, <1>9 DEF AllPulled, Reduced
<1>12. ASSUME NEW k \in 0 .. n - 1,
             g[k].applied = s.applied \cup {t[l] : l \in 1 .. k}, ShowsNewest(entries, own, g[k])
      PROVE  /\ g[k + 1].applied = s.applied \cup {t[l] : l \in 1 .. k + 1}
             /\ ShowsNewest(entries, own, g[k + 1])
  <2>1. k + 1 \in 1 .. n /\ k \in 0 .. n /\ (k + 1) - 1 = k
    OBVIOUS
  <2>2. PICK c \in Changes : c = t[k + 1]
    BY <1>4, <2>1
  <2>3. PICK x \in ReplicaState : x = g[k]
    BY <1>12 DEF ShowsNewest
  <2>4. g[k + 1] = ApplyPulled(x, c)
    <3>1. g[k + 1] = F[<<x, c>>]
      BY <1>4, <1>10, <2>1, <2>2, <2>3 DEF Passes
    <3> QED BY <1>7, <3>1
  <2>5. ASSUME OneCategory, c \notin x.applied, NEW d \in x.applied, Clock[d] = Clock[c]
        PROVE  NoLater(entries, d, c)
    <3> SUFFICES ASSUME NEW j \in 1 .. length, entries[j] = c
                 PROVE  \E i \in 1 .. j : entries[i] = d
      BY <1>2 DEF NoLater
    <3>1. j > from
      <4>1. s.applied \subseteq x.applied
        BY <1>12, <2>3
      <4>2. c \notin {entries[i] : i \in 1 .. from}
        BY <1>a, <2>5, <4>1
      <4> QED BY <4>2
    <3>2. CASE d \in s.applied
      <4>1. PICK i \in 1 .. from : entries[i] = d
        BY <1>a, <3>2
      <4>2. i \in 1 .. j
        BY <3>1
      <4> QED BY <4>1, <4>2
    <3>3. CASE d \notin s.applied
      <4>1. PICK l \in 1 .. k : t[l] = d
        BY <1>12, <2>3, <2>5, <3>3
      <4>2. l \in 1 .. n
        BY <2>1, <4>1
      <4>3. PICK a \in 1 .. n : a = f[l] /\ p[a] = d
        BY <1>6, <4>1, <4>2
      <4>4. entries[since + a] = d
        BY <1>1, <1>a, <4>3
      <4>5. CASE j <= upto
        <5>1. PICK b \in 1 .. n : j = since + b
          <6>1. j - since \in 1 .. n /\ j = since + (j - since)
            BY <1>1, <3>1, <4>5
          <6> QED BY <6>1
        <5>2. p[b] = c
          BY <1>1, <1>a, <5>1
        <5>3. PICK m \in 1 .. n : f[m] = b
          BY <1>6
        <5>4. t[m] = c
          BY <1>6, <5>2, <5>3
        <5>5. ~ m <= k
          <6>1. \A m2 \in 1 .. k : t[m2] # c
            BY <1>12, <2>3, <2>5
          <6> QED BY <2>1, <5>4, <6>1
        <5>6. l < m
          BY <2>1, <4>2, <5>5
        <5>7. Priority[d] = Priority[c] /\ d \in Changes
          <6>1. d \in Changes
            BY <1>4, <4>1, <4>2
          <6> QED BY <2>5, <6>1 DEF OneCategory
        <5>8. a <= b
          BY <1>6, <2>5, <4>1, <4>2, <4>3, <5>3, <5>4, <5>6, <5>7
        <5>9. since + a \in 1 .. j
          BY <5>1, <5>8
        <5> QED BY <4>4, <5>9
      <4>6. CASE ~ j <= upto
        <5>1. since + a \in 1 .. j
          BY <1>1, <4>3, <4>6
        <5> QED BY <4>4, <5>1
      <4> QED BY <4>5, <4>6
    <3> QED BY <3>2, <3>3
  <2>6. g[k + 1].applied = x.applied \cup {c} /\ ShowsNewest(entries, own, g[k + 1])
    <3>1. ShowsNewest(entries, own, x)
      BY <1>12, <2>3
    <3>2. ComesLast(entries, x, c)
      BY <2>5 DEF ComesLast
    <3>3. ApplyPulled(x, c).applied = x.applied \cup {c} /\ ShowsNewest(entries, own, ApplyPulled(x, c))
      BY <3>1, <3>2, PulledOnce
    <3> QED BY <2>4, <3>3
  <2>7. {t[l] : l \in 1 .. k + 1} = {t[l] : l \in 1 .. k} \cup {c}
    <3>1. \A l \in 1 .. k + 1 : l = k + 1 \/ l \in 1 .. k
      BY <2>1
    <3>2. \A l \in 1 .. k : l \in 1 .. k + 1
      BY <2>1
    <3>3. k + 1 \in 1 .. k + 1
      BY <2>1
    <3> QED BY <2>2, <3>1, <3>2, <3>3
  <2> QED BY <1>12, <2>3, <2>6, <2>7
<1>13. \A k \in Nat : k <= n =>
          g[k].applied = s.applied \cup {t[l] : l \in 1 .. k} /\ ShowsNewest(entries, own, g[k])
  <2>1. PICK P : P = {k \in Nat : k <= n =>
                        /\ g[k].applied = s.applied \cup {t[l] : l \in 1 .. k}
                        /\ ShowsNewest(entries, own, g[k])}
    OBVIOUS
  <2>2. 0 \in P
    <3>1. g[0] = s
      BY <1>10 DEF Passes
    <3>2. {t[l] : l \in 1 .. 0} = {}
      OBVIOUS
    <3> QED BY <2>1, <3>1, <3>2
  <2>3. ASSUME NEW k \in Nat, k \in P PROVE k + 1 \in P
    <3>1. CASE k + 1 <= n
      <4>1. k \in 0 .. n - 1 /\ k <= n /\ k + 1 \in Nat
        BY <3>1
      <4> QED BY <1>12, <2>1, <2>3, <4>1
    <3>2. CASE ~ k + 1 <= n
      BY <2>1, <3>2
    <3> QED BY <3>1, <3>2
  <2>4. \A k \in Nat : k \in P
    BY <2>2, <2>3, Induction
  <2> QED BY <2>1, <2>4
<1>14. s.applied \cup {t[l] : l \in 1 .. n} = {entries[i] : i \in 1 .. upto}
  <2>1. ASSUME NEW l \in 1 .. n PROVE t[l] \in {entries[i] : i \in 1 .. upto}
    <3>1. PICK a \in 1 .. n : a = f[l] /\ t[l] = p[a]
      BY <1>6
    <3>2. since + a \in 1 .. upto /\ t[l] = entries[since + a]
      BY <1>1, <1>a, <3>1
    <3> QED BY <3>2
  <2>2. ASSUME NEW i \in 1 .. upto, i \notin 1 .. from PROVE entries[i] \in {t[l] : l \in 1 .. n}
    <3>1. PICK b \in 1 .. n : i = since + b
      <4>1. i - since \in 1 .. n /\ i = since + (i - since)
        BY <1>1, <2>2
      <4> QED BY <4>1
    <3>2. PICK k \in 1 .. n : f[k] = b
      BY <1>6
    <3>3. t[k] = entries[i]
      BY <1>1, <1>a, <1>6, <3>1, <3>2
    <3> QED BY <3>3
  <2>3. \A i \in 1 .. from : i \in 1 .. upto
    OBVIOUS
  <2> QED BY <1>a, <2>1, <2>2, <2>3
<1>15. g[n].applied = s.applied \cup {t[l] : l \in 1 .. n} /\ ShowsNewest(entries, own, g[n])
  BY <1>13
<1>16. AllPulled(s, Sorted(p)) = g[n]
  BY <1>4, <1>11, Zenon
<1>17. HasApplied(g[n], entries, upto) /\ ShowsNewest(entries, own, g[n])
  BY <1>14, <1>15 DEF HasApplied
<1> QED BY <1>16, <1>17, Zenon

LEMMA SyncInvInit == SyncInit => SyncInv
<1> SUFFICES ASSUME SyncInit PROVE SyncInv
  OBVIOUS
<1>1. PICK none \in Seq(Changes) : none = <<>> /\ Len(none) = 0 /\ DOMAIN none = {}
  BY NoElement, Zenon
<1>2. /\ log = none /\ waiting = [r \in Replicas |-> none] /\ flushCall = [r \in Replicas |-> none]
      /\ field = [r \in Replicas |-> NoChange] /\ fieldClock = [r \in Replicas |-> -1]
      /\ applied = [r \in Replicas |-> {}] /\ checkpoint = [r \in Replicas |-> 0]
      /\ changed = {} /\ syncCall = [c \in Syncs |-> NoSync] /\ lost = 0
  BY <1>1 DEF SyncInit
<1>3. ToSet(none) = {}
  BY <1>1 DEF ToSet
<1>4. NoSync \in [at : {"idle", "asked", "answered"}, since : Nat, upto : Nat]
      /\ NoSync.since = 0 /\ NoSync.upto = 0
  BY DEF NoSync
<1>5. SyncTypeOK
  <2>1. 0 \in 0 .. MaxLost
    BY SyncAssumption
  <2> QED BY <1>2, <1>4, <2>1 DEF SyncTypeOK
<1>6. ASSUME NEW r \in Replicas PROVE ReplicaInv(r)
  <2>1. checkpoint[r] = 0 /\ applied[r] = {} /\ waiting[r] = none /\ flushCall[r] = none
    BY <1>2
  <2>2. OwnChanges(r) = {}
    BY <1>2 DEF OwnChanges
  <2>3. PICK s : s = StateOf(r)
    OBVIOUS
  <2>4. s = [value |-> NoChange, clock |-> -1, applied |-> {}]
    BY <1>2, <2>3 DEF StateOf
  <2>5. s \in ReplicaState /\ s.value = NoChange /\ s.clock = -1 /\ s.applied = {}
    BY <2>4 DEF ReplicaState
  <2>6. ShowsNewest(log, {}, s)
    BY <2>5 DEF ShowsNewest
  <2>7. {log[n] : n \in 1 .. 0} = {}
    OBVIOUS
  <2>8. checkpoint[r] <= Len(log)
    BY <1>1, <1>2, <2>1
  <2>9. HasApplied(s, log, 0)
    BY <2>5, <2>7 DEF HasApplied
  <2>10. ToSet(waiting[r]) \cup ToSet(flushCall[r]) = {}
    BY <1>3, <2>1
  <2> QED BY <2>1, <2>2, <2>3, <2>6, <2>8, <2>9, <2>10 DEF ReplicaInv
<1>7. ToSet(log) \subseteq changed /\ \A c \in changed : c \in ToSet(log) \cup ToSet(waiting[Origin[c]])
  BY <1>2, <1>3
<1>8. \A c \in Syncs : syncCall[c].since <= checkpoint[c[1]] /\ syncCall[c].upto <= Len(log)
  <2>1. ASSUME NEW c \in Syncs PROVE syncCall[c].since <= checkpoint[c[1]] /\ syncCall[c].upto <= Len(log)
    <3>1. syncCall[c] = NoSync /\ checkpoint[c[1]] = 0 /\ Len(log) = 0
      BY <1>1, <1>2, SyncAssumption
    <3> QED BY <1>4, <3>1
  <2> QED BY <2>1
<1> QED BY <1>5, <1>6, <1>7, <1>8 DEF SyncInv

\* The log grows at its end.
LEMMA LogGrows ==
    ASSUME NEW X, NEW s \in Seq(X), NEW t \in Seq(X), NEW r, r = s \o t
    PROVE  /\ r \in Seq(X) /\ Len(r) >= Len(s)
           /\ \A i \in 1 .. Len(s) : r[i] = s[i]
<1>1. r \in Seq(X) /\ Joins(r, s, t)
  BY Joined, Zenon
<1>2. Len(s) \in Nat /\ Len(t) \in Nat
  OBVIOUS
<1> QED BY <1>1, <1>2 DEF Joins

\* r has what s and t have.
HoldsBoth(r, s, t) == ToSet(r) = ToSet(s) \cup ToSet(t)

LEMMA LogHolds ==
    ASSUME NEW X, NEW s \in Seq(X), NEW t \in Seq(X), NEW r, r = s \o t
    PROVE  HoldsBoth(r, s, t)
<1>1. ToSet(s \o t) = ToSet(s) \cup ToSet(t)
  BY JoinedSet, Zenon
<1> QED BY <1>1 DEF HoldsBoth

\* Where the log has e already, it goes on to have d before it.
LEMMA StillNoLater ==
    ASSUME NEW s \in Seq(Changes), NEW r \in Seq(Changes), Len(r) >= Len(s),
           \A i \in 1 .. Len(s) : r[i] = s[i],
           NEW d, NEW e \in ToSet(s), NoLater(s, d, e)
    PROVE  NoLater(r, d, e)
<1>1. PICK n \in Nat, m \in Nat : n = Len(s) /\ m = Len(r) /\ DOMAIN s = 1 .. n /\ n <= m
  OBVIOUS
<1>2. PICK k \in 1 .. n : s[k] = e
  BY <1>1 DEF ToSet
<1> SUFFICES ASSUME NEW j \in 1 .. m, r[j] = e PROVE \E i \in 1 .. j : r[i] = d
  BY <1>1 DEF NoLater
<1>3. CASE j <= n
  <2>1. j \in 1 .. n /\ s[j] = e
    BY <1>1, <1>3
  <2>2. PICK i \in 1 .. j : s[i] = d
    BY <1>1, <2>1 DEF NoLater
  <2>3. i \in 1 .. n
    BY <2>1, <2>2
  <2> QED BY <1>1, <2>2, <2>3
<1>4. CASE ~ j <= n
  <2>1. PICK i \in 1 .. k : s[i] = d
    BY <1>1, <1>2 DEF NoLater
  <2>2. i \in 1 .. n /\ i \in 1 .. j
    BY <1>2, <1>4, <2>1
  <2> QED BY <1>1, <2>1, <2>2
<1> QED BY <1>3, <1>4

\* What a replica has applied and shows stays right as the log grows.
LEMMA StillShows ==
    ASSUME NEW s \in Seq(Changes), NEW r \in Seq(Changes), Len(r) >= Len(s),
           \A i \in 1 .. Len(s) : r[i] = s[i],
           NEW own, NEW state, NEW n \in Nat, n <= Len(s),
           ShowsNewest(s, own, state), HasApplied(state, s, n)
    PROVE  ShowsNewest(r, own, state) /\ HasApplied(state, r, n)
<1>1. \A i \in 1 .. n : i \in 1 .. Len(s) /\ r[i] = s[i]
  OBVIOUS
<1>2. HasApplied(state, r, n)
  BY <1>1 DEF HasApplied
<1>3. state.applied \subseteq ToSet(s)
  BY <1>1 DEF HasApplied, ToSet
<1>4. ASSUME OneCategory, \A d \in own \ state.applied : Clock[d] # state.clock,
             NEW d \in state.applied, Clock[d] = state.clock
      PROVE  NoLater(r, d, state.value)
  <2>1. state.value \in state.applied
    BY <1>4 DEF ShowsNewest
  <2>2. NoLater(s, d, state.value)
    BY <1>4 DEF ShowsNewest
  <2> QED BY <1>3, <2>1, <2>2, StillNoLater
<1>5. ShowsNewest(r, own, state)
  BY <1>4 DEF ShowsNewest
<1> QED BY <1>2, <1>5

\* A replica applies a change of its own.
LEMMA AppliedLocally ==
    ASSUME NEW entries, NEW own, NEW s, NEW c \in Changes, ShowsNewest(entries, own, s), c \notin s.applied
    PROVE  Apply(s, c).applied = s.applied /\ ShowsNewest(entries, own \cup {c}, Apply(s, c))
<1>0. own \subseteq Changes /\ s \in ReplicaState
  BY DEF ShowsNewest
<1>1. PICK v \in Changes \cup {NoChange}, k \in Int, a \in SUBSET Changes :
        s = [value |-> v, clock |-> k, applied |-> a]
  BY <1>0 DEF ReplicaState
<1>2. Clock[c] \in Nat /\ c # NoChange /\ \A d \in Changes : Clock[d] \in Nat
  BY SyncAssumption
<1>3. s.value = v /\ s.clock = k /\ s.applied = a
  BY <1>1
<1>4. CASE Clock[c] >= k
  <2>1. PICK t : t = [value |-> c, clock |-> Clock[c], applied |-> a]
    OBVIOUS
  <2>2. Apply(s, c) = t
    <3>1. PICK w : w = [value |-> c, clock |-> k, applied |-> a]
      OBVIOUS
    <3>2. [s EXCEPT !.value = c] = w
      BY <1>1, <3>1
    <3>3. [w EXCEPT !.clock = Clock[c]] = t
      BY <2>1, <3>1
    <3> QED BY <1>3, <1>4, <3>2, <3>3 DEF Apply
  <2>3. t.value = c /\ t.clock = Clock[c] /\ t.applied = a /\ t \in ReplicaState
    BY <1>2, <2>1 DEF ReplicaState
  <2>4. \A d \in t.applied \cup (own \cup {c}) : Clock[d] <= t.clock
    BY <1>0, <1>2, <1>3, <1>4, <2>3 DEF ShowsNewest
  <2>5. t.value \in t.applied \cup (own \cup {c}) /\ Clock[t.value] = t.clock
    BY <2>3
  <2>6. c \in (own \cup {c}) \ t.applied /\ Clock[c] = t.clock
    BY <1>3, <2>3
  <2>7. ShowsNewest(entries, own \cup {c}, t)
    BY <1>0, <2>3, <2>4, <2>5, <2>6 DEF ShowsNewest
  <2> QED BY <1>3, <2>2, <2>3, <2>7
<1>5. CASE ~ Clock[c] >= k
  <2>1. Apply(s, c) = s
    BY <1>3, <1>5 DEF Apply
  <2>2. \A d \in s.applied \cup (own \cup {c}) : Clock[d] <= s.clock
    BY <1>2, <1>3, <1>5 DEF ShowsNewest
  <2>3. s.value \in s.applied \cup (own \cup {c}) /\ Clock[s.value] = s.clock
    BY <1>2, <1>3, <1>5 DEF ShowsNewest
  <2>4. ASSUME OneCategory, \A d \in (own \cup {c}) \ s.applied : Clock[d] # s.clock,
               NEW d \in s.applied, Clock[d] = s.clock
        PROVE  NoLater(entries, d, s.value)
    BY <2>4 DEF ShowsNewest
  <2>5. ShowsNewest(entries, own \cup {c}, s)
    BY <1>0, <2>2, <2>3, <2>4 DEF ShowsNewest
  <2> QED BY <2>1, <2>5
<1> QED BY <1>4, <1>5

LEMMA BecomeStep ==
    ASSUME SyncTypeOK, NEW r \in Replicas, NEW s \in ReplicaState, Become(r, s)
    PROVE  /\ StateOf(r)' = s /\ \A q \in Replicas : q # r => StateOf(q)' = StateOf(q)
           /\ field' \in [Replicas -> Changes \cup {NoChange}]
           /\ fieldClock' \in [Replicas -> Int] /\ applied' \in [Replicas -> SUBSET Changes]
<1>1. /\ field \in [Replicas -> Changes \cup {NoChange}]
      /\ fieldClock \in [Replicas -> Int] /\ applied \in [Replicas -> SUBSET Changes]
  BY DEF SyncTypeOK
<1>2. s.value \in Changes \cup {NoChange} /\ s.clock \in Int /\ s.applied \in SUBSET Changes
      /\ s = [value |-> s.value, clock |-> s.clock, applied |-> s.applied]
  BY DEF ReplicaState
<1>3. /\ field' = [field EXCEPT ![r] = s.value]
      /\ fieldClock' = [fieldClock EXCEPT ![r] = s.clock]
      /\ applied' = [applied EXCEPT ![r] = s.applied]
  BY DEF Become
<1>4. field'[r] = s.value /\ fieldClock'[r] = s.clock /\ applied'[r] = s.applied
  BY <1>1, <1>3
<1>5. StateOf(r)' = s
  BY <1>2, <1>4 DEF StateOf
<1>6. ASSUME NEW q \in Replicas, q # r PROVE StateOf(q)' = StateOf(q)
  <2>1. field'[q] = field[q] /\ fieldClock'[q] = fieldClock[q] /\ applied'[q] = applied[q]
    BY <1>1, <1>3, <1>6
  <2> QED BY <2>1 DEF StateOf
<1> QED BY <1>1, <1>2, <1>3, <1>5, <1>6

\* What an action leaves alone of a replica.
LEMMA ReplicaSame ==
    ASSUME NEW r \in Replicas, ReplicaInv(r), log' = log, OwnChanges(r)' = OwnChanges(r),
           StateOf(r)' = StateOf(r), checkpoint'[r] = checkpoint[r],
           waiting'[r] = waiting[r], flushCall'[r] = flushCall[r]
    PROVE  ReplicaInv(r)'
BY DEF ReplicaInv

LEMMA ApplyLocalStep ==
    ASSUME SyncInv, NEW c \in Changes, ApplyLocal(c)
    PROVE  SyncInv'
<1>1. PICK o \in Replicas : o = Origin[c]
  BY SyncAssumption
<1>2. PICK w \in Seq(Changes) : w = waiting[o]
  BY DEF SyncInv, SyncTypeOK
<1>3. PICK v : v = Append(w, c)
  OBVIOUS
<1>4. v \in Seq(Changes) /\ ToSet(v) = ToSet(w) \cup {c}
  BY <1>3, OneAdded
<1>5. /\ c \notin changed /\ changed' = changed \cup {c} /\ Become(o, Apply(StateOf(o), c))
      /\ waiting' = [waiting EXCEPT ![o] = v]
      /\ UNCHANGED <<log, checkpoint, syncCall, flushCall, lost>>
  BY <1>1, <1>2, <1>3 DEF ApplyLocal
<1>6. waiting' \in [Replicas -> Seq(Changes)] /\ waiting'[o] = v
      /\ \A q \in Replicas : q # o => waiting'[q] = waiting[q]
  BY <1>4, <1>5 DEF SyncInv, SyncTypeOK
<1>7. /\ SyncTypeOK /\ ToSet(log) \subseteq changed /\ \A q \in Replicas : ReplicaInv(q)
      /\ log \in Seq(Changes) /\ checkpoint \in [Replicas -> Nat]
  BY DEF SyncInv, SyncTypeOK
<1>8. c \notin StateOf(o).applied
  <2>1. HasApplied(StateOf(o), log, checkpoint[o]) /\ checkpoint[o] <= Len(log) /\ checkpoint[o] \in Nat
    BY <1>7 DEF ReplicaInv
  <2>2. \A i \in 1 .. checkpoint[o] : i \in DOMAIN log
    BY <1>7, <2>1
  <2>3. StateOf(o).applied \subseteq ToSet(log)
    BY <2>1, <2>2 DEF HasApplied, ToSet
  <2> QED BY <1>5, <1>7, <2>3
<1>9. PICK s : s = Apply(StateOf(o), c)
  OBVIOUS
<1>10. s.applied = StateOf(o).applied /\ ShowsNewest(log, OwnChanges(o) \cup {c}, s)
  <2>1. ShowsNewest(log, OwnChanges(o), StateOf(o))
    BY <1>7 DEF ReplicaInv
  <2> QED BY <1>8, <1>9, <2>1, AppliedLocally
<1>11. s \in ReplicaState
  BY <1>10 DEF ShowsNewest
<1>12. /\ StateOf(o)' = s /\ \A q \in Replicas : q # o => StateOf(q)' = StateOf(q)
       /\ field' \in [Replicas -> Changes \cup {NoChange}]
       /\ fieldClock' \in [Replicas -> Int] /\ applied' \in [Replicas -> SUBSET Changes]
  BY <1>5, <1>7, <1>9, <1>11, BecomeStep
<1>13. SyncTypeOK'
  BY <1>5, <1>6, <1>7, <1>12 DEF SyncTypeOK
<1>14. OwnChanges(o)' = OwnChanges(o) \cup {c} /\ \A q \in Replicas : q # o => OwnChanges(q)' = OwnChanges(q)
  BY <1>1, <1>5 DEF OwnChanges
<1>15. ReplicaInv(o)'
  <2>1. ToSet(v) \cup ToSet(flushCall[o]) \subseteq OwnChanges(o) \cup {c}
    BY <1>2, <1>4, <1>7 DEF ReplicaInv
  <2>2. HasApplied(s, log, checkpoint[o]) /\ checkpoint[o] <= Len(log)
    BY <1>7, <1>10 DEF ReplicaInv, HasApplied
  <2> QED BY <1>5, <1>6, <1>10, <1>12, <1>14, <2>1, <2>2 DEF ReplicaInv
<1>16. ASSUME NEW q \in Replicas, q # o PROVE ReplicaInv(q)'
  <2>1. /\ OwnChanges(q)' = OwnChanges(q) /\ StateOf(q)' = StateOf(q) /\ checkpoint'[q] = checkpoint[q]
        /\ waiting'[q] = waiting[q] /\ flushCall'[q] = flushCall[q] /\ log' = log /\ ReplicaInv(q)
    BY <1>5, <1>6, <1>7, <1>12, <1>14, <1>16
  <2> QED BY <2>1, ReplicaSame
<1>17. \A d \in changed' : d \in ToSet(log') \cup ToSet(waiting'[Origin[d]])
  <2>1. ASSUME NEW d \in changed', d # c PROVE d \in ToSet(log') \cup ToSet(waiting'[Origin[d]])
    <3>1. d \in ToSet(log) \cup ToSet(waiting[Origin[d]]) /\ Origin[d] \in Replicas
      BY <1>5, <1>7, <2>1, SyncAssumption DEF SyncInv, SyncTypeOK
    <3> QED BY <1>2, <1>4, <1>5, <1>6, <3>1
  <2>2. c \in ToSet(waiting'[Origin[c]])
    BY <1>1, <1>4, <1>6
  <2> QED BY <2>1, <2>2
<1> QED BY <1>5, <1>7, <1>13, <1>15, <1>16, <1>17 DEF SyncInv

\* The broker appends a batch, whether its answer arrives or not.
LEMMA AppendStep ==
    ASSUME SyncInv, NEW r \in Replicas, log' = log \o flushCall[r],
           NEW q \in Replicas, UNCHANGED <<field, fieldClock, applied, checkpoint, changed>>,
           ToSet(waiting'[q]) \subseteq ToSet(waiting[q]), ToSet(flushCall'[q]) \subseteq ToSet(flushCall[q])
    PROVE  ReplicaInv(q)'
<1>1. PICK s \in Seq(Changes), t \in Seq(Changes) : s = log /\ t = flushCall[r]
  BY DEF SyncInv, SyncTypeOK
<1>2. PICK u : u = log' /\ u = s \o t
  BY <1>1
<1>3. u \in Seq(Changes) /\ Len(u) >= Len(s) /\ \A i \in 1 .. Len(s) : u[i] = s[i]
  BY <1>2, LogGrows
<1>4. PICK n \in Nat : n = checkpoint[q] /\ n = checkpoint'[q]
  BY DEF SyncInv, SyncTypeOK
<1>5. PICK own, state : /\ own = OwnChanges(q) /\ own = OwnChanges(q)'
                        /\ state = StateOf(q) /\ state = StateOf(q)'
  BY DEF OwnChanges, StateOf
<1>6. /\ n <= Len(s) /\ HasApplied(state, s, n) /\ ShowsNewest(s, own, state)
      /\ ToSet(waiting[q]) \cup ToSet(flushCall[q]) \subseteq own
  BY <1>1, <1>4, <1>5 DEF SyncInv, ReplicaInv
<1>7. ShowsNewest(u, own, state) /\ HasApplied(state, u, n)
  BY <1>3, <1>6, StillShows
<1>8. n <= Len(u)
  BY <1>3, <1>6
<1> QED BY <1>2, <1>4, <1>5, <1>6, <1>7, <1>8 DEF ReplicaInv

LEMMA FlushStep ==
    ASSUME SyncInv, NEW r \in Replicas, Flush(r)
    PROVE  SyncInv'
<1>1. /\ flushCall' = [flushCall EXCEPT ![r] = waiting[r]]
      /\ UNCHANGED <<log, field, fieldClock, applied, waiting, checkpoint, changed, syncCall, lost>>
  BY DEF Flush
<1>2. SyncTypeOK /\ flushCall \in [Replicas -> Seq(Changes)] /\ waiting[r] \in Seq(Changes)
  BY DEF SyncInv, SyncTypeOK
<1>3. SyncTypeOK'
  BY <1>1, <1>2 DEF SyncTypeOK
<1>4. ASSUME NEW q \in Replicas PROVE ReplicaInv(q)'
  <2>1. StateOf(q)' = StateOf(q) /\ OwnChanges(q)' = OwnChanges(q)
    BY <1>1 DEF StateOf, OwnChanges
  <2>2. ToSet(waiting[q]) \cup ToSet(flushCall[q]) \subseteq OwnChanges(q)
    BY DEF SyncInv, ReplicaInv
  <2>3. flushCall'[q] = flushCall[q] \/ flushCall'[q] = waiting[q]
    BY <1>1, <1>2
  <2>4. ToSet(waiting'[q]) \cup ToSet(flushCall'[q]) \subseteq OwnChanges(q)
    BY <1>1, <2>2, <2>3
  <2> QED BY <1>1, <2>1, <2>4 DEF SyncInv, ReplicaInv
<1> QED BY <1>1, <1>3, <1>4 DEF SyncInv

LEMMA PushedLog ==
    ASSUME log \in Seq(Changes), NEW r \in Replicas, flushCall[r] \in Seq(Changes), log' = log \o flushCall[r]
    PROVE  log' \in Seq(Changes) /\ Len(log') >= Len(log) /\ ToSet(log') = ToSet(log) \cup ToSet(flushCall[r])
<1>1. PICK s \in Seq(Changes), t \in Seq(Changes) : s = log /\ t = flushCall[r]
  OBVIOUS
<1>2. PICK u : u = log' /\ u = s \o t
  BY <1>1
<1>3. u \in Seq(Changes) /\ Len(u) >= Len(s)
  BY <1>2, LogGrows
<1>4. HoldsBoth(u, s, t)
  BY <1>2, LogHolds, Zenon
<1> QED BY <1>1, <1>2, <1>3, <1>4 DEF HoldsBoth

\* The push arrives, and what it pushed is pending no more if the answer does, too.
LEMMA PushArrives ==
    ASSUME SyncInv, NEW r \in Replicas, NEW left \in Seq(Changes),
           log' = log \o flushCall[r],
           waiting' = [waiting EXCEPT ![r] = left], flushCall' = [flushCall EXCEPT ![r] = <<>>],
           ToSet(left) \subseteq ToSet(waiting[r]),
           ToSet(waiting[r]) \subseteq ToSet(left) \cup ToSet(flushCall[r]),
           lost' \in 0 .. MaxLost, UNCHANGED <<field, fieldClock, applied, checkpoint, changed, syncCall>>
    PROVE  SyncInv'
<1>0. PICK none \in Seq(Changes) : none = <<>> /\ DOMAIN none = {}
  BY NoElement, Zenon
<1>1. ToSet(none) = {}
  BY <1>0 DEF ToSet
<1>2. /\ SyncTypeOK /\ waiting \in [Replicas -> Seq(Changes)] /\ flushCall \in [Replicas -> Seq(Changes)]
      /\ log \in Seq(Changes)
  BY DEF SyncInv, SyncTypeOK
<1>3. /\ waiting' \in [Replicas -> Seq(Changes)] /\ flushCall' \in [Replicas -> Seq(Changes)]
      /\ waiting'[r] = left /\ flushCall'[r] = none
      /\ \A q \in Replicas : q # r => waiting'[q] = waiting[q] /\ flushCall'[q] = flushCall[q]
  BY <1>0, <1>2
<1>4. PICK s \in Seq(Changes), t \in Seq(Changes) : s = log /\ t = flushCall[r]
  BY <1>2
<1>5. PICK u : u = log' /\ u = s \o t
  BY <1>4
<1>6. u \in Seq(Changes) /\ Len(u) >= Len(s) /\ ToSet(u) = ToSet(s) \cup ToSet(t)
  <2>1. flushCall[r] \in Seq(Changes)
    BY <1>2
  <2>2. log' \in Seq(Changes) /\ Len(log') >= Len(log) /\ ToSet(log') = ToSet(log) \cup ToSet(flushCall[r])
    BY <1>2, <2>1, PushedLog
  <2> QED BY <1>4, <1>5, <2>2
<1>7. SyncTypeOK'
  BY <1>2, <1>3, <1>5, <1>6 DEF SyncTypeOK
<1>8. ASSUME NEW q \in Replicas PROVE ReplicaInv(q)'
  <2>1. ToSet(waiting'[q]) \subseteq ToSet(waiting[q]) /\ ToSet(flushCall'[q]) \subseteq ToSet(flushCall[q])
    BY <1>1, <1>3
  <2> QED BY <2>1, AppendStep
<1>9. ToSet(log') \subseteq changed'
  <2>1. ToSet(t) \subseteq changed
    BY <1>4 DEF SyncInv, ReplicaInv, OwnChanges
  <2>2. ToSet(s) \subseteq changed
    BY <1>4 DEF SyncInv
  <2> QED BY <1>5, <1>6, <2>1, <2>2
<1>10. \A d \in changed' : d \in ToSet(log') \cup ToSet(waiting'[Origin[d]])
  <2>1. ASSUME NEW d \in changed PROVE d \in ToSet(u) \cup ToSet(waiting'[Origin[d]])
    <3>1. d \in ToSet(s) \cup ToSet(waiting[Origin[d]]) /\ Origin[d] \in Replicas
      BY <1>2, <1>4, <2>1, SyncAssumption DEF SyncInv, SyncTypeOK
    <3> QED BY <1>3, <1>4, <1>6, <3>1
  <2> QED BY <1>5, <2>1
<1>11. \A c \in Syncs : syncCall'[c].since <= checkpoint'[c[1]] /\ syncCall'[c].upto <= Len(log')
  <2>1. ASSUME NEW c \in Syncs PROVE syncCall[c].since <= checkpoint[c[1]] /\ syncCall[c].upto <= Len(u)
    <3>1. syncCall[c].upto \in Nat /\ syncCall[c].since <= checkpoint[c[1]] /\ syncCall[c].upto <= Len(s)
      BY <1>2, <1>4 DEF SyncInv, SyncTypeOK
    <3> QED BY <1>6, <3>1
  <2> QED BY <1>5, <2>1
<1> QED BY <1>7, <1>8, <1>9, <1>10, <1>11 DEF SyncInv

LEMMA PushedStep ==
    ASSUME SyncInv, NEW r \in Replicas, Pushed(r)
    PROVE  SyncInv'
<1>1. PICK w \in Seq(Changes), t \in Seq(Changes) : w = waiting[r] /\ t = flushCall[r]
  BY DEF SyncInv, SyncTypeOK
<1>2. PICK left : left = Kept(w, Changes \ ToSet(t))
  OBVIOUS
<1>3. left \in Seq(Changes) /\ ToSet(left) = ToSet(w) \cap (Changes \ ToSet(t))
  BY <1>2, KeptSet
<1>4. /\ log' = log \o flushCall[r]
      /\ waiting' = [waiting EXCEPT ![r] = left] /\ flushCall' = [flushCall EXCEPT ![r] = <<>>]
      /\ UNCHANGED <<field, fieldClock, applied, checkpoint, changed, syncCall>> /\ lost' = lost
  BY <1>1, <1>2, Zenon DEF Pushed
<1>5. ToSet(w) \subseteq Changes
  BY DEF ToSet
<1>6. ToSet(left) \subseteq ToSet(waiting[r]) /\ ToSet(waiting[r]) \subseteq ToSet(left) \cup ToSet(flushCall[r])
  BY <1>1, <1>3, <1>5
<1>7. lost' \in 0 .. MaxLost
  BY <1>4 DEF SyncInv, SyncTypeOK
<1> QED BY <1>3, <1>4, <1>6, <1>7, PushArrives

LEMMA PushLostStep ==
    ASSUME SyncInv, NEW r \in Replicas, PushLost(r)
    PROVE  SyncInv'
<1>1. /\ lost < MaxLost /\ lost' = lost + 1
      /\ log' = log \/ log' = log \o flushCall[r]
      /\ flushCall' = [flushCall EXCEPT ![r] = <<>>]
      /\ UNCHANGED <<field, fieldClock, applied, waiting, checkpoint, changed, syncCall>>
  BY DEF PushLost
<1>2. SyncTypeOK /\ lost' \in 0 .. MaxLost
  BY <1>1, SyncAssumption DEF SyncInv, SyncTypeOK
<1>3. CASE log' = log \o flushCall[r]
  <2>1. waiting[r] \in Seq(Changes) /\ waiting' = [waiting EXCEPT ![r] = waiting[r]]
    BY <1>1, <1>2 DEF SyncTypeOK
  <2>2. ToSet(waiting[r]) \subseteq ToSet(waiting[r]) \cup ToSet(flushCall[r])
    OBVIOUS
  <2> QED BY <1>1, <1>2, <1>3, <2>1, <2>2, PushArrives
<1>4. CASE log' = log
  <2>0. PICK none \in Seq(Changes) : none = <<>> /\ DOMAIN none = {}
    BY NoElement, Zenon
  <2>1. ToSet(none) = {}
    BY <2>0 DEF ToSet
  <2>2. flushCall \in [Replicas -> Seq(Changes)] /\ flushCall' = [flushCall EXCEPT ![r] = none]
    BY <1>1, <1>2, <2>0 DEF SyncTypeOK
  <2>3. SyncTypeOK'
    BY <1>1, <1>2, <1>4, <2>2 DEF SyncTypeOK
  <2>4. ASSUME NEW q \in Replicas PROVE ReplicaInv(q)'
    <3>1. StateOf(q)' = StateOf(q) /\ OwnChanges(q)' = OwnChanges(q)
      BY <1>1 DEF StateOf, OwnChanges
    <3>2. flushCall'[q] = flushCall[q] \/ flushCall'[q] = none
      BY <2>2
    <3>3. ToSet(waiting'[q]) \cup ToSet(flushCall'[q]) \subseteq OwnChanges(q)
      BY <1>1, <2>1, <3>2 DEF SyncInv, ReplicaInv
    <3> QED BY <1>1, <1>4, <3>1, <3>3 DEF SyncInv, ReplicaInv
  <2> QED BY <1>1, <1>4, <2>3, <2>4 DEF SyncInv
<1> QED BY <1>1, <1>3, <1>4

\* A call of sync() asks and is answered.
LEMMA CallStep ==
    ASSUME SyncInv, NEW c \in Syncs, Sync(c) \/ Pull(c)
    PROVE  SyncInv'
<1>1. UNCHANGED <<log, field, fieldClock, applied, waiting, checkpoint, changed, flushCall, lost>>
  BY DEF Sync, Pull
<1>2. /\ SyncTypeOK /\ log \in Seq(Changes) /\ checkpoint \in [Replicas -> Nat]
      /\ syncCall \in [Syncs -> [at : {"idle", "asked", "answered"}, since : Nat, upto : Nat]]
      /\ c[1] \in Replicas
  BY SyncAssumption DEF SyncInv, SyncTypeOK
<1>3. PICK length \in Nat, n \in Nat : length = Len(log) /\ n = checkpoint[c[1]]
  BY <1>2
<1>4. PICK call \in [at : {"idle", "asked", "answered"}, since : Nat, upto : Nat] :
         /\ call.since <= n /\ call.upto <= length /\ syncCall' = [syncCall EXCEPT ![c] = call]
  <2>1. NoSync \in [at : {"idle", "asked", "answered"}, since : Nat, upto : Nat]
        /\ NoSync.since = 0 /\ NoSync.upto = 0
    BY DEF NoSync
  <2>2. CASE Sync(c)
    <3>1. PICK call : call = [at |-> "asked", since |-> n, upto |-> 0]
      OBVIOUS
    <3>2. syncCall' = [syncCall EXCEPT ![c] = call]
      BY <1>3, <2>2, <3>1 DEF Sync
    <3>3. /\ call \in [at : {"idle", "asked", "answered"}, since : Nat, upto : Nat]
          /\ call.since <= n /\ call.upto <= length
      BY <3>1
    <3> QED BY <3>2, <3>3
  <2>3. CASE syncCall' = [syncCall EXCEPT ![c] = NoSync]
    <3>1. PICK call : call = NoSync
      OBVIOUS
    <3>2. call.since <= n /\ call.upto <= length
      BY <2>1, <3>1
    <3> QED BY <2>1, <2>3, <3>1, <3>2, Zenon
  <2>4. CASE syncCall' = [syncCall EXCEPT ![c].at = "answered", ![c].upto = Len(log)]
    <3>1. PICK call : call = [at |-> "answered", since |-> syncCall[c].since, upto |-> length]
      OBVIOUS
    <3>2. syncCall' = [syncCall EXCEPT ![c] = call]
      <4>1. PICK old \in [at : {"idle", "asked", "answered"}, since : Nat, upto : Nat] : old = syncCall[c]
        BY <1>2
      <4>2. PICK asked : asked = [at |-> "answered", since |-> old.since, upto |-> old.upto]
        OBVIOUS
      <4>3. [old EXCEPT !.at = "answered"] = asked
        BY <4>2
      <4>4. PICK between : between = [syncCall EXCEPT ![c] = asked]
        OBVIOUS
      <4>5. between[c] = asked
        BY <1>2, <4>4
      <4>6. [asked EXCEPT !.upto = length] = call
        BY <3>1, <4>1, <4>2
      <4>7. syncCall' = [between EXCEPT ![c] = call]
        BY <1>3, <2>4, <4>1, <4>3, <4>4, <4>5, <4>6, Zenon
      <4>8. [between EXCEPT ![c] = call] = [syncCall EXCEPT ![c] = call]
        BY <1>2, <4>4
      <4> QED BY <4>7, <4>8
    <3>3. /\ call \in [at : {"idle", "asked", "answered"}, since : Nat, upto : Nat]
          /\ call.since <= n /\ call.upto <= length
      BY <1>2, <1>3, <3>1 DEF SyncInv
    <3> QED BY <3>2, <3>3
  <2> QED BY <2>2, <2>3, <2>4 DEF Pull
<1>5. SyncTypeOK'
  BY <1>1, <1>2, <1>4 DEF SyncTypeOK
<1>6. \A q \in Replicas : ReplicaInv(q)'
  BY <1>1 DEF SyncInv, ReplicaInv, StateOf, OwnChanges
<1>7. \A d \in Syncs : syncCall'[d].since <= checkpoint'[d[1]] /\ syncCall'[d].upto <= Len(log')
  <2>1. ASSUME NEW d \in Syncs PROVE syncCall'[d].since <= checkpoint[d[1]] /\ syncCall'[d].upto <= Len(log)
    <3>1. d # c => syncCall'[d] = syncCall[d]
      BY <1>2, <1>4
    <3>2. d = c => syncCall'[d] = call
      BY <1>2, <1>4
    <3> QED BY <1>3, <1>4, <3>1, <3>2 DEF SyncInv
  <2> QED BY <1>1, <2>1
<1> QED BY <1>1, <1>5, <1>6, <1>7 DEF SyncInv

LEMMA SyncedStep ==
    ASSUME SyncInv, NEW c \in Syncs, Synced(c)
    PROVE  SyncInv'
<1>1. PICK r \in Replicas : r = c[1]
  BY SyncAssumption
<1>2. /\ SyncTypeOK /\ log \in Seq(Changes) /\ checkpoint \in [Replicas -> Nat]
      /\ syncCall \in [Syncs -> [at : {"idle", "asked", "answered"}, since : Nat, upto : Nat]]
  BY DEF SyncInv, SyncTypeOK
<1>3. PICK length \in Nat : length = Len(log)
  BY <1>2
<1>4. PICK since \in Nat, upto \in Nat : since = syncCall[c].since /\ upto = syncCall[c].upto
  BY <1>2
<1>5. PICK from \in Nat : from = checkpoint[r]
  BY <1>2
<1>6. since <= from /\ upto <= length /\ from <= length /\ ReplicaInv(r)
  BY <1>1, <1>3, <1>4, <1>5 DEF SyncInv, ReplicaInv
<1>7. PICK s : s = AllPulled(StateOf(r), Sorted(Pulled(since, upto)))
  OBVIOUS
<1>8. /\ syncCall' = [syncCall EXCEPT ![c] = NoSync] /\ UNCHANGED <<log, waiting, changed, flushCall, lost>>
      /\ \/ upto >= from /\ Become(r, s) /\ checkpoint' = [checkpoint EXCEPT ![r] = upto]
         \/ UNCHANGED <<field, fieldClock, applied, checkpoint>>
  BY <1>1, <1>4, <1>5, <1>7 DEF Synced, Accepts
<1>9. NoSync \in [at : {"idle", "asked", "answered"}, since : Nat, upto : Nat]
      /\ NoSync.since = 0 /\ NoSync.upto = 0
  BY DEF NoSync
<1>10. \A q \in Replicas : OwnChanges(q)' = OwnChanges(q)
  BY <1>8 DEF OwnChanges
<1>11. CASE upto >= from /\ Become(r, s) /\ checkpoint' = [checkpoint EXCEPT ![r] = upto]
  <2>1. PICK p : p = Pulled(since, upto)
    OBVIOUS
  <2>2. Between(p, log, since, upto)
    BY <2>1 DEF Between, Pulled
  <2>3. HasApplied(s, log, upto) /\ ShowsNewest(log, OwnChanges(r), s)
    <3>1. IsLog(log, length) /\ HasApplied(StateOf(r), log, from) /\ ShowsNewest(log, OwnChanges(r), StateOf(r))
          /\ from <= upto
      BY <1>2, <1>3, <1>5, <1>6, <1>11 DEF IsLog, ReplicaInv
    <3>2. /\ HasApplied(AllPulled(StateOf(r), Sorted(p)), log, upto)
          /\ ShowsNewest(log, OwnChanges(r), AllPulled(StateOf(r), Sorted(p)))
      BY <1>6, <2>2, <3>1, PulledAll
    <3> QED BY <1>7, <2>1, <3>2
  <2>4. s \in ReplicaState
    BY <2>3 DEF ShowsNewest
  <2>5. /\ StateOf(r)' = s /\ \A q \in Replicas : q # r => StateOf(q)' = StateOf(q)
        /\ field' \in [Replicas -> Changes \cup {NoChange}]
        /\ fieldClock' \in [Replicas -> Int] /\ applied' \in [Replicas -> SUBSET Changes]
    BY <1>2, <1>11, <2>4, BecomeStep
  <2>6. /\ checkpoint' \in [Replicas -> Nat] /\ checkpoint'[r] = upto
        /\ \A q \in Replicas : q # r => checkpoint'[q] = checkpoint[q]
    BY <1>2, <1>11
  <2>7. SyncTypeOK'
    BY <1>2, <1>8, <1>9, <2>5, <2>6 DEF SyncTypeOK
  <2>8. ReplicaInv(r)'
    BY <1>3, <1>6, <1>8, <1>10, <2>3, <2>5, <2>6 DEF ReplicaInv
  <2>9. ASSUME NEW q \in Replicas, q # r PROVE ReplicaInv(q)'
    <3>1. ReplicaInv(q)
      BY DEF SyncInv
    <3> QED BY <1>8, <1>10, <2>5, <2>6, <2>9, <3>1, ReplicaSame
  <2>10. \A q \in Replicas : checkpoint'[q] \in Nat /\ checkpoint[q] \in Nat /\ checkpoint[q] <= checkpoint'[q]
    BY <1>2, <1>5, <1>11, <2>6
  <2>11. \A d \in Syncs : syncCall'[d].since <= checkpoint'[d[1]] /\ syncCall'[d].upto <= Len(log')
    <3>1. ASSUME NEW d \in Syncs, d # c PROVE syncCall'[d].since <= checkpoint'[d[1]] /\ syncCall'[d].upto <= Len(log')
      <4>1. syncCall'[d] = syncCall[d] /\ syncCall[d].since \in Nat
        BY <1>2, <1>8, <3>1
      <4>2. PICK q \in Replicas : q = d[1]
        BY SyncAssumption
      <4>3. syncCall[d].since <= checkpoint[q] /\ syncCall[d].upto <= Len(log)
        BY <4>2 DEF SyncInv
      <4>4. syncCall[d].since <= checkpoint'[q]
        BY <2>10, <4>1, <4>3
      <4> QED BY <1>8, <4>1, <4>2, <4>3, <4>4
    <3>2. syncCall'[c] = NoSync /\ checkpoint'[c[1]] \in Nat /\ Len(log') \in Nat
      BY <1>1, <1>2, <1>3, <1>8, <2>10
    <3>3. syncCall'[c].since <= checkpoint'[c[1]] /\ syncCall'[c].upto <= Len(log')
      BY <1>9, <3>2
    <3> QED BY <3>1, <3>3
  <2> QED BY <1>8, <2>7, <2>8, <2>9, <2>11 DEF SyncInv
<1>12. CASE UNCHANGED <<field, fieldClock, applied, checkpoint>>
  <2>1. SyncTypeOK'
    BY <1>2, <1>8, <1>9, <1>12 DEF SyncTypeOK
  <2>2. ASSUME NEW q \in Replicas PROVE ReplicaInv(q)'
    <3>1. ReplicaInv(q) /\ StateOf(q)' = StateOf(q)
      BY <1>12 DEF SyncInv, StateOf
    <3> QED BY <1>8, <1>10, <1>12, <3>1, ReplicaSame
  <2>3. \A d \in Syncs : syncCall'[d].since <= checkpoint'[d[1]] /\ syncCall'[d].upto <= Len(log')
    <3>1. ASSUME NEW d \in Syncs, d # c PROVE syncCall'[d].since <= checkpoint'[d[1]] /\ syncCall'[d].upto <= Len(log')
      BY <1>2, <1>8, <1>12, <3>1 DEF SyncInv
    <3>2. syncCall'[c] = NoSync /\ checkpoint'[c[1]] \in Nat /\ Len(log') \in Nat
      BY <1>1, <1>2, <1>3, <1>8, <1>12
    <3>3. syncCall'[c].since <= checkpoint'[c[1]] /\ syncCall'[c].upto <= Len(log')
      BY <1>9, <3>2
    <3> QED BY <3>1, <3>3
  <2> QED BY <1>8, <1>12, <2>1, <2>2, <2>3 DEF SyncInv
<1> QED BY <1>8, <1>11, <1>12

LEMMA SyncInvStep == SyncInv /\ [SyncNext]_syncVars => SyncInv'
<1> SUFFICES ASSUME SyncInv, [SyncNext]_syncVars PROVE SyncInv'
  OBVIOUS
<1>1. ASSUME NEW c \in Changes, ApplyLocal(c) PROVE SyncInv'
  BY <1>1, ApplyLocalStep
<1>2. ASSUME NEW r \in Replicas, Flush(r) \/ Pushed(r) \/ PushLost(r) PROVE SyncInv'
  BY <1>2, FlushStep, PushedStep, PushLostStep
<1>3. ASSUME NEW c \in Syncs, Sync(c) \/ Pull(c) \/ Synced(c) PROVE SyncInv'
  BY <1>3, CallStep, SyncedStep
<1>4. CASE UNCHANGED syncVars
  BY <1>4 DEF syncVars, SyncInv, SyncTypeOK, ReplicaInv, StateOf, OwnChanges
<1> QED BY <1>1, <1>2, <1>3, <1>4 DEF SyncNext

LEMMA SyncInvHolds == SyncSpec => []SyncInv
BY SyncInvInit, SyncInvStep, PTL DEF SyncSpec

\* A change is at the replica, in the log behind its checkpoint, or still pending.
THEOREM NothingLostHolds == SyncSpec => []NothingLost
<1>1. ASSUME SyncInv PROVE NothingLost
  <2>1. \A r \in Replicas : \A n \in 1 .. checkpoint[r] : log[n] \in applied[r]
    BY <1>1 DEF SyncInv, ReplicaInv, HasApplied, StateOf
  <2> QED BY <1>1, <2>1 DEF SyncInv, NothingLost
<1> QED BY <1>1, SyncInvHolds, PTL

\* A replica that has pulled all of the log and has nothing pending.
LEMMA CaughtUpShows ==
    ASSUME SyncInv, NEW r \in CaughtUp
    PROVE  /\ applied[r] = ToSet(log)
           /\ \A c \in ToSet(log) : Clock[c] <= fieldClock[r]
           /\ \/ field[r] = NoChange /\ ToSet(log) = {}
              \/ field[r] \in ToSet(log) /\ Clock[field[r]] = fieldClock[r]
           /\ OneCategory => \A d \in ToSet(log) : Clock[d] = fieldClock[r] => NoLater(log, d, field[r])
<1>1. /\ r \in Replicas /\ checkpoint[r] = Len(log) /\ waiting[r] = <<>> /\ ReplicaInv(r)
      /\ log \in Seq(Changes)
  BY DEF CaughtUp, SyncInv, SyncTypeOK
<1>2. PICK s : s = StateOf(r)
  OBVIOUS
<1>3. s.value = field[r] /\ s.clock = fieldClock[r] /\ s.applied = applied[r]
  BY <1>2 DEF StateOf
<1>4. HasApplied(s, log, Len(log)) /\ ShowsNewest(log, OwnChanges(r), s)
  BY <1>1, <1>2 DEF ReplicaInv
<1>5. s.applied = ToSet(log)
  <2>1. DOMAIN log = 1 .. Len(log)
    BY <1>1
  <2> QED BY <1>4, <2>1 DEF HasApplied, ToSet
<1>6. OwnChanges(r) \subseteq ToSet(log)
  <2>1. PICK none \in Seq(Changes) : none = <<>> /\ DOMAIN none = {}
    BY NoElement, Zenon
  <2>2. ToSet(waiting[r]) = {}
    BY <1>1, <2>1 DEF ToSet
  <2> QED BY <2>2 DEF SyncInv, OwnChanges
<1> QED BY <1>3, <1>4, <1>5, <1>6 DEF ShowsNewest

\* Of two changes, one is in the log before the other.
LEMMA FirstInLog ==
    ASSUME NEW entries \in Seq(Changes), NEW d \in ToSet(entries), NEW e \in ToSet(entries),
           NoLater(entries, d, e), NoLater(entries, e, d)
    PROVE  d = e
<1>1. PICK n \in Nat : n = Len(entries) /\ DOMAIN entries = 1 .. n
  OBVIOUS
<1>2. PICK I : I = {i \in 1 .. n : entries[i] = e}
  OBVIOUS
<1>3. I \in SUBSET (0 .. n) /\ I # {}
  BY <1>1, <1>2 DEF ToSet
<1>4. PICK i \in I : \A j \in I : i <= j
  BY <1>3, Smallest
<1>5. i \in 1 .. n /\ entries[i] = e
  BY <1>2
<1>6. PICK j \in 1 .. i : entries[j] = d
  BY <1>1, <1>5 DEF NoLater
<1>7. j \in 1 .. n
  BY <1>5, <1>6
<1>8. PICK k \in 1 .. j : entries[k] = e
  BY <1>1, <1>6, <1>7 DEF NoLater
<1>9. k \in 1 .. n /\ k \in I
  BY <1>2, <1>7, <1>8
<1>10. i <= k
  BY <1>4, <1>9
<1>11. i = j
  BY <1>5, <1>6, <1>8, <1>10
<1> QED BY <1>5, <1>6, <1>11

\* However pushes were lost and calls overlapped: nothing is lost, and the replicas
\* that have seen everything show the same change, a newest one, if changes with
\* equal clocks are of one category.
THEOREM ReplicasAgreeHolds ==
    ASSUME OneCategory
    PROVE  SyncSpec => []ReplicasAgree
<1>1. ASSUME SyncInv PROVE Converged
  <2>1. ASSUME NEW r \in CaughtUp, NEW q \in CaughtUp PROVE field[r] = field[q]
    <3>1. CASE ToSet(log) = {}
      BY <1>1, <3>1, CaughtUpShows
    <3>2. CASE ToSet(log) # {}
      <4>1. /\ field[r] \in ToSet(log) /\ Clock[field[r]] = fieldClock[r]
            /\ field[q] \in ToSet(log) /\ Clock[field[q]] = fieldClock[q]
        BY <1>1, <3>2, CaughtUpShows
      <4>2. /\ log \in Seq(Changes) /\ ToSet(log) \subseteq Changes
            /\ fieldClock[r] \in Int /\ fieldClock[q] \in Int
        <5>1. r \in Replicas /\ q \in Replicas
          BY DEF CaughtUp
        <5> QED BY <1>1, <5>1 DEF SyncInv, SyncTypeOK
      <4>3. Clock[field[q]] <= fieldClock[r] /\ Clock[field[r]] <= fieldClock[q]
        BY <1>1, <4>1, CaughtUpShows
      <4>4. fieldClock[r] = fieldClock[q]
        BY <4>1, <4>2, <4>3
      <4>5. NoLater(log, field[q], field[r]) /\ NoLater(log, field[r], field[q])
        BY <1>1, <4>1, <4>4, OneCategory, CaughtUpShows
      <4> QED BY <4>1, <4>2, <4>5, FirstInLog
    <3> QED BY <3>1, <3>2
  <2>2. \A r \in CaughtUp : \A c \in ToSet(log) : Clock[c] <= fieldClock[r]
    BY <1>1, CaughtUpShows
  <2> QED BY <2>1, <2>2 DEF Converged
<1>2. SyncInv => Converged
  BY <1>1
<1>3. SyncSpec => []Converged
  BY <1>2, SyncInvHolds, PTL
<1>4. SyncSpec => []NothingLost
  BY NothingLostHolds
<1>5. NothingLost /\ Converged <=> ReplicasAgree
  BY DEF ReplicasAgree
<1> QED BY <1>3, <1>4, <1>5, PTL

\* An answer that is behind the checkpoint does not move it back.
THEOREM CheckpointMonotoneHolds == SyncSpec => CheckpointMonotone
<1>1. SyncInv /\ [SyncNext]_syncVars => [\A r \in Replicas : checkpoint'[r] >= checkpoint[r]]_syncVars
  <2> SUFFICES ASSUME SyncInv, [SyncNext]_syncVars, NEW r \in Replicas
               PROVE  checkpoint'[r] >= checkpoint[r]
    OBVIOUS
  <2>1. checkpoint \in [Replicas -> Nat]
    BY DEF SyncInv, SyncTypeOK
  <2>2. ASSUME NEW c \in Syncs, Synced(c) PROVE checkpoint'[r] >= checkpoint[r]
    <3>1. \/ checkpoint' = checkpoint
          \/ /\ syncCall[c].upto >= checkpoint[c[1]]
             /\ checkpoint' = [checkpoint EXCEPT ![c[1]] = syncCall[c].upto]
      BY <2>2 DEF Synced, Accepts
    <3> QED BY <2>1, <3>1, SyncAssumption
  <2>3. checkpoint' = checkpoint => checkpoint'[r] >= checkpoint[r]
    BY <2>1
  <2> QED BY <2>2, <2>3 DEF SyncNext, ApplyLocal, Flush, Pushed, PushLost, Sync, Pull, syncVars
<1> QED BY <1>1, SyncInvHolds, PTL DEF SyncSpec, CheckpointMonotone
=============================================================================
