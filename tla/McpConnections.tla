--------------------------- MODULE McpConnections ---------------------------
(***************************************************************************)
(* The connections to one MCP server over stdio: McpConnection spawns the   *)
(* server's process, sends requests and matches the lines that come back by *)
(* id, with a timeout for each; McpConnectionManager keeps the connection   *)
(* that is open. The process may exit, fail to start, answer late or never. *)
(***************************************************************************)
EXTENDS Integers

CONSTANTS
    Connections,  \* McpConnection objects
    Requests,     \* calls of McpConnection.request()
    Ids,          \* the ids that callers give to them, not always distinct
    Nobody,       \* no connection, no request
    MaxExits      \* bound of the model on processes that end by themselves

ASSUME McpAssumption == Nobody \notin Connections \cup Requests

VARIABLES
    manager,     \* the connection the manager holds for the server
    connecting,  \* connections whose connect() the manager awaits
    closing,     \* connections whose close() the manager awaits
    opened,      \* connections that were opened
    closed,      \* McpConnection.closed
    process,     \* connections that refer to a child process
    living,      \* connections whose last child process lives
    stdout,      \* what is left of a line in stdoutBuffer
    pending,     \* McpConnection.pending
    inbox,       \* requests that the process has read and not answered
    request,     \* the state of each call of request()
    exits,       \* history: processes that ended by themselves
    overlapped   \* history: whether a call of the manager began during another one

managerVars == <<manager, connecting, closing, overlapped>>
mcpVars == <<managerVars, opened, closed, process, living, stdout, pending, inbox, request, exits>>

\* `timer` says whether the timeout of the call is set.
RequestState == [at : {"new", "spawning", "waiting", "settled"}, on : Connections \cup {Nobody},
         id : Ids \cup {Nobody}, timer : BOOLEAN]

McpTypeOK ==
    /\ manager \in Connections \cup {Nobody}
    /\ connecting \subseteq opened /\ closing \subseteq opened /\ opened \subseteq Connections
    /\ closed \subseteq opened /\ process \subseteq opened /\ living \subseteq process
    /\ stdout \in [Connections -> {"empty", "part", "stale"}]
    /\ pending \in [Connections -> [Ids -> Requests \cup {Nobody}]]
    /\ inbox \in [Connections -> SUBSET Requests]
    /\ request \in [Requests -> RequestState]
    /\ exits \in 0 .. MaxExits
    /\ overlapped \in BOOLEAN

McpInit ==
    /\ manager = Nobody
    /\ connecting = {} /\ closing = {} /\ opened = {}
    /\ closed = {} /\ process = {} /\ living = {}
    /\ stdout = [c \in Connections |-> "empty"]
    /\ pending = [c \in Connections |-> [i \in Ids |-> Nobody]]
    /\ inbox = [c \in Connections |-> {}]
    /\ request = [r \in Requests |-> [at |-> "new", on |-> Nobody, id |-> Nobody, timer |-> FALSE]]
    /\ exits = 0 /\ overlapped = FALSE

\* The promise of a call is resolved and its timeout cleared.
Settled(r) == [request[r] EXCEPT !.at = "settled", !.timer = FALSE]

Waiting(c) == {pending[c][i] : i \in Ids} \ {Nobody}

\* Fault: the calls are forgotten and their timeouts cleared, but not answered.
DropAllPending(c) ==
    /\ request' = [r \in Requests |-> IF r \in Waiting(c) THEN [request[r] EXCEPT !.timer = FALSE] ELSE request[r]]
    /\ pending' = [pending EXCEPT ![c] = [i \in Ids |-> Nobody]]

\* failAllPending of one connection.
FailAllPending(c) ==
    /\ request' = [r \in Requests |-> IF r \in Waiting(c) THEN Settled(r) ELSE request[r]]
    /\ pending' = [pending EXCEPT ![c] = [i \in Ids |-> Nobody]]

-----------------------------------------------------------------------------
(* The manager.                                                             *)

Overlaps == overlapped' = (overlapped \/ connecting \cup closing # {})

\* connect() finds no connection and spawns one. A spawn that throws leaves
\* nothing behind, and a connect() that finds a connection does nothing.
Connect(c) ==
    /\ manager = Nobody /\ c \notin opened
    /\ opened' = opened \cup {c}
    /\ connecting' = connecting \cup {c}
    /\ process' = process \cup {c} /\ living' = living \cup {c}
    /\ Overlaps
    /\ UNCHANGED <<manager, closing, closed, stdout, pending, inbox, request, exits>>

Connected(c) ==
    /\ c \in connecting
    /\ connecting' = connecting \ {c}
    /\ manager' = c
    /\ UNCHANGED <<closing, overlapped, opened, closed, process, living, stdout, pending, inbox, request, exits>>

\* Fault: the process is forgotten, and not killed.
DisconnectOnly(c) ==
    /\ c = manager
    /\ closing' = closing \cup {c}
    /\ closed' = closed \cup {c}
    /\ FailAllPending(c)
    /\ process' = process \ {c} /\ UNCHANGED living
    /\ Overlaps
    /\ UNCHANGED <<manager, connecting, opened, stdout, inbox, exits>>

\* disconnect() closes the connection: all its requests fail, its process is killed.
Disconnect(c) ==
    /\ c = manager
    /\ closing' = closing \cup {c}
    /\ closed' = closed \cup {c}
    /\ FailAllPending(c)
    /\ process' = process \ {c} /\ living' = living \ {c}
    /\ inbox' = [inbox EXCEPT ![c] = {}]
    /\ Overlaps
    /\ UNCHANGED <<manager, connecting, opened, stdout, exits>>

\* The entry is deleted, whatever connection it holds by now.
Disconnected(c) ==
    /\ c \in closing
    /\ closing' = closing \ {c}
    /\ manager' = Nobody
    /\ UNCHANGED <<connecting, overlapped, opened, closed, process, living, stdout, pending, inbox, request, exits>>

-----------------------------------------------------------------------------
(* A connection, used by whoever got it from the manager.                   *)

Request(r, c, i) ==
    /\ request[r].at = "new" /\ c \in opened \ connecting
    /\ IF c \in closed
       THEN request' = [request EXCEPT ![r] = [Settled(r) EXCEPT !.on = c]] /\ UNCHANGED <<process, living>>
       ELSE /\ request' = [request EXCEPT ![r] = [at |-> "spawning", on |-> c, id |-> i, timer |-> FALSE]]
            /\ IF c \in process THEN UNCHANGED <<process, living>>
               ELSE process' = process \cup {c} /\ living' = living \cup {c}
    /\ UNCHANGED <<managerVars, opened, closed, stdout, pending, inbox, exits>>

\* The request is written, or the connection has been closed meanwhile. An
\* entry of the same id is overwritten.
Send(r) ==
    /\ request[r].at = "spawning"
    /\ LET c == request[r].on
       IN  IF c \notin process
           THEN request' = [request EXCEPT ![r] = Settled(r)] /\ UNCHANGED <<pending, inbox>>
           ELSE \/ /\ request' = [request EXCEPT ![r].at = "waiting", ![r].timer = TRUE]
                   /\ pending' = [pending EXCEPT ![c][request[r].id] = r]
                   /\ inbox' = [inbox EXCEPT ![c] = IF c \in living THEN @ \cup {r} ELSE @]
                \/ /\ request' = [request EXCEPT ![r] = Settled(r)]
                   /\ pending' = [pending EXCEPT ![c][request[r].id] = Nobody]
                   /\ UNCHANGED inbox
    /\ UNCHANGED <<managerVars, opened, closed, process, living, stdout, exits>>

\* The timeout deletes the entry of its id, also where it is another request's.
RequestTimeout(r) ==
    /\ request[r].timer
    /\ request' = [request EXCEPT ![r] = Settled(r)]
    /\ pending' = [pending EXCEPT ![request[r].on][request[r].id] = Nobody]
    /\ UNCHANGED <<managerVars, opened, closed, process, living, stdout, inbox, exits>>

\* The process writes a part of a line.
Chunk(c) ==
    /\ c \in living /\ inbox[c] # {} /\ stdout[c] = "empty"
    /\ stdout' = [stdout EXCEPT ![c] = "part"]
    /\ UNCHANGED <<managerVars, opened, closed, process, living, pending, inbox, request, exits>>

\* The process completes the line that answers r. What an earlier process left
\* in the buffer makes the line malformed, and it is dropped.
Answer(c, r) ==
    /\ c \in living /\ r \in inbox[c]
    /\ inbox' = [inbox EXCEPT ![c] = @ \ {r}]
    /\ stdout' = [stdout EXCEPT ![c] = "empty"]
    /\ LET q == pending[c][request[r].id]
       IN  IF stdout[c] = "stale" \/ q = Nobody THEN UNCHANGED <<request, pending>>
           ELSE /\ request' = [request EXCEPT ![q] = Settled(q)]
                /\ pending' = [pending EXCEPT ![c][request[r].id] = Nobody]
    /\ UNCHANGED <<managerVars, opened, closed, process, living, exits>>

\* The "exit" event: the next request spawns another process.
Exit(c) ==
    /\ c \in living /\ exits < MaxExits /\ exits' = exits + 1
    /\ process' = process \ {c} /\ living' = living \ {c}
    /\ inbox' = [inbox EXCEPT ![c] = {}]
    /\ stdout' = [stdout EXCEPT ![c] = IF @ = "part" THEN "stale" ELSE @]
    /\ FailAllPending(c)
    /\ UNCHANGED <<managerVars, opened, closed>>

\* The "error" event of a process that could not be started: the connection
\* keeps its reference.
SpawnError(c) ==
    /\ c \in living /\ exits < MaxExits /\ exits' = exits + 1
    /\ living' = living \ {c}
    /\ inbox' = [inbox EXCEPT ![c] = {}]
    /\ FailAllPending(c)
    /\ UNCHANGED <<managerVars, opened, closed, process, stdout>>

McpNext ==
    \/ \E c \in Connections :
          \/ Connect(c) \/ Connected(c) \/ Disconnect(c) \/ Disconnected(c)
          \/ Chunk(c) \/ Exit(c) \/ SpawnError(c)
          \/ \E r \in Requests : Answer(c, r) \/ \E i \in Ids : Request(r, c, i)
    \/ \E r \in Requests : Send(r) \/ RequestTimeout(r)

\* What is called goes on, and timers run off; processes need not answer.
McpFairness == \A r \in Requests : WF_mcpVars(Send(r) \/ RequestTimeout(r))

McpSpec == McpInit /\ [][McpNext]_mcpVars /\ McpFairness
-----------------------------------------------------------------------------
(* Properties.                                                              *)

\* Every call of request() is answered: also where ids repeat, the process
\* dies or never answers, or the connection is closed under it.
EveryRequestSettles ==
    \A r \in Requests : request[r].at \in {"spawning", "waiting"} ~> request[r].at = "settled"

\* As long as calls of the manager do not overlap, a process that lives belongs
\* to the connection that the manager holds, or is about to hold.
NoOrphan == ~overlapped => living \subseteq {manager} \cup connecting
=============================================================================
