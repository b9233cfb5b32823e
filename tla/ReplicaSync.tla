---------------------------- MODULE ReplicaSync ----------------------------
(***************************************************************************)
(* Two replicas of a record, each a CrossDeviceSyncManager                  *)
(* (cross-device-sync.ts), and the append-only log of their channel         *)
(* (CompanionSyncBroker). Each applies its own changes at once, pushes them *)
(* later, and pulls the log from its checkpoint, its own changes included.  *)
(* Calls of sync() and flush() of one replica may overlap, requests and     *)
(* answers may be lost, and a failed flush is repeated.                     *)
(*                                                                         *)
(* All changes write one field of one entity, of a partition that both      *)
(* replicas are granted.                                                   *)
(***************************************************************************)
EXTENDS Integers, Sequences, SequencesExt, Subsequences

CONSTANTS
    Changes,    \* change_ids
    Origin,     \* the replica that makes a change
    Clock,      \* logical_clock of a change
    Priority,   \* priority of its category
    Replicas,
    Syncs,      \* pairs <<replica, n>>: the calls of sync() that may overlap
    NoChange,
    MaxLost     \* bound of the model on pushes that throw

VARIABLES
    log,         \* the broker's log, whose clock is its length
    field,       \* the change that wrote the field last, at each replica
    fieldClock,  \* fieldClocks
    applied,     \* the changes applied by sync()
    waiting,     \* the pending changes, in the order of their insertion
    checkpoint,
    changed,     \* changes that applyLocal() has been given
    syncCall,    \* the calls of sync()
    flushCall,   \* what the flush() of a replica pushes
    lost         \* history: pushes that threw

syncVars == <<log, field, fieldClock, applied, waiting, checkpoint, changed, syncCall, flushCall, lost>>

ASSUME SyncAssumption ==
    /\ Origin \in [Changes -> Replicas]
    /\ Clock \in [Changes -> Nat] /\ Priority \in [Changes -> Nat]
    /\ \A c \in Syncs : c[1] \in Replicas
    /\ NoChange \notin Changes /\ MaxLost \in Nat

NoSync == [at |-> "idle", since |-> 0, upto |-> 0]

SyncTypeOK ==
    /\ log \in Seq(Changes)
    /\ field \in [Replicas -> Changes \cup {NoChange}]
    /\ fieldClock \in [Replicas -> Int]
    /\ applied \in [Replicas -> SUBSET Changes]
    /\ waiting \in [Replicas -> Seq(Changes)]
    /\ checkpoint \in [Replicas -> Nat]
    /\ changed \subseteq Changes
    /\ syncCall \in [Syncs -> [at : {"idle", "asked", "answered"}, since : Nat, upto : Nat]]
    /\ flushCall \in [Replicas -> Seq(Changes)]
    /\ lost \in 0 .. MaxLost

SyncInit ==
    /\ log = <<>>
    /\ field = [r \in Replicas |-> NoChange]
    /\ fieldClock = [r \in Replicas |-> -1]
    /\ applied = [r \in Replicas |-> {}]
    /\ waiting = [r \in Replicas |-> <<>>]
    /\ checkpoint = [r \in Replicas |-> 0]
    /\ changed = {}
    /\ syncCall = [c \in Syncs |-> NoSync]
    /\ flushCall = [r \in Replicas |-> <<>>]
    /\ lost = 0

\* apply(): last write wins, the later arrival among equal clocks.
Apply(s, c) ==
    IF Clock[c] >= s.clock THEN [s EXCEPT !.value = c, !.clock = Clock[c]] ELSE s

\* A change that sync() has applied before is skipped.
ApplyPulled(s, c) ==
    IF c \in s.applied THEN s ELSE [Apply(s, c) EXCEPT !.applied = @ \cup {c}]

StateOf(r) == [value |-> field[r], clock |-> fieldClock[r], applied |-> applied[r]]

Become(r, s) ==
    /\ field' = [field EXCEPT ![r] = s.value]
    /\ fieldClock' = [fieldClock EXCEPT ![r] = s.clock]
    /\ applied' = [applied EXCEPT ![r] = s.applied]

Pulled(since, upto) == [i \in 1 .. upto - since |-> log[since + i]]

\* By category and clock; the sort is stable.
GoesFirst(pulled, i, j) ==
    \/ Priority[pulled[i]] < Priority[pulled[j]]
    \/ /\ Priority[pulled[i]] = Priority[pulled[j]]
       /\ Clock[pulled[i]] < Clock[pulled[j]] \/ (Clock[pulled[i]] = Clock[pulled[j]] /\ i <= j)

Sorted(pulled) ==
    Arranged(pulled, {p \in (DOMAIN pulled) \X (DOMAIN pulled) : GoesFirst(pulled, p[1], p[2])})

ReplicaState == [value : Changes \cup {NoChange}, clock : Int, applied : SUBSET Changes]

\* A replica after the changes, one after the other.
AllPulled(s, changes) ==
    Reduced([p \in ReplicaState \X Changes |-> ApplyPulled(p[1], p[2])], s, changes)

-----------------------------------------------------------------------------
\* Fault: a change that was applied locally is skipped when it is pulled.
ApplyLocalOnce(c) ==
    /\ c \notin changed /\ changed' = changed \cup {c}
    /\ Become(Origin[c], [Apply(StateOf(Origin[c]), c) EXCEPT !.applied = @ \cup {c}])
    /\ waiting' = [waiting EXCEPT ![Origin[c]] = Append(@, c)]
    /\ UNCHANGED <<log, checkpoint, syncCall, flushCall, lost>>

ApplyLocal(c) ==
    /\ c \notin changed /\ changed' = changed \cup {c}
    /\ Become(Origin[c], Apply(StateOf(Origin[c]), c))
    /\ waiting' = [waiting EXCEPT ![Origin[c]] = Append(@, c)]
    /\ UNCHANGED <<log, checkpoint, syncCall, flushCall, lost>>

\* flush() takes what is pending and awaits its push.
Flush(r) ==
    /\ waiting[r] # <<>> /\ flushCall[r] = <<>>
    /\ flushCall' = [flushCall EXCEPT ![r] = waiting[r]]
    /\ UNCHANGED <<log, field, fieldClock, applied, waiting, checkpoint, changed, syncCall, lost>>

\* Fault: changes made during the push are taken for pushed.
PushedAll(r) ==
    /\ flushCall[r] # <<>>
    /\ log' = log \o flushCall[r]
    /\ waiting' = [waiting EXCEPT ![r] = <<>>]
    /\ flushCall' = [flushCall EXCEPT ![r] = <<>>]
    /\ UNCHANGED <<field, fieldClock, applied, checkpoint, changed, syncCall, lost>>

\* The broker has appended the batch and the answer arrives.
Pushed(r) ==
    /\ flushCall[r] # <<>>
    /\ log' = log \o flushCall[r]
    /\ waiting' = [waiting EXCEPT ![r] = Kept(@, Changes \ ToSet(flushCall[r]))]
    /\ flushCall' = [flushCall EXCEPT ![r] = <<>>]
    /\ UNCHANGED <<field, fieldClock, applied, checkpoint, changed, syncCall, lost>>

\* The push throws: its request was lost, or its answer.
PushLost(r) ==
    /\ flushCall[r] # <<>> /\ lost < MaxLost /\ lost' = lost + 1
    /\ log' \in {log, log \o flushCall[r]}
    /\ flushCall' = [flushCall EXCEPT ![r] = <<>>]
    /\ UNCHANGED <<field, fieldClock, applied, waiting, checkpoint, changed, syncCall>>

Sync(c) ==
    /\ syncCall[c] = NoSync
    /\ checkpoint[c[1]] < Len(log)
    /\ syncCall' = [syncCall EXCEPT ![c] = [at |-> "asked", since |-> checkpoint[c[1]], upto |-> 0]]
    /\ UNCHANGED <<log, field, fieldClock, applied, waiting, checkpoint, changed, flushCall, lost>>

\* The broker reads its log; the answer, or the request, may be lost.
Pull(c) ==
    /\ syncCall[c].at = "asked"
    /\ syncCall' \in {[syncCall EXCEPT ![c].at = "answered", ![c].upto = Len(log)],
                      [syncCall EXCEPT ![c] = NoSync]}
    /\ UNCHANGED <<log, field, fieldClock, applied, waiting, checkpoint, changed, flushCall, lost>>

Accepts(r, call) == call.upto >= checkpoint[r]

\* An answer that is behind the checkpoint is rejected.
Synced(c) ==
    /\ syncCall[c].at = "answered"
    /\ LET call == syncCall[c]
       IN  IF Accepts(c[1], call)
           THEN /\ Become(c[1], AllPulled(StateOf(c[1]), Sorted(Pulled(call.since, call.upto))))
                /\ checkpoint' = [checkpoint EXCEPT ![c[1]] = call.upto]
           ELSE UNCHANGED <<field, fieldClock, applied, checkpoint>>
    /\ syncCall' = [syncCall EXCEPT ![c] = NoSync]
    /\ UNCHANGED <<log, waiting, changed, flushCall, lost>>

SyncNext ==
    \/ \E c \in Changes : ApplyLocal(c)
    \/ \E r \in Replicas : Flush(r) \/ Pushed(r) \/ PushLost(r)
    \/ \E c \in Syncs : Sync(c) \/ Pull(c) \/ Synced(c)

SyncSpec == SyncInit /\ [][SyncNext]_syncVars
-----------------------------------------------------------------------------
(* Properties.                                                              *)

\* Nothing that is behind a checkpoint is missing at the replica, and what is
\* not in the log is still pending: no change is lost.
NothingLost ==
    /\ \A r \in Replicas : \A n \in 1 .. checkpoint[r] : log[n] \in applied[r]
    /\ \A c \in changed : c \in ToSet(log) \cup ToSet(waiting[Origin[c]])

\* The replicas that have pulled all of the log and have nothing pending.
CaughtUp == {r \in Replicas : checkpoint[r] = Len(log) /\ waiting[r] = <<>>}

\* They agree on the field, and it holds a newest change: however their calls
\* overlapped, whatever was pushed twice, and also where clocks are equal.
Converged ==
    \A r, s \in CaughtUp :
        /\ field[r] = field[s]
        /\ \A c \in ToSet(log) : Clock[c] <= fieldClock[r]

\* Lost pushes, overlapping syncs and equal clocks neither lose a change nor set
\* the replicas apart.
ReplicasAgree == NothingLost /\ Converged

\* A checkpoint never moves back.
CheckpointMonotone == [][\A r \in Replicas : checkpoint'[r] >= checkpoint[r]]_syncVars
=============================================================================
