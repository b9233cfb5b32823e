----------------------------- MODULE NamedPipeBus -----------------------------
(***************************************************************************)
(* One topic of the server of a named pipe (named-pipe-bus.ts). The frames  *)
(* of a client arrive in the order in which it published them; every frame  *)
(* is dispatched by itself, without waiting for the one before, and awaits  *)
(* one subscriber after the other.                                          *)
(***************************************************************************)
EXTENDS Naturals, Sequences, SequencesExt, FiniteSets, Subsequences

CONSTANTS
    PipeSubscribers,   \* subscriptions that may exist; none is made twice
    Frames,            \* the sequence of the message ids that the client writes
    AtStart            \* the sequence of the subscriptions made before the first frame

ASSUME PipeAssumption == AtStart \in Seq(PipeSubscribers) /\ Frames \in Seq(ToSet(Frames))

VARIABLES
    subscribed,    \* the set of subscriptions of the topic, in the order of their insertion
    arrived,       \* frames read so far
    dispatching,   \* of each frame: the subscriptions it has visited, the one it awaits
    processed,     \* processedMessageIds of each subscription
    deadLetters,   \* pairs of a subscription and the frame that it failed
    latest         \* history: the frame whose handling each subscription began last

pipeVars == <<subscribed, arrived, dispatching, processed, deadLetters, latest>>

NotThere == "nobody"

FrameIds == DOMAIN Frames

Waiting == [at |-> "unread", visited |-> {}, awaits |-> NotThere]

Dispatch == [at : {"unread", "dispatching", "orphaned", "done"}, visited : SUBSET PipeSubscribers,
             awaits : PipeSubscribers \cup {NotThere}]

PipeTypeOK ==
    /\ subscribed \in Seq(PipeSubscribers) /\ IsInjective(subscribed)
    /\ arrived \in 0 .. Len(Frames)
    /\ dispatching \in [FrameIds -> Dispatch]
    /\ processed \in [PipeSubscribers -> SUBSET ToSet(Frames)]
    /\ deadLetters \subseteq PipeSubscribers \X FrameIds
    /\ latest \in [PipeSubscribers -> 0 .. Len(Frames)]

PipeInit ==
    /\ subscribed = AtStart /\ arrived = 0
    /\ dispatching = [f \in FrameIds |-> Waiting]
    /\ processed = [s \in PipeSubscribers |-> {}]
    /\ deadLetters = {}
    /\ latest = [s \in PipeSubscribers |-> 0]

\* The loop over the live set passes over the subscriptions that have processed
\* the message, and visits those that are added meanwhile, unless the set was
\* dropped with its last subscription and theirs is another.
Proceeds(f, visited, done) ==
    LET next == {s \in PipeSubscribers : s \notin visited /\ Frames[f] \notin done[s]}
        rest == IF dispatching[f].at = "orphaned" THEN <<>> ELSE Kept(subscribed, next)
    IN  IF rest = <<>>
        THEN /\ dispatching' = [dispatching EXCEPT ![f] =
                   [at |-> "done", visited |-> visited, awaits |-> NotThere]]
             /\ UNCHANGED latest
        ELSE /\ dispatching' = [dispatching EXCEPT ![f] =
                   [at |-> "dispatching", visited |-> visited \cup {Head(rest)}, awaits |-> Head(rest)]]
             /\ latest' = [latest EXCEPT ![Head(rest)] = f]

Awaiting(f) == dispatching[f].at \in {"dispatching", "orphaned"}

-----------------------------------------------------------------------------
\* readFrame(): the next frame is dispatched, whatever the earlier ones await.
ReadFrame ==
    /\ arrived < Len(Frames) /\ arrived' = arrived + 1
    /\ Proceeds(arrived + 1, {}, processed)
    /\ UNCHANGED <<subscribed, processed, deadLetters>>

Handled(f) ==
    /\ Awaiting(f)
    /\ LET done == [processed EXCEPT ![dispatching[f].awaits] = @ \cup {Frames[f]}]
       IN  processed' = done /\ Proceeds(f, dispatching[f].visited, done)
    /\ UNCHANGED <<subscribed, arrived, deadLetters>>

\* Fault: the subscriber that fails ends the dispatch.
FailureEndsDispatch(f) ==
    /\ Awaiting(f)
    /\ deadLetters' = deadLetters \cup {<<dispatching[f].awaits, f>>}
    /\ dispatching' = [dispatching EXCEPT ![f].at = "done", ![f].awaits = NotThere]
    /\ UNCHANGED <<subscribed, arrived, processed, latest>>

HandlerThrows(f) ==
    /\ Awaiting(f)
    /\ deadLetters' = deadLetters \cup {<<dispatching[f].awaits, f>>}
    /\ Proceeds(f, dispatching[f].visited, processed)
    /\ UNCHANGED <<subscribed, arrived, processed>>

\* A new subscription has processed nothing.
SubscribePipe(s) ==
    /\ s \notin ToSet(subscribed) \cup ToSet(AtStart) /\ latest[s] = 0
    /\ subscribed' = Append(subscribed, s)
    /\ UNCHANGED <<arrived, dispatching, processed, deadLetters, latest>>

\* What the subscription handles at the time goes on.
UnsubscribePipe(s) ==
    /\ s \in ToSet(subscribed)
    /\ subscribed' = Kept(subscribed, PipeSubscribers \ {s})
    /\ dispatching' = [f \in FrameIds |->
          IF subscribed' = <<>> /\ Awaiting(f) THEN [dispatching[f] EXCEPT !.at = "orphaned"]
          ELSE dispatching[f]]
    /\ UNCHANGED <<arrived, processed, deadLetters, latest>>

PipeNext ==
    \/ ReadFrame
    \/ \E f \in FrameIds : Handled(f) \/ HandlerThrows(f)
    \/ \E s \in PipeSubscribers : SubscribePipe(s) \/ UnsubscribePipe(s)

PipeSpec == PipeInit /\ [][PipeNext]_pipeVars
-----------------------------------------------------------------------------
(* Properties.                                                              *)

\* A subscriber that was there before the frames and still is has processed every
\* message whose dispatch ended, or its failure is among the dead letters,
\* though other subscribers failed, came and went in the meantime.
HandledOrDeadLettered ==
    \A f \in FrameIds, s \in ToSet(AtStart) \cap ToSet(subscribed) :
        dispatching[f].at = "done" => Frames[f] \in processed[s] \/ <<s, f>> \in deadLetters

\* "Ordering is guaranteed only within a single topic and single source service
\* [...] delivered in the order they occurred" (event-driven-architecture.md).
\* Violated: a message overtakes the one before it at a subscriber that an
\* earlier subscriber keeps waiting.
PipeKeepsOrder == [][\A s \in PipeSubscribers : latest'[s] >= latest[s]]_pipeVars
=============================================================================
