-------------------------- MODULE CommunicationBus --------------------------
(***************************************************************************)
(* One topic of the in-process bus (communication-bus.ts): subscribers come *)
(* and go while publications of several messages walk through them, each   *)
(* awaiting one handler at a time. A publisher may publish a message again  *)
(* once the previous publication of it has been answered.                  *)
(***************************************************************************)
EXTENDS Integers, Sequences, SequencesExt, Subsequences

CONSTANTS
    Subscribers,   \* subscriptions, each made and ended at most once
    Messages,      \* message identifiers
    MaxRetries,    \* retryPolicy.maxRetries
    MaxPublishes   \* bound of the model on the publications of a message

ASSUME BusAssumption == MaxRetries \in Nat

VARIABLES
    topic,        \* the Set of the topic's subscriptions, in insertion order
    ended,        \* subscriptions that were taken back
    processed,    \* processedMessageIds of each subscription
    attempts,     \* failed deliveries of a message, keyed by message and topic
    publication,  \* for each message, the publication that has not been answered
    published,    \* history: how often a message was published
    deadLetters   \* history: the subscriptions for which a message was dead-lettered

busVars == <<topic, ended, processed, attempts, publication, published, deadLetters>>

\* `left` is what the iterator of a publication still visits. It follows the
\* changes of the Set as long as the topic keeps that Set (`attached`).
Publication == [at : {"none", "handler"}, left : Seq(Subscribers), attached : BOOLEAN]

None == [at |-> "none", left |-> <<>>, attached |-> FALSE]

BusTypeOK ==
    /\ topic \in Seq(Subscribers)
    /\ ended \subseteq Subscribers
    /\ processed \in [Subscribers -> SUBSET Messages]
    /\ attempts \in [Messages -> 0 .. MaxRetries]
    /\ publication \in [Messages -> Publication]
    /\ published \in [Messages -> 0 .. MaxPublishes]
    /\ deadLetters \in [Messages -> SUBSET Subscribers]

BusInit ==
    /\ topic = <<>> /\ ended = {}
    /\ processed = [s \in Subscribers |-> {}]
    /\ attempts = [m \in Messages |-> 0]
    /\ publication = [m \in Messages |-> None]
    /\ published = [m \in Messages |-> 0]
    /\ deadLetters = [m \in Messages |-> {}]

Subscribe(s) ==
    /\ s \notin ToSet(topic) \cup ended
    /\ topic' = Append(topic, s)
    /\ publication' = [m \in Messages |->
         IF publication[m].attached
         THEN [publication[m] EXCEPT !.left = Append(@, s)] ELSE publication[m]]
    /\ UNCHANGED <<ended, processed, attempts, published, deadLetters>>

\* A publication when s has been deleted from the Set, of which `remaining` is
\* left: the handler that is being awaited, the head of its own `left`, is awaited
\* on, and a Set that has become empty is dropped by the topic.
Without(p, s, remaining) ==
    [p EXCEPT !.left = <<Head(@)>> \o Kept(Tail(@), Subscribers \ {s}),
              !.attached = IF remaining = <<>> THEN FALSE ELSE @]

Unsubscribe(s) ==
    /\ s \in ToSet(topic)
    /\ topic' = Kept(topic, Subscribers \ {s})
    /\ ended' = ended \cup {s}
    /\ publication' = [m \in Messages |->
         IF publication[m].at = "none" THEN None ELSE Without(publication[m], s, topic')]
    /\ UNCHANGED <<processed, attempts, published, deadLetters>>

\* The publication of m goes on to the next subscriber of `left` that has not
\* processed it, and awaits its handler; failures are those counted so far.
Visit(m, left, attached, failures) ==
    LET rest == Kept(left, {s \in Subscribers : m \notin processed[s]})
    IN  /\ publication' = [publication EXCEPT ![m] =
             IF rest = <<>> THEN None ELSE [at |-> "handler", left |-> rest, attached |-> attached]]
        /\ attempts' = [attempts EXCEPT ![m] = IF rest = <<>> THEN failures ELSE failures + 1]

Publish(m) ==
    /\ publication[m] = None /\ published[m] < MaxPublishes
    /\ published' = [published EXCEPT ![m] = @ + 1]
    /\ Visit(m, topic, TRUE, attempts[m])
    /\ UNCHANGED <<topic, ended, processed, deadLetters>>

HandlerReturns(m) ==
    /\ publication[m].at = "handler"
    /\ LET p == publication[m]
       IN  /\ processed' = [processed EXCEPT ![Head(p.left)] = @ \cup {m}]
           /\ Visit(m, Tail(p.left), p.attached, 0)
    /\ UNCHANGED <<topic, ended, published, deadLetters>>

\* The answer to the publisher is an error that invites a retry.
Answered(m) ==
    /\ publication' = [publication EXCEPT ![m] = None]
    /\ UNCHANGED attempts

\* Fault: a dead letter ends the walk with success.
HandlerThrowsOnce(m) ==
    /\ publication[m].at = "handler"
    /\ IF attempts[m] >= MaxRetries
       THEN /\ deadLetters' = [deadLetters EXCEPT ![m] = @ \cup {Head(publication[m].left)}]
            /\ publication' = [publication EXCEPT ![m] = None]
            /\ attempts' = [attempts EXCEPT ![m] = 0]
       ELSE Answered(m) /\ UNCHANGED deadLetters
    /\ UNCHANGED <<topic, ended, processed, published>>

\* The last of the attempts ends in a dead letter, and the walk goes on.
HandlerThrows(m) ==
    /\ publication[m].at = "handler"
    /\ LET p == publication[m]
       IN  IF attempts[m] >= MaxRetries
           THEN /\ deadLetters' = [deadLetters EXCEPT ![m] = @ \cup {Head(p.left)}]
                /\ Visit(m, Tail(p.left), p.attached, 0)
           ELSE Answered(m) /\ UNCHANGED deadLetters
    /\ UNCHANGED <<topic, ended, processed, published>>

BusNext ==
    \/ \E s \in Subscribers : Subscribe(s) \/ Unsubscribe(s)
    \/ \E m \in Messages : Publish(m) \/ HandlerReturns(m) \/ HandlerThrows(m)

BusSpec == BusInit /\ [][BusNext]_busVars
-----------------------------------------------------------------------------
(* Properties.                                                              *)

\* A publication that is answered with success has served everyone: when it
\* ends without inviting a retry, each subscriber of the topic has processed
\* the message or it was dead-lettered for it. Those that subscribed after the
\* Set of the publication was dropped are the exception.
SuccessMeansServed ==
    [][\A m \in Messages :
        /\ publication[m].attached /\ publication'[m] = None
        /\ attempts'[m] = 0
        => \A s \in ToSet(topic') : m \in processed'[s] \/ s \in deadLetters'[m]]_busVars
=============================================================================
