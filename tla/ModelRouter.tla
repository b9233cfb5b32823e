----------------------------- MODULE ModelRouter -----------------------------
(***************************************************************************)
(* The fallback over model providers with a circuit breaker for each        *)
(* (model-router.ts). Requests overlap: the circuits are looked at before   *)
(* the health check of a provider and again before its first attempt, and   *)
(* both the check and every attempt are awaited.                            *)
(***************************************************************************)
EXTENDS Integers, Sequences, SequencesExt, FiniteSets, FiniteSetsExt, Subsequences

CONSTANTS
    Configured,        \* the sequence of the providers of the router
    Preferred,         \* the same providers in the order in which they are tried
    RouterCalls,       \* calls of invoke() in progress at once
    RetryAttempts,     \* retryAttempts
    FailureThreshold,  \* circuitFailureThreshold
    Cooldown           \* circuitCooldownMs in ticks of the model

Providers == ToSet(Configured)

ASSUME RouterAssumption ==
    /\ Configured \in Seq(Providers) /\ Preferred \in Seq(Providers)
    /\ ToSet(Preferred) = Providers
    /\ IsFiniteSet(RouterCalls)
    /\ RetryAttempts \in Nat \ {0}
    /\ FailureThreshold \in Nat \ {0}
    /\ Cooldown \in Nat \ {0}

VARIABLES
    breaker,    \* for each provider its consecutive failures, counted up to the threshold,
                \* and the time since its circuit opened, Closed where it did not
    routing,    \* where each call of invoke() is
    openTries,  \* history: attempts at a provider since its circuit last opened, while it was open
    trials      \* history: attempts at a provider after the cooldown of its circuit, until it
                \* closed or opened again

routerVars == <<breaker, routing, openTries, trials>>

Closed == -1

NoCall == [at |-> "idle", todo |-> <<>>, found |-> {}, attempt |-> 0]

\* `todo` are the providers still to be checked or tried, the current one first.
Routing == [at : {"idle", "health", "trying"}, todo : Seq(Providers), found : SUBSET Providers,
            attempt : 0 .. RetryAttempts]

RouterTypeOK ==
    /\ breaker \in [Providers -> [failures : 0 .. FailureThreshold, age : Closed .. Cooldown]]
    /\ routing \in [RouterCalls -> Routing]
    /\ openTries \in [Providers -> Nat]
    /\ trials \in [Providers -> Nat]

RouterInit ==
    /\ breaker = [p \in Providers |-> [failures |-> 0, age |-> Closed]]
    /\ routing = [c \in RouterCalls |-> NoCall]
    /\ openTries = [p \in Providers |-> 0]
    /\ trials = openTries

IsCircuitOpen(b, p) == b[p].age # Closed /\ b[p].age < Cooldown

\* The providers of a sequence from the first whose circuit is not open.
FromUsable(b, ps) ==
    LET usable == {i \in DOMAIN ps : ~IsCircuitOpen(b, ps[i])}
    IN  IF usable = {} THEN <<>> ELSE SubSeq(ps, Min(usable), Len(ps))

\* Fault: what is still to be tried is not looked at again.
TryNextUnchecked(b, ps) ==
    IF ps = <<>> THEN NoCall ELSE [at |-> "trying", todo |-> ps, found |-> {}, attempt |-> 1]

\* The loop over the candidates goes on to the next that may be tried.
TryNext(b, ps) ==
    LET rest == FromUsable(b, ps)
    IN  IF rest = <<>> THEN NoCall
        ELSE [at |-> "trying", todo |-> rest, found |-> {}, attempt |-> 1]

\* The loop over the configured providers goes on to the next health check, or
\* ends, and the candidates are tried in the order of preference.
CheckNext(b, ps, found) ==
    LET rest == FromUsable(b, ps)
    IN  IF rest = <<>> THEN TryNext(b, Kept(Preferred, found))
        ELSE [at |-> "health", todo |-> rest, found |-> found, attempt |-> 0]

\* The call goes to `next` with the circuits `b`: an attempt may begin.
Go(c, b, next) ==
    /\ breaker' = b
    /\ routing' = [routing EXCEPT ![c] = next]
    /\ LET begins(p) == next.at = "trying" /\ Head(next.todo) = p
           reopens(p) == b[p].age = 0 /\ ~IsCircuitOpen(breaker, p)
       IN  /\ openTries' = [p \in Providers |->
                 (IF reopens(p) THEN 0 ELSE openTries[p])
                    + (IF begins(p) /\ IsCircuitOpen(b, p) THEN 1 ELSE 0)]
           /\ trials' = [p \in Providers |->
                 IF b[p].age # Cooldown THEN 0
                 ELSE trials[p] + (IF begins(p) THEN 1 ELSE 0)]

-----------------------------------------------------------------------------
\* The constraints of a request leave some of the providers.
Invoke(c) ==
    /\ routing[c].at = "idle"
    /\ \E eligible \in SUBSET Providers :
          Go(c, breaker, CheckNext(breaker, Kept(Configured, eligible), {}))

HealthAnswers(c) ==
    /\ routing[c].at = "health"
    /\ \E up \in BOOLEAN :
          Go(c, breaker, CheckNext(breaker, Tail(routing[c].todo),
             IF up THEN routing[c].found \cup {Head(routing[c].todo)} ELSE routing[c].found))

RecordFailure(p) ==
    LET failures == Min({breaker[p].failures + 1, FailureThreshold})
    IN  [breaker EXCEPT ![p] = [failures |-> failures,
                                age |-> IF failures = FailureThreshold THEN 0 ELSE @.age]]

RecordSuccess(p) == [breaker EXCEPT ![p] = [failures |-> 0, age |-> Closed]]

Succeeds(c) ==
    /\ routing[c].at = "trying"
    /\ Go(c, RecordSuccess(Head(routing[c].todo)), NoCall)

\* The response has the wrong form, which ends the call.
Malformed(c) ==
    /\ routing[c].at = "trying"
    /\ Go(c, RecordFailure(Head(routing[c].todo)), NoCall)

\* The provider throws, or the timeout passes: another attempt follows without a
\* look at the circuit, or the next provider.
Fails(c) ==
    /\ routing[c].at = "trying"
    /\ LET b == RecordFailure(Head(routing[c].todo))
       IN  Go(c, b, IF routing[c].attempt < RetryAttempts
                    THEN [routing[c] EXCEPT !.attempt = @ + 1]
                    ELSE TryNext(b, Tail(routing[c].todo)))

RouterClock ==
    /\ \E p \in Providers : IsCircuitOpen(breaker, p)
    /\ breaker' = [p \in Providers |->
          IF IsCircuitOpen(breaker, p) THEN [breaker[p] EXCEPT !.age = @ + 1] ELSE breaker[p]]
    /\ UNCHANGED <<routing, openTries, trials>>

RouterNext ==
    \/ RouterClock
    \/ \E c \in RouterCalls : Invoke(c) \/ HealthAnswers(c) \/ Succeeds(c) \/ Malformed(c) \/ Fails(c)

RouterSpec == RouterInit /\ [][RouterNext]_routerVars
-----------------------------------------------------------------------------
(* Properties.                                                              *)

\* While a circuit is open its provider is left alone but for the attempts that
\* calls have left which were trying it, however many requests were checked
\* before and are still on their way to it. The bound counts the attempts of all
\* calls, also of those that were not trying it.
OpenMeansRest ==
    \A p \in Providers : openTries[p] <= Cardinality(RouterCalls) * (RetryAttempts - 1)

\* "After a 60-second cooldown, the breaker admits exactly one trial call"
\* (19-ordering-concurrency-and-retry-rules.md). Violated: isCircuitOpen() is
\* false for everyone from then on, until an attempt has come to its end.
OneTrialCall == \A p \in Providers : trials[p] <= 1
=============================================================================
