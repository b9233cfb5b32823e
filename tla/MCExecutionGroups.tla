-------------------------- MODULE MCExecutionGroups --------------------------
(* Bounded plans for ExecutionGroups: all short plans with every kind of     *)
(* malformed step, and longer ones with every graph of dependencies.         *)
EXTENDS ExecutionGroups

CONSTANT Repeats  \* whether a depends_on array may name a step twice

MCIds == 0 .. 4

MCLocks == {"x", "y"}

\* The identifiers of S as an array, in ascending order.
Array(S) == SelectSeq(<<0, 1, 2, 3, 4>>, LAMBDA i : i \in S)

\* Two steps whose identifiers may coincide; 0 is never the identifier of a step.
ShortPlans ==
    LET Short == [id : 1 .. 2, deps : {Array(D) : D \in SUBSET (0 .. 2)}, locks : SUBSET MCLocks]
    IN  {<<>>} \cup {<<s>> : s \in Short} \cup {<<s1, s2>> : s1, s2 \in Short}

\* Three steps that name each other or themselves, over two locks.
MiddlePlans ==
    LET At(i) == [id : {i}, deps : {Array(D) : D \in SUBSET (1 .. 3)}, locks : {{}, {"x"}, {"x", "y"}}]
        S1 == At(1)
        S2 == At(2)
        S3 == At(3)
    IN  {<<s1, s2, s3>> : s1 \in S1, s2 \in S2, s3 \in S3}

\* Four steps over one lock, of which the last may name two others.
LongPlans ==
    LET At(i, n) == [id : {i},
                     deps : {Array(D) : D \in {E \in SUBSET ((1 .. 4) \ {i}) : Cardinality(E) <= n}},
                     locks : SUBSET {"x"}]
        S1 == At(1, 1)
        S2 == At(2, 1)
        S3 == At(3, 1)
        S4 == At(4, 2)
    IN  {<<s1, s2, s3, s4>> : s1 \in S1, s2 \in S2, s3 \in S3, s4 \in S4}

\* A step that names another one twice.
RepeatingPlans ==
    {<<[id |-> 1, deps |-> <<>>, locks |-> {}], [id |-> 2, deps |-> <<1, 1>>, locks |-> L]>> :
        L \in SUBSET MCLocks}

MCPlans == IF Repeats THEN RepeatingPlans ELSE ShortPlans \cup MiddlePlans \cup LongPlans
=============================================================================
