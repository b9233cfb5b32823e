------------------------- MODULE MCStepExecution -------------------------
(* TLC instances of the locked step execution: two tasks, two resources.    *)
EXTENDS StepExecution, TLC

CONSTANTS r1, r2, t1, t2

Write(R) == [readOnly |-> FALSE, locks |-> R]
Read == [readOnly |-> TRUE, locks |-> {r2}]

\* A write on both resources; writes side by side; two writes in turn; a read
\* of one resource beside writes of the other and of none.
MCPlans ==
    { << {Write({r1, r2})} >>,
      << {Write({r1}), Write({r2})} >>,
      << {Write({r2})}, {Write({r1}), Read, Write({})} >> }
=============================================================================
