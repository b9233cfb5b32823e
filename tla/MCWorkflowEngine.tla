-------------------------- MODULE MCWorkflowEngine --------------------------
(* Workflows for TLC: the graph drawn in docs/17-workflow/workflow-engine.md, *)
(* and one whose branches have several steps.                                 *)
EXTENDS WorkflowEngine

CONSTANTS c1, c2, c3

Edge(from, to) == [from |-> from, to |-> to, condition |-> "always"]

When(condition, from, to) == [from |-> from, to |-> to, condition |-> condition]

DocumentedKind ==
    [t1 |-> "task", d |-> "decision", p |-> "parallel_split", t2 |-> "task",
               t3 |-> "task", t4 |-> "task", j |-> "join", ha |-> "human_approval",
               t5 |-> "task", rb |-> "rollback", e |-> "end"]

\* A decision between a split with an approval, and a task: the edges in the
\* order of the drawing.
Documented ==
    [start |-> "t1", kind |-> DocumentedKind,
     edges |-> << Edge("t1", "d"), When("A", "d", "p"), When("B", "d", "t2"),
                  Edge("p", "t3"), Edge("p", "t4"), Edge("t3", "j"), Edge("t4", "j"),
                  Edge("j", "ha"), When("approved", "ha", "t5"), When("denied", "ha", "rb"),
                  Edge("t2", "e"), Edge("t5", "e"), Edge("rb", "e") >>]

\* The same with the edges into the join before those out of the decision.
JoinFirst ==
    [start |-> "t1", kind |-> DocumentedKind,
     edges |-> << Edge("t3", "j"), Edge("t4", "j"), Edge("t1", "d"), When("A", "d", "p"),
                  When("B", "d", "t2"), Edge("p", "t3"), Edge("p", "t4"),
                  Edge("j", "ha"), When("approved", "ha", "t5"), When("denied", "ha", "rb"),
                  Edge("t2", "e"), Edge("t5", "e"), Edge("rb", "e") >>]

\* A split at the start with a branch of two steps beside one of a single step.
Branching ==
    [start |-> "p",
     kind |-> [p |-> "parallel_split", t1 |-> "task", t2 |-> "task", t3 |-> "task",
               j |-> "join", e |-> "end"],
     edges |-> << Edge("p", "t1"), Edge("t1", "t2"), Edge("t2", "j"),
                  Edge("p", "t3"), Edge("t3", "j"), Edge("j", "e") >>]

MCGraphs == {Documented, JoinFirst, Branching}

\* They have the shape that the theorems about checkpoints and runs ask for.
ASSUME GraphsAreLaid ==
    /\ \A g \in {Documented, JoinFirst} :
          Laid(g, [t3 |-> "t3", t4 |-> "t4"], [t3 |-> 0, t4 |-> 0])
    /\ Laid(Branching, [t1 |-> "t1", t2 |-> "t1", t3 |-> "t3"], [t1 |-> 0, t2 |-> 1, t3 |-> 0])
=============================================================================
