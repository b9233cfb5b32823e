--------------------------- MODULE WorkflowEngine ---------------------------
(***************************************************************************)
(* Runs of one workflow, services/runtime/src/workflow-engine.ts: a graph  *)
(* of task, decision, approval, rollback, split, join and end nodes, with  *)
(* a checkpoint after every node, from which a later call resumes.         *)
(*                                                                         *)
(* Between two awaits a run goes through its loop without interruption:    *)
(* while a run is at "loop", nothing else moves.                           *)
(***************************************************************************)
EXTENDS Naturals, FiniteSets, Sequences

CONSTANTS
    Graphs,  \* the workflow definitions, one of which is run
    Calls    \* identifiers of calls of run() and resume(); bounds their number

Kinds == {"task", "decision", "human_approval", "rollback", "parallel_split", "join", "end"}

ASSUME GraphsAssumption ==
    \A g \in Graphs :
        /\ g.start \in DOMAIN g.kind
        /\ g.kind \in [DOMAIN g.kind -> Kinds]
        /\ g.edges \in Seq({g.edges[i] : i \in DOMAIN g.edges})
        /\ \A i \in DOMAIN g.edges :
              {g.edges[i].from, g.edges[i].to} \subseteq DOMAIN g.kind

VARIABLES
    graph,       \* the definition
    checkpoint,  \* the Valid checkpoint: a set with its record, or empty
    runs,        \* the execution behind each call
    verified     \* history: task nodes with a verified execution

vars == <<graph, checkpoint, runs, verified>>

Nodes == DOMAIN graph.kind

Kind(n) == graph.kind[n]

Edges == {graph.edges[i] : i \in DOMAIN graph.edges}

\* What a decision chooses or an approval answers. An edge without a condition
\* carries "always"; "other" names no edge.
Outcomes == {e.condition : e \in Edges} \cup {"none", "other", "approved", "denied"}

NoOutcomes == [n \in Nodes |-> "none"]

\* A branch is named by the node it starts with.
NoBranch == [at |-> "none", node |-> graph.start, aborted |-> FALSE]

Branch == [at : {"none", "task", "passed", "failed"}, node : Nodes, aborted : BOOLEAN]

Awaits == {"task", "approval", "rollback", "split"}

Run == [at : {"idle", "loop", "completed", "failed"} \cup Awaits, node : Nodes,
        completed : SUBSET Nodes, outcome : [Nodes -> Outcomes],
        branches : [Nodes -> Branch]]

TypeOK ==
    /\ graph \in Graphs
    /\ checkpoint \subseteq [completed : SUBSET Nodes, outcome : [Nodes -> Outcomes]]
    /\ Cardinality(checkpoint) <= 1
    /\ runs \in [Calls -> Run]
    /\ verified \subseteq Nodes
-----------------------------------------------------------------------------
(* The choice of the next node.                                             *)

Least(I) == CHOOSE i \in I : \A j \in I : i <= j

\* The target of the first of the edges I, as a set; none if I is empty.
FirstTarget(I) == IF I = {} THEN {} ELSE {graph.edges[Least(I)].to}

Open(e, outcome) == e.condition \in {"always", outcome[e.from]}

\* Fault: completed nodes are not excluded.
AlwaysPending(e, completed) == TRUE

Pending(e, completed) == e.to \notin completed

\* Edges out of `from` whose condition holds.
Direct(completed, from, outcome) ==
    {i \in DOMAIN graph.edges :
        LET e == graph.edges[i] IN e.from = from /\ Open(e, outcome) /\ Pending(e, completed)}

\* Edges into nodes all of whose predecessors are completed.
Unblocked(completed) ==
    {i \in DOMAIN graph.edges :
        LET e == graph.edges[i] IN
        /\ Pending(e, completed)
        /\ \A f \in Edges : f.to = e.to => f.from \in completed}

NextPending(completed, from, outcome) ==
    LET direct == Direct(completed, from, outcome) IN
    FirstTarget(IF direct # {} THEN direct ELSE Unblocked(completed))
-----------------------------------------------------------------------------
(* Steps of a run.                                                          *)

Init ==
    /\ graph \in Graphs
    /\ checkpoint = {}
    /\ runs = [c \in Calls |->
                 [at |-> "idle", node |-> graph.start, completed |-> {}, outcome |-> NoOutcomes,
                  branches |-> [n \in Nodes |-> NoBranch]]]
    /\ verified = {}

\* No run is in the middle of its turn.
EventLoopFree == \A c \in Calls : runs[c].at # "loop"

Become(c, r) == runs' = [runs EXCEPT ![c] = r]

Fail(c) == Become(c, [runs[c] EXCEPT !.at = "failed"]) /\ UNCHANGED checkpoint

\* A new checkpoint supersedes the Valid one.
PersistCheckpoint(completed, outcome) == {[completed |-> completed, outcome |-> outcome]}

\* executeFrom begins, after a completed set that may be empty.
ExecuteFrom(c, completed, outcome) ==
    LET first == IF completed = {} THEN {graph.start}
                                   ELSE NextPending(completed, graph.start, NoOutcomes) IN
    IF first = {}
      THEN Fail(c)
      ELSE /\ \E n \in first :
                Become(c, [runs[c] EXCEPT !.at = "loop", !.node = n, !.completed = completed,
                                          !.outcome = outcome])
           /\ checkpoint' = IF checkpoint # {} THEN checkpoint
                            ELSE PersistCheckpoint(completed, outcome)

Start(c) ==
    /\ runs[c].at = "idle" /\ EventLoopFree
    /\ ExecuteFrom(c, {}, NoOutcomes)
    /\ UNCHANGED <<graph, verified>>

\* resume() takes the Valid checkpoint, also while a run goes on.
Resume(c) ==
    /\ runs[c].at = "idle" /\ EventLoopFree
    /\ \E k \in checkpoint : ExecuteFrom(c, k.completed, k.outcome)
    /\ UNCHANGED <<graph, verified>>

\* Node n of run r is done: a checkpoint is written and the next node chosen.
\* A run that is past its time limit by then fails instead.
Advance(c, r, n) ==
    \/ Fail(c)
    \/ LET completed == r.completed \cup {n}
           next == NextPending(completed, n, r.outcome)
           after == [r EXCEPT !.completed = completed] IN
       /\ checkpoint' = PersistCheckpoint(completed, r.outcome)
       /\ IF Kind(n) = "end" THEN Become(c, [after EXCEPT !.at = "completed"])
          ELSE IF next = {} THEN Become(c, [after EXCEPT !.at = "failed"])
          ELSE \E m \in next : Become(c, [after EXCEPT !.at = "loop", !.node = m])

\* A branch goes on to the node in n, if there is one: up to a join it may only
\* hold tasks, and it starts none when it was aborted or the time is up.
Enter(b, n) ==
    IF n = {} \/ \E m \in n : Kind(m) = "join"
      THEN {[b EXCEPT !.at = "passed"]}
      ELSE {[b EXCEPT !.at = "failed"]} \cup
           {[b EXCEPT !.at = "task", !.node = m] : m \in {k \in n : Kind(k) = "task" /\ ~ b.aborted}}

Outgoing(n) == {i \in DOMAIN graph.edges : graph.edges[i].from = n}

\* Fault: a failed branch leaves the others alone.
NoAborts(branches) == branches

\* A failed branch aborts those that still execute a step.
WithAborts(branches) ==
    IF \E n \in Nodes : branches[n].at = "failed"
      THEN [n \in Nodes |-> [branches[n] EXCEPT !.aborted = branches[n].at = "task"]]
      ELSE branches

\* All branches of the split start in one turn.
EnterSplit(c, n) ==
    LET heads == {graph.edges[i].to : i \in Outgoing(n)}
        entered == UNION {Enter(NoBranch, {h}) : h \in heads} IN
    /\ \E f \in [heads -> entered] :
         /\ \A h \in heads : f[h] \in Enter(NoBranch, {h})
         /\ Become(c, [runs[c] EXCEPT
              !.at = "split", !.completed = @ \cup {n},
              !.branches = WithAborts([m \in Nodes |-> IF m \in heads THEN f[m] ELSE NoBranch])])
    /\ UNCHANGED checkpoint

\* One turn of the loop. A run that is past one of its limits fails.
Loop(c) ==
    LET r == runs[c]
        n == r.node IN
    /\ r.at = "loop"
    /\ \/ Fail(c)
       \/ Kind(n) = "task" /\ Become(c, [r EXCEPT !.at = "task"]) /\ UNCHANGED checkpoint
       \/ Kind(n) = "human_approval" /\ Become(c, [r EXCEPT !.at = "approval"]) /\ UNCHANGED checkpoint
       \/ Kind(n) = "rollback" /\ Become(c, [r EXCEPT !.at = "rollback"]) /\ UNCHANGED checkpoint
       \/ Kind(n) = "parallel_split" /\ EnterSplit(c, n)
       \/ /\ Kind(n) = "decision"
          /\ \E o \in {graph.edges[i].condition : i \in Outgoing(n)} \cup {"other"} :
               Advance(c, [r EXCEPT !.outcome[n] = o], n)
       \/ Kind(n) \in {"join", "end"} /\ Advance(c, r, n)
    /\ UNCHANGED <<graph, verified>>

\* The step of a task node settles: verified, or failed or timed out.
TaskSettles(c) ==
    LET r == runs[c] IN
    /\ r.at = "task" /\ EventLoopFree
    /\ \/ Advance(c, r, r.node) /\ verified' = verified \cup {r.node}
       \/ Fail(c) /\ UNCHANGED verified
    /\ UNCHANGED graph

\* The user answers; no answer in time is a denial.
Approve(c) ==
    LET r == runs[c] IN
    /\ r.at = "approval" /\ EventLoopFree
    /\ \E o \in {"approved", "denied"} : Advance(c, [r EXCEPT !.outcome[r.node] = o], r.node)
    /\ UNCHANGED <<graph, verified>>

\* compensate() returns, or throws and with it the run.
RolledBack(c) ==
    /\ runs[c].at = "rollback" /\ EventLoopFree
    /\ Advance(c, runs[c], runs[c].node) \/ Fail(c)
    /\ UNCHANGED <<graph, verified>>

\* The step of branch h settles. Unless the branch was aborted and the step is
\* verified, the branch fails.
BranchSettles(c, h) ==
    LET r == runs[c]
        b == r.branches[h] IN
    /\ r.at = "split" /\ b.at = "task" /\ EventLoopFree
    /\ \/ /\ ~ b.aborted
          /\ \E next \in Enter(b, FirstTarget(Outgoing(b.node))) :
               Become(c, [r EXCEPT !.completed = @ \cup {b.node},
                                   !.branches = WithAborts([@ EXCEPT ![h] = next])])
          /\ verified' = verified \cup {b.node}
       \/ /\ Become(c, [r EXCEPT !.branches = WithAborts([@ EXCEPT ![h].at = "failed"])])
          /\ UNCHANGED verified
    /\ UNCHANGED <<graph, checkpoint>>

\* Faults: a split counts as passed with the branches that did; it waits for all
\* of them to pass.
SplitPasses(c) ==
    LET r == runs[c] IN
    /\ r.at = "split" /\ EventLoopFree
    /\ \A h \in Nodes : r.branches[h].at # "task"
    /\ Advance(c, r, r.node)
    /\ UNCHANGED <<graph, verified>>

SplitWaits(c) ==
    LET r == runs[c] IN
    /\ r.at = "split" /\ EventLoopFree
    /\ \A h \in Nodes : r.branches[h].at \in {"none", "passed"}
    /\ Advance(c, r, r.node)
    /\ UNCHANGED <<graph, verified>>

\* Every branch has settled: the split fails with one of them, or is done.
SplitSettles(c) ==
    LET r == runs[c] IN
    /\ r.at = "split" /\ EventLoopFree
    /\ \A h \in Nodes : r.branches[h].at # "task"
    /\ IF \E h \in Nodes : r.branches[h].at = "failed" THEN Fail(c) ELSE Advance(c, r, r.node)
    /\ UNCHANGED <<graph, verified>>

\* The steps of a run that its code brings about: its own turns, and what is
\* awaited under a timeout.
Settles(c) ==
    \/ Loop(c) \/ TaskSettles(c) \/ Approve(c) \/ SplitSettles(c)
    \/ \E h \in Nodes : BranchSettles(c, h)

Next == \E c \in Calls : Start(c) \/ Resume(c) \/ Settles(c) \/ RolledBack(c)

\* Steps and approvals settle, by their timeouts at the latest. compensate() is
\* awaited without one and owes no answer.
Fairness == \A c \in Calls : WF_vars(Settles(c))

Spec == Init /\ [][Next]_vars /\ Fairness
-----------------------------------------------------------------------------
(* Workflows as the documentation draws them.                               *)

\* The branches of a split are independent: lists of tasks of their own, from an
\* edge of the split to a join, and nothing else leads to either. `first` says
\* for each task of a branch which one the branch begins with, and `place` where
\* in the branch it is. validate() does not ask for any of it.
Laid(g, first, place) ==
    /\ DOMAIN first \subseteq {n \in DOMAIN g.kind : g.kind[n] = "task"}
    /\ g.start \notin DOMAIN first /\ g.kind[g.start] # "join"
    /\ \A n \in DOMAIN first :
         /\ place[n] \in Nat
         /\ \E i \in DOMAIN g.edges : g.edges[i].from = n
         /\ \A m \in DOMAIN first : first[m] = first[n] /\ place[m] = place[n] => m = n
    /\ \A i \in DOMAIN g.edges :
         LET e == g.edges[i] IN
         /\ g.kind[e.from] = "parallel_split" =>
              /\ e.to \in DOMAIN first /\ first[e.to] = e.to /\ place[e.to] = 0
              /\ \A j \in DOMAIN g.edges : g.edges[j].to = e.to => g.edges[j].from = e.from
         /\ e.to \in DOMAIN first =>
              \/ g.kind[e.from] = "parallel_split"
              \/ e.from \in DOMAIN first /\ first[e.from] = first[e.to]
         /\ e.from \in DOMAIN first =>
              \/ /\ e.to \in DOMAIN first /\ first[e.to] = first[e.from]
                 /\ place[e.to] = place[e.from] + 1
              \/ /\ g.kind[e.to] = "join"
                 /\ \A m \in DOMAIN first : first[m] = first[e.from] => place[m] <= place[e.from]
         /\ g.kind[e.to] = "join" => e.from \in DOMAIN first
-----------------------------------------------------------------------------
(* Properties.                                                              *)

\* Every step that a checkpoint counts as completed was verified, and a join in
\* it has all of its branches: nothing that failed, or that a failed branch
\* left behind in the shared set, is ever resumed from.
CheckpointSound ==
    \A k \in checkpoint : \A n \in k.completed :
        /\ Kind(n) = "task" => n \in verified
        /\ Kind(n) \in {"join", "parallel_split"} =>
             \A e \in Edges :
                 /\ Kind(n) = "join" /\ e.to = n => e.from \in k.completed
                 /\ Kind(n) = "parallel_split" /\ e.from = n => e.to \in k.completed

\* The nodes that run r executes at the moment.
Executing(r) ==
    IF r.at = "split" THEN {r.branches[h].node : h \in {m \in Nodes : r.branches[m].at = "task"}}
    ELSE IF r.at \in Awaits THEN {r.node} ELSE {}

\* A run, also a resumed one, executes no node that it holds for completed, and
\* no node in two of its branches.
NothingTwice == \A c \in Calls : Executing(runs[c]) \cap runs[c].completed = {}

\* A predecessor of n is completed, and its outcome lets n run.
Permitted(r, n) == \E e \in Edges : e.to = n /\ e.from \in r.completed /\ Open(e, r.outcome)

\* Every outcome so far is one that an edge of the graph is for.
Foreseen(r) ==
    \A n \in r.completed :
        Kind(n) \in {"decision", "human_approval"} =>
            \E e \in Edges : e.from = n /\ e.condition = r.outcome[n]

\* A decision takes one path, and an approval "gates which of several subsequent
\* paths executes": nothing runs behind a decision or an approval that chose
\* otherwise, as long as the graph has an edge for the choice.
GatesObeyed ==
    \A c \in Calls :
        Foreseen(runs[c]) => \A n \in Executing(runs[c]) \ {graph.start} : Permitted(runs[c], n)

\* Once a branch has failed, no other branch starts a further step.
FailFast ==
    [][\A c \in Calls :
          (runs[c].at = "split" /\ \E h \in Nodes : runs[c].branches[h].at = "failed")
             => Executing(runs'[c]) \subseteq Executing(runs[c])]_vars

Ended == {"completed", "failed"}

\* Every run completes or fails, whatever its branches do, unless the last thing
\* it ever awaits is a compensation: no split waits for ever for one of them.
EndsOrRollsBack ==
    \A c \in Calls : <>[](runs[c].at = "rollback") \/ (runs[c].at # "idle" ~> runs[c].at \in Ended)

\* The timeout of a workflow bounds "the entire graph's total execution time",
\* and exceeding it "fails the workflow instance explicitly" (workflow-engine.md):
\* every run completes or fails. Violated: a compensation may never settle.
EveryRunEnds ==
    \A c \in Calls : runs[c].at # "idle" ~> runs[c].at \in Ended
=============================================================================
