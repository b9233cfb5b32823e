----------------------- MODULE WorkflowEngine_proofs -----------------------
(***************************************************************************)
(* What a checkpoint counts as completed, for every workflow and any number *)
(* of runs and resumptions that go on at once.                              *)
(***************************************************************************)
EXTENDS WorkflowEngine, Subsequences_proofs

\* The task nodes of the set are among those in V.
Within(g, nodes, V) == \A n \in nodes : g.kind[n] = "task" => n \in V

\* Nothing that failed, or that a failed branch left behind, is resumed from:
\* the part of CheckpointSound that is about steps.
CheckpointVerified == \A k \in checkpoint : Within(graph, k.completed, verified)

\* A run awaits what its node is for.
Awaiting(g, r) ==
    /\ r.at = "approval" => g.kind[r.node] = "human_approval"
    /\ r.at = "rollback" => g.kind[r.node] = "rollback"
    /\ r.at = "split" => g.kind[r.node] = "parallel_split"

Shape(r) == DOMAIN r = {"at", "node", "completed", "outcome", "branches"}

\* Also what a run counts as completed has been verified, at any time: the next
\* checkpoint is made of it.
CompletedInv ==
    /\ DOMAIN runs = Calls
    /\ \A c \in Calls :
          Shape(runs[c]) /\ Awaiting(graph, runs[c]) /\ Within(graph, runs[c].completed, verified)
    /\ CheckpointVerified
-----------------------------------------------------------------------------
\* A call takes a step, and at most a verified checkpoint is new.
LEMMA BecomeInv ==
    ASSUME CompletedInv, graph' = graph, verified \subseteq verified',
           NEW c, NEW r, Become(c, r),
           Shape(r), Awaiting(graph, r), Within(graph, r.completed, verified'),
           \A k \in checkpoint' : k \in checkpoint \/ Within(graph, k.completed, verified')
    PROVE  CompletedInv'
<1>1. DOMAIN runs' = Calls /\ \A d \in Calls : runs'[d] = IF d = c THEN r ELSE runs[d]
  BY DEF CompletedInv, Become
<1>2. \A S : Within(graph, S, verified) => Within(graph, S, verified')
  BY DEF Within
<1>3. ASSUME NEW d \in Calls
      PROVE  Shape(runs'[d]) /\ Awaiting(graph, runs'[d]) /\ Within(graph, runs'[d].completed, verified')
  BY <1>1, <1>2 DEF CompletedInv
<1>4. ASSUME NEW k \in checkpoint'
      PROVE  Within(graph, k.completed, verified')
  BY <1>2 DEF CompletedInv, CheckpointVerified
<1> QED BY <1>1, <1>3, <1>4 DEF CompletedInv, CheckpointVerified

LEMMA FailInv ==
    ASSUME CompletedInv, graph' = graph, verified \subseteq verified', NEW c \in Calls, Fail(c)
    PROVE  CompletedInv'
<1> PICK f : f = [runs[c] EXCEPT !.at = "failed"]
  OBVIOUS
<1>1. Shape(f) /\ f.at = "failed" /\ f.completed = runs[c].completed
  BY DEF CompletedInv, Shape
<1>2. Within(graph, f.completed, verified')
  BY <1>1 DEF CompletedInv, Within
<1>3. Become(c, f) /\ checkpoint' = checkpoint
  BY DEF Fail
<1> QED BY <1>1, <1>2, <1>3, BecomeInv DEF Awaiting

\* A node is done: where it is a task, it has been verified.
LEMMA AdvanceInv ==
    ASSUME CompletedInv, graph' = graph, verified \subseteq verified',
           NEW c \in Calls, NEW r, Shape(r), r.completed = runs[c].completed,
           NEW n, graph.kind[n] = "task" => n \in verified', Advance(c, r, n)
    PROVE  CompletedInv'
<1> SUFFICES ASSUME ~Fail(c)
             PROVE  CompletedInv'
  BY FailInv
<1> PICK completed : completed = r.completed \cup {n}
  OBVIOUS
<1>1. Within(graph, completed, verified')
  BY DEF CompletedInv, Within
<1> PICK after : after = [r EXCEPT !.completed = completed]
  OBVIOUS
<1>2. Shape(after) /\ after.completed = completed
  BY DEF Shape
<1>3. /\ checkpoint' = {[completed |-> completed, outcome |-> r.outcome]}
      /\ \/ Become(c, [after EXCEPT !.at = "completed"])
         \/ Become(c, [after EXCEPT !.at = "failed"])
         \/ \E m : Become(c, [after EXCEPT !.at = "loop", !.node = m])
  BY DEF Advance, PersistCheckpoint
<1>4. ASSUME NEW k \in checkpoint'
      PROVE  Within(graph, k.completed, verified')
  <2>1. k = [completed |-> completed, outcome |-> r.outcome]
    BY <1>3
  <2>2. k.completed = completed
    BY <2>1
  <2> QED BY <1>1, <2>2
<1>5. ASSUME NEW s, Become(c, s), Shape(s), s.completed = completed, s.at \in {"completed", "failed", "loop"}
      PROVE  CompletedInv'
  BY <1>1, <1>4, <1>5, BecomeInv DEF Awaiting
<1>6. ASSUME NEW at \in {"completed", "failed"}, Become(c, [after EXCEPT !.at = at])
      PROVE  CompletedInv'
  <2> PICK s : s = [after EXCEPT !.at = at]
    OBVIOUS
  <2>1. Shape(s) /\ s.completed = completed /\ s.at = at
    BY <1>2 DEF Shape
  <2> QED BY <1>5, <1>6, <2>1
<1>7. ASSUME NEW m, Become(c, [after EXCEPT !.at = "loop", !.node = m])
      PROVE  CompletedInv'
  <2> PICK s : s = [after EXCEPT !.at = "loop", !.node = m]
    OBVIOUS
  <2>1. Shape(s) /\ s.completed = completed /\ s.at = "loop"
    BY <1>2 DEF Shape
  <2> QED BY <1>5, <1>7, <2>1
<1> QED BY <1>3, <1>6, <1>7

\* A run goes on in another state, with the same nodes completed.
LEMMA GoesOnInv ==
    ASSUME CompletedInv, graph' = graph, verified' = verified, checkpoint' = checkpoint,
           NEW c \in Calls, NEW at, Awaiting(graph, [runs[c] EXCEPT !.at = at]),
           Become(c, [runs[c] EXCEPT !.at = at])
    PROVE  CompletedInv'
<1> PICK s : s = [runs[c] EXCEPT !.at = at]
  OBVIOUS
<1>1. Shape(s) /\ s.completed = runs[c].completed
  BY DEF CompletedInv, Shape
<1>2. Within(graph, s.completed, verified')
  BY <1>1 DEF CompletedInv
<1> QED BY <1>1, <1>2, BecomeInv

\* executeFrom() begins after a set of nodes that a checkpoint held, or none.
LEMMA ExecuteFromInv ==
    ASSUME CompletedInv, graph' = graph, verified' = verified,
           NEW c \in Calls, NEW completed, NEW outcome,
           Within(graph, completed, verified), ExecuteFrom(c, completed, outcome)
    PROVE  CompletedInv'
<1> SUFFICES ASSUME ~Fail(c)
             PROVE  CompletedInv'
  BY FailInv
<1>1. /\ checkpoint' \in {checkpoint, {[completed |-> completed, outcome |-> outcome]}}
      /\ \E n : Become(c, [runs[c] EXCEPT !.at = "loop", !.node = n, !.completed = completed,
                                           !.outcome = outcome])
  BY DEF ExecuteFrom, PersistCheckpoint
<1> PICK n : Become(c, [runs[c] EXCEPT !.at = "loop", !.node = n, !.completed = completed,
                                       !.outcome = outcome])
  BY <1>1
<1> PICK s : s = [runs[c] EXCEPT !.at = "loop", !.node = n, !.completed = completed, !.outcome = outcome]
  OBVIOUS
<1>2. Shape(s) /\ s.at = "loop" /\ s.completed = completed
  BY DEF CompletedInv, Shape
<1>3. ASSUME NEW k \in checkpoint', k \notin checkpoint
      PROVE  Within(graph, k.completed, verified')
  <2>1. k = [completed |-> completed, outcome |-> outcome]
    BY <1>1, <1>3
  <2>2. k.completed = completed
    BY <2>1
  <2> QED BY <2>2
<1> QED BY <1>2, <1>3, BecomeInv DEF Awaiting

LEMMA StartInv ==
    ASSUME CompletedInv, NEW c \in Calls, Start(c)
    PROVE  CompletedInv'
BY ExecuteFromInv DEF Start, Within

LEMMA ResumeInv ==
    ASSUME CompletedInv, NEW c \in Calls, Resume(c)
    PROVE  CompletedInv'
<1> PICK k \in checkpoint : ExecuteFrom(c, k.completed, k.outcome)
  BY DEF Resume
<1>1. Within(graph, k.completed, verified)
  BY DEF CompletedInv, CheckpointVerified
<1> QED BY <1>1, ExecuteFromInv DEF Resume

\* The branches of a split have been entered: the split itself is no task.
LEMMA EnterSplitInv ==
    ASSUME CompletedInv, graph' = graph, verified' = verified,
           NEW c \in Calls, Kind(runs[c].node) = "parallel_split", EnterSplit(c, runs[c].node)
    PROVE  CompletedInv'
<1> PICK n : n = runs[c].node
  OBVIOUS
<1> PICK branches :
      Become(c, [runs[c] EXCEPT !.at = "split", !.completed = @ \cup {n}, !.branches = branches])
  BY DEF EnterSplit
<1> PICK s : s = [runs[c] EXCEPT !.at = "split", !.completed = runs[c].completed \cup {n}, !.branches = branches]
  OBVIOUS
<1>1. Shape(s) /\ s.node = n /\ s.completed = runs[c].completed \cup {n}
  BY DEF CompletedInv, Shape
<1>2. Within(graph, s.completed, verified')
  BY <1>1 DEF CompletedInv, Within, Kind
<1>3. Awaiting(graph, s) /\ checkpoint' = checkpoint
  BY <1>1 DEF Awaiting, Kind, EnterSplit
<1> QED BY <1>1, <1>2, <1>3, BecomeInv

LEMMA LoopInv ==
    ASSUME CompletedInv, NEW c \in Calls, Loop(c)
    PROVE  CompletedInv'
<1> PICK r : r = runs[c]
  OBVIOUS
<1>1. Shape(r) /\ r.completed = runs[c].completed /\ UNCHANGED <<graph, verified>>
  BY DEF CompletedInv, Loop
<1>2. CASE Fail(c)
  BY <1>1, <1>2, FailInv
<1>3. ASSUME NEW at, Become(c, [r EXCEPT !.at = at]), checkpoint' = checkpoint,
             \/ at = "task"
             \/ at = "approval" /\ Kind(r.node) = "human_approval"
             \/ at = "rollback" /\ Kind(r.node) = "rollback"
      PROVE  CompletedInv'
  <2> PICK s : s = [r EXCEPT !.at = at]
    OBVIOUS
  <2>1. s.at = at /\ s.node = r.node
    BY <1>1 DEF Shape
  <2>2. Awaiting(graph, s)
    BY <1>3, <2>1 DEF Awaiting, Kind
  <2> QED BY <1>1, <1>3, <2>2, GoesOnInv
<1>4. CASE Kind(r.node) = "parallel_split" /\ EnterSplit(c, r.node)
  BY <1>1, <1>4, EnterSplitInv
<1>5. ASSUME NEW o, Kind(r.node) = "decision", Advance(c, [r EXCEPT !.outcome[r.node] = o], r.node)
      PROVE  CompletedInv'
  <2> PICK s : s = [r EXCEPT !.outcome[r.node] = o]
    OBVIOUS
  <2>1. Shape(s) /\ s.completed = r.completed
    BY <1>1 DEF Shape
  <2> QED BY <1>1, <1>5, <2>1, AdvanceInv DEF Kind
<1>6. CASE Kind(r.node) \in {"join", "end"} /\ Advance(c, r, r.node)
  BY <1>1, <1>6, AdvanceInv DEF Kind
<1> QED BY <1>2, <1>3, <1>4, <1>5, <1>6 DEF Loop

\* A step counts as completed in the turn in which it was verified.
LEMMA TaskSettlesInv ==
    ASSUME CompletedInv, NEW c \in Calls, TaskSettles(c)
    PROVE  CompletedInv'
<1>1. Shape(runs[c])
  BY DEF CompletedInv
<1> QED BY <1>1, AdvanceInv, FailInv DEF TaskSettles

LEMMA ApproveInv ==
    ASSUME CompletedInv, NEW c \in Calls, Approve(c)
    PROVE  CompletedInv'
<1> PICK n : n = runs[c].node
  OBVIOUS
<1> PICK o : Advance(c, [runs[c] EXCEPT !.outcome[n] = o], n)
  BY DEF Approve
<1> PICK s : s = [runs[c] EXCEPT !.outcome[n] = o]
  OBVIOUS
<1>1. Shape(s) /\ s.completed = runs[c].completed
  BY DEF CompletedInv, Shape
<1>2. graph.kind[n] = "human_approval"
  BY DEF CompletedInv, Awaiting, Approve
<1> QED BY <1>1, <1>2, AdvanceInv DEF Approve

LEMMA RolledBackInv ==
    ASSUME CompletedInv, NEW c \in Calls, RolledBack(c)
    PROVE  CompletedInv'
<1>1. Shape(runs[c]) /\ graph.kind[runs[c].node] = "rollback"
  BY DEF CompletedInv, Awaiting, RolledBack
<1> QED BY <1>1, AdvanceInv, FailInv DEF RolledBack

LEMMA SplitSettlesInv ==
    ASSUME CompletedInv, NEW c \in Calls, SplitSettles(c)
    PROVE  CompletedInv'
<1>1. Shape(runs[c]) /\ graph.kind[runs[c].node] = "parallel_split"
  BY DEF CompletedInv, Awaiting, SplitSettles
<1> QED BY <1>1, AdvanceInv, FailInv DEF SplitSettles

\* A branch adds the step that it has verified to the set of the run; whether
\* the split fails later is another matter.
LEMMA BranchSettlesInv ==
    ASSUME CompletedInv, NEW c \in Calls, NEW h, BranchSettles(c, h)
    PROVE  CompletedInv'
<1> PICK r : r = runs[c]
  OBVIOUS
<1> PICK n : n = r.branches[h].node
  OBVIOUS
<1>1. /\ Shape(r) /\ r.at = "split" /\ UNCHANGED <<graph, checkpoint>> /\ verified \subseteq verified'
      /\ Awaiting(graph, r) /\ Within(graph, r.completed, verified)
  BY DEF CompletedInv, BranchSettles
<1>2. \/ /\ verified' = verified \cup {n}
         /\ \E b : Become(c, [r EXCEPT !.completed = r.completed \cup {n}, !.branches = b])
      \/ \E b : Become(c, [r EXCEPT !.branches = b])
  BY DEF BranchSettles
<1>3. ASSUME NEW s, Become(c, s), Shape(s), s.at = r.at, s.node = r.node,
             Within(graph, s.completed, verified')
      PROVE  CompletedInv'
  BY <1>1, <1>3, BecomeInv DEF Awaiting
<1>4. ASSUME NEW b, verified' = verified \cup {n},
             Become(c, [r EXCEPT !.completed = r.completed \cup {n}, !.branches = b])
      PROVE  CompletedInv'
  <2> PICK s : s = [r EXCEPT !.completed = r.completed \cup {n}, !.branches = b]
    OBVIOUS
  <2>1. Shape(s) /\ s.at = r.at /\ s.node = r.node /\ s.completed = r.completed \cup {n}
    BY <1>1 DEF Shape
  <2>2. Within(graph, s.completed, verified')
    BY <1>1, <1>4, <2>1 DEF Within
  <2> QED BY <1>3, <1>4, <2>1, <2>2
<1>5. ASSUME NEW b, Become(c, [r EXCEPT !.branches = b])
      PROVE  CompletedInv'
  <2> PICK s : s = [r EXCEPT !.branches = b]
    OBVIOUS
  <2>1. Shape(s) /\ s.at = r.at /\ s.node = r.node /\ s.completed = r.completed
    BY <1>1 DEF Shape
  <2>2. Within(graph, s.completed, verified')
    BY <1>1, <2>1 DEF Within
  <2> QED BY <1>3, <1>5, <2>1, <2>2
<1> QED BY <1>2, <1>4, <1>5

LEMMA CompletedStep ==
    ASSUME CompletedInv, [Next]_vars
    PROVE  CompletedInv'
<1>1. CASE UNCHANGED vars
  BY <1>1 DEF vars, CompletedInv, CheckpointVerified
<1> QED
  BY <1>1, StartInv, ResumeInv, LoopInv, TaskSettlesInv, ApproveInv, RolledBackInv, SplitSettlesInv,
     BranchSettlesInv
  DEF Next, Settles
-----------------------------------------------------------------------------
\* Every step that a checkpoint counts as completed was verified, in whatever
\* order runs, resumptions and the branches of a split come, and whichever of
\* them fail: a resumption skips nothing that was not done (persistCheckpoint).
THEOREM CheckpointVerifiedHolds == Spec => []CheckpointVerified
<1>1. Init => CompletedInv
  BY DEF Init, CompletedInv, Shape, Awaiting, Within, CheckpointVerified
<1>2. CompletedInv /\ [Next]_vars => CompletedInv'
  BY CompletedStep
<1>3. CompletedInv => CheckpointVerified
  BY DEF CompletedInv
<1> QED BY <1>1, <1>2, <1>3, PTL DEF Spec
-----------------------------------------------------------------------------
(* The branches of a split.                                                 *)

BranchShape(b) == DOMAIN b = {"at", "node", "aborted"}

RunShape(r) ==
    Shape(r) /\ DOMAIN r.branches = Nodes /\ \A h \in Nodes : BranchShape(r.branches[h])

\* A failed branch has aborted those that execute a step.
Aborts(branches) ==
    (\E h \in Nodes : branches[h].at = "failed") =>
        \A h \in Nodes : branches[h].at = "task" => branches[h].aborted

AbortInv ==
    /\ DOMAIN runs = Calls
    /\ \A c \in Calls : RunShape(runs[c]) /\ (runs[c].at = "split" => Aborts(runs[c].branches))

\* An abort leaves every branch where it is.
LEMMA WithAbortsAborts ==
    ASSUME NEW bs, DOMAIN bs = Nodes, \A h \in Nodes : BranchShape(bs[h]),
           NEW w, w = WithAborts(bs)
    PROVE  /\ DOMAIN w = Nodes /\ Aborts(w)
           /\ \A h \in Nodes : BranchShape(w[h]) /\ w[h].at = bs[h].at /\ w[h].node = bs[h].node
<1>1. CASE \E n \in Nodes : bs[n].at = "failed"
  <2>1. w = [n \in Nodes |-> [bs[n] EXCEPT !.aborted = bs[n].at = "task"]]
    BY <1>1 DEF WithAborts
  <2>2. ASSUME NEW h \in Nodes
        PROVE  /\ BranchShape(w[h]) /\ w[h].at = bs[h].at /\ w[h].node = bs[h].node
               /\ w[h].aborted = (bs[h].at = "task")
    <3>1. w[h] = [bs[h] EXCEPT !.aborted = bs[h].at = "task"]
      BY <2>1
    <3> QED BY <3>1 DEF BranchShape
  <2>3. DOMAIN w = Nodes
    BY <2>1
  <2> QED BY <2>2, <2>3 DEF Aborts
<1>2. CASE ~ \E n \in Nodes : bs[n].at = "failed"
  BY <1>2 DEF WithAborts, Aborts
<1> QED BY <1>1, <1>2

LEMMA AbortBecome ==
    ASSUME AbortInv, graph' = graph, NEW c, NEW r, Become(c, r), RunShape(r),
           r.at = "split" => Aborts(r.branches)
    PROVE  AbortInv'
<1>1. DOMAIN runs' = Calls /\ \A d \in Calls : runs'[d] = IF d = c THEN r ELSE runs[d]
  BY DEF AbortInv, Become
<1> QED BY <1>1 DEF AbortInv, RunShape, Aborts, Nodes

\* A call that is not at a split has no branch to abort.
LEMMA AbortNoSplit ==
    ASSUME AbortInv, graph' = graph, NEW c \in Calls, NEW s, Become(c, s), Shape(s), s.at # "split",
           s.branches = runs[c].branches
    PROVE  AbortInv'
BY AbortBecome DEF AbortInv, RunShape

LEMMA AbortFail ==
    ASSUME AbortInv, graph' = graph, NEW c \in Calls, Fail(c)
    PROVE  AbortInv'
<1> PICK s : s = [runs[c] EXCEPT !.at = "failed"]
  OBVIOUS
<1>1. Shape(s) /\ s.at = "failed" /\ s.branches = runs[c].branches
  BY DEF AbortInv, RunShape, Shape
<1> QED BY <1>1, AbortNoSplit DEF Fail

LEMMA AbortAdvance ==
    ASSUME AbortInv, graph' = graph, NEW c \in Calls, NEW r, Shape(r), r.branches = runs[c].branches,
           NEW n, Advance(c, r, n)
    PROVE  AbortInv' /\ runs'[c].at \in {"completed", "failed", "loop"}
<1> PICK f : f = [runs[c] EXCEPT !.at = "failed"]
  OBVIOUS
<1>1. CASE Fail(c)
  <2>1. runs' = [runs EXCEPT ![c] = f] /\ f.at = "failed"
    BY <1>1 DEF Fail, Become, AbortInv, RunShape, Shape
  <2> QED BY <1>1, <2>1, AbortFail DEF AbortInv
<1>2. CASE ~ Fail(c)
  <2> PICK after : after = [r EXCEPT !.completed = r.completed \cup {n}]
    OBVIOUS
  <2>1. Shape(after) /\ after.branches = r.branches
    BY DEF Shape
  <2>2. \/ \E at \in {"completed", "failed"} : Become(c, [after EXCEPT !.at = at])
        \/ \E m : Become(c, [after EXCEPT !.at = "loop", !.node = m])
    BY <1>2 DEF Advance
  <2>3. ASSUME NEW s, Become(c, s), Shape(s), s.at \in {"completed", "failed", "loop"}, s.branches = r.branches
        PROVE  AbortInv' /\ runs'[c].at \in {"completed", "failed", "loop"}
    <3>1. runs'[c] = s
      BY <2>3 DEF Become, AbortInv
    <3> QED BY <2>3, <3>1, AbortNoSplit
  <2>4. ASSUME NEW at \in {"completed", "failed"}, Become(c, [after EXCEPT !.at = at])
        PROVE  AbortInv' /\ runs'[c].at \in {"completed", "failed", "loop"}
    <3> PICK s : s = [after EXCEPT !.at = at]
      OBVIOUS
    <3>1. Shape(s) /\ s.at = at /\ s.branches = r.branches
      BY <2>1 DEF Shape
    <3> QED BY <2>3, <2>4, <3>1
  <2>5. ASSUME NEW m, Become(c, [after EXCEPT !.at = "loop", !.node = m])
        PROVE  AbortInv' /\ runs'[c].at \in {"completed", "failed", "loop"}
    <3> PICK s : s = [after EXCEPT !.at = "loop", !.node = m]
      OBVIOUS
    <3>1. Shape(s) /\ s.at = "loop" /\ s.branches = r.branches
      BY <2>1 DEF Shape
    <3> QED BY <2>3, <2>5, <3>1
  <2> QED BY <2>2, <2>4, <2>5
<1> QED BY <1>1, <1>2

LEMMA AbortExecuteFrom ==
    ASSUME AbortInv, graph' = graph, NEW c \in Calls, NEW completed, NEW outcome,
           ExecuteFrom(c, completed, outcome)
    PROVE  AbortInv'
<1>1. CASE Fail(c)
  BY <1>1, AbortFail
<1>2. CASE ~ Fail(c)
  <2> PICK n : Become(c, [runs[c] EXCEPT !.at = "loop", !.node = n, !.completed = completed,
                                         !.outcome = outcome])
    BY <1>2 DEF ExecuteFrom
  <2> PICK s : s = [runs[c] EXCEPT !.at = "loop", !.node = n, !.completed = completed, !.outcome = outcome]
    OBVIOUS
  <2>1. Shape(s) /\ s.at = "loop" /\ s.branches = runs[c].branches
    BY DEF AbortInv, RunShape, Shape
  <2> QED BY <2>1, AbortNoSplit
<1> QED BY <1>1, <1>2

LEMMA EnterShape ==
    ASSUME NEW b, BranchShape(b), NEW n, NEW x \in Enter(b, n)
    PROVE  BranchShape(x)
<1>1. \/ \E at : x = [b EXCEPT !.at = at]
      \/ \E m : x = [b EXCEPT !.at = "task", !.node = m]
  BY DEF Enter
<1> QED BY <1>1 DEF BranchShape

LEMMA AbortEnterSplit ==
    ASSUME AbortInv, graph' = graph, NEW c \in Calls, NEW n, EnterSplit(c, n)
    PROVE  AbortInv'
<1> DEFINE heads == {graph.edges[i].to : i \in Outgoing(n)}
<1> PICK f : /\ \A h \in heads : f[h] \in Enter(NoBranch, {h})
             /\ Become(c, [runs[c] EXCEPT
                  !.at = "split", !.completed = @ \cup {n},
                  !.branches = WithAborts([m \in Nodes |-> IF m \in heads THEN f[m] ELSE NoBranch])])
  BY DEF EnterSplit
<1> PICK bs : bs = [m \in Nodes |-> IF m \in heads THEN f[m] ELSE NoBranch]
  OBVIOUS
<1> PICK w : w = WithAborts(bs)
  OBVIOUS
<1>1. BranchShape(NoBranch)
  BY DEF BranchShape, NoBranch
<1>2. DOMAIN bs = Nodes /\ \A h \in Nodes : BranchShape(bs[h])
  BY <1>1, EnterShape
<1>3. DOMAIN w = Nodes /\ Aborts(w) /\ \A h \in Nodes : BranchShape(w[h])
  BY <1>2, WithAbortsAborts
<1> PICK s : s = [runs[c] EXCEPT !.at = "split", !.completed = runs[c].completed \cup {n}, !.branches = w]
  OBVIOUS
<1>4. Become(c, s)
  OBVIOUS
<1> HIDE DEF heads
<1>5. Shape(s) /\ s.branches = w
  BY DEF AbortInv, RunShape, Shape
<1> QED BY <1>3, <1>4, <1>5, AbortBecome DEF RunShape

LEMMA AbortLoop ==
    ASSUME AbortInv, NEW c \in Calls, Loop(c)
    PROVE  AbortInv'
<1> PICK r : r = runs[c]
  OBVIOUS
<1>1. Shape(r) /\ graph' = graph
  BY DEF AbortInv, RunShape, Loop
<1>2. ASSUME NEW at \in {"task", "approval", "rollback"}, Become(c, [r EXCEPT !.at = at])
      PROVE  AbortInv'
  <2> PICK s : s = [r EXCEPT !.at = at]
    OBVIOUS
  <2>1. Shape(s) /\ s.at = at /\ s.branches = r.branches
    BY <1>1 DEF Shape
  <2> QED BY <1>1, <1>2, <2>1, AbortNoSplit
<1>3. ASSUME NEW o, Advance(c, [r EXCEPT !.outcome[r.node] = o], r.node)
      PROVE  AbortInv'
  <2> PICK s : s = [r EXCEPT !.outcome[r.node] = o]
    OBVIOUS
  <2>1. Shape(s) /\ s.branches = r.branches
    BY <1>1 DEF Shape
  <2> QED BY <1>1, <1>3, <2>1, AbortAdvance
<1>4. CASE Advance(c, r, r.node)
  BY <1>1, <1>4, AbortAdvance
<1>5. CASE Fail(c) \/ EnterSplit(c, r.node)
  BY <1>1, <1>5, AbortFail, AbortEnterSplit
<1> QED BY <1>2, <1>3, <1>4, <1>5 DEF Loop

\* A run of a split whose branches have been given the aborts of that moment.
LEMMA AbortSettled ==
    ASSUME AbortInv, UNCHANGED <<graph, checkpoint>>, NEW c \in Calls, NEW s, NEW bs,
           Become(c, s), Shape(s), s.at = "split", s.branches = WithAborts(bs),
           DOMAIN bs = Nodes, \A m \in Nodes : BranchShape(bs[m])
    PROVE  /\ AbortInv'
           /\ runs'[c] = s
           /\ \A m \in Nodes : s.branches[m].at = bs[m].at /\ s.branches[m].node = bs[m].node
<1>1. /\ DOMAIN s.branches = Nodes /\ Aborts(s.branches)
      /\ \A m \in Nodes : /\ BranchShape(s.branches[m])
                          /\ s.branches[m].at = bs[m].at /\ s.branches[m].node = bs[m].node
  BY WithAbortsAborts
<1>2. RunShape(s)
  BY <1>1 DEF RunShape
<1> QED BY <1>1, <1>2, AbortBecome DEF Become, AbortInv

\* Where a branch failed before, the others are aborted and go no further.
LEMMA AbortBranchSettles ==
    ASSUME AbortInv, NEW c \in Calls, NEW h \in Nodes, BranchSettles(c, h)
    PROVE  /\ AbortInv'
           /\ (\E m \in Nodes : runs[c].branches[m].at = "failed") => Executing(runs'[c]) \subseteq Executing(runs[c])
<1> PICK r : r = runs[c]
  OBVIOUS
<1> PICK b : b = r.branches[h]
  OBVIOUS
<1>1. /\ RunShape(r) /\ Shape(r) /\ r.at = "split" /\ b.at = "task" /\ BranchShape(b) /\ Aborts(r.branches)
      /\ UNCHANGED <<graph, checkpoint>>
  BY DEF AbortInv, RunShape, BranchSettles
<1>2. ASSUME ~ b.aborted, NEW next \in Enter(b, FirstTarget(Outgoing(b.node))),
             Become(c, [r EXCEPT !.completed = @ \cup {b.node}, !.branches = WithAborts([@ EXCEPT ![h] = next])])
      PROVE  AbortInv' /\ ~ \E m \in Nodes : r.branches[m].at = "failed"
  <2>1. PICK bs : bs = [r.branches EXCEPT ![h] = next]
    OBVIOUS
  <2>2. PICK w : w = WithAborts(bs)
    OBVIOUS
  <2>3. PICK s : s = [r EXCEPT !.completed = r.completed \cup {b.node}, !.branches = w]
    OBVIOUS
  <2>4. Become(c, s)
    BY <1>2, <2>1, <2>2, <2>3
  <2>5. DOMAIN bs = Nodes /\ \A m \in Nodes : BranchShape(bs[m])
    BY <1>1, <1>2, <2>1, EnterShape DEF RunShape
  <2>6. Shape(s) /\ s.at = "split" /\ s.branches = WithAborts(bs)
    BY <1>1, <2>2, <2>3 DEF Shape
  <2>7. AbortInv'
    BY <1>1, <2>4, <2>5, <2>6, AbortSettled
  <2> QED BY <1>1, <1>2, <2>7 DEF Aborts
<1>3. ASSUME Become(c, [r EXCEPT !.branches = WithAborts([@ EXCEPT ![h].at = "failed"])])
      PROVE  AbortInv' /\ Executing(runs'[c]) \subseteq Executing(r)
  <2>1. PICK f : f = [b EXCEPT !.at = "failed"]
    OBVIOUS
  <2>2. PICK bs : bs = [r.branches EXCEPT ![h] = f]
    OBVIOUS
  <2>3. PICK w : w = WithAborts(bs)
    OBVIOUS
  <2>4. PICK s : s = [r EXCEPT !.branches = w]
    OBVIOUS
  <2>5. Become(c, s)
    BY <1>3, <2>1, <2>2, <2>3, <2>4
  <2>6. BranchShape(f) /\ f.at = "failed"
    BY <1>1, <2>1 DEF BranchShape
  <2>7. /\ DOMAIN bs = Nodes
        /\ \A m \in Nodes : BranchShape(bs[m]) /\ (bs[m].at = "task" => bs[m] = r.branches[m])
    BY <1>1, <2>2, <2>6 DEF RunShape
  <2>8. Shape(s) /\ s.at = "split" /\ s.branches = WithAborts(bs)
    BY <1>1, <2>3, <2>4 DEF Shape
  <2>9. /\ AbortInv'
        /\ runs'[c] = s
        /\ \A m \in Nodes : s.branches[m].at = bs[m].at /\ s.branches[m].node = bs[m].node
    BY <1>1, <2>5, <2>7, <2>8, AbortSettled
  <2> QED BY <1>1, <2>7, <2>8, <2>9 DEF Executing
<1> QED BY <1>1, <1>2, <1>3 DEF BranchSettles

LEMMA AbortStep ==
    ASSUME AbortInv, [Next]_vars
    PROVE  AbortInv'
<1>1. CASE UNCHANGED vars
  BY <1>1 DEF vars, AbortInv, RunShape, Aborts, Nodes
<1>2. ASSUME NEW c \in Calls, Start(c) \/ Resume(c)
      PROVE  AbortInv'
  BY <1>2, AbortExecuteFrom DEF Start, Resume
<1>3. ASSUME NEW c \in Calls, TaskSettles(c) \/ RolledBack(c) \/ SplitSettles(c)
      PROVE  AbortInv'
  <2>1. Shape(runs[c])
    BY DEF AbortInv, RunShape
  <2> QED BY <1>3, <2>1, AbortAdvance, AbortFail DEF TaskSettles, RolledBack, SplitSettles
<1>4. ASSUME NEW c \in Calls, Approve(c)
      PROVE  AbortInv'
  <2> PICK n : n = runs[c].node
    OBVIOUS
  <2> PICK o : Advance(c, [runs[c] EXCEPT !.outcome[n] = o], n)
    BY <1>4 DEF Approve
  <2> PICK s : s = [runs[c] EXCEPT !.outcome[n] = o]
    OBVIOUS
  <2>1. Shape(s) /\ s.branches = runs[c].branches
    BY DEF AbortInv, RunShape, Shape
  <2> QED BY <1>4, <2>1, AbortAdvance DEF Approve
<1> QED
  BY <1>1, <1>2, <1>3, <1>4, AbortLoop, AbortBranchSettles DEF Next, Settles

\* Once a branch has failed, no other starts a further step, whatever steps are
\* still to settle (workflow-engine.ts, the controllers of a split).
THEOREM FailFastHolds == Spec => FailFast
<1> DEFINE Failed(c) == runs[c].at = "split" /\ \E h \in Nodes : runs[c].branches[h].at = "failed"
           Stays == \A c \in Calls : Failed(c) => Executing(runs'[c]) \subseteq Executing(runs[c])
<1>1. Init => AbortInv
  BY DEF Init, AbortInv, RunShape, Shape, BranchShape, NoBranch, Nodes
<1>2. AbortInv /\ [Next]_vars => AbortInv'
  BY AbortStep
<1>3. ASSUME AbortInv, Next PROVE Stays
  <2>1. PICK d \in Calls : Start(d) \/ Resume(d) \/ Settles(d) \/ RolledBack(d)
    BY <1>3 DEF Next
  <2>2. ASSUME NEW c \in Calls, Failed(c) PROVE Executing(runs'[c]) \subseteq Executing(runs[c])
    <3>1. CASE \E h \in Nodes : BranchSettles(d, h)
      <4>1. CASE c = d
        BY <1>3, <2>2, <3>1, <4>1, AbortBranchSettles
      <4>2. CASE c # d
        <5>1. runs'[c] = runs[c] /\ graph' = graph
          BY <1>3, <3>1, <4>2 DEF BranchSettles, Become, AbortInv
        <5> QED BY <5>1
      <4> QED BY <4>1, <4>2
    <3>2. CASE SplitSettles(d)
      <4>1. Shape(runs[d])
        BY <1>3 DEF AbortInv, RunShape
      <4>2. CASE c = d
        <5>1. Fail(d) /\ runs'[c] = [runs[c] EXCEPT !.at = "failed"]
          BY <1>3, <2>2, <3>2, <4>2 DEF SplitSettles, Fail, Become, AbortInv
        <5>2. runs'[c].at = "failed"
          BY <4>1, <4>2, <5>1 DEF Shape
        <5> QED BY <5>2 DEF Executing, Awaits
      <4>3. CASE c # d
        <5>1. runs'[c] = runs[c]
          BY <1>3, <3>2, <4>3 DEF SplitSettles, Fail, Advance, Become, AbortInv
        <5> QED BY <5>1
      <4> QED BY <4>2, <4>3
    <3>3. CASE Start(d) \/ Resume(d) \/ Loop(d) \/ TaskSettles(d) \/ Approve(d) \/ RolledBack(d)
      <4>1. runs[d].at # "split"
        BY <3>3 DEF Start, Resume, Loop, TaskSettles, Approve, RolledBack
      <4>2. \E r : runs' = [runs EXCEPT ![d] = r]
        BY <3>3 DEF Start, Resume, Loop, TaskSettles, Approve, RolledBack, ExecuteFrom, EnterSplit, Advance, Fail, Become
      <4> QED BY <1>3, <2>2, <4>1, <4>2 DEF AbortInv
    <3> QED BY <2>1, <3>1, <3>2, <3>3 DEF Settles
  <2> QED BY <2>2
<1>4. AbortInv /\ [Next]_vars => [Stays]_vars
  BY <1>3
<1> QED BY <1>1, <1>2, <1>4, PTL DEF Spec, FailFast
-----------------------------------------------------------------------------
(* Workflows with independent branches.                                     *)

\* A set that a run may go on from, g being laid out as F and P say: splits are
\* in it with the first steps of all their branches, branches as a whole, and
\* joins with all that leads to them.
Whole(g, F, S) ==
    /\ S = {} \/ g.start \in S
    /\ \A i \in DOMAIN g.edges :
         /\ g.kind[g.edges[i].from] = "parallel_split" => (g.edges[i].from \in S <=> g.edges[i].to \in S)
         /\ g.kind[g.edges[i].to] = "join" /\ g.edges[i].to \in S => g.edges[i].from \in S
    /\ \A m, n \in DOMAIN F : F[m] = F[n] => (m \in S <=> n \in S)

\* What a run that has completed S may execute outside of a split.
Alone(g, F, S, n) ==
    /\ Whole(g, F, S) /\ n \notin S /\ n \notin DOMAIN F
    /\ S = {} => n = g.start
    /\ g.kind[n] = "join" => \A i \in DOMAIN g.edges : g.edges[i].to = n => g.edges[i].from \in S

Heads(g, p) == {g.edges[i].to : i \in {j \in DOMAIN g.edges : g.edges[j].from = p}}

\* A branch that executes a step has completed those before it, and one that
\* has passed all of its own.
BranchAt(F, P, S, h, b) ==
    /\ b.at \in {"none", "task", "passed", "failed"}
    /\ b.at = "task" =>
         /\ b.node \in DOMAIN F /\ F[b.node] = h
         /\ \A n \in DOMAIN F : F[n] = h => (n \in S <=> P[n] < P[b.node])
    /\ b.at = "passed" => \A n \in DOMAIN F : F[n] = h => n \in S

\* What holds while split p is executed: as in Whole but for its own branches.
Parted(g, F, P, S, p, bs) ==
    /\ g.kind[p] = "parallel_split" /\ p \in S /\ g.start \in S
    /\ \A i \in DOMAIN g.edges :
         /\ g.kind[g.edges[i].from] = "parallel_split" /\ g.edges[i].from # p =>
              (g.edges[i].from \in S <=> g.edges[i].to \in S)
         /\ g.kind[g.edges[i].to] = "join" /\ g.edges[i].to \in S => g.edges[i].from \in S
    /\ \A m, n \in DOMAIN F : F[m] = F[n] /\ F[m] \notin Heads(g, p) => (m \in S <=> n \in S)
    /\ \A h \in DOMAIN g.kind :
         /\ h \in Heads(g, p) <=> bs[h].at # "none"
         /\ BranchAt(F, P, S, h, bs[h])

Going(g, F, P, r) ==
    /\ r.at \in {"loop", "task", "approval", "rollback"} => Alone(g, F, r.completed, r.node)
    /\ r.at = "split" => Parted(g, F, P, r.completed, r.node, r.branches)

\* The first of some edges is one of them.
LEMMA FirstTargetIn ==
    ASSUME graph \in Graphs, NEW I \in SUBSET DOMAIN graph.edges, NEW m \in FirstTarget(I)
    PROVE  \E i \in I : m = graph.edges[i].to
<1>1. PICK n \in Nat : DOMAIN graph.edges = 1 .. n
  <2>1. graph.edges \in Seq({graph.edges[i] : i \in DOMAIN graph.edges})
    BY GraphsAssumption
  <2> QED BY <2>1
<1>2. I \in SUBSET (0 .. n) /\ I # {}
  BY <1>1 DEF FirstTarget
<1>3. \E i \in I : \A j \in I : i <= j
  BY <1>2, Smallest
<1>4. Least(I) \in I
  BY <1>3 DEF Least
<1> QED BY <1>2, <1>4 DEF FirstTarget

LEMMA EdgesKnown ==
    ASSUME graph \in Graphs
    PROVE  \A i \in DOMAIN graph.edges : graph.edges[i].from \in Nodes /\ graph.edges[i].to \in Nodes
BY GraphsAssumption DEF Nodes

\* What is chosen next, from a completed node outside of the branches, has not run
\* and is in no branch, and a join only when all that leads to it is completed.
LEMMA NextAlone ==
    ASSUME graph \in Graphs, NEW F, NEW P, Laid(graph, F, P), NEW S, Whole(graph, F, S),
           NEW n \in S, n \notin DOMAIN F, NEW outcome, NEW m \in NextPending(S, n, outcome)
    PROVE  Alone(graph, F, S, m)
<1>1. PICK i \in Direct(S, n, outcome) \cup Unblocked(S) : m = graph.edges[i].to
  <2>1. Direct(S, n, outcome) \subseteq DOMAIN graph.edges /\ Unblocked(S) \subseteq DOMAIN graph.edges
    BY DEF Direct, Unblocked
  <2> QED BY <2>1, FirstTargetIn DEF NextPending
<1>2. i \in DOMAIN graph.edges /\ m \notin S
  BY <1>1 DEF Direct, Unblocked, Pending
<1>3. CASE i \in Direct(S, n, outcome)
  <2>1. graph.edges[i].from = n
    BY <1>3 DEF Direct
  <2>2. graph.kind[n] # "parallel_split"
    BY <1>1, <1>2, <2>1 DEF Whole
  <2>3. m \notin DOMAIN F /\ graph.kind[m] # "join"
    BY <1>1, <1>2, <2>1, <2>2 DEF Laid
  <2> QED BY <1>2, <2>3 DEF Alone
<1>4. CASE i \in Unblocked(S)
  <2>1. \A j \in DOMAIN graph.edges : graph.edges[j].to = m => graph.edges[j].from \in S
    BY <1>1, <1>4 DEF Unblocked, Edges
  <2>2. graph.edges[i].from \in S
    BY <1>1, <1>2, <2>1
  <2>3. m \notin DOMAIN F
    <3> SUFFICES ASSUME m \in DOMAIN F PROVE FALSE
      OBVIOUS
    <3>1. \/ graph.kind[graph.edges[i].from] = "parallel_split"
          \/ graph.edges[i].from \in DOMAIN F /\ F[graph.edges[i].from] = F[m]
      BY <1>1, <1>2 DEF Laid
    <3> QED BY <1>1, <1>2, <2>2, <3>1 DEF Whole
  <2> QED BY <1>2, <2>1, <2>3 DEF Alone
<1> QED BY <1>1, <1>3, <1>4

\* A node that is no split and runs alone can be added.
LEMMA AdvanceWhole ==
    ASSUME NEW F, NEW P, Laid(graph, F, P), NEW S, NEW n, Alone(graph, F, S, n),
           graph.kind[n] # "parallel_split", NEW T, T = S \cup {n}
    PROVE  Whole(graph, F, T) /\ n \in T /\ n \notin DOMAIN F
<1>1. n \in T /\ n \notin DOMAIN F /\ Whole(graph, F, S)
  BY DEF Alone
<1>2. T = {} \/ graph.start \in T
  BY <1>1 DEF Alone, Whole
<1>3. ASSUME NEW i \in DOMAIN graph.edges
      PROVE  /\ graph.kind[graph.edges[i].from] = "parallel_split"
                  => (graph.edges[i].from \in T <=> graph.edges[i].to \in T)
             /\ graph.kind[graph.edges[i].to] = "join" /\ graph.edges[i].to \in T => graph.edges[i].from \in T
  <2>1. graph.kind[graph.edges[i].from] = "parallel_split" => graph.edges[i].from # n /\ graph.edges[i].to # n
    BY <1>1 DEF Laid
  <2>2. /\ graph.kind[graph.edges[i].from] = "parallel_split"
             => (graph.edges[i].from \in S <=> graph.edges[i].to \in S)
        /\ graph.kind[graph.edges[i].to] = "join" /\ graph.edges[i].to \in S => graph.edges[i].from \in S
    BY <1>1 DEF Whole
  <2>3. graph.kind[n] = "join" /\ graph.edges[i].to = n => graph.edges[i].from \in S
    BY DEF Alone
  <2> QED BY <2>1, <2>2, <2>3
<1>4. \A m, k \in DOMAIN F : F[m] = F[k] => (m \in T <=> k \in T)
  BY <1>1 DEF Whole
<1> QED BY <1>1, <1>2, <1>3, <1>4 DEF Whole

\* A split is entered: each branch executes its first step or has failed.
LEMMA EnterParted ==
    ASSUME graph \in Graphs, NEW F, NEW P, Laid(graph, F, P), NEW S, NEW p, Alone(graph, F, S, p),
           graph.kind[p] = "parallel_split", NEW T, T = S \cup {p}, NEW bs,
           \A h \in Nodes :
              /\ h \in Heads(graph, p) => bs[h].at = "failed" \/ (bs[h].at = "task" /\ bs[h].node = h)
              /\ h \notin Heads(graph, p) => bs[h].at = "none"
    PROVE  Parted(graph, F, P, T, p, bs)
<1>1. Whole(graph, F, S) /\ p \notin S /\ p \notin DOMAIN F /\ (S = {} => p = graph.start)
  BY DEF Alone
<1>2. \A h \in Heads(graph, p) : h \in DOMAIN F /\ F[h] = h /\ P[h] = 0 /\ h \notin S
  BY <1>1 DEF Heads, Laid, Whole
<1>3. ASSUME NEW i \in DOMAIN graph.edges
      PROVE  /\ graph.kind[graph.edges[i].from] = "parallel_split" /\ graph.edges[i].from # p
                  => (graph.edges[i].from \in T <=> graph.edges[i].to \in T)
             /\ graph.kind[graph.edges[i].to] = "join" /\ graph.edges[i].to \in T => graph.edges[i].from \in T
  <2>1. graph.kind[graph.edges[i].from] = "parallel_split" => graph.edges[i].to # p
    BY <1>1 DEF Laid
  <2>2. /\ graph.kind[graph.edges[i].from] = "parallel_split"
             => (graph.edges[i].from \in S <=> graph.edges[i].to \in S)
        /\ graph.kind[graph.edges[i].to] = "join" /\ graph.edges[i].to \in S => graph.edges[i].from \in S
    BY <1>1 DEF Whole
  <2> QED BY <2>1, <2>2
<1>4. \A m, n \in DOMAIN F : F[m] = F[n] => (m \in T <=> n \in T)
  BY <1>1 DEF Whole
<1>5. p \in T /\ graph.start \in T
  BY <1>1 DEF Whole
<1>6. ASSUME NEW h \in Nodes
      PROVE  (h \in Heads(graph, p) <=> bs[h].at # "none") /\ BranchAt(F, P, T, h, bs[h])
  <2>1. CASE h \notin Heads(graph, p)
    BY <2>1 DEF BranchAt
  <2>2. CASE h \in Heads(graph, p)
    <3>1. h \in DOMAIN F /\ F[h] = h /\ P[h] = 0 /\ h \notin S
      BY <1>2, <2>2
    <3>2. ASSUME NEW n \in DOMAIN F, F[n] = h PROVE n \notin T /\ ~ P[n] < P[h]
      <4>1. n \notin S /\ n # p
        BY <1>1, <3>1, <3>2 DEF Whole
      <4>2. P[n] \in Nat
        BY DEF Laid
      <4> QED BY <3>1, <4>1, <4>2
    <3> QED BY <2>2, <3>1, <3>2 DEF BranchAt
  <2> QED BY <2>1, <2>2
<1> QED BY <1>3, <1>4, <1>5, <1>6 DEF Parted, Nodes

\* A branch has failed; the others are where they were.
LEMMA BranchFails ==
    ASSUME NEW F, NEW P, NEW S, NEW p, NEW bs, Parted(graph, F, P, S, p, bs), NEW h \in Nodes,
           bs[h].at = "task", NEW cs, cs[h].at = "failed",
           \A k \in Nodes : k # h => cs[k].at = bs[k].at /\ cs[k].node = bs[k].node
    PROVE  Parted(graph, F, P, S, p, cs)
<1>1. \A k \in Nodes : (k \in Heads(graph, p) <=> bs[k].at # "none") /\ BranchAt(F, P, S, k, bs[k])
  BY DEF Parted, Nodes
<1>2. ASSUME NEW k \in Nodes
      PROVE  (k \in Heads(graph, p) <=> cs[k].at # "none") /\ BranchAt(F, P, S, k, cs[k])
  BY <1>1 DEF BranchAt
<1> QED BY <1>2 DEF Parted, Nodes

LEMMA EnterIs ==
    ASSUME NEW b, NEW N
    PROVE  /\ (\E k \in N : Kind(k) = "join") => Enter(b, N) = {[b EXCEPT !.at = "passed"]}
           /\ ~ (N = {} \/ \E k \in N : Kind(k) = "join") =>
                Enter(b, N) = {[b EXCEPT !.at = "failed"]} \cup
                    {[b EXCEPT !.at = "task", !.node = k] : k \in {j \in N : Kind(j) = "task" /\ ~ b.aborted}}
<1>1. ASSUME \E k \in N : Kind(k) = "join" PROVE Enter(b, N) = {[b EXCEPT !.at = "passed"]}
  BY <1>1, Zenon DEF Enter
<1>2. ASSUME ~ (N = {} \/ \E k \in N : Kind(k) = "join")
      PROVE  Enter(b, N) = {[b EXCEPT !.at = "failed"]} \cup
                 {[b EXCEPT !.at = "task", !.node = k] : k \in {j \in N : Kind(j) = "task" /\ ~ b.aborted}}
  BY <1>2 DEF Enter
<1> QED BY <1>1, <1>2, Zenon

\* What a branch may become when its next node is m.
LEMMA EnterOne ==
    ASSUME NEW b, BranchShape(b), NEW m, NEW x \in Enter(b, {m})
    PROVE  /\ graph.kind[m] = "join" => x.at = "passed"
           /\ graph.kind[m] = "task" => x.at = "failed" \/ (x.at = "task" /\ x.node = m)
<1>1. PICK N : N = {m} /\ N # {}
  OBVIOUS
<1>2. x \in Enter(b, N)
  BY <1>1
<1>3. CASE graph.kind[m] = "join"
  <2>1. \E k \in N : Kind(k) = "join"
    BY <1>1, <1>3 DEF Kind
  <2>2. PICK passed : passed = [b EXCEPT !.at = "passed"]
    OBVIOUS
  <2>3. Enter(b, N) = {passed}
    BY <2>1, <2>2, EnterIs, Zenon
  <2>4. x = passed
    BY <1>2, <2>3
  <2> QED BY <1>3, <2>2, <2>4 DEF BranchShape
<1>4. CASE graph.kind[m] = "task"
  <2>1. ~ (N = {} \/ \E k \in N : Kind(k) = "join")
    BY <1>1, <1>4 DEF Kind
  <2>2. PICK failed : failed = [b EXCEPT !.at = "failed"]
    OBVIOUS
  <2>3. failed.at = "failed"
    BY <2>2 DEF BranchShape
  <2>4. PICK tasks : tasks = {[b EXCEPT !.at = "task", !.node = k] : k \in {j \in N : Kind(j) = "task" /\ ~ b.aborted}}
    BY Zenon
  <2>5. Enter(b, N) = {failed} \cup tasks
    BY <2>1, <2>2, <2>4, EnterIs, Zenon
  <2>6. x = failed \/ x \in tasks
    BY <1>2, <2>5
  <2>7. ASSUME x \in tasks PROVE x.at = "task" /\ x.node = m
    <3>1. PICK k \in N : x = [b EXCEPT !.at = "task", !.node = k]
      BY <2>4, <2>7, Zenon
    <3>2. k = m
      BY <1>1
    <3> QED BY <3>1, <3>2 DEF BranchShape
  <2> QED BY <1>4, <2>3, <2>6, <2>7
<1> QED BY <1>3, <1>4

\* A branch has completed its step and goes on to the next one, fails there, or
\* has passed: the step was its last.
LEMMA BranchGoesOn ==
    ASSUME graph \in Graphs, NEW F, NEW P, Laid(graph, F, P), NEW S, NEW p, NEW bs,
           Parted(graph, F, P, S, p, bs), NEW h \in Nodes, bs[h].at = "task",
           NEW n, n = bs[h].node, NEW T, T = S \cup {n},
           NEW next \in Enter(bs[h], FirstTarget(Outgoing(n))), BranchShape(bs[h]),
           NEW cs, cs[h].at = next.at /\ cs[h].node = next.node,
           \A k \in Nodes : k # h => cs[k].at = bs[k].at /\ cs[k].node = bs[k].node
    PROVE  Parted(graph, F, P, T, p, cs)
<1>1. /\ graph.kind[p] = "parallel_split" /\ p \in T /\ graph.start \in T
      /\ \A k \in Nodes : (k \in Heads(graph, p) <=> bs[k].at # "none") /\ BranchAt(F, P, S, k, bs[k])
  BY DEF Parted, Nodes
<1>2. /\ h \in Heads(graph, p) /\ n \in DOMAIN F /\ F[n] = h
      /\ \A m \in DOMAIN F : F[m] = h => (m \in S <=> P[m] < P[n])
  BY <1>1 DEF BranchAt
<1>3. \A m \in DOMAIN F : P[m] \in Nat /\ (F[m] = F[n] /\ P[m] = P[n] => m = n)
  BY <1>2 DEF Laid
<1>4. \A m \in DOMAIN F : F[m] = h => (m \in T <=> P[m] <= P[n])
  <2>1. ASSUME NEW m \in DOMAIN F, F[m] = h PROVE m \in T <=> P[m] <= P[n]
    <3>1. P[m] \in Nat /\ P[n] \in Nat /\ (P[m] = P[n] => m = n) /\ (m \in S <=> P[m] < P[n])
      BY <1>2, <1>3, <2>1
    <3> QED BY <3>1
  <2> QED BY <2>1
<1>5. graph.kind[n] = "task"
  BY <1>2 DEF Laid
<1>6. ASSUME NEW i \in DOMAIN graph.edges
      PROVE  /\ graph.kind[graph.edges[i].from] = "parallel_split" /\ graph.edges[i].from # p
                  => (graph.edges[i].from \in T <=> graph.edges[i].to \in T)
             /\ graph.kind[graph.edges[i].to] = "join" /\ graph.edges[i].to \in T => graph.edges[i].from \in T
  <2>1. /\ graph.kind[graph.edges[i].from] = "parallel_split" /\ graph.edges[i].from # p
             => (graph.edges[i].from \in S <=> graph.edges[i].to \in S)
        /\ graph.kind[graph.edges[i].to] = "join" /\ graph.edges[i].to \in S => graph.edges[i].from \in S
    BY DEF Parted
  <2>2. graph.kind[graph.edges[i].from] = "parallel_split" /\ graph.edges[i].from # p => graph.edges[i].to # n
    <3> SUFFICES ASSUME graph.kind[graph.edges[i].from] = "parallel_split", graph.edges[i].to = n
                 PROVE  graph.edges[i].from = p
      OBVIOUS
    <3>1. F[n] = n /\ n = h
      BY <1>2 DEF Laid
    <3>2. PICK j \in DOMAIN graph.edges : graph.edges[j].from = p /\ graph.edges[j].to = h
      BY <1>2 DEF Heads
    <3> QED BY <3>1, <3>2 DEF Laid
  <2> QED BY <1>5, <2>1, <2>2
<1>7. \A m, k \in DOMAIN F : F[m] = F[k] /\ F[m] \notin Heads(graph, p) => (m \in T <=> k \in T)
  BY <1>2 DEF Parted
<1>8. ASSUME NEW k \in Nodes, k # h
      PROVE  (k \in Heads(graph, p) <=> cs[k].at # "none") /\ BranchAt(F, P, T, k, cs[k])
  <2>1. \A m \in DOMAIN F : F[m] = k => (m \in T <=> m \in S)
    BY <1>2, <1>8
  <2>2. (k \in Heads(graph, p) <=> bs[k].at # "none") /\ BranchAt(F, P, S, k, bs[k])
    BY <1>1
  <2> QED BY <1>8, <2>1, <2>2 DEF BranchAt
<1>9. cs[h].at # "none" /\ BranchAt(F, P, T, h, cs[h])
  <2>1. PICK i \in Outgoing(n) : FirstTarget(Outgoing(n)) = {graph.edges[i].to}
    <3>1. Outgoing(n) # {} /\ Outgoing(n) \in SUBSET DOMAIN graph.edges
      BY <1>2 DEF Laid, Outgoing
    <3>2. FirstTarget(Outgoing(n)) = {graph.edges[Least(Outgoing(n))].to}
      BY <3>1 DEF FirstTarget
    <3>3. graph.edges[Least(Outgoing(n))].to \in FirstTarget(Outgoing(n))
      BY <3>2
    <3>4. PICK i \in Outgoing(n) : graph.edges[Least(Outgoing(n))].to = graph.edges[i].to
      BY <3>1, <3>3, FirstTargetIn
    <3> QED BY <3>2, <3>4
  <2>2. PICK m : m = graph.edges[i].to
    OBVIOUS
  <2>3. i \in DOMAIN graph.edges /\ graph.edges[i].from = n
    BY <2>1 DEF Outgoing
  <2>4. \/ m \in DOMAIN F /\ F[m] = h /\ P[m] = P[n] + 1 /\ graph.kind[m] = "task"
        \/ graph.kind[m] = "join" /\ \A k \in DOMAIN F : F[k] = h => P[k] <= P[n]
    BY <1>2, <2>2, <2>3 DEF Laid
  <2>5. CASE graph.kind[m] = "join" /\ \A k \in DOMAIN F : F[k] = h => P[k] <= P[n]
    <3>1. next.at = "passed"
      BY <2>1, <2>2, <2>5, EnterOne
    <3> QED BY <1>4, <2>5, <3>1 DEF BranchAt
  <2>6. CASE m \in DOMAIN F /\ F[m] = h /\ P[m] = P[n] + 1 /\ graph.kind[m] = "task"
    <3>1. next.at = "failed" \/ (next.at = "task" /\ next.node = m)
      BY <2>1, <2>2, <2>6, EnterOne
    <3>2. \A k \in DOMAIN F : F[k] = h => (k \in T <=> P[k] < P[m])
      <4>1. ASSUME NEW k \in DOMAIN F, F[k] = h PROVE k \in T <=> P[k] < P[m]
        <5>1. P[k] \in Nat /\ P[n] \in Nat /\ P[m] = P[n] + 1 /\ (k \in T <=> P[k] <= P[n])
          BY <1>2, <1>3, <1>4, <2>6, <4>1
        <5> QED BY <5>1
      <4> QED BY <4>1
    <3> QED BY <2>6, <3>1, <3>2 DEF BranchAt
  <2> QED BY <2>4, <2>5, <2>6
<1> QED BY <1>1, <1>2, <1>6, <1>7, <1>8, <1>9 DEF Parted, Nodes

\* Every branch has passed: the split is done as a whole.
LEMMA SplitWhole ==
    ASSUME graph \in Graphs, NEW F, NEW P, Laid(graph, F, P), NEW S, NEW p, NEW bs,
           Parted(graph, F, P, S, p, bs),
           \A h \in Nodes : bs[h].at # "none" => bs[h].at = "passed"
    PROVE  Whole(graph, F, S) /\ p \in S /\ p \notin DOMAIN F
<1>1. graph.kind[p] = "parallel_split" /\ p \in S /\ graph.start \in S /\ p \notin DOMAIN F
  BY DEF Parted, Laid
<1>2. \A h \in Heads(graph, p) : h \in Nodes /\ h \in DOMAIN F /\ F[h] = h
  BY <1>1, EdgesKnown DEF Heads, Laid
<1>3. \A h \in Heads(graph, p) : \A n \in DOMAIN F : F[n] = h => n \in S
  BY <1>2 DEF Parted, BranchAt, Nodes
<1>4. \A m, n \in DOMAIN F : F[m] = F[n] => (m \in S <=> n \in S)
  BY <1>3 DEF Parted
<1>5. ASSUME NEW i \in DOMAIN graph.edges, graph.edges[i].from = p
      PROVE  graph.edges[i].to \in S
  <2>1. graph.edges[i].to \in Heads(graph, p)
    BY <1>5 DEF Heads
  <2> QED BY <1>2, <1>3, <2>1
<1>6. ASSUME NEW i \in DOMAIN graph.edges
      PROVE  /\ graph.kind[graph.edges[i].from] = "parallel_split"
                  => (graph.edges[i].from \in S <=> graph.edges[i].to \in S)
             /\ graph.kind[graph.edges[i].to] = "join" /\ graph.edges[i].to \in S => graph.edges[i].from \in S
  BY <1>1, <1>5 DEF Parted
<1> QED BY <1>1, <1>4, <1>6 DEF Whole

\* Every workflow has independent branches.
WellLaid == \A g \in Graphs : \E first : \E place : Laid(g, first, place)

FirstOf(g) == CHOOSE first : \E place : Laid(g, first, place)

PlaceOf(g) == CHOOSE place : Laid(g, FirstOf(g), place)

LayInv ==
    /\ graph \in Graphs
    /\ \A c \in Calls :
         /\ Going(graph, FirstOf(graph), PlaceOf(graph), runs[c])
         /\ runs[c].at \in {"task", "approval", "rollback"} => graph.kind[runs[c].node] # "parallel_split"
    /\ \A k \in checkpoint : Whole(graph, FirstOf(graph), k.completed)

LEMMA GraphLaid ==
    ASSUME WellLaid, graph \in Graphs
    PROVE  Laid(graph, FirstOf(graph), PlaceOf(graph))
<1>1. \E first : \E place : Laid(graph, first, place)
  BY DEF WellLaid
<1>2. \E place : Laid(graph, FirstOf(graph), place)
  BY <1>1, Zenon DEF FirstOf
<1> QED BY <1>2, Zenon DEF PlaceOf

LEMMA LayBecome ==
    ASSUME LayInv, AbortInv, graph' = graph, NEW c \in Calls, NEW r, Become(c, r),
           Going(graph, FirstOf(graph), PlaceOf(graph), r),
           r.at \in {"task", "approval", "rollback"} => graph.kind[r.node] # "parallel_split",
           \A k \in checkpoint' : k \in checkpoint \/ Whole(graph, FirstOf(graph), k.completed)
    PROVE  LayInv'
<1>1. \A d \in Calls : runs'[d] = IF d = c THEN r ELSE runs[d]
  BY DEF AbortInv, Become
<1> QED BY <1>1 DEF LayInv

LEMMA LayFail ==
    ASSUME LayInv, AbortInv, graph' = graph, NEW c \in Calls, Fail(c)
    PROVE  LayInv'
<1> PICK s : s = [runs[c] EXCEPT !.at = "failed"]
  OBVIOUS
<1>1. s.at = "failed"
  BY DEF AbortInv, RunShape, Shape
<1>2. Going(graph, FirstOf(graph), PlaceOf(graph), s)
  BY <1>1 DEF Going
<1> QED BY <1>1, <1>2, LayBecome DEF Fail

\* The loop goes on to m.
Follows(S, n, outcome, m) == m \in NextPending(S, n, outcome)

LEMMA FollowsAlone ==
    ASSUME graph \in Graphs, NEW F, NEW P, Laid(graph, F, P), NEW S, Whole(graph, F, S),
           NEW n \in S, n \notin DOMAIN F, NEW outcome, NEW m, Follows(S, n, outcome, m)
    PROVE  Alone(graph, F, S, m)
BY NextAlone, Zenon DEF Follows

LEMMA AdvanceTo ==
    ASSUME NEW c, NEW r, NEW n, Advance(c, r, n), ~ Fail(c),
           NEW S, S = r.completed \cup {n}, NEW after, after = [r EXCEPT !.completed = S]
    PROVE  /\ checkpoint' = {[completed |-> S, outcome |-> r.outcome]}
           /\ \/ \E at \in {"completed", "failed"} : Become(c, [after EXCEPT !.at = at])
              \/ \E m : Follows(S, n, r.outcome, m) /\ Become(c, [after EXCEPT !.at = "loop", !.node = m])
<1>1. checkpoint' = PersistCheckpoint(S, r.outcome)
  BY Zenon DEF Advance
<1>2. \/ Become(c, [after EXCEPT !.at = "completed"])
      \/ Become(c, [after EXCEPT !.at = "failed"])
      \/ \E m : Follows(S, n, r.outcome, m) /\ Become(c, [after EXCEPT !.at = "loop", !.node = m])
  BY Zenon DEF Advance, Follows
<1> QED BY <1>1, <1>2 DEF PersistCheckpoint

LEMMA ExecuteFromTo ==
    ASSUME NEW c, NEW S, NEW outcome, ExecuteFrom(c, S, outcome), ~ Fail(c)
    PROVE  /\ checkpoint' \in {checkpoint, {[completed |-> S, outcome |-> outcome]}}
           /\ \E n : /\ (S = {} /\ n = graph.start) \/ (S # {} /\ Follows(S, graph.start, NoOutcomes, n))
                    /\ Become(c, [runs[c] EXCEPT !.at = "loop", !.node = n, !.completed = S, !.outcome = outcome])
<1>1. checkpoint' \in {checkpoint, PersistCheckpoint(S, outcome)}
  BY DEF ExecuteFrom
<1>2. ASSUME S = {}
      PROVE  \E n : /\ n = graph.start
                   /\ Become(c, [runs[c] EXCEPT !.at = "loop", !.node = n, !.completed = S, !.outcome = outcome])
  BY <1>2, Zenon DEF ExecuteFrom
<1>3. ASSUME S # {}
      PROVE  \E n : /\ Follows(S, graph.start, NoOutcomes, n)
                   /\ Become(c, [runs[c] EXCEPT !.at = "loop", !.node = n, !.completed = S, !.outcome = outcome])
  BY <1>3, Zenon DEF ExecuteFrom, Follows
<1>4. \E n : /\ (S = {} /\ n = graph.start) \/ (S # {} /\ Follows(S, graph.start, NoOutcomes, n))
            /\ Become(c, [runs[c] EXCEPT !.at = "loop", !.node = n, !.completed = S, !.outcome = outcome])
  BY <1>2, <1>3
<1> QED BY <1>1, <1>4 DEF PersistCheckpoint

LEMMA LayAdvance ==
    ASSUME LayInv, AbortInv, WellLaid, graph' = graph, NEW c \in Calls, NEW r, Shape(r),
           NEW n, n \notin DOMAIN FirstOf(graph), NEW S, S = r.completed \cup {n},
           Whole(graph, FirstOf(graph), S), Advance(c, r, n)
    PROVE  LayInv'
<1> SUFFICES ASSUME ~ Fail(c) PROVE LayInv'
  BY LayFail
<1> PICK after : after = [r EXCEPT !.completed = S]
  OBVIOUS
<1> PICK o : o = r.outcome
  OBVIOUS
<1>1. Shape(after) /\ after.completed = S
  BY DEF Shape
<1>2. /\ checkpoint' = {[completed |-> S, outcome |-> o]}
      /\ \/ \E at \in {"completed", "failed"} : Become(c, [after EXCEPT !.at = at])
         \/ \E m : Follows(S, n, o, m) /\ Become(c, [after EXCEPT !.at = "loop", !.node = m])
  BY AdvanceTo
<1>3. ASSUME NEW k \in checkpoint' PROVE Whole(graph, FirstOf(graph), k.completed)
  <2>1. k = [completed |-> S, outcome |-> o]
    BY <1>2
  <2>2. k.completed = S
    BY <2>1
  <2> QED BY <2>2
<1>4. ASSUME NEW at \in {"completed", "failed"}, Become(c, [after EXCEPT !.at = at])
      PROVE  LayInv'
  <2> PICK s : s = [after EXCEPT !.at = at]
    OBVIOUS
  <2>1. s.at = at
    BY <1>1 DEF Shape
  <2>2. Going(graph, FirstOf(graph), PlaceOf(graph), s)
    BY <2>1 DEF Going
  <2> QED BY <1>3, <1>4, <2>1, <2>2, LayBecome
<1>5. ASSUME NEW m, Follows(S, n, o, m), Become(c, [after EXCEPT !.at = "loop", !.node = m])
      PROVE  LayInv'
  <2> PICK s : s = [after EXCEPT !.at = "loop", !.node = m]
    OBVIOUS
  <2>1. s.at = "loop" /\ s.node = m /\ s.completed = S
    BY <1>1 DEF Shape
  <2>2. Alone(graph, FirstOf(graph), S, m)
    <3>1. graph \in Graphs /\ n \in S
      BY DEF LayInv
    <3>2. Laid(graph, FirstOf(graph), PlaceOf(graph))
      BY <3>1, GraphLaid
    <3> QED BY <1>5, <3>1, <3>2, FollowsAlone, Zenon
  <2>3. Going(graph, FirstOf(graph), PlaceOf(graph), s)
    BY <2>1, <2>2 DEF Going
  <2> QED BY <1>3, <1>5, <2>1, <2>3, LayBecome
<1> QED BY <1>2, <1>4, <1>5

\* A node that runs alone is done.
LEMMA LayAloneDone ==
    ASSUME LayInv, AbortInv, WellLaid, graph' = graph, NEW c \in Calls, NEW r, Shape(r),
           r.completed = runs[c].completed, NEW n, n = runs[c].node,
           runs[c].at \in {"loop", "task", "approval", "rollback"}, graph.kind[n] # "parallel_split",
           Advance(c, r, n)
    PROVE  LayInv'
<1> PICK S : S = r.completed \cup {n}
  OBVIOUS
<1>1. Alone(graph, FirstOf(graph), r.completed, n)
  BY DEF LayInv, Going
<1>2. Laid(graph, FirstOf(graph), PlaceOf(graph))
  BY GraphLaid DEF LayInv
<1>3. Whole(graph, FirstOf(graph), S) /\ n \notin DOMAIN FirstOf(graph)
  BY <1>1, <1>2, AdvanceWhole
<1> QED BY <1>3, LayAdvance

LEMMA LayExecuteFrom ==
    ASSUME LayInv, AbortInv, WellLaid, graph' = graph, NEW c \in Calls, NEW S, NEW outcome,
           Whole(graph, FirstOf(graph), S), ExecuteFrom(c, S, outcome)
    PROVE  LayInv'
<1> SUFFICES ASSUME ~ Fail(c) PROVE LayInv'
  BY LayFail
<1>1. checkpoint' \in {checkpoint, {[completed |-> S, outcome |-> outcome]}}
  BY ExecuteFromTo
<1>2. PICK n : /\ (S = {} /\ n = graph.start) \/ (S # {} /\ Follows(S, graph.start, NoOutcomes, n))
               /\ Become(c, [runs[c] EXCEPT !.at = "loop", !.node = n, !.completed = S, !.outcome = outcome])
  BY ExecuteFromTo, Zenon
<1>3. \A k \in checkpoint' : k \in checkpoint \/ Whole(graph, FirstOf(graph), k.completed)
  <2> SUFFICES ASSUME NEW k \in checkpoint', k \notin checkpoint PROVE Whole(graph, FirstOf(graph), k.completed)
    OBVIOUS
  <2>1. k = [completed |-> S, outcome |-> outcome]
    BY <1>1
  <2>2. k.completed = S
    BY <2>1
  <2> QED BY <2>2
<1>4. graph \in Graphs /\ Laid(graph, FirstOf(graph), PlaceOf(graph))
  BY GraphLaid DEF LayInv
<1>5. Alone(graph, FirstOf(graph), S, n)
  <2>1. CASE S = {}
    <3>1. n \notin DOMAIN FirstOf(graph) /\ graph.kind[n] # "join"
      BY <1>2, <1>4, <2>1 DEF Laid
    <3> QED BY <1>2, <2>1, <3>1 DEF Alone
  <2>2. CASE S # {}
    <3>1. graph.start \in S /\ graph.start \notin DOMAIN FirstOf(graph)
      BY <1>4, <2>2 DEF Whole, Laid
    <3>2. Follows(S, graph.start, NoOutcomes, n)
      BY <1>2, <2>2, Zenon
    <3> QED BY <1>4, <3>1, <3>2, FollowsAlone, Zenon
  <2> QED BY <2>1, <2>2
<1> PICK s : s = [runs[c] EXCEPT !.at = "loop", !.node = n, !.completed = S, !.outcome = outcome]
  OBVIOUS
<1>6. s.at = "loop" /\ s.node = n /\ s.completed = S
  BY DEF AbortInv, RunShape, Shape
<1>7. Going(graph, FirstOf(graph), PlaceOf(graph), s)
  BY <1>5, <1>6 DEF Going
<1> QED BY <1>2, <1>3, <1>6, <1>7, LayBecome

LEMMA LayEnterSplit ==
    ASSUME LayInv, AbortInv, WellLaid, graph' = graph, NEW c \in Calls, runs[c].at = "loop",
           NEW n, n = runs[c].node, Kind(n) = "parallel_split", EnterSplit(c, n)
    PROVE  LayInv'
<1> DEFINE heads == {graph.edges[i].to : i \in Outgoing(n)}
<1> PICK f : /\ \A h \in heads : f[h] \in Enter(NoBranch, {h})
             /\ Become(c, [runs[c] EXCEPT
                  !.at = "split", !.completed = @ \cup {n},
                  !.branches = WithAborts([m \in Nodes |-> IF m \in heads THEN f[m] ELSE NoBranch])])
  BY DEF EnterSplit
<1> PICK bs : bs = [m \in Nodes |-> IF m \in heads THEN f[m] ELSE NoBranch]
  OBVIOUS
<1> PICK w : w = WithAborts(bs)
  OBVIOUS
<1> PICK s : s = [runs[c] EXCEPT !.at = "split", !.completed = runs[c].completed \cup {n}, !.branches = w]
  OBVIOUS
<1>7. Become(c, s)
  OBVIOUS
<1> PICK T : T = runs[c].completed \cup {n}
  OBVIOUS
<1>1. graph \in Graphs /\ Laid(graph, FirstOf(graph), PlaceOf(graph))
  BY GraphLaid DEF LayInv
<1>2. heads = Heads(graph, n)
  BY DEF Heads, Outgoing
<1>3. BranchShape(NoBranch) /\ NoBranch.at = "none"
  BY DEF BranchShape, NoBranch
<1>4. DOMAIN bs = Nodes /\ \A h \in Nodes : BranchShape(bs[h])
  BY <1>3, EnterShape
<1>5. ASSUME NEW h \in Nodes
      PROVE  /\ h \in heads => bs[h].at = "failed" \/ (bs[h].at = "task" /\ bs[h].node = h)
             /\ h \notin heads => bs[h].at = "none"
  <2>1. CASE h \in heads
    <3>1. graph.kind[h] = "task"
      BY <1>1, <2>1 DEF Laid, Outgoing, Kind
    <3>2. bs[h] = f[h] /\ f[h] \in Enter(NoBranch, {h})
      BY <2>1
    <3> QED BY <1>3, <2>1, <3>1, <3>2, EnterOne
  <2>2. CASE h \notin heads
    BY <1>3, <2>2
  <2> QED BY <2>1, <2>2
<1>6. \A h \in Nodes : w[h].at = bs[h].at /\ w[h].node = bs[h].node
  BY <1>4, WithAbortsAborts
<1> HIDE DEF heads
<1>8. s.at = "split" /\ s.node = n /\ s.completed = T /\ s.branches = w
  BY DEF AbortInv, RunShape, Shape
<1>9. Alone(graph, FirstOf(graph), runs[c].completed, n) /\ graph.kind[n] = "parallel_split"
  BY DEF LayInv, Going, Kind
<1>10. Parted(graph, FirstOf(graph), PlaceOf(graph), T, n, w)
  <2>1. \A h \in Nodes :
          /\ h \in Heads(graph, n) => w[h].at = "failed" \/ (w[h].at = "task" /\ w[h].node = h)
          /\ h \notin Heads(graph, n) => w[h].at = "none"
    BY <1>2, <1>5, <1>6
  <2> QED BY <1>1, <1>9, <2>1, EnterParted
<1>11. Going(graph, FirstOf(graph), PlaceOf(graph), s)
  BY <1>8, <1>10 DEF Going
<1>12. checkpoint' = checkpoint
  BY DEF EnterSplit
<1> QED BY <1>7, <1>8, <1>11, <1>12, LayBecome

LEMMA LayLoop ==
    ASSUME LayInv, AbortInv, WellLaid, NEW c \in Calls, Loop(c)
    PROVE  LayInv'
<1> PICK r : r = runs[c]
  OBVIOUS
<1>1. Shape(r) /\ graph' = graph /\ r.at = "loop"
  BY DEF AbortInv, RunShape, Loop
<1>2. ASSUME NEW at \in {"task", "approval", "rollback"}, Become(c, [r EXCEPT !.at = at]),
             Kind(r.node) # "parallel_split", checkpoint' = checkpoint
      PROVE  LayInv'
  <2> PICK s : s = [r EXCEPT !.at = at]
    OBVIOUS
  <2>1. s.at = at /\ s.node = r.node /\ s.completed = r.completed
    BY <1>1 DEF Shape
  <2>2. Going(graph, FirstOf(graph), PlaceOf(graph), s)
    BY <1>1, <2>1 DEF LayInv, Going
  <2> QED BY <1>1, <1>2, <2>1, <2>2, LayBecome DEF Kind
<1>3. ASSUME NEW o, Kind(r.node) = "decision", Advance(c, [r EXCEPT !.outcome[r.node] = o], r.node)
      PROVE  LayInv'
  <2> PICK s : s = [r EXCEPT !.outcome[r.node] = o]
    OBVIOUS
  <2>1. Shape(s) /\ s.completed = r.completed
    BY <1>1 DEF Shape
  <2> QED BY <1>1, <1>3, <2>1, LayAloneDone DEF Kind
<1>4. CASE Kind(r.node) \in {"join", "end"} /\ Advance(c, r, r.node)
  BY <1>1, <1>4, LayAloneDone DEF Kind
<1>5. CASE Fail(c)
  BY <1>1, <1>5, LayFail
<1>6. CASE Kind(r.node) = "parallel_split" /\ EnterSplit(c, r.node)
  BY <1>1, <1>6, LayEnterSplit
<1> QED BY <1>2, <1>3, <1>4, <1>5, <1>6 DEF Loop

LEMMA LayBranchSettles ==
    ASSUME LayInv, AbortInv, WellLaid, NEW c \in Calls, NEW h \in Nodes, BranchSettles(c, h)
    PROVE  LayInv'
<1> PICK r : r = runs[c]
  OBVIOUS
<1> PICK b : b = r.branches[h]
  OBVIOUS
<1>1. /\ RunShape(r) /\ Shape(r) /\ r.at = "split" /\ b.at = "task" /\ BranchShape(b)
      /\ UNCHANGED <<graph, checkpoint>>
  <2>1. RunShape(r)
    BY DEF AbortInv
  <2>2. Shape(r) /\ BranchShape(b)
    BY <2>1 DEF RunShape
  <2>3. r.at = "split" /\ b.at = "task" /\ UNCHANGED <<graph, checkpoint>>
    BY Zenon DEF BranchSettles
  <2> QED BY <2>1, <2>2, <2>3
<1>2. graph \in Graphs /\ Laid(graph, FirstOf(graph), PlaceOf(graph))
  BY GraphLaid DEF LayInv
<1>3. Parted(graph, FirstOf(graph), PlaceOf(graph), r.completed, r.node, r.branches)
  BY <1>1 DEF LayInv, Going
<1>4. ASSUME NEW s, Become(c, s), s.at = "split", NEW S, s.completed = S, s.node = r.node, NEW bs, s.branches = WithAborts(bs),
             DOMAIN bs = Nodes, \A k \in Nodes : BranchShape(bs[k]),
             \A cs : (\A k \in Nodes : cs[k].at = bs[k].at /\ cs[k].node = bs[k].node)
                       => Parted(graph, FirstOf(graph), PlaceOf(graph), S, r.node, cs)
      PROVE  LayInv'
  <2>1. \A k \in Nodes : s.branches[k].at = bs[k].at /\ s.branches[k].node = bs[k].node
    BY <1>4, WithAbortsAborts
  <2>2. Parted(graph, FirstOf(graph), PlaceOf(graph), S, r.node, s.branches)
    BY <1>4, <2>1
  <2>3. Going(graph, FirstOf(graph), PlaceOf(graph), s)
    BY <1>4, <2>2 DEF Going
  <2> QED BY <1>1, <1>4, <2>3, LayBecome
<1>5. ASSUME NEW next \in Enter(b, FirstTarget(Outgoing(b.node))),
             Become(c, [r EXCEPT !.completed = @ \cup {b.node}, !.branches = WithAborts([@ EXCEPT ![h] = next])])
      PROVE  LayInv'
  <2>1. PICK n : n = b.node
    OBVIOUS
  <2>2. PICK bs : bs = [r.branches EXCEPT ![h] = next]
    OBVIOUS
  <2>3. PICK w : w = WithAborts(bs)
    OBVIOUS
  <2>4. PICK S : S = r.completed \cup {n}
    OBVIOUS
  <2>5. PICK s : s = [r EXCEPT !.completed = S, !.branches = w]
    OBVIOUS
  <2>6. Become(c, s)
    BY <1>5, <2>1, <2>2, <2>3, <2>4, <2>5
  <2>7. DOMAIN bs = Nodes /\ bs[h] = next /\ \A k \in Nodes : k # h => bs[k] = r.branches[k]
    BY <1>1, <2>2 DEF RunShape
  <2>8. \A k \in Nodes : BranchShape(bs[k])
    BY <1>1, <1>5, <2>7, EnterShape DEF RunShape
  <2>9. s.at = "split" /\ s.completed = S /\ s.node = r.node /\ s.branches = w
    BY <1>1, <2>5 DEF Shape
  <2>10. ASSUME NEW cs, \A k \in Nodes : cs[k].at = bs[k].at /\ cs[k].node = bs[k].node
         PROVE  Parted(graph, FirstOf(graph), PlaceOf(graph), S, r.node, cs)
    <3>1. /\ cs[h].at = next.at /\ cs[h].node = next.node
          /\ \A k \in Nodes : k # h => cs[k].at = r.branches[k].at /\ cs[k].node = r.branches[k].node
      BY <2>7, <2>10
    <3>2. next \in Enter(r.branches[h], FirstTarget(Outgoing(n))) /\ BranchShape(r.branches[h])
          /\ r.branches[h].at = "task" /\ n = r.branches[h].node
      BY <1>1, <1>5, <2>1
    <3> QED BY <1>2, <1>3, <2>4, <3>1, <3>2, BranchGoesOn
  <2> QED BY <1>4, <2>3, <2>6, <2>7, <2>8, <2>9, <2>10
<1>6. ASSUME Become(c, [r EXCEPT !.branches = WithAborts([@ EXCEPT ![h].at = "failed"])])
      PROVE  LayInv'
  <2>1. PICK f : f = [b EXCEPT !.at = "failed"]
    OBVIOUS
  <2>2. PICK bs : bs = [r.branches EXCEPT ![h] = f]
    OBVIOUS
  <2>3. PICK w : w = WithAborts(bs)
    OBVIOUS
  <2>4. PICK s : s = [r EXCEPT !.branches = w]
    OBVIOUS
  <2>5. Become(c, s)
    BY <1>6, <2>1, <2>2, <2>3, <2>4
  <2>6. BranchShape(f) /\ f.at = "failed"
    BY <1>1, <2>1 DEF BranchShape
  <2>7. DOMAIN bs = Nodes /\ bs[h] = f /\ \A k \in Nodes : k # h => bs[k] = r.branches[k]
    BY <1>1, <2>2 DEF RunShape
  <2>8. \A k \in Nodes : BranchShape(bs[k])
    BY <1>1, <2>6, <2>7 DEF RunShape
  <2>9. s.at = "split" /\ s.completed = r.completed /\ s.node = r.node /\ s.branches = w
    BY <1>1, <2>4 DEF Shape
  <2>10. ASSUME NEW cs, \A k \in Nodes : cs[k].at = bs[k].at /\ cs[k].node = bs[k].node
         PROVE  Parted(graph, FirstOf(graph), PlaceOf(graph), r.completed, r.node, cs)
    <3>1. /\ cs[h].at = "failed"
          /\ \A k \in Nodes : k # h => cs[k].at = r.branches[k].at /\ cs[k].node = r.branches[k].node
      BY <2>6, <2>7, <2>10
    <3>2. r.branches[h].at = "task"
      BY <1>1
    <3> QED BY <1>3, <3>1, <3>2, BranchFails, Zenon
  <2> QED BY <1>4, <2>3, <2>5, <2>7, <2>8, <2>9, <2>10
<1> QED BY <1>5, <1>6 DEF BranchSettles

LEMMA LaySplitSettles ==
    ASSUME LayInv, AbortInv, WellLaid, NEW c \in Calls, SplitSettles(c)
    PROVE  LayInv'
<1> PICK r : r = runs[c]
  OBVIOUS
<1>1. Shape(r) /\ r.at = "split" /\ graph' = graph
  BY DEF AbortInv, RunShape, SplitSettles
<1>2. graph \in Graphs /\ Laid(graph, FirstOf(graph), PlaceOf(graph))
  BY GraphLaid DEF LayInv
<1>3. Parted(graph, FirstOf(graph), PlaceOf(graph), r.completed, r.node, r.branches)
  BY <1>1 DEF LayInv, Going
<1>4. CASE Fail(c)
  BY <1>1, <1>4, LayFail
<1>5. CASE Advance(c, r, r.node) /\ \A h \in Nodes : r.branches[h].at \notin {"task", "failed"}
  <2>4. \A h \in Nodes : r.branches[h].at \in {"none", "task", "passed", "failed"}
    BY <1>3 DEF Parted, BranchAt, Nodes
  <2>5. \A h \in Nodes : r.branches[h].at # "none" => r.branches[h].at = "passed"
    BY <1>5, <2>4
  <2>1. Whole(graph, FirstOf(graph), r.completed) /\ r.node \in r.completed /\ r.node \notin DOMAIN FirstOf(graph)
    BY <1>2, <1>3, <2>5, SplitWhole
  <2>2. PICK S : S = r.completed \cup {r.node}
    OBVIOUS
  <2>3. S = r.completed
    BY <2>1, <2>2
  <2> QED BY <1>1, <1>5, <2>1, <2>2, <2>3, LayAdvance
<1> QED BY <1>4, <1>5 DEF SplitSettles

LEMMA LayStep ==
    ASSUME LayInv, AbortInv, WellLaid, [Next]_vars
    PROVE  LayInv'
<1>1. CASE UNCHANGED vars
  BY <1>1 DEF vars, LayInv
<1>2. ASSUME NEW c \in Calls, Start(c)
      PROVE  LayInv'
  <2>1. Whole(graph, FirstOf(graph), {})
    BY DEF Whole
  <2> QED BY <1>2, <2>1, LayExecuteFrom DEF Start
<1>3. ASSUME NEW c \in Calls, Resume(c)
      PROVE  LayInv'
  <2> PICK k \in checkpoint : ExecuteFrom(c, k.completed, k.outcome)
    BY <1>3 DEF Resume
  <2>1. Whole(graph, FirstOf(graph), k.completed)
    BY DEF LayInv
  <2> QED BY <1>3, <2>1, LayExecuteFrom DEF Resume
<1>4. ASSUME NEW c \in Calls, runs[c].at \in {"task", "approval", "rollback"}, graph' = graph, NEW r,
             Shape(r), r.completed = runs[c].completed, Advance(c, r, runs[c].node)
      PROVE  LayInv'
  <2>1. graph.kind[runs[c].node] # "parallel_split"
    BY <1>4 DEF LayInv
  <2> QED BY <1>4, <2>1, LayAloneDone
<1>5. ASSUME NEW c \in Calls, TaskSettles(c) \/ RolledBack(c)
      PROVE  LayInv'
  <2>1. Shape(runs[c])
    BY DEF AbortInv, RunShape
  <2>2. Advance(c, runs[c], runs[c].node) \/ Fail(c)
    BY <1>5 DEF TaskSettles, RolledBack
  <2>3. runs[c].at \in {"task", "approval", "rollback"} /\ graph' = graph
    BY <1>5 DEF TaskSettles, RolledBack
  <2> QED BY <1>4, <2>1, <2>2, <2>3, LayFail
<1>6. ASSUME NEW c \in Calls, Approve(c)
      PROVE  LayInv'
  <2> PICK n : n = runs[c].node
    OBVIOUS
  <2> PICK o : Advance(c, [runs[c] EXCEPT !.outcome[n] = o], n)
    BY <1>6 DEF Approve
  <2> PICK s : s = [runs[c] EXCEPT !.outcome[n] = o]
    OBVIOUS
  <2>1. Shape(s) /\ s.completed = runs[c].completed
    BY DEF AbortInv, RunShape, Shape
  <2>2. runs[c].at = "approval" /\ graph' = graph
    BY <1>6 DEF Approve
  <2> QED BY <1>4, <2>1, <2>2
<1> QED
  BY <1>1, <1>2, <1>3, <1>5, <1>6, LayLoop, LayBranchSettles, LaySplitSettles DEF Next, Settles

\* Nothing is resumed from that has a join without one of its branches, or a
\* split with only some, as long as the branches of the workflow are
\* independent (runParallelBranch, persistCheckpoint).
THEOREM CheckpointSoundHolds ==
    ASSUME WellLaid
    PROVE  Spec => []CheckpointSound
<1> USE WellLaid
<1>1. Init => LayInv /\ AbortInv /\ CompletedInv
  <2>1. Init => AbortInv
    BY DEF Init, AbortInv, RunShape, Shape, BranchShape, NoBranch, Nodes
  <2>2. Init => CompletedInv
    BY DEF Init, CompletedInv, Shape, Awaiting, Within, CheckpointVerified
  <2>3. Init => LayInv
    BY DEF Init, LayInv, Going
  <2> QED BY <2>1, <2>2, <2>3
<1>2. LayInv /\ AbortInv /\ CompletedInv /\ [Next]_vars => LayInv' /\ AbortInv' /\ CompletedInv'
  BY LayStep, AbortStep, CompletedStep
<1>3. ASSUME LayInv, CompletedInv
      PROVE  CheckpointSound
  <2> SUFFICES ASSUME NEW k \in checkpoint, NEW n \in k.completed
               PROVE  /\ Kind(n) = "task" => n \in verified
                      /\ Kind(n) \in {"join", "parallel_split"} =>
                           \A e \in Edges :
                             /\ Kind(n) = "join" /\ e.to = n => e.from \in k.completed
                             /\ Kind(n) = "parallel_split" /\ e.from = n => e.to \in k.completed
    BY DEF CheckpointSound
  <2>1. Kind(n) = "task" => n \in verified
    BY <1>3 DEF CompletedInv, CheckpointVerified, Within, Kind
  <2>2. Whole(graph, FirstOf(graph), k.completed)
    BY <1>3 DEF LayInv
  <2>3. ASSUME NEW e \in Edges
        PROVE  /\ Kind(n) = "join" /\ e.to = n => e.from \in k.completed
               /\ Kind(n) = "parallel_split" /\ e.from = n => e.to \in k.completed
    <3>1. PICK i \in DOMAIN graph.edges : e = graph.edges[i]
      BY DEF Edges
    <3> QED BY <2>2, <3>1 DEF Whole, Kind
  <2> QED BY <2>1, <2>3
<1> QED BY <1>1, <1>2, <1>3, PTL DEF Spec

\* What a run executes it has not completed, in a resumption either, and two
\* branches of a split execute no node both (nextPendingNode): in a workflow
\* with independent branches.
THEOREM NothingTwiceHolds ==
    ASSUME WellLaid
    PROVE  Spec => []NothingTwice
<1> USE WellLaid
<1>1. Init => LayInv /\ AbortInv
  <2>1. Init => AbortInv
    BY DEF Init, AbortInv, RunShape, Shape, BranchShape, NoBranch, Nodes
  <2>2. Init => LayInv
    BY DEF Init, LayInv, Going
  <2> QED BY <2>1, <2>2
<1>2. LayInv /\ AbortInv /\ [Next]_vars => LayInv' /\ AbortInv'
  BY LayStep, AbortStep
<1>3. ASSUME LayInv
      PROVE  NothingTwice
  <2> SUFFICES ASSUME NEW c \in Calls, NEW n \in Executing(runs[c])
               PROVE  n \notin runs[c].completed
    BY DEF NothingTwice
  <2>1. Going(graph, FirstOf(graph), PlaceOf(graph), runs[c])
    BY <1>3 DEF LayInv
  <2>2. CASE runs[c].at = "split"
    <3>1. PICK h \in Nodes : runs[c].branches[h].at = "task" /\ n = runs[c].branches[h].node
      BY <2>2 DEF Executing
    <3>2. BranchAt(FirstOf(graph), PlaceOf(graph), runs[c].completed, h, runs[c].branches[h])
      BY <2>1, <2>2 DEF Going, Parted, Nodes
    <3>3. n \in DOMAIN FirstOf(graph)
          /\ (n \in runs[c].completed <=> PlaceOf(graph)[n] < PlaceOf(graph)[n])
      BY <3>1, <3>2 DEF BranchAt
    <3>4. PlaceOf(graph)[n] \in Nat
      BY <1>3, <3>3, GraphLaid DEF LayInv, Laid
    <3> QED BY <3>3, <3>4
  <2>3. CASE runs[c].at # "split"
    <3>1. runs[c].at \in {"task", "approval", "rollback"} /\ n = runs[c].node
      BY <2>3 DEF Executing, Awaits
    <3> QED BY <2>1, <3>1 DEF Going, Alone
  <2> QED BY <2>2, <2>3
<1> QED BY <1>1, <1>2, <1>3, PTL DEF Spec
=============================================================================
