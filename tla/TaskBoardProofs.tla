---------------------------- MODULE TaskBoardProofs ----------------------------
(***************************************************************************)
(* Proofs that the board of TaskBoard keeps its invariants for any tasks,  *)
(* workers and links.                                                      *)
(***************************************************************************)
EXTENDS TaskBoard, TLAPS

-----------------------------------------------------------------------------
(* What the operators return.                                              *)

(* A gate, or the wait a note names, is one of the waits a row can hold.   *)
LEMMA WaitKinds ==
    ASSUME NEW t \in Tasks, NEW note \in Notes
    PROVE  LiveGate(t) \in Waits /\ NoteWait(t, note) \in Waits
BY DEF LiveGate, NoteWait, Waits, Notes

(* A transition writes one row, and keeps its owner.                       *)
LEMMA MovedRow ==
    ASSUME tasks \in [Tasks -> Rows], NEW t \in Tasks, NEW target \in States, NEW note \in Notes
    PROVE  LET after == Moved(t, target, note)
           IN  /\ after \in [Tasks -> Rows]
               /\ \A u \in Tasks \ {t} : after[u] = tasks[u]
               /\ after[t].state = target
               /\ after[t].owner = tasks[t].owner
               /\ after[t].gone = tasks[t].gone
               /\ target # "blocked" => after[t].block = NoBlock
<1> DEFINE block == IF target # "blocked" THEN NoBlock
                    ELSE [draft |-> tasks[t].state = "draft",
                          wait |-> NoteWait(t, note),
                          met |-> FALSE,
                          asked |-> t \in pending]
           row == [tasks[t] EXCEPT !.state = target, !.block = block]
<1>1. NoteWait(t, note) \in Waits
  BY WaitKinds
<1>2. block \in Blocks
  <2>1. CASE target # "blocked"
    BY <2>1 DEF Blocks, NoBlock, Waits, Notes
  <2>2. CASE target = "blocked"
    <3>1. /\ (tasks[t].state = "draft") \in BOOLEAN
          /\ (t \in pending) \in BOOLEAN
      OBVIOUS
    <3>2. \A draft, asked \in BOOLEAN, wait \in Waits :
            [draft |-> draft, wait |-> wait, met |-> FALSE, asked |-> asked] \in Blocks
      BY DEF Blocks
    <3> QED BY <1>1, <2>2, <3>1, <3>2, Zenon
  <2> QED BY <2>1, <2>2
<1>3. /\ row \in Rows
      /\ row.state = target /\ row.owner = tasks[t].owner
      /\ row.gone = tasks[t].gone /\ row.block = block
  <2> HIDE DEF block
  <2> QED BY <1>2 DEF Rows
<1>4. Moved(t, target, note) = [tasks EXCEPT ![t] = row]
  BY DEF Moved
<1> HIDE DEF row
<1>5. Moved(t, target, note)[t] = row
  BY <1>4
<1> QED BY <1>3, <1>4, <1>5

(* So does an answer that parks its task.                                  *)
LEMMA ParkedRow ==
    ASSUME tasks \in [Tasks -> Rows], NEW t \in Tasks
    PROVE  /\ Parked(t) \in [Tasks -> Rows]
           /\ \A u \in Tasks \ {t} : Parked(t)[u] = tasks[u]
           /\ Parked(t)[t].state = "blocked"
           /\ Parked(t)[t].owner = tasks[t].owner
           /\ Parked(t)[t].gone = tasks[t].gone
<1> DEFINE block == [NoBlock EXCEPT !.wait = "operator"]
           row == [tasks[t] EXCEPT !.state = "blocked", !.block = block]
<1>1. block \in Blocks
  BY DEF Blocks, NoBlock, Waits, Notes
<1>2. /\ row \in Rows
      /\ row.state = "blocked" /\ row.owner = tasks[t].owner /\ row.gone = tasks[t].gone
  <2> HIDE DEF block
  <2> QED BY <1>1 DEF Rows, States
<1>3. Parked(t) = [tasks EXCEPT ![t] = row]
  BY DEF Parked
<1> HIDE DEF row
<1> QED BY <1>2, <1>3

(* Recording a gate on a block, or that its wait was met, changes its row  *)
(* in the block alone.                                                     *)
BlockOnly(after, t) ==
    /\ after \in [Tasks -> Rows]
    /\ \A u \in Tasks \ {t} : after[u] = tasks[u]
    /\ after[t].state = tasks[t].state
    /\ after[t].owner = tasks[t].owner
    /\ after[t].gone = tasks[t].gone

LEMMA TypedRow ==
    ASSUME tasks \in [Tasks -> Rows], NEW t \in Tasks, NEW gate \in Waits
    PROVE  /\ BlockOnly(Typed(t, gate), t)
           /\ ~Blocked(t) => Typed(t, gate) = tasks
<1> DEFINE row == [tasks[t] EXCEPT !.block = [@ EXCEPT !.wait = gate]]
<1>1. tasks[t] \in Rows /\ tasks[t].block \in Blocks
  BY DEF Rows
<1>2. [tasks[t].block EXCEPT !.wait = gate] \in Blocks
  BY <1>1 DEF Blocks
<1>3. /\ row \in Rows
      /\ row.state = tasks[t].state /\ row.owner = tasks[t].owner /\ row.gone = tasks[t].gone
  BY <1>1, <1>2 DEF Rows
<1>4. [tasks EXCEPT ![t].block.wait = gate] = [tasks EXCEPT ![t] = row]
  OBVIOUS
<1> HIDE DEF row
<1>5. BlockOnly([tasks EXCEPT ![t] = row], t)
  BY <1>3 DEF BlockOnly
<1>6. BlockOnly(tasks, t)
  BY DEF BlockOnly
<1> QED BY <1>4, <1>5, <1>6 DEF Typed

LEMMA MetRow ==
    ASSUME tasks \in [Tasks -> Rows], NEW t \in Tasks
    PROVE  BlockOnly([tasks EXCEPT ![t].block.met = TRUE], t)
<1> DEFINE row == [tasks[t] EXCEPT !.block = [@ EXCEPT !.met = TRUE]]
<1>1. tasks[t] \in Rows /\ tasks[t].block \in Blocks
  BY DEF Rows
<1>2. [tasks[t].block EXCEPT !.met = TRUE] \in Blocks
  BY <1>1 DEF Blocks
<1>3. /\ row \in Rows
      /\ row.state = tasks[t].state /\ row.owner = tasks[t].owner /\ row.gone = tasks[t].gone
  BY <1>1, <1>2 DEF Rows
<1>4. [tasks EXCEPT ![t].block.met = TRUE] = [tasks EXCEPT ![t] = row]
  OBVIOUS
<1> HIDE DEF row
<1> QED BY <1>3, <1>4 DEF BlockOnly
-----------------------------------------------------------------------------
(* The ways a step can change a row, apart from its block.  The proofs of  *)
(* the invariants look at these and no longer at the actions.              *)

Keeps(u) ==
    /\ tasks'[u].state = tasks[u].state
    /\ tasks'[u].owner = tasks[u].owner
    /\ tasks'[u].gone = tasks[u].gone

Moves(t) ==
    \E target \in States :
        /\ MayMove(t, target)
        /\ tasks'[t].state = target
        /\ tasks'[t].owner = tasks[t].owner
        /\ tasks'[t].gone = tasks[t].gone

Parks(t) ==
    /\ tasks[t].state \notin Finished
    /\ tasks'[t].state = "blocked"
    /\ tasks'[t].owner = tasks[t].owner
    /\ tasks'[t].gone = tasks[t].gone

IsGiven(t) ==
    \E w \in Workers \union {Nobody} :
        /\ Present(t) \/ w = Nobody
        /\ tasks[t].state = "active" => HoldsNoOther(w, t)
        /\ tasks'[t].state = tasks[t].state
        /\ tasks'[t].owner = w
        /\ tasks'[t].gone = tasks[t].gone

ComesOrGoes(t) ==
    /\ tasks'[t].state = tasks[t].state
    /\ \/ tasks'[t].owner = Nobody
       \/ ~Present(t) /\ tasks'[t].owner = tasks[t].owner
    /\ tasks'[t].gone => tasks'[t].owner = Nobody

OneChanges ==
    /\ prerequisites' = prerequisites
    /\ \E t \in Tasks :
        /\ \A u \in Tasks \ {t} : Keeps(u)
        /\ Keeps(t) \/ Moves(t) \/ Parks(t) \/ IsGiven(t) \/ ComesOrGoes(t)

LinkComes ==
    /\ \A u \in Tasks : Keeps(u)
    /\ \E t, p \in Tasks : MayNeed(t, p) /\ prerequisites' = prerequisites \union {<<t, p>>}

LinkGoes ==
    /\ \A u \in Tasks : Keeps(u)
    /\ prerequisites' \subseteq prerequisites

(* What the type invariant says of the rows.                               *)
RowsOK ==
    /\ tasks \in [Tasks -> Rows]
    /\ \A t \in Tasks : tasks[t].state # "blocked" => tasks[t].block = NoBlock

OthersOK ==
    /\ prerequisites \subseteq Tasks \X Tasks
    /\ pending \subseteq Tasks /\ owed \subseteq Tasks /\ due \subseteq Tasks
    /\ crashes \in 0..MaxCrashes

LEMMA TypeParts == TypeOK <=> RowsOK /\ OthersOK
BY DEF TypeOK, RowsOK, OthersOK

(* A move by the ordinary transition.                                      *)
LEMMA MoveStep ==
    ASSUME RowsOK, NEW t \in Tasks, NEW target \in States, NEW note \in Notes,
           MayMove(t, target), tasks' = Moved(t, target, note),
           prerequisites' = prerequisites
    PROVE  RowsOK' /\ OneChanges
<1>1. /\ tasks' \in [Tasks -> Rows]
      /\ \A u \in Tasks \ {t} : tasks'[u] = tasks[u]
      /\ tasks'[t].state = target
      /\ tasks'[t].owner = tasks[t].owner
      /\ tasks'[t].gone = tasks[t].gone
      /\ target # "blocked" => tasks'[t].block = NoBlock
  BY MovedRow DEF RowsOK
<1>2. Moves(t)
  BY <1>1 DEF Moves
<1>3. \A u \in Tasks \ {t} : Keeps(u)
  BY <1>1 DEF Keeps
<1> QED BY <1>1, <1>2, <1>3 DEF RowsOK, OneChanges

(* A step that changes no row, or the block of a blocked one.              *)
LEMMA BlockStep ==
    ASSUME RowsOK, NEW t \in Tasks, BlockOnly(tasks', t),
           tasks' = tasks \/ Blocked(t)
    PROVE  RowsOK' /\ \A u \in Tasks : Keeps(u)
BY DEF RowsOK, BlockOnly, Keeps, Blocked

LEMMA StillStep ==
    ASSUME tasks' = tasks
    PROVE  \A u \in Tasks : Keeps(u)
BY DEF Keeps

-----------------------------------------------------------------------------
(* Every action keeps the rows and changes them in one of those ways.      *)

LEMMA TransitionStep ==
    ASSUME RowsOK, NEW t \in Tasks, NEW target \in States, NEW note \in Notes,
           Transition(t, target, note)
    PROVE  RowsOK' /\ OneChanges
BY MoveStep DEF Transition

LEMMA AssignStep ==
    ASSUME RowsOK, NEW t \in Tasks, NEW w \in Workers, Assign(t, w)
    PROVE  RowsOK' /\ OneChanges
<1>1. /\ tasks' \in [Tasks -> Rows]
      /\ \A u \in Tasks \ {t} : tasks'[u] = tasks[u]
      /\ tasks'[t].state = tasks[t].state /\ tasks'[t].owner = w
      /\ tasks'[t].gone = tasks[t].gone /\ tasks'[t].block = tasks[t].block
  BY DEF Assign, RowsOK, Rows
<1>2. IsGiven(t)
  BY <1>1 DEF IsGiven, Assign
<1> QED BY <1>1, <1>2 DEF RowsOK, OneChanges, Keeps, Assign

LEMMA UnassignStep ==
    ASSUME RowsOK, NEW t \in Tasks, Unassign(t)
    PROVE  RowsOK' /\ OneChanges
<1>1. /\ tasks' \in [Tasks -> Rows]
      /\ \A u \in Tasks \ {t} : tasks'[u] = tasks[u]
      /\ tasks'[t].state = tasks[t].state /\ tasks'[t].owner = Nobody
      /\ tasks'[t].gone = tasks[t].gone /\ tasks'[t].block = tasks[t].block
  BY DEF Unassign, RowsOK, Rows
<1>2. IsGiven(t)
  BY <1>1 DEF IsGiven, HoldsNoOther
<1> QED BY <1>1, <1>2 DEF RowsOK, OneChanges, Keeps, Unassign

LEMMA RemoveStep ==
    ASSUME RowsOK, NEW t \in Tasks, Remove(t)
    PROVE  RowsOK' /\ OneChanges
<1>1. /\ tasks' \in [Tasks -> Rows]
      /\ \A u \in Tasks \ {t} : tasks'[u] = tasks[u]
      /\ tasks'[t].state = tasks[t].state /\ tasks'[t].owner = Nobody
      /\ tasks'[t].block = tasks[t].block
  BY DEF Remove, RowsOK, Rows
<1> QED BY <1>1 DEF RowsOK, OneChanges, ComesOrGoes, Keeps, Remove

LEMMA RestoreStep ==
    ASSUME RowsOK, NEW t \in Tasks, Restore(t)
    PROVE  RowsOK' /\ OneChanges
<1>1. /\ tasks' \in [Tasks -> Rows]
      /\ \A u \in Tasks \ {t} : tasks'[u] = tasks[u]
      /\ tasks'[t].state = tasks[t].state /\ tasks'[t].owner = tasks[t].owner
      /\ tasks'[t].block = tasks[t].block /\ ~tasks'[t].gone
  BY DEF Restore, RowsOK, Rows
<1> QED BY <1>1 DEF RowsOK, OneChanges, ComesOrGoes, Keeps, Restore

LEMMA AddPrerequisiteStep ==
    ASSUME RowsOK, NEW t \in Tasks, NEW p \in Tasks, AddPrerequisite(t, p)
    PROVE  RowsOK' /\ LinkComes
<1> DEFINE gate == CASE SomeOutstanding(t) \/ Outstanding(p) -> "task"
                     [] OTHER -> LiveGate(t)
<1>1. gate \in Waits
  BY DEF LiveGate, Waits, Notes
<1>2. tasks' = Typed(t, gate)
  BY DEF AddPrerequisite
<1> HIDE DEF gate
<1>3. RowsOK' /\ \A u \in Tasks : Keeps(u)
  BY <1>1, <1>2, TypedRow, BlockStep DEF RowsOK
<1> QED BY <1>3 DEF LinkComes, AddPrerequisite

LEMMA RemovePrerequisiteStep ==
    ASSUME RowsOK, NEW t \in Tasks, NEW p \in Tasks, RemovePrerequisite(t, p)
    PROVE  RowsOK' /\ LinkGoes
BY StillStep DEF RemovePrerequisite, RowsOK, LinkGoes

LEMMA LinkDecisionStep ==
    ASSUME RowsOK, NEW t \in Tasks, LinkDecision(t)
    PROVE  RowsOK' /\ LinkGoes
<1> DEFINE gate == IF SomeOutstanding(t) THEN "task" ELSE "decision"
<1>1. gate \in Waits
  BY DEF Waits
<1>2. tasks' = Typed(t, gate)
  BY DEF LinkDecision
<1> HIDE DEF gate
<1>3. RowsOK' /\ \A u \in Tasks : Keeps(u)
  BY <1>1, <1>2, TypedRow, BlockStep DEF RowsOK
<1> QED BY <1>3 DEF LinkGoes, LinkDecision

LEMMA AnswerStep ==
    ASSUME RowsOK, NEW t \in Tasks, Answer(t)
    PROVE  RowsOK' /\ OneChanges
<1>1. CASE tasks' = tasks
  BY <1>1, StillStep DEF Answer, RowsOK, OneChanges
<1>2. CASE tasks[t].state \notin Finished /\ tasks' = Parked(t)
  <2>1. /\ tasks' \in [Tasks -> Rows]
        /\ \A u \in Tasks \ {t} : tasks'[u] = tasks[u]
        /\ tasks'[t].state = "blocked"
        /\ tasks'[t].owner = tasks[t].owner
        /\ tasks'[t].gone = tasks[t].gone
    BY <1>2, ParkedRow DEF RowsOK
  <2> QED BY <1>2, <2>1 DEF RowsOK, OneChanges, Parks, Keeps, Answer
<1> QED BY <1>1, <1>2 DEF Answer

LEMMA BlockOwedStep ==
    ASSUME RowsOK, NEW t \in Tasks, BlockOwed(t)
    PROVE  RowsOK' /\ OneChanges
<1>1. CASE MayMove(t, "blocked")
  BY <1>1, MoveStep DEF BlockOwed, States, Notes
<1>2. CASE ~MayMove(t, "blocked")
  BY <1>2, StillStep DEF BlockOwed, RowsOK, OneChanges
<1> QED BY <1>1, <1>2

LEMMA ResumeStep ==
    ASSUME RowsOK, NEW t \in Tasks, Resume(t)
    PROVE  RowsOK' /\ OneChanges
<1>1. CASE MayMove(t, "ready")
  BY <1>1, MoveStep DEF Resume, States, Notes
<1>2. CASE ~MayMove(t, "ready")
  BY <1>2, StillStep DEF Resume, RowsOK, OneChanges
<1> QED BY <1>1, <1>2

(* Done, or a time that arrives: only a blocked row has a wait.            *)
LEMMA MetStep ==
    ASSUME RowsOK, NEW t \in Tasks, Done(t) \/ TimeArrives(t)
    PROVE  RowsOK' /\ LinkGoes
<1>1. tasks' = [tasks EXCEPT ![t].block.met = TRUE] /\ prerequisites' = prerequisites
  BY DEF Done, TimeArrives
<1>2. tasks[t].block.wait # "none"
  BY DEF Done, TimeArrives
<1>3. tasks[t].state = "blocked"
  BY <1>2 DEF RowsOK, NoBlock
<1>4. BlockOnly(tasks', t)
  BY <1>1, MetRow DEF RowsOK
<1>5. RowsOK'
  BY <1>3, <1>4 DEF RowsOK, BlockOnly
<1>6. \A u \in Tasks : Keeps(u)
  BY <1>4 DEF BlockOnly, Keeps
<1> QED BY <1>1, <1>5, <1>6 DEF LinkGoes

LEMMA OtherStep ==
    ASSUME RowsOK, UNCHANGED <<tasks, prerequisites>>
    PROVE  RowsOK' /\ LinkGoes
BY StillStep DEF RowsOK, LinkGoes

LEMMA Steps ==
    ASSUME RowsOK, [Next]_vars
    PROVE  RowsOK' /\ (OneChanges \/ LinkComes \/ LinkGoes)
<1>1. ASSUME NEW t \in Tasks, NEW target \in States, NEW note \in Notes,
             Transition(t, target, note)
      PROVE  RowsOK' /\ OneChanges
  BY <1>1, TransitionStep
<1>2. ASSUME NEW t \in Tasks, NEW w \in Workers, Assign(t, w)
      PROVE  RowsOK' /\ OneChanges
  BY <1>2, AssignStep
<1>3. ASSUME NEW t \in Tasks, NEW p \in Tasks, AddPrerequisite(t, p)
      PROVE  RowsOK' /\ LinkComes
  BY <1>3, AddPrerequisiteStep
<1>4. ASSUME NEW t \in Tasks, NEW p \in Tasks, RemovePrerequisite(t, p)
      PROVE  RowsOK' /\ LinkGoes
  BY <1>4, RemovePrerequisiteStep
<1>5. ASSUME NEW t \in Tasks, Unassign(t) \/ Remove(t) \/ Restore(t) \/ Answer(t)
                              \/ BlockOwed(t) \/ Resume(t)
      PROVE  RowsOK' /\ OneChanges
  BY <1>5, UnassignStep, RemoveStep, RestoreStep, AnswerStep, BlockOwedStep, ResumeStep
<1>6. ASSUME NEW t \in Tasks, LinkDecision(t) \/ Done(t) \/ TimeArrives(t)
      PROVE  RowsOK' /\ LinkGoes
  BY <1>6, LinkDecisionStep, MetStep
<1>7. ASSUME NEW t \in Tasks, Ask(t)
      PROVE  RowsOK' /\ LinkGoes
  BY <1>7, OtherStep DEF Ask
<1>8. ASSUME Read \/ Crash \/ UNCHANGED vars
      PROVE  RowsOK' /\ LinkGoes
  BY <1>8, OtherStep DEF Read, Crash, vars
<1> QED BY <1>1, <1>2, <1>3, <1>4, <1>5, <1>6, <1>7, <1>8 DEF Next

-----------------------------------------------------------------------------
(* Acyclic: a link from t to p closes a circle only if p already reaches t. *)

(* What is reached contains where it started and is closed.                *)
LEMMA ReachedClosed ==
    ASSUME NEW p \in Tasks, NEW graph, graph \subseteq Tasks \X Tasks
    PROVE  p \in Reached(p, graph) /\ Closed(Reached(p, graph), graph)
<1>1. p \in Reached(p, graph)
  BY DEF Reached
<1>2. ASSUME NEW e \in graph, e[1] \in Reached(p, graph)
      PROVE  e[2] \in Reached(p, graph)
  <2>1. e[2] \in Tasks
    OBVIOUS
  <2>2. ASSUME NEW S \in SUBSET Tasks, p \in S, Closed(S, graph)
        PROVE  e[2] \in S
    <3>1. e[1] \in S
      BY <1>2, <2>2 DEF Reached
    <3> QED BY <2>2, <3>1 DEF Closed
  <2> QED BY <2>1, <2>2 DEF Reached
<1> QED BY <1>1, <1>2 DEF Closed

LEMMA LinkKeepsAcyclic ==
    ASSUME prerequisites \subseteq Tasks \X Tasks, Acyclic,
           NEW t \in Tasks, NEW p \in Tasks, MayNeed(t, p),
           prerequisites' = prerequisites \union {<<t, p>>}
    PROVE  Acyclic'
<1> SUFFICES ASSUME NEW S \in SUBSET Tasks, S # {}
             PROVE  \E u \in S : Needs(u)' \intersect S = {}
  BY DEF Acyclic
<1>1. \A u \in Tasks : Needs(u)' = Needs(u) \union (IF u = t THEN {p} ELSE {})
  BY DEF Needs
<1>2. CASE t \notin S \/ p \notin S
  <2>1. PICK u \in S : Needs(u) \intersect S = {}
    BY DEF Acyclic
  <2>2. Needs(u)' \intersect S = {}
    BY <1>1, <1>2, <2>1
  <2> QED BY <2>2
<1>3. CASE t \in S /\ p \in S
  <2> DEFINE R == Reached(p, prerequisites)
  <2>1. p \in R /\ Closed(R, prerequisites) /\ t \notin R
    BY ReachedClosed DEF MayNeed
  <2>2. R \intersect S \in SUBSET Tasks /\ R \intersect S # {}
    BY <1>3, <2>1
  <2>3. PICK u \in R \intersect S : Needs(u) \intersect (R \intersect S) = {}
    BY <2>2 DEF Acyclic
  <2>4. Needs(u) \subseteq R
    <3>1. ASSUME NEW q \in Tasks, <<u, q>> \in prerequisites
          PROVE  q \in R
      <4>1. <<u, q>>[1] = u /\ <<u, q>>[2] = q
        OBVIOUS
      <4> QED BY <2>1, <2>3, <3>1, <4>1 DEF Closed
    <3> QED BY <3>1 DEF Needs
  <2>5. Needs(u) \intersect S = {}
    BY <2>3, <2>4
  <2>6. u # t
    BY <2>1, <2>3
  <2>7. Needs(u)' \intersect S = {}
    BY <1>1, <2>5, <2>6
  <2> QED BY <2>3, <2>7
<1> QED BY <1>2, <1>3

-----------------------------------------------------------------------------
(* The inductive invariant.  A removed task must be known to have no owner, *)
(* or restoring it could give its old worker a second active task.         *)
GoneUnowned == \A t \in Tasks : tasks[t].gone => tasks[t].owner = Nobody

Inv == TypeOK /\ Acyclic /\ FinishedInOrder /\ GoneUnowned /\ OneActive

LEMMA AcyclicStep ==
    ASSUME TypeOK, Acyclic, OneChanges \/ LinkComes \/ LinkGoes
    PROVE  Acyclic'
<1>1. CASE prerequisites' \subseteq prerequisites
  <2>1. \A u \in Tasks : Needs(u)' \subseteq Needs(u)
    BY <1>1 DEF Needs
  <2> QED BY <2>1 DEF Acyclic
<1>2. CASE LinkComes
  BY <1>2, LinkKeepsAcyclic DEF LinkComes, TypeOK
<1> QED BY <1>1, <1>2 DEF OneChanges, LinkGoes

LEMMA FinishedStep ==
    ASSUME TypeOK, FinishedInOrder, OneChanges \/ LinkComes \/ LinkGoes
    PROVE  FinishedInOrder'
<1> SUFFICES ASSUME NEW v \in Tasks, NEW p \in Tasks, tasks'[v].state = "completed",
                    <<v, p>> \in prerequisites'
             PROVE  tasks'[p].state = "completed"
  BY DEF FinishedInOrder, Needs
<1>1. ASSUME NEW u \in Tasks, tasks[u].state = "completed",
             OneChanges \/ LinkComes \/ LinkGoes
      PROVE  tasks'[u].state = "completed"
  <2>1. \A target \in States : <<"completed", target>> \notin Lifecycle
    BY DEF Lifecycle, Finished, States
  <2>2. ~Moves(u) /\ ~Parks(u)
    BY <1>1, <2>1 DEF Moves, Parks, MayMove, Finished
  <2> QED BY <1>1, <2>2 DEF OneChanges, LinkComes, LinkGoes, Keeps, IsGiven, ComesOrGoes
<1>2. CASE <<v, p>> \in prerequisites /\ tasks[v].state = "completed"
  <2>1. tasks[p].state = "completed"
    BY <1>2 DEF FinishedInOrder, Needs
  <2> QED BY <1>1, <2>1
<1>3. CASE tasks[v].state # "completed"
  <2>1. Moves(v) /\ prerequisites' = prerequisites
    BY <1>3 DEF OneChanges, LinkComes, LinkGoes, Keeps, Parks, IsGiven, ComesOrGoes
  <2>2. AllSatisfied(v)
    BY <2>1 DEF Moves, MayMove, Gated
  <2>3. tasks[p].state = "completed"
    BY <2>1, <2>2 DEF AllSatisfied, Needs, Satisfies
  <2> QED BY <1>1, <2>3
<1>4. CASE <<v, p>> \notin prerequisites /\ tasks[v].state = "completed"
  <2>1. MayNeed(v, p)
    BY <1>4 DEF OneChanges, LinkComes, LinkGoes
  <2> QED BY <1>4, <2>1 DEF MayNeed, Finished
<1> QED BY <1>2, <1>3, <1>4

LEMMA GoneStep ==
    ASSUME TypeOK, GoneUnowned, OneChanges \/ LinkComes \/ LinkGoes
    PROVE  GoneUnowned'
<1> SUFFICES ASSUME NEW v \in Tasks, tasks'[v].gone
             PROVE  tasks'[v].owner = Nobody
  BY DEF GoneUnowned
<1> QED BY DEF GoneUnowned, OneChanges, LinkComes, LinkGoes, Keeps, Moves, MayMove,
               Present, Parks, IsGiven, ComesOrGoes

(* Who is active after a step was active, or has just been moved there.    *)
Holds(v) == Present(v) /\ tasks[v].state = "active" /\ tasks[v].owner # Nobody

LEMMA HolderWas ==
    ASSUME TypeOK, GoneUnowned, OneChanges \/ LinkComes \/ LinkGoes,
           NEW v \in Tasks, Holds(v)'
    PROVE  \/ Holds(v) /\ tasks'[v].owner = tasks[v].owner
           \/ HoldsNoOther(tasks'[v].owner, v) /\ \A u \in Tasks \ {v} : Keeps(u)
<1>1. CASE Keeps(v)
  BY <1>1 DEF Keeps, Holds, Present
<1>2. CASE ~Keeps(v)
  <2>1. /\ \A u \in Tasks \ {v} : Keeps(u)
        /\ Moves(v) \/ Parks(v) \/ IsGiven(v) \/ ComesOrGoes(v)
    BY <1>2 DEF OneChanges, LinkComes, LinkGoes
  <2>2. CASE Moves(v)
    BY <2>1, <2>2 DEF Moves, MayMove, Holds
  <2>3. CASE Parks(v)
    BY <2>3 DEF Parks, Holds
  <2>4. CASE IsGiven(v)
    BY <2>1, <2>4 DEF IsGiven, Holds, Present
  <2>5. CASE ComesOrGoes(v)
    BY <2>5 DEF ComesOrGoes, GoneUnowned, Holds, Present
  <2> QED BY <2>1, <2>2, <2>3, <2>4, <2>5
<1> QED BY <1>1, <1>2

LEMMA OneActiveStep ==
    ASSUME TypeOK, GoneUnowned, OneActive, OneChanges \/ LinkComes \/ LinkGoes
    PROVE  OneActive'
<1> SUFFICES ASSUME NEW v \in Tasks, NEW u \in Tasks, Holds(v)', Holds(u)',
                    tasks'[v].owner = tasks'[u].owner, v # u
             PROVE  FALSE
  BY DEF OneActive, Holds
<1>1. ASSUME NEW a \in Tasks, NEW b \in Tasks, a # b, Holds(a)', Holds(b)',
             tasks'[a].owner = tasks'[b].owner,
             HoldsNoOther(tasks'[a].owner, a), \A c \in Tasks \ {a} : Keeps(c)
      PROVE  FALSE
  <2>1. Keeps(b)
    BY <1>1
  <2>2. Holds(b) /\ tasks[b].owner = tasks'[a].owner
    BY <1>1, <2>1 DEF Keeps, Holds, Present
  <2> QED BY <1>1, <2>2 DEF HoldsNoOther, Holds
<1>2. CASE /\ Holds(v) /\ tasks'[v].owner = tasks[v].owner
           /\ Holds(u) /\ tasks'[u].owner = tasks[u].owner
  BY <1>2 DEF OneActive, Holds
<1> QED BY <1>1, <1>2, HolderWas

-----------------------------------------------------------------------------
(* The theorems.                                                           *)

LEMMA Initially ==
    ASSUME Init
    PROVE  Inv
<1>1. NoBlock \in Blocks
  BY DEF NoBlock, Blocks, Waits, Notes
<1>2. \A w \in Workers \union {Nobody} :
        [state |-> "draft", owner |-> w, gone |-> FALSE, block |-> NoBlock] \in Rows
  BY <1>1 DEF Rows, States
<1>3. \A t \in Tasks : \E w \in Workers \union {Nobody} :
        tasks[t] = [state |-> "draft", owner |-> w, gone |-> FALSE, block |-> NoBlock]
  BY DEF Init
<1>4. TypeOK
  <2>1. tasks \in [Tasks -> Rows]
    BY <1>2 DEF Init
  <2>2. crashes \in 0..MaxCrashes
    BY BoardAssumption DEF Init
  <2> QED BY <1>3, <2>1, <2>2 DEF Init, TypeOK
<1>5. Acyclic /\ FinishedInOrder
  BY DEF Init, Acyclic, FinishedInOrder, Needs
<1>6. GoneUnowned /\ OneActive
  <2>1. \A t \in Tasks : tasks[t].state = "draft" /\ tasks[t].gone = FALSE
    <3> TAKE t \in Tasks
    <3>1. PICK w \in Workers \union {Nobody} :
            tasks[t] = [state |-> "draft", owner |-> w, gone |-> FALSE, block |-> NoBlock]
      BY <1>3
    <3> QED BY <3>1
  <2> QED BY <2>1 DEF GoneUnowned, OneActive
<1> QED BY <1>4, <1>5, <1>6 DEF Inv

LEMMA OthersStep ==
    ASSUME TypeOK, [Next]_vars
    PROVE  OthersOK'
<1> USE DEF TypeOK, OthersOK
<1>1. ASSUME NEW t \in Tasks, NEW target \in States, NEW note \in Notes,
             Transition(t, target, note)
      PROVE  OthersOK'
  BY <1>1 DEF Transition, Withdrawn
<1>2. ASSUME NEW t \in Tasks, NEW w \in Workers, Assign(t, w)
      PROVE  OthersOK'
  BY <1>2 DEF Assign
<1>3. ASSUME NEW t \in Tasks, NEW p \in Tasks,
             AddPrerequisite(t, p) \/ RemovePrerequisite(t, p)
      PROVE  OthersOK'
  BY <1>3 DEF AddPrerequisite, RemovePrerequisite
<1>4. ASSUME NEW t \in Tasks, Unassign(t) \/ Remove(t) \/ Restore(t)
      PROVE  OthersOK'
  BY <1>4 DEF Unassign, Remove, Restore, Withdrawn
<1>5. ASSUME NEW t \in Tasks, Ask(t) \/ LinkDecision(t) \/ Answer(t)
      PROVE  OthersOK'
  BY <1>5 DEF Ask, LinkDecision, Answer
<1>6. ASSUME NEW t \in Tasks, BlockOwed(t) \/ Done(t) \/ TimeArrives(t) \/ Resume(t)
      PROVE  OthersOK'
  BY <1>6 DEF BlockOwed, Done, TimeArrives, Resume
<1>7. ASSUME Read \/ Crash \/ UNCHANGED vars
      PROVE  OthersOK'
  BY <1>7, BoardAssumption DEF Read, Crash, vars
<1> QED BY <1>1, <1>2, <1>3, <1>4, <1>5, <1>6, <1>7 DEF Next

THEOREM Inductive == Spec => []Inv
<1>1. Init => Inv
  BY Initially
<1>2. Inv /\ [Next]_vars => Inv'
  <2> SUFFICES ASSUME Inv, [Next]_vars
               PROVE  Inv'
    OBVIOUS
  <2>1. TypeOK /\ Acyclic /\ FinishedInOrder /\ GoneUnowned /\ OneActive
    BY DEF Inv
  <2>2. RowsOK' /\ (OneChanges \/ LinkComes \/ LinkGoes)
    BY <2>1, Steps, TypeParts
  <2>3. TypeOK'
    BY <2>1, <2>2, OthersStep DEF TypeOK, RowsOK, OthersOK
  <2>4. Acyclic' /\ FinishedInOrder' /\ GoneUnowned' /\ OneActive'
    BY <2>1, <2>2, AcyclicStep, FinishedStep, GoneStep, OneActiveStep
  <2> QED BY <2>3, <2>4 DEF Inv
<1> QED BY <1>1, <1>2, PTL DEF Spec

(* Every row the board's transactions leave is one it can show.            *)
THEOREM BoardTypeOK == Spec => []TypeOK
<1>1. Inv => TypeOK
  BY DEF Inv
<1> QED BY Inductive, <1>1, PTL

(* However many tasks there are and in whatever order links are added,     *)
(* validate_task_prerequisite lets no circle of prerequisites arise.       *)
THEOREM NeverCircular == Spec => []Acyclic
<1>1. Inv => Acyclic
  BY DEF Inv
<1> QED BY Inductive, <1>1, PTL

(* No task is Completed before what it needs, by any of the ways there.    *)
THEOREM CompletedInOrder == Spec => []FinishedInOrder
<1>1. Inv => FinishedInOrder
  BY DEF Inv
<1> QED BY Inductive, <1>1, PTL

(* No worker holds two active tasks, also after a removal and a restore.   *)
THEOREM WorkerHoldsOne == Spec => []OneActive
<1>1. Inv => OneActive
  BY DEF Inv
<1> QED BY Inductive, <1>1, PTL

=============================================================================
