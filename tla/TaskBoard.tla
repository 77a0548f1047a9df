------------------------------- MODULE TaskBoard -------------------------------
(***************************************************************************)
(* The board's tasks and what a blocked one waits for.                     *)
(*                                                                         *)
(* Tasks move through a lifecycle (swarm-domain tasks.rs), may name other  *)
(* tasks as prerequisites and operator decisions they wait for, and a      *)
(* block records what ends it (task_waits.rs, ADR 0119).  Each method of   *)
(* the store is one transaction and one action here.  What takes several   *)
(* transactions is several actions with a gap in between: a request that   *)
(* links a gate and then blocks the task (swarm-application), and the      *)
(* pass that reads the cleared waits and then moves the tasks one by one.  *)
(*                                                                         *)
(* Abstracted: a task has at most one decision that is pending; an         *)
(* `outside' wait is the same as a `date' wait, for both hold a time;      *)
(* who may ask for which move is not told apart; Jira, whose state is      *)
(* canonical and overrides the lifecycle, is left out.                     *)
(***************************************************************************)
EXTENDS FiniteSets, Naturals

CONSTANTS
    Tasks,
    Workers,
    Nobody,
    Linked,         \* bound: the pairs that may become prerequisites
    Asked,          \* bound: the tasks decisions are asked about
    Removable,      \* bound: the tasks that may be removed
    MaxCrashes      \* bound: restarts of the API

ASSUME BoardAssumption ==
    /\ Nobody \notin Workers
    /\ Linked \subseteq Tasks \X Tasks
    /\ Asked \subseteq Tasks /\ Removable \subseteq Tasks
    /\ MaxCrashes \in Nat

VARIABLES
    tasks,          \* the rows of `tasks', each with its current block's wait
    prerequisites,  \* task_prerequisites: <<task, what it waits for>>
    pending,        \* tasks with an operator decision that is not answered
    owed,           \* tasks a request has asked or linked and is about to block
    due,            \* tasks a pass has read as cleared and not yet moved
    crashes         \* restarts so far

vars == <<tasks, prerequisites, pending, owed, due, crashes>>

States == {"draft", "ready", "active", "blocked", "review",
           "awaiting_release", "completed", "abandoned"}
Finished == {"completed", "abandoned"}
Notes == {"none", "operator", "date"}           \* what a Blocked note names
Waits == Notes \union {"task", "decision"}

(* draft: the current block's activity entry says it came from Draft.      *)
(* wait, met: the current block's row of task_waits, and whether Done was  *)
(* pressed or its time arrived.  A block that is left keeps its row as     *)
(* history, which nothing reads, so it is forgotten here.                  *)
(* asked: history, whether a decision was pending when the block was made. *)
NoBlock == [draft |-> FALSE, wait |-> "none", met |-> FALSE, asked |-> FALSE]
Blocks == [draft : BOOLEAN, wait : Waits, met : BOOLEAN, asked : BOOLEAN]
Rows == [state : States, owner : Workers \union {Nobody}, gone : BOOLEAN,
         block : Blocks]

Present(t) == ~tasks[t].gone
Blocked(t) == Present(t) /\ tasks[t].state = "blocked"
Needs(t) == {p \in Tasks : <<t, p>> \in prerequisites}

-----------------------------------------------------------------------------
(* The gates.                                                              *)

(* TaskPrerequisite::satisfied and ::outstanding.                          *)
Satisfies(p) == Present(p) /\ tasks[p].state = "completed"
Outstanding(p) == Present(p) /\ tasks[p].state \notin Finished

AllSatisfied(t) == \A p \in Needs(t) : Satisfies(p)
SomeOutstanding(t) == \E p \in Needs(t) : Outstanding(p)
GatesClear(t) == AllSatisfied(t) /\ t \notin pending

(* live_gate: the wait that a block without one in its note has.           *)
LiveGate(t) ==
    CASE SomeOutstanding(t) -> "task"
      [] ~SomeOutstanding(t) /\ t \in pending -> "decision"
      [] OTHER -> "none"

\* Mistake: an operator action hides the decision that is pending.
NoteWaitAsWritten(t, note) == IF note = "none" THEN LiveGate(t) ELSE note

(* record_note_wait: a pending decision outranks "Waiting on: operator".   *)
NoteWait(t, note) ==
    IF note = "none" \/ (note = "operator" /\ t \in pending) THEN LiveGate(t) ELSE note

(* The query of resume_cleared_waits.                                      *)
Cleared(t) ==
    /\ Blocked(t)
    /\ GatesClear(t)
    /\ \/ tasks[t].block.wait \in {"task", "decision"}
       \/ tasks[t].block.wait \in {"operator", "date"} /\ tasks[t].block.met
    /\ ~tasks[t].block.draft

-----------------------------------------------------------------------------
(* The lifecycle.                                                          *)

(* TaskState::can_transition_to.                                           *)
Lifecycle ==
    {<<"draft", "ready">>, <<"draft", "blocked">>,
     <<"ready", "active">>, <<"ready", "blocked">>,
     <<"active", "blocked">>, <<"active", "review">>,
     <<"blocked", "ready">>, <<"blocked", "active">>,
     <<"review", "active">>, <<"review", "ready">>,
     <<"review", "awaiting_release">>, <<"review", "completed">>,
     <<"awaiting_release", "active">>, <<"awaiting_release", "completed">>}
    \union ((States \ Finished) \X {"abandoned"})

(* ensure_draft_move_matches_its_wait.                                     *)
DraftMayMove(t, target) ==
    /\ target = "blocked" => SomeOutstanding(t) \/ t \in pending
    /\ target = "ready" => ~SomeOutstanding(t)

(* ensure_worker_holds_no_other_active_task.                               *)
HoldsNoOther(w, t) ==
    w # Nobody =>
        \A u \in Tasks \ {t} : ~(Present(u) /\ tasks[u].owner = w /\ tasks[u].state = "active")

Gated == {"ready", "active", "completed", "awaiting_release"}

\* Mistake: only the way back to work asks for the prerequisites.
MayMoveUnfinished(t, target) ==
    /\ Present(t)
    /\ <<tasks[t].state, target>> \in Lifecycle
    /\ tasks[t].state = "draft" => DraftMayMove(t, target)
    /\ target = "active" => HoldsNoOther(tasks[t].owner, t)
    /\ target \in {"ready", "active"} => AllSatisfied(t)

(* The guards of transition_task_guarded.                                  *)
MayMove(t, target) ==
    /\ Present(t)
    /\ <<tasks[t].state, target>> \in Lifecycle
    /\ tasks[t].state = "draft" => DraftMayMove(t, target)
    /\ target = "active" => HoldsNoOther(tasks[t].owner, t)
    /\ target \in Gated => AllSatisfied(t)

\* Mistake: a task that leaves its block keeps the wait.
MovedWaiting(t, target, note) ==
    [tasks EXCEPT ![t] =
        [@ EXCEPT !.state = target,
                  !.block = IF target # "blocked" THEN @
                            ELSE [draft |-> tasks[t].state = "draft",
                                  wait |-> NoteWait(t, note),
                                  met |-> FALSE,
                                  asked |-> t \in pending]]]

(* ... and what it writes.                                                 *)
Moved(t, target, note) ==
    [tasks EXCEPT ![t] =
        [@ EXCEPT !.state = target,
                  !.block = IF target # "blocked" THEN NoBlock
                            ELSE [draft |-> tasks[t].state = "draft",
                                  wait |-> NoteWait(t, note),
                                  met |-> FALSE,
                                  asked |-> t \in pending]]]

(* A command request of a task that is finished or removed is withdrawn;   *)
(* any other request stays.                                                *)
Withdrawn(t) == {pending, pending \ {t}}

Init ==
    /\ tasks \in [Tasks -> {[state |-> "draft", owner |-> w, gone |-> FALSE, block |-> NoBlock] :
                              w \in Workers \union {Nobody}}]
    /\ prerequisites = {}
    /\ pending = {}
    /\ owed = {}
    /\ due = {}
    /\ crashes = 0

Transition(t, target, note) ==
    /\ MayMove(t, target)
    /\ note # "none" => target = "blocked"
    /\ tasks' = Moved(t, target, note)
    /\ IF target \in Finished THEN pending' \in Withdrawn(t) ELSE UNCHANGED pending
    /\ UNCHANGED <<prerequisites, owed, due, crashes>>

\* Mistake: only starting a task asks whether its worker has another.
AssignUnchecked(t, w) ==
    /\ Present(t)
    /\ tasks[t].state # "completed"
    /\ w # Nobody
    /\ tasks' = [tasks EXCEPT ![t].owner = w]
    /\ UNCHANGED <<prerequisites, pending, owed, due, crashes>>

Assign(t, w) ==
    /\ Present(t)
    /\ tasks[t].state # "completed"
    /\ w # Nobody
    /\ tasks[t].state = "active" => HoldsNoOther(w, t)
    /\ tasks' = [tasks EXCEPT ![t].owner = w]
    /\ UNCHANGED <<prerequisites, pending, owed, due, crashes>>

Unassign(t) ==
    /\ tasks[t].state # "completed"
    /\ tasks' = [tasks EXCEPT ![t].owner = Nobody]
    /\ UNCHANGED <<prerequisites, pending, owed, due, crashes>>

Remove(t) ==
    /\ t \in Removable
    /\ Present(t)
    /\ tasks[t].state \notin {"active", "review"}
    /\ tasks' = [tasks EXCEPT ![t].gone = TRUE, ![t].owner = Nobody]
    /\ pending' \in Withdrawn(t)
    /\ UNCHANGED <<prerequisites, owed, due, crashes>>

Restore(t) ==
    /\ ~Present(t)
    /\ tasks' = [tasks EXCEPT ![t].gone = FALSE]
    /\ UNCHANGED <<prerequisites, pending, owed, due, crashes>>

-----------------------------------------------------------------------------
(* Prerequisites and decisions.                                            *)

(* type_untyped_block, with the gates as the transaction leaves them.      *)
Typed(t, gate) ==
    IF Blocked(t) /\ tasks[t].block.wait = "none"
    THEN [tasks EXCEPT ![t].block.wait = gate]
    ELSE tasks

(* The walk of validate_task_prerequisite: everything reached from p.      *)
Closed(S, graph) == \A e \in graph : e[1] \in S => e[2] \in S
Reached(p, graph) ==
    {u \in Tasks : \A S \in SUBSET Tasks : p \in S /\ Closed(S, graph) => u \in S}

\* Mistake: the walk starts at the task instead of its prerequisite.
MayNeedBackwards(t, p) ==
    /\ Present(t) /\ Present(p)
    /\ tasks[t].state \notin Finished
    /\ t # p
    /\ p \notin Reached(t, prerequisites)

(* local_task of both, and validate_task_prerequisite.                     *)
MayNeed(t, p) ==
    /\ Present(t) /\ Present(p)
    /\ tasks[t].state \notin Finished
    /\ t # p
    /\ t \notin Reached(p, prerequisites)

(* add_task_prerequisite; on the way of Queen and the operator, an Active  *)
(* task that gained one still open is blocked by a transition that follows. *)
AddPrerequisite(t, p) ==
    /\ <<t, p>> \in Linked \ prerequisites
    /\ MayNeed(t, p)
    /\ prerequisites' = prerequisites \union {<<t, p>>}
    /\ tasks' = Typed(t, CASE SomeOutstanding(t) \/ Outstanding(p) -> "task"
                           [] OTHER -> LiveGate(t))
    /\ owed' \in IF tasks[t].state = "active" /\ Outstanding(p)
                 THEN {owed, owed \union {t}} ELSE {owed}
    /\ UNCHANGED <<pending, due, crashes>>

RemovePrerequisite(t, p) ==
    /\ Present(t)
    /\ <<t, p>> \in prerequisites
    /\ prerequisites' = prerequisites \ {<<t, p>>}
    /\ UNCHANGED <<tasks, pending, owed, due, crashes>>

(* create_decision: a worker that asks about its own Active task is        *)
(* blocked by a transition that follows, unless it said to keep working.   *)
Ask(t) ==
    /\ t \in Asked \ pending
    /\ pending' = pending \union {t}
    /\ owed' \in IF Present(t) /\ tasks[t].state = "active"
                 THEN {owed, owed \union {t}} ELSE {owed}
    /\ UNCHANGED <<tasks, prerequisites, due, crashes>>

(* add_task_decision_link: a decision asked elsewhere gates this task too. *)
LinkDecision(t) ==
    /\ t \in Asked \ pending
    /\ Present(t) /\ tasks[t].state \notin Finished
    /\ pending' = pending \union {t}
    /\ tasks' = Typed(t, IF SomeOutstanding(t) THEN "task" ELSE "decision")
    /\ UNCHANGED <<prerequisites, owed, due, crashes>>

(* park_when_operator_owes_the_action: its activity entry names no state   *)
(* the task came from.                                                     *)
Parked(t) ==
    [tasks EXCEPT ![t] =
        [@ EXCEPT !.state = "blocked",
                  !.block = [NoBlock EXCEPT !.wait = "operator"]]]

(* resolve_decision_request, with an action that the operator said is      *)
(* theirs to do, or another.                                               *)
Answer(t) ==
    /\ t \in pending
    /\ pending' = pending \ {t}
    /\ \/ UNCHANGED tasks
       \/ /\ Present(t)
          /\ tasks[t].state \notin Finished \union {"blocked"}
          /\ tasks' = Parked(t)
    /\ UNCHANGED <<prerequisites, owed, due, crashes>>

(* The block that Ask or AddPrerequisite owes: transition_worker_task, or  *)
(* transition_task_with_note_as.  Refused where the lifecycle refuses it.  *)
BlockOwed(t) ==
    /\ t \in owed
    /\ owed' = owed \ {t}
    /\ tasks' = IF MayMove(t, "blocked") THEN Moved(t, "blocked", "none") ELSE tasks
    /\ UNCHANGED <<prerequisites, pending, due, crashes>>

-----------------------------------------------------------------------------
(* What ends a wait.                                                       *)

(* complete_operator_wait; the pass it runs next is Read and Resume.       *)
Done(t) ==
    /\ Blocked(t)
    /\ tasks[t].block.wait = "operator" /\ ~tasks[t].block.met
    /\ tasks' = [tasks EXCEPT ![t].block.met = TRUE]
    /\ UNCHANGED <<prerequisites, pending, owed, due, crashes>>

TimeArrives(t) ==
    /\ tasks[t].block.wait = "date" /\ ~tasks[t].block.met
    /\ tasks' = [tasks EXCEPT ![t].block.met = TRUE]
    /\ UNCHANGED <<prerequisites, pending, owed, due, crashes>>

\* Mistake: the pass reads the waits on tasks and decisions only.
ReadGatesOnly ==
    /\ due' = due \union {t \in Tasks : Cleared(t) /\ tasks[t].block.wait \in {"task", "decision"}}
    /\ due' # due
    /\ UNCHANGED <<tasks, prerequisites, pending, owed, crashes>>

(* A pass reads which waits are cleared.  Passes run every 30 seconds and  *)
(* after every Done, beside each other: `due' is what they all hold.       *)
Read ==
    /\ due' = due \union {t \in Tasks : Cleared(t)}
    /\ due' # due
    /\ UNCHANGED <<tasks, prerequisites, pending, owed, crashes>>

(* ... and moves each through the ordinary transition, or reports it held. *)
Resume(t) ==
    /\ t \in due
    /\ due' = due \ {t}
    /\ tasks' = IF MayMove(t, "ready") THEN Moved(t, "ready", "none") ELSE tasks
    /\ UNCHANGED <<prerequisites, pending, owed, crashes>>

Crash ==
    /\ crashes < MaxCrashes
    /\ crashes' = crashes + 1
    /\ owed' = {} /\ due' = {}
    /\ UNCHANGED <<tasks, prerequisites, pending>>

Next ==
    \/ \E t \in Tasks :
        \/ \E target \in States, note \in Notes : Transition(t, target, note)
        \/ \E w \in Workers : Assign(t, w)
        \/ Unassign(t) \/ Remove(t) \/ Restore(t)
        \/ \E p \in Tasks : AddPrerequisite(t, p) \/ RemovePrerequisite(t, p)
        \/ Ask(t) \/ LinkDecision(t) \/ Answer(t) \/ BlockOwed(t)
        \/ Done(t) \/ TimeArrives(t)
        \/ Resume(t)
    \/ Read
    \/ Crash

(* The coordination pass runs every 30 seconds.  Nothing is assumed of the *)
(* operator, the workers and Queen.                                        *)
Fairness ==
    /\ WF_vars(Read)
    /\ \A t \in Tasks : WF_vars(Resume(t))

Spec == Init /\ [][Next]_vars /\ Fairness

-----------------------------------------------------------------------------
(* Properties.                                                             *)

(* Every row is one the board can show, and only blocked tasks have a wait. *)
TypeOK ==
    /\ tasks \in [Tasks -> Rows]
    /\ \A t \in Tasks : tasks[t].state # "blocked" => tasks[t].block = NoBlock
    /\ prerequisites \subseteq Tasks \X Tasks
    /\ pending \subseteq Tasks /\ owed \subseteq Tasks /\ due \subseteq Tasks
    /\ crashes \in 0..MaxCrashes

(* Tasks never wait for each other in a circle: among any tasks, one waits *)
(* for none of the others, whatever links were added in whatever order     *)
(* (validate_task_prerequisite).                                           *)
Acyclic ==
    \A S \in SUBSET Tasks : S # {} => \E t \in S : Needs(t) \intersect S = {}

(* What is completed has nothing it needs left to do: no way to Completed  *)
(* goes past an open prerequisite, and none is added afterwards.  A        *)
(* prerequisite that was completed may be removed from the board.          *)
FinishedInOrder ==
    \A t \in Tasks : tasks[t].state = "completed" =>
        \A p \in Needs(t) : tasks[p].state = "completed"

(* A worker never holds two active tasks, by starting one, by being given  *)
(* one, or by a task that comes back (ADR 0047).                           *)
OneActive ==
    \A t, u \in Tasks :
        /\ Present(t) /\ tasks[t].state = "active"
        /\ Present(u) /\ tasks[u].state = "active"
        /\ tasks[t].owner = tasks[u].owner /\ tasks[t].owner # Nobody
        => t = u

(* A wait that has cleared brings its task back, or stops being clear.     *)
ClearedComesBack == \A t \in Tasks : Cleared(t) ~> ~Cleared(t)

(* A task blocked while a decision was pending comes back once its gates   *)
(* are clear, whatever its note said the operator owes (record_note_wait). *)
Answered(t) ==
    /\ Blocked(t) /\ tasks[t].block.asked /\ ~tasks[t].block.draft
    /\ GatesClear(t)
    /\ tasks[t].block.wait = "date" => tasks[t].block.met
AnsweredComesBack == \A t \in Tasks : Answered(t) ~> ~Answered(t)
=============================================================================
